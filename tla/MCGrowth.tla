-------------------------------- MODULE MCGrowth --------------------------------
(* Instances of the liquidity flywheel for TLC. *)
EXTENDS GrowthProperties, TLC

Curve(fees) == [mediumPressureBps |-> 2, highPressureBps |-> 4, extremePressureBps |-> 6,
                baseFeeBps |-> fees[1], mediumFeeBps |-> fees[2],
                highFeeBps |-> fees[3], extremeFeeBps |-> fees[4]]

\* BPS = 4: pressures of 50 %, 100 % and 150 % of the depth, fees of 25 % and 50 %.
Rising == Curve(<<1, 1, 2, 2>>)
Flat   == Curve(<<2, 2, 2, 2>>)
MCInitialCurves == [side \in Sides |-> Rising]
MCCurves == [side \in Sides |-> IF side = "buy" THEN {Flat} ELSE {}]
MCDepths == [side \in Sides |-> IF side = "buy" THEN {3} ELSE {}]

MCLimit == [c \in Currencies |-> 2]
MCPrices == {[c \in Currencies |-> 1]}
MCBounties == {[bps |-> 2, minCompoundBase |-> 1]}

\* Distributors are only compared with each other.
Symmetry == Permutations(Distributors)

--------------------------------------------------------------------------------
(* The search is split by topic: what a topic leaves out rests in its initial state.  *)

HookRests == /\ \A side \in Sides : pendingCurves[side] = {} /\ pendingDepth[side] = {}
             /\ curves = InitialCurves
             /\ flow["sell"].amount = 0 /\ flow["buy"].amount \in {0, 3}
DistributorRests == /\ vault.distributor = None /\ vault.pendingDistributor = {}
                    /\ vault.splitGenesisShareBps = 0
CompounderRests == /\ vault.compounder \in {None, V4_COMPOUNDER}
                   /\ vault.pendingCompounder = {} /\ vault.keeperBountyBps = 0
RecoveryRests == /\ \A k \in Compounders : compounders[k].recovery = {}
                 /\ \A c \in Currencies : given[c] = 0
MaintainerRests == job = IdleJob /\ txs = {} /\ ~vault.keeperAllowed

\* What is announced can still be executed within the search.
InReach(pending) == \A p \in pending : p.eta <= MaxNow

AboutFees == /\ DistributorRests /\ CompounderRests /\ MaintainerRests /\ RecoveryRests
             /\ flow["sell"].amount = 0 \/ (flow["sell"].amount = 3 /\ flow["buy"].amount \in {0, 3})
             /\ vault.compounder = None /\ \A c \in Currencies : donated[c] = 0
AboutRoutes == /\ HookRests /\ CompounderRests /\ MaintainerRests /\ RecoveryRests
               /\ ~vault.compounderFrozen
               /\ donated["token"] <= 1 /\ books.compounded["token"] <= 1
AboutTargets == /\ HookRests /\ DistributorRests /\ MaintainerRests /\ RecoveryRests
                /\ Arrived("token") <= 1
\* Compounder c1 may have a position; each bank may go to the other, the vault or outside.
AboutRecovery ==
    /\ HookRests /\ ~poolRegistered /\ DistributorRests /\ CompounderRests /\ MaintainerRests
    /\ ~vault.compounderFrozen
    /\ now < MaxNow => \A c \in Currencies : Arrived(c) + given[c] <= 1
    /\ now > 1 => vault.compounder # None /\ \A c \in Currencies : Arrived(c) + given[c] > 0
    /\ \A k \in Compounders : \A p \in compounders[k].recovery :
          /\ p.eta <= MaxNow
          /\ p.target.kind = "MigratePosition" => p.target.to = Outside
          /\ k # V4_COMPOUNDER => p.target.kind = "RecoverPoolTokens" /\ p.target.to # Outside

\* Answers commute unless what they tell can change in between: one order of the others.
Answered(orders) == job.step = "reading" =>
    /\ job.answered \ job.right \subseteq {"compounderFrozen"}
    /\ \E n \in 0 .. 4, order \in orders : job.answered = {order[m] : m \in 1 .. n}

AboutMaintainer ==
    /\ HookRests /\ ~poolRegistered /\ DistributorRests /\ vault.keeperBountyBps = 0
    /\ now > 1 => vault.keeperAllowed /\ vault.compounder # None
    /\ Cardinality(txs) <= 1 /\ \A c \in Currencies : given[c] = 0

\* A run and the recovery of the compounder that is frozen.
AboutFrozen ==
    /\ AboutMaintainer /\ CompounderRests
    /\ now > 1 \/ job # IdleJob => vault.compounderFrozen /\ vault.keeperAllowed
    /\ Answered({<<"pendingRecovery", "compounder", "compounderFrozen", "routeMode">>})
    /\ InReach(compounders[V4_COMPOUNDER].recovery)
    /\ \A p \in compounders[V4_COMPOUNDER].recovery : p.target = [kind |-> "WindDown", to |-> Outside]
    /\ \A k \in Compounders \ {V4_COMPOUNDER} : compounders[k].recovery = {}

\* A run and the replacement of a compounder that is not frozen yet.
AboutReplaced ==
    /\ AboutMaintainer /\ RecoveryRests
    /\ InReach(vault.pendingCompounder)
    /\ \A p \in vault.pendingCompounder : p.target # V4_COMPOUNDER
    /\ now > 1 => \A c \in Currencies : Arrived(c) > 0
    /\ job # IdleJob => now > TARGET_UPDATE_DELAY
    /\ Answered({<<"compounder", "compounderFrozen", "routeMode", "pendingRecovery">>,
                 <<"compounderFrozen", "compounder", "routeMode", "pendingRecovery">>})

OneTopic == /\ now > 1 => vault.hook
            /\ \/ now <= 3 /\ (AboutFees \/ AboutRoutes \/ AboutTargets)
               \/ AboutRecovery
               \/ AboutFrozen
               \/ AboutReplaced
================================================================================
