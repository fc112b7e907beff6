-------------------------- MODULE NaraEngineProperties --------------------------
(* What must hold of NARAEngine.sol.                                               *)
EXTENDS NaraEngine

--------------------------------------------------------------------------------
CoreType ==
    [epoch : Epochs, config : Configs, stagedConfig : Configs \cup {NoConfig},
     stagedConfigEpoch : Nat, activeTotalWeight : Nat,
     scheduledActivationWeight : [Epochs -> Nat],
     scheduledDeactivationWeight : [Epochs -> Nat],
     naraIndexRay : Nat, ethIndexRay : Nat,
     naraIndexAtEpoch : [Epochs -> Nat], ethIndexAtEpoch : [Epochs -> Nat],
     pendingEthForNextEpoch : Nat, totalPendingNaraRewards : Nat,
     trackedEmissionReserve : Nat, totalNaraDripPaid : Nat,
     balance : Nat, reserve : ReserveType]

DebtType == Nat \cup {DEBT_UNINITIALISED}
PositionType ==
    [owner : Owners, countsOwnerCap : BOOLEAN, createdEpoch : Epochs, amount : Nat,
     weight : Nat \ {0}, activationEpoch : Epochs, unlockEpoch : Epochs,
     tokenWeight : Nat \ {0}, naraDebtRay : DebtType, ethDebtRay : DebtType,
     tokenDebtRay : Nat]

\* Type correctness: no unsigned quantity of the contract goes below zero, and the
\* settled epoch never runs ahead of the clock.
TypeOK ==
    /\ now \in 0 .. MaxTime
    /\ core \in CoreType /\ core.epoch <= CurrentEpoch
    /\ totalLocked \in Nat
    /\ positions \in Seq(PositionType)
    /\ ownerPositionCount \in [Owners -> Nat]
    /\ pendingConfig \in [config : Configs \cup {NoConfig}, timestamp : Nat]
    /\ fees \in [lockFeeBps : FeeBpsChoices \cup {0}, claimFeeBps : FeeBpsChoices \cup {0},
                 lockFeeWei : Nat, unlockFeeWei : Nat]
    /\ eth \in [balance : Nat, accumulatedTreasuryEthFees : Nat, received : Nat, claimed : Nat]
    /\ totalNaraDripClaimed \in Nat
    /\ token \in [indexRay : Nat, balance : Nat, notified : Nat,
                  checkpoints : Seq([epoch : Epochs, indexRay : Nat])]
    /\ rebases \in [count : Nat, shed : Nat]

--------------------------------------------------------------------------------
(* Aggregates against the positions they summarise *)

SumPositions(f) == SumTo(f, Len(positions))

\* The principal, the active weight, and the weight that starts or stops at an epoch,
\* summed over a sequence of positions.
IsActive(p, epoch) == p.activationEpoch <= epoch /\ epoch < p.unlockEpoch

Principals(ps) == SumTo([i \in DOMAIN ps |-> ps[i].amount], Len(ps))
ActiveWeight(ps, epoch) ==
    SumTo([i \in DOMAIN ps |-> When(IsActive(ps[i], epoch), ps[i].weight)], Len(ps))
StartingWeight(ps, epoch) ==
    SumTo([i \in DOMAIN ps |-> When(ps[i].activationEpoch = epoch, ps[i].weight)], Len(ps))
StoppingWeight(ps, epoch) ==
    SumTo([i \in DOMAIN ps |-> When(ps[i].unlockEpoch = epoch, ps[i].weight)], Len(ps))

\* totalLocked, which lock and unlock adjust by deltas, is exactly the principal of
\* the open positions.
PrincipalConserved == totalLocked = Principals(positions)

\* activeTotalWeight, the divisor of every distribution, is exactly the weight of the
\* positions active in the settled epoch.
ActiveWeightExact == core.activeTotalWeight = ActiveWeight(positions, core.epoch)

\* Both schedules hold, for every epoch to come, exactly the weight that will start
\* or stop then: the clamped subtractions of extend and of the epoch step never clamp.
SchedulesExact ==
    \A e \in Epochs : e > core.epoch =>
        /\ core.scheduledActivationWeight[e] = StartingWeight(positions, e)
        /\ core.scheduledDeactivationWeight[e] = StoppingWeight(positions, e)

\* The divisor and both schedules, together: whichever way locks, extensions under changed
\* configurations, unlocks and multi-epoch catch-ups follow each other, the weight that every
\* later distribution is divided by is the weight of the positions it is for.
WeightAggregatesExact == ActiveWeightExact /\ SchedulesExact

\* The per-owner counter, decremented unchecked in unlock, counts exactly the open
\* positions their owner created, and never exceeds the cap.
OwnerCountExact ==
    \A o \in Owners :
        /\ ownerPositionCount[o] = Cardinality({i \in Ids :
               /\ positions[i].owner = o /\ positions[i].countsOwnerCap
               /\ positions[i].amount # 0})
        /\ ownerPositionCount[o] <= MaxPositionsPerAccount

\* A staged configuration waits for the very next epoch: the step that compares for
\* equality cannot skip it, and proposals are never locked out by a stale one.
StagedConfigOnTime ==
    /\ core.stagedConfigEpoch # 0 => /\ core.stagedConfigEpoch = core.epoch + 1
                                     /\ core.stagedConfig \in Configs
                                     /\ pendingConfig.timestamp = 0
    /\ core.stagedConfigEpoch = 0 => core.stagedConfig = NoConfig

--------------------------------------------------------------------------------
(* Rewards against the funds behind them *)

\* The index up to which position p has earned by the settled epoch.
EarnedIndex(liveIndexAtEpoch, p) ==
    liveIndexAtEpoch[MinOf(core.epoch, p.unlockEpoch - 1)]

\* What an open position can still collect, the open epoch included.
Collectable(indexAtEpoch, p, debtRay) ==
    IF p.amount = 0 \/ core.epoch < p.activationEpoch THEN 0
    ELSE MulDiv(p.weight, EarnedIndex(indexAtEpoch, p), RAY)
         - (IF debtRay = DEBT_UNINITIALISED THEN OpeningDebt(p.weight, indexAtEpoch, p)
            ELSE debtRay)

OutstandingNara ==
    SumPositions([i \in Ids |->
        Collectable(core.naraIndexAtEpoch, positions[i], positions[i].naraDebtRay)])
OutstandingEth ==
    SumPositions([i \in Ids |->
        Collectable(core.ethIndexAtEpoch, positions[i], positions[i].ethDebtRay)])

\* A stretch of constant weight rounds its two ends down once each.
Stretches == Len(positions) + rebases.count

\* How many epochs p has been active in so far.
EpochsActive(epoch, p) ==
    IF epoch < p.activationEpoch THEN 0
    ELSE MinOf(epoch, p.unlockEpoch - 1) - p.activationEpoch + 1

\* What rounding the index increments down may lose: under 1 / RAY for every unit of
\* weight in every epoch it was active in, weights lowered by an extension included.
IndexDust ==
    (SumPositions([i \in Ids |-> positions[i].weight * EpochsActive(core.epoch, positions[i])])
        + rebases.shed) \div RAY

\* Every NARA distributed is collected or collectable exactly once: through claims,
\* extensions in an open epoch and unlocks, nothing is paid twice and nothing is lost
\* beyond one unit of rounding per stretch.
NaraRewardsConserved ==
    LET credited == totalNaraDripClaimed + OutstandingNara
    IN  /\ credited <= core.totalNaraDripPaid + Stretches
        /\ core.totalNaraDripPaid <= credited + Stretches + IndexDust

\* The engine's NARA covers principal, tracked reserve, and the rewards distributed
\* and not yet claimed; all flows, the pulls from the reserve included, are booked.
NaraBooksBalance ==
    /\ core.balance + totalNaraDripClaimed >=
           totalLocked + core.trackedEmissionReserve + core.totalNaraDripPaid
    /\ core.reserve.totalReleased <= core.reserve.allocation
    /\ core.reserve.balance >= 0 /\ Circulating(core) >= 0

\* The same for ETH: the balance is the fees held, the ETH queued for the next epoch
\* and what positions can collect, up to the rounding.
EthRewardsConserved ==
    LET owed == eth.accumulatedTreasuryEthFees + core.pendingEthForNextEpoch + OutstandingEth
    IN  /\ owed <= eth.balance + Stretches
        /\ eth.balance <= owed + Stretches + IndexDust

\* The engine holds the tokens that positions, closed ones included, may collect,
\* although extensions change weights after a distribution.
TokenRewardsFunded ==
    SumPositions([i \in Ids |->
        When(core.epoch >= positions[i].activationEpoch,
             TokenOwed(token, core.epoch, positions[i]).owed)])
        <= token.balance + Len(positions)

--------------------------------------------------------------------------------
(* Principal: the abstract custody this engine implements *)

DepositsOf(ps) ==
    [i \in DOMAIN ps |-> [owner |-> ps[i].owner, amount |-> ps[i].amount,
                          unlockEpoch |-> ps[i].unlockEpoch]]

Custody == INSTANCE PrincipalCustody WITH
    epoch <- core.epoch, deposits <- DepositsOf(positions), held <- totalLocked

\* The engine implements the custody promise: no interleaving of extends, claims,
\* configuration changes and multi-epoch catch-ups releases principal early or twice.
CustodyHeld == Custody!Spec

--------------------------------------------------------------------------------
(* Claims of the repository's fuzzing harness *)

\* echidna_engine_balance_covers_obligations: the engine holds enough NARA for
\* principal and pending rewards.
EngineBalanceCoversObligations ==
    core.balance >= totalLocked + core.totalPendingNaraRewards

\* echidna_drip_claimed_le_paid: claimed NARA drip never exceeds paid NARA drip.
DripClaimedLePaid == totalNaraDripClaimed <= core.totalNaraDripPaid
================================================================================
