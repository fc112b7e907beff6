----------------------------- MODULE GrowthProperties -----------------------------
(* What the liquidity flywheel promises to traders, holders and genesis positions.   *)
EXTENDS GrowthSystem, PrefixSum

\* However a block's flow is cut into swaps, and whatever update is executed between
\* them, the block has paid exactly the piecewise fee of its total flow, on the curve
\* and the depth of its first swap (_recordBlockFlow, _cumulativeFee): rounding neither
\* forgives a split swap its fee nor charges a unit twice.
FeeFollowsCurve ==
    \A side \in Sides :
        flow[side].charged = CumulativeFee(flow[side].curve, flow[side].amount, flow[side].depth)

\* Every token that came to the vault, as a fee or by a plain transfer, is still there,
\* was compounded, was paid as a bounty or reached a distributor; and every token that
\* came to a compounder, pulled by compound(), sent by anyone or recovered from another
\* one, is banked, went into the pool or left through a recovery. The totals of three
\* contracts agree to the last unit, wherever recoveries send a bank.
Held(c) ==
    SumOf(Compounders, [k \in Compounders |-> compounders[k].bank[c] + compounders[k].added[c]])

BooksBalance ==
    /\ Arrived("token") = balance["token"] + books.compounded["token"]
    /\ Arrived("base") = balance["base"] + books.compounded["base"]
                         + books.bountyPaid + books.routedToGenesis
    /\ books.routedToGenesis = SumOf(Distributors, received)
    /\ \A c \in Currencies : books.compounded[c] + given[c] = Held(c) + removed.bank[c]

\* Base that was promised to genesis positions goes to a single distributor, whatever
\* the order of proposals, route changes and freezes: setRouteMode asks for a frozen
\* distributor, and a frozen one can no longer be replaced.
OneDistributorPaid ==
    \A d \in Distributors :
        received[d] > 0 => vault.distributor = d /\ vault.distributorFrozen

\* The maintainer asks for the bindings, the freeze, the route and the pending recovery
\* in separate calls, simulates, and sends a transaction that may be included much later.
\* Whenever it is included, it pays the compounder that was verified, unless the Safe
\* froze another one between two answers (the one case that the script cannot see), and
\* the position is still the one that was read: a recovery announced after the check
\* cannot be executed before the transaction's deadline.
LandsOnVerified ==
    \A tx \in txs \ txs' :
        compounders' # compounders =>
            /\ vault.compounder = V4_COMPOUNDER \/ tx.raced
            /\ tx.position # 0 => compounders'[V4_COMPOUNDER].positionTokenId = tx.position

\* Not even then does a run report success, or send its heartbeat, for a transaction that
\* paid another compounder: the read-back after the receipt notices.
ReportsTruly == job.step = "reported" => job.paid = V4_COMPOUNDER

CompoundsVerifiedPosition == [][LandsOnVerified]_vars /\ []ReportsTruly

--------------------------------------------------------------------------------
(* Every delayed change of the three contracts is one and the same timelock.         *)

CompounderLock == INSTANCE Timelock WITH
    Delay <- TARGET_UPDATE_DELAY, value <- vault.compounder, pending <- vault.pendingCompounder,
    open <- (vault.compounder = None /\ \A c \in Currencies : books.fees[c] = 0),
    locked <- vault.compounderFrozen

DistributorLock == INSTANCE Timelock WITH
    Delay <- TARGET_UPDATE_DELAY, value <- vault.distributor, pending <- vault.pendingDistributor,
    open <- (vault.distributor = None /\ \A c \in Currencies : books.fees[c] = 0),
    locked <- vault.distributorFrozen

CurveLock(side) == INSTANCE Timelock WITH
    Delay <- FEE_UPDATE_DELAY, value <- curves[side], pending <- pendingCurves[side],
    open <- ~poolRegistered, locked <- FALSE

DepthLock(side) == INSTANCE Timelock WITH
    Delay <- FEE_UPDATE_DELAY, value <- protocolDepth[side], pending <- pendingDepth[side],
    open <- ~poolRegistered, locked <- FALSE

\* A step of the system is, for each of them, a step of its timelock or no step at all.
Announced ==
    /\ [CompounderLock!Next]_(CompounderLock!vars)
    /\ [DistributorLock!Next]_(DistributorLock!vars)
    /\ \A side \in Sides : /\ [CurveLock(side)!Next]_(CurveLock(side)!vars)
                           /\ [DepthLock(side)!Next]_(DepthLock(side)!vars)

\* Curves, depths, the compounder and the distributor change only as a timelock allows:
\* at once before anyone depends on them, later only to a target announced for the
\* whole delay, and never again once frozen. Each of the six implements Timelock.
ChangesAnnounced ==
    /\ CompounderLock!Init
    /\ DistributorLock!Init
    /\ \A side \in Sides : CurveLock(side)!Init /\ DepthLock(side)!Init
    /\ [][Announced]_vars
================================================================================
