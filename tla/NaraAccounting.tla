----------------------------- MODULE NaraAccounting -----------------------------
(* The arithmetic of contracts/v4/libraries/NARAEngineAccountingLib.sol: what a   *)
(* position has earned from a cumulative index, and the debt that remembers what  *)
(* it was already paid.  Indices are integers scaled by RAY (1e27 on chain, small *)
(* here, so that the rounding the code performs really happens).                  *)
EXTENDS Integers

CONSTANT RAY
ASSUME RayAssumption == RAY \in Nat \ {0}

\* Math.mulDiv: full-precision product, quotient rounded down.
MulDiv(x, y, d) == (x * y) \div d

\* type(uint256).max, the sentinel no product of weight and index can reach.
DEBT_UNINITIALISED == -1

MinOf(x, y) == IF x < y THEN x ELSE y
\* Checked against the balance before subtracting: the code never wraps, it clamps.
SaturatingSub(x, y) == IF x >= y THEN x - y ELSE 0

\* The last epoch whose reward a claim at epoch ep may collect for p.
LastPayableEpoch(ep, p) == MinOf(ep - 1, p.unlockEpoch - 1)

\* Nothing is payable before one full epoch of activity has closed.
HasClosedEpoch(ep, p) == LastPayableEpoch(ep, p) >= p.activationEpoch

OpeningDebt(weight, indexAtEpoch, p) ==
    MulDiv(weight, indexAtEpoch[p.activationEpoch - 1], RAY)

\* One asset of positionAccrual: the amount owed and the debt afterwards.
Accrual(indexAtEpoch, ep, p, debtRay) ==
    IF ~ HasClosedEpoch(ep, p) THEN [owed |-> 0, debt |-> debtRay]
    ELSE LET debt  == IF debtRay = DEBT_UNINITIALISED
                      THEN OpeningDebt(p.weight, indexAtEpoch, p) ELSE debtRay
             gross == MulDiv(p.weight, indexAtEpoch[LastPayableEpoch(ep, p)], RAY)
         IN  IF gross > debt THEN [owed |-> gross - debt, debt |-> gross]
             ELSE [owed |-> 0, debt |-> debt]

\* Mutant: the closed epochs just paid are paid again with the open one.
Settlement_PaidTwice(indexAtEpoch, liveIndexRay, ep, p, debtRay) ==
    LET closed == Accrual(indexAtEpoch, ep, p, debtRay)
        debt   == IF debtRay = DEBT_UNINITIALISED
                  THEN OpeningDebt(p.weight, indexAtEpoch, p) ELSE debtRay
    IN  closed.owed + SaturatingSub(MulDiv(p.weight, liveIndexRay, RAY), debt)

\* One asset of settleAndRebase, called by extend() on an active position: the
\* closed epochs, then what the live index adds for the epoch still open.
Settlement(indexAtEpoch, liveIndexRay, ep, p, debtRay) ==
    LET closed == Accrual(indexAtEpoch, ep, p, debtRay)
        debt   == IF closed.debt = DEBT_UNINITIALISED
                  THEN OpeningDebt(p.weight, indexAtEpoch, p) ELSE closed.debt
        gross  == MulDiv(p.weight, liveIndexRay, RAY)
    IN  closed.owed + SaturatingSub(gross, debt)

\* tokenAccrual: instant distribution against the live token index.  A zero debt
\* doubles as "never claimed", in which case the opening index is charged.
TokenAccrual(debtRay, weight, endIndexRay, startIndexRay) ==
    LET debt  == IF debtRay = 0 /\ startIndexRay # 0
                 THEN MulDiv(weight, startIndexRay, RAY) ELSE debtRay
        gross == MulDiv(weight, endIndexRay, RAY)
    IN  IF gross > debt THEN [owed |-> gross - debt, debt |-> gross]
        ELSE [owed |-> 0, debt |-> debtRay]
================================================================================
