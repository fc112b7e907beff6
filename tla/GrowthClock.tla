------------------------------ MODULE GrowthClock ------------------------------
(* The chain's clock as the growth contracts see it, and how each of them stages a
   change: a PendingTarget, PendingFeeCurve, PendingProtocolDepth or PendingRecovery
   is the pending set of Timelock.                                                  *)
EXTENDS Naturals, FiniteSets

CONSTANTS
    BPS,            \* 100 % in basis points
    Compounders,    \* contracts bound to the vault (_validateCompounder)
    None

ASSUME BpsAssumption == BPS \in Nat \ {0}

VARIABLE now   \* block.number and block.timestamp: every tick is a block

\* {} or one announced target; a new proposal overwrites the old and restarts its delay.
Staged(target, delay) == {[target |-> target, eta |-> now + delay]}

Ready(pending) == {p \in pending : now >= p.eta}

NewBlock == now' = now + 1
================================================================================
