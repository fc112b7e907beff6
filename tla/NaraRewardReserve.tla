--------------------------- MODULE NaraRewardReserve ---------------------------
(* contracts/v4/NARARewardReserve.sol, the custody of the emission allocation.    *)
(* It has no schedule of its own: it answers how much may still be pulled and     *)
(* hands it to the one engine it is bound to.  A reserve is a record              *)
(*   [wired, balance, allocation, totalReleased]                                  *)
(* owned by the engine's state, because the engine calls it within a step.        *)
EXTENDS Integers

ReserveType == [wired : BOOLEAN, balance : Nat, allocation : Nat, totalReleased : Nat]

RemainingAllocation(r) ==
    IF r.allocation > r.totalReleased THEN r.allocation - r.totalReleased ELSE 0

AvailableRewards(r) ==
    IF r.balance < RemainingAllocation(r) THEN r.balance ELSE RemainingAllocation(r)

CanRelease(r, amount) == amount > 0 /\ amount <= AvailableRewards(r)

ReleaseToEngine(r, amount) ==
    [r EXCEPT !.totalReleased = @ + amount, !.balance = @ - amount]
================================================================================
