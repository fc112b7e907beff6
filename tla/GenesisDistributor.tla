--------------------------- MODULE GenesisDistributor ---------------------------
(* NARAGenesisRewardDistributorV4.sol: rewards of several assets shared among the  *)
(* genesis tokens by the weight it tracks for each.  ETH and the reward token run  *)
(* through the same arithmetic on separate storage; here they are two Assets.  The *)
(* contract's storage is one record d, which every function maps to the next one.  *)
EXTENDS Integers

CONSTANTS
    RAY,        \* fixed-point scale of the reward index
    Assets,     \* the assets distributed: ETH and the reward token
    Tokens,     \* token ids
    Owners, NoOne

Empty ==
    LET zero == [a \in Assets |-> 0]
        none == [t \in Tokens |-> 0]
    IN  [trackedRewardWeightOf |-> none, trackedGenesisRewardWeight |-> 0,
         accPerRewardWeightRay |-> zero, rewardDebtRayOf |-> [a \in Assets |-> none],
         accruedOf |-> [a \in Assets |-> none], pendingUndistributed |-> zero,
         totalReceived |-> zero, totalAllocated |-> zero, totalClaimed |-> zero,
         closedOwnerOf |-> [t \in Tokens |-> NoOne]]

\* What the contract holds: it takes rewards in only through notify, and pays only claims.
Funds(d, a) == d.totalReceived[a] - d.totalClaimed[a]

Claimable(d, a, t) ==
    d.accruedOf[a][t] + (d.trackedRewardWeightOf[t] *
        (d.accPerRewardWeightRay[a] - d.rewardDebtRayOf[a][t])) \div RAY

\* Mutants: the accrual is dropped, the debt is left behind, or the old weight stays in
\* the total.
SyncToWeight_Dropped(d, t, newWeight) ==
    [d EXCEPT !.rewardDebtRayOf = [a \in Assets |->
                  [@[a] EXCEPT ![t] = d.accPerRewardWeightRay[a]]],
              !.trackedRewardWeightOf[t] = newWeight,
              !.trackedGenesisRewardWeight = @ - d.trackedRewardWeightOf[t] + newWeight]
SyncToWeight_DebtKept(d, t, newWeight) ==
    [d EXCEPT !.accruedOf = [a \in Assets |-> [@[a] EXCEPT ![t] = Claimable(d, a, t)]],
              !.trackedRewardWeightOf[t] = newWeight,
              !.trackedGenesisRewardWeight = @ - d.trackedRewardWeightOf[t] + newWeight]
SyncToWeight_OldKept(d, t, newWeight) ==
    [d EXCEPT !.accruedOf = [a \in Assets |-> [@[a] EXCEPT ![t] = Claimable(d, a, t)]],
              !.rewardDebtRayOf = [a \in Assets |->
                  [@[a] EXCEPT ![t] = d.accPerRewardWeightRay[a]]],
              !.trackedRewardWeightOf[t] = newWeight,
              !.trackedGenesisRewardWeight = @ + newWeight]

\* _syncToWeight: both assets are accrued under the old weight before it changes.
SyncToWeight(d, t, newWeight) ==
    [d EXCEPT !.accruedOf = [a \in Assets |-> [@[a] EXCEPT ![t] = Claimable(d, a, t)]],
              !.rewardDebtRayOf = [a \in Assets |->
                  [@[a] EXCEPT ![t] = d.accPerRewardWeightRay[a]]],
              !.trackedRewardWeightOf[t] = newWeight,
              !.trackedGenesisRewardWeight = @ - d.trackedRewardWeightOf[t] + newWeight]

\* _notify and _notifyToken: with no weight everything waits; otherwise the index takes
\* the rounded-down share and what that does not account for waits for the next call.
Notify(d, a, received) ==
    LET distributable == received + d.pendingUndistributed[a]
        weight        == d.trackedGenesisRewardWeight
        indexDelta    == IF weight = 0 THEN 0 ELSE (distributable * RAY) \div weight
        allocated     == (indexDelta * weight) \div RAY
    IN  [d EXCEPT !.totalReceived[a] = @ + received,
                  !.pendingUndistributed[a] = distributable - allocated,
                  !.accPerRewardWeightRay[a] = @ + indexDelta,
                  !.totalAllocated[a] = @ + allocated]

\* _claim and _claimToken after their sync, for the assets whose claim goes through; a
\* payment beyond the funds reverts.
Paid(d, t, claims) ==
    [d EXCEPT !.accruedOf = [a \in Assets |->
                  [d.accruedOf[a] EXCEPT ![t] = IF a \in claims THEN 0 ELSE @]],
              !.totalClaimed = [a \in Assets |->
                  @[a] + (IF a \in claims THEN d.accruedOf[a][t] ELSE 0)]]

CanPay(d, t, claims) == \A a \in claims : d.accruedOf[a][t] <= Funds(d, a)

\* Mutant: nobody is recorded as the owner of the rewards of a closed position.
PositionClosed_OwnerDropped(d, t, owner) == SyncToWeight(d, t, 0)

\* onGenesisPositionClosed
PositionClosed(d, t, owner) ==
    [SyncToWeight(d, t, 0) EXCEPT !.closedOwnerOf[t] = owner]
================================================================================
