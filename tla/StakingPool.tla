------------------------------ MODULE StakingPool ------------------------------
(* composability/NARAStakingPoolV4.sol: shares (stNARA) in a pool of locked        *)
(* positions.  NARA rewards raise the value of a share, USDC and ETH are shared by *)
(* an index, and redemptions queue until locked NARA is due.                       *)
(*                                                                                 *)
(* The storage is one record, pool, that functions map on: a user's call first     *)
(* harvests, then moves shares, and each of these steps accrues rewards.  It also  *)
(* holds what engine and NFT keep for the pool's positions: position and earned.   *)
EXTENDS Integers, Sequences, FiniteSets, PrefixSum

CONSTANTS
    RAY, BPS,
    MIN_INITIAL_DEPOSIT, DEAD_SHARES, TARGET_LOCK_EPOCHS,
    MAX_POSITIONS,                   \* 50 on chain
    Users, Dead, NoOne,
    DepositAmounts, ShareAmounts, LockAmounts,   \* arguments
    InitialBountyBps,                \* 25 on chain
    LockFees, BountyChoices,         \* lockFeeBps of the engine, keeperBountyBps
    PauseChoices, EmergencyChoices,  \* arguments of the two switches
    Answers,                         \* which calls of a harvest may succeed together
    Rewards,                         \* what a position may earn at once
    MaxTokens, MaxRedemptions, MaxEpoch, MaxNara, MaxReward   \* bounds

Tokens  == 1 .. MaxTokens
Holders == Users \cup {Dead}
Assets  == {"usdc", "eth"}
Kinds   == Assets \cup {"nara"}
\* The two calls by which a position is harvested; each is tried and may fail.
Calls   == {"claimRewards", "claimTokenRewards"}

ASSUME PoolAssumption ==
    /\ RAY \in Nat \ {0} /\ BPS \in Nat \ {0}
    /\ DEAD_SHARES \in Nat \ {0} /\ MIN_INITIAL_DEPOSIT \in Nat
    /\ DEAD_SHARES < MIN_INITIAL_DEPOSIT
    /\ TARGET_LOCK_EPOCHS \in Nat /\ MAX_POSITIONS \in Nat
    /\ IsFiniteSet(Users) /\ Dead \notin Users /\ NoOne \notin Holders
    /\ DepositAmounts \subseteq Nat /\ ShareAmounts \subseteq Nat /\ LockAmounts \subseteq Nat
    /\ LockFees \subseteq 0 .. BPS /\ BountyChoices \subseteq 0 .. BPS - 1
    /\ InitialBountyBps \in 0 .. BPS - 1
    /\ PauseChoices \subseteq BOOLEAN /\ EmergencyChoices \subseteq BOOLEAN
    /\ Rewards \subseteq Nat \ {0} /\ Answers \subseteq SUBSET Calls
    /\ MaxTokens \in Nat /\ MaxRedemptions \in Nat /\ MaxEpoch \in Nat
    /\ MaxNara \in Nat /\ MaxReward \in Nat

VARIABLES
    epoch,                  \* ENGINE.currentEpoch()
    nextTokenId,            \* of the NFT
    pool,
    redemptions,
    depositsPaused, emergencyShutdown

vars == <<epoch, nextTokenId, pool, redemptions, depositsPaused, emergencyShutdown>>

Redemption == [user : Users, naraOwed : Nat, readyEpoch : Nat, claimed : BOOLEAN]
PoolType ==
    [underlyingTokenIds : Seq(Tokens), tokenIndex : [Tokens -> Nat],
     lockedPrincipal : Nat, liquidNara : Nat, reservedForRedemptions : Nat,
     balanceOf : [Holders -> Nat], totalSupply : Nat,
     rewardIndexRay : [Assets -> Nat], debtRayOf : [Assets -> [Holders -> Nat]],
     accruedOf : [Assets -> [Holders -> Nat]], undistributed : [Assets -> Nat],
     totalDistributed : [Assets -> Nat], totalClaimed : [Assets -> Nat],
     keeperBountyBps : 0 .. BPS - 1,
     naraBalance : Nat, held : [Assets -> Nat],
     position : [Tokens -> [amount : Nat, unlockEpoch : Nat]],
     earned : [Tokens -> [Kinds -> Nat]]]

Init ==
    LET zero == [a \in Assets |-> 0]
        nobody == [a \in Assets |-> [u \in Holders |-> 0]]
    IN  /\ epoch = 0 /\ nextTokenId = 1
        /\ pool = [underlyingTokenIds |-> <<>>, tokenIndex |-> [t \in Tokens |-> 0],
                   lockedPrincipal |-> 0, liquidNara |-> 0, reservedForRedemptions |-> 0,
                   balanceOf |-> [u \in Holders |-> 0], totalSupply |-> 0,
                   rewardIndexRay |-> zero, debtRayOf |-> nobody, accruedOf |-> nobody,
                   undistributed |-> zero, totalDistributed |-> zero, totalClaimed |-> zero,
                   keeperBountyBps |-> InitialBountyBps, naraBalance |-> 0, held |-> zero,
                   position |-> [t \in Tokens |-> [amount |-> 0, unlockEpoch |-> 0]],
                   earned |-> [t \in Tokens |-> [k \in Kinds |-> 0]]]
        /\ redemptions = <<>>
        /\ depositsPaused = FALSE /\ emergencyShutdown = FALSE

--------------------------------------------------------------------------------
(* Value, shares and their rewards *)

TotalNaraValue(p) ==
    LET gross == p.lockedPrincipal + p.liquidNara
    IN  IF gross > p.reservedForRedemptions THEN gross - p.reservedForRedemptions ELSE 0

\* Mutant: rounded up.
CalcShares_Up(p, naraAmount) ==
    IF p.totalSupply = 0 \/ TotalNaraValue(p) = 0 THEN naraAmount
    ELSE (naraAmount * p.totalSupply + TotalNaraValue(p) - 1) \div TotalNaraValue(p)

CalcShares(p, naraAmount) ==
    IF p.totalSupply = 0 \/ TotalNaraValue(p) = 0 THEN naraAmount
    ELSE (naraAmount * p.totalSupply) \div TotalNaraValue(p)

\* _usdcAccrued + _pendingUsdc, and the same for ETH.
Claimable(p, a, u) ==
    LET current == p.balanceOf[u] * p.rewardIndexRay[a]
        debt    == p.debtRayOf[a][u]
    IN  p.accruedOf[a][u] + (IF current > debt THEN (current - debt) \div RAY ELSE 0)

\* The token's balances after n shares went from one holder to another; NoOne stands for
\* the zero address of mints and burns.
Balances(p, from, to, n) ==
    [u \in Holders |-> p.balanceOf[u] - When(u = from, n) + When(u = to, n)]

\* Mutant: only the sender's debt follows the balances.
Moved_ReceiverForgotten(p, from, to, n) ==
    LET balances == Balances(p, from, to, n)
    IN  [p EXCEPT
            !.balanceOf = balances,
            !.totalSupply = @ + When(from = NoOne, n) - When(to = NoOne, n),
            !.accruedOf = [a \in Assets |-> [u \in Holders |->
                IF u \in {from, to} THEN Claimable(p, a, u) ELSE @[a][u]]],
            !.debtRayOf = [a \in Assets |-> [u \in Holders |->
                IF u = from THEN balances[u] * p.rewardIndexRay[a] ELSE @[a][u]]]]

\* _update without its harvest: both sides accrue at their old balances, and their debts
\* restart from the new ones.
Moved(p, from, to, n) ==
    LET balances == Balances(p, from, to, n)
    IN  [p EXCEPT
            !.balanceOf = balances,
            !.totalSupply = @ + When(from = NoOne, n) - When(to = NoOne, n),
            !.accruedOf = [a \in Assets |-> [u \in Holders |->
                IF u \in {from, to} THEN Claimable(p, a, u) ELSE @[a][u]]],
            !.debtRayOf = [a \in Assets |-> [u \in Holders |->
                IF u \in {from, to} THEN balances[u] * p.rewardIndexRay[a] ELSE @[a][u]]]]

--------------------------------------------------------------------------------
(* Harvesting *)

Answered(answers) ==
    (IF "claimRewards" \in answers THEN {"nara", "eth"} ELSE {})
        \cup (IF "claimTokenRewards" \in answers THEN {"usdc"} ELSE {})

\* The gains of each asset go to the shares there are, with whatever could not be shared
\* before; without shares they wait.
Indexed(p, gains) ==
    LET shared == {a \in Assets : gains[a] # 0 /\ p.totalSupply # 0}
        total(a) == gains[a] + p.undistributed[a]
    IN  [p EXCEPT
            !.held = [a \in Assets |-> @[a] + gains[a]],
            !.undistributed = [a \in Assets |-> IF a \in shared THEN 0 ELSE @[a] + gains[a]],
            !.totalDistributed = [a \in Assets |-> @[a] + When(a \in shared, total(a))],
            !.rewardIndexRay = [a \in Assets |->
                IF a \in shared THEN @[a] + (total(a) * RAY) \div p.totalSupply ELSE @[a]]]

\* _claimPositionRewards for some positions and _accountHarvestGains; a call that fails
\* leaves what it would have brought.
Harvested(p, ids, answers, bountyBps) ==
    LET taken(t, k) == t \in ids /\ k \in Answered(answers)
        gained(k) == SumTo([t \in Tokens |-> When(taken(t, k), p.earned[t][k])], MaxTokens)
        bounty == (gained("usdc") * bountyBps) \div BPS
    IN  Indexed([p EXCEPT !.liquidNara = @ + gained("nara"),
                          !.naraBalance = @ + gained("nara"),
                          !.earned = [t \in Tokens |-> [k \in Kinds |->
                              IF taken(t, k) THEN 0 ELSE @[t][k]]]],
                [usdc |-> gained("usdc") - bounty, eth |-> gained("eth")])

HeldTokens(p) == {p.underlyingTokenIds[i] : i \in DOMAIN p.underlyingTokenIds}

\* _autoHarvestForUserPath
AutoHarvested(p, answers) ==
    IF emergencyShutdown THEN p ELSE Harvested(p, HeldTokens(p), answers, 0)

--------------------------------------------------------------------------------
(* Deposits, redemptions and transfers *)

\* NARA goes in and out of the contract and its books alike.
NaraIn(p, n) == [p EXCEPT !.liquidNara = @ + n, !.naraBalance = @ + n]

Deposit(u, naraAmount, answers) ==
    LET p      == AutoHarvested(pool, answers)
        first  == p.totalSupply = 0
        shares == CalcShares(p, naraAmount)
        paid   == NaraIn(p, naraAmount)
    IN  /\ ~ depositsPaused /\ ~ emergencyShutdown /\ naraAmount # 0
        /\ first => naraAmount >= MIN_INITIAL_DEPOSIT
        /\ paid.lockedPrincipal + paid.liquidNara <= MaxNara
        /\ pool' = IF first THEN Moved(Moved(paid, NoOne, Dead, DEAD_SHARES),
                                       NoOne, u, shares - DEAD_SHARES)
                   ELSE Moved(paid, NoOne, u, shares)
        /\ UNCHANGED <<epoch, nextTokenId, redemptions, depositsPaused, emergencyShutdown>>

\* The NARA at hand once the positions due by an epoch are unlocked.
FundsBy(p, due) ==
    p.liquidNara + SumTo([t \in Tokens |->
        When(t \in HeldTokens(p) /\ p.position[t].unlockEpoch <= due, p.position[t].amount)],
        MaxTokens)

\* Mutant: what is reserved for earlier redemptions is not counted.
ReadyEpochForReserved_Alone(p, target) ==
    LET alone == target - p.reservedForRedemptions
        due == {e \in 0 .. MaxEpoch : FundsBy(p, e) >= alone}
    IN  IF p.liquidNara >= alone \/ due = {} THEN epoch
        ELSE CHOOSE e \in due : \A f \in due : e <= f

\* _readyEpochForReserved walks the positions in the order of their unlock epochs until
\* they cover the target.
ReadyEpochForReserved(p, target) ==
    LET enough == {p.position[t].unlockEpoch : t \in {x \in HeldTokens(p) :
                       FundsBy(p, p.position[x].unlockEpoch) >= target}}
        first == CHOOSE e \in enough : \A f \in enough : e <= f
    IN  IF p.liquidNara >= target THEN epoch
        ELSE IF enough = {} THEN epoch + 1
        ELSE IF first < epoch THEN epoch ELSE first

\* queueRedeem; queueRedeemWithMaxReadyEpoch only lets the caller refuse the epoch.
QueueRedeem(u, shares, answers) ==
    LET p        == AutoHarvested(pool, answers)
        naraOwed == (shares * TotalNaraValue(p)) \div p.totalSupply
        reserved == p.reservedForRedemptions + naraOwed
    IN  /\ shares # 0 /\ pool.balanceOf[u] >= shares
        /\ naraOwed # 0
        /\ Len(redemptions) < MaxRedemptions
        /\ pool' = [Moved(p, u, NoOne, shares) EXCEPT !.reservedForRedemptions = reserved]
        /\ redemptions' = Append(redemptions,
               [user |-> u, naraOwed |-> naraOwed, claimed |-> FALSE,
                readyEpoch |-> ReadyEpochForReserved(p, reserved)])
        /\ UNCHANGED <<epoch, nextTokenId, depositsPaused, emergencyShutdown>>

\* Called by the redemption's user.
ClaimRedemption(i) ==
    LET r == redemptions[i]
    IN  /\ ~ r.claimed
        /\ epoch >= r.readyEpoch
        /\ pool.liquidNara >= r.naraOwed
        /\ redemptions' = [redemptions EXCEPT ![i].claimed = TRUE]
        /\ pool' = [NaraIn(pool, - r.naraOwed) EXCEPT !.reservedForRedemptions = @ - r.naraOwed]
        /\ UNCHANGED <<epoch, nextTokenId, depositsPaused, emergencyShutdown>>

\* An ERC-20 transfer; one to oneself harvests nothing and is open in an emergency.
Transfer(u, v, n, answers) ==
    /\ u # v => ~ emergencyShutdown
    /\ n <= pool.balanceOf[u]
    /\ pool' = Moved(IF u = v THEN pool ELSE Harvested(pool, HeldTokens(pool), answers, 0), u, v, n)
    /\ UNCHANGED <<epoch, nextTokenId, redemptions, depositsPaused, emergencyShutdown>>

\* claimUsdc and claimEth
ClaimReward(a, u) ==
    LET p == Moved(pool, u, u, 0)
    IN  /\ pool' = [p EXCEPT !.accruedOf[a][u] = 0, !.totalClaimed[a] = @ + p.accruedOf[a][u],
                             !.held[a] = @ - p.accruedOf[a][u]]
        /\ pool' # pool
        /\ UNCHANGED <<epoch, nextTokenId, redemptions, depositsPaused, emergencyShutdown>>

--------------------------------------------------------------------------------
(* Positions *)

\* Mutant: everything liquid may be locked.
Available_ReservedToo(p) == p.liquidNara

\* What may be locked: never NARA that redemptions wait for.
Available(p) ==
    IF p.liquidNara >= p.reservedForRedemptions THEN p.liquidNara - p.reservedForRedemptions ELSE 0

\* lockLiquid: the engine takes its fee out of the amount by the same formula.
LockLiquid(grossAmount, feeBps) ==
    LET netAmount == grossAmount - (grossAmount * feeBps) \div BPS
        token     == nextTokenId
        unlocks   == epoch + TARGET_LOCK_EPOCHS + 1
    IN  /\ grossAmount # 0 /\ netAmount # 0 /\ grossAmount <= Available(pool)
        /\ Len(pool.underlyingTokenIds) < MAX_POSITIONS
        /\ token \in Tokens /\ unlocks <= MaxEpoch
        /\ nextTokenId' = token + 1
        /\ pool' = [NaraIn(pool, - grossAmount) EXCEPT
                        !.lockedPrincipal = @ + netAmount,
                        !.underlyingTokenIds = Append(@, token),
                        !.tokenIndex[token] = Len(pool.underlyingTokenIds) + 1,
                        !.position[token] = [amount |-> netAmount, unlockEpoch |-> unlocks]]
        /\ UNCHANGED <<epoch, redemptions, depositsPaused, emergencyShutdown>>

\* Mutant: the token that moves up keeps its old index.
Removed_IndexKept(p, t) ==
    LET ids  == p.underlyingTokenIds
        last == ids[Len(ids)]
    IN  [p EXCEPT !.underlyingTokenIds = SubSeq([ids EXCEPT ![p.tokenIndex[t]] = last], 1, Len(ids) - 1),
                  !.tokenIndex[t] = 0]

\* The last token takes the place of the one removed.
Removed(p, t) ==
    LET ids  == p.underlyingTokenIds
        last == ids[Len(ids)]
    IN  [p EXCEPT !.underlyingTokenIds = SubSeq([ids EXCEPT ![p.tokenIndex[t]] = last], 1, Len(ids) - 1),
                  !.tokenIndex = [@ EXCEPT ![last] = p.tokenIndex[t], ![t] = 0]]

\* What unlockTo sends, measured after the claims: the principal, and rewards that the
\* claims did not fetch.
Returned(p, t) == p.position[t].amount + p.earned[t]["nara"]

\* unlockMatured, open to anyone, who earns the keeper's bounty.
UnlockMatured(t, answers) ==
    LET claimed  == Harvested(pool, {t}, answers, pool.keeperBountyBps)
        unlocked == [NaraIn(claimed, Returned(claimed, t)) EXCEPT
            !.lockedPrincipal = IF pool.position[t].amount <= @
                                THEN @ - pool.position[t].amount ELSE 0,
            !.position[t].amount = 0,
            !.earned[t] = [@ EXCEPT !["nara"] = 0, !["eth"] = 0]]
    IN  /\ pool.tokenIndex[t] # 0
        /\ epoch >= pool.position[t].unlockEpoch
        /\ pool' = Removed(Indexed(unlocked, [usdc |-> 0, eth |-> claimed.earned[t]["eth"]]), t)
        /\ UNCHANGED <<epoch, nextTokenId, redemptions, depositsPaused, emergencyShutdown>>

\* harvest and batchHarvest
BatchHarvest(start, end, answers) ==
    LET ids == {pool.underlyingTokenIds[i] : i \in start + 1 .. end}
    IN  /\ ~ emergencyShutdown
        /\ start < end /\ end <= Len(pool.underlyingTokenIds)
        /\ pool' = Harvested(pool, ids, answers, pool.keeperBountyBps)
        /\ pool' # pool
        /\ UNCHANGED <<epoch, nextTokenId, redemptions, depositsPaused, emergencyShutdown>>

--------------------------------------------------------------------------------
(* Engine, clock and administration *)

\* A position of the pool earns: what a claim of its rewards would now bring rises.
Earn(t, k, n) ==
    /\ pool.position[t].amount # 0
    /\ LET earned(x) == SumTo([s \in Tokens |-> pool.earned[s][x]], MaxTokens)
       IN  IF k = "nara"
           THEN pool.lockedPrincipal + pool.liquidNara + earned("nara") + n <= MaxNara
           ELSE pool.totalDistributed[k] + earned(k) + n <= MaxReward
    /\ pool' = [pool EXCEPT !.earned[t][k] = @ + n]
    /\ UNCHANGED <<epoch, nextTokenId, redemptions, depositsPaused, emergencyShutdown>>

EpochPasses ==
    /\ epoch < MaxEpoch /\ epoch' = epoch + 1
    /\ UNCHANGED <<nextTokenId, pool, redemptions, depositsPaused, emergencyShutdown>>

SetKeeperBounty(bps) ==
    /\ pool' = [pool EXCEPT !.keeperBountyBps = bps]
    /\ UNCHANGED <<epoch, nextTokenId, redemptions, depositsPaused, emergencyShutdown>>

SetDepositsPaused(paused) ==
    /\ depositsPaused' = paused
    /\ UNCHANGED <<epoch, nextTokenId, pool, redemptions, emergencyShutdown>>

SetEmergencyShutdown(shutdown) ==
    /\ emergencyShutdown' = shutdown
    /\ UNCHANGED <<epoch, nextTokenId, pool, redemptions, depositsPaused>>

Next ==
    \/ \E u \in Users, n \in DepositAmounts, answers \in Answers : Deposit(u, n, answers)
    \/ \E u \in Users, n \in ShareAmounts, answers \in Answers : QueueRedeem(u, n, answers)
    \/ \E u, v \in Users, n \in ShareAmounts, answers \in Answers : Transfer(u, v, n, answers)
    \/ \E i \in 1 .. Len(redemptions) : ClaimRedemption(i)
    \/ \E a \in Assets, u \in Users : ClaimReward(a, u)
    \/ \E n \in LockAmounts, fee \in LockFees : LockLiquid(n, fee)
    \/ \E t \in Tokens, answers \in Answers : UnlockMatured(t, answers)
    \/ \E start, end \in 0 .. MAX_POSITIONS, answers \in Answers :
          BatchHarvest(start, end, answers)
    \/ \E t \in Tokens, k \in Kinds, n \in Rewards : Earn(t, k, n)
    \/ EpochPasses
    \/ \E bps \in BountyChoices : SetKeeperBounty(bps)
    \/ \E b \in PauseChoices : SetDepositsPaused(b)
    \/ \E b \in EmergencyChoices : SetEmergencyShutdown(b)

Spec == Init /\ [][Next]_vars

\* Epochs pass; anyone may unlock a matured position, and a redeemer claims what is ready.
\* Both calls end their own enabling condition, so weak fairness says that the condition
\* does not hold for ever, which is written out instead of left to ENABLED.
CanUnlock(t) == pool.tokenIndex[t] # 0 /\ epoch >= pool.position[t].unlockEpoch
CanClaim(i) ==
    /\ i \in DOMAIN redemptions /\ ~ redemptions[i].claimed
    /\ epoch >= redemptions[i].readyEpoch /\ pool.liquidNara >= redemptions[i].naraOwed
Fairness ==
    /\ WF_vars(EpochPasses)
    /\ \A t \in Tokens : []<> ~ CanUnlock(t)
    /\ \A i \in 1 .. MaxRedemptions : []<> ~ CanClaim(i)
FairSpec == Spec /\ Fairness
================================================================================
