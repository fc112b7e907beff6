--------------------------- MODULE StakingPoolProofs ---------------------------
(* For every number of users, positions and redemptions, every fee and bounty and  *)
(* every outcome of the harvests: the queue, the index of positions, the ready     *)
(* epochs, the rewards and the value of a share of the staking pool.               *)
(*                                                                                 *)
(* The conditions are on the pool record alone, so that each step the contract is  *)
(* made of, harvest, movement of shares, removal of a token, is treated once.      *)
EXTENDS StakingPoolProperties, PrefixSumProofs

--------------------------------------------------------------------------------
(* The inductive invariant *)

\* The array of tokens and its index, of the positions that are open.
TokensIndexed(p) ==
    /\ \A i \in 1 .. Len(p.underlyingTokenIds) : p.tokenIndex[p.underlyingTokenIds[i]] = i
    /\ \A t \in Tokens : p.tokenIndex[t] # 0 =>
          /\ p.tokenIndex[t] \in 1 .. Len(p.underlyingTokenIds)
          /\ p.underlyingTokenIds[p.tokenIndex[t]] = t
    /\ \A t \in Tokens : p.tokenIndex[t] # 0 <=> p.position[t].amount # 0
    /\ \A t \in Tokens : p.position[t].unlockEpoch <= MaxEpoch

\* NARA at hand and locked, enough for what is reserved; none before the first deposit.
NaraHeld(p) ==
    /\ p.lockedPrincipal = SumTo([t \in Tokens |-> p.position[t].amount], MaxTokens)
    /\ p.liquidNara = p.naraBalance
    /\ p.reservedForRedemptions <= p.lockedPrincipal + p.liquidNara
    /\ p.totalSupply = 0 => p.lockedPrincipal = 0 /\ p.liquidNara = 0

\* The dead shares are never burnt: there are shares for ever after the first deposit.
SharesHeld(p) ==
    /\ p.totalSupply = SumOf(Holders, p.balanceOf)
    /\ p.totalSupply = 0 \/ p.balanceOf[Dead] >= DEAD_SHARES

\* What a holder has coming, in units of 1 / RAY: the accrued and the unsettled part.
Coming(p, a) ==
    [u \in Holders |-> RAY * p.accruedOf[a][u]
                           + (p.balanceOf[u] * p.rewardIndexRay[a] - p.debtRayOf[a][u])]

\* Without rounding, what holders have coming and what waits are in the contract.
RewardsHeld(p) ==
    \A a \in Assets :
        /\ \A u \in Holders : p.debtRayOf[a][u] <= p.balanceOf[u] * p.rewardIndexRay[a]
        /\ SumOf(Holders, Coming(p, a)) + RAY * p.undistributed[a] <= RAY * p.held[a]

PoolGood(p) ==
    p \in PoolType /\ TokensIndexed(p) /\ NaraHeld(p) /\ SharesHeld(p) /\ RewardsHeld(p)

OpenOwed(rs) == [i \in DOMAIN rs |-> When(~ rs[i].claimed, rs[i].naraOwed)]
DueOwed(rs, e) ==
    [i \in DOMAIN rs |-> When(~ rs[i].claimed /\ rs[i].readyEpoch <= e, rs[i].naraOwed)]

\* The queue: reserved is what is owed, and what is due by an epoch is there by then.
QueueGood(p, rs, from) ==
    /\ p.reservedForRedemptions = SumTo(OpenOwed(rs), Len(rs))
    /\ \A e \in from .. MaxEpoch : SumTo(DueOwed(rs, e), Len(rs)) <= FundsBy(p, e)

PoolInv ==
    /\ epoch \in 0 .. MaxEpoch /\ nextTokenId \in 1 .. MaxTokens + 1
    /\ redemptions \in Seq(Redemption)
    /\ depositsPaused \in BOOLEAN /\ emergencyShutdown \in BOOLEAN
    /\ PoolGood(pool)
    /\ \A t \in Tokens : t >= nextTokenId => pool.tokenIndex[t] = 0
    /\ QueueGood(pool, redemptions, epoch)
--------------------------------------------------------------------------------
(* The record, its parts and the sums over holders *)

LEMMA Constants ==
  /\ RAY \in Nat \ {0} /\ BPS \in Nat \ {0} /\ DEAD_SHARES \in Nat \ {0}
  /\ MIN_INITIAL_DEPOSIT \in Nat /\ DEAD_SHARES < MIN_INITIAL_DEPOSIT
  /\ IsFiniteSet(Holders) /\ Dead \in Holders /\ Dead \notin Users /\ NoOne \notin Holders
  /\ Users \subseteq Holders
  /\ MaxTokens \in Nat /\ MaxEpoch \in Nat /\ MaxRedemptions \in Nat
<1>1. IsFiniteSet(Users) /\ Holders = Users \cup {Dead}
  BY PoolAssumption DEF Holders
<1>2. IsFiniteSet(Holders)
  BY <1>1, FS_AddElement
<1> QED BY <1>1, <1>2, PoolAssumption

LEMMA PoolFields ==
  ASSUME NEW p \in PoolType
  PROVE  /\ p.underlyingTokenIds \in Seq(Tokens) /\ p.tokenIndex \in [Tokens -> Nat]
         /\ p.lockedPrincipal \in Nat /\ p.liquidNara \in Nat
         /\ p.reservedForRedemptions \in Nat /\ p.naraBalance \in Nat
         /\ p.balanceOf \in [Holders -> Nat] /\ p.totalSupply \in Nat
         /\ p.rewardIndexRay \in [Assets -> Nat]
         /\ p.debtRayOf \in [Assets -> [Holders -> Nat]]
         /\ p.accruedOf \in [Assets -> [Holders -> Nat]]
         /\ p.undistributed \in [Assets -> Nat] /\ p.totalDistributed \in [Assets -> Nat]
         /\ p.totalClaimed \in [Assets -> Nat] /\ p.keeperBountyBps \in 0 .. BPS - 1
         /\ p.held \in [Assets -> Nat]
         /\ p.position \in [Tokens -> [amount : Nat, unlockEpoch : Nat]]
         /\ p.earned \in [Tokens -> [Kinds -> Nat]]
BY DEF PoolType

\* The fields that hold the pool's NARA and positions, and those that hold its shares.
NaraSame(p, q) ==
    /\ q.underlyingTokenIds = p.underlyingTokenIds /\ q.tokenIndex = p.tokenIndex
    /\ q.lockedPrincipal = p.lockedPrincipal /\ q.liquidNara = p.liquidNara
    /\ q.reservedForRedemptions = p.reservedForRedemptions
    /\ q.naraBalance = p.naraBalance /\ q.position = p.position
SharesSame(p, q) ==
    /\ q.balanceOf = p.balanceOf /\ q.totalSupply = p.totalSupply
    /\ q.rewardIndexRay = p.rewardIndexRay /\ q.debtRayOf = p.debtRayOf
    /\ q.accruedOf = p.accruedOf /\ q.undistributed = p.undistributed /\ q.held = p.held

SharesGood(p) == p \in PoolType /\ SharesHeld(p) /\ RewardsHeld(p)

LEMMA SharesStay ==
  ASSUME NEW p, SharesGood(p), NEW q \in PoolType, SharesSame(p, q)
  PROVE  SharesGood(q)
<1>1. \A a \in Assets : Coming(q, a) = Coming(p, a)
  BY DEF Coming, SharesSame
<1> QED BY <1>1 DEF SharesGood, SharesHeld, RewardsHeld, SharesSame

\* The sum of what is given to one holder.
LEMMA SumOfGift ==
  ASSUME NEW S, IsFiniteSet(S), NEW y, NEW n \in Int
  PROVE  SumOf(S, [u \in S |-> When(u = y, n)]) = When(y \in S, n)
<1> DEFINE g == [u \in S |-> When(u = y, n)]
<1>1. \A u \in S : g[u] = When(u = y, n)
  OBVIOUS
<1> HIDE DEF g
<1>2. CASE y \in S
  <2>1. g[y] = n /\ g[y] \in Int /\ \A u \in S : u # y => g[u] = 0
    BY <1>1, <1>2 DEF When
  <2>2. SumOf(S, g) = g[y]
    BY <1>2, <2>1, SetSumOfOne
  <2> QED BY <1>2, <2>1, <2>2 DEF g, When
<1>3. CASE y \notin S
  <2>1. \A u \in S : g[u] = 0
    BY <1>1, <1>3 DEF When
  <2>2. SumOf(S, g) = 0
    BY <2>1, SetSumOfZeros
  <2> QED BY <1>3, <2>2 DEF g, When
<1> QED BY <1>2, <1>3

\* No holder has more than there is.
LEMMA BalanceBound ==
  ASSUME NEW p, SharesGood(p)
  PROVE  /\ SumOf(Holders, p.balanceOf) \in Nat
         /\ \A u \in Holders : p.balanceOf[u] \in Nat /\ p.balanceOf[u] <= p.totalSupply
<1>1. \A u \in Holders : p.balanceOf[u] \in Nat
  BY PoolFields DEF SharesGood
<1> QED BY <1>1, Constants, SetSumIsNat DEF SharesGood, SharesHeld

--------------------------------------------------------------------------------
(* Rewards *)

\* What a holder can claim is what is coming, rounded down.
LEMMA ClaimableBound ==
  ASSUME NEW p, SharesGood(p), NEW a \in Assets, NEW u \in Holders
  PROVE  /\ Claimable(p, a, u) \in Nat /\ Coming(p, a)[u] \in Nat
         /\ RAY * Claimable(p, a, u) <= Coming(p, a)[u]
         /\ p.accruedOf[a][u] <= Claimable(p, a, u)
<1> DEFINE c == p.accruedOf[a][u]
           x == p.balanceOf[u] * p.rewardIndexRay[a]
           d == p.debtRayOf[a][u]
<1>1. p \in PoolType /\ RAY \in Nat \ {0}
  BY Constants DEF SharesGood
<1>2. p.balanceOf[u] \in Nat /\ p.rewardIndexRay[a] \in Nat /\ c \in Nat /\ d \in Nat
  BY <1>1, PoolFields
<1>3. x \in Nat /\ d <= x
  BY <1>2 DEF SharesGood, RewardsHeld
<1>4. Coming(p, a)[u] = RAY * c + (x - d)
  BY DEF Coming
<1>5. Claimable(p, a, u) = c + (IF x > d THEN (x - d) \div RAY ELSE 0)
  BY DEF Claimable
<1> HIDE DEF c, x, d
<1> DEFINE q == IF x > d THEN (x - d) \div RAY ELSE 0
<1>6. q \in Nat /\ RAY * q <= x - d
  <2>1. x - d \in Nat
    BY <1>2, <1>3
  <2> DEFINE y == x - d
  <2>2. y \in Nat
    BY <2>1
  <2> HIDE DEF y
  <2>3. y \div RAY \in Nat /\ RAY * (y \div RAY) <= y
    BY <1>1, <2>2
  <2>4. CASE x > d
    BY <2>3, <2>4 DEF y
  <2>5. CASE ~ (x > d)
    BY <1>1, <2>1, <2>5
  <2> QED BY <2>4, <2>5
<1> HIDE DEF q
<1>7. RAY * (c + q) = RAY * c + RAY * q /\ RAY * c \in Nat /\ RAY * q \in Nat
  BY <1>1, <1>2, <1>6
<1>8. Claimable(p, a, u) = c + q
  BY <1>5 DEF q
<1> QED BY <1>2, <1>3, <1>4, <1>6, <1>7, <1>8 DEF c

\* Less may come to a holder, never more than is held.
LEMMA ComingFalls ==
  ASSUME NEW p, SharesGood(p), NEW q \in PoolType, SharesHeld(q),
         q.undistributed = p.undistributed, q.held = p.held,
         \A a \in Assets, u \in Holders :
            /\ q.debtRayOf[a][u] <= q.balanceOf[u] * q.rewardIndexRay[a]
            /\ Coming(q, a)[u] <= Coming(p, a)[u]
  PROVE  SharesGood(q)
<1>1. ASSUME NEW a \in Assets
      PROVE  SumOf(Holders, Coming(q, a)) + RAY * q.undistributed[a] <= RAY * q.held[a]
  <2>1. \A u \in Holders : Coming(p, a)[u] \in Int
    BY ClaimableBound
  <2>2. \A u \in Holders : Coming(q, a)[u] \in Int
    <3>1. ASSUME NEW u \in Holders PROVE Coming(q, a)[u] \in Int
      <4>1. /\ q.accruedOf[a][u] \in Int /\ q.balanceOf[u] \in Int
            /\ q.rewardIndexRay[a] \in Int /\ q.debtRayOf[a][u] \in Int /\ RAY \in Int
        BY PoolFields, Constants
      <4>2. RAY * q.accruedOf[a][u] \in Int /\ q.balanceOf[u] * q.rewardIndexRay[a] \in Int
        BY <4>1
      <4> QED BY <4>1, <4>2 DEF Coming
    <3> QED BY <3>1
  <2>3. SumOf(Holders, Coming(q, a)) <= SumOf(Holders, Coming(p, a))
    BY <2>1, <2>2, Constants, SetSumIsMonotone
  <2>4. SumOf(Holders, Coming(p, a)) \in Int /\ SumOf(Holders, Coming(q, a)) \in Int
    BY <2>1, <2>2, Constants, SetSumIsInt
  <2>5. SumOf(Holders, Coming(p, a)) + RAY * p.undistributed[a] <= RAY * p.held[a]
    BY DEF SharesGood, RewardsHeld
  <2>6. RAY * p.undistributed[a] \in Int /\ RAY * p.held[a] \in Int
    <3>1. p.undistributed[a] \in Int /\ p.held[a] \in Int /\ RAY \in Int
      BY PoolFields, Constants DEF SharesGood
    <3> QED BY <3>1
  <2> QED BY <2>3, <2>4, <2>5, <2>6
<1> QED BY <1>1 DEF SharesGood, RewardsHeld
--------------------------------------------------------------------------------
(* Harvests *)

\* Gains are shared by the index: what holders have coming rises by no more.
LEMMA IndexedGood ==
  ASSUME NEW p, SharesGood(p), NEW gains \in [Assets -> Nat]
  PROVE  LET q == Indexed(p, gains) IN
         /\ SharesGood(q) /\ NaraSame(p, q)
         /\ q.balanceOf = p.balanceOf /\ q.totalSupply = p.totalSupply
         /\ q.earned = p.earned /\ q.keeperBountyBps = p.keeperBountyBps
<1> DEFINE shared == {a \in Assets : gains[a] # 0 /\ p.totalSupply # 0}
           total(a) == gains[a] + p.undistributed[a]
           heldNow == [a \in Assets |-> p.held[a] + gains[a]]
           waiting == [a \in Assets |-> IF a \in shared THEN 0 ELSE p.undistributed[a] + gains[a]]
           given == [a \in Assets |-> p.totalDistributed[a] + When(a \in shared, total(a))]
           rise(a) == IF a \in shared THEN (total(a) * RAY) \div p.totalSupply ELSE 0
           index == [a \in Assets |->
                       IF a \in shared THEN p.rewardIndexRay[a] + (total(a) * RAY) \div p.totalSupply
                       ELSE p.rewardIndexRay[a]]
           q == Indexed(p, gains)
<1>1. p \in PoolType /\ RAY \in Nat \ {0} /\ p.totalSupply \in Nat
  BY Constants, PoolFields DEF SharesGood
<1>2. \A a \in Assets : /\ total(a) \in Nat /\ gains[a] \in Nat /\ p.held[a] \in Nat
                        /\ p.undistributed[a] \in Nat /\ p.totalDistributed[a] \in Nat
                        /\ p.rewardIndexRay[a] \in Nat
  BY <1>1, PoolFields
<1>3. \A a \in Assets : /\ rise(a) \in Nat /\ index[a] = p.rewardIndexRay[a] + rise(a)
                        /\ rise(a) * p.totalSupply <= IF a \in shared THEN total(a) * RAY ELSE 0
  <2>1. ASSUME NEW a \in Assets, a \in shared
        PROVE  /\ rise(a) \in Nat /\ index[a] = p.rewardIndexRay[a] + rise(a)
               /\ rise(a) * p.totalSupply <= total(a) * RAY
    <3> DEFINE x == total(a) * RAY
               s == p.totalSupply
    <3>1. x \in Nat /\ s \in Nat \ {0}
      BY <1>1, <1>2, <2>1
    <3>2. rise(a) = x \div s /\ index[a] = p.rewardIndexRay[a] + x \div s
      BY <2>1
    <3> HIDE DEF x, s
    <3>3. x \div s \in Nat /\ (x \div s) * s <= x
      BY <3>1
    <3> HIDE DEF rise, index
    <3> QED BY <3>2, <3>3 DEF x, s
  <2>2. ASSUME NEW a \in Assets, a \notin shared
        PROVE  /\ rise(a) \in Nat /\ index[a] = p.rewardIndexRay[a] + rise(a)
               /\ rise(a) * p.totalSupply <= 0
    BY <1>1, <1>2, <2>2
  <2> QED BY <2>1, <2>2
<1>4. heldNow \in [Assets -> Nat] /\ waiting \in [Assets -> Nat] /\ given \in [Assets -> Nat]
      /\ index \in [Assets -> Nat]
  BY <1>2, <1>3 DEF When
<1>5. q = [p EXCEPT !.held = heldNow, !.undistributed = waiting, !.totalDistributed = given,
                    !.rewardIndexRay = index]
  BY DEF Indexed
<1> HIDE DEF heldNow, waiting, given, index, q
<1>6. /\ q \in PoolType /\ q.held = heldNow /\ q.undistributed = waiting
      /\ q.rewardIndexRay = index /\ q.debtRayOf = p.debtRayOf /\ q.accruedOf = p.accruedOf
      /\ q.balanceOf = p.balanceOf /\ q.totalSupply = p.totalSupply
      /\ q.earned = p.earned /\ q.keeperBountyBps = p.keeperBountyBps
  BY <1>1, <1>4, <1>5 DEF PoolType
<1>7. NaraSame(p, q)
  BY <1>1, <1>5 DEF PoolType, NaraSame
<1>8. SharesHeld(q)
  BY <1>6 DEF SharesGood, SharesHeld
<1>9. ASSUME NEW a \in Assets
      PROVE  /\ \A u \in Holders : q.debtRayOf[a][u] <= q.balanceOf[u] * q.rewardIndexRay[a]
             /\ SumOf(Holders, Coming(q, a)) + RAY * q.undistributed[a] <= RAY * q.held[a]
  <2> DEFINE r == rise(a)
             more == [u \in Holders |-> r * p.balanceOf[u]]
             S == p.totalSupply
  <2>1. r \in Nat /\ q.rewardIndexRay[a] = p.rewardIndexRay[a] + r
    BY <1>3, <1>6
  <2>2. \A u \in Holders :
           /\ p.balanceOf[u] \in Nat /\ Coming(p, a)[u] \in Int /\ more[u] \in Nat
           /\ q.debtRayOf[a][u] <= q.balanceOf[u] * q.rewardIndexRay[a]
           /\ Coming(q, a)[u] = Coming(p, a)[u] + more[u]
    <3>1. ASSUME NEW u \in Holders
          PROVE  /\ p.balanceOf[u] \in Nat /\ Coming(p, a)[u] \in Int /\ more[u] \in Nat
                 /\ q.debtRayOf[a][u] <= q.balanceOf[u] * q.rewardIndexRay[a]
                 /\ Coming(q, a)[u] = Coming(p, a)[u] + more[u]
      <4> DEFINE b == p.balanceOf[u]
                 i == p.rewardIndexRay[a]
                 d == p.debtRayOf[a][u]
                 c == RAY * p.accruedOf[a][u]
      <4>1. b \in Nat /\ i \in Nat /\ d \in Nat /\ c \in Nat /\ d <= b * i
        <5>1. p.accruedOf[a][u] \in Nat
          BY <1>1, PoolFields
        <5> QED BY <1>1, <5>1, PoolFields DEF SharesGood, RewardsHeld
      <4>2. Coming(p, a)[u] = c + (b * i - d) /\ more[u] = r * b
        BY DEF Coming
      <4>3. Coming(q, a)[u] = c + (b * (i + r) - d)
        BY <1>6, <2>1 DEF Coming
      <4>4. q.debtRayOf[a][u] = d /\ q.balanceOf[u] * q.rewardIndexRay[a] = b * (i + r)
        BY <1>6, <2>1
      <4> HIDE DEF b, i, d, c, r, more
      <4>5. b * (i + r) = b * i + r * b /\ r * b \in Nat /\ b * i \in Nat
        BY <2>1, <4>1
      <4>6. p.balanceOf[u] \in Nat
        BY <4>1 DEF b
      <4> DEFINE x == b * i
                 y == r * b
                 z == b * (i + r)
      <4>7. /\ Coming(p, a)[u] = c + (x - d) /\ more[u] = y /\ Coming(q, a)[u] = c + (z - d)
            /\ q.debtRayOf[a][u] = d /\ q.balanceOf[u] * q.rewardIndexRay[a] = z
            /\ z = x + y /\ x \in Nat /\ y \in Nat /\ c \in Nat /\ d \in Nat /\ d <= x
        BY <4>1, <4>2, <4>3, <4>4, <4>5
      <4> HIDE DEF x, y, z
      <4> QED BY <4>6, <4>7
    <3> QED BY <3>1
  <2>3. SumOf(Holders, more) = r * S
    <3>1. SumOf(Holders, more) = r * SumOf(Holders, p.balanceOf)
      <4>1. \A u \in Holders : p.balanceOf[u] \in Int /\ more[u] = r * p.balanceOf[u]
        BY <2>2
      <4> HIDE DEF more, r
      <4> QED BY <2>1, <4>1, Constants, SetSumOfScaled
    <3> QED BY <3>1 DEF SharesGood, SharesHeld
  <2>4. SumOf(Holders, Coming(q, a)) = SumOf(Holders, Coming(p, a)) + SumOf(Holders, more)
    <3> HIDE DEF more
    <3>1. \A u \in Holders : Coming(p, a)[u] \in Int /\ more[u] \in Int
                             /\ Coming(q, a)[u] = Coming(p, a)[u] + more[u]
      BY <2>2
    <3> QED BY <3>1, Constants, SetSumOfSum
  <2>5. SumOf(Holders, Coming(p, a)) \in Int
    BY <2>2, Constants, SetSumIsInt
  <2>6. SumOf(Holders, Coming(p, a)) + RAY * p.undistributed[a] <= RAY * p.held[a]
    BY DEF SharesGood, RewardsHeld
  <2> DEFINE w == p.undistributed[a]
             g == gains[a]
             h == p.held[a]
  <2>7. /\ w \in Nat /\ g \in Nat /\ h \in Nat /\ q.held[a] = h + g
        /\ q.undistributed[a] = IF a \in shared THEN 0 ELSE w + g
        /\ r * S <= IF a \in shared THEN (g + w) * RAY ELSE 0
    BY <1>2, <1>3, <1>6 DEF heldNow, waiting
  <2>8. r * S \in Nat
    BY <1>1, <2>1
  <2> DEFINE A == SumOf(Holders, Coming(p, a))
             B == r * S
  <2>9. SumOf(Holders, Coming(q, a)) = A + B
    BY <2>3, <2>4
  <2>10. A \in Int /\ B \in Nat /\ A + RAY * w <= RAY * h
         /\ B <= IF a \in shared THEN (g + w) * RAY ELSE 0
    BY <2>5, <2>6, <2>7, <2>8
  <2> HIDE DEF A, B, w, g, h, r, shared
  <2>11. /\ RAY * (h + g) = RAY * h + RAY * g /\ RAY * (w + g) = RAY * w + RAY * g
         /\ (g + w) * RAY = RAY * w + RAY * g /\ RAY * 0 = 0
         /\ RAY * w \in Nat /\ RAY * g \in Nat /\ RAY * h \in Nat
    BY <1>1, <2>7
  <2> DEFINE W == RAY * w
             G == RAY * g
             H == RAY * h
  <2>12. A + B + RAY * q.undistributed[a] <= RAY * q.held[a]
    <3>1. CASE a \in shared
      <4>1. RAY * q.undistributed[a] = 0 /\ RAY * q.held[a] = H + G /\ B <= W + G
            /\ A + W <= H /\ W \in Nat /\ G \in Nat /\ H \in Nat
        BY <2>7, <2>10, <2>11, <3>1
      <4> HIDE DEF W, G, H
      <4> QED BY <2>10, <4>1
    <3>2. CASE a \notin shared
      <4>1. RAY * q.undistributed[a] = W + G /\ RAY * q.held[a] = H + G /\ B <= 0
            /\ A + W <= H /\ W \in Nat /\ G \in Nat /\ H \in Nat
        BY <2>7, <2>10, <2>11, <3>2
      <4> HIDE DEF W, G, H
      <4> QED BY <2>10, <4>1
    <3> QED BY <3>1, <3>2
  <2> QED BY <2>2, <2>9, <2>12
<1>10. RewardsHeld(q)
  BY <1>9 DEF RewardsHeld
<1> QED BY <1>6, <1>7, <1>8, <1>10 DEF SharesGood, q
Amounts(p) == [t \in Tokens |-> p.position[t].amount]

\* The tokens held are those with an open position, each of which is within the principal.
LEMMA HeldFacts ==
  ASSUME NEW p, PoolGood(p)
  PROVE  /\ HeldTokens(p) = {t \in Tokens : p.tokenIndex[t] # 0}
         /\ \A t \in Tokens : /\ p.position[t].amount \in Nat
                              /\ p.position[t].unlockEpoch \in Nat
                              /\ p.position[t].amount <= p.lockedPrincipal
                              /\ Amounts(p)[t] = p.position[t].amount
         /\ IsFamily(Amounts(p), MaxTokens)
         /\ p.totalSupply = 0 => HeldTokens(p) = {}
<1>1. /\ p.underlyingTokenIds \in Seq(Tokens) /\ p.tokenIndex \in [Tokens -> Nat]
      /\ \A t \in Tokens : p.position[t].amount \in Nat /\ p.position[t].unlockEpoch \in Nat
  BY PoolFields DEF PoolGood
<1>2. HeldTokens(p) = {t \in Tokens : p.tokenIndex[t] # 0}
  <2>1. DOMAIN p.underlyingTokenIds = 1 .. Len(p.underlyingTokenIds)
        /\ \A i \in 1 .. Len(p.underlyingTokenIds) : p.underlyingTokenIds[i] \in Tokens
    BY <1>1
  <2>2. \A t \in HeldTokens(p) : t \in Tokens /\ p.tokenIndex[t] # 0
    BY <2>1 DEF HeldTokens, PoolGood, TokensIndexed
  <2>3. \A t \in Tokens : p.tokenIndex[t] # 0 => t \in HeldTokens(p)
    BY <2>1 DEF HeldTokens, PoolGood, TokensIndexed
  <2> QED BY <2>2, <2>3
<1>3. \A t \in 1 .. MaxTokens : Amounts(p)[t] = p.position[t].amount /\ Amounts(p)[t] \in Nat
  BY <1>1 DEF Amounts, Tokens
<1>4. IsFamily(Amounts(p), MaxTokens)
  BY <1>3, Constants DEF IsFamily
<1>5. \A t \in 1 .. MaxTokens : Amounts(p)[t] <= SumTo(Amounts(p), MaxTokens)
  BY <1>3, Constants, SumIsNat
<1>6. p.lockedPrincipal = SumTo(Amounts(p), MaxTokens)
  BY DEF PoolGood, NaraHeld, Amounts
<1>7. \A t \in Tokens : p.position[t].amount <= p.lockedPrincipal
  BY <1>3, <1>5, <1>6 DEF Tokens
<1>8. p.totalSupply = 0 => HeldTokens(p) = {}
  <2>1. SUFFICES ASSUME p.totalSupply = 0 PROVE \A t \in Tokens : p.tokenIndex[t] = 0
    BY <1>2
  <2>2. p.lockedPrincipal = 0
    BY <2>1 DEF PoolGood, NaraHeld
  <2>3. \A t \in Tokens : p.position[t].amount = 0
    BY <1>1, <1>7, <2>2
  <2> QED BY <2>3 DEF PoolGood, TokensIndexed
<1> QED BY <1>1, <1>2, <1>3, <1>4, <1>7, <1>8 DEF Tokens

\* A harvest, whichever of its calls succeed, brings NARA and rewards and moves nothing.
LEMMA HarvestedGood ==
  ASSUME NEW p, PoolGood(p), NEW ids \in SUBSET HeldTokens(p), NEW answers,
         NEW bps \in 0 .. BPS - 1
  PROVE  LET q == Harvested(p, ids, answers, bps) IN
         /\ PoolGood(q)
         /\ q.underlyingTokenIds = p.underlyingTokenIds /\ q.tokenIndex = p.tokenIndex
         /\ q.position = p.position /\ q.lockedPrincipal = p.lockedPrincipal
         /\ q.reservedForRedemptions = p.reservedForRedemptions
         /\ q.balanceOf = p.balanceOf /\ q.totalSupply = p.totalSupply
         /\ q.keeperBountyBps = p.keeperBountyBps
         /\ p.liquidNara <= q.liquidNara
<1> DEFINE taken(t, k) == t \in ids /\ k \in Answered(answers)
           family(k) == [t \in Tokens |-> When(taken(t, k), p.earned[t][k])]
           gained(k) == SumTo(family(k), MaxTokens)
           bounty == (gained("usdc") * bps) \div BPS
           left == [t \in Tokens |-> [k \in Kinds |-> IF taken(t, k) THEN 0 ELSE p.earned[t][k]]]
           gains == [usdc |-> gained("usdc") - bounty, eth |-> gained("eth")]
           n == gained("nara")
           c == [p EXCEPT !.liquidNara = p.liquidNara + n, !.naraBalance = p.naraBalance + n,
                          !.earned = left]
           q == Harvested(p, ids, answers, bps)
<1>1. p \in PoolType /\ p.liquidNara \in Nat /\ p.naraBalance \in Nat
      /\ \A t \in Tokens, k \in Kinds : p.earned[t][k] \in Nat
  BY PoolFields DEF PoolGood
<1>2. \A k \in Kinds : gained(k) \in Nat
  <2>1. ASSUME NEW k \in Kinds PROVE gained(k) \in Nat
    <3> DEFINE f == family(k)
    <3>1. \A t \in 1 .. MaxTokens : f[t] \in Nat
      BY <1>1 DEF When, Tokens
    <3> HIDE DEF f
    <3>2. SumTo(f, MaxTokens) \in Nat
      BY <3>1, Constants, SumIsNat
    <3> QED BY <3>2 DEF f
  <2> QED BY <2>1
<1>3. q = Indexed(c, gains)
  BY DEF Harvested
<1>4. n \in Nat /\ gained("usdc") \in Nat /\ gained("eth") \in Nat
  BY <1>2 DEF Kinds, Assets
<1>5. p.totalSupply = 0 => n = 0
  <2>1. SUFFICES ASSUME p.totalSupply = 0 PROVE n = 0
    OBVIOUS
  <2>2. ids = {}
    BY <2>1, HeldFacts
  <2> DEFINE f == family("nara")
  <2>3. \A t \in 1 .. MaxTokens : f[t] = 0
    BY <2>2 DEF When, Tokens
  <2> HIDE DEF f
  <2>4. SumTo(f, MaxTokens) = 0
    BY <2>3, Constants, SumOfZeros
  <2> QED BY <2>4 DEF f
<1>6. left \in [Tokens -> [Kinds -> Nat]]
  BY <1>1
<1>7. gains \in [Assets -> Nat]
  <2> DEFINE g == gained("usdc")
  <2>1. g \in Nat /\ BPS \in Nat \ {0} /\ bps \in Nat /\ bps <= BPS
    BY <1>4, Constants
  <2> HIDE DEF g
  <2>2. g * bps <= g * BPS /\ g * bps \in Nat /\ g * BPS \in Nat
    BY <2>1
  <2> DEFINE x == g * bps
             y == g * BPS
  <2>3. x \div BPS \in Nat /\ x \div BPS <= g
    <3>1. y \div BPS = g
      BY <2>1
    <3>2. x \in Nat /\ y \in Nat /\ x <= y
      BY <2>2
    <3> HIDE DEF x, y
    <3>3. x \div BPS <= y \div BPS /\ x \div BPS \in Nat
      BY <2>1, <3>2
    <3> QED BY <3>1, <3>3
  <2>4. g - x \div BPS \in Nat
    <3> HIDE DEF x, y
    <3> QED BY <2>1, <2>3
  <2>5. gains["usdc"] \in Nat /\ gains["eth"] \in Nat
    BY <1>4, <2>4 DEF g
  <2>6. gains["usdc"] = gains.usdc /\ gains["eth"] = gains.eth
        /\ gains = [a \in Assets |-> gains[a]]
    BY DEF Assets
  <2> HIDE DEF gains
  <2> QED BY <2>5, <2>6 DEF Assets
<1> HIDE DEF n, left, gains
<1>8. /\ c \in PoolType /\ SharesSame(p, c)
      /\ c.underlyingTokenIds = p.underlyingTokenIds /\ c.tokenIndex = p.tokenIndex
      /\ c.position = p.position /\ c.lockedPrincipal = p.lockedPrincipal
      /\ c.reservedForRedemptions = p.reservedForRedemptions
      /\ c.liquidNara = p.liquidNara + n /\ c.naraBalance = p.naraBalance + n
      /\ c.keeperBountyBps = p.keeperBountyBps
  <2>1. p.liquidNara + n \in Nat /\ p.naraBalance + n \in Nat
    BY <1>1, <1>4 DEF n
  <2> QED BY <1>1, <1>6, <2>1 DEF PoolType, SharesSame
<1> HIDE DEF c, q
<1>9. SharesGood(c)
  <2>1. SharesGood(p)
    BY DEF PoolGood, SharesGood
  <2> QED BY <1>8, <2>1, SharesStay
<1>10. /\ SharesGood(q) /\ NaraSame(c, q)
       /\ q.balanceOf = c.balanceOf /\ q.totalSupply = c.totalSupply
       /\ q.earned = c.earned /\ q.keeperBountyBps = c.keeperBountyBps
  BY <1>3, <1>7, <1>9, IndexedGood
<1>11. /\ q.underlyingTokenIds = p.underlyingTokenIds /\ q.tokenIndex = p.tokenIndex
       /\ q.position = p.position /\ q.lockedPrincipal = p.lockedPrincipal
       /\ q.reservedForRedemptions = p.reservedForRedemptions
       /\ q.balanceOf = p.balanceOf /\ q.totalSupply = p.totalSupply
       /\ q.keeperBountyBps = p.keeperBountyBps
       /\ q.liquidNara = p.liquidNara + n /\ q.naraBalance = p.naraBalance + n
  BY <1>8, <1>10 DEF NaraSame, SharesSame
<1>12. TokensIndexed(q)
  BY <1>11 DEF PoolGood, TokensIndexed
<1>13. NaraHeld(q)
  <2>1. /\ n \in Nat /\ p.liquidNara \in Nat /\ p.lockedPrincipal \in Nat
        /\ p.reservedForRedemptions \in Nat
    BY <1>1, <1>4, PoolFields DEF n
  <2> QED BY <1>5, <1>11, <2>1 DEF PoolGood, NaraHeld
<1>14. PoolGood(q)
  BY <1>10, <1>12, <1>13 DEF PoolGood, SharesGood
<1>15. p.liquidNara <= q.liquidNara
  BY <1>1, <1>4, <1>11 DEF n
<1> QED BY <1>11, <1>14, <1>15 DEF q

\* The harvest before a deposit or a redemption, which an emergency leaves out.
LEMMA AutoHarvestedGood ==
  ASSUME NEW p, PoolGood(p), NEW answers
  PROVE  LET q == AutoHarvested(p, answers) IN
         /\ PoolGood(q)
         /\ q.underlyingTokenIds = p.underlyingTokenIds /\ q.tokenIndex = p.tokenIndex
         /\ q.position = p.position /\ q.lockedPrincipal = p.lockedPrincipal
         /\ q.reservedForRedemptions = p.reservedForRedemptions
         /\ q.balanceOf = p.balanceOf /\ q.totalSupply = p.totalSupply
         /\ p.liquidNara <= q.liquidNara
<1>1. CASE emergencyShutdown
  <2>1. AutoHarvested(p, answers) = p
    BY <1>1 DEF AutoHarvested
  <2>2. p.liquidNara \in Nat
    BY PoolFields DEF PoolGood
  <2> QED BY <2>1, <2>2
<1>2. CASE ~ emergencyShutdown
  <2>1. AutoHarvested(p, answers) = Harvested(p, HeldTokens(p), answers, 0)
    BY <1>2 DEF AutoHarvested
  <2>2. 0 \in 0 .. BPS - 1
    BY Constants
  <2> QED BY <2>1, <2>2, HarvestedGood
<1> QED BY <1>1, <1>2
--------------------------------------------------------------------------------
(* Movements of shares *)

LEMMA BalancesMoved ==
  ASSUME NEW p, SharesGood(p), NEW from \in Holders \cup {NoOne},
         NEW to \in Holders \cup {NoOne}, NEW n \in Nat,
         from \in Holders => n <= p.balanceOf[from]
  PROVE  /\ Balances(p, from, to, n) \in [Holders -> Nat]
         /\ \A u \in Holders : Balances(p, from, to, n)[u]
               = p.balanceOf[u] - When(u = from, n) + When(u = to, n)
         /\ SumOf(Holders, Balances(p, from, to, n))
               = p.totalSupply + When(from = NoOne, n) - When(to = NoOne, n)
         /\ p.totalSupply + When(from = NoOne, n) - When(to = NoOne, n) \in Nat
<1> DEFINE b == Balances(p, from, to, n)
           out == [u \in Holders |-> When(u = from, - n)]
           in == [u \in Holders |-> When(u = to, n)]
           less == [u \in Holders |-> p.balanceOf[u] + out[u]]
<1>1. \A u \in Holders : p.balanceOf[u] \in Nat
  BY BalanceBound
<1>2. \A u \in Holders :
         /\ b[u] = p.balanceOf[u] - When(u = from, n) + When(u = to, n)
         /\ out[u] = When(u = from, - n) /\ in[u] = When(u = to, n)
         /\ less[u] = p.balanceOf[u] + out[u]
  BY DEF Balances
<1>3. SumOf(Holders, out) = When(from \in Holders, - n)
  BY Constants, SumOfGift
<1>4. SumOf(Holders, in) = When(to \in Holders, n)
  BY Constants, SumOfGift
<1>5. DOMAIN b = Holders /\ b = [u \in Holders |-> b[u]]
  BY DEF Balances
<1> HIDE DEF b, out, in, less
<1>6. \A u \in Holders : /\ out[u] \in Int /\ in[u] \in Int /\ less[u] \in Int
                         /\ b[u] = less[u] + in[u] /\ b[u] \in Nat
  BY <1>1, <1>2 DEF When
<1>7. SumOf(Holders, less) = SumOf(Holders, p.balanceOf) + SumOf(Holders, out)
  BY <1>1, <1>2, <1>6, Constants, SetSumOfSum
<1>8. SumOf(Holders, b) = SumOf(Holders, less) + SumOf(Holders, in)
  BY <1>6, Constants, SetSumOfSum
<1>9. SumOf(Holders, p.balanceOf) = p.totalSupply /\ p.totalSupply \in Nat
  BY PoolFields DEF SharesGood, SharesHeld
<1>10. SumOf(Holders, b) = p.totalSupply + When(from \in Holders, - n) + When(to \in Holders, n)
  BY <1>3, <1>4, <1>7, <1>8, <1>9
<1>11. SumOf(Holders, b) = p.totalSupply + When(from = NoOne, n) - When(to = NoOne, n)
  <2>1. (from \in Holders <=> from # NoOne) /\ (to \in Holders <=> to # NoOne)
    BY Constants
  <2> QED BY <1>9, <1>10, <2>1 DEF When
<1>12. SumOf(Holders, b) \in Nat
  BY <1>6, Constants, SetSumIsNat
<1>13. b \in [Holders -> Nat]
  BY <1>5, <1>6
<1> QED BY <1>2, <1>11, <1>12, <1>13 DEF b

\* Mints, burns and transfers: both sides settle what they have coming, the others wait.
LEMMA MovedGood ==
  ASSUME NEW p, SharesGood(p), NEW from \in Holders \cup {NoOne},
         NEW to \in Holders \cup {NoOne}, NEW n \in Nat,
         from \in Holders => n <= p.balanceOf[from],
         from # Dead,
         n = 0 \/ p.totalSupply # 0 \/ (to = Dead /\ n >= DEAD_SHARES)
  PROVE  LET q == Moved(p, from, to, n) IN
         /\ SharesGood(q) /\ NaraSame(p, q)
         /\ q.balanceOf = Balances(p, from, to, n)
         /\ q.totalSupply = p.totalSupply + When(from = NoOne, n) - When(to = NoOne, n)
         /\ \A a \in Assets : from \in Holders => q.accruedOf[a][from] = Claimable(p, a, from)
<1> DEFINE b == Balances(p, from, to, n)
           s == p.totalSupply + When(from = NoOne, n) - When(to = NoOne, n)
           accrued == [a \in Assets |-> [u \in Holders |->
                         IF u \in {from, to} THEN Claimable(p, a, u) ELSE p.accruedOf[a][u]]]
           debt == [a \in Assets |-> [u \in Holders |->
                      IF u \in {from, to} THEN b[u] * p.rewardIndexRay[a] ELSE p.debtRayOf[a][u]]]
           q == Moved(p, from, to, n)
<1>1. /\ b \in [Holders -> Nat] /\ SumOf(Holders, b) = s /\ s \in Nat
      /\ \A u \in Holders : b[u] = p.balanceOf[u] - When(u = from, n) + When(u = to, n)
  BY BalancesMoved
<1>2. /\ p \in PoolType /\ RAY \in Nat
      /\ \A a \in Assets : p.rewardIndexRay[a] \in Nat
      /\ \A a \in Assets, u \in Holders : /\ p.accruedOf[a][u] \in Nat /\ p.debtRayOf[a][u] \in Nat
                                          /\ p.balanceOf[u] \in Nat
  <2>1. p \in PoolType /\ RAY \in Nat
    BY Constants DEF SharesGood
  <2> QED BY <2>1, PoolFields
<1> HIDE DEF b, s
<1>3. accrued \in [Assets -> [Holders -> Nat]]
  BY <1>2, ClaimableBound
<1>4. debt \in [Assets -> [Holders -> Nat]]
  <2>1. \A a \in Assets, u \in Holders : b[u] * p.rewardIndexRay[a] \in Nat
    BY <1>1, <1>2
  <2> QED BY <1>2, <2>1
<1>5. q = [p EXCEPT !.balanceOf = b, !.totalSupply = s, !.accruedOf = accrued, !.debtRayOf = debt]
  BY DEF Moved, b, s
<1>6. \A a \in Assets, u \in Holders :
         /\ accrued[a][u] = IF u \in {from, to} THEN Claimable(p, a, u) ELSE p.accruedOf[a][u]
         /\ debt[a][u] = IF u \in {from, to} THEN b[u] * p.rewardIndexRay[a]
                         ELSE p.debtRayOf[a][u]
  OBVIOUS
<1> HIDE DEF accrued, debt, q
<1>7. /\ q \in PoolType /\ NaraSame(p, q) /\ q.balanceOf = b /\ q.totalSupply = s
      /\ q.accruedOf = accrued /\ q.debtRayOf = debt /\ q.rewardIndexRay = p.rewardIndexRay
      /\ q.undistributed = p.undistributed /\ q.held = p.held
  <2>1. q \in PoolType
    BY <1>1, <1>2, <1>3, <1>4, <1>5 DEF PoolType
  <2> QED BY <1>2, <1>5, <2>1 DEF PoolType, NaraSame
<1>8. SharesHeld(q)
  <2>1. q.totalSupply = 0 \/ q.balanceOf[Dead] >= DEAD_SHARES
    <3>1. /\ Dead \in Holders /\ DEAD_SHARES \in Nat /\ NoOne # Dead
          /\ p.balanceOf[Dead] \in Nat /\ p.totalSupply \in Nat
          /\ (p.totalSupply = 0 \/ p.balanceOf[Dead] >= DEAD_SHARES)
      BY <1>2, Constants, PoolFields DEF SharesGood, SharesHeld, Assets
    <3>2. b[Dead] = p.balanceOf[Dead] + When(to = Dead, n)
      BY <1>1, <3>1 DEF When
    <3>3. CASE p.totalSupply # 0
      BY <1>7, <3>1, <3>2, <3>3 DEF When
    <3>4. CASE p.totalSupply = 0 /\ n = 0
      BY <1>7, <3>1, <3>4 DEF When, s
    <3>5. CASE p.totalSupply = 0 /\ to = Dead /\ n >= DEAD_SHARES
      BY <1>7, <3>1, <3>2, <3>5 DEF When
    <3> QED BY <3>3, <3>4, <3>5
  <2> QED BY <1>1, <1>7, <2>1 DEF SharesHeld
<1>9. ASSUME NEW a \in Assets, NEW u \in Holders
      PROVE  /\ q.debtRayOf[a][u] <= q.balanceOf[u] * q.rewardIndexRay[a]
             /\ Coming(q, a)[u] <= Coming(p, a)[u]
  <2>1. Coming(q, a)[u] = RAY * accrued[a][u] + (b[u] * p.rewardIndexRay[a] - debt[a][u])
    BY <1>7 DEF Coming
  <2>2. b[u] * p.rewardIndexRay[a] \in Nat
    BY <1>1, <1>2
  <2>3. CASE u \in {from, to}
    <3>1. accrued[a][u] = Claimable(p, a, u) /\ debt[a][u] = b[u] * p.rewardIndexRay[a]
      BY <1>6, <2>3
    <3>2. RAY * Claimable(p, a, u) <= Coming(p, a)[u] /\ Claimable(p, a, u) \in Nat
      BY ClaimableBound
    <3>3. RAY * Claimable(p, a, u) \in Nat
      BY <1>2, <3>2
    <3>4. q.debtRayOf[a][u] = b[u] * p.rewardIndexRay[a]
          /\ q.balanceOf[u] * q.rewardIndexRay[a] = b[u] * p.rewardIndexRay[a]
      BY <1>7, <3>1
    <3> QED BY <2>1, <2>2, <3>1, <3>2, <3>3, <3>4
  <2>4. CASE u \notin {from, to}
    <3>1. b[u] = p.balanceOf[u] /\ accrued[a][u] = p.accruedOf[a][u]
          /\ debt[a][u] = p.debtRayOf[a][u]
      BY <1>1, <1>2, <1>6, <2>4 DEF When
    <3>2. Coming(q, a)[u] = Coming(p, a)[u]
      BY <2>1, <3>1 DEF Coming
    <3>3. Coming(p, a)[u] \in Nat
      BY ClaimableBound
    <3>4. q.debtRayOf[a][u] <= q.balanceOf[u] * q.rewardIndexRay[a]
      BY <1>7, <3>1 DEF SharesGood, RewardsHeld
    <3> QED BY <3>2, <3>3, <3>4
  <2> QED BY <2>3, <2>4
<1>10. SharesGood(q)
  BY <1>7, <1>8, <1>9, ComingFalls
<1>11. \A a \in Assets : from \in Holders => q.accruedOf[a][from] = Claimable(p, a, from)
  BY <1>6, <1>7
<1> QED BY <1>7, <1>10, <1>11 DEF q, b, s
--------------------------------------------------------------------------------
(* The queue *)

\* What the positions due by an epoch hold.
DueFrom(p, due) ==
    [t \in Tokens |->
        When(t \in HeldTokens(p) /\ p.position[t].unlockEpoch <= due, p.position[t].amount)]

LEMMA FundsFacts ==
  ASSUME NEW p, PoolGood(p), NEW due
  PROVE  /\ FundsBy(p, due) = p.liquidNara + SumTo(DueFrom(p, due), MaxTokens)
         /\ SumTo(DueFrom(p, due), MaxTokens) \in Nat /\ p.liquidNara \in Nat
         /\ FundsBy(p, due) \in Nat /\ p.liquidNara <= FundsBy(p, due)
         /\ IsFamily(DueFrom(p, due), MaxTokens)
         /\ \A t \in 1 .. MaxTokens : DueFrom(p, due)[t] \in Nat
<1> DEFINE f == DueFrom(p, due)
<1>1. \A t \in 1 .. MaxTokens : f[t] \in Nat
  BY HeldFacts DEF DueFrom, When, Tokens
<1>2. p.liquidNara \in Nat
  BY PoolFields DEF PoolGood
<1>3. FundsBy(p, due) = p.liquidNara + SumTo(f, MaxTokens)
  BY DEF FundsBy, DueFrom
<1> HIDE DEF f
<1>4. SumTo(f, MaxTokens) \in Nat /\ IsFamily(f, MaxTokens)
  BY <1>1, Constants, SumIsNat DEF IsFamily
<1> QED BY <1>1, <1>2, <1>3, <1>4 DEF f

\* More NARA at hand, later, and the same positions: the funds only grow.
LEMMA FundsGrow ==
  ASSUME NEW p, PoolGood(p), NEW q, PoolGood(q), NEW d \in Nat, NEW e \in Nat, d <= e,
         q.underlyingTokenIds = p.underlyingTokenIds, q.position = p.position,
         p.liquidNara <= q.liquidNara
  PROVE  FundsBy(p, d) <= FundsBy(q, e)
<1>1. HeldTokens(q) = HeldTokens(p)
  BY DEF HeldTokens
<1> DEFINE f == DueFrom(p, d)
           g == DueFrom(q, e)
<1>2. IsFamily(f, MaxTokens) /\ IsFamily(g, MaxTokens)
      /\ FundsBy(p, d) = p.liquidNara + SumTo(f, MaxTokens) /\ SumTo(f, MaxTokens) \in Nat
      /\ FundsBy(q, e) = q.liquidNara + SumTo(g, MaxTokens) /\ SumTo(g, MaxTokens) \in Nat
      /\ p.liquidNara \in Nat /\ q.liquidNara \in Nat
  BY FundsFacts
<1>3. \A t \in 1 .. MaxTokens : f[t] <= g[t]
  BY <1>1, HeldFacts DEF DueFrom, When, Tokens
<1> HIDE DEF f, g
<1>4. SumTo(f, MaxTokens) <= SumTo(g, MaxTokens)
  BY <1>2, <1>3, SumIsMonotone
<1> QED BY <1>2, <1>4

LEMMA OwedFacts ==
  ASSUME NEW rs \in Seq(Redemption), NEW e
  PROVE  /\ Len(rs) \in Nat /\ DOMAIN rs = 1 .. Len(rs)
         /\ \A i \in 1 .. Len(rs) :
               /\ rs[i] \in Redemption /\ rs[i].naraOwed \in Nat /\ rs[i].readyEpoch \in Nat
               /\ OpenOwed(rs)[i] = When(~ rs[i].claimed, rs[i].naraOwed)
               /\ DueOwed(rs, e)[i]
                     = When(~ rs[i].claimed /\ rs[i].readyEpoch <= e, rs[i].naraOwed)
               /\ OpenOwed(rs)[i] <= SumTo(OpenOwed(rs), Len(rs))
         /\ IsFamily(OpenOwed(rs), Len(rs)) /\ IsFamily(DueOwed(rs, e), Len(rs))
         /\ SumTo(OpenOwed(rs), Len(rs)) \in Nat /\ SumTo(DueOwed(rs, e), Len(rs)) \in Nat
         /\ SumTo(DueOwed(rs, e), Len(rs)) <= SumTo(OpenOwed(rs), Len(rs))
<1> DEFINE n == Len(rs)
           f == DueOwed(rs, e)
           g == OpenOwed(rs)
<1>1. n \in Nat /\ DOMAIN rs = 1 .. n
      /\ \A i \in 1 .. n : /\ rs[i] \in Redemption /\ rs[i].naraOwed \in Nat
                           /\ rs[i].readyEpoch \in Nat
  <2>1. n \in Nat /\ DOMAIN rs = 1 .. n /\ \A i \in 1 .. n : rs[i] \in Redemption
    OBVIOUS
  <2>2. \A r \in Redemption : r.naraOwed \in Nat /\ r.readyEpoch \in Nat
    BY DEF Redemption
  <2> QED BY <2>1, <2>2
<1>2. \A i \in 1 .. n :
         /\ g[i] = When(~ rs[i].claimed, rs[i].naraOwed)
         /\ f[i] = When(~ rs[i].claimed /\ rs[i].readyEpoch <= e, rs[i].naraOwed)
         /\ f[i] \in Nat /\ g[i] \in Nat /\ f[i] <= g[i]
  BY <1>1 DEF OpenOwed, DueOwed, When
<1> HIDE DEF n, f, g
<1>3. IsFamily(f, n) /\ IsFamily(g, n)
  BY <1>1, <1>2 DEF IsFamily
<1>4. SumTo(f, n) \in Nat /\ SumTo(g, n) \in Nat /\ \A i \in 1 .. n : g[i] <= SumTo(g, n)
  BY <1>1, <1>2, SumIsNat
<1>5. SumTo(f, n) <= SumTo(g, n)
  BY <1>2, <1>3, SumIsMonotone
<1> QED BY <1>1, <1>2, <1>3, <1>4, <1>5 DEF n, f, g

LEMMA QueueStays ==
  ASSUME NEW p, PoolGood(p), NEW q, PoolGood(q), NEW rs \in Seq(Redemption), NEW from \in Nat,
         QueueGood(p, rs, from),
         q.underlyingTokenIds = p.underlyingTokenIds, q.position = p.position,
         q.reservedForRedemptions = p.reservedForRedemptions, p.liquidNara <= q.liquidNara
  PROVE  QueueGood(q, rs, from)
<1>1. ASSUME NEW e \in from .. MaxEpoch PROVE SumTo(DueOwed(rs, e), Len(rs)) <= FundsBy(q, e)
  <2>1. e \in Nat
    BY Constants
  <2>2. FundsBy(p, e) <= FundsBy(q, e)
    BY <2>1, FundsGrow
  <2>3. SumTo(DueOwed(rs, e), Len(rs)) <= FundsBy(p, e)
    BY DEF QueueGood
  <2>4. SumTo(DueOwed(rs, e), Len(rs)) \in Nat /\ FundsBy(p, e) \in Nat /\ FundsBy(q, e) \in Nat
    BY OwedFacts, FundsFacts
  <2> QED BY <2>2, <2>3, <2>4
<1> QED BY <1>1 DEF QueueGood

\* Once the last position is due everything locked is at hand.
LEMMA FundsInTheEnd ==
  ASSUME NEW p, PoolGood(p), NEW due \in Nat,
         \A t \in HeldTokens(p) : p.position[t].unlockEpoch <= due
  PROVE  FundsBy(p, due) = p.liquidNara + p.lockedPrincipal
<1> DEFINE f == DueFrom(p, due)
           g == Amounts(p)
<1>1. FundsBy(p, due) = p.liquidNara + SumTo(f, MaxTokens) /\ IsFamily(f, MaxTokens)
  BY FundsFacts
<1>2. p.lockedPrincipal = SumTo(g, MaxTokens) /\ IsFamily(g, MaxTokens)
  BY HeldFacts DEF PoolGood, NaraHeld, Amounts
<1>3. \A t \in 1 .. MaxTokens : f[t] = g[t]
  <2>1. ASSUME NEW t \in Tokens PROVE f[t] = g[t]
    <3>1. g[t] = p.position[t].amount
          /\ f[t] = When(t \in HeldTokens(p) /\ p.position[t].unlockEpoch <= due,
                         p.position[t].amount)
      BY DEF DueFrom, Amounts
    <3>2. CASE t \in HeldTokens(p)
      BY <3>1, <3>2 DEF When
    <3>3. CASE t \notin HeldTokens(p)
      <4>1. p.position[t].amount = 0
        BY <3>3, HeldFacts DEF PoolGood, TokensIndexed
      <4> QED BY <3>1, <3>3, <4>1 DEF When
    <3> QED BY <3>2, <3>3
  <2> QED BY <2>1 DEF Tokens
<1> HIDE DEF f, g
<1>4. SumTo(f, MaxTokens) = SumTo(g, MaxTokens)
  BY <1>2, <1>3, SumExtensional
<1> QED BY <1>1, <1>2, <1>4

\* From the ready epoch on, the funds cover everything reserved.
LEMMA ReadyCovers ==
  ASSUME NEW p, PoolGood(p), NEW target \in Nat, epoch \in Nat,
         target <= p.lockedPrincipal + p.liquidNara
  PROVE  /\ ReadyEpochForReserved(p, target) \in Nat
         /\ \A e \in epoch .. MaxEpoch :
               ReadyEpochForReserved(p, target) <= e => target <= FundsBy(p, e)
<1> DEFINE unlock(t) == p.position[t].unlockEpoch
           H == HeldTokens(p)
           enough == {unlock(t) : t \in {x \in H : FundsBy(p, unlock(x)) >= target}}
           first == CHOOSE e \in enough : \A f \in enough : e <= f
<1>1. /\ \A t \in Tokens : unlock(t) \in Nat /\ unlock(t) <= MaxEpoch
      /\ H \subseteq Tokens /\ p.liquidNara \in Nat /\ p.lockedPrincipal \in Nat
      /\ MaxEpoch \in Nat
  <2>1. \A t \in Tokens : unlock(t) \in Nat /\ unlock(t) <= MaxEpoch
    BY HeldFacts DEF PoolGood, TokensIndexed
  <2>2. H \subseteq Tokens
    BY HeldFacts
  <2>3. p.liquidNara \in Nat /\ p.lockedPrincipal \in Nat
    BY PoolFields DEF PoolGood
  <2> QED BY <2>1, <2>2, <2>3, Constants
<1>2. ReadyEpochForReserved(p, target)
         = IF p.liquidNara >= target THEN epoch
           ELSE IF enough = {} THEN epoch + 1
           ELSE IF first < epoch THEN epoch ELSE first
  BY DEF ReadyEpochForReserved
<1>3. \A e : FundsBy(p, e) \in Nat /\ p.liquidNara <= FundsBy(p, e)
  BY FundsFacts
<1>4. CASE p.liquidNara >= target
  BY <1>1, <1>2, <1>3, <1>4
<1>5. CASE ~ (p.liquidNara >= target)
  <2>1. H # {}
    <3>1. SUFFICES ASSUME H = {} PROVE FALSE
      OBVIOUS
    <3>2. FundsBy(p, 0) = p.liquidNara + p.lockedPrincipal
      BY <3>1, FundsInTheEnd
    <3> DEFINE f == DueFrom(p, 0)
    <3>3. FundsBy(p, 0) = p.liquidNara + SumTo(f, MaxTokens)
      BY FundsFacts
    <3>4. \A t \in 1 .. MaxTokens : f[t] = 0
      BY <3>1 DEF DueFrom, When, Tokens
    <3> HIDE DEF f
    <3>5. SumTo(f, MaxTokens) = 0
      BY <3>4, Constants, SumOfZeros
    <3> HIDE DEF H
    <3> QED BY <1>1, <1>5, <3>2, <3>3, <3>5
  <2> DEFINE R == {MaxEpoch - unlock(t) : t \in H}
  <2>2. R \in SUBSET Nat /\ R # {}
    BY <1>1, <2>1
  <2>3. PICK r \in R : \A x \in R : r <= x
    <3> HIDE DEF R
    <3> QED BY <2>2, LeastExists
  <2>4. PICK t \in H : r = MaxEpoch - unlock(t)
    BY <2>3
  <2>5. \A x \in H : unlock(x) <= unlock(t)
    <3>1. ASSUME NEW x \in H PROVE unlock(x) <= unlock(t)
      <4>1. MaxEpoch - unlock(x) \in R
        BY <3>1
      <4>2. r <= MaxEpoch - unlock(x)
        BY <2>3, <4>1
      <4>3. unlock(x) \in Nat /\ unlock(t) \in Nat
        BY <1>1, <2>4, <3>1
      <4> HIDE DEF unlock, R, H
      <4> QED BY <1>1, <2>4, <4>2, <4>3
    <3> QED BY <3>1
  <2>6. FundsBy(p, unlock(t)) = p.liquidNara + p.lockedPrincipal
    BY <1>1, <2>4, <2>5, FundsInTheEnd
  <2>7. unlock(t) \in enough
    BY <1>1, <2>4, <2>6
  <2>8. enough \in SUBSET Nat
    BY <1>1
  <2>9. first \in enough /\ \A f \in enough : first <= f
    <3> HIDE DEF enough
    <3>1. \E e \in enough : \A f \in enough : e <= f
      BY <2>7, <2>8, LeastExists
    <3> QED BY <3>1
  <2>10. first \in Nat /\ target <= FundsBy(p, first)
    <3>1. PICK x \in H : first = unlock(x) /\ FundsBy(p, unlock(x)) >= target
      BY <2>9
    <3> HIDE DEF first, enough
    <3> QED BY <1>1, <1>3, <3>1
  <2> HIDE DEF first, enough
  <2>11. ASSUME NEW e \in epoch .. MaxEpoch, first <= e PROVE target <= FundsBy(p, e)
    <3>1. e \in Nat
      BY <1>1
    <3>2. FundsBy(p, first) <= FundsBy(p, e)
      BY <1>1, <2>10, <2>11, <3>1, FundsGrow
    <3> QED BY <1>3, <2>10, <3>2
  <2>12. ReadyEpochForReserved(p, target) = IF first < epoch THEN epoch ELSE first
    BY <1>2, <1>5, <2>7
  <2>13. \A e \in epoch .. MaxEpoch :
            ReadyEpochForReserved(p, target) <= e => first <= e
    BY <1>1, <2>10, <2>12
  <2> QED BY <2>10, <2>11, <2>12, <2>13
<1> QED BY <1>4, <1>5
--------------------------------------------------------------------------------
(* What every step keeps *)

LEMMA ValueFacts ==
  ASSUME NEW p, PoolGood(p)
  PROVE  /\ TotalNaraValue(p) = p.lockedPrincipal + p.liquidNara - p.reservedForRedemptions
         /\ TotalNaraValue(p) \in Nat /\ p.totalSupply \in Nat
         /\ p.lockedPrincipal \in Nat /\ p.liquidNara \in Nat /\ p.reservedForRedemptions \in Nat
         /\ p.totalSupply = 0 => TotalNaraValue(p) = 0
<1>1. /\ p.lockedPrincipal \in Nat /\ p.liquidNara \in Nat /\ p.reservedForRedemptions \in Nat
      /\ p.totalSupply \in Nat
  BY PoolFields DEF PoolGood
<1>2. /\ p.reservedForRedemptions <= p.lockedPrincipal + p.liquidNara
      /\ p.totalSupply = 0 => p.lockedPrincipal = 0 /\ p.liquidNara = 0
  BY DEF PoolGood, NaraHeld
<1> QED BY <1>1, <1>2 DEF TotalNaraValue

\* The value of a share does not fall from p to q.
ShareKept(p, q) ==
    q.lockedPrincipal <= p.lockedPrincipal =>
        TotalNaraValue(p) * q.totalSupply <= TotalNaraValue(q) * p.totalSupply

LEMMA ProductGrows ==
  ASSUME NEW x \in Nat, NEW y \in Nat, NEW z \in Nat, x <= y
  PROVE  x * z <= y * z /\ x * z \in Nat /\ y * z \in Nat
<1>1. y * z = x * z + (y - x) * z /\ y - x \in Nat
  OBVIOUS
<1>2. x * z \in Nat /\ (y - x) * z \in Nat
  BY <1>1
<1> QED BY <1>1, <1>2

LEMMA ValueRises ==
  ASSUME NEW p, PoolGood(p), NEW q, PoolGood(q), q.totalSupply = p.totalSupply,
         TotalNaraValue(p) <= TotalNaraValue(q)
  PROVE  ShareKept(p, q)
<1>1. TotalNaraValue(p) \in Nat /\ TotalNaraValue(q) \in Nat /\ p.totalSupply \in Nat
  BY ValueFacts
<1> DEFINE v == TotalNaraValue(p)
           w == TotalNaraValue(q)
           s == p.totalSupply
<1>2. v * s <= w * s
  <2>1. v \in Nat /\ w \in Nat /\ s \in Nat /\ v <= w
    BY <1>1
  <2> HIDE DEF v, w, s
  <2> QED BY <2>1, ProductGrows
<1> QED BY <1>2 DEF ShareKept

\* A step that brings NARA at most and moves no position keeps all there is to keep.
LEMMA QuietStep ==
  ASSUME PoolInv, PoolGood(pool'),
         pool'.underlyingTokenIds = pool.underlyingTokenIds, pool'.tokenIndex = pool.tokenIndex,
         pool'.position = pool.position,
         pool'.reservedForRedemptions = pool.reservedForRedemptions,
         pool.liquidNara <= pool'.liquidNara,
         UNCHANGED <<epoch, nextTokenId, redemptions, depositsPaused, emergencyShutdown>>
  PROVE  PoolInv'
<1>1. QueueGood(pool', redemptions, epoch)
  BY Constants, QueueStays DEF PoolInv
<1> QED BY <1>1 DEF PoolInv

LEMMA HarvestValue ==
  ASSUME NEW p, PoolGood(p), NEW q, PoolGood(q), q.lockedPrincipal = p.lockedPrincipal,
         q.reservedForRedemptions = p.reservedForRedemptions, p.liquidNara <= q.liquidNara
  PROVE  TotalNaraValue(p) <= TotalNaraValue(q)
BY ValueFacts

LEMMA BatchHarvestKeeps ==
  ASSUME PoolInv, NEW start \in 0 .. MAX_POSITIONS, NEW end \in 0 .. MAX_POSITIONS,
         NEW answers \in Answers, BatchHarvest(start, end, answers)
  PROVE  PoolInv' /\ ShareKept(pool, pool')
<1> DEFINE ids == {pool.underlyingTokenIds[i] : i \in start + 1 .. end}
<1>1. PoolGood(pool) /\ pool.keeperBountyBps \in 0 .. BPS - 1
      /\ pool.underlyingTokenIds \in Seq(Tokens)
  BY PoolFields DEF PoolInv, PoolGood
<1>2. ids \in SUBSET HeldTokens(pool)
  <2>1. end <= Len(pool.underlyingTokenIds) /\ MAX_POSITIONS \in Nat
    BY PoolAssumption DEF BatchHarvest
  <2>2. start + 1 .. end \subseteq DOMAIN pool.underlyingTokenIds
    BY <1>1, <2>1
  <2> QED BY <2>2 DEF HeldTokens
<1>3. pool' = Harvested(pool, ids, answers, pool.keeperBountyBps)
      /\ UNCHANGED <<epoch, nextTokenId, redemptions, depositsPaused, emergencyShutdown>>
  BY DEF BatchHarvest
<1> HIDE DEF ids
<1>4. /\ PoolGood(pool')
      /\ pool'.underlyingTokenIds = pool.underlyingTokenIds /\ pool'.tokenIndex = pool.tokenIndex
      /\ pool'.position = pool.position /\ pool'.lockedPrincipal = pool.lockedPrincipal
      /\ pool'.reservedForRedemptions = pool.reservedForRedemptions
      /\ pool'.totalSupply = pool.totalSupply /\ pool.liquidNara <= pool'.liquidNara
  BY <1>1, <1>2, <1>3, HarvestedGood
<1>5. PoolInv'
  BY <1>3, <1>4, QuietStep
<1>6. ShareKept(pool, pool')
  BY <1>1, <1>4, HarvestValue, ValueRises
<1> QED BY <1>5, <1>6
\* NARA that comes in with its books leaves shares and positions as they are.
LEMMA NaraInFacts ==
  ASSUME NEW p, PoolGood(p), NEW n \in Nat
  PROVE  LET q == NaraIn(p, n) IN
         /\ SharesGood(q) /\ SharesSame(p, q)
         /\ q.underlyingTokenIds = p.underlyingTokenIds /\ q.tokenIndex = p.tokenIndex
         /\ q.position = p.position /\ q.lockedPrincipal = p.lockedPrincipal
         /\ q.reservedForRedemptions = p.reservedForRedemptions
         /\ q.liquidNara = p.liquidNara + n /\ q.naraBalance = p.naraBalance + n
<1> DEFINE q == NaraIn(p, n)
<1>1. p \in PoolType /\ p.liquidNara + n \in Nat /\ p.naraBalance + n \in Nat
  BY PoolFields DEF PoolGood
<1>2. q = [p EXCEPT !.liquidNara = p.liquidNara + n, !.naraBalance = p.naraBalance + n]
  BY DEF NaraIn
<1> HIDE DEF q
<1>3. /\ q \in PoolType /\ SharesSame(p, q)
      /\ q.underlyingTokenIds = p.underlyingTokenIds /\ q.tokenIndex = p.tokenIndex
      /\ q.position = p.position /\ q.lockedPrincipal = p.lockedPrincipal
      /\ q.reservedForRedemptions = p.reservedForRedemptions
      /\ q.liquidNara = p.liquidNara + n /\ q.naraBalance = p.naraBalance + n
  BY <1>1, <1>2 DEF PoolType, SharesSame
<1>4. SharesGood(q)
  BY <1>3, SharesStay DEF PoolGood, SharesGood
<1> QED BY <1>3, <1>4 DEF q

\* Shares for what is deposited, rounded down, are worth no more than the deposit.
LEMMA SharesCalculated ==
  ASSUME NEW p, PoolGood(p), NEW n \in Nat
  PROVE  /\ CalcShares(p, n) \in Nat
         /\ p.totalSupply = 0 => CalcShares(p, n) = n
         /\ TotalNaraValue(p) * (p.totalSupply + CalcShares(p, n))
              <= (TotalNaraValue(p) + n) * p.totalSupply
<1> DEFINE v == TotalNaraValue(p)
           s == p.totalSupply
           c == CalcShares(p, n)
<1>1. v \in Nat /\ s \in Nat /\ (s = 0 => v = 0)
  BY ValueFacts
<1>2. c = IF s = 0 \/ v = 0 THEN n ELSE (n * s) \div v
  BY DEF CalcShares
<1> HIDE DEF v, s, c
<1>3. CASE v = 0
  <2>1. c = n /\ v * (s + c) = 0 /\ (v + n) * s \in Nat
    BY <1>1, <1>2, <1>3
  <2> QED BY <1>1, <2>1, <1>3 DEF v, s, c
<1>4. CASE v # 0
  <2> DEFINE x == n * s
  <2>1. x \in Nat /\ v \in Nat \ {0} /\ s # 0
    BY <1>1, <1>4
  <2>2. c = x \div v
    BY <1>2, <2>1
  <2> HIDE DEF x
  <2>3. c \in Nat /\ v * c <= x
    BY <2>1, <2>2
  <2>4. v * (s + c) = v * s + v * c /\ (v + n) * s = v * s + n * s /\ v * s \in Nat
        /\ v * c \in Nat
    BY <1>1, <2>3
  <2> DEFINE a == v * s
             b == v * c
  <2>5. v * (s + c) = a + b /\ (v + n) * s = a + x /\ a \in Nat /\ b \in Nat /\ b <= x
    BY <2>3, <2>4 DEF x
  <2> HIDE DEF a, b
  <2>6. v * (s + c) <= (v + n) * s
    BY <2>1, <2>5
  <2> QED BY <2>1, <2>3, <2>6 DEF v, s, c
<1> QED BY <1>3, <1>4

LEMMA DepositKeeps ==
  ASSUME PoolInv, NEW u \in Users, NEW naraAmount \in DepositAmounts, NEW answers \in Answers,
         Deposit(u, naraAmount, answers)
  PROVE  PoolInv' /\ ShareKept(pool, pool')
<1> DEFINE n == naraAmount
           p == AutoHarvested(pool, answers)
           s == p.totalSupply
           shares == CalcShares(p, n)
           paid == NaraIn(p, n)
           first == Moved(paid, NoOne, Dead, DEAD_SHARES)
<1>1. PoolGood(pool) /\ n \in Nat /\ u \in Holders /\ u # Dead /\ NoOne \notin Holders
      /\ Dead \in Holders /\ u # NoOne /\ Dead # NoOne
  BY PoolAssumption, Constants DEF PoolInv
<1>2. /\ PoolGood(p)
      /\ p.underlyingTokenIds = pool.underlyingTokenIds /\ p.tokenIndex = pool.tokenIndex
      /\ p.position = pool.position /\ p.lockedPrincipal = pool.lockedPrincipal
      /\ p.reservedForRedemptions = pool.reservedForRedemptions
      /\ p.totalSupply = pool.totalSupply /\ pool.liquidNara <= p.liquidNara
  BY <1>1, AutoHarvestedGood
<1>3. /\ s = 0 => n >= MIN_INITIAL_DEPOSIT
      /\ pool' = IF s = 0 THEN Moved(first, NoOne, u, shares - DEAD_SHARES)
                 ELSE Moved(paid, NoOne, u, shares)
      /\ UNCHANGED <<epoch, nextTokenId, redemptions, depositsPaused, emergencyShutdown>>
  BY DEF Deposit
<1> HIDE DEF p
<1>4. /\ SharesGood(paid) /\ SharesSame(p, paid)
      /\ paid.underlyingTokenIds = p.underlyingTokenIds /\ paid.tokenIndex = p.tokenIndex
      /\ paid.position = p.position /\ paid.lockedPrincipal = p.lockedPrincipal
      /\ paid.reservedForRedemptions = p.reservedForRedemptions
      /\ paid.liquidNara = p.liquidNara + n /\ paid.naraBalance = p.naraBalance + n
  BY <1>1, <1>2, NaraInFacts
<1>5. /\ shares \in Nat /\ (s = 0 => shares = n) /\ paid.totalSupply = s
      /\ TotalNaraValue(p) * (s + shares) <= (TotalNaraValue(p) + n) * s
      /\ s \in Nat /\ TotalNaraValue(p) \in Nat /\ (s = 0 => TotalNaraValue(p) = 0)
      /\ p.liquidNara \in Nat
  BY <1>1, <1>2, <1>4, SharesCalculated, ValueFacts DEF SharesSame
<1> HIDE DEF paid, shares
<1>6. SharesGood(pool') /\ NaraSame(paid, pool') /\ pool'.totalSupply = s + shares
      /\ pool'.totalSupply # 0
  <2>1. CASE s = 0
    <3>1. /\ SharesGood(first) /\ NaraSame(paid, first)
          /\ first.totalSupply = DEAD_SHARES /\ DEAD_SHARES \in Nat \ {0}
      <4>1. DEAD_SHARES \in Nat \ {0}
        BY Constants
      <4> HIDE DEF first
      <4>2. /\ SharesGood(first) /\ NaraSame(paid, first)
            /\ first.totalSupply
                 = paid.totalSupply + When(NoOne = NoOne, DEAD_SHARES)
                     - When(Dead = NoOne, DEAD_SHARES)
        BY <1>1, <1>4, <4>1, MovedGood DEF first
      <4> QED BY <1>1, <1>5, <2>1, <4>1, <4>2 DEF When
    <3>2. shares - DEAD_SHARES \in Nat
      BY <1>1, <1>3, <1>5, <2>1, Constants
    <3> HIDE DEF first
    <3> DEFINE m == shares - DEAD_SHARES
    <3>3. pool' = Moved(first, NoOne, u, m)
      BY <1>3, <2>1
    <3> HIDE DEF m
    <3>4. /\ SharesGood(pool') /\ NaraSame(first, pool')
          /\ pool'.totalSupply = first.totalSupply + When(NoOne = NoOne, m) - When(u = NoOne, m)
      BY <1>1, <3>1, <3>2, <3>3, MovedGood DEF m
    <3>5. pool'.totalSupply = shares
      BY <1>1, <1>5, <3>1, <3>2, <3>4 DEF When, m
    <3>6. NaraSame(paid, pool')
      BY <3>1, <3>4 DEF NaraSame
    <3> QED BY <1>5, <2>1, <3>1, <3>2, <3>4, <3>5, <3>6
  <2>2. CASE s # 0
    <3>1. pool' = Moved(paid, NoOne, u, shares)
      BY <1>3, <2>2
    <3>2. /\ SharesGood(pool') /\ NaraSame(paid, pool')
          /\ pool'.totalSupply
               = paid.totalSupply + When(NoOne = NoOne, shares) - When(u = NoOne, shares)
      BY <1>1, <1>4, <1>5, <2>2, <3>1, MovedGood
    <3> QED BY <1>1, <1>5, <2>2, <3>2 DEF When
  <2> QED BY <2>1, <2>2
<1>7. /\ pool'.underlyingTokenIds = pool.underlyingTokenIds
      /\ pool'.tokenIndex = pool.tokenIndex /\ pool'.position = pool.position
      /\ pool'.lockedPrincipal = p.lockedPrincipal
      /\ pool'.reservedForRedemptions = p.reservedForRedemptions
      /\ pool'.liquidNara = p.liquidNara + n /\ pool'.naraBalance = p.naraBalance + n
  BY <1>2, <1>4, <1>6 DEF NaraSame
<1>8. TokensIndexed(pool')
  BY <1>1, <1>7 DEF PoolGood, TokensIndexed
<1>9. NaraHeld(pool')
  <2>1. p.lockedPrincipal \in Nat /\ p.reservedForRedemptions \in Nat
    BY <1>2, ValueFacts
  <2>2. /\ p.lockedPrincipal = SumTo([t \in Tokens |-> p.position[t].amount], MaxTokens)
        /\ p.liquidNara = p.naraBalance
        /\ p.reservedForRedemptions <= p.lockedPrincipal + p.liquidNara
    BY <1>2 DEF PoolGood, NaraHeld
  <2>3. pool'.lockedPrincipal = SumTo([t \in Tokens |-> pool'.position[t].amount], MaxTokens)
    BY <1>2, <1>7, <2>2
  <2> QED BY <1>1, <1>5, <1>6, <1>7, <2>1, <2>2, <2>3 DEF NaraHeld
<1>10. PoolGood(pool')
  BY <1>6, <1>8, <1>9 DEF PoolGood, SharesGood
<1>11. PoolInv'
  <2>1. pool.liquidNara \in Nat
    BY <1>1, ValueFacts
  <2> QED BY <1>1, <1>2, <1>3, <1>5, <1>7, <1>10, <2>1, QuietStep
<1>12. ShareKept(pool, pool')
  <2> DEFINE v0 == TotalNaraValue(pool)
             v == TotalNaraValue(p)
             w == TotalNaraValue(pool')
             S == s + shares
  <2>1. v0 \in Nat /\ v \in Nat /\ v0 <= v /\ S \in Nat
    BY <1>1, <1>2, <1>5, ValueFacts, HarvestValue
  <2>2. w = v + n
    BY <1>1, <1>2, <1>7, <1>10, ValueFacts
  <2>3. v * S <= w * s
    BY <1>5, <2>2
  <2>4. v0 * S <= v * S /\ v0 * S \in Nat /\ v * S \in Nat
    <3> HIDE DEF v0, v, S
    <3> QED BY <2>1, ProductGrows
  <2>5. w * s \in Nat
    BY <1>1, <1>5, <2>1, <2>2
  <2>6. v0 * S <= w * s
    <3> DEFINE x == v0 * S
               y == v * S
               z == w * s
    <3>1. x <= y /\ y <= z /\ x \in Nat /\ y \in Nat /\ z \in Nat
      BY <2>3, <2>4, <2>5
    <3> HIDE DEF x, y, z
    <3>2. x <= z
      BY <3>1
    <3> QED BY <3>2 DEF x, z
  <2> QED BY <1>2, <1>6, <2>6 DEF ShareKept
<1> QED BY <1>11, <1>12
\* What is owed for k of s shares is within the value, and not more than the share of it.
LEMMA OwedCalculated ==
  ASSUME NEW v \in Nat, NEW s \in Nat, NEW k \in Nat, k <= s, s # 0
  PROVE  /\ (k * v) \div s \in Nat /\ (k * v) \div s <= v
         /\ v * (s - k) <= (v - (k * v) \div s) * s
<1> DEFINE x == k * v
           o == x \div s
<1>1. x \in Nat /\ s \in Nat \ {0}
  OBVIOUS
<1>2. x <= s * v /\ s * v \in Nat
  BY ProductGrows
<1>3. v * (s - k) = s * v - x /\ k * v = x
  OBVIOUS
<1> HIDE DEF x
<1>4. o \in Nat /\ o * s <= x
  BY <1>1
<1>5. o <= v
  <2> DEFINE y == s * v
  <2>1. y \div s = v
    BY <1>1
  <2>2. y \in Nat /\ x <= y
    BY <1>2
  <2> HIDE DEF y
  <2>3. x \div s <= y \div s
    BY <1>1, <2>2
  <2> QED BY <2>1, <2>3
<1> HIDE DEF o
<1>6. (v - o) * s = s * v - o * s /\ o * s \in Nat
  BY <1>4
<1> DEFINE y == s * v
           z == o * s
<1>7. v * (s - k) = y - x /\ (v - o) * s = y - z /\ z <= x /\ y \in Nat /\ z \in Nat
  BY <1>2, <1>3, <1>4, <1>6
<1> HIDE DEF y, z
<1>8. v * (s - k) <= (v - o) * s
  BY <1>1, <1>7
<1> QED BY <1>3, <1>4, <1>5, <1>8 DEF o

\* A redemption that is ready only when the funds cover all that is reserved can be queued.
LEMMA QueueAppended ==
  ASSUME NEW p, PoolGood(p), NEW q, PoolGood(q), NEW rs \in Seq(Redemption),
         NEW r \in Redemption, ~ r.claimed, NEW from \in Nat, QueueGood(p, rs, from),
         q.underlyingTokenIds = p.underlyingTokenIds, q.position = p.position,
         p.liquidNara <= q.liquidNara,
         q.reservedForRedemptions = p.reservedForRedemptions + r.naraOwed,
         \A e \in from .. MaxEpoch : r.readyEpoch <= e => q.reservedForRedemptions <= FundsBy(q, e)
  PROVE  Append(rs, r) \in Seq(Redemption) /\ QueueGood(q, Append(rs, r), from)
<1> DEFINE n == Len(rs)
           ns == Append(rs, r)
<1>1. ns \in Seq(Redemption) /\ Len(ns) = n + 1 /\ n \in Nat /\ ns[n + 1] = r
      /\ \A i \in 1 .. n : ns[i] = rs[i]
  OBVIOUS
<1>2. r.naraOwed \in Nat /\ r.readyEpoch \in Nat
  BY DEF Redemption
<1>3. p.reservedForRedemptions \in Nat /\ p.reservedForRedemptions = SumTo(OpenOwed(rs), n)
  BY ValueFacts DEF QueueGood
<1> HIDE DEF ns
<1>4. SumTo(OpenOwed(ns), n + 1) = SumTo(OpenOwed(rs), n) + r.naraOwed
  <2> DEFINE f == OpenOwed(rs)
             g == OpenOwed(ns)
  <2>1. IsFamily(f, n) /\ IsFamily(g, n + 1)
    BY <1>1, OwedFacts
  <2>2. \A i \in 1 .. n + 1 : g[i] = When(~ ns[i].claimed, ns[i].naraOwed)
    BY <1>1, OwedFacts
  <2>3. \A i \in 1 .. n : f[i] = When(~ rs[i].claimed, rs[i].naraOwed)
    BY OwedFacts
  <2> HIDE DEF f, g, n
  <2>4. \A i \in 1 .. n : g[i] = f[i]
    BY <1>1, <2>2, <2>3
  <2>5. g[n + 1] = r.naraOwed
    BY <1>1, <2>2 DEF When
  <2>6. SumTo(g, n + 1) = SumTo(f, n) + g[n + 1]
    BY <2>1, <2>4, SumOfAppend
  <2> QED BY <2>5, <2>6 DEF f, g
<1>5. ASSUME NEW e \in from .. MaxEpoch
      PROVE  SumTo(DueOwed(ns, e), n + 1) <= FundsBy(q, e)
  <2>0. e \in Nat
    BY Constants
  <2>1. CASE r.readyEpoch <= e
    <3>1. q.reservedForRedemptions <= FundsBy(q, e)
      BY <2>1
    <3>2. SumTo(DueOwed(ns, e), n + 1) <= SumTo(OpenOwed(ns), n + 1)
          /\ SumTo(DueOwed(ns, e), n + 1) \in Nat /\ SumTo(OpenOwed(ns), n + 1) \in Nat
      BY <1>1, OwedFacts
    <3>3. FundsBy(q, e) \in Nat
      BY FundsFacts
    <3> QED BY <1>3, <1>4, <3>1, <3>2, <3>3
  <2>2. CASE ~ (r.readyEpoch <= e)
    <3> DEFINE f == DueOwed(rs, e)
               g == DueOwed(ns, e)
    <3>1. IsFamily(f, n) /\ IsFamily(g, n + 1) /\ SumTo(f, n) \in Nat
      BY <1>1, OwedFacts
    <3>2. \A i \in 1 .. n + 1 :
             g[i] = When(~ ns[i].claimed /\ ns[i].readyEpoch <= e, ns[i].naraOwed)
      BY <1>1, OwedFacts
    <3>3. \A i \in 1 .. n : f[i] = When(~ rs[i].claimed /\ rs[i].readyEpoch <= e, rs[i].naraOwed)
      BY OwedFacts
    <3>4. SumTo(f, n) <= FundsBy(p, e)
      BY DEF QueueGood
    <3>5. FundsBy(p, e) <= FundsBy(q, e)
      BY <2>0, FundsGrow
    <3>6. FundsBy(p, e) \in Nat /\ FundsBy(q, e) \in Nat
      BY FundsFacts
    <3> HIDE DEF f, g, n
    <3>7. \A i \in 1 .. n : g[i] = f[i]
      BY <1>1, <3>2, <3>3
    <3>8. g[n + 1] = 0
      BY <1>1, <2>2, <3>2 DEF When
    <3>9. SumTo(g, n + 1) = SumTo(f, n) + g[n + 1]
      BY <3>1, <3>7, SumOfAppend
    <3>10. SumTo(g, n + 1) <= FundsBy(q, e)
      BY <3>1, <3>4, <3>5, <3>6, <3>8, <3>9
    <3> QED BY <3>10 DEF g
  <2> QED BY <2>1, <2>2
<1>6. QueueGood(q, ns, from)
  BY <1>1, <1>3, <1>4, <1>5 DEF QueueGood
<1> QED BY <1>1, <1>6 DEF ns

LEMMA QueueRedeemKeeps ==
  ASSUME PoolInv, NEW u \in Users, NEW shares \in ShareAmounts, NEW answers \in Answers,
         QueueRedeem(u, shares, answers)
  PROVE  PoolInv' /\ ShareKept(pool, pool')
<1> DEFINE k == shares
           p == AutoHarvested(pool, answers)
           s == p.totalSupply
           v == TotalNaraValue(p)
           owed == (k * v) \div s
           reserved == p.reservedForRedemptions + owed
           m == Moved(p, u, NoOne, k)
           ready == ReadyEpochForReserved(p, reserved)
           r == [user |-> u, naraOwed |-> owed, claimed |-> FALSE, readyEpoch |-> ready]
<1>1. PoolGood(pool) /\ k \in Nat /\ u \in Holders /\ u # Dead /\ NoOne \notin Holders
      /\ Dead \in Holders /\ u # NoOne /\ Dead # NoOne /\ epoch \in Nat
      /\ redemptions \in Seq(Redemption) /\ QueueGood(pool, redemptions, epoch)
  BY PoolAssumption, Constants DEF PoolInv
<1>2. /\ PoolGood(p)
      /\ p.underlyingTokenIds = pool.underlyingTokenIds /\ p.tokenIndex = pool.tokenIndex
      /\ p.position = pool.position /\ p.lockedPrincipal = pool.lockedPrincipal
      /\ p.reservedForRedemptions = pool.reservedForRedemptions
      /\ p.balanceOf = pool.balanceOf
      /\ p.totalSupply = pool.totalSupply /\ pool.liquidNara <= p.liquidNara
  BY <1>1, AutoHarvestedGood
<1>3. /\ k # 0 /\ pool.balanceOf[u] >= k
      /\ pool' = [m EXCEPT !.reservedForRedemptions = reserved]
      /\ redemptions' = Append(redemptions, r)
      /\ UNCHANGED <<epoch, nextTokenId, depositsPaused, emergencyShutdown>>
  BY DEF QueueRedeem
<1> HIDE DEF p
<1>4. SharesGood(p) /\ p \in PoolType
  BY <1>2 DEF PoolGood, SharesGood
<1>5. p.balanceOf[u] \in Nat /\ k <= p.balanceOf[u] /\ p.balanceOf[u] <= s
  BY <1>1, <1>2, <1>3, <1>4, BalanceBound
<1>6. s \in Nat /\ v \in Nat /\ p.lockedPrincipal \in Nat /\ p.liquidNara \in Nat
      /\ p.reservedForRedemptions \in Nat
      /\ v = p.lockedPrincipal + p.liquidNara - p.reservedForRedemptions
  BY <1>2, ValueFacts
<1>7. k <= s /\ s # 0
  <2>1. k \in Nat /\ k # 0 /\ s \in Nat
    BY <1>1, <1>3, <1>6
  <2>2. p.balanceOf[u] \in Nat /\ k <= p.balanceOf[u] /\ p.balanceOf[u] <= s
    BY <1>5
  <2> HIDE DEF k, s
  <2> QED BY <2>1, <2>2
<1>8. owed \in Nat /\ owed <= v /\ v * (s - k) <= (v - owed) * s
  <2> HIDE DEF v, s
  <2> QED BY <1>1, <1>6, <1>7, OwedCalculated
<1> HIDE DEF owed, v
<1>9. reserved \in Nat /\ reserved <= p.lockedPrincipal + p.liquidNara
  BY <1>6, <1>8
<1>10. /\ SharesGood(m) /\ NaraSame(p, m) /\ m.totalSupply = s - k
       /\ m.balanceOf = Balances(p, u, NoOne, k)
  <2>1. /\ SharesGood(m) /\ NaraSame(p, m) /\ m.balanceOf = Balances(p, u, NoOne, k)
        /\ m.totalSupply = p.totalSupply + When(u = NoOne, k) - When(NoOne = NoOne, k)
    BY <1>1, <1>4, <1>5, <1>7, MovedGood
  <2> QED BY <1>1, <1>6, <2>1 DEF When
<1>11. m.totalSupply # 0
  <2>1. p.balanceOf[Dead] >= DEAD_SHARES /\ p.balanceOf[Dead] \in Nat
        /\ DEAD_SHARES \in Nat \ {0}
    BY <1>1, <1>4, <1>7, BalanceBound, Constants DEF SharesGood, SharesHeld
  <2>2. m.balanceOf[Dead] = p.balanceOf[Dead]
    BY <1>1, <1>10, <2>1 DEF Balances, When
  <2>3. m.balanceOf[Dead] <= m.totalSupply
    BY <1>1, <1>10, BalanceBound
  <2> QED BY <2>1, <2>2, <2>3
<1> HIDE DEF m, reserved
<1>12. /\ pool' \in PoolType /\ SharesSame(m, pool')
       /\ pool'.underlyingTokenIds = p.underlyingTokenIds
       /\ pool'.tokenIndex = p.tokenIndex /\ pool'.position = p.position
       /\ pool'.lockedPrincipal = p.lockedPrincipal /\ pool'.liquidNara = p.liquidNara
       /\ pool'.naraBalance = p.naraBalance /\ pool'.reservedForRedemptions = reserved
  <2>1. m \in PoolType
    BY <1>10 DEF SharesGood
  <2>2. pool' \in PoolType
    BY <1>3, <1>9, <2>1 DEF PoolType
  <2> QED BY <1>3, <1>10, <2>1, <2>2 DEF PoolType, SharesSame, NaraSame
<1>13. SharesGood(pool')
  BY <1>10, <1>12, SharesStay
<1>14. TokensIndexed(pool')
  BY <1>2, <1>12 DEF PoolGood, TokensIndexed
<1>15. NaraHeld(pool')
  <2>1. pool'.totalSupply # 0
    BY <1>11, <1>12 DEF SharesSame
  <2>2. /\ p.lockedPrincipal = SumTo([t \in Tokens |-> p.position[t].amount], MaxTokens)
        /\ p.liquidNara = p.naraBalance
    BY <1>2 DEF PoolGood, NaraHeld
  <2>3. pool'.lockedPrincipal = SumTo([t \in Tokens |-> pool'.position[t].amount], MaxTokens)
    BY <1>12, <2>2
  <2> QED BY <1>9, <1>12, <2>1, <2>2, <2>3 DEF NaraHeld
<1>16. PoolGood(pool')
  BY <1>12, <1>13, <1>14, <1>15 DEF PoolGood, SharesGood
<1>17. ready \in Nat /\ \A e \in epoch .. MaxEpoch : ready <= e => reserved <= FundsBy(p, e)
  BY <1>1, <1>2, <1>9, ReadyCovers
<1> HIDE DEF ready
<1>18. r \in Redemption /\ ~ r.claimed /\ r.naraOwed = owed /\ r.readyEpoch = ready
  BY <1>8, <1>17 DEF Redemption
<1> HIDE DEF r
<1>19. ASSUME NEW e \in epoch .. MaxEpoch, ready <= e
       PROVE  pool'.reservedForRedemptions <= FundsBy(pool', e)
  <2>1. e \in Nat
    BY <1>1, Constants
  <2>2. p.liquidNara <= pool'.liquidNara
    BY <1>6, <1>12
  <2>3. FundsBy(p, e) <= FundsBy(pool', e)
    BY <1>2, <1>12, <1>16, <2>1, <2>2, FundsGrow
  <2>4. FundsBy(p, e) \in Nat /\ FundsBy(pool', e) \in Nat
    BY <1>2, <1>16, FundsFacts
  <2>5. reserved <= FundsBy(p, e)
    BY <1>17, <1>19
  <2> QED BY <1>9, <1>12, <2>3, <2>4, <2>5
<1>20. redemptions' \in Seq(Redemption) /\ QueueGood(pool', redemptions', epoch)
  <2>1. pool.liquidNara <= pool'.liquidNara
    BY <1>2, <1>12
  <2>2. pool'.reservedForRedemptions = pool.reservedForRedemptions + r.naraOwed
    BY <1>2, <1>12, <1>18 DEF reserved
  <2>3. pool'.underlyingTokenIds = pool.underlyingTokenIds /\ pool'.position = pool.position
    BY <1>2, <1>12
  <2>4. \A e \in epoch .. MaxEpoch :
           r.readyEpoch <= e => pool'.reservedForRedemptions <= FundsBy(pool', e)
    BY <1>18, <1>19
  <2> QED BY <1>1, <1>3, <1>16, <1>18, <2>1, <2>2, <2>3, <2>4, QueueAppended
<1>21. PoolInv'
  <2>1. pool'.tokenIndex = pool.tokenIndex
    BY <1>2, <1>12
  <2> QED BY <1>3, <1>16, <1>20, <2>1 DEF PoolInv
<1>22. ShareKept(pool, pool')
  <2> DEFINE v0 == TotalNaraValue(pool)
             w == TotalNaraValue(pool')
             S == s - k
  <2>1. v0 \in Nat /\ v0 <= v /\ S \in Nat
    BY <1>1, <1>2, <1>6, <1>7, ValueFacts, HarvestValue DEF v
  <2>2. w = v - owed
    BY <1>6, <1>8, <1>12, <1>16, ValueFacts DEF reserved
  <2>3. v0 * S <= v * S /\ v0 * S \in Nat /\ v * S \in Nat
    <3> HIDE DEF v0, S
    <3> QED BY <1>6, <2>1, ProductGrows
  <2>4. v * S <= w * s /\ w * s \in Nat
    BY <1>6, <1>8, <2>2
  <2> DEFINE x == v0 * S
             y == v * S
             z == w * s
  <2>5. x <= y /\ y <= z /\ x \in Nat /\ y \in Nat /\ z \in Nat
    BY <2>3, <2>4
  <2>6. pool'.totalSupply = S
    BY <1>10, <1>12 DEF SharesSame
  <2>7. x <= z
    <3> HIDE DEF x, y, z
    <3> QED BY <2>5
  <2> QED BY <1>2, <2>6, <2>7 DEF ShareKept
<1> QED BY <1>21, <1>22
LEMMA TransferKeeps ==
  ASSUME PoolInv, NEW u \in Users, NEW v \in Users, NEW n \in ShareAmounts,
         NEW answers \in Answers, Transfer(u, v, n, answers)
  PROVE  PoolInv' /\ ShareKept(pool, pool')
<1> DEFINE p == IF u = v THEN pool ELSE Harvested(pool, HeldTokens(pool), answers, 0)
<1>1. PoolGood(pool) /\ n \in Nat /\ u \in Holders /\ u # Dead /\ v \in Holders /\ u # NoOne
      /\ v # NoOne
  BY PoolAssumption, Constants DEF PoolInv
<1>2. /\ n <= pool.balanceOf[u] /\ pool' = Moved(p, u, v, n)
      /\ UNCHANGED <<epoch, nextTokenId, redemptions, depositsPaused, emergencyShutdown>>
  BY DEF Transfer
<1>3. pool.liquidNara \in Nat
  BY <1>1, ValueFacts
<1>4. /\ PoolGood(p)
      /\ p.underlyingTokenIds = pool.underlyingTokenIds /\ p.tokenIndex = pool.tokenIndex
      /\ p.position = pool.position /\ p.lockedPrincipal = pool.lockedPrincipal
      /\ p.reservedForRedemptions = pool.reservedForRedemptions
      /\ p.balanceOf = pool.balanceOf /\ p.totalSupply = pool.totalSupply
      /\ pool.liquidNara <= p.liquidNara
  <2>1. CASE u = v
    BY <1>1, <1>3, <2>1
  <2>2. CASE u # v
    <3>1. 0 \in 0 .. BPS - 1
      BY Constants
    <3>2. p = Harvested(pool, HeldTokens(pool), answers, 0)
      BY <2>2
    <3> QED BY <1>1, <3>1, <3>2, HarvestedGood
  <2> QED BY <2>1, <2>2
<1> HIDE DEF p
<1>5. SharesGood(p)
  BY <1>4 DEF PoolGood, SharesGood
<1>6. n <= p.balanceOf[u] /\ p.balanceOf[u] <= p.totalSupply /\ p.balanceOf[u] \in Nat
      /\ p.totalSupply \in Nat
  BY <1>1, <1>2, <1>4, <1>5, BalanceBound, ValueFacts
<1>7. n = 0 \/ p.totalSupply # 0
  BY <1>1, <1>6
<1>8. /\ SharesGood(pool') /\ NaraSame(p, pool')
      /\ pool'.totalSupply = p.totalSupply + When(u = NoOne, n) - When(v = NoOne, n)
  BY <1>1, <1>2, <1>5, <1>6, <1>7, MovedGood
<1>9. pool'.totalSupply = p.totalSupply
  BY <1>1, <1>6, <1>8 DEF When
<1>10. PoolGood(pool')
  BY <1>4, <1>8, <1>9 DEF PoolGood, SharesGood, NaraSame, TokensIndexed, NaraHeld
<1>11. /\ pool'.underlyingTokenIds = pool.underlyingTokenIds
       /\ pool'.tokenIndex = pool.tokenIndex
       /\ pool'.position = pool.position /\ pool'.lockedPrincipal = pool.lockedPrincipal
       /\ pool'.reservedForRedemptions = pool.reservedForRedemptions
       /\ pool'.totalSupply = pool.totalSupply /\ pool.liquidNara <= pool'.liquidNara
  BY <1>4, <1>8, <1>9 DEF NaraSame
<1>12. PoolInv'
  BY <1>2, <1>10, <1>11, QuietStep
<1>13. ShareKept(pool, pool')
  BY <1>1, <1>10, <1>11, HarvestValue, ValueRises
<1> QED BY <1>12, <1>13

LEMMA ClaimRedemptionKeeps ==
  ASSUME PoolInv, NEW i \in 1 .. Len(redemptions), ClaimRedemption(i)
  PROVE  PoolInv' /\ ShareKept(pool, pool')
<1> DEFINE rs == redemptions
           n == Len(rs)
           r == rs[i]
           o == r.naraOwed
           ns == redemptions'
           R == pool.reservedForRedemptions
           L == pool.liquidNara
<1>1. PoolGood(pool) /\ pool \in PoolType /\ epoch \in Nat /\ rs \in Seq(Redemption)
      /\ QueueGood(pool, rs, epoch) /\ n \in Nat
  BY DEF PoolInv, PoolGood
<1>2. r \in Redemption /\ o \in Nat /\ r.readyEpoch \in Nat
  BY <1>1, OwedFacts
<1>3. ~ r.claimed /\ epoch >= r.readyEpoch /\ L >= o
      /\ ns = [rs EXCEPT ![i].claimed = TRUE]
      /\ pool' = [NaraIn(pool, - o) EXCEPT !.reservedForRedemptions = @ - o]
      /\ UNCHANGED <<epoch, nextTokenId, depositsPaused, emergencyShutdown>>
  BY DEF ClaimRedemption
<1>4. /\ ns \in Seq(Redemption) /\ Len(ns) = n
      /\ \A j \in 1 .. n : j # i => ns[j] = rs[j]
      /\ ns[i].claimed
  <2> DEFINE c == [r EXCEPT !.claimed = TRUE]
  <2>1. c \in Redemption /\ c.claimed
    BY <1>2 DEF Redemption
  <2>2. ns = [rs EXCEPT ![i] = c]
    BY <1>3
  <2> HIDE DEF c, ns
  <2> QED BY <1>1, <2>1, <2>2
<1>5. R \in Nat /\ L \in Nat /\ pool.naraBalance = L /\ pool.lockedPrincipal \in Nat
      /\ R <= pool.lockedPrincipal + L
      /\ (pool.totalSupply = 0 => pool.lockedPrincipal = 0 /\ L = 0)
      /\ pool.lockedPrincipal = SumTo([t \in Tokens |-> pool.position[t].amount], MaxTokens)
  BY <1>1, ValueFacts DEF PoolGood, NaraHeld
<1> DEFINE f == OpenOwed(rs)
           g == OpenOwed(ns)
<1>6. IsFamily(f, n) /\ IsFamily(g, n) /\ R = SumTo(f, n) /\ f[i] <= SumTo(f, n)
      /\ \A j \in 1 .. n : /\ f[j] = When(~ rs[j].claimed, rs[j].naraOwed)
                           /\ g[j] = When(~ ns[j].claimed, ns[j].naraOwed)
  BY <1>1, <1>4, OwedFacts DEF QueueGood
<1>7. SumTo(g, n) = R - o /\ o <= R
  <2> HIDE DEF f, g, ns
  <2>1. \A j \in 1 .. n : j # i => g[j] = f[j]
    BY <1>4, <1>6
  <2>2. f[i] = o /\ g[i] = 0
    BY <1>3, <1>4, <1>6 DEF When
  <2>3. SumTo(g, n) = SumTo(f, n) + g[i] - f[i]
    BY <1>6, <2>1, SumOfUpdate
  <2> QED BY <1>2, <1>5, <1>6, <2>2, <2>3
<1> HIDE DEF o, R, L, f, g
<1>8. /\ pool' \in PoolType /\ SharesSame(pool, pool')
      /\ pool'.underlyingTokenIds = pool.underlyingTokenIds
      /\ pool'.tokenIndex = pool.tokenIndex /\ pool'.position = pool.position
      /\ pool'.lockedPrincipal = pool.lockedPrincipal /\ pool'.liquidNara = L - o
      /\ pool'.naraBalance = L - o /\ pool'.reservedForRedemptions = R - o
      /\ pool'.totalSupply = pool.totalSupply
  <2>1. L - o \in Nat /\ R - o \in Nat
    BY <1>2, <1>3, <1>5, <1>7
  <2>2. pool' = [pool EXCEPT !.liquidNara = L - o, !.naraBalance = L - o,
                             !.reservedForRedemptions = R - o]
    <3>1. pool.liquidNara + - o = L - o /\ pool.naraBalance + - o = L - o
      BY <1>2, <1>5 DEF L
    <3>2. NaraIn(pool, - o) = [pool EXCEPT !.liquidNara = L - o, !.naraBalance = L - o]
      BY <3>1 DEF NaraIn
    <3>3. NaraIn(pool, - o).reservedForRedemptions = R
      BY <1>1, <3>2 DEF R, PoolType
    <3>4. pool' = [NaraIn(pool, - o) EXCEPT !.reservedForRedemptions = R - o]
      BY <1>3, <3>3
    <3> QED BY <1>1, <3>2, <3>4 DEF PoolType
  <2> QED BY <1>1, <2>1, <2>2 DEF PoolType, SharesSame
<1>9. SharesGood(pool')
  BY <1>1, <1>8, SharesStay DEF PoolGood, SharesGood
<1>10. TokensIndexed(pool')
  BY <1>1, <1>8 DEF PoolGood, TokensIndexed
<1>11. NaraHeld(pool')
  <2>1. pool'.lockedPrincipal = SumTo([t \in Tokens |-> pool'.position[t].amount], MaxTokens)
    BY <1>5, <1>8
  <2>2. pool'.totalSupply = 0 => pool'.lockedPrincipal = 0 /\ pool'.liquidNara = 0
    BY <1>2, <1>3, <1>5, <1>8
  <2>3. pool'.reservedForRedemptions <= pool'.lockedPrincipal + pool'.liquidNara
    BY <1>2, <1>5, <1>7, <1>8
  <2> QED BY <1>8, <2>1, <2>2, <2>3 DEF NaraHeld
<1>12. PoolGood(pool')
  BY <1>9, <1>10, <1>11 DEF PoolGood, SharesGood
<1>13. ASSUME NEW e \in epoch .. MaxEpoch
       PROVE  SumTo(DueOwed(ns, e), n) <= FundsBy(pool', e)
  <2> DEFINE d == DueOwed(rs, e)
             h == DueOwed(ns, e)
  <2>1. /\ IsFamily(d, n) /\ IsFamily(h, n) /\ SumTo(d, n) \in Nat /\ SumTo(h, n) \in Nat
        /\ \A j \in 1 .. n :
              /\ d[j] = When(~ rs[j].claimed /\ rs[j].readyEpoch <= e, rs[j].naraOwed)
              /\ h[j] = When(~ ns[j].claimed /\ ns[j].readyEpoch <= e, ns[j].naraOwed)
    BY <1>1, <1>4, OwedFacts
  <2>2. SumTo(d, n) <= FundsBy(pool, e)
    BY <1>1 DEF QueueGood
  <2>3. r.readyEpoch <= e /\ e \in Nat
    <3>1. MaxEpoch \in Nat /\ epoch \in Nat
      BY <1>1, Constants
    <3>2. r.readyEpoch \in Nat /\ r.readyEpoch <= epoch
      BY <1>2, <1>3, <3>1
    <3>3. e \in Nat /\ epoch <= e
      BY <3>1
    <3> DEFINE x == r.readyEpoch
    <3> HIDE DEF x, r
    <3>4. x \in Nat /\ x <= epoch
      BY <3>2 DEF x
    <3>5. x <= e
      BY <3>1, <3>3, <3>4
    <3> QED BY <3>3, <3>5 DEF x
  <2> HIDE DEF d, h, ns
  <2>4. SumTo(h, n) = SumTo(d, n) - o
    <3>1. \A j \in 1 .. n : j # i => h[j] = d[j]
      BY <1>4, <2>1
    <3>2. d[i] = o /\ h[i] = 0
      BY <1>3, <1>4, <2>1, <2>3 DEF When, o
    <3>3. SumTo(h, n) = SumTo(d, n) + h[i] - d[i]
      BY <2>1, <3>1, SumOfUpdate
    <3> QED BY <1>2, <2>1, <3>2, <3>3
  <2>5. /\ FundsBy(pool, e) = L + SumTo(DueFrom(pool, e), MaxTokens)
        /\ FundsBy(pool', e) = L - o + SumTo(DueFrom(pool', e), MaxTokens)
        /\ SumTo(DueFrom(pool, e), MaxTokens) \in Nat
    BY <1>1, <1>8, <1>12, FundsFacts DEF L
  <2>6. DueFrom(pool', e) = DueFrom(pool, e)
    BY <1>8 DEF DueFrom, HeldTokens
  <2>7. SumTo(h, n) <= FundsBy(pool', e)
    BY <1>2, <1>5, <2>1, <2>2, <2>4, <2>5, <2>6
  <2> QED BY <2>7 DEF h
<1>14. QueueGood(pool', ns, epoch)
  BY <1>4, <1>7, <1>8, <1>13 DEF QueueGood, g
<1>15. PoolInv'
  BY <1>3, <1>4, <1>8, <1>12, <1>14 DEF PoolInv
<1>16. TotalNaraValue(pool) <= TotalNaraValue(pool')
  BY <1>1, <1>2, <1>8, <1>12, ValueFacts DEF R, L
<1>17. ShareKept(pool, pool')
  BY <1>1, <1>8, <1>12, <1>16, ValueRises
<1> QED BY <1>15, <1>17
LEMMA ClaimRewardKeeps ==
  ASSUME PoolInv, NEW a \in Assets, NEW u \in Users, ClaimReward(a, u)
  PROVE  PoolInv' /\ ShareKept(pool, pool')
<1> DEFINE p == Moved(pool, u, u, 0)
           c == p.accruedOf[a][u]
<1>1. PoolGood(pool) /\ u \in Holders /\ u # Dead /\ u # NoOne /\ RAY \in Nat \ {0}
  BY Constants DEF PoolInv
<1>2. /\ pool' = [p EXCEPT !.accruedOf[a][u] = 0, !.totalClaimed[a] = @ + c, !.held[a] = @ - c]
      /\ UNCHANGED <<epoch, nextTokenId, redemptions, depositsPaused, emergencyShutdown>>
  BY DEF ClaimReward
<1>3. SharesGood(pool) /\ pool.balanceOf[u] \in Nat /\ pool.totalSupply \in Nat
  BY <1>1, BalanceBound, ValueFacts DEF PoolGood, SharesGood
<1>4. SharesGood(p) /\ NaraSame(pool, p) /\ p.totalSupply = pool.totalSupply
  <2>1. /\ SharesGood(p) /\ NaraSame(pool, p)
        /\ p.totalSupply = pool.totalSupply + When(u = NoOne, 0) - When(u = NoOne, 0)
    BY <1>1, <1>3, MovedGood
  <2> QED BY <1>3, <2>1 DEF When
<1> HIDE DEF p
<1>5. p \in PoolType
  BY <1>4 DEF SharesGood
<1>6. /\ c \in Nat /\ p.held[a] \in Nat /\ p.undistributed[a] \in Nat
      /\ p.totalClaimed[a] \in Nat
      /\ p.accruedOf \in [Assets -> [Holders -> Nat]] /\ p.held \in [Assets -> Nat]
      /\ p.totalClaimed \in [Assets -> Nat]
  BY <1>1, <1>5, PoolFields
<1>7. \A x \in Holders : Coming(p, a)[x] \in Nat /\ RAY * c <= Coming(p, a)[u]
  <2>1. \A x \in Holders : Coming(p, a)[x] \in Nat
    BY <1>4, ClaimableBound
  <2>2. RAY * Claimable(p, a, u) <= Coming(p, a)[u] /\ c <= Claimable(p, a, u)
        /\ Claimable(p, a, u) \in Nat /\ Coming(p, a)[u] \in Nat
    BY <1>1, <1>4, ClaimableBound
  <2>3. RAY * c <= RAY * Claimable(p, a, u) /\ RAY * c \in Nat
        /\ RAY * Claimable(p, a, u) \in Nat
    <3> DEFINE y == Claimable(p, a, u)
    <3>1. c \in Nat /\ y \in Nat /\ c <= y /\ RAY \in Nat
      BY <1>1, <1>6, <2>2
    <3> HIDE DEF c, y
    <3>2. RAY * c = c * RAY /\ RAY * y = y * RAY
      BY <3>1
    <3>3. c * RAY <= y * RAY /\ c * RAY \in Nat /\ y * RAY \in Nat
      BY <3>1, ProductGrows
    <3> QED BY <3>2, <3>3 DEF y
  <2>4. RAY * c <= Coming(p, a)[u]
    <3> DEFINE x == RAY * c
               y == RAY * Claimable(p, a, u)
               z == Coming(p, a)[u]
    <3>1. x <= y /\ y <= z /\ x \in Nat /\ y \in Nat /\ z \in Nat
      BY <2>2, <2>3
    <3> HIDE DEF x, y, z
    <3>2. x <= z
      BY <3>1
    <3> QED BY <3>2 DEF x, z
  <2> QED BY <2>1, <2>4
<1>8. /\ SumOf(Holders, Coming(p, a)) \in Nat
      /\ Coming(p, a)[u] <= SumOf(Holders, Coming(p, a))
      /\ SumOf(Holders, Coming(p, a)) + RAY * p.undistributed[a] <= RAY * p.held[a]
  BY <1>1, <1>4, <1>7, Constants, SetSumIsNat DEF SharesGood, RewardsHeld
<1>9. c <= p.held[a]
  <2> DEFINE h == p.held[a]
             x == RAY * c
             w == RAY * p.undistributed[a]
             y == RAY * h
             A == SumOf(Holders, Coming(p, a))
  <2>1. x \in Nat /\ w \in Nat /\ y \in Nat /\ A \in Nat /\ A + w <= y /\ x <= A
    <3>1. x <= Coming(p, a)[u] /\ Coming(p, a)[u] \in Nat
      BY <1>1, <1>7
    <3>2. x \in Nat /\ w \in Nat /\ y \in Nat
      BY <1>1, <1>6
    <3> HIDE DEF x, w, y
    <3> QED BY <1>8, <3>1, <3>2 DEF w, y
  <2>2. x <= y
    <3> HIDE DEF x, w, y, A
    <3> QED BY <2>1
  <2>3. h \in Nat /\ c \in Nat /\ RAY \in Nat \ {0} /\ x = RAY * c /\ y = RAY * h
    BY <1>1, <1>6
  <2> HIDE DEF x, y, h, c
  <2>4. c <= h
    <3>1. SUFFICES ASSUME h < c PROVE FALSE
      BY <2>3
    <3> DEFINE d == c - h
    <3>2. d \in Nat \ {0} /\ c = h + d
      BY <2>3, <3>1
    <3> HIDE DEF d
    <3>3. RAY * (h + d) = RAY * h + RAY * d /\ RAY * d \in Nat \ {0}
      BY <2>3, <3>2
    <3> QED BY <2>1, <2>2, <2>3, <3>2, <3>3
  <2> QED BY <2>4 DEF h
<1> DEFINE accrued == [p.accruedOf EXCEPT ![a][u] = 0]
           claimed == [p.totalClaimed EXCEPT ![a] = @ + c]
           holds == [p.held EXCEPT ![a] = @ - c]
<1>10. pool' = [p EXCEPT !.accruedOf = accrued, !.totalClaimed = claimed, !.held = holds]
  BY <1>2
<1>11. /\ accrued \in [Assets -> [Holders -> Nat]] /\ claimed \in [Assets -> Nat]
       /\ holds \in [Assets -> Nat]
       /\ accrued[a][u] = 0
       /\ \A b \in Assets, x \in Holders : b # a \/ x # u => accrued[b][x] = p.accruedOf[b][x]
       /\ \A b \in Assets : b # a => holds[b] = p.held[b]
       /\ holds[a] = p.held[a] - c
  BY <1>1, <1>6, <1>9
<1> HIDE DEF accrued, claimed, holds, c
<1>12. /\ pool' \in PoolType /\ NaraSame(p, pool') /\ pool'.accruedOf = accrued
       /\ pool'.held = holds /\ pool'.undistributed = p.undistributed
       /\ pool'.balanceOf = p.balanceOf /\ pool'.totalSupply = p.totalSupply
       /\ pool'.rewardIndexRay = p.rewardIndexRay /\ pool'.debtRayOf = p.debtRayOf
  BY <1>5, <1>10, <1>11 DEF PoolType, NaraSame
<1>13. \A b \in Assets, x \in Holders :
          (b # a \/ x # u) => Coming(pool', b)[x] = Coming(p, b)[x]
  BY <1>11, <1>12 DEF Coming
<1>14. Coming(pool', a)[u] = Coming(p, a)[u] - RAY * c
  <2> DEFINE y == p.balanceOf[u] * p.rewardIndexRay[a] - p.debtRayOf[a][u]
  <2>1. Coming(pool', a)[u] = RAY * 0 + y /\ Coming(p, a)[u] = RAY * c + y
    BY <1>1, <1>11, <1>12 DEF Coming, c
  <2>2. y \in Int
    <3>1. p.balanceOf[u] \in Nat /\ p.rewardIndexRay[a] \in Nat /\ p.debtRayOf[a][u] \in Nat
      BY <1>1, <1>5, PoolFields
    <3> QED BY <3>1
  <2>3. RAY * c \in Int /\ RAY * 0 = 0
    BY <1>1, <1>6
  <2> HIDE DEF y
  <2> QED BY <2>1, <2>2, <2>3
<1>15. ASSUME NEW b \in Assets
       PROVE  SumOf(Holders, Coming(pool', b)) + RAY * pool'.undistributed[b]
                <= RAY * pool'.held[b]
  <2>1. SumOf(Holders, Coming(p, b)) + RAY * p.undistributed[b] <= RAY * p.held[b]
    BY <1>4 DEF SharesGood, RewardsHeld
  <2>2. CASE b # a
    <3>1. \A x \in Holders : Coming(p, b)[x] \in Int /\ Coming(pool', b)[x] = Coming(p, b)[x]
      BY <1>4, <1>13, <2>2, ClaimableBound
    <3>2. SumOf(Holders, Coming(pool', b)) = SumOf(Holders, Coming(p, b))
      BY <3>1, Constants, SetSumExtensional
    <3> QED BY <1>11, <1>12, <2>1, <2>2, <3>2
  <2>3. CASE b = a
    <3> DEFINE f == Coming(p, a)
               g == Coming(pool', a)
               x == RAY * c
    <3>1. x \in Nat
      BY <1>1, <1>6
    <3>2. /\ \A y \in Holders : f[y] \in Int
          /\ \A y \in Holders : g[y] \in Int
          /\ \A y \in Holders : y # u => g[y] = f[y]
      <4>1. \A y \in Holders : f[y] \in Int
        BY <1>7
      <4>2. \A y \in Holders : y # u => g[y] = f[y]
        BY <1>13
      <4>3. g[u] \in Int
        BY <1>1, <1>14, <3>1, <4>1
      <4> HIDE DEF f, g
      <4>4. \A y \in Holders : g[y] \in Int
        BY <4>1, <4>2, <4>3
      <4> QED BY <4>1, <4>2, <4>4
    <3>3. g[u] = f[u] - x
      BY <1>14
    <3>4. RAY * pool'.held[b] = RAY * p.held[a] - x /\ RAY * p.held[a] \in Nat
      BY <1>1, <1>6, <1>11, <1>12, <2>3
    <3>5. RAY * p.undistributed[a] \in Nat
      BY <1>1, <1>6
    <3> HIDE DEF f, g, x
    <3>6. SumOf(Holders, g) = SumOf(Holders, f) + g[u] - f[u]
      <4>1. IsFiniteSet(Holders) /\ u \in Holders
        BY <1>1, Constants
      <4> QED BY <3>2, <4>1, SetSumOfUpdate
    <3>7. SumOf(Holders, f) \in Int
      BY <3>2, Constants, SetSumIsInt
    <3>8. f[u] \in Int
      BY <1>1, <3>2
    <3>9. SumOf(Holders, g) = SumOf(Holders, f) - x
      BY <3>1, <3>3, <3>6, <3>7, <3>8
    <3>10. SumOf(Holders, f) + RAY * p.undistributed[a] <= RAY * p.held[a]
      BY <1>8 DEF f
    <3>11. SumOf(Holders, g) + RAY * p.undistributed[a] <= RAY * pool'.held[b]
      BY <3>1, <3>4, <3>5, <3>7, <3>9, <3>10
    <3> QED BY <1>12, <2>3, <3>11 DEF g
  <2> QED BY <2>2, <2>3
<1>16. RewardsHeld(pool')
  BY <1>4, <1>12, <1>15 DEF SharesGood, RewardsHeld
<1>17. SharesHeld(pool')
  BY <1>4, <1>12 DEF SharesGood, SharesHeld
<1>18. /\ pool'.underlyingTokenIds = pool.underlyingTokenIds
       /\ pool'.tokenIndex = pool.tokenIndex
       /\ pool'.position = pool.position /\ pool'.lockedPrincipal = pool.lockedPrincipal
       /\ pool'.reservedForRedemptions = pool.reservedForRedemptions
       /\ pool'.naraBalance = pool.naraBalance
       /\ pool'.totalSupply = pool.totalSupply /\ pool'.liquidNara = pool.liquidNara
  BY <1>4, <1>12 DEF NaraSame
<1>19. PoolGood(pool')
  BY <1>1, <1>12, <1>16, <1>17, <1>18 DEF PoolGood, TokensIndexed, NaraHeld
<1>20. pool.liquidNara <= pool'.liquidNara
  BY <1>1, <1>18, ValueFacts
<1>21. PoolInv'
  BY <1>2, <1>18, <1>19, <1>20, QuietStep
<1>22. ShareKept(pool, pool')
  BY <1>1, <1>18, <1>19, <1>20, HarvestValue, ValueRises
<1> QED BY <1>21, <1>22

LEMMA EarnKeeps ==
  ASSUME PoolInv, NEW t \in Tokens, NEW k \in Kinds, NEW n \in Rewards, Earn(t, k, n)
  PROVE  PoolInv' /\ ShareKept(pool, pool')
<1> DEFINE earned == [pool.earned EXCEPT ![t][k] = @ + n]
<1>1. PoolGood(pool) /\ pool \in PoolType /\ n \in Nat
      /\ pool.earned \in [Tokens -> [Kinds -> Nat]]
  BY PoolAssumption, PoolFields DEF PoolInv, PoolGood
<1>2. pool' = [pool EXCEPT !.earned = earned]
      /\ UNCHANGED <<epoch, nextTokenId, redemptions, depositsPaused, emergencyShutdown>>
  BY DEF Earn
<1>3. earned \in [Tokens -> [Kinds -> Nat]]
  BY <1>1
<1> HIDE DEF earned
<1>4. pool' \in PoolType /\ SharesSame(pool, pool') /\ NaraSame(pool, pool')
  BY <1>1, <1>2, <1>3 DEF PoolType, SharesSame, NaraSame
<1>5. SharesGood(pool')
  BY <1>1, <1>4, SharesStay DEF PoolGood, SharesGood
<1>6. PoolGood(pool')
  BY <1>1, <1>4, <1>5
     DEF PoolGood, SharesGood, NaraSame, SharesSame, TokensIndexed, NaraHeld
<1>7. pool.liquidNara <= pool'.liquidNara
  BY <1>1, <1>4, ValueFacts DEF NaraSame
<1>8. PoolInv'
  BY <1>2, <1>4, <1>6, <1>7, QuietStep DEF NaraSame
<1>9. ShareKept(pool, pool')
  BY <1>1, <1>4, <1>6, <1>7, HarvestValue, ValueRises DEF NaraSame, SharesSame
<1> QED BY <1>8, <1>9

LEMMA SettingsKeep ==
  ASSUME PoolInv,
         \/ EpochPasses
         \/ \E bps \in BountyChoices : SetKeeperBounty(bps)
         \/ \E b \in PauseChoices : SetDepositsPaused(b)
         \/ \E b \in EmergencyChoices : SetEmergencyShutdown(b)
         \/ UNCHANGED vars
  PROVE  PoolInv' /\ ShareKept(pool, pool')
<1>1. PoolGood(pool) /\ pool \in PoolType /\ epoch \in Nat /\ MaxEpoch \in Nat
  BY Constants DEF PoolInv, PoolGood
<1>2. TotalNaraValue(pool) <= TotalNaraValue(pool)
  BY <1>1, ValueFacts
<1>3. ShareKept(pool, pool)
  BY <1>1, <1>2, ValueRises
<1>4. CASE EpochPasses
  <2>1. epoch' = epoch + 1 /\ epoch' \in 0 .. MaxEpoch
    BY <1>1, <1>4 DEF EpochPasses
  <2>2. epoch' .. MaxEpoch \subseteq epoch .. MaxEpoch
    BY <1>1, <2>1
  <2>3. QueueGood(pool, redemptions, epoch')
    BY <2>2 DEF PoolInv, QueueGood
  <2> QED BY <1>3, <1>4, <2>1, <2>3 DEF EpochPasses, PoolInv
<1>5. CASE \E bps \in BountyChoices : SetKeeperBounty(bps)
  <2>1. PICK bps \in BountyChoices : SetKeeperBounty(bps)
    BY <1>5
  <2>2. bps \in 0 .. BPS - 1
    BY PoolAssumption
  <2>3. pool' = [pool EXCEPT !.keeperBountyBps = bps]
        /\ UNCHANGED <<epoch, nextTokenId, redemptions, depositsPaused, emergencyShutdown>>
    BY <2>1 DEF SetKeeperBounty
  <2>4. pool' \in PoolType /\ SharesSame(pool, pool') /\ NaraSame(pool, pool')
    BY <1>1, <2>2, <2>3 DEF PoolType, SharesSame, NaraSame
  <2>5. SharesGood(pool')
    BY <1>1, <2>4, SharesStay DEF PoolGood, SharesGood
  <2>6. PoolGood(pool')
    BY <1>1, <2>4, <2>5
       DEF PoolGood, SharesGood, NaraSame, SharesSame, TokensIndexed, NaraHeld
  <2>7. pool.liquidNara <= pool'.liquidNara
    BY <1>1, <2>4, ValueFacts DEF NaraSame
  <2>8. PoolInv'
    BY <2>3, <2>4, <2>6, <2>7, QuietStep DEF NaraSame
  <2>9. ShareKept(pool, pool')
    BY <1>1, <2>4, <2>6, <2>7, HarvestValue, ValueRises DEF NaraSame, SharesSame
  <2> QED BY <2>8, <2>9
<1>6. CASE \E b \in PauseChoices : SetDepositsPaused(b)
  BY <1>3, <1>6, PoolAssumption DEF SetDepositsPaused, PoolInv
<1>7. CASE \E b \in EmergencyChoices : SetEmergencyShutdown(b)
  BY <1>3, <1>7, PoolAssumption DEF SetEmergencyShutdown, PoolInv
<1>8. CASE UNCHANGED vars
  BY <1>3, <1>8 DEF vars, PoolInv
<1> QED BY <1>4, <1>5, <1>6, <1>7, <1>8
\* A new position goes to the end of the array, under a token that had none.
LEMMA LockLiquidKeeps ==
  ASSUME PoolInv, NEW grossAmount \in LockAmounts, NEW feeBps \in LockFees,
         LockLiquid(grossAmount, feeBps)
  PROVE  PoolInv' /\ ShareKept(pool, pool')
<1> DEFINE gross == grossAmount
           fee == (gross * feeBps) \div BPS
           net == gross - fee
           k == nextTokenId
           unlocks == epoch + TARGET_LOCK_EPOCHS + 1
           n == Len(pool.underlyingTokenIds)
           ids == Append(pool.underlyingTokenIds, k)
           index == [pool.tokenIndex EXCEPT ![k] = n + 1]
           pos == [amount |-> net, unlockEpoch |-> unlocks]
           position == [pool.position EXCEPT ![k] = pos]
           R == pool.reservedForRedemptions
           L == pool.liquidNara
           P == pool.lockedPrincipal
<1>1. /\ PoolGood(pool) /\ pool \in PoolType /\ epoch \in Nat /\ gross \in Nat
      /\ redemptions \in Seq(Redemption) /\ QueueGood(pool, redemptions, epoch)
      /\ \A t \in Tokens : t >= k => pool.tokenIndex[t] = 0
      /\ TARGET_LOCK_EPOCHS \in Nat /\ BPS \in Nat \ {0} /\ feeBps \in Nat /\ feeBps <= BPS
      /\ MaxTokens \in Nat
  BY PoolAssumption DEF PoolInv, PoolGood
<1>2. /\ gross # 0 /\ net # 0 /\ gross <= Available(pool)
      /\ k \in Tokens /\ unlocks <= MaxEpoch /\ nextTokenId' = k + 1
      /\ pool' = [NaraIn(pool, - gross) EXCEPT
                     !.lockedPrincipal = @ + net, !.underlyingTokenIds = Append(@, k),
                     !.tokenIndex[k] = n + 1, !.position[k] = pos]
      /\ UNCHANGED <<epoch, redemptions, depositsPaused, emergencyShutdown>>
  BY DEF LockLiquid
<1>3. /\ R \in Nat /\ L \in Nat /\ P \in Nat /\ pool.naraBalance = L
      /\ R <= P + L /\ (pool.totalSupply = 0 => L = 0)
      /\ P = SumTo(Amounts(pool), MaxTokens)
      /\ pool.underlyingTokenIds \in Seq(Tokens) /\ pool.tokenIndex \in [Tokens -> Nat]
      /\ pool.position \in [Tokens -> [amount : Nat, unlockEpoch : Nat]]
  BY <1>1, ValueFacts, PoolFields DEF PoolGood, NaraHeld, Amounts
<1>4. net \in Nat /\ net <= gross
  <2>1. gross * feeBps <= gross * BPS /\ gross * feeBps \in Nat /\ gross * BPS \in Nat
    <3>1. feeBps * gross <= BPS * gross /\ feeBps * gross \in Nat /\ BPS * gross \in Nat
      BY <1>1, ProductGrows
    <3>2. feeBps * gross = gross * feeBps /\ BPS * gross = gross * BPS
      BY <1>1
    <3> QED BY <3>1, <3>2
  <2> DEFINE x == gross * feeBps
             y == gross * BPS
  <2>2. y \div BPS = gross
    BY <1>1
  <2>3. x \in Nat /\ y \in Nat /\ x <= y
    BY <2>1
  <2> HIDE DEF x, y
  <2>4. x \div BPS <= y \div BPS /\ x \div BPS \in Nat
    BY <1>1, <2>3
  <2>5. fee \in Nat /\ fee <= gross
    BY <2>2, <2>4 DEF x
  <2> HIDE DEF fee
  <2> QED BY <1>1, <2>5
<1>5. R <= L /\ gross <= L - R /\ pool.totalSupply # 0
  <2>1. Available(pool) = IF L >= R THEN L - R ELSE 0
    BY DEF Available
  <2>2. gross # 0 /\ gross <= Available(pool)
    BY <1>2
  <2> HIDE DEF L, R
  <2> QED BY <1>1, <1>3, <2>1, <2>2
<1> HIDE DEF net, unlocks, n, R, L, P
<1>6. /\ pos \in [amount : Nat, unlockEpoch : Nat] /\ pos.amount = net
      /\ pos.unlockEpoch = unlocks /\ unlocks \in Nat
  BY <1>1, <1>4 DEF unlocks
<1>7. /\ ids \in Seq(Tokens) /\ Len(ids) = n + 1 /\ n \in Nat /\ ids[n + 1] = k
      /\ \A i \in 1 .. n : ids[i] = pool.underlyingTokenIds[i]
      /\ index \in [Tokens -> Nat] /\ index[k] = n + 1
      /\ \A t \in Tokens : t # k => index[t] = pool.tokenIndex[t]
  BY <1>2, <1>3 DEF n
<1> HIDE DEF pos
<1>8. /\ position \in [Tokens -> [amount : Nat, unlockEpoch : Nat]] /\ position[k] = pos
      /\ \A t \in Tokens : t # k => position[t] = pool.position[t]
  BY <1>2, <1>3, <1>6
<1>9. pool' = [pool EXCEPT !.liquidNara = L - gross, !.naraBalance = L - gross,
                           !.lockedPrincipal = P + net, !.underlyingTokenIds = ids,
                           !.tokenIndex = index, !.position = position]
  <2>1. pool.liquidNara + - gross = L - gross /\ pool.naraBalance + - gross = L - gross
    BY <1>1, <1>3 DEF L
  <2> DEFINE q == NaraIn(pool, - gross)
  <2>2. q = [pool EXCEPT !.liquidNara = L - gross, !.naraBalance = L - gross]
    BY <2>1 DEF NaraIn
  <2> HIDE DEF q
  <2>3. q.lockedPrincipal = P /\ q.underlyingTokenIds = pool.underlyingTokenIds
        /\ q.tokenIndex = pool.tokenIndex /\ q.position = pool.position
    BY <1>1, <2>2 DEF P, PoolType
  <2>4. pool' = [q EXCEPT !.lockedPrincipal = P + net, !.underlyingTokenIds = ids,
                          !.tokenIndex = index, !.position = position]
    BY <1>2, <2>3 DEF q
  <2> HIDE DEF ids, index, position
  <2> QED BY <1>1, <2>2, <2>4 DEF PoolType
<1> HIDE DEF ids, index, position
<1>10. /\ pool' \in PoolType /\ SharesSame(pool, pool')
       /\ pool'.underlyingTokenIds = ids /\ pool'.tokenIndex = index
       /\ pool'.position = position /\ pool'.lockedPrincipal = P + net
       /\ pool'.liquidNara = L - gross /\ pool'.naraBalance = L - gross
       /\ pool'.reservedForRedemptions = R /\ pool'.totalSupply = pool.totalSupply
  <2>1. L - gross \in Nat /\ P + net \in Nat
    BY <1>1, <1>3, <1>4, <1>5
  <2> QED BY <1>1, <1>7, <1>8, <1>9, <2>1 DEF PoolType, SharesSame, R
<1>11. SharesGood(pool')
  BY <1>1, <1>10, SharesStay DEF PoolGood, SharesGood
<1>12. pool.tokenIndex[k] = 0 /\ pool.position[k].amount = 0
  <2>1. pool.tokenIndex[k] = 0
    BY <1>1, <1>2 DEF Tokens
  <2> QED BY <1>1, <1>2, <2>1 DEF PoolGood, TokensIndexed
<1>13. TokensIndexed(pool')
  <2>1. /\ \A i \in 1 .. n : pool.underlyingTokenIds[i] \in Tokens
                             /\ pool.tokenIndex[pool.underlyingTokenIds[i]] = i
        /\ \A t \in Tokens : pool.tokenIndex[t] # 0 =>
              /\ pool.tokenIndex[t] \in 1 .. n
              /\ pool.underlyingTokenIds[pool.tokenIndex[t]] = t
        /\ \A t \in Tokens : pool.tokenIndex[t] # 0 <=> pool.position[t].amount # 0
        /\ \A t \in Tokens : pool.position[t].unlockEpoch <= MaxEpoch
    BY <1>1, <1>3 DEF PoolGood, TokensIndexed, n
  <2>2. \A i \in 1 .. n + 1 : index[ids[i]] = i
    <3>1. ASSUME NEW i \in 1 .. n PROVE index[ids[i]] = i
      <4>1. ids[i] \in Tokens /\ pool.tokenIndex[ids[i]] = i
        BY <1>7, <2>1
      <4>2. i # 0
        OBVIOUS
      <4> QED BY <1>7, <1>12, <4>1, <4>2
    <3>2. index[ids[n + 1]] = n + 1
      BY <1>7
    <3> QED BY <1>7, <3>1, <3>2
  <2>3. \A t \in Tokens : index[t] # 0 => index[t] \in 1 .. n + 1 /\ ids[index[t]] = t
    BY <1>7, <2>1
  <2>4. \A t \in Tokens : index[t] # 0 <=> position[t].amount # 0
    <3>1. ASSUME NEW t \in Tokens, t # k
          PROVE  index[t] # 0 <=> position[t].amount # 0
      BY <1>7, <1>8, <2>1, <3>1
    <3>2. index[k] # 0 /\ position[k].amount # 0
      BY <1>2, <1>6, <1>7, <1>8
    <3> QED BY <3>1, <3>2
  <2>5. \A t \in Tokens : position[t].unlockEpoch <= MaxEpoch
    BY <1>2, <1>6, <1>8, <2>1
  <2> QED BY <1>7, <1>10, <2>2, <2>3, <2>4, <2>5 DEF TokensIndexed
<1>14. NaraHeld(pool')
  <2> DEFINE f == Amounts(pool)
             g == [t \in Tokens |-> pool'.position[t].amount]
  <2>1. IsFamily(f, MaxTokens) /\ \A t \in 1 .. MaxTokens : f[t] = pool.position[t].amount
    BY <1>1, HeldFacts DEF Tokens
  <2>2. \A t \in 1 .. MaxTokens : g[t] = position[t].amount /\ position[t].amount \in Nat
    BY <1>8, <1>10 DEF Tokens
  <2>3. k \in 1 .. MaxTokens
    BY <1>2 DEF Tokens
  <2> HIDE DEF f, g
  <2>4. IsFamily(g, MaxTokens)
    BY <1>1, <2>2 DEF IsFamily
  <2>5. \A t \in 1 .. MaxTokens : t # k => g[t] = f[t]
    BY <1>8, <2>1, <2>2 DEF Tokens
  <2>6. g[k] = net /\ f[k] = 0
    BY <1>6, <1>8, <1>12, <2>1, <2>2, <2>3
  <2>7. SumTo(g, MaxTokens) = SumTo(f, MaxTokens) + g[k] - f[k]
    BY <2>1, <2>3, <2>4, <2>5, SumOfUpdate
  <2>8. pool'.lockedPrincipal = SumTo(g, MaxTokens)
    BY <1>3, <1>4, <1>10, <2>6, <2>7 DEF f
  <2>9. R <= (P + net) + (L - gross)
    BY <1>1, <1>3, <1>4, <1>5
  <2>10. pool'.liquidNara = pool'.naraBalance
         /\ pool'.reservedForRedemptions <= pool'.lockedPrincipal + pool'.liquidNara
    BY <1>10, <2>9
  <2>11. pool'.totalSupply = 0 => pool'.lockedPrincipal = 0 /\ pool'.liquidNara = 0
    BY <1>5, <1>10
  <2> QED BY <2>8, <2>10, <2>11 DEF NaraHeld, g
<1>15. PoolGood(pool')
  BY <1>11, <1>13, <1>14 DEF PoolGood, SharesGood
<1>16. QueueGood(pool', redemptions, epoch)
  <2>1. ASSUME NEW e \in epoch .. MaxEpoch
        PROVE  SumTo(DueOwed(redemptions, e), Len(redemptions)) <= FundsBy(pool', e)
    <3>1. R = SumTo(OpenOwed(redemptions), Len(redemptions))
      BY <1>1 DEF QueueGood, R
    <3>2. /\ SumTo(DueOwed(redemptions, e), Len(redemptions))
               <= SumTo(OpenOwed(redemptions), Len(redemptions))
          /\ SumTo(DueOwed(redemptions, e), Len(redemptions)) \in Nat
      BY <1>1, OwedFacts
    <3>3. L - gross <= FundsBy(pool', e) /\ FundsBy(pool', e) \in Nat
      BY <1>10, <1>15, FundsFacts
    <3>4. R \in Nat /\ L \in Nat /\ gross \in Nat /\ gross <= L - R
      BY <1>1, <1>3, <1>5
    <3> DEFINE due == SumTo(DueOwed(redemptions, e), Len(redemptions))
               funds == FundsBy(pool', e)
    <3>5. due <= R /\ due \in Nat /\ L - gross <= funds /\ funds \in Nat
      BY <3>1, <3>2, <3>3
    <3> HIDE DEF due, funds, R, L, gross
    <3>6. due <= funds
      BY <3>4, <3>5
    <3> QED BY <3>6 DEF due, funds
  <2> QED BY <1>1, <1>10, <2>1 DEF QueueGood, R
<1>17. PoolInv'
  <2>1. nextTokenId' \in 1 .. MaxTokens + 1
    BY <1>1, <1>2 DEF Tokens
  <2>2. \A t \in Tokens : t >= nextTokenId' => pool'.tokenIndex[t] = 0
    <3>1. ASSUME NEW t \in Tokens, t >= nextTokenId' PROVE pool'.tokenIndex[t] = 0
      <4>1. t \in Nat /\ k \in Nat /\ nextTokenId' = k + 1
        BY <1>2 DEF Tokens
      <4>2. t >= k /\ t # k
        BY <3>1, <4>1
      <4>3. pool.tokenIndex[t] = 0
        BY <1>1, <4>2
      <4> QED BY <1>7, <1>10, <4>2, <4>3
    <3> QED BY <3>1
  <2> QED BY <1>2, <1>15, <1>16, <2>1, <2>2 DEF PoolInv
<1>18. ShareKept(pool, pool')
  <2>1. ~ (pool'.lockedPrincipal <= pool.lockedPrincipal)
    BY <1>2, <1>3, <1>4, <1>10 DEF P
  <2> QED BY <2>1 DEF ShareKept
<1> QED BY <1>17, <1>18
ListedBy(ids, index) ==
    /\ \A i \in 1 .. Len(ids) : index[ids[i]] = i
    /\ \A t \in Tokens : index[t] # 0 => index[t] \in 1 .. Len(ids) /\ ids[index[t]] = t

\* The last token takes the place of the one removed, and the index follows.
LEMMA SwapAndPop ==
  ASSUME NEW ids \in Seq(Tokens), NEW index \in [Tokens -> Nat], ListedBy(ids, index),
         NEW t \in Tokens, index[t] # 0
  PROVE  LET last == ids[Len(ids)]
             ns == SubSeq([ids EXCEPT ![index[t]] = last], 1, Len(ids) - 1)
             ni == [index EXCEPT ![last] = index[t], ![t] = 0]
         IN  /\ ns \in Seq(Tokens) /\ ni \in [Tokens -> Nat] /\ ListedBy(ns, ni)
             /\ ni[t] = 0
             /\ \A x \in Tokens : x # t => (ni[x] # 0 <=> index[x] # 0)
<1> DEFINE n == Len(ids)
           k == index[t]
           last == ids[n]
           swapped == [ids EXCEPT ![k] = last]
           ns == SubSeq(swapped, 1, n - 1)
           ni == [index EXCEPT ![last] = k, ![t] = 0]
<1>1. n \in Nat /\ k \in 1 .. n /\ ids[k] = t /\ last \in Tokens /\ index[last] = n
      /\ \A i \in 1 .. n : ids[i] \in Tokens /\ index[ids[i]] = i
  BY DEF ListedBy
<1>2. /\ swapped \in Seq(Tokens) /\ Len(swapped) = n /\ swapped[k] = last
      /\ \A i \in 1 .. n : i # k => swapped[i] = ids[i]
  BY <1>1
<1> HIDE DEF swapped, k
<1>3. /\ ns \in Seq(Tokens) /\ Len(ns) = n - 1
      /\ \A i \in 1 .. n - 1 : ns[i] = swapped[i]
  BY <1>1, <1>2
<1>4. /\ ni \in [Tokens -> Nat] /\ ni[t] = 0 /\ (last # t => ni[last] = k)
      /\ \A x \in Tokens : x # t /\ x # last => ni[x] = index[x]
  BY <1>1
<1>5. last = t <=> k = n
  BY <1>1 DEF k
<1> HIDE DEF last, ns, ni, n
<1>6. \A i \in 1 .. n - 1 : ni[ns[i]] = i
  <2>1. ASSUME NEW i \in 1 .. n - 1 PROVE ni[ns[i]] = i
    <3>1. i \in 1 .. n /\ ns[i] = swapped[i] /\ i # n
      BY <1>1, <1>3
    <3>2. CASE i = k
      <4>1. ns[i] = last
        BY <1>2, <3>1, <3>2
      <4>2. last # t
        BY <1>5, <3>1, <3>2
      <4> QED BY <1>4, <3>2, <4>1, <4>2
    <3>3. CASE i # k
      <4>1. ns[i] = ids[i] /\ ids[i] \in Tokens /\ index[ids[i]] = i
        BY <1>1, <1>2, <3>1, <3>3
      <4>2. ids[i] # t /\ ids[i] # last
        BY <1>1, <3>1, <3>3, <4>1 DEF k
      <4> QED BY <1>4, <4>1, <4>2
    <3> QED BY <3>2, <3>3
  <2> QED BY <2>1
<1>7. \A x \in Tokens : ni[x] # 0 => ni[x] \in 1 .. n - 1 /\ ns[ni[x]] = x
  <2>1. ASSUME NEW x \in Tokens, ni[x] # 0 PROVE ni[x] \in 1 .. n - 1 /\ ns[ni[x]] = x
    <3>1. x # t
      BY <1>4, <2>1
    <3>2. CASE x = last
      <4>1. ni[x] = k /\ k # n
        BY <1>4, <1>5, <3>1, <3>2
      <4>2. k \in 1 .. n - 1
        BY <1>1, <4>1
      <4> QED BY <1>2, <1>3, <3>2, <4>1, <4>2
    <3>3. CASE x # last
      <4>1. ni[x] = index[x] /\ index[x] \in 1 .. n /\ ids[index[x]] = x
        BY <1>4, <2>1, <3>1, <3>3 DEF ListedBy, n
      <4>2. index[x] # n /\ index[x] # k
        BY <1>1, <3>1, <3>3, <4>1 DEF last
      <4>3. index[x] \in 1 .. n - 1
        BY <1>1, <4>1, <4>2
      <4> QED BY <1>2, <1>3, <4>1, <4>2, <4>3
    <3> QED BY <3>2, <3>3
  <2> QED BY <2>1
<1>8. ListedBy(ns, ni)
  BY <1>3, <1>6, <1>7 DEF ListedBy
<1>9. \A x \in Tokens : x # t => (ni[x] # 0 <=> index[x] # 0)
  <2>1. ASSUME NEW x \in Tokens, x # t PROVE ni[x] # 0 <=> index[x] # 0
    <3>1. CASE x = last
      BY <1>1, <1>4, <2>1, <3>1
    <3>2. CASE x # last
      BY <1>4, <2>1, <3>2
    <3> QED BY <3>1, <3>2
  <2> QED BY <2>1
<1> QED BY <1>3, <1>4, <1>8, <1>9 DEF ns, ni, swapped, last, n, k

\* An unlock brings the position's principal at least: what was due by an epoch is there.
LEMMA UnlockMaturedKeeps ==
  ASSUME PoolInv, NEW t \in Tokens, NEW answers \in Answers, UnlockMatured(t, answers)
  PROVE  PoolInv' /\ ShareKept(pool, pool')
<1> DEFINE c == Harvested(pool, {t}, answers, pool.keeperBountyBps)
           back == Returned(c, t)
           amount == pool.position[t].amount
           spent == [c.position EXCEPT ![t].amount = 0]
           unearned == [c.earned EXCEPT ![t] = [@ EXCEPT !["nara"] = 0, !["eth"] = 0]]
           principal == IF amount <= c.lockedPrincipal THEN c.lockedPrincipal - amount ELSE 0
           m == [NaraIn(c, back) EXCEPT !.lockedPrincipal = principal, !.position = spent,
                                        !.earned = unearned]
           gains == [usdc |-> 0, eth |-> c.earned[t]["eth"]]
           x == Indexed(m, gains)
           ids == pool.underlyingTokenIds
           index == pool.tokenIndex
           last == ids[Len(ids)]
           ns == SubSeq([ids EXCEPT ![index[t]] = last], 1, Len(ids) - 1)
           ni == [index EXCEPT ![last] = index[t], ![t] = 0]
<1>1. /\ PoolGood(pool) /\ pool \in PoolType /\ epoch \in Nat
      /\ redemptions \in Seq(Redemption) /\ QueueGood(pool, redemptions, epoch)
      /\ MaxTokens \in Nat
  BY Constants DEF PoolInv, PoolGood
<1>2. /\ index[t] # 0 /\ epoch >= pool.position[t].unlockEpoch
      /\ pool' = Removed(x, t)
      /\ UNCHANGED <<epoch, nextTokenId, redemptions, depositsPaused, emergencyShutdown>>
  <2>1. [NaraIn(c, back) EXCEPT
            !.lockedPrincipal = IF amount <= @ THEN @ - amount ELSE 0,
            !.position[t].amount = 0,
            !.earned[t] = [@ EXCEPT !["nara"] = 0, !["eth"] = 0]] = m
    <3> DEFINE nc == NaraIn(c, back)
    <3>1. nc.lockedPrincipal = c.lockedPrincipal /\ nc.position = c.position
          /\ nc.earned = c.earned
      <4>1. c \in PoolType
        <5>1. {t} \in SUBSET HeldTokens(pool) /\ pool.keeperBountyBps \in 0 .. BPS - 1
          BY <1>1, HeldFacts, PoolFields DEF UnlockMatured
        <5> HIDE DEF c
        <5> QED BY <1>1, <5>1, HarvestedGood DEF PoolGood, c
      <4> HIDE DEF c, back
      <4> QED BY <4>1 DEF NaraIn, PoolType
    <3> HIDE DEF nc, c, back
    <3> QED BY <3>1 DEF nc
  <2> HIDE DEF m
  <2> QED BY <2>1 DEF UnlockMatured
<1>3. t \in HeldTokens(pool) /\ pool.keeperBountyBps \in 0 .. BPS - 1
      /\ ids \in Seq(Tokens) /\ index \in [Tokens -> Nat]
  BY <1>1, <1>2, HeldFacts, PoolFields
<1>4. /\ PoolGood(c)
      /\ c.underlyingTokenIds = ids /\ c.tokenIndex = index
      /\ c.position = pool.position /\ c.lockedPrincipal = pool.lockedPrincipal
      /\ c.reservedForRedemptions = pool.reservedForRedemptions
      /\ c.totalSupply = pool.totalSupply /\ pool.liquidNara <= c.liquidNara
  <2>1. {t} \in SUBSET HeldTokens(pool)
    BY <1>3
  <2> HIDE DEF c
  <2> QED BY <1>1, <1>3, <2>1, HarvestedGood DEF c
<1> HIDE DEF c
<1>5. /\ c \in PoolType /\ c.earned \in [Tokens -> [Kinds -> Nat]]
      /\ c.position \in [Tokens -> [amount : Nat, unlockEpoch : Nat]]
      /\ c.liquidNara \in Nat /\ c.naraBalance = c.liquidNara /\ c.lockedPrincipal \in Nat
      /\ c.reservedForRedemptions \in Nat /\ pool.liquidNara \in Nat
      /\ c.reservedForRedemptions <= c.lockedPrincipal + c.liquidNara
  BY <1>1, <1>4, PoolFields, ValueFacts DEF PoolGood, NaraHeld
<1>6. amount \in Nat /\ amount <= c.lockedPrincipal /\ back \in Nat /\ amount <= back
  <2>1. amount \in Nat /\ amount <= c.lockedPrincipal
    BY <1>1, <1>4, HeldFacts
  <2>2. c.earned[t]["nara"] \in Nat
    BY <1>5 DEF Kinds
  <2>3. back = amount + c.earned[t]["nara"]
    BY <1>4 DEF Returned
  <2> HIDE DEF back
  <2> QED BY <2>1, <2>2, <2>3
<1>7. /\ spent \in [Tokens -> [amount : Nat, unlockEpoch : Nat]]
      /\ spent[t].amount = 0 /\ spent[t].unlockEpoch = pool.position[t].unlockEpoch
      /\ \A y \in Tokens : y # t => spent[y] = pool.position[y]
      /\ unearned \in [Tokens -> [Kinds -> Nat]]
  <2>1. [c.earned[t] EXCEPT !["nara"] = 0, !["eth"] = 0] \in [Kinds -> Nat]
    BY <1>5
  <2>2. unearned \in [Tokens -> [Kinds -> Nat]]
    BY <1>5, <2>1
  <2> QED BY <1>4, <1>5, <2>2
<1>8. principal = c.lockedPrincipal - amount /\ principal \in Nat
  BY <1>5, <1>6
<1> HIDE DEF spent, unearned, principal, back, amount
<1>9. /\ SharesGood(m) /\ m \in PoolType
      /\ m.underlyingTokenIds = ids /\ m.tokenIndex = index /\ m.position = spent
      /\ m.lockedPrincipal = principal /\ m.liquidNara = c.liquidNara + back
      /\ m.naraBalance = c.liquidNara + back
      /\ m.reservedForRedemptions = pool.reservedForRedemptions
      /\ m.totalSupply = pool.totalSupply
  <2> DEFINE q == NaraIn(c, back)
  <2>1. /\ SharesGood(q) /\ SharesSame(c, q)
        /\ q.underlyingTokenIds = c.underlyingTokenIds /\ q.tokenIndex = c.tokenIndex
        /\ q.reservedForRedemptions = c.reservedForRedemptions
        /\ q.liquidNara = c.liquidNara + back /\ q.naraBalance = c.naraBalance + back
    BY <1>4, <1>6, NaraInFacts
  <2>2. q \in PoolType /\ m = [q EXCEPT !.lockedPrincipal = principal, !.position = spent,
                                       !.earned = unearned]
    BY <2>1 DEF SharesGood
  <2> HIDE DEF q, m
  <2>3. /\ m \in PoolType /\ SharesSame(q, m)
        /\ m.underlyingTokenIds = q.underlyingTokenIds /\ m.tokenIndex = q.tokenIndex
        /\ m.position = spent /\ m.lockedPrincipal = principal
        /\ m.liquidNara = q.liquidNara /\ m.naraBalance = q.naraBalance
        /\ m.reservedForRedemptions = q.reservedForRedemptions
    BY <1>7, <1>8, <2>2 DEF PoolType, SharesSame
  <2>4. SharesGood(m)
    BY <2>1, <2>3, SharesStay
  <2> QED BY <1>4, <1>5, <2>1, <2>3, <2>4 DEF SharesSame
<1> HIDE DEF m
<1>10. SharesGood(x) /\ NaraSame(m, x) /\ x.totalSupply = m.totalSupply /\ x \in PoolType
  <2>1. gains \in [Assets -> Nat]
    <3>1. c.earned[t]["eth"] \in Nat
      BY <1>5 DEF Kinds, Assets
    <3>2. gains = [b \in Assets |-> gains[b]] /\ gains["usdc"] \in Nat /\ gains["eth"] \in Nat
      BY <3>1 DEF Assets
    <3> HIDE DEF gains
    <3> QED BY <3>2 DEF Assets
  <2> HIDE DEF gains, x
  <2>2. SharesGood(x) /\ NaraSame(m, x) /\ x.totalSupply = m.totalSupply
    BY <1>9, <2>1, IndexedGood DEF x
  <2> QED BY <2>2 DEF SharesGood
<1> HIDE DEF x
<1>11. /\ ns \in Seq(Tokens) /\ ni \in [Tokens -> Nat] /\ ListedBy(ns, ni) /\ ni[t] = 0
       /\ \A y \in Tokens : y # t => (ni[y] # 0 <=> index[y] # 0)
  <2>1. ListedBy(ids, index)
    BY <1>1 DEF PoolGood, TokensIndexed, ListedBy
  <2> HIDE DEF ns, ni, ids, index, last
  <2>2. index[t] # 0
    BY <1>2
  <2> QED BY <1>3, <2>1, <2>2, SwapAndPop DEF ns, ni, last
<1>12. pool' = [x EXCEPT !.underlyingTokenIds = ns, !.tokenIndex = ni]
  BY <1>2, <1>9, <1>10 DEF Removed, NaraSame
<1> HIDE DEF ns, ni
<1>13. /\ pool' \in PoolType /\ SharesSame(x, pool')
       /\ pool'.underlyingTokenIds = ns /\ pool'.tokenIndex = ni
       /\ pool'.position = x.position /\ pool'.lockedPrincipal = x.lockedPrincipal
       /\ pool'.liquidNara = x.liquidNara /\ pool'.naraBalance = x.naraBalance
       /\ pool'.reservedForRedemptions = x.reservedForRedemptions
  BY <1>10, <1>11, <1>12 DEF PoolType, SharesSame
<1>14. /\ pool'.position = spent /\ pool'.lockedPrincipal = principal
       /\ pool'.liquidNara = c.liquidNara + back /\ pool'.naraBalance = c.liquidNara + back
       /\ pool'.reservedForRedemptions = pool.reservedForRedemptions
       /\ pool'.totalSupply = pool.totalSupply
  BY <1>9, <1>10, <1>13 DEF NaraSame, SharesSame
<1>15. SharesGood(pool')
  BY <1>10, <1>13, SharesStay
<1>16. TokensIndexed(pool')
  <2>1. /\ \A y \in Tokens : index[y] # 0 <=> pool.position[y].amount # 0
        /\ \A y \in Tokens : pool.position[y].unlockEpoch <= MaxEpoch
    BY <1>1 DEF PoolGood, TokensIndexed
  <2>2. \A y \in Tokens : ni[y] # 0 <=> spent[y].amount # 0
    BY <1>7, <1>11, <2>1
  <2>3. \A y \in Tokens : spent[y].unlockEpoch <= MaxEpoch
    BY <1>7, <2>1
  <2> QED BY <1>11, <1>13, <1>14, <2>2, <2>3 DEF TokensIndexed, ListedBy
<1>17. NaraHeld(pool')
  <2> DEFINE f == Amounts(pool)
             g == [y \in Tokens |-> pool'.position[y].amount]
  <2>1. IsFamily(f, MaxTokens) /\ \A y \in 1 .. MaxTokens : f[y] = pool.position[y].amount
    BY <1>1, HeldFacts DEF Tokens
  <2>2. \A y \in 1 .. MaxTokens : g[y] = spent[y].amount /\ spent[y].amount \in Nat
    BY <1>7, <1>14 DEF Tokens
  <2>3. t \in 1 .. MaxTokens
    BY DEF Tokens
  <2>4. pool.lockedPrincipal = SumTo(f, MaxTokens)
    BY <1>1 DEF PoolGood, NaraHeld, Amounts
  <2> HIDE DEF f, g
  <2>5. IsFamily(g, MaxTokens)
    BY <1>1, <2>2 DEF IsFamily
  <2>6. \A y \in 1 .. MaxTokens : y # t => g[y] = f[y]
    BY <1>7, <2>1, <2>2 DEF Tokens
  <2>7. g[t] = 0 /\ f[t] = amount
    BY <1>7, <2>1, <2>2, <2>3 DEF amount
  <2>8. SumTo(g, MaxTokens) = SumTo(f, MaxTokens) + g[t] - f[t]
    BY <2>1, <2>3, <2>5, <2>6, SumOfUpdate
  <2>9. pool'.lockedPrincipal = SumTo(g, MaxTokens)
    BY <1>4, <1>5, <1>6, <1>8, <1>14, <2>4, <2>7, <2>8
  <2>10. pool'.reservedForRedemptions <= pool'.lockedPrincipal + pool'.liquidNara
    BY <1>4, <1>5, <1>6, <1>8, <1>14
  <2>11. pool'.totalSupply # 0
    BY <1>1, <1>3, <1>14, HeldFacts
  <2> QED BY <1>14, <2>9, <2>10, <2>11 DEF NaraHeld, g
<1>18. PoolGood(pool')
  BY <1>15, <1>16, <1>17 DEF PoolGood, SharesGood
<1>19. ASSUME NEW e \in epoch .. MaxEpoch PROVE FundsBy(pool, e) <= FundsBy(pool', e)
  <2> DEFINE f == DueFrom(pool, e)
             g == DueFrom(pool', e)
  <2>1. /\ FundsBy(pool, e) = pool.liquidNara + SumTo(f, MaxTokens) /\ IsFamily(f, MaxTokens)
        /\ FundsBy(pool', e) = pool'.liquidNara + SumTo(g, MaxTokens) /\ IsFamily(g, MaxTokens)
        /\ SumTo(f, MaxTokens) \in Nat /\ SumTo(g, MaxTokens) \in Nat
    BY <1>1, <1>18, FundsFacts
  <2>2. \A y \in Tokens : y # t => (y \in HeldTokens(pool') <=> y \in HeldTokens(pool))
    BY <1>1, <1>11, <1>13, <1>18, HeldFacts
  <2>3. t \notin HeldTokens(pool')
    BY <1>11, <1>13, <1>18, HeldFacts
  <2>4. t \in 1 .. MaxTokens /\ e >= pool.position[t].unlockEpoch
    <3>1. e \in Nat /\ e >= epoch /\ pool.position[t].unlockEpoch \in Nat
      BY <1>1, Constants, HeldFacts
    <3> QED BY <1>1, <1>2, <3>1 DEF Tokens
  <2>5. \A y \in 1 .. MaxTokens : y # t => g[y] = f[y]
    BY <1>7, <1>14, <2>2 DEF DueFrom, Tokens
  <2>6. f[t] = amount /\ g[t] = 0
    BY <1>3, <2>3, <2>4 DEF DueFrom, When, amount
  <2> HIDE DEF f, g
  <2>7. SumTo(g, MaxTokens) = SumTo(f, MaxTokens) + g[t] - f[t]
    BY <2>1, <2>4, <2>5, SumOfUpdate
  <2> QED BY <1>4, <1>5, <1>6, <1>14, <2>1, <2>6, <2>7
<1>20. QueueGood(pool', redemptions, epoch)
  <2>1. ASSUME NEW e \in epoch .. MaxEpoch
        PROVE  SumTo(DueOwed(redemptions, e), Len(redemptions)) <= FundsBy(pool', e)
    <3>1. SumTo(DueOwed(redemptions, e), Len(redemptions)) <= FundsBy(pool, e)
          /\ SumTo(DueOwed(redemptions, e), Len(redemptions)) \in Nat
      BY <1>1, OwedFacts DEF QueueGood
    <3>2. FundsBy(pool, e) \in Nat /\ FundsBy(pool', e) \in Nat
      BY <1>1, <1>18, FundsFacts
    <3> QED BY <1>19, <3>1, <3>2
  <2> QED BY <1>1, <1>14, <2>1 DEF QueueGood
<1>21. PoolInv'
  <2>1. \A y \in Tokens : y >= nextTokenId => pool'.tokenIndex[y] = 0
    <3>1. \A y \in Tokens : y >= nextTokenId => index[y] = 0
      BY DEF PoolInv
    <3> QED BY <1>11, <1>13, <3>1
  <2> QED BY <1>2, <1>18, <1>20, <2>1 DEF PoolInv
<1>22. TotalNaraValue(pool) <= TotalNaraValue(pool')
  <2>1. /\ TotalNaraValue(pool) = pool.lockedPrincipal + pool.liquidNara
                                    - pool.reservedForRedemptions
        /\ TotalNaraValue(pool') = pool'.lockedPrincipal + pool'.liquidNara
                                    - pool'.reservedForRedemptions
    BY <1>1, <1>18, ValueFacts
  <2> QED BY <1>4, <1>5, <1>6, <1>8, <1>14, <2>1
<1>23. ShareKept(pool, pool')
  BY <1>1, <1>14, <1>18, <1>22, ValueRises
<1> QED BY <1>21, <1>23
--------------------------------------------------------------------------------
(* The invariant *)

LEMMA InitEstablishes ==
  ASSUME Init
  PROVE  PoolInv
<1> DEFINE zero == [a \in Assets |-> 0]
           nobody == [a \in Assets |-> [u \in Holders |-> 0]]
           nothing == [t \in Tokens |-> [amount |-> 0, unlockEpoch |-> 0]]
<1>1. /\ pool.underlyingTokenIds = <<>> /\ pool.tokenIndex = [t \in Tokens |-> 0]
      /\ pool.lockedPrincipal = 0 /\ pool.liquidNara = 0 /\ pool.reservedForRedemptions = 0
      /\ pool.balanceOf = [u \in Holders |-> 0] /\ pool.totalSupply = 0
      /\ pool.rewardIndexRay = zero /\ pool.debtRayOf = nobody /\ pool.accruedOf = nobody
      /\ pool.undistributed = zero /\ pool.naraBalance = 0 /\ pool.held = zero
      /\ pool.position = nothing
  BY DEF Init
<1>2. pool \in PoolType
  <2>1. <<>> \in Seq(Tokens) /\ InitialBountyBps \in 0 .. BPS - 1
    BY PoolAssumption
  <2>2. zero \in [Assets -> Nat] /\ nobody \in [Assets -> [Holders -> Nat]]
        /\ nothing \in [Tokens -> [amount : Nat, unlockEpoch : Nat]]
        /\ [t \in Tokens |-> 0] \in [Tokens -> Nat]
        /\ [u \in Holders |-> 0] \in [Holders -> Nat]
        /\ [t \in Tokens |-> [k \in Kinds |-> 0]] \in [Tokens -> [Kinds -> Nat]]
    OBVIOUS
  <2>3. pool = [underlyingTokenIds |-> <<>>, tokenIndex |-> [t \in Tokens |-> 0],
                lockedPrincipal |-> 0, liquidNara |-> 0, reservedForRedemptions |-> 0,
                balanceOf |-> [u \in Holders |-> 0], totalSupply |-> 0,
                rewardIndexRay |-> zero, debtRayOf |-> nobody, accruedOf |-> nobody,
                undistributed |-> zero, totalDistributed |-> zero, totalClaimed |-> zero,
                keeperBountyBps |-> InitialBountyBps, naraBalance |-> 0, held |-> zero,
                position |-> nothing, earned |-> [t \in Tokens |-> [k \in Kinds |-> 0]]]
    BY DEF Init
  <2> HIDE DEF zero, nobody, nothing
  <2> QED BY <2>1, <2>2, <2>3 DEF PoolType
<1>3. MaxEpoch \in Nat /\ MaxTokens \in Nat /\ RAY \in Nat
  BY Constants
<1>4. TokensIndexed(pool)
  BY <1>1, <1>3 DEF TokensIndexed
<1>5. NaraHeld(pool)
  <2> DEFINE f == [t \in Tokens |-> pool.position[t].amount]
  <2>1. \A t \in 1 .. MaxTokens : f[t] = 0
    BY <1>1 DEF Tokens
  <2> HIDE DEF f
  <2>2. SumTo(f, MaxTokens) = 0
    BY <1>3, <2>1, SumOfZeros
  <2> QED BY <1>1, <2>2 DEF NaraHeld, f
<1>6. SharesHeld(pool)
  <2> DEFINE b == pool.balanceOf
  <2>1. \A u \in Holders : b[u] = 0
    BY <1>1
  <2> HIDE DEF b
  <2>2. SumOf(Holders, b) = 0
    BY <2>1, Constants, SetSumOfZeros
  <2> QED BY <1>1, <2>2 DEF SharesHeld, b
<1>7. RewardsHeld(pool)
  <2>1. ASSUME NEW a \in Assets
        PROVE  /\ \A u \in Holders : pool.debtRayOf[a][u] <= pool.balanceOf[u] * pool.rewardIndexRay[a]
               /\ SumOf(Holders, Coming(pool, a)) + RAY * pool.undistributed[a]
                    <= RAY * pool.held[a]
    <3>1. \A u \in Holders : Coming(pool, a)[u] = 0
      BY <1>1, <1>3 DEF Coming
    <3>2. SumOf(Holders, Coming(pool, a)) = 0
      BY <3>1, Constants, SetSumOfZeros
    <3> QED BY <1>1, <1>3, <3>2
  <2> QED BY <2>1 DEF RewardsHeld
<1>8. PoolGood(pool)
  BY <1>2, <1>4, <1>5, <1>6, <1>7 DEF PoolGood
<1>9. redemptions = <<>> /\ redemptions \in Seq(Redemption) /\ Len(redemptions) = 0
      /\ epoch = 0 /\ nextTokenId = 1
      /\ depositsPaused = FALSE /\ emergencyShutdown = FALSE
  BY DEF Init
<1>10. QueueGood(pool, redemptions, epoch)
  <2>1. SumTo(OpenOwed(redemptions), 0) = 0
    BY SumOfZeros
  <2>2. \A e : SumTo(DueOwed(redemptions, e), 0) = 0
    BY SumOfZeros
  <2>3. \A e : FundsBy(pool, e) \in Nat
    BY <1>8, FundsFacts
  <2> QED BY <1>1, <1>9, <2>1, <2>2, <2>3 DEF QueueGood
<1>11. epoch \in 0 .. MaxEpoch /\ nextTokenId \in 1 .. MaxTokens + 1
  BY <1>3, <1>9
<1>12. \A t \in Tokens : pool.tokenIndex[t] = 0
  BY <1>1
<1>13. depositsPaused \in BOOLEAN /\ emergencyShutdown \in BOOLEAN
  BY <1>9
<1> QED BY <1>8, <1>9, <1>10, <1>11, <1>12, <1>13 DEF PoolInv

LEMMA NextKeeps ==
  ASSUME PoolInv, [Next]_vars
  PROVE  PoolInv' /\ ShareKept(pool, pool')
<1>1. ASSUME NEW u \in Users, NEW n \in DepositAmounts, NEW answers \in Answers,
             Deposit(u, n, answers)
      PROVE  PoolInv' /\ ShareKept(pool, pool')
  BY <1>1, DepositKeeps
<1>2. ASSUME NEW u \in Users, NEW n \in ShareAmounts, NEW answers \in Answers,
             QueueRedeem(u, n, answers)
      PROVE  PoolInv' /\ ShareKept(pool, pool')
  BY <1>2, QueueRedeemKeeps
<1>3. ASSUME NEW u \in Users, NEW v \in Users, NEW n \in ShareAmounts, NEW answers \in Answers,
             Transfer(u, v, n, answers)
      PROVE  PoolInv' /\ ShareKept(pool, pool')
  BY <1>3, TransferKeeps
<1>4. ASSUME NEW i \in 1 .. Len(redemptions), ClaimRedemption(i)
      PROVE  PoolInv' /\ ShareKept(pool, pool')
  BY <1>4, ClaimRedemptionKeeps
<1>5. ASSUME NEW a \in Assets, NEW u \in Users, ClaimReward(a, u)
      PROVE  PoolInv' /\ ShareKept(pool, pool')
  BY <1>5, ClaimRewardKeeps
<1>6. ASSUME NEW n \in LockAmounts, NEW fee \in LockFees, LockLiquid(n, fee)
      PROVE  PoolInv' /\ ShareKept(pool, pool')
  BY <1>6, LockLiquidKeeps
<1>7. ASSUME NEW t \in Tokens, NEW answers \in Answers, UnlockMatured(t, answers)
      PROVE  PoolInv' /\ ShareKept(pool, pool')
  BY <1>7, UnlockMaturedKeeps
<1>8. ASSUME NEW start \in 0 .. MAX_POSITIONS, NEW end \in 0 .. MAX_POSITIONS,
             NEW answers \in Answers, BatchHarvest(start, end, answers)
      PROVE  PoolInv' /\ ShareKept(pool, pool')
  BY <1>8, BatchHarvestKeeps
<1>9. ASSUME NEW t \in Tokens, NEW k \in Kinds, NEW n \in Rewards, Earn(t, k, n)
      PROVE  PoolInv' /\ ShareKept(pool, pool')
  BY <1>9, EarnKeeps
<1>10. CASE \/ EpochPasses
            \/ \E bps \in BountyChoices : SetKeeperBounty(bps)
            \/ \E b \in PauseChoices : SetDepositsPaused(b)
            \/ \E b \in EmergencyChoices : SetEmergencyShutdown(b)
            \/ UNCHANGED vars
  BY <1>10, SettingsKeep
<1> QED BY <1>1, <1>2, <1>3, <1>4, <1>5, <1>6, <1>7, <1>8, <1>9, <1>10 DEF Next

\* The invariant holds for ever.
THEOREM PoolInvariant == Spec => []PoolInv
<1>1. Init => PoolInv
  BY InitEstablishes
<1>2. PoolInv /\ [Next]_vars => PoolInv'
  BY NextKeeps
<1> QED BY <1>1, <1>2, PTL DEF Spec

\* The books of the queue: reserved is what is owed, locked what the positions hold, and
\* queueRedeem, claimRedemption, lockLiquid and unlockMatured leave it all covered.
THEOREM QueueIsBacked == Spec => []QueueBacked
<1>1. PoolInv => QueueBacked
  <2>1. SUFFICES ASSUME PoolInv PROVE QueueBacked
    OBVIOUS
  <2>2. TypeOK
    BY <2>1 DEF PoolInv, PoolGood, TypeOK
  <2>3. OpenOwed(redemptions) = [i \in DOMAIN redemptions |-> When(IsOpen(i), OwedOf(i))]
    BY DEF OpenOwed, IsOpen, OwedOf
  <2> QED BY <2>1, <2>2, <2>3 DEF PoolInv, PoolGood, NaraHeld, QueueGood, QueueBacked
<1> QED BY <1>1, PoolInvariant, PTL

\* underlyingTokenIds and tokenIndex hold the open positions, each once, through every
\* swap-and-pop of unlockMatured.
THEOREM PositionsAreIndexed == Spec => []PositionsIndexed
<1>1. PoolInv => PositionsIndexed
  <2>1. SUFFICES ASSUME PoolInv PROVE PositionsIndexed
    OBVIOUS
  <2>2. PoolGood(pool) /\ pool.underlyingTokenIds \in Seq(Tokens)
    BY <2>1, PoolFields DEF PoolInv, PoolGood
  <2>3. DOMAIN pool.underlyingTokenIds = 1 .. Len(pool.underlyingTokenIds)
    BY <2>2
  <2>4. HeldTokens(pool) = {t \in Tokens : pool.tokenIndex[t] # 0}
    BY <2>2, HeldFacts
  <2> QED BY <2>2, <2>3, <2>4 DEF PoolGood, TokensIndexed, PositionsIndexed
<1> QED BY <1>1, PoolInvariant, PTL

\* The ready epoch that _readyEpochForReserved gave a redemption stays true of all of them
\* together, whatever is queued, claimed, locked and unlocked after it.
THEOREM ReadyIsPayable == Spec => []ReadyMeansPayable
<1>1. PoolInv => ReadyMeansPayable
  <2>1. SUFFICES ASSUME PoolInv, NEW e \in epoch .. MaxEpoch
                 PROVE  SumTo([i \in DOMAIN redemptions |->
                                  When(IsOpen(i) /\ redemptions[i].readyEpoch <= e, OwedOf(i))],
                              Len(redemptions)) <= FundsBy(pool, e)
    BY DEF ReadyMeansPayable
  <2>2. DueOwed(redemptions, e)
          = [i \in DOMAIN redemptions |->
                When(IsOpen(i) /\ redemptions[i].readyEpoch <= e, OwedOf(i))]
    BY DEF DueOwed, IsOpen, OwedOf
  <2> QED BY <2>1, <2>2 DEF PoolInv, QueueGood
<1> QED BY <1>1, PoolInvariant, PTL

\* claimUsdc and claimEth of all holders together never exceed what the contract holds.
THEOREM RewardsAreBacked == Spec => []RewardsBacked
<1>1. PoolInv => RewardsBacked
  <2>1. SUFFICES ASSUME PoolInv, NEW a \in Assets
                 PROVE  /\ SumOf(Holders, [u \in Holders |-> Claimable(pool, a, u)])
                             + pool.undistributed[a] <= pool.held[a]
                        /\ pool.totalSupply = SumOf(Holders, pool.balanceOf)
    BY DEF RewardsBacked
  <2>2. SharesGood(pool) /\ RAY \in Nat \ {0} /\ IsFiniteSet(Holders)
    BY <2>1, Constants DEF PoolInv, PoolGood, SharesGood
  <2>3. pool.undistributed[a] \in Nat /\ pool.held[a] \in Nat
    BY <2>2, PoolFields DEF SharesGood
  <2> DEFINE c == [u \in Holders |-> Claimable(pool, a, u)]
             f == [u \in Holders |-> RAY * c[u]]
             g == Coming(pool, a)
             w == pool.undistributed[a]
             h == pool.held[a]
             A == SumOf(Holders, c)
  <2>4. \A u \in Holders : c[u] \in Nat /\ f[u] = RAY * c[u] /\ g[u] \in Nat
                           /\ RAY * c[u] <= g[u]
    BY <2>2, ClaimableBound
  <2>5. SumOf(Holders, g) + RAY * w <= RAY * h
    BY <2>2 DEF SharesGood, RewardsHeld
  <2> HIDE DEF c, f, g
  <2>6. \A u \in Holders : c[u] \in Int /\ f[u] \in Int /\ g[u] \in Int /\ f[u] <= g[u]
    BY <2>2, <2>4
  <2>7. A \in Nat
    BY <2>2, <2>4, SetSumIsNat
  <2>8. SumOf(Holders, f) = RAY * A
    <3>1. RAY \in Int /\ \A u \in Holders : c[u] \in Int /\ f[u] = RAY * c[u]
      BY <2>2, <2>4, <2>6
    <3> QED BY <2>2, <3>1, SetSumOfScaled
  <2>9. SumOf(Holders, f) <= SumOf(Holders, g)
    BY <2>2, <2>6, SetSumIsMonotone
  <2>10. SumOf(Holders, g) \in Int
    BY <2>2, <2>6, SetSumIsInt
  <2>11. RAY * A + RAY * w <= RAY * h
    <3> DEFINE x == RAY * A
               y == SumOf(Holders, g)
               z == RAY * w
               v == RAY * h
    <3>1. x \in Nat /\ y \in Int /\ z \in Nat /\ v \in Nat /\ x <= y /\ y + z <= v
      BY <2>2, <2>3, <2>5, <2>7, <2>8, <2>9, <2>10
    <3> HIDE DEF x, y, z, v
    <3>2. x + z <= v
      BY <3>1
    <3> QED BY <3>2 DEF x, z, v
  <2>12. A + w <= h
    <3>1. A \in Nat /\ w \in Nat /\ h \in Nat
      BY <2>3, <2>7
    <3> HIDE DEF A, w, h
    <3>2. SUFFICES ASSUME h < A + w PROVE FALSE
      BY <3>1
    <3> DEFINE d == A + w - h
    <3>3. d \in Nat \ {0} /\ A + w = h + d
      BY <3>1, <3>2
    <3> HIDE DEF d
    <3>4. RAY * (A + w) = RAY * A + RAY * w /\ RAY * (h + d) = RAY * h + RAY * d
          /\ RAY * d \in Nat \ {0} /\ RAY * h \in Nat
      BY <2>2, <3>1, <3>3
    <3> DEFINE x == RAY * A + RAY * w
               y == RAY * h
               z == RAY * d
    <3>5. x = y + z /\ x <= y /\ y \in Nat /\ z \in Nat \ {0}
      BY <2>11, <3>3, <3>4
    <3> HIDE DEF x, y, z
    <3> QED BY <3>5
  <2>13. pool.totalSupply = SumOf(Holders, pool.balanceOf)
    BY <2>2 DEF SharesGood, SharesHeld
  <2> QED BY <2>12, <2>13 DEF c
<1> QED BY <1>1, PoolInvariant, PTL

\* Deposits and redemptions at the rounded rates of _calcShares and queueRedeem, claims,
\* harvests, unlocks and transfers never lower what a share is worth; lockLiquid pays a fee.
THEOREM ShareValueIsKept == Spec => ShareValueKept
<1>1. PoolInv /\ [Next]_vars =>
        [pool'.lockedPrincipal <= pool.lockedPrincipal =>
            TotalNaraValue(pool) * pool'.totalSupply
              <= TotalNaraValue(pool') * pool.totalSupply]_vars
  BY NextKeeps DEF ShareKept
<1> QED BY <1>1, PoolInvariant, PTL DEF Spec, ShareValueKept
================================================================================
