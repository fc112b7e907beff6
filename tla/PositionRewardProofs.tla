-------------------------- MODULE PositionRewardProofs --------------------------
(* Proofs about the rewards of position NFTs.  First the genesis rewards, for any      *)
(* number of tokens, owners and assets and any scale: the weights agree, every unit    *)
(* that can be claimed is backed and has an owner, and only a notify call credits.     *)
(* The core is one inequality over the rewards before they are rounded, a multiple of  *)
(* RAY that no rounding can raise.  Then the fractions of wrapped positions, for any   *)
(* holders, counts and wrappers: the same inequality with the principal in it, and how *)
(* a principal is shared out claim by claim.                                           *)
EXTENDS PositionRewards, PrefixSumProofs

--------------------------------------------------------------------------------
(* The inductive invariant                                                           *)

PerAsset == [Assets -> Nat]
PerToken == [Assets -> [Tokens -> Nat]]

DistributorType ==
    [trackedRewardWeightOf : [Tokens -> Nat], trackedGenesisRewardWeight : Nat,
     accPerRewardWeightRay : PerAsset, rewardDebtRayOf : PerToken, accruedOf : PerToken,
     pendingUndistributed : PerAsset, totalReceived : PerAsset, totalAllocated : PerAsset,
     totalClaimed : PerAsset, closedOwnerOf : [Tokens -> Owners \cup {NoOne}]]

\* A token's debt is an index it was synced at, the total weight is a sum, and what came
\* in is allocated or waits.
DistributorOK(d) ==
    /\ d \in DistributorType
    /\ \A a \in Assets, t \in Tokens : d.rewardDebtRayOf[a][t] <= d.accPerRewardWeightRay[a]
    /\ d.trackedGenesisRewardWeight = SumTokens(d.trackedRewardWeightOf)
    /\ \A a \in Assets :
          /\ d.totalReceived[a] = d.totalAllocated[a] + d.pendingUndistributed[a]
          /\ d.totalClaimed[a] <= d.totalReceived[a]

\* What a token has earned, in units of 1 / RAY, before it is rounded down.
Earned(d, a, t) ==
    RAY * d.accruedOf[a][t]
    + d.trackedRewardWeightOf[t] * (d.accPerRewardWeightRay[a] - d.rewardDebtRayOf[a][t])

EarnedAll(d, a) == SumTokens([t \in Tokens |-> Earned(d, a, t)])

\* Each notify call allocates what it credits, but for less than one unit.
Backed(d, n) ==
    \A a \in Assets : RAY * d.totalClaimed[a] + EarnedAll(d, a)
                          <= RAY * d.totalAllocated[a] + (RAY - 1) * n[a]

Metadata == [isGenesis : BOOLEAN, isEternal : BOOLEAN, rewardWeight : Nat]

Unrewarded(d, t) == /\ d.trackedRewardWeightOf[t] = 0
                    /\ \A a \in Assets : d.accruedOf[a][t] = 0

NftOK ==
    /\ nextTokenId \in Nat \ {0}
    /\ ownerOf \in [Tokens -> Owners \cup {NoOne}]
    /\ genesisMetadataOf \in [Tokens -> Metadata]
    /\ closeNotifyFailed \subseteq Tokens
    /\ allocations \in PerAsset
    /\ totalGenesisRewardWeight = SumTokens([t \in Tokens |-> genesisMetadataOf[t].rewardWeight])
    /\ \A t \in Tokens :
          /\ t >= nextTokenId => ownerOf[t] = NoOne
          /\ genesisMetadataOf[t].isGenesis => Live(t)
          /\ ~ genesisMetadataOf[t].isGenesis => genesisMetadataOf[t].rewardWeight = 0

\* Whoever is out of step with the NFT's weight or rewarded without being a genesis
\* position was closed, and the distributor knows its owner or was not told.
TokensOK ==
    \A t \in Tokens :
        \/ t \in closeNotifyFailed
        \/ /\ distributor.trackedRewardWeightOf[t] = CurrentRewardWeight(t)
           /\ \/ genesisMetadataOf[t].isGenesis
              \/ distributor.closedOwnerOf[t] # NoOne
              \/ Unrewarded(distributor, t)

IInv == DistributorOK(distributor) /\ Backed(distributor, allocations) /\ NftOK /\ TokensOK

--------------------------------------------------------------------------------
(* Arithmetic                                                                        *)

\* Rounding down loses less than a unit.
LEMMA DivBounds ==
  ASSUME NEW x \in Nat, NEW d \in Nat \ {0}
  PROVE  /\ x \div d \in Nat
         /\ d * (x \div d) <= x /\ x <= d * (x \div d) + (d - 1)
OBVIOUS

LEMMA MulIsNat ==
  ASSUME NEW x \in Nat, NEW y \in Nat
  PROVE  x * y \in Nat
OBVIOUS

\* A token's part of a sum that is zero is zero.
LEMMA ZeroShare ==
  ASSUME NEW w \in Nat
  PROVE  w * 0 = 0 /\ 0 * w = 0 /\ RAY * 0 = 0 /\ 0 \div RAY = 0
BY GenesisAssumption

\* Scaled amounts compare like the amounts.
LEMMA ScaledSum ==
  ASSUME NEW r \in Int, NEW x \in Int, NEW y \in Int
  PROVE  r * (x + y) = r * x + r * y
OBVIOUS

LEMMA ScaledOrder ==
  ASSUME NEW x \in Int, NEW y \in Int, NEW r \in Nat \ {0}, r * x < r * (y + 1)
  PROVE  x <= y
OBVIOUS

--------------------------------------------------------------------------------
(* What a token can claim                                                            *)

\* The types of a token's share and of an asset's totals.
LEMMA Typed ==
  ASSUME NEW d, DistributorOK(d), NEW a \in Assets, NEW t \in Tokens
  PROVE  /\ d.trackedRewardWeightOf[t] \in Nat /\ d.accruedOf[a][t] \in Nat
         /\ d.accPerRewardWeightRay[a] \in Nat /\ d.rewardDebtRayOf[a][t] \in Nat
         /\ d.accPerRewardWeightRay[a] - d.rewardDebtRayOf[a][t] \in Nat
         /\ d.totalReceived[a] \in Nat /\ d.totalAllocated[a] \in Nat
         /\ d.totalClaimed[a] \in Nat /\ d.pendingUndistributed[a] \in Nat
<1>1. d \in DistributorType /\ d.rewardDebtRayOf[a][t] <= d.accPerRewardWeightRay[a]
  BY DEF DistributorOK
<1>2. /\ d.trackedRewardWeightOf \in [Tokens -> Nat]
      /\ d.accPerRewardWeightRay \in [Assets -> Nat] /\ d.totalReceived \in [Assets -> Nat]
      /\ d.totalAllocated \in [Assets -> Nat] /\ d.totalClaimed \in [Assets -> Nat]
      /\ d.pendingUndistributed \in [Assets -> Nat]
  BY <1>1 DEF DistributorType, PerAsset
<1>3. d.accruedOf[a] \in [Tokens -> Nat] /\ d.rewardDebtRayOf[a] \in [Tokens -> Nat]
  BY <1>1 DEF DistributorType, PerToken
<1> QED BY <1>1, <1>2, <1>3

\* Both measures of a token's rewards are natural, and differ by less than a unit.
LEMMA EarnedBounds ==
  ASSUME NEW d, DistributorOK(d), NEW a \in Assets, NEW t \in Tokens
  PROVE  /\ Claimable(d, a, t) \in Nat /\ Earned(d, a, t) \in Nat
         /\ RAY * Claimable(d, a, t) <= Earned(d, a, t)
         /\ Earned(d, a, t) <= RAY * Claimable(d, a, t) + (RAY - 1)
<1>1. PICK w, i, c : /\ w = d.trackedRewardWeightOf[t]
                     /\ i = d.accPerRewardWeightRay[a] - d.rewardDebtRayOf[a][t]
                     /\ c = d.accruedOf[a][t]
  OBVIOUS
<1>2. w \in Nat /\ i \in Nat /\ c \in Nat /\ RAY \in Nat \ {0}
  BY <1>1, GenesisAssumption, Typed
<1>3. PICK x : x = w * i
  OBVIOUS
<1>4. x \in Nat
  BY <1>2, <1>3, MulIsNat
<1>5. PICK q : q = x \div RAY
  OBVIOUS
<1>6. q \in Nat /\ RAY * q <= x /\ x <= RAY * q + (RAY - 1)
  BY <1>2, <1>4, <1>5, DivBounds
<1>7. Claimable(d, a, t) = c + q /\ Earned(d, a, t) = RAY * c + x
  BY <1>1, <1>3, <1>5 DEF Claimable, Earned
<1>8. RAY * (c + q) = RAY * c + RAY * q /\ RAY * c \in Nat
  BY <1>2, <1>6
<1> QED BY <1>2, <1>4, <1>6, <1>7, <1>8

\* A token whose debt is the index of the moment has earned what it accrued.
LEMMA EarnedWhenSynced ==
  ASSUME NEW d, DistributorOK(d), NEW a \in Assets, NEW t \in Tokens,
         \/ d.rewardDebtRayOf[a][t] = d.accPerRewardWeightRay[a]
         \/ d.trackedRewardWeightOf[t] = 0
  PROVE  /\ Claimable(d, a, t) = d.accruedOf[a][t]
         /\ Earned(d, a, t) = RAY * d.accruedOf[a][t]
<1>1. PICK w, i, c : /\ w = d.trackedRewardWeightOf[t]
                     /\ i = d.accPerRewardWeightRay[a] - d.rewardDebtRayOf[a][t]
                     /\ c = d.accruedOf[a][t]
  OBVIOUS
<1>2. w \in Nat /\ i \in Nat /\ c \in Nat /\ RAY \in Nat \ {0} /\ (i = 0 \/ w = 0)
  BY <1>1, GenesisAssumption, Typed
<1>3. w * i = 0
  BY <1>2, ZeroShare
<1>4. 0 \div RAY = 0 /\ RAY * c \in Nat
  BY <1>2, ZeroShare, MulIsNat
<1>5. PICK x : x = w * i
  OBVIOUS
<1>6. Claimable(d, a, t) = c + x \div RAY /\ Earned(d, a, t) = RAY * c + x
  BY <1>1, <1>5 DEF Claimable, Earned
<1>7. x = 0
  BY <1>3, <1>5
<1> QED BY <1>1, <1>2, <1>4, <1>6, <1>7

--------------------------------------------------------------------------------
(* Syncing a token                                                                   *)

\* The fields that _syncToWeight writes, and those it leaves alone.
LEMMA SyncFields ==
  ASSUME NEW d \in DistributorType, NEW t \in Tokens, NEW w \in Nat,
         NEW e, e = SyncToWeight(d, t, w)
  PROVE  /\ e.trackedRewardWeightOf = [d.trackedRewardWeightOf EXCEPT ![t] = w]
         /\ e.trackedGenesisRewardWeight
                = d.trackedGenesisRewardWeight - d.trackedRewardWeightOf[t] + w
         /\ e.accruedOf = [a \in Assets |-> [d.accruedOf[a] EXCEPT ![t] = Claimable(d, a, t)]]
         /\ e.rewardDebtRayOf = [a \in Assets |-> [d.rewardDebtRayOf[a] EXCEPT ![t] =
                                                      d.accPerRewardWeightRay[a]]]
         /\ e.accPerRewardWeightRay = d.accPerRewardWeightRay
         /\ e.pendingUndistributed = d.pendingUndistributed
         /\ e.totalReceived = d.totalReceived
         /\ e.totalAllocated = d.totalAllocated
         /\ e.totalClaimed = d.totalClaimed
         /\ e.closedOwnerOf = d.closedOwnerOf
         /\ (/\ e.accruedOf \in PerToken /\ e.rewardDebtRayOf \in PerToken
             /\ e.trackedRewardWeightOf \in [Tokens -> Nat]
             /\ e.trackedGenesisRewardWeight \in Nat)
            => e \in DistributorType
<1> DEFINE accrued == [a \in Assets |-> [d.accruedOf[a] EXCEPT ![t] = Claimable(d, a, t)]]
           debt == [a \in Assets |-> [d.rewardDebtRayOf[a] EXCEPT ![t] =
                                        d.accPerRewardWeightRay[a]]]
           tracked == [d.trackedRewardWeightOf EXCEPT ![t] = w]
           total == d.trackedGenesisRewardWeight - d.trackedRewardWeightOf[t] + w
<1>1. e = [d EXCEPT !.accruedOf = accrued, !.rewardDebtRayOf = debt,
                    !.trackedRewardWeightOf = tracked, !.trackedGenesisRewardWeight = total]
  BY DEF SyncToWeight, DistributorType, PerToken
<1> HIDE DEF accrued, debt, tracked, total
<1> QED BY <1>1 DEF DistributorType, accrued, debt, tracked, total

\* A sync changes no claim, makes the debt of its token the index of the moment, and
\* earns nobody anything: at most the fraction that rounds away is lost.
LEMMA SyncKeeps ==
  ASSUME NEW d, DistributorOK(d), NEW t \in Tokens, NEW w \in Nat,
         NEW e, e = SyncToWeight(d, t, w)
  PROVE  /\ DistributorOK(e)
         /\ \A a \in Assets, u \in Tokens : /\ Claimable(e, a, u) = Claimable(d, a, u)
                                            /\ Earned(e, a, u) <= Earned(d, a, u)
         /\ \A a \in Assets : e.rewardDebtRayOf[a][t] = e.accPerRewardWeightRay[a]
<1>0. d \in DistributorType /\ Tokens = 1 .. MaxTokens /\ MaxTokens \in Nat /\ RAY \in Nat \ {0}
  BY GenesisAssumption DEF DistributorOK
<1>1. /\ e.trackedRewardWeightOf = [d.trackedRewardWeightOf EXCEPT ![t] = w]
      /\ e.trackedGenesisRewardWeight
             = d.trackedGenesisRewardWeight - d.trackedRewardWeightOf[t] + w
      /\ e.accruedOf = [a \in Assets |-> [d.accruedOf[a] EXCEPT ![t] = Claimable(d, a, t)]]
      /\ e.rewardDebtRayOf = [a \in Assets |-> [d.rewardDebtRayOf[a] EXCEPT ![t] =
                                                   d.accPerRewardWeightRay[a]]]
      /\ e.accPerRewardWeightRay = d.accPerRewardWeightRay
      /\ e.pendingUndistributed = d.pendingUndistributed /\ e.totalReceived = d.totalReceived
      /\ e.totalAllocated = d.totalAllocated /\ e.totalClaimed = d.totalClaimed
  <2>1. d \in DistributorType /\ t \in Tokens /\ w \in Nat /\ e = SyncToWeight(d, t, w)
    BY <1>0
  <2> QED BY <2>1, SyncFields
<1>2. /\ e.accruedOf \in PerToken /\ e.rewardDebtRayOf \in PerToken
      /\ e.trackedRewardWeightOf \in [Tokens -> Nat]
      /\ \A a \in Assets, u \in Tokens :
            e.rewardDebtRayOf[a][u] <= e.accPerRewardWeightRay[a]
  <2>1. \A a \in Assets, u \in Tokens :
           /\ Claimable(d, a, u) \in Nat /\ d.accruedOf[a][u] \in Nat
           /\ d.rewardDebtRayOf[a][u] \in Nat /\ d.accPerRewardWeightRay[a] \in Nat
           /\ d.rewardDebtRayOf[a][u] <= d.accPerRewardWeightRay[a]
    BY EarnedBounds, Typed DEF DistributorOK
  <2>2. /\ \A a \in Assets : /\ d.accruedOf[a] \in [Tokens -> Nat]
                             /\ d.rewardDebtRayOf[a] \in [Tokens -> Nat]
        /\ d.trackedRewardWeightOf \in [Tokens -> Nat]
    BY <1>0 DEF DistributorType, PerToken
  <2> QED BY <1>1, <2>1, <2>2 DEF PerToken
<1>3. /\ e.trackedGenesisRewardWeight = SumTokens(e.trackedRewardWeightOf)
      /\ e.trackedGenesisRewardWeight \in Nat
  <2>1. /\ IsFamily(d.trackedRewardWeightOf, MaxTokens)
        /\ IsFamily(e.trackedRewardWeightOf, MaxTokens)
    BY <1>0, <1>2 DEF IsFamily, DistributorType
  <2>2. /\ \A u \in 1 .. MaxTokens :
              u # t => e.trackedRewardWeightOf[u] = d.trackedRewardWeightOf[u]
        /\ e.trackedRewardWeightOf[t] = w
    BY <1>0, <1>1 DEF DistributorType
  <2>3. SumTokens(e.trackedRewardWeightOf)
            = SumTokens(d.trackedRewardWeightOf) + w - d.trackedRewardWeightOf[t]
    BY <1>0, <2>1, <2>2, SumOfUpdate DEF SumTokens
  <2>4. SumTokens(e.trackedRewardWeightOf) \in Nat
    BY <1>0, <1>2, SumIsNat DEF SumTokens
  <2> QED BY <1>0, <1>1, <2>3, <2>4 DEF DistributorOK, DistributorType
<1>4. DistributorOK(e)
  <2>1. e \in DistributorType
    BY <1>0, <1>2, <1>3, SyncFields
  <2> QED BY <1>1, <1>2, <1>3, <2>1 DEF DistributorOK
<1>5. ASSUME NEW a \in Assets, NEW u \in Tokens
      PROVE  /\ Claimable(e, a, u) = Claimable(d, a, u)
             /\ Earned(e, a, u) <= Earned(d, a, u)
  <2>1. CASE u = t
    <3>1. /\ e.accruedOf[a][u] = Claimable(d, a, u)
          /\ e.rewardDebtRayOf[a][u] = e.accPerRewardWeightRay[a]
      BY <1>0, <1>1, <2>1 DEF DistributorType, PerToken
    <3>2. Claimable(e, a, u) = Claimable(d, a, u) /\ Earned(e, a, u) = RAY * Claimable(d, a, u)
      BY <1>4, <3>1, EarnedWhenSynced
    <3> QED BY <3>2, EarnedBounds
  <2>2. CASE u # t
    <3>1. /\ e.accruedOf[a][u] = d.accruedOf[a][u]
          /\ e.rewardDebtRayOf[a][u] = d.rewardDebtRayOf[a][u]
          /\ e.trackedRewardWeightOf[u] = d.trackedRewardWeightOf[u]
      <4>1. /\ d.accruedOf[a] \in [Tokens -> Nat] /\ d.rewardDebtRayOf[a] \in [Tokens -> Nat]
            /\ d.trackedRewardWeightOf \in [Tokens -> Nat]
        BY <1>0 DEF DistributorType, PerToken
      <4> QED BY <1>1, <2>2, <4>1
    <3>2. Claimable(e, a, u) = Claimable(d, a, u) /\ Earned(e, a, u) = Earned(d, a, u)
      BY <1>1, <3>1 DEF Claimable, Earned
    <3> QED BY <3>2, EarnedBounds
  <2> QED BY <2>1, <2>2
<1>6. \A a \in Assets : e.rewardDebtRayOf[a][t] = e.accPerRewardWeightRay[a]
  BY <1>0, <1>1 DEF DistributorType, PerToken
<1> QED BY <1>4, <1>5, <1>6

\* It moves no total, and touches no other token.
LEMMA SyncFrame ==
  ASSUME NEW d, DistributorOK(d), NEW t \in Tokens, NEW w \in Nat,
         NEW e, e = SyncToWeight(d, t, w)
  PROVE  /\ e.totalClaimed = d.totalClaimed /\ e.totalAllocated = d.totalAllocated
         /\ e.closedOwnerOf = d.closedOwnerOf
         /\ e.trackedRewardWeightOf[t] = w
         /\ \A u \in Tokens \ {t} :
               /\ e.trackedRewardWeightOf[u] = d.trackedRewardWeightOf[u]
               /\ \A a \in Assets : e.accruedOf[a][u] = d.accruedOf[a][u]
<1>1. d \in DistributorType
  BY DEF DistributorOK
<1>2. /\ e.trackedRewardWeightOf = [d.trackedRewardWeightOf EXCEPT ![t] = w]
      /\ e.totalClaimed = d.totalClaimed /\ e.totalAllocated = d.totalAllocated
      /\ e.closedOwnerOf = d.closedOwnerOf
  BY <1>1 DEF SyncToWeight, DistributorType
<1>3. e.accruedOf = [a \in Assets |-> [d.accruedOf[a] EXCEPT ![t] = Claimable(d, a, t)]]
  BY <1>1 DEF SyncToWeight, DistributorType, PerToken
<1>4. /\ d.trackedRewardWeightOf \in [Tokens -> Nat]
      /\ \A a \in Assets : d.accruedOf[a] \in [Tokens -> Nat]
  BY <1>1 DEF DistributorType, PerToken
<1> QED BY <1>2, <1>3, <1>4

--------------------------------------------------------------------------------
(* Steps that credit nobody                                                          *)

CreditedBy(d, a) == d.totalClaimed[a] + SumTokens([t \in Tokens |-> Claimable(d, a, t)])

\* Nothing is created or destroyed by going from d to e, and nothing moves to a token.
SameCredit(d, e) ==
    \A a \in Assets : /\ CreditedBy(e, a) = CreditedBy(d, a)
                      /\ e.totalAllocated[a] = d.totalAllocated[a]
                      /\ \A t \in Tokens : Claimable(e, a, t) <= Claimable(d, a, t)

Keeps(d, e) == /\ DistributorOK(e) /\ SameCredit(d, e)
               /\ \A n \in PerAsset : Backed(d, n) => Backed(e, n)

\* The sums over the tokens exist, and are those of natural numbers.
LEMMA TokenSums ==
  ASSUME NEW d, DistributorOK(d), NEW a \in Assets
  PROVE  /\ IsFamily([t \in Tokens |-> Claimable(d, a, t)], MaxTokens)
         /\ IsFamily([t \in Tokens |-> Earned(d, a, t)], MaxTokens)
         /\ SumTokens([t \in Tokens |-> Claimable(d, a, t)]) \in Nat
         /\ EarnedAll(d, a) \in Nat
<1> DEFINE f == [t \in Tokens |-> Claimable(d, a, t)]
           g == [t \in Tokens |-> Earned(d, a, t)]
<1>1. Tokens = 1 .. MaxTokens /\ MaxTokens \in Nat
  BY GenesisAssumption
<1>2. \A t \in 1 .. MaxTokens : f[t] \in Nat /\ g[t] \in Nat
  BY <1>1, EarnedBounds
<1> HIDE DEF f, g
<1>3. IsFamily(f, MaxTokens) /\ IsFamily(g, MaxTokens)
  BY <1>1, <1>2 DEF IsFamily
<1>4. SumTo(f, MaxTokens) \in Nat /\ SumTo(g, MaxTokens) \in Nat
  BY <1>1, <1>2, SumIsNat
<1> QED BY <1>3, <1>4 DEF f, g, SumTokens, EarnedAll

LEMMA KeepsTransitive ==
  ASSUME NEW d, NEW e, NEW f, DistributorOK(d), Keeps(d, e), Keeps(e, f)
  PROVE  Keeps(d, f)
<1>1. SameCredit(d, f)
  <2>1. ASSUME NEW a \in Assets, NEW t \in Tokens
        PROVE  Claimable(f, a, t) <= Claimable(d, a, t)
    <3>1. /\ Claimable(d, a, t) \in Nat /\ Claimable(e, a, t) \in Nat /\ Claimable(f, a, t) \in Nat
      BY EarnedBounds DEF Keeps
    <3> QED BY <3>1 DEF Keeps, SameCredit
  <2> QED BY <2>1 DEF Keeps, SameCredit
<1> QED BY <1>1 DEF Keeps

LEMMA KeepsItself ==
  ASSUME NEW d, DistributorOK(d)
  PROVE  Keeps(d, d)
<1>1. \A a \in Assets, t \in Tokens : Claimable(d, a, t) <= Claimable(d, a, t)
  BY EarnedBounds
<1> QED BY <1>1 DEF Keeps, SameCredit

\* A sync credits nobody.
LEMMA SyncIsKept ==
  ASSUME NEW d, DistributorOK(d), NEW t \in Tokens, NEW w \in Nat,
         NEW e, e = SyncToWeight(d, t, w)
  PROVE  Keeps(d, e)
<1>1. /\ DistributorOK(e)
      /\ \A a \in Assets, u \in Tokens : /\ Claimable(e, a, u) = Claimable(d, a, u)
                                         /\ Earned(e, a, u) <= Earned(d, a, u)
  BY SyncKeeps
<1>2. e.totalClaimed = d.totalClaimed /\ e.totalAllocated = d.totalAllocated
  BY SyncFrame
<1>3. SameCredit(d, e)
  <2>1. ASSUME NEW a \in Assets
        PROVE  [u \in Tokens |-> Claimable(e, a, u)] = [u \in Tokens |-> Claimable(d, a, u)]
    BY <1>1
  <2>2. \A a \in Assets, u \in Tokens : Claimable(e, a, u) <= Claimable(d, a, u)
    BY <1>1, EarnedBounds
  <2> QED BY <1>2, <2>1, <2>2 DEF SameCredit, CreditedBy
<1>4. ASSUME NEW n \in PerAsset, Backed(d, n)
      PROVE  Backed(e, n)
  <2> SUFFICES ASSUME NEW a \in Assets
               PROVE  RAY * e.totalClaimed[a] + EarnedAll(e, a)
                          <= RAY * e.totalAllocated[a] + (RAY - 1) * n[a]
    BY DEF Backed
  <2>1. EarnedAll(e, a) <= EarnedAll(d, a)
    <3> DEFINE f == [u \in Tokens |-> Earned(e, a, u)]
               g == [u \in Tokens |-> Earned(d, a, u)]
    <3>1. Tokens = 1 .. MaxTokens
      BY GenesisAssumption
    <3>2. \A u \in 1 .. MaxTokens : f[u] <= g[u]
      BY <1>1, <3>1
    <3>3. IsFamily(f, MaxTokens) /\ IsFamily(g, MaxTokens)
      BY <1>1, TokenSums
    <3> HIDE DEF f, g
    <3>4. SumTo(f, MaxTokens) <= SumTo(g, MaxTokens)
      BY <3>2, <3>3, SumIsMonotone
    <3> QED BY <3>4 DEF f, g, EarnedAll, SumTokens
  <2>2. RAY * d.totalClaimed[a] + EarnedAll(d, a)
            <= RAY * d.totalAllocated[a] + (RAY - 1) * n[a]
    BY <1>4 DEF Backed
  <2>3. PICK x, y, p, q : /\ x = RAY * d.totalClaimed[a] /\ y = RAY * d.totalAllocated[a] + (RAY - 1) * n[a]
                          /\ p = EarnedAll(d, a) /\ q = EarnedAll(e, a)
    OBVIOUS
  <2>4. x \in Int /\ y \in Int /\ p \in Int /\ q \in Int
    <3>1. d.totalClaimed[a] \in Nat /\ d.totalAllocated[a] \in Nat
      BY DEF DistributorOK, DistributorType, PerAsset
    <3>2. RAY \in Nat /\ RAY - 1 \in Nat /\ n[a] \in Nat
      BY GenesisAssumption DEF PerAsset
    <3>3. RAY * d.totalClaimed[a] \in Nat /\ RAY * d.totalAllocated[a] \in Nat
          /\ (RAY - 1) * n[a] \in Nat
      BY <3>1, <3>2, MulIsNat
    <3>4. p \in Nat /\ q \in Nat
      BY <1>1, <2>3, TokenSums
    <3> QED BY <2>3, <3>3, <3>4
  <2> QED BY <1>2, <2>1, <2>2, <2>3, <2>4
<1> QED BY <1>1, <1>3, <1>4 DEF Keeps

\* A claim that pays what a synced token accrued moves it from claimable to claimed.
LEMMA PaidIsKept ==
  ASSUME NEW d, DistributorOK(d), NEW t \in Tokens, NEW claims \in SUBSET Assets,
         CanPay(d, t, claims),
         \A a \in claims : d.rewardDebtRayOf[a][t] = d.accPerRewardWeightRay[a],
         NEW e, e = Paid(d, t, claims)
  PROVE  /\ Keeps(d, e)
         /\ e.trackedRewardWeightOf = d.trackedRewardWeightOf
         /\ e.closedOwnerOf = d.closedOwnerOf
         /\ \A a \in Assets, u \in Tokens : d.accruedOf[a][u] = 0 => e.accruedOf[a][u] = 0
<1> DEFINE accrued == [a \in Assets |-> [d.accruedOf[a] EXCEPT ![t] =
                                                   IF a \in claims THEN 0 ELSE @]]
           claimed == [a \in Assets |->
                          d.totalClaimed[a] + (IF a \in claims THEN d.accruedOf[a][t] ELSE 0)]
<1>0. /\ d \in DistributorType
      /\ \A a \in Assets : /\ d.accruedOf[a] \in [Tokens -> Nat] /\ d.totalClaimed[a] \in Nat
                           /\ d.totalReceived[a] \in Nat /\ d.totalAllocated[a] \in Nat
                           /\ d.totalClaimed[a] <= d.totalReceived[a]
  BY DEF DistributorOK, DistributorType, PerAsset, PerToken
<1>1. /\ e = [d EXCEPT !.accruedOf = accrued, !.totalClaimed = claimed]
      /\ accrued \in PerToken /\ claimed \in PerAsset
      /\ \A a \in Assets : claimed[a] <= d.totalReceived[a]
  <2>1. e = [d EXCEPT !.accruedOf = accrued, !.totalClaimed = claimed]
    BY <1>0 DEF Paid, DistributorType
  <2>2. \A a \in Assets : accrued[a] \in [Tokens -> Nat] /\ claimed[a] \in Nat
    BY <1>0
  <2>3. ASSUME NEW a \in Assets PROVE claimed[a] <= d.totalReceived[a]
    <3>1. a \in claims => d.accruedOf[a][t] <= d.totalReceived[a] - d.totalClaimed[a]
      BY DEF CanPay, Funds
    <3> QED BY <1>0, <3>1
  <2> QED BY <2>1, <2>2, <2>3 DEF PerToken, PerAsset
<1>2. /\ \A a \in Assets : /\ accrued[a][t] = IF a \in claims THEN 0 ELSE d.accruedOf[a][t]
                           /\ \A u \in Tokens \ {t} : accrued[a][u] = d.accruedOf[a][u]
      /\ \A a \in Assets : claimed[a]
            = d.totalClaimed[a] + (IF a \in claims THEN d.accruedOf[a][t] ELSE 0)
  BY <1>0
<1> HIDE DEF accrued, claimed
<1>3. /\ e.accruedOf = accrued /\ e.totalClaimed = claimed
      /\ e.trackedRewardWeightOf = d.trackedRewardWeightOf
      /\ e.trackedGenesisRewardWeight = d.trackedGenesisRewardWeight
      /\ e.accPerRewardWeightRay = d.accPerRewardWeightRay
      /\ e.rewardDebtRayOf = d.rewardDebtRayOf
      /\ e.pendingUndistributed = d.pendingUndistributed
      /\ e.totalReceived = d.totalReceived /\ e.totalAllocated = d.totalAllocated
      /\ e.closedOwnerOf = d.closedOwnerOf
      /\ e \in DistributorType
  BY <1>0, <1>1 DEF DistributorType
<1>4. DistributorOK(e)
  BY <1>1, <1>3 DEF DistributorOK
<1>5. ASSUME NEW a \in Assets, NEW u \in Tokens, u # t \/ a \notin claims
      PROVE  Claimable(e, a, u) = Claimable(d, a, u) /\ Earned(e, a, u) = Earned(d, a, u)
  <2>1. e.accruedOf[a][u] = d.accruedOf[a][u]
    BY <1>2, <1>3, <1>5
  <2> QED BY <1>3, <2>1 DEF Claimable, Earned
<1>6. ASSUME NEW a \in claims
      PROVE  /\ Claimable(d, a, t) = d.accruedOf[a][t] /\ Claimable(e, a, t) = 0
             /\ Earned(d, a, t) = RAY * d.accruedOf[a][t] /\ Earned(e, a, t) = 0
  <2>1. /\ Claimable(d, a, t) = d.accruedOf[a][t] /\ Earned(d, a, t) = RAY * d.accruedOf[a][t]
    BY EarnedWhenSynced
  <2>2. e.accruedOf[a][t] = 0 /\ e.rewardDebtRayOf[a][t] = e.accPerRewardWeightRay[a]
    BY <1>2, <1>3
  <2>3. Claimable(e, a, t) = 0 /\ Earned(e, a, t) = RAY * 0
    BY <1>4, <2>2, EarnedWhenSynced
  <2> QED BY <2>1, <2>3, ZeroShare
<1>7. ASSUME NEW a \in Assets
      PROVE  /\ CreditedBy(e, a) = CreditedBy(d, a)
             /\ RAY * e.totalClaimed[a] + EarnedAll(e, a) = RAY * d.totalClaimed[a] + EarnedAll(d, a)
  <2> DEFINE f == [u \in Tokens |-> Claimable(d, a, u)]
             g == [u \in Tokens |-> Claimable(e, a, u)]
             p == [u \in Tokens |-> Earned(d, a, u)]
             q == [u \in Tokens |-> Earned(e, a, u)]
  <2>1. CASE a \notin claims
    <3>1. f = g /\ p = q
      BY <1>5, <2>1
    <3>2. e.totalClaimed[a] = d.totalClaimed[a]
      BY <1>0, <1>2, <1>3, <2>1
    <3> QED BY <3>1, <3>2 DEF CreditedBy, EarnedAll
  <2>2. CASE a \in claims
    <3>1. /\ \A u \in 1 .. MaxTokens : u # t => g[u] = f[u] /\ q[u] = p[u]
          /\ f[t] = d.accruedOf[a][t] /\ g[t] = 0
          /\ p[t] = RAY * d.accruedOf[a][t] /\ q[t] = 0
          /\ t \in 1 .. MaxTokens
      BY <1>5, <1>6, <2>2, GenesisAssumption
    <3>2. /\ IsFamily(f, MaxTokens) /\ IsFamily(g, MaxTokens)
          /\ IsFamily(p, MaxTokens) /\ IsFamily(q, MaxTokens)
          /\ SumTokens(f) \in Nat /\ SumTokens(p) \in Nat
      BY <1>4, TokenSums DEF EarnedAll
    <3>3. CreditedBy(e, a) = claimed[a] + SumTokens(g) /\ EarnedAll(e, a) = SumTokens(q)
      BY <1>3 DEF CreditedBy, EarnedAll
    <3>4. CreditedBy(d, a) = d.totalClaimed[a] + SumTokens(f) /\ EarnedAll(d, a) = SumTokens(p)
      BY DEF CreditedBy, EarnedAll
    <3> HIDE DEF f, g, p, q
    <3>5. SumTokens(g) = SumTokens(f) + g[t] - f[t] /\ SumTokens(q) = SumTokens(p) + q[t] - p[t]
      BY <3>1, <3>2, SumOfUpdate DEF SumTokens
    <3>6. PICK c : c = d.accruedOf[a][t]
      OBVIOUS
    <3>7. /\ c \in Nat /\ RAY \in Nat /\ claimed[a] = d.totalClaimed[a] + c
          /\ SumTokens(g) = SumTokens(f) - c /\ SumTokens(q) = SumTokens(p) - RAY * c
      <4>1. c \in Nat /\ RAY \in Nat /\ RAY * c \in Nat
        BY <1>0, <3>6, GenesisAssumption, MulIsNat
      <4>2. claimed[a] = d.totalClaimed[a] + c
        BY <1>2, <2>2, <3>6
      <4>3. f[t] = c /\ g[t] = 0 /\ p[t] = RAY * c /\ q[t] = 0
        BY <3>1, <3>6
      <4>4. SumTokens(f) \in Nat /\ SumTokens(p) \in Nat
        BY <3>2
      <4> DEFINE k == RAY * c
      <4> HIDE DEF k
      <4>5. k \in Nat /\ p[t] = k
        BY <4>1, <4>3 DEF k
      <4>6. SumTokens(g) = SumTokens(f) - c /\ SumTokens(q) = SumTokens(p) - k
        BY <3>5, <4>1, <4>3, <4>4, <4>5
      <4> QED BY <4>1, <4>2, <4>6 DEF k
    <3>8. RAY * (d.totalClaimed[a] + c) = RAY * d.totalClaimed[a] + RAY * c
      <4>1. d.totalClaimed[a] \in Int /\ c \in Int /\ RAY \in Int
        BY <1>0, <3>7 DEF DistributorType, PerAsset
      <4> QED BY <4>1, ScaledSum
    <3>9. RAY * d.totalClaimed[a] \in Nat /\ RAY * c \in Nat
      BY <1>0, <3>7, MulIsNat
    <3> QED BY <1>0, <1>3, <3>2, <3>3, <3>4, <3>7, <3>8, <3>9
  <2> QED BY <2>1, <2>2
<1>8. SameCredit(d, e)
  <2>1. ASSUME NEW a \in Assets, NEW u \in Tokens
        PROVE  Claimable(e, a, u) <= Claimable(d, a, u)
    <3>1. Claimable(d, a, u) \in Nat
      BY EarnedBounds
    <3> QED BY <1>5, <1>6, <3>1
  <2> QED BY <1>3, <1>7, <2>1 DEF SameCredit
<1>9. \A n \in PerAsset : Backed(d, n) => Backed(e, n)
  BY <1>3, <1>7 DEF Backed
<1>10. \A a \in Assets, u \in Tokens : d.accruedOf[a][u] = 0 => e.accruedOf[a][u] = 0
  BY <1>2, <1>3
<1> QED BY <1>3, <1>4, <1>8, <1>9, <1>10 DEF Keeps

OwnerRecorded(d, t, owner) == [d EXCEPT !.closedOwnerOf[t] = owner]

\* Recording the owner of a closed position touches no reward.
LEMMA OwnerIsKept ==
  ASSUME NEW d, DistributorOK(d), NEW t \in Tokens, NEW owner \in Owners \cup {NoOne},
         NEW e, e = OwnerRecorded(d, t, owner)
  PROVE  /\ Keeps(d, e)
         /\ e.trackedRewardWeightOf = d.trackedRewardWeightOf /\ e.accruedOf = d.accruedOf
         /\ e.closedOwnerOf = [d.closedOwnerOf EXCEPT ![t] = owner]
<1>1. d \in DistributorType
  BY DEF DistributorOK
<1>2. PICK owners : owners = [d.closedOwnerOf EXCEPT ![t] = owner]
  OBVIOUS
<1>3. owners \in [Tokens -> Owners \cup {NoOne}]
  BY <1>1, <1>2 DEF DistributorType
<1>4. e = [d EXCEPT !.closedOwnerOf = owners]
  BY <1>1, <1>2 DEF DistributorType, OwnerRecorded
<1>5. /\ e \in DistributorType /\ e.closedOwnerOf = owners
      /\ e.trackedRewardWeightOf = d.trackedRewardWeightOf /\ e.accruedOf = d.accruedOf
      /\ e.trackedGenesisRewardWeight = d.trackedGenesisRewardWeight
      /\ e.accPerRewardWeightRay = d.accPerRewardWeightRay
      /\ e.rewardDebtRayOf = d.rewardDebtRayOf
      /\ e.pendingUndistributed = d.pendingUndistributed
      /\ e.totalReceived = d.totalReceived /\ e.totalAllocated = d.totalAllocated
      /\ e.totalClaimed = d.totalClaimed
  BY <1>1, <1>3, <1>4 DEF DistributorType
<1>6. DistributorOK(e)
  BY <1>5 DEF DistributorOK
<1>7. \A a \in Assets, u \in Tokens :
         Claimable(e, a, u) = Claimable(d, a, u) /\ Earned(e, a, u) = Earned(d, a, u)
  BY <1>5 DEF Claimable, Earned
<1>8. \A a \in Assets : CreditedBy(e, a) = CreditedBy(d, a) /\ EarnedAll(e, a) = EarnedAll(d, a)
  BY <1>5, <1>7 DEF CreditedBy, EarnedAll
<1>9. \A a \in Assets, u \in Tokens : Claimable(e, a, u) <= Claimable(d, a, u)
  BY <1>7, EarnedBounds
<1> QED BY <1>2, <1>5, <1>6, <1>8, <1>9 DEF Keeps, SameCredit, Backed

--------------------------------------------------------------------------------
(* Notify calls                                                                      *)

\* What a notify call allocates: never more than there is, and all that it credits but
\* for less than a unit.
LEMMA AllocationBounds ==
  ASSUME NEW amount \in Nat, NEW weight \in Nat,
         NEW delta, delta = IF weight = 0 THEN 0 ELSE (amount * RAY) \div weight,
         NEW x, x = delta * weight, NEW allocated, allocated = x \div RAY
  PROVE  /\ delta \in Nat /\ x \in Nat /\ allocated \in Nat /\ allocated <= amount
         /\ RAY * allocated <= x /\ x <= RAY * allocated + (RAY - 1)
         /\ weight = 0 => delta = 0 /\ allocated = 0
<1>1. RAY \in Nat \ {0}
  BY GenesisAssumption
<1>2. CASE weight = 0
  BY <1>1, <1>2, ZeroShare
<1>3. CASE weight # 0
  <2>1. PICK y : y = amount * RAY
    OBVIOUS
  <2>2. y \in Nat
    BY <1>1, <2>1, MulIsNat
  <2>3. delta \in Nat /\ weight * delta <= y
    BY <1>3, <2>1, <2>2, DivBounds
  <2>4. x = weight * delta /\ x \in Nat
    BY <2>3, MulIsNat
  <2>5. allocated \in Nat /\ RAY * allocated <= x /\ x <= RAY * allocated + (RAY - 1)
    BY <1>1, <2>4, DivBounds
  <2>6. allocated <= amount
    <3>1. RAY * (amount + 1) = y + RAY
      BY <1>1, <2>1
    <3>2. RAY * allocated \in Nat
      BY <1>1, <2>5, MulIsNat
    <3>3. RAY * allocated < RAY * (amount + 1)
      BY <1>1, <2>2, <2>3, <2>4, <2>5, <3>1, <3>2
    <3> QED BY <1>1, <2>5, <3>3, ScaledOrder
  <2> QED BY <1>3, <2>3, <2>4, <2>5, <2>6
<1> QED BY <1>2, <1>3

\* Over all tokens too, what is earned and what can be claimed differ by rounding only.
LEMMA EarnedSumBounds ==
  ASSUME NEW d, DistributorOK(d), NEW a \in Assets,
         NEW claims, claims = SumTokens([t \in Tokens |-> Claimable(d, a, t)])
  PROVE  /\ claims \in Nat
         /\ RAY * claims <= EarnedAll(d, a)
         /\ EarnedAll(d, a) <= RAY * claims + MaxTokens * (RAY - 1)
<1> DEFINE f == [t \in Tokens |-> Claimable(d, a, t)]
           g == [t \in Tokens |-> Earned(d, a, t)]
           h == [t \in Tokens |-> RAY * f[t]]
           c == [t \in Tokens |-> RAY - 1]
           u == [t \in Tokens |-> h[t] + c[t]]
<1>1. Tokens = 1 .. MaxTokens /\ MaxTokens \in Nat /\ RAY \in Nat \ {0}
  BY GenesisAssumption
<1>2. /\ IsFamily(f, MaxTokens) /\ IsFamily(g, MaxTokens)
      /\ SumTo(f, MaxTokens) = claims /\ claims \in Nat
      /\ EarnedAll(d, a) = SumTo(g, MaxTokens)
  BY TokenSums DEF SumTokens, EarnedAll
<1>3. \A t \in 1 .. MaxTokens : /\ f[t] \in Nat /\ g[t] \in Nat
                                /\ h[t] = RAY * f[t] /\ c[t] = RAY - 1 /\ u[t] = h[t] + c[t]
                                /\ h[t] <= g[t] /\ g[t] <= u[t]
  BY <1>1, EarnedBounds
<1> HIDE DEF f, g, h, c, u
<1>4. IsFamily(h, MaxTokens) /\ SumTo(h, MaxTokens) = RAY * claims
  <2>1. RAY \in Int /\ \A t \in 1 .. MaxTokens : h[t] = RAY * f[t]
    BY <1>1, <1>3
  <2>2. IsFamily(f, MaxTokens) /\ SumTo(f, MaxTokens) = claims
    BY <1>2
  <2> QED BY <2>1, <2>2, SumOfScaled
<1>5. IsFamily(c, MaxTokens) /\ SumTo(c, MaxTokens) = MaxTokens * (RAY - 1)
  <2>1. PICK r : r = RAY - 1
    OBVIOUS
  <2>2. r \in Int /\ \A t \in 1 .. MaxTokens : c[t] = r
    BY <1>1, <1>3, <2>1
  <2>3. IsFamily(c, MaxTokens) /\ SumTo(c, MaxTokens) = MaxTokens * r
    BY <1>1, <2>2, SumOfConstant
  <2> QED BY <2>1, <2>3
<1>6. IsFamily(u, MaxTokens)
  BY <1>3, <1>4, <1>5 DEF IsFamily
<1>7. SumTo(u, MaxTokens) = SumTo(h, MaxTokens) + SumTo(c, MaxTokens)
  BY <1>3, <1>4, <1>5, <1>6, SumOfSum
<1>8. SumTo(h, MaxTokens) <= SumTo(g, MaxTokens) /\ SumTo(g, MaxTokens) <= SumTo(u, MaxTokens)
  BY <1>2, <1>3, <1>4, <1>6, SumIsMonotone
<1> QED BY <1>2, <1>4, <1>5, <1>7, <1>8

\* What a notify call credits in one asset is what it allocates there, up to one unit of
\* rounding per token; the books stay backed, and other assets are left alone.
LEMMA NotifyKeeps ==
  ASSUME NEW d, DistributorOK(d), NEW b \in Assets, NEW received \in Nat,
         NEW e, e = Notify(d, b, received),
         NEW n \in PerAsset, Backed(d, n),
         NEW m, m = IF d.trackedGenesisRewardWeight = 0 THEN n ELSE [n EXCEPT ![b] = @ + 1]
  PROVE  /\ DistributorOK(e) /\ Backed(e, m)
         /\ e.trackedRewardWeightOf = d.trackedRewardWeightOf /\ e.accruedOf = d.accruedOf
         /\ e.closedOwnerOf = d.closedOwnerOf
         /\ d.trackedGenesisRewardWeight = 0 => SameCredit(d, e)
         /\ \A a \in Assets :
               LET grown == CreditedBy(e, a) - CreditedBy(d, a)
                   given == e.totalAllocated[a] - d.totalAllocated[a]
               IN  given - MaxTokens <= grown /\ grown <= given + MaxTokens
<1>0. d \in DistributorType /\ RAY \in Nat \ {0} /\ MaxTokens \in Nat /\ Tokens = 1 .. MaxTokens
  BY GenesisAssumption DEF DistributorOK
<1>1. PICK weight : weight = d.trackedGenesisRewardWeight
  OBVIOUS
<1>2. PICK amount : amount = received + d.pendingUndistributed[b]
  OBVIOUS
<1>3. PICK delta : delta = IF weight = 0 THEN 0 ELSE (amount * RAY) \div weight
  OBVIOUS
<1>4. PICK x : x = delta * weight
  OBVIOUS
<1>5. PICK allocated : allocated = x \div RAY
  OBVIOUS
<1>6. weight \in Nat /\ amount \in Nat
  BY <1>0, <1>1, <1>2 DEF DistributorType, PerAsset
<1>7. /\ delta \in Nat /\ x \in Nat /\ allocated \in Nat /\ allocated <= amount
      /\ RAY * allocated <= x /\ x <= RAY * allocated + (RAY - 1)
      /\ weight = 0 => delta = 0 /\ allocated = 0
  BY <1>3, <1>4, <1>5, <1>6, AllocationBounds
<1>8. /\ e.trackedRewardWeightOf = d.trackedRewardWeightOf
      /\ e.trackedGenesisRewardWeight = weight
      /\ e.rewardDebtRayOf = d.rewardDebtRayOf
      /\ e.accruedOf = d.accruedOf /\ e.totalClaimed = d.totalClaimed
      /\ e.closedOwnerOf = d.closedOwnerOf
      /\ e.totalReceived = [d.totalReceived EXCEPT ![b] = @ + received]
      /\ e.pendingUndistributed = [d.pendingUndistributed EXCEPT ![b] = amount - allocated]
      /\ e.accPerRewardWeightRay = [d.accPerRewardWeightRay EXCEPT ![b] = @ + delta]
      /\ e.totalAllocated = [d.totalAllocated EXCEPT ![b] = @ + allocated]
      /\ (/\ e.totalReceived \in PerAsset /\ e.pendingUndistributed \in PerAsset
          /\ e.accPerRewardWeightRay \in PerAsset /\ e.totalAllocated \in PerAsset)
         => e \in DistributorType
  <2>1. e = [d EXCEPT !.totalReceived[b] = @ + received,
                      !.pendingUndistributed[b] = amount - allocated,
                      !.accPerRewardWeightRay[b] = @ + delta,
                      !.totalAllocated[b] = @ + allocated]
    BY <1>1, <1>2, <1>3, <1>4, <1>5, Zenon DEF Notify
  <2> QED BY <1>0, <1>1, <2>1 DEF DistributorType
<1>9. /\ \A a \in Assets :
            /\ d.totalReceived[a] \in Nat /\ d.totalAllocated[a] \in Nat
            /\ d.totalClaimed[a] \in Nat /\ d.accPerRewardWeightRay[a] \in Nat
            /\ d.totalReceived[a] = d.totalAllocated[a] + d.pendingUndistributed[a]
            /\ d.totalClaimed[a] <= d.totalReceived[a]
      /\ d.totalReceived \in PerAsset /\ d.pendingUndistributed \in PerAsset
      /\ d.accPerRewardWeightRay \in PerAsset /\ d.totalAllocated \in PerAsset
      /\ d.totalClaimed \in PerAsset
  BY <1>0 DEF DistributorOK, DistributorType, PerAsset
<1>10. /\ e.totalReceived \in PerAsset /\ e.pendingUndistributed \in PerAsset
       /\ e.accPerRewardWeightRay \in PerAsset /\ e.totalAllocated \in PerAsset
  BY <1>6, <1>7, <1>8, <1>9 DEF PerAsset
<1>11. /\ e.totalReceived[b] = d.totalReceived[b] + received
       /\ e.pendingUndistributed[b] = amount - allocated
       /\ e.accPerRewardWeightRay[b] = d.accPerRewardWeightRay[b] + delta
       /\ e.totalAllocated[b] = d.totalAllocated[b] + allocated
       /\ \A a \in Assets \ {b} : /\ e.totalReceived[a] = d.totalReceived[a]
                                  /\ e.pendingUndistributed[a] = d.pendingUndistributed[a]
                                  /\ e.accPerRewardWeightRay[a] = d.accPerRewardWeightRay[a]
                                  /\ e.totalAllocated[a] = d.totalAllocated[a]
  BY <1>8, <1>9 DEF PerAsset
<1>12. DistributorOK(e)
  <2>1. e \in DistributorType
    BY <1>8, <1>10
  <2>2. \A a \in Assets, t \in Tokens : e.rewardDebtRayOf[a][t] <= e.accPerRewardWeightRay[a]
    <3>1. \A a \in Assets : d.accPerRewardWeightRay[a] <= e.accPerRewardWeightRay[a]
      BY <1>7, <1>9, <1>11
    <3>2. \A a \in Assets, t \in Tokens :
             /\ d.rewardDebtRayOf[a][t] \in Nat /\ d.accPerRewardWeightRay[a] \in Nat
             /\ e.accPerRewardWeightRay[a] \in Nat
             /\ d.rewardDebtRayOf[a][t] <= d.accPerRewardWeightRay[a]
      BY <1>10, Typed DEF DistributorOK, PerAsset
    <3> QED BY <1>8, <3>1, <3>2
  <2>3. e.trackedGenesisRewardWeight = SumTokens(e.trackedRewardWeightOf)
    BY <1>1, <1>8 DEF DistributorOK
  <2>4. \A a \in Assets : /\ e.totalReceived[a] = e.totalAllocated[a] + e.pendingUndistributed[a]
                          /\ e.totalClaimed[a] <= e.totalReceived[a]
    <3> TAKE a \in Assets
    <3>1. /\ d.totalReceived[a] = d.totalAllocated[a] + d.pendingUndistributed[a]
          /\ d.totalReceived[a] \in Nat /\ d.totalAllocated[a] \in Nat
          /\ d.pendingUndistributed[a] \in Nat /\ d.totalClaimed[a] \in Nat
          /\ d.totalClaimed[a] <= d.totalReceived[a] /\ e.totalClaimed[a] = d.totalClaimed[a]
      BY <1>8, Typed, <1>9 DEF PerAsset
    <3>2. CASE a # b
      BY <1>11, <3>1, <3>2
    <3>3. CASE a = b
      BY <1>2, <1>6, <1>7, <1>11, <3>1, <3>3
    <3> QED BY <3>2, <3>3
  <2> QED BY <2>1, <2>2, <2>3, <2>4 DEF DistributorOK
<1>13. ASSUME NEW a \in Assets \ {b}
       PROVE  /\ \A t \in Tokens : Claimable(e, a, t) = Claimable(d, a, t)
              /\ CreditedBy(e, a) = CreditedBy(d, a) /\ EarnedAll(e, a) = EarnedAll(d, a)
  <2>1. \A t \in Tokens : Claimable(e, a, t) = Claimable(d, a, t) /\ Earned(e, a, t) = Earned(d, a, t)
    BY <1>8, <1>11 DEF Claimable, Earned
  <2> QED BY <1>8, <2>1 DEF CreditedBy, EarnedAll
<1>14. EarnedAll(e, b) = EarnedAll(d, b) + x
  <2> DEFINE w == d.trackedRewardWeightOf
             f == [t \in Tokens |-> Earned(d, b, t)]
             g == [t \in Tokens |-> Earned(e, b, t)]
             h == [t \in Tokens |-> delta * w[t]]
  <2>1. /\ IsFamily(w, MaxTokens) /\ SumTo(w, MaxTokens) = weight
        /\ \A t \in Tokens : w[t] \in Nat
    BY <1>0, <1>1 DEF DistributorOK, DistributorType, SumTokens, IsFamily
  <2>2. \A t \in 1 .. MaxTokens : h[t] = delta * w[t]
    BY <1>0
  <2>3. \A t \in 1 .. MaxTokens : g[t] = f[t] + h[t]
    <3> SUFFICES ASSUME NEW t \in 1 .. MaxTokens PROVE Earned(e, b, t) = Earned(d, b, t) + delta * w[t]
      BY <1>0
    <3>1. PICK i, c, v : /\ i = d.accPerRewardWeightRay[b] - d.rewardDebtRayOf[b][t]
                         /\ c = d.accruedOf[b][t] /\ v = w[t]
      OBVIOUS
    <3>2. i \in Nat /\ c \in Nat /\ v \in Nat
      BY <1>0, <3>1, Typed
    <3>3. e.accPerRewardWeightRay[b] - e.rewardDebtRayOf[b][t] = i + delta
      <4>1. PICK p, r : p = d.accPerRewardWeightRay[b] /\ r = d.rewardDebtRayOf[b][t]
        OBVIOUS
      <4>2. p \in Nat /\ r \in Nat /\ i = p - r
        BY <1>0, <3>1, <4>1, Typed
      <4>3. e.accPerRewardWeightRay[b] = p + delta /\ e.rewardDebtRayOf[b][t] = r
        BY <1>8, <1>11, <4>1
      <4> QED BY <1>7, <4>2, <4>3
    <3>4. Earned(d, b, t) = RAY * c + v * i /\ Earned(e, b, t) = RAY * c + v * (i + delta)
      BY <1>8, <3>1, <3>3 DEF Earned
    <3>5. v * (i + delta) = v * i + delta * v /\ v * i \in Nat /\ delta * v \in Nat /\ RAY * c \in Nat
      BY <1>0, <1>7, <3>2, MulIsNat
    <3> QED BY <3>1, <3>4, <3>5
  <2>4. /\ IsFamily(f, MaxTokens) /\ IsFamily(g, MaxTokens)
        /\ EarnedAll(d, b) = SumTo(f, MaxTokens) /\ EarnedAll(e, b) = SumTo(g, MaxTokens)
    BY <1>12, TokenSums DEF EarnedAll, SumTokens
  <2> HIDE DEF w, f, g, h
  <2>5. IsFamily(h, MaxTokens) /\ SumTo(h, MaxTokens) = delta * weight
    <3>1. delta \in Int
      BY <1>7
    <3> QED BY <2>1, <2>2, <3>1, SumOfScaled
  <2>6. SumTo(g, MaxTokens) = SumTo(f, MaxTokens) + SumTo(h, MaxTokens)
    BY <2>3, <2>4, <2>5, SumOfSum
  <2> QED BY <1>4, <2>4, <2>5, <2>6
<1>15. Backed(e, m)
  <2>1. ASSUME NEW a \in Assets
        PROVE  RAY * e.totalClaimed[a] + EarnedAll(e, a)
                   <= RAY * e.totalAllocated[a] + (RAY - 1) * m[a]
    <3>1. RAY * d.totalClaimed[a] + EarnedAll(d, a)
              <= RAY * d.totalAllocated[a] + (RAY - 1) * n[a]
      BY DEF Backed
    <3>2. CASE a # b
      <4>1. m[a] = n[a]
        BY <3>2 DEF PerAsset
      <4>2. e.totalAllocated[a] = d.totalAllocated[a] /\ EarnedAll(e, a) = EarnedAll(d, a)
        BY <1>11, <1>13, <3>2
      <4> QED BY <1>8, <3>1, <4>1, <4>2
    <3>3. CASE a = b
      <4>1. PICK c, l, k : c = d.totalClaimed[b] /\ l = d.totalAllocated[b] /\ k = n[b]
        OBVIOUS
      <4>2. c \in Nat /\ l \in Nat /\ k \in Nat /\ EarnedAll(d, b) \in Nat /\ RAY - 1 \in Nat
        <5>1. d.totalClaimed[b] \in Nat /\ d.totalAllocated[b] \in Nat /\ EarnedAll(d, b) \in Nat
          BY <1>9, TokenSums
        <5>2. n[b] \in Nat /\ RAY - 1 \in Nat
          BY <1>0 DEF PerAsset
        <5> QED BY <4>1, <5>1, <5>2
      <4>3. /\ RAY * (l + allocated) = RAY * l + RAY * allocated
            /\ (RAY - 1) * (k + 1) = (RAY - 1) * k + (RAY - 1)
            /\ RAY * l \in Nat /\ RAY * allocated \in Nat /\ (RAY - 1) * k \in Nat /\ RAY * c \in Nat
        BY <1>0, <1>7, <4>2, MulIsNat
      <4>4. RAY * c + EarnedAll(d, b) <= RAY * l + (RAY - 1) * k
        BY <3>1, <3>3, <4>1
      <4>5. e.totalClaimed[b] = c /\ e.totalAllocated[b] = l + allocated
        BY <1>8, <1>11, <4>1
      <4>6. CASE weight = 0
        <5>1. m[b] = k /\ x = 0 /\ allocated = 0
          BY <1>1, <1>4, <1>7, <4>1, <4>6
        <5> QED BY <1>14, <3>3, <4>2, <4>4, <4>5, <5>1
      <4>7. CASE weight # 0
        <5>1. m[b] = k + 1
          BY <1>1, <4>1, <4>7 DEF PerAsset
        <5>2. RAY * c + (EarnedAll(d, b) + x) <= RAY * (l + allocated) + (RAY - 1) * (k + 1)
          BY <1>0, <1>7, <4>2, <4>3, <4>4
        <5> QED BY <1>14, <3>3, <4>5, <5>1, <5>2
      <4> QED BY <4>6, <4>7
    <3> QED BY <3>2, <3>3
  <2> QED BY <2>1 DEF Backed
<1>16. weight = 0 => SameCredit(d, e)
  <2> SUFFICES ASSUME weight = 0 PROVE SameCredit(d, e)
    OBVIOUS
  <2>1. e.accPerRewardWeightRay[b] = d.accPerRewardWeightRay[b]
        /\ e.totalAllocated[b] = d.totalAllocated[b]
    BY <1>7, <1>9, <1>11
  <2>2. \A t \in Tokens : Claimable(e, b, t) = Claimable(d, b, t)
    BY <1>8, <2>1 DEF Claimable
  <2>3. CreditedBy(e, b) = CreditedBy(d, b)
    BY <1>8, <2>2 DEF CreditedBy
  <2>4. \A a \in Assets, t \in Tokens : Claimable(e, a, t) <= Claimable(d, a, t)
    BY <1>13, <2>2, EarnedBounds
  <2> QED BY <1>11, <1>13, <2>1, <2>3, <2>4 DEF SameCredit
<1>17. ASSUME NEW a \in Assets
       PROVE  LET grown == CreditedBy(e, a) - CreditedBy(d, a)
                  given == e.totalAllocated[a] - d.totalAllocated[a]
              IN  given - MaxTokens <= grown /\ grown <= given + MaxTokens
  <2>0. PICK p, q : /\ p = SumTokens([t \in Tokens |-> Claimable(d, a, t)])
                    /\ q = SumTokens([t \in Tokens |-> Claimable(e, a, t)])
    OBVIOUS
  <2>1. /\ p \in Nat /\ RAY * p <= EarnedAll(d, a)
        /\ EarnedAll(d, a) <= RAY * p + MaxTokens * (RAY - 1)
        /\ q \in Nat /\ RAY * q <= EarnedAll(e, a)
        /\ EarnedAll(e, a) <= RAY * q + MaxTokens * (RAY - 1)
        /\ EarnedAll(d, a) \in Nat
    BY <1>12, <2>0, EarnedSumBounds, TokenSums
  <2>2. CreditedBy(d, a) = d.totalClaimed[a] + p /\ CreditedBy(e, a) = d.totalClaimed[a] + q
    BY <1>8, <2>0 DEF CreditedBy
  <2>3. CASE a # b
    <3>1. e.totalAllocated[a] = d.totalAllocated[a] /\ CreditedBy(e, a) = CreditedBy(d, a)
      BY <1>11, <1>13, <2>3
    <3>2. CreditedBy(d, a) \in Nat /\ d.totalAllocated[a] \in Nat
      BY <1>9, <2>1, <2>2
    <3> QED BY <1>0, <3>1, <3>2
  <2>4. CASE a = b
    <3>1. e.totalAllocated[a] - d.totalAllocated[a] = allocated
      BY <1>7, <1>9, <1>11, <2>4
    <3>2. PICK y : y = MaxTokens * (RAY - 1)
      OBVIOUS
    <3> DEFINE A == RAY * p
               B == RAY * q
               C == RAY * allocated
               D == RAY * (MaxTokens + 1)
               u == EarnedAll(d, a)
               v == EarnedAll(e, a)
    <3>3. /\ y \in Nat /\ RAY * (MaxTokens + 1) = y + MaxTokens + RAY
      BY <1>0, <3>2, MulIsNat
    <3>4. A \in Nat /\ B \in Nat /\ C \in Nat
      BY <1>0, <1>7, <2>1, MulIsNat
    <3>5. /\ A <= u /\ u <= A + y /\ B <= v /\ v <= B + y /\ u \in Nat
          /\ v = u + x /\ C <= x /\ x <= C + (RAY - 1) /\ D = y + MaxTokens + RAY
      BY <1>7, <1>14, <2>1, <2>4, <3>2, <3>3
    <3>6. /\ RAY * ((p + allocated) + (MaxTokens + 1)) = RAY * (p + allocated) + D
          /\ RAY * (p + allocated) = A + C
          /\ RAY * (q + (MaxTokens + 1)) = B + D
      BY <1>0, <1>7, <2>1, ScaledSum
    <3>7. B < (A + C) + D /\ A + C < B + D
      <4> HIDE DEF A, B, C, D, u, v
      <4> QED BY <1>0, <1>7, <3>3, <3>4, <3>5
    <3>8. q <= (p + allocated) + MaxTokens
      <4>1. RAY * q < RAY * ((p + allocated + MaxTokens) + 1)
        <5>1. (p + allocated) + (MaxTokens + 1) = (p + allocated + MaxTokens) + 1
          BY <1>0, <1>7, <2>1
        <5> QED BY <3>6, <3>7, <5>1
      <4> QED BY <1>0, <1>7, <2>1, <4>1, ScaledOrder
    <3>9. p + allocated <= q + MaxTokens
      <4>1. RAY * (p + allocated) < RAY * ((q + MaxTokens) + 1)
        <5>1. q + (MaxTokens + 1) = (q + MaxTokens) + 1
          BY <1>0, <2>1
        <5> QED BY <3>6, <3>7, <5>1
      <4> QED BY <1>0, <1>7, <2>1, <4>1, ScaledOrder
    <3>10. CreditedBy(e, a) - CreditedBy(d, a) = q - p
      <4>1. d.totalClaimed[a] \in Nat
        BY <1>9
      <4> QED BY <2>1, <2>2, <4>1
    <3> HIDE DEF A, B, C, D, u, v
    <3> QED BY <1>0, <1>7, <2>1, <3>1, <3>8, <3>9, <3>10
  <2> QED BY <2>3, <2>4
<1> QED BY <1>1, <1>8, <1>12, <1>15, <1>16, <1>17

--------------------------------------------------------------------------------
(* What a step on one token does to the others                                       *)

Leaves(d, e, t) ==
    \A u \in Tokens \ {t} :
        /\ e.trackedRewardWeightOf[u] = d.trackedRewardWeightOf[u]
        /\ e.closedOwnerOf[u] = d.closedOwnerOf[u]
        /\ \A a \in Assets : d.accruedOf[a][u] = 0 => e.accruedOf[a][u] = 0

LEMMA SyncLeaves ==
  ASSUME NEW d, DistributorOK(d), NEW t \in Tokens, NEW w \in Nat,
         NEW e, e = SyncToWeight(d, t, w)
  PROVE  /\ Leaves(d, e, t) /\ e.closedOwnerOf = d.closedOwnerOf
         /\ e.trackedRewardWeightOf[t] = w
         /\ Unrewarded(d, t) /\ w = 0 => Unrewarded(e, t)
<1>1. /\ e.closedOwnerOf = d.closedOwnerOf /\ e.trackedRewardWeightOf[t] = w
      /\ \A u \in Tokens \ {t} :
            /\ e.trackedRewardWeightOf[u] = d.trackedRewardWeightOf[u]
            /\ \A a \in Assets : e.accruedOf[a][u] = d.accruedOf[a][u]
  BY SyncFrame
<1>2. ASSUME Unrewarded(d, t), NEW a \in Assets PROVE e.accruedOf[a][t] = 0
  <2>1. Claimable(d, a, t) = 0
    <3>1. d.trackedRewardWeightOf[t] = 0 /\ d.accruedOf[a][t] = 0
      BY <1>2 DEF Unrewarded
    <3> QED BY <3>1, EarnedWhenSynced
  <2>2. DistributorOK(e) /\ Claimable(e, a, t) = Claimable(d, a, t)
    BY SyncKeeps
  <2>3. e.rewardDebtRayOf[a][t] = e.accPerRewardWeightRay[a]
    BY SyncKeeps
  <2>4. Claimable(e, a, t) = e.accruedOf[a][t]
    BY <2>2, <2>3, EarnedWhenSynced
  <2> QED BY <2>1, <2>2, <2>4
<1> QED BY <1>1, <1>2 DEF Leaves, Unrewarded

\* A claim: the sync that begins it and the payment.
LEMMA ClaimIsKept ==
  ASSUME NEW d, DistributorOK(d), NEW t \in Tokens, NEW w \in Nat,
         NEW claims \in SUBSET Assets, CanPay(SyncToWeight(d, t, w), t, claims),
         NEW e, e = Paid(SyncToWeight(d, t, w), t, claims)
  PROVE  /\ Keeps(d, e) /\ Leaves(d, e, t) /\ e.closedOwnerOf = d.closedOwnerOf
         /\ e.trackedRewardWeightOf[t] = w
         /\ Unrewarded(d, t) /\ w = 0 => Unrewarded(e, t)
<1>1. PICK s : s = SyncToWeight(d, t, w)
  OBVIOUS
<1>2. Keeps(d, s) /\ DistributorOK(s)
  BY <1>1, SyncIsKept DEF Keeps
<1>3. \A a \in claims : s.rewardDebtRayOf[a][t] = s.accPerRewardWeightRay[a]
  BY <1>1, SyncKeeps
<1>4. /\ Leaves(d, s, t) /\ s.closedOwnerOf = d.closedOwnerOf
      /\ s.trackedRewardWeightOf[t] = w
      /\ Unrewarded(d, t) /\ w = 0 => Unrewarded(s, t)
  BY <1>1, SyncLeaves
<1>5. /\ Keeps(s, e) /\ e.trackedRewardWeightOf = s.trackedRewardWeightOf
      /\ e.closedOwnerOf = s.closedOwnerOf
      /\ \A a \in Assets, u \in Tokens : s.accruedOf[a][u] = 0 => e.accruedOf[a][u] = 0
  <2>1. CanPay(s, t, claims) /\ e = Paid(s, t, claims)
    BY <1>1
  <2> QED BY <1>2, <1>3, <2>1, PaidIsKept
<1>6. Keeps(d, e)
  BY <1>2, <1>5, KeepsTransitive
<1> QED BY <1>4, <1>5, <1>6 DEF Leaves, Unrewarded

\* A close: the notification, when it arrives, and the claims that go through.
LEMMA CloseIsKept ==
  ASSUME NEW d, DistributorOK(d), NEW t \in Tokens, ownerOf[t] \in Owners \cup {NoOne},
         NEW notified \in BOOLEAN, NEW claims \in SUBSET Assets,
         NEW c, c = Cleared(d, t, notified),
         CanPay(SyncToWeight(c, t, 0), t, claims), NEW e, e = TryClaimed(c, t, claims)
  PROVE  /\ Keeps(d, e) /\ Leaves(d, e, t)
         /\ genesisMetadataOf[t].isGenesis /\ notified
               => e.trackedRewardWeightOf[t] = 0 /\ e.closedOwnerOf[t] = ownerOf[t]
         /\ ~ genesisMetadataOf[t].isGenesis
               => /\ e.closedOwnerOf[t] = d.closedOwnerOf[t]
                  /\ d.trackedRewardWeightOf[t] = 0 => e.trackedRewardWeightOf[t] = 0
                  /\ Unrewarded(d, t) => Unrewarded(e, t)
<1>0. d \in DistributorType
  BY DEF DistributorOK
<1>1. /\ Keeps(d, c) /\ DistributorOK(c) /\ Leaves(d, c, t)
      /\ genesisMetadataOf[t].isGenesis /\ notified
            => c.trackedRewardWeightOf[t] = 0 /\ c.closedOwnerOf[t] = ownerOf[t]
      /\ ~ genesisMetadataOf[t].isGenesis => c = d
  <2>1. CASE genesisMetadataOf[t].isGenesis /\ notified
    <3>1. PICK s : s = SyncToWeight(d, t, 0)
      OBVIOUS
    <3>2. Keeps(d, s) /\ DistributorOK(s) /\ s \in DistributorType
      BY <3>1, SyncIsKept DEF Keeps, DistributorOK
    <3>3. Leaves(d, s, t) /\ s.trackedRewardWeightOf[t] = 0
      BY <3>1, SyncLeaves
    <3>4. PICK o \in Owners \cup {NoOne} : o = ownerOf[t]
      OBVIOUS
    <3>5. /\ Keeps(s, c) /\ c.trackedRewardWeightOf = s.trackedRewardWeightOf
          /\ c.accruedOf = s.accruedOf
          /\ c.closedOwnerOf = [s.closedOwnerOf EXCEPT ![t] = o]
      <4>1. c = OwnerRecorded(s, t, o)
        BY <2>1, <3>1, <3>4, Zenon DEF Cleared, PositionClosed, OwnerRecorded
      <4> QED BY <3>2, <4>1, OwnerIsKept
    <3>6. s.closedOwnerOf \in [Tokens -> Owners \cup {NoOne}]
      BY <3>2 DEF DistributorType
    <3>7. Keeps(d, c) /\ DistributorOK(c)
      BY <3>2, <3>5, KeepsTransitive DEF Keeps
    <3>8. c.trackedRewardWeightOf[t] = 0 /\ c.closedOwnerOf[t] = ownerOf[t]
      BY <3>3, <3>4, <3>5, <3>6
    <3>9. Leaves(d, c, t)
      BY <3>3, <3>5, <3>6 DEF Leaves
    <3> QED BY <2>1, <3>7, <3>8, <3>9
  <2>2. CASE ~ (genesisMetadataOf[t].isGenesis /\ notified)
    <3>1. c = d
      BY <2>2 DEF Cleared
    <3> QED BY <2>2, <3>1, KeepsItself DEF Leaves
  <2> QED BY <2>1, <2>2
<1>2. CASE claims = {}
  <2>1. e = c
    BY <1>2 DEF TryClaimed
  <2> QED BY <1>1, <2>1
<1>3. CASE claims # {}
  <2>1. e = Paid(SyncToWeight(c, t, 0), t, claims)
    BY <1>3 DEF TryClaimed
  <2>2. /\ Keeps(c, e) /\ Leaves(c, e, t) /\ e.closedOwnerOf = c.closedOwnerOf
        /\ e.trackedRewardWeightOf[t] = 0
        /\ Unrewarded(c, t) => Unrewarded(e, t)
    BY <1>1, <2>1, ClaimIsKept
  <2>3. Keeps(d, e)
    BY <1>1, <2>2, KeepsTransitive
  <2>4. Leaves(d, e, t)
    BY <1>1, <2>2 DEF Leaves
  <2> QED BY <1>1, <2>2, <2>3, <2>4
<1> QED BY <1>2, <1>3

--------------------------------------------------------------------------------
(* Every step, on the distributor                                                    *)

Quiet == Keeps(distributor, distributor') /\ allocations' = allocations

NotifyStep == \E a \in Assets, received \in Rewards \cup {0} : NotifyRewards(a, received)

\* The facts about weights and owners that steps pass to the distributor.
LEMMA NftValues ==
  ASSUME NftOK, NEW t \in Tokens
  PROVE  /\ CurrentRewardWeight(t) \in Nat /\ genesisMetadataOf[t].rewardWeight \in Nat
         /\ ownerOf[t] \in Owners \cup {NoOne}
         /\ genesisMetadataOf[t].isGenesis \in BOOLEAN
BY DEF NftOK, Metadata, CurrentRewardWeight

LEMMA MintedWeight ==
  ASSUME NEW amount \in Amounts, NEW multiplier \in Multipliers
  PROVE  (amount * multiplier) \div BPS \in Nat
<1>1. amount \in Nat /\ multiplier \in Nat /\ BPS \in Nat \ {0}
  BY GenesisAssumption
<1>2. amount * multiplier \in Nat
  BY <1>1, MulIsNat
<1> QED BY <1>1, <1>2, DivBounds

\* Only a notify call credits.
LEMMA QuietStep ==
  ASSUME IInv, [Next]_vars
  PROVE  Quiet \/ NotifyStep
<1>0. DistributorOK(distributor) /\ NftOK
  BY DEF IInv
<1>1. CASE UNCHANGED <<distributor, allocations>>
  BY <1>0, <1>1, KeepsItself DEF Quiet
<1>2. CASE SetGenesisRewardDistributor
  BY <1>1, <1>2 DEF SetGenesisRewardDistributor
<1>3. CASE \E o \in Owners : MintAndLock(o)
  BY <1>1, <1>3 DEF MintAndLock, Minted
<1>4. ASSUME NEW o \in Owners, NEW amount \in Amounts, NEW multiplier \in Multipliers,
             NEW eternal \in BOOLEAN, MintGenesisAndLockFor(o, amount, multiplier, eternal)
      PROVE  Quiet
  <2>1. PICK w : w = (amount * multiplier) \div BPS
    OBVIOUS
  <2>2. /\ nextTokenId \in Tokens /\ w \in Nat /\ allocations' = allocations
        /\ distributor' = SyncToWeight(distributor, nextTokenId, w)
    BY <1>4, <2>1, MintedWeight DEF MintGenesisAndLockFor, Minted, RecordGenesisMetadata
  <2> QED BY <1>0, <2>2, SyncIsKept DEF Quiet
<1>5. CASE \E t \in Tokens, o \in Owners : Transfer(t, o)
  BY <1>1, <1>5 DEF Transfer
<1>6. CASE \E t \in Tokens : Mature(t)
  BY <1>1, <1>6 DEF Mature
<1>7. ASSUME NEW t \in Tokens, Close(t)
      PROVE  Quiet
  <2>1. PICK notified \in BOOLEAN, claims \in SUBSET Assets :
           /\ CanPay(SyncToWeight(Cleared(distributor, t, notified), t, 0), t, claims)
           /\ distributor' = TryClaimed(Cleared(distributor, t, notified), t, claims)
           /\ allocations' = allocations
    BY <1>7, Zenon DEF Close
  <2>2. Keeps(distributor, distributor')
    BY <1>0, <2>1, NftValues, CloseIsKept
  <2> QED BY <2>1, <2>2 DEF Quiet
<1>8. ASSUME NEW t \in Tokens, SyncGenesisRewardWeight(t)
      PROVE  Quiet
  BY <1>0, <1>8, NftValues, SyncIsKept DEF SyncGenesisRewardWeight, Quiet
<1>9. ASSUME NEW a \in Assets, NEW t \in Tokens, Claim(a, t)
      PROVE  Quiet
  <2>1. PICK w \in Nat : w = CurrentRewardWeight(t)
    BY <1>0, NftValues
  <2>2. /\ CanPay(SyncToWeight(distributor, t, w), t, {a})
        /\ distributor' = Paid(SyncToWeight(distributor, t, w), t, {a})
        /\ allocations' = allocations /\ {a} \in SUBSET Assets
    BY <1>9, <2>1 DEF Claim
  <2> QED BY <1>0, <2>2, ClaimIsKept DEF Quiet
<1>10. CASE UNCHANGED vars
  BY <1>1, <1>10 DEF vars
<1> QED BY <1>2, <1>3, <1>4, <1>5, <1>6, <1>7, <1>8, <1>9, <1>10
        DEF Next, Unlock, BurnEternalGenesis, NotifyStep

\* The books of the distributor survive every step, and what a notify call credits is
\* what it allocates, up to one unit per token.
LEMMA DistributorStep ==
  ASSUME IInv, [Next]_vars
  PROVE  /\ DistributorOK(distributor') /\ Backed(distributor', allocations')
         /\ allocations' \in PerAsset
         /\ IF allocations' = allocations THEN SameCredit(distributor, distributor')
            ELSE \A a \in Assets :
                    LET grown == CreditedBy(distributor', a) - CreditedBy(distributor, a)
                        given == distributor'.totalAllocated[a] - distributor.totalAllocated[a]
                    IN  given - MaxTokens <= grown /\ grown <= given + MaxTokens
<1>1. DistributorOK(distributor) /\ Backed(distributor, allocations) /\ allocations \in PerAsset
  BY DEF IInv, NftOK
<1>2. CASE Quiet
  BY <1>1, <1>2 DEF Quiet, Keeps
<1>3. ASSUME NEW a \in Assets, NEW received \in Rewards \cup {0}, NotifyRewards(a, received)
      PROVE  /\ DistributorOK(distributor') /\ Backed(distributor', allocations')
             /\ allocations' \in PerAsset
             /\ allocations' = allocations => SameCredit(distributor, distributor')
             /\ \A b \in Assets :
                   LET grown == CreditedBy(distributor', b) - CreditedBy(distributor, b)
                       given == distributor'.totalAllocated[b] - distributor.totalAllocated[b]
                   IN  given - MaxTokens <= grown /\ grown <= given + MaxTokens
  <2>1. /\ distributor' = Notify(distributor, a, received) /\ received \in Nat
        /\ allocations' = IF distributor.trackedGenesisRewardWeight = 0 THEN allocations
                          ELSE [allocations EXCEPT ![a] = @ + 1]
    <3>1. received \in Nat
      BY GenesisAssumption
    <3>2. /\ distributor' = Notify(distributor, a, received)
          /\ distributor.trackedGenesisRewardWeight = 0 => UNCHANGED allocations
          /\ distributor.trackedGenesisRewardWeight # 0
                => allocations' = [allocations EXCEPT ![a] = @ + 1]
      BY <1>3 DEF NotifyRewards
    <3> QED BY <3>1, <3>2, Zenon
  <2>2. allocations' \in PerAsset
    BY <1>1, <2>1 DEF PerAsset
  <2>3. allocations' = allocations => distributor.trackedGenesisRewardWeight = 0
    BY <1>1, <2>1 DEF PerAsset
  <2>4. PICK d, e, n, m : /\ d = distributor /\ e = distributor'
                          /\ n = allocations /\ m = allocations'
    OBVIOUS
  <2>5. /\ DistributorOK(d) /\ e = Notify(d, a, received) /\ n \in PerAsset /\ Backed(d, n)
        /\ m = IF d.trackedGenesisRewardWeight = 0 THEN n ELSE [n EXCEPT ![a] = @ + 1]
    BY <1>1, <2>1, <2>4, Zenon
  <2>6. /\ DistributorOK(e) /\ Backed(e, m)
        /\ d.trackedGenesisRewardWeight = 0 => SameCredit(d, e)
        /\ \A b \in Assets :
              LET grown == CreditedBy(e, b) - CreditedBy(d, b)
                  given == e.totalAllocated[b] - d.totalAllocated[b]
              IN  given - MaxTokens <= grown /\ grown <= given + MaxTokens
    BY <2>1, <2>5, NotifyKeeps
  <2> QED BY <2>2, <2>3, <2>4, <2>6
<1> QED BY <1>2, <1>3, QuietStep DEF NotifyStep

--------------------------------------------------------------------------------
(* Every step, on the tokens                                                         *)

\* The NFT's total follows the weight of the one token whose metadata changes.
LEMMA MetadataStep ==
  ASSUME NftOK, NEW t \in Tokens, NEW m \in Metadata,
         genesisMetadataOf' = [genesisMetadataOf EXCEPT ![t] = m],
         totalGenesisRewardWeight' =
            totalGenesisRewardWeight - genesisMetadataOf[t].rewardWeight + m.rewardWeight
  PROVE  /\ genesisMetadataOf' \in [Tokens -> Metadata]
         /\ genesisMetadataOf'[t] = m
         /\ \A u \in Tokens \ {t} : genesisMetadataOf'[u] = genesisMetadataOf[u]
         /\ totalGenesisRewardWeight'
                = SumTokens([u \in Tokens |-> genesisMetadataOf'[u].rewardWeight])
<1>1. /\ genesisMetadataOf \in [Tokens -> Metadata]
      /\ totalGenesisRewardWeight
             = SumTokens([u \in Tokens |-> genesisMetadataOf[u].rewardWeight])
  BY DEF NftOK
<1>2. /\ genesisMetadataOf' \in [Tokens -> Metadata]
      /\ genesisMetadataOf'[t] = m
      /\ \A u \in Tokens \ {t} : genesisMetadataOf'[u] = genesisMetadataOf[u]
  BY <1>1
<1> DEFINE f == [u \in Tokens |-> genesisMetadataOf[u].rewardWeight]
           g == [u \in Tokens |-> genesisMetadataOf'[u].rewardWeight]
<1>3. Tokens = 1 .. MaxTokens /\ MaxTokens \in Nat
  BY GenesisAssumption
<1>4. \A u \in Tokens : f[u] \in Nat /\ g[u] \in Nat
  BY <1>1, <1>2 DEF Metadata
<1>5. /\ \A u \in Tokens : u # t => g[u] = f[u]
      /\ g[t] = m.rewardWeight /\ f[t] = genesisMetadataOf[t].rewardWeight
  BY <1>2
<1>6. totalGenesisRewardWeight = SumTo(f, MaxTokens)
  BY <1>1 DEF SumTokens
<1> HIDE DEF f, g
<1>7. IsFamily(f, MaxTokens) /\ IsFamily(g, MaxTokens)
  BY <1>3, <1>4 DEF IsFamily
<1>8. SumTo(g, MaxTokens) = SumTo(f, MaxTokens) + g[t] - f[t]
  BY <1>3, <1>5, <1>7, SumOfUpdate
<1>9. SumTo(f, MaxTokens) \in Nat
  BY <1>3, <1>4, SumIsNat
<1>10. totalGenesisRewardWeight' = SumTo(g, MaxTokens)
  BY <1>3, <1>4, <1>5, <1>6, <1>8, <1>9
<1> QED BY <1>2, <1>10 DEF g, SumTokens

LEMMA NftStep ==
  ASSUME IInv, [Next]_vars
  PROVE  NftOK'
<1>0. NftOK /\ allocations' \in PerAsset
  BY DistributorStep DEF IInv
<1> DEFINE Metas == <<genesisMetadataOf, totalGenesisRewardWeight>>
<1>a. /\ nextTokenId \in Nat \ {0} /\ ownerOf \in [Tokens -> Owners \cup {NoOne}]
      /\ closeNotifyFailed \subseteq Tokens /\ NoOne \notin Owners
      /\ genesisMetadataOf \in [Tokens -> Metadata]
      /\ totalGenesisRewardWeight \in Nat
      /\ \A t \in Tokens :
            /\ t >= nextTokenId => ownerOf[t] = NoOne
            /\ genesisMetadataOf[t].isGenesis => Live(t)
            /\ ~ genesisMetadataOf[t].isGenesis => genesisMetadataOf[t].rewardWeight = 0
  <2>1. \A t \in Tokens : genesisMetadataOf[t].rewardWeight \in Nat
    BY <1>0, NftValues
  <2>2. SumTokens([t \in Tokens |-> genesisMetadataOf[t].rewardWeight]) \in Nat
    <3> DEFINE f == [t \in Tokens |-> genesisMetadataOf[t].rewardWeight]
    <3>1. MaxTokens \in Nat /\ \A t \in 1 .. MaxTokens : f[t] \in Nat
      BY <2>1, GenesisAssumption
    <3> HIDE DEF f
    <3>2. SumTo(f, MaxTokens) \in Nat
      BY <3>1, SumIsNat
    <3> QED BY <3>2 DEF f, SumTokens
  <2> QED BY <1>0, <2>2, GenesisAssumption DEF NftOK
<1>b. \A t \in Tokens : t \in Nat
  BY GenesisAssumption
<1>1. CASE UNCHANGED <<nextTokenId, ownerOf, Metas, closeNotifyFailed>>
  BY <1>0, <1>1 DEF NftOK, Live
<1>2. CASE SetGenesisRewardDistributor
  BY <1>1, <1>2 DEF SetGenesisRewardDistributor
<1>3. ASSUME NEW o \in Owners, Minted(o)
      PROVE  /\ nextTokenId' \in Nat \ {0} /\ ownerOf' \in [Tokens -> Owners \cup {NoOne}]
             /\ closeNotifyFailed' \subseteq Tokens
             /\ nextTokenId \in Tokens
             /\ ownerOf'[nextTokenId] = o /\ ownerOf[nextTokenId] = NoOne
             /\ \A t \in Tokens \ {nextTokenId} : ownerOf'[t] = ownerOf[t]
             /\ \A t \in Tokens : t >= nextTokenId' => ownerOf'[t] = NoOne
  BY <1>3, <1>a, <1>b DEF Minted
<1>4. ASSUME NEW o \in Owners, MintAndLock(o) PROVE NftOK'
  <2>1. Minted(o) /\ UNCHANGED Metas
    BY <1>4 DEF MintAndLock
  <2>2. \A t \in Tokens : genesisMetadataOf[t].isGenesis => Live(t)'
    BY <1>3, <1>a, <2>1 DEF Live
  <2> QED BY <1>0, <1>3, <1>a, <2>1, <2>2 DEF NftOK
<1>5. ASSUME NEW o \in Owners, NEW amount \in Amounts, NEW multiplier \in Multipliers,
             NEW eternal \in BOOLEAN, MintGenesisAndLockFor(o, amount, multiplier, eternal)
      PROVE  NftOK'
  <2>1. PICK t, w, m : /\ t = nextTokenId /\ w = (amount * multiplier) \div BPS
                       /\ m = [isGenesis |-> TRUE, isEternal |-> eternal, rewardWeight |-> w]
    OBVIOUS
  <2>2. /\ Minted(o) /\ genesisMetadataOf' = [genesisMetadataOf EXCEPT ![t] = m]
        /\ totalGenesisRewardWeight' = totalGenesisRewardWeight + w
    BY <1>5, <2>1 DEF MintGenesisAndLockFor, RecordGenesisMetadata
  <2>3. t \in Tokens /\ w \in Nat /\ m \in Metadata /\ m.rewardWeight = w /\ m.isGenesis
    BY <1>3, <2>1, <2>2, MintedWeight DEF Metadata
  <2>4. genesisMetadataOf[t].rewardWeight = 0
    BY <1>3, <1>a, <2>1, <2>2 DEF Live
  <2>5. totalGenesisRewardWeight' =
            totalGenesisRewardWeight - genesisMetadataOf[t].rewardWeight + m.rewardWeight
    BY <1>a, <2>2, <2>3, <2>4
  <2>6. /\ genesisMetadataOf' \in [Tokens -> Metadata] /\ genesisMetadataOf'[t] = m
        /\ \A u \in Tokens \ {t} : genesisMetadataOf'[u] = genesisMetadataOf[u]
        /\ totalGenesisRewardWeight'
               = SumTokens([u \in Tokens |-> genesisMetadataOf'[u].rewardWeight])
    BY <1>0, <2>2, <2>3, <2>5, MetadataStep
  <2>7. \A u \in Tokens : /\ genesisMetadataOf'[u].isGenesis => Live(u)'
                          /\ ~ genesisMetadataOf'[u].isGenesis
                                => genesisMetadataOf'[u].rewardWeight = 0
    BY <1>3, <1>a, <2>1, <2>2, <2>3, <2>6 DEF Live
  <2> QED BY <1>0, <1>3, <2>2, <2>6, <2>7 DEF NftOK
<1>6. ASSUME NEW t \in Tokens, NEW o \in Owners, Transfer(t, o) PROVE NftOK'
  <2>1. /\ ownerOf[t] # NoOne /\ ownerOf' = [ownerOf EXCEPT ![t] = o]
        /\ UNCHANGED <<nextTokenId, Metas, closeNotifyFailed>>
    BY <1>6 DEF Transfer, Live
  <2>2. /\ ownerOf' \in [Tokens -> Owners \cup {NoOne}]
        /\ \A u \in Tokens : u >= nextTokenId => ownerOf'[u] = NoOne
        /\ \A u \in Tokens : Live(u) => Live(u)'
    BY <1>a, <2>1 DEF Live
  <2> QED BY <1>0, <1>a, <2>1, <2>2 DEF NftOK
<1>7. CASE \E t \in Tokens : Mature(t)
  BY <1>1, <1>7 DEF Mature
<1>8. ASSUME NEW t \in Tokens, Close(t) PROVE NftOK'
  <2>1. /\ genesisMetadataOf' = [genesisMetadataOf EXCEPT ![t] = NoMetadata]
        /\ totalGenesisRewardWeight' =
               totalGenesisRewardWeight - genesisMetadataOf[t].rewardWeight
        /\ ownerOf' = [ownerOf EXCEPT ![t] = NoOne] /\ nextTokenId' = nextTokenId
        /\ closeNotifyFailed' \subseteq closeNotifyFailed \cup {t}
    BY <1>8 DEF Close
  <2>2. PICK m : m = NoMetadata
    OBVIOUS
  <2>3. m \in Metadata /\ m.rewardWeight = 0 /\ ~ m.isGenesis
    BY <2>2 DEF NoMetadata, Metadata
  <2>4. totalGenesisRewardWeight' =
            totalGenesisRewardWeight - genesisMetadataOf[t].rewardWeight + m.rewardWeight
    BY <1>0, <1>a, <2>1, <2>3, NftValues
  <2>5. /\ genesisMetadataOf' \in [Tokens -> Metadata] /\ genesisMetadataOf'[t] = m
        /\ \A u \in Tokens \ {t} : genesisMetadataOf'[u] = genesisMetadataOf[u]
        /\ totalGenesisRewardWeight'
               = SumTokens([u \in Tokens |-> genesisMetadataOf'[u].rewardWeight])
    BY <1>0, <2>1, <2>2, <2>3, <2>4, MetadataStep
  <2>6. /\ ownerOf' \in [Tokens -> Owners \cup {NoOne}]
        /\ \A u \in Tokens : u >= nextTokenId => ownerOf'[u] = NoOne
        /\ \A u \in Tokens \ {t} : Live(u) => Live(u)'
        /\ closeNotifyFailed' \subseteq Tokens
    BY <1>a, <2>1 DEF Live
  <2>7. \A u \in Tokens : /\ genesisMetadataOf'[u].isGenesis => Live(u)'
                          /\ ~ genesisMetadataOf'[u].isGenesis
                                => genesisMetadataOf'[u].rewardWeight = 0
    BY <1>a, <2>3, <2>5, <2>6
  <2> QED BY <1>0, <1>a, <2>1, <2>5, <2>6, <2>7 DEF NftOK
<1>9. CASE NotifyStep
  BY <1>1, <1>9 DEF NotifyStep, NotifyRewards, nft
<1>10. CASE \E t \in Tokens : SyncGenesisRewardWeight(t)
  BY <1>1, <1>10 DEF SyncGenesisRewardWeight, nft
<1>11. CASE \E a \in Assets, t \in Tokens : Claim(a, t)
  BY <1>1, <1>11 DEF Claim, nft
<1>12. CASE UNCHANGED vars
  BY <1>1, <1>12 DEF vars
<1> QED BY <1>2, <1>4, <1>5, <1>6, <1>7, <1>8, <1>9, <1>10, <1>11, <1>12
        DEF Next, Unlock, BurnEternalGenesis, NotifyStep

\* What TokensOK says of one token.
TokenOK(t) ==
    \/ t \in closeNotifyFailed
    \/ /\ distributor.trackedRewardWeightOf[t] = CurrentRewardWeight(t)
       /\ \/ genesisMetadataOf[t].isGenesis
          \/ distributor.closedOwnerOf[t] # NoOne
          \/ Unrewarded(distributor, t)

\* A token keeps it when neither its metadata nor anything the distributor has changes.
LEMMA TokenKept ==
  ASSUME NEW t \in Tokens, TokenOK(t),
         t \in closeNotifyFailed => t \in closeNotifyFailed',
         genesisMetadataOf'[t] = genesisMetadataOf[t],
         distributor'.trackedRewardWeightOf[t] = distributor.trackedRewardWeightOf[t],
         distributor'.closedOwnerOf[t] = distributor.closedOwnerOf[t],
         \A a \in Assets : distributor.accruedOf[a][t] = 0 => distributor'.accruedOf[a][t] = 0
  PROVE  TokenOK(t)'
BY DEF TokenOK, Unrewarded, CurrentRewardWeight

LEMMA TokensStep ==
  ASSUME IInv, [Next]_vars
  PROVE  TokensOK'
<1>0. DistributorOK(distributor) /\ NftOK /\ \A t \in Tokens : TokenOK(t)
  BY DEF IInv, TokensOK, TokenOK
<1> SUFFICES \A t \in Tokens : TokenOK(t)'
  BY DEF TokensOK, TokenOK
<1>1. CASE UNCHANGED <<distributor, genesisMetadataOf, closeNotifyFailed>>
  BY <1>0, <1>1 DEF TokenOK, Unrewarded, CurrentRewardWeight
<1>2. CASE SetGenesisRewardDistributor
  BY <1>1, <1>2 DEF SetGenesisRewardDistributor
<1>3. CASE \E o \in Owners : MintAndLock(o)
  BY <1>1, <1>3 DEF MintAndLock, Minted
<1>4. ASSUME NEW o \in Owners, NEW amount \in Amounts, NEW multiplier \in Multipliers,
             NEW eternal \in BOOLEAN, MintGenesisAndLockFor(o, amount, multiplier, eternal)
      PROVE  \A t \in Tokens : TokenOK(t)'
  <2>1. PICK n, w, m : /\ n = nextTokenId /\ w = (amount * multiplier) \div BPS
                       /\ m = [isGenesis |-> TRUE, isEternal |-> eternal, rewardWeight |-> w]
    OBVIOUS
  <2>2. /\ n \in Tokens /\ w \in Nat /\ closeNotifyFailed' = closeNotifyFailed
        /\ genesisMetadataOf' = [genesisMetadataOf EXCEPT ![n] = m]
        /\ distributor' = SyncToWeight(distributor, n, w)
    BY <1>4, <2>1, MintedWeight DEF MintGenesisAndLockFor, Minted, RecordGenesisMetadata
  <2>3. m.isGenesis /\ m.rewardWeight = w
    BY <2>1
  <2>4. /\ Leaves(distributor, distributor', n)
        /\ distributor'.trackedRewardWeightOf[n] = w
    BY <1>0, <2>2, SyncLeaves
  <2>5. genesisMetadataOf \in [Tokens -> Metadata]
    BY <1>0 DEF NftOK
  <2>6. TokenOK(n)'
    BY <2>2, <2>3, <2>4, <2>5 DEF TokenOK, CurrentRewardWeight
  <2>7. ASSUME NEW t \in Tokens \ {n} PROVE TokenOK(t)'
    <3>1. genesisMetadataOf'[t] = genesisMetadataOf[t]
      BY <2>2, <2>5, <2>7
    <3> QED BY <1>0, <2>2, <2>4, <2>7, <3>1, TokenKept DEF Leaves
  <2> QED BY <2>6, <2>7
<1>5. CASE \E t \in Tokens, o \in Owners : Transfer(t, o)
  BY <1>1, <1>5 DEF Transfer
<1>6. CASE \E t \in Tokens : Mature(t)
  BY <1>1, <1>6 DEF Mature
<1>7. ASSUME NEW t \in Tokens, Live(t), Close(t)
      PROVE  \A u \in Tokens : TokenOK(u)'
  <2>1. PICK notified \in BOOLEAN, claims \in SUBSET Assets :
           /\ CanPay(SyncToWeight(Cleared(distributor, t, notified), t, 0), t, claims)
           /\ distributor' = TryClaimed(Cleared(distributor, t, notified), t, claims)
           /\ genesisMetadataOf' = [genesisMetadataOf EXCEPT ![t] = NoMetadata]
           /\ closeNotifyFailed' = closeNotifyFailed \cup
                 {x \in {t} : genesisMetadataOf[x].isGenesis /\ ~ notified}
    BY <1>7, Zenon DEF Close
  <2>2. /\ ownerOf[t] \in Owners \cup {NoOne} /\ ownerOf[t] # NoOne
        /\ genesisMetadataOf \in [Tokens -> Metadata]
        /\ genesisMetadataOf[t].isGenesis \in BOOLEAN
    BY <1>0, <1>7, NftValues DEF Live, NftOK
  <2>3. /\ Leaves(distributor, distributor', t)
        /\ genesisMetadataOf[t].isGenesis /\ notified
              => /\ distributor'.trackedRewardWeightOf[t] = 0
                 /\ distributor'.closedOwnerOf[t] = ownerOf[t]
        /\ ~ genesisMetadataOf[t].isGenesis
              => /\ distributor'.closedOwnerOf[t] = distributor.closedOwnerOf[t]
                 /\ distributor.trackedRewardWeightOf[t] = 0
                       => distributor'.trackedRewardWeightOf[t] = 0
                 /\ Unrewarded(distributor, t) => Unrewarded(distributor', t)
    BY <1>0, <2>1, <2>2, CloseIsKept
  <2>4. CurrentRewardWeight(t)' = 0
    BY <2>1, <2>2 DEF CurrentRewardWeight, NoMetadata
  <2>5. TokenOK(t)'
    <3>1. CASE genesisMetadataOf[t].isGenesis /\ ~ notified
      BY <2>1, <3>1 DEF TokenOK
    <3>2. CASE genesisMetadataOf[t].isGenesis /\ notified
      BY <2>2, <2>3, <2>4, <3>2 DEF TokenOK
    <3>3. CASE ~ genesisMetadataOf[t].isGenesis
      <4>1. TokenOK(t)
        BY <1>0
      <4>2. t \in closeNotifyFailed => t \in closeNotifyFailed'
        BY <2>1
      <4> QED BY <2>3, <2>4, <3>3, <4>1, <4>2 DEF TokenOK, CurrentRewardWeight
    <3> QED BY <2>1, <3>1, <3>2, <3>3
  <2>6. ASSUME NEW u \in Tokens \ {t} PROVE TokenOK(u)'
    <3>1. /\ genesisMetadataOf'[u] = genesisMetadataOf[u]
          /\ u \in closeNotifyFailed => u \in closeNotifyFailed'
      BY <2>1, <2>2, <2>6
    <3> QED BY <1>0, <2>3, <2>6, <3>1, TokenKept DEF Leaves
  <2> QED BY <2>5, <2>6
<1>8. ASSUME NEW t \in Tokens, UNCHANGED nft, NEW w, w = CurrentRewardWeight(t),
             Leaves(distributor, distributor', t),
             distributor'.trackedRewardWeightOf[t] = w,
             distributor'.closedOwnerOf = distributor.closedOwnerOf,
             Unrewarded(distributor, t) /\ w = 0 => Unrewarded(distributor', t)
      PROVE  \A u \in Tokens : TokenOK(u)'
  <2>1. UNCHANGED <<genesisMetadataOf, closeNotifyFailed>>
    BY <1>8 DEF nft
  <2>2. TokenOK(t)'
    BY <1>0, <1>8, <2>1 DEF TokenOK, CurrentRewardWeight, Unrewarded
  <2>3. ASSUME NEW u \in Tokens \ {t} PROVE TokenOK(u)'
    BY <1>0, <1>8, <2>1, <2>3, TokenKept DEF Leaves
  <2> QED BY <2>2, <2>3
<1>9. ASSUME NEW a \in Assets, NEW received \in Rewards \cup {0}, NotifyRewards(a, received)
      PROVE  \A u \in Tokens : TokenOK(u)'
  <2>1. /\ distributor' = Notify(distributor, a, received)
        /\ UNCHANGED <<genesisMetadataOf, closeNotifyFailed>>
    BY <1>9 DEF NotifyRewards, nft
  <2>2. /\ distributor'.trackedRewardWeightOf = distributor.trackedRewardWeightOf
        /\ distributor'.accruedOf = distributor.accruedOf
        /\ distributor'.closedOwnerOf = distributor.closedOwnerOf
    BY <1>0, <2>1 DEF Notify, DistributorOK, DistributorType
  <2> QED BY <1>0, <2>1, <2>2, TokenKept
<1>10. ASSUME NEW t \in Tokens, SyncGenesisRewardWeight(t)
       PROVE  \A u \in Tokens : TokenOK(u)'
  <2>1. PICK w \in Nat : w = CurrentRewardWeight(t)
    BY <1>0, NftValues
  <2>2. distributor' = SyncToWeight(distributor, t, w) /\ UNCHANGED nft
    BY <1>10, <2>1 DEF SyncGenesisRewardWeight
  <2>3. /\ Leaves(distributor, distributor', t)
        /\ distributor'.closedOwnerOf = distributor.closedOwnerOf
        /\ distributor'.trackedRewardWeightOf[t] = w
        /\ Unrewarded(distributor, t) /\ w = 0 => Unrewarded(distributor', t)
    BY <1>0, <2>2, SyncLeaves
  <2> QED BY <1>8, <2>1, <2>2, <2>3
<1>11. ASSUME NEW a \in Assets, NEW t \in Tokens, Claim(a, t)
       PROVE  \A u \in Tokens : TokenOK(u)'
  <2>1. PICK w \in Nat : w = CurrentRewardWeight(t)
    BY <1>0, NftValues
  <2>2. /\ CanPay(SyncToWeight(distributor, t, w), t, {a})
        /\ distributor' = Paid(SyncToWeight(distributor, t, w), t, {a})
        /\ UNCHANGED nft /\ {a} \in SUBSET Assets
    BY <1>11, <2>1 DEF Claim
  <2>3. /\ Leaves(distributor, distributor', t)
        /\ distributor'.closedOwnerOf = distributor.closedOwnerOf
        /\ distributor'.trackedRewardWeightOf[t] = w
        /\ Unrewarded(distributor, t) /\ w = 0 => Unrewarded(distributor', t)
    BY <1>0, <2>2, ClaimIsKept
  <2> QED BY <1>8, <2>1, <2>2, <2>3
<1>12. CASE UNCHANGED vars
  BY <1>1, <1>12 DEF vars
<1> QED BY <1>2, <1>3, <1>4, <1>5, <1>6, <1>7, <1>9, <1>10, <1>11, <1>12
        DEF Next, Unlock, BurnEternalGenesis

--------------------------------------------------------------------------------
(* The invariant, and what follows from it                                           *)

LEMMA InitHolds ==
  ASSUME Init
  PROVE  IInv
<1>1. /\ distributor = Empty /\ MaxTokens \in Nat /\ Tokens = 1 .. MaxTokens
      /\ RAY \in Nat \ {0} /\ allocations = [a \in Assets |-> 0]
  BY GenesisAssumption DEF Init
<1>2. /\ distributor.trackedRewardWeightOf = [t \in Tokens |-> 0]
      /\ distributor.trackedGenesisRewardWeight = 0
      /\ distributor.accPerRewardWeightRay = [a \in Assets |-> 0]
      /\ distributor.rewardDebtRayOf = [a \in Assets |-> [t \in Tokens |-> 0]]
      /\ distributor.accruedOf = [a \in Assets |-> [t \in Tokens |-> 0]]
      /\ distributor.pendingUndistributed = [a \in Assets |-> 0]
      /\ distributor.totalReceived = [a \in Assets |-> 0]
      /\ distributor.totalAllocated = [a \in Assets |-> 0]
      /\ distributor.totalClaimed = [a \in Assets |-> 0]
      /\ distributor.closedOwnerOf = [t \in Tokens |-> NoOne]
      /\ distributor \in DistributorType
  BY <1>1 DEF Empty, DistributorType, PerAsset, PerToken
<1>3. SumTokens([t \in Tokens |-> 0]) = 0
  <2>1. \A t \in 1 .. MaxTokens : [u \in Tokens |-> 0][t] = 0
    BY <1>1
  <2> QED BY <1>1, <2>1, SumOfZeros DEF SumTokens
<1>4. DistributorOK(distributor)
  BY <1>2, <1>3 DEF DistributorOK
<1>5. Backed(distributor, allocations)
  <2> SUFFICES ASSUME NEW a \in Assets
               PROVE  RAY * distributor.totalClaimed[a] + EarnedAll(distributor, a)
                          <= RAY * distributor.totalAllocated[a] + (RAY - 1) * allocations[a]
    BY DEF Backed
  <2>1. ASSUME NEW t \in Tokens PROVE Earned(distributor, a, t) = 0
    <3>1. distributor.accruedOf[a][t] = 0 /\ distributor.trackedRewardWeightOf[t] = 0
      BY <1>2
    <3> QED BY <1>4, <3>1, EarnedWhenSynced, ZeroShare
  <2>2. [t \in Tokens |-> Earned(distributor, a, t)] = [t \in Tokens |-> 0]
    BY <2>1
  <2>3. EarnedAll(distributor, a) = 0
    BY <1>3, <2>2 DEF EarnedAll
  <2>4. /\ distributor.totalClaimed[a] = 0 /\ distributor.totalAllocated[a] = 0
        /\ allocations[a] = 0 /\ RAY - 1 \in Nat
    BY <1>1, <1>2
  <2>5. RAY * 0 = 0 /\ (RAY - 1) * 0 = 0
    BY <2>4, ZeroShare
  <2> QED BY <2>3, <2>4, <2>5
<1>6. NftOK
  <2>1. NoMetadata \in Metadata /\ NoMetadata.rewardWeight = 0 /\ ~ NoMetadata.isGenesis
    BY DEF NoMetadata, Metadata
  <2>2. \A t \in Tokens : genesisMetadataOf[t] = NoMetadata
    BY DEF Init
  <2>3. [t \in Tokens |-> genesisMetadataOf[t].rewardWeight] = [t \in Tokens |-> 0]
    BY <2>1, <2>2
  <2> QED BY <1>1, <1>3, <2>1, <2>2, <2>3 DEF Init, NftOK, PerAsset
<1>7. TokensOK
  BY <1>2 DEF Init, TokensOK, Unrewarded, CurrentRewardWeight, NoMetadata
<1> QED BY <1>4, <1>5, <1>6, <1>7 DEF IInv

\* The inductive invariant holds in every state.
THEOREM GenesisInvariant == Spec => []IInv
<1>1. Init => IInv
  BY InitHolds
<1>2. IInv /\ [Next]_vars => IInv'
  <2> SUFFICES ASSUME IInv, [Next]_vars PROVE IInv'
    OBVIOUS
  <2>1. DistributorOK(distributor)' /\ Backed(distributor, allocations)'
    BY DistributorStep
  <2>2. NftOK' /\ TokensOK'
    BY NftStep, TokensStep
  <2> QED BY <2>1, <2>2 DEF IInv
<1> QED BY <1>1, <1>2, PTL DEF Spec

\* NFT and distributor agree on every weight and on their sum, for any number of tokens
\* minted, sold, re-synced and closed, unless a close notification failed.
THEOREM WeightsStayInStep == Spec => []WeightsAgree
<1>1. IInv => WeightsAgree
  BY DEF IInv, DistributorOK, NftOK, TokensOK, WeightsAgree
<1> QED BY <1>1, GenesisInvariant, PTL

\* At any scale of the index, what was paid or can be claimed exceeds what was allocated
\* by less than one unit for each notify call, and claims never exceed the funds.
THEOREM GenesisRewardsAreBacked == Spec => []RewardsBacked
<1>1. IInv => RewardsBacked
  <2> SUFFICES ASSUME IInv, NEW a \in Assets
               PROVE  /\ distributor.totalReceived[a] = distributor.totalAllocated[a]
                                                      + distributor.pendingUndistributed[a]
                      /\ Credited(a) <= distributor.totalAllocated[a] + allocations[a]
                      /\ Funds(distributor, a) >= 0
    BY DEF RewardsBacked
  <2>1. PICK q, c, l, k : /\ q = SumTokens([t \in Tokens |-> Claimable(distributor, a, t)])
                          /\ c = distributor.totalClaimed[a]
                          /\ l = distributor.totalAllocated[a] /\ k = allocations[a]
    OBVIOUS
  <2>2. /\ DistributorOK(distributor) /\ Backed(distributor, allocations)
        /\ allocations \in PerAsset /\ RAY \in Nat \ {0}
    BY GenesisAssumption DEF IInv, NftOK
  <2>3. /\ distributor.totalReceived[a] = l + distributor.pendingUndistributed[a]
        /\ c <= distributor.totalReceived[a] /\ distributor.totalReceived[a] \in Nat
        /\ c \in Nat /\ l \in Nat /\ k \in Nat
    <3>1. distributor \in DistributorType
      BY <2>2 DEF DistributorOK
    <3> QED BY <2>1, <2>2, <3>1 DEF DistributorOK, DistributorType, PerAsset
  <2>4. q \in Nat /\ RAY * q <= EarnedAll(distributor, a) /\ EarnedAll(distributor, a) \in Nat
    BY <2>1, <2>2, EarnedSumBounds, TokenSums
  <2>5. RAY * c + EarnedAll(distributor, a) <= RAY * l + (RAY - 1) * k
    BY <2>1, <2>2 DEF Backed
  <2>6. c + q <= l + k
    <3>1. /\ RAY * (c + q) = RAY * c + RAY * q
          /\ RAY * ((l + k) + 1) = RAY * l + RAY * k + RAY
          /\ (RAY - 1) * k = RAY * k - k
      BY <2>2, <2>3, <2>4
    <3>2. RAY * c \in Nat /\ RAY * q \in Nat /\ RAY * l \in Nat /\ RAY * k \in Nat
      BY <2>2, <2>3, <2>4, MulIsNat
    <3>3. RAY * (c + q) < RAY * ((l + k) + 1)
      BY <2>2, <2>3, <2>4, <2>5, <3>1, <3>2
    <3> QED BY <2>2, <2>3, <2>4, <3>3, ScaledOrder
  <2> QED BY <2>1, <2>3, <2>6 DEF Credited, Funds
<1> QED BY <1>1, GenesisInvariant, PTL

\* After any sequence of sales and closes, whatever can be claimed has someone who may.
THEOREM GenesisRewardsHaveAnOwner == Spec => []RewardsHaveAnOwner
<1>1. IInv => RewardsHaveAnOwner
  <2> SUFFICES ASSUME IInv, NEW a \in Assets, NEW t \in Tokens,
                      Claimable(distributor, a, t) # 0, t \notin closeNotifyFailed
               PROVE  RewardOwner(t) # NoOne
    BY DEF RewardsHaveAnOwner
  <2>1. ~ Unrewarded(distributor, t)
    <3>1. DistributorOK(distributor)
      BY DEF IInv
    <3> QED BY <3>1, EarnedWhenSynced DEF Unrewarded
  <2>2. genesisMetadataOf[t].isGenesis \/ distributor.closedOwnerOf[t] # NoOne
    BY <2>1 DEF IInv, TokensOK
  <2>3. genesisMetadataOf[t].isGenesis => ownerOf[t] # NoOne
    BY DEF IInv, NftOK, Live
  <2> QED BY <2>2, <2>3 DEF RewardOwner
<1> QED BY <1>1, GenesisInvariant, PTL

\* Only a notify call credits, and no unit is ever credited twice.
THEOREM RewardsAreCreditedOnce == Spec => CreditedOnce
<1> DEFINE Once ==
      \A a \in Assets :
          LET grown == Credited(a)' - Credited(a)
              given == distributor'.totalAllocated[a] - distributor.totalAllocated[a]
          IN  IF allocations' = allocations
              THEN /\ grown = 0
                   /\ \A t \in Tokens :
                         Claimable(distributor', a, t) <= Claimable(distributor, a, t)
              ELSE given - MaxTokens <= grown /\ grown <= given + MaxTokens
<1>1. IInv /\ [Next]_vars => [Once]_vars
  <2> SUFFICES ASSUME IInv, [Next]_vars, NEW a \in Assets
               PROVE  LET grown == Credited(a)' - Credited(a)
                          given == distributor'.totalAllocated[a] - distributor.totalAllocated[a]
                      IN  IF allocations' = allocations
                          THEN /\ grown = 0
                               /\ \A t \in Tokens :
                                     Claimable(distributor', a, t) <= Claimable(distributor, a, t)
                          ELSE given - MaxTokens <= grown /\ grown <= given + MaxTokens
    OBVIOUS
  <2>1. /\ Credited(a) = CreditedBy(distributor, a)
        /\ Credited(a)' = CreditedBy(distributor', a)
    BY DEF Credited, CreditedBy
  <2>2. CreditedBy(distributor, a) \in Nat
    <3>1. DistributorOK(distributor)
      BY DEF IInv
    <3>2. distributor.totalClaimed[a] \in Nat
      BY <3>1 DEF DistributorOK, DistributorType, PerAsset
    <3>3. PICK q : q = SumTokens([t \in Tokens |-> Claimable(distributor, a, t)])
      OBVIOUS
    <3>4. q \in Nat
      BY <3>1, <3>3, TokenSums
    <3>5. CreditedBy(distributor, a) = distributor.totalClaimed[a] + q
      BY <3>3 DEF CreditedBy
    <3> QED BY <3>2, <3>4, <3>5
  <2>3. CASE allocations' = allocations
    <3>1. SameCredit(distributor, distributor')
      BY <2>3, DistributorStep
    <3>2. /\ CreditedBy(distributor', a) = CreditedBy(distributor, a)
          /\ \A t \in Tokens : Claimable(distributor', a, t) <= Claimable(distributor, a, t)
      BY <3>1 DEF SameCredit
    <3> QED BY <2>1, <2>2, <2>3, <3>2
  <2>4. CASE allocations' # allocations
    <3>1. \A b \in Assets :
             LET grown == CreditedBy(distributor', b) - CreditedBy(distributor, b)
                 given == distributor'.totalAllocated[b] - distributor.totalAllocated[b]
             IN  given - MaxTokens <= grown /\ grown <= given + MaxTokens
      BY <2>4, DistributorStep
    <3> QED BY <2>1, <2>4, <3>1
  <2> QED BY <2>3, <2>4
<1>2. Spec => [][Once]_vars
  BY <1>1, GenesisInvariant, PTL DEF Spec
<1> QED BY <1>2 DEF CreditedOnce

--------------------------------------------------------------------------------
(* Fractions: a wrapped position, as one record                                     *)

PerReward == [RewardAssets -> Nat]
Holdings == [Holders -> Nat]

FractionalType ==
    [expectedTokenId : Nfts, expectedBinder : Holders, bound : BOOLEAN, fractionCount : Nat,
     balanceOf : Holdings, indexRay : PerReward,
     debtRayOf : [RewardAssets -> Holdings], accruedOf : [RewardAssets -> Holdings], held : [RewardAssets -> Int],
     unlocked : BOOLEAN, principalReturned : Nat, principalPaid : Nat,
     principalFractionsClaimed : Nat, principalClaimed : SUBSET Holders]

\* What a user has coming of an asset, times RAY, before any rounding.
Due(f, a, u) == RAY * f.accruedOf[a][u] + f.balanceOf[u] * f.indexRay[a] - f.debtRayOf[a][u]
DueToAll(f, a) == SumOf(Holders, [u \in Holders |-> Due(f, a, u)])

\* The part of the NARA that is principal, and nobody's reward.
Outstanding(f, a) == IF a = "nara" THEN f.principalReturned - f.principalPaid ELSE 0

\* A debt is never ahead of its index, so that _pending never drops what is due.
DebtsReached(f) ==
    \A a \in RewardAssets, u \in Holders : f.debtRayOf[a][u] <= f.balanceOf[u] * f.indexRay[a]

Covered(f) ==
    \A a \in RewardAssets : DueToAll(f, a) + RAY * Outstanding(f, a) <= RAY * f.held[a]

Counted(f) == SumOf(Holders, f.balanceOf) + f.principalFractionsClaimed = f.fractionCount

NoPrincipalYet(f) ==
    f.principalReturned = 0 /\ f.principalPaid = 0 /\ f.principalFractionsClaimed = 0

\* Everything that a bound contract keeps to, apart from the order of its claims.
SoundFractions(f) ==
    /\ f \in FractionalType /\ f.fractionCount > 0
    /\ DebtsReached(f) /\ Covered(f)
    /\ f.principalPaid <= f.principalReturned
    /\ ~ f.unlocked => NoPrincipalYet(f)

\* The fields that neither a harvest nor a change of balances touches.
SameWrapper(f, g) ==
    /\ g.expectedTokenId = f.expectedTokenId /\ g.expectedBinder = f.expectedBinder
    /\ g.bound = f.bound /\ g.fractionCount = f.fractionCount /\ g.unlocked = f.unlocked
    /\ g.principalReturned = f.principalReturned /\ g.principalPaid = f.principalPaid
    /\ g.principalFractionsClaimed = f.principalFractionsClaimed
    /\ g.principalClaimed = f.principalClaimed

LEMMA FractionConstants ==
  /\ RAY \in Nat \ {0} /\ IsFiniteSet(Holders) /\ RewardAssets = Wrapped!RewardAssets
BY GenesisAssumption, FractionalAssumption DEF RewardAssets, Wrapped!RewardAssets

\* What is due rounds down to what can be claimed.
LEMMA ClaimableIsDue ==
  ASSUME NEW f \in FractionalType, NEW a \in RewardAssets, NEW u \in Holders,
         f.debtRayOf[a][u] <= f.balanceOf[u] * f.indexRay[a]
  PROVE  /\ Wrapped!Claimable(f, a, u) \in Nat /\ Due(f, a, u) \in Nat
         /\ RAY * Wrapped!Claimable(f, a, u) <= Due(f, a, u)
         /\ RAY * f.accruedOf[a][u] <= Due(f, a, u)
<1> DEFINE current == f.balanceOf[u] * f.indexRay[a]
           debt == f.debtRayOf[a][u]
           accrued == f.accruedOf[a][u]
           gain == IF current > debt THEN (current - debt) \div RAY ELSE 0
<1>1. RAY \in Nat \ {0}
  BY FractionConstants
<1>2. accrued \in Nat /\ debt \in Nat /\ f.balanceOf[u] \in Nat /\ f.indexRay[a] \in Nat
  BY DEF FractionalType, Holdings, PerReward
<1>3. current \in Nat /\ debt <= current
  BY <1>2
<1>4. Wrapped!Claimable(f, a, u) = accrued + gain
  BY DEF Wrapped!Claimable
<1>5. Due(f, a, u) = RAY * accrued + current - debt
  BY DEF Due
<1> HIDE DEF current, debt, accrued
<1>6. gain \in Nat /\ RAY * gain <= current - debt
  <2> DEFINE d == current - debt
             q == d \div RAY
  <2>1. d \in Nat
    BY <1>2, <1>3
  <2> HIDE DEF d
  <2>2. q \in Nat /\ RAY * q <= d
    BY <1>1, <2>1
  <2>3. RAY * 0 = 0
    BY <1>1
  <2>4. gain = IF current > debt THEN q ELSE 0
    BY DEF d
  <2> HIDE DEF q, gain
  <2> QED BY <2>1, <2>2, <2>3, <2>4 DEF d
<1> HIDE DEF gain
<1>7. RAY * accrued \in Nat /\ RAY * gain \in Nat /\ RAY * (accrued + gain) = RAY * accrued + RAY * gain
  BY <1>1, <1>2, <1>6
<1> DEFINE x == RAY * accrued
           y == RAY * gain
           z == RAY * (accrued + gain)
<1>8. x \in Nat /\ y \in Nat /\ z = x + y /\ y <= current - debt
  BY <1>6, <1>7
<1>9. Due(f, a, u) = x + current - debt
  BY <1>5
<1>10. RAY * Wrapped!Claimable(f, a, u) = z
  BY <1>4
<1>11. RAY * f.accruedOf[a][u] = x
  BY DEF accrued
<1> HIDE DEF x, y, z
<1>12. accrued + gain \in Nat
  BY <1>2, <1>6
<1> QED BY <1>2, <1>3, <1>4, <1>8, <1>9, <1>10, <1>11, <1>12

\* A contract that keeps to all that can pay what everybody may claim.
LEMMA CoveredIsBacked ==
  ASSUME NEW f, SoundFractions(f), Counted(f), NEW a \in RewardAssets
  PROVE  /\ SumOf(Holders, [u \in Holders |-> Wrapped!Claimable(f, a, u)])
              + Outstanding(f, a) <= f.held[a]
<1> DEFINE c == [u \in Holders |-> Wrapped!Claimable(f, a, u)]
           d == [u \in Holders |-> Due(f, a, u)]
           s == [u \in Holders |-> RAY * c[u]]
<1>1. RAY \in Nat \ {0} /\ IsFiniteSet(Holders) /\ f \in FractionalType
  BY FractionConstants DEF SoundFractions
<1>2. \A u \in Holders : c[u] \in Nat /\ d[u] \in Nat /\ RAY * c[u] <= d[u]
  BY <1>1, ClaimableIsDue DEF SoundFractions, DebtsReached
<1>3. DueToAll(f, a) = SumOf(Holders, d)
  BY DEF DueToAll
<1>4. \A u \in Holders : s[u] = RAY * c[u]
  OBVIOUS
<1> HIDE DEF c, d, s
<1>5. \A u \in Holders : c[u] \in Int
  BY <1>2
<1>6. SumOf(Holders, s) = RAY * SumOf(Holders, c) /\ SumOf(Holders, c) \in Int
  <2>1. SumOf(Holders, c) \in Int
    BY <1>1, <1>5, SetSumIsInt
  <2>2. RAY \in Int
    BY <1>1
  <2> QED BY <1>1, <1>4, <1>5, <2>1, <2>2, SetSumOfScaled
<1>7. \A u \in Holders : s[u] \in Int /\ d[u] \in Int /\ s[u] <= d[u]
  <2> TAKE u \in Holders
  <2>1. RAY * c[u] \in Int
    BY <1>1, <1>2
  <2> QED BY <1>2, <1>4, <2>1
<1>8. SumOf(Holders, s) <= SumOf(Holders, d) /\ SumOf(Holders, d) \in Int
  BY <1>1, <1>7, SetSumIsMonotone, SetSumIsInt
<1>9. SumOf(Holders, d) + RAY * Outstanding(f, a) <= RAY * f.held[a]
  BY <1>3 DEF SoundFractions, Covered
<1>10. Outstanding(f, a) \in Int /\ f.held[a] \in Int
  BY <1>1 DEF Outstanding, FractionalType
<1> DEFINE C == SumOf(Holders, c)
           O == Outstanding(f, a)
           H == f.held[a]
           D == SumOf(Holders, d)
<1>11. C \in Int /\ O \in Int /\ H \in Int /\ D \in Int /\ RAY * C <= D /\ D + RAY * O <= RAY * H
  BY <1>6, <1>8, <1>9, <1>10
<1>12. C + O <= H
  <2> HIDE DEF C, O, H, D
  <2>1. RAY * C + RAY * O = RAY * (C + O) /\ RAY * C \in Int /\ RAY * O \in Int /\ RAY * H \in Int
    BY <1>1, <1>11
  <2>2. RAY * (C + O) <= RAY * H
    BY <1>11, <2>1
  <2>3. ~ (C + O >= H + 1)
    <3> SUFFICES ASSUME C + O >= H + 1 PROVE FALSE
      OBVIOUS
    <3> DEFINE k == C + O - H
    <3>1. k \in Nat \ {0} /\ C + O = H + k
      BY <1>11
    <3> HIDE DEF k
    <3>2. RAY * (H + k) = RAY * H + RAY * k /\ RAY * k > 0 /\ RAY * k \in Int
      BY <1>1, <1>11, <3>1
    <3> QED BY <2>1, <2>2, <3>1, <3>2
  <2> QED BY <1>11, <2>3
<1> QED BY <1>12 DEF c
\* The fields of a contract, each of the type it has.
LEMMA FractionalFields ==
  ASSUME NEW f \in FractionalType
  PROVE  /\ f.expectedTokenId \in Nfts /\ f.expectedBinder \in Holders /\ f.bound \in BOOLEAN
         /\ f.fractionCount \in Nat /\ f.unlocked \in BOOLEAN
         /\ f.principalReturned \in Nat /\ f.principalPaid \in Nat
         /\ f.principalFractionsClaimed \in Nat /\ f.principalClaimed \subseteq Holders
         /\ \A u \in Holders : f.balanceOf[u] \in Nat
         /\ \A a \in RewardAssets : f.indexRay[a] \in Nat /\ f.held[a] \in Int
         /\ \A a \in RewardAssets, u \in Holders :
               f.debtRayOf[a][u] \in Nat /\ f.accruedOf[a][u] \in Nat /\ Due(f, a, u) \in Int
         /\ \A a \in RewardAssets : Outstanding(f, a) \in Int
<1>1. RAY \in Nat
  BY FractionConstants
<1>2. /\ f.expectedTokenId \in Nfts /\ f.expectedBinder \in Holders /\ f.bound \in BOOLEAN
      /\ f.fractionCount \in Nat /\ f.unlocked \in BOOLEAN
      /\ f.principalReturned \in Nat /\ f.principalPaid \in Nat
      /\ f.principalFractionsClaimed \in Nat /\ f.principalClaimed \subseteq Holders
  BY DEF FractionalType
<1>3. /\ \A u \in Holders : f.balanceOf[u] \in Nat
      /\ \A a \in RewardAssets : f.indexRay[a] \in Nat /\ f.held[a] \in Int
      /\ \A a \in RewardAssets, u \in Holders :
            f.debtRayOf[a][u] \in Nat /\ f.accruedOf[a][u] \in Nat
  BY DEF FractionalType, PerReward, Holdings
<1>4. ASSUME NEW a \in RewardAssets, NEW u \in Holders PROVE Due(f, a, u) \in Int
  <2> DEFINE x == RAY * f.accruedOf[a][u]
             y == f.balanceOf[u] * f.indexRay[a]
  <2>1. x \in Int /\ y \in Int
    BY <1>1, <1>3
  <2>2. Due(f, a, u) = x + y - f.debtRayOf[a][u]
    BY DEF Due
  <2> HIDE DEF x, y
  <2> QED BY <1>3, <2>1, <2>2
<1> QED BY <1>2, <1>3, <1>4 DEF Outstanding

\* Fractions in users' hands never outnumber those ever minted.
LEMMA HeldAreMinted ==
  ASSUME NEW f \in FractionalType, Counted(f)
  PROVE  SumOf(Holders, f.balanceOf) \in Nat /\ SumOf(Holders, f.balanceOf) <= f.fractionCount
<1>1. \A u \in Holders : f.balanceOf[u] \in Nat
  BY FractionalFields
<1>2. SumOf(Holders, f.balanceOf) \in Nat
  BY <1>1, FractionConstants, SetSumIsNat
<1> QED BY <1>2, FractionalFields DEF Counted

\* Indexing what came in over all fractions never promises more than came in.
LEMMA IndexedIsSound ==
  ASSUME NEW f, SoundFractions(f), Counted(f), NEW g \in PerReward
  PROVE  LET h == Wrapped!Indexed(f, g)
         IN  /\ SoundFractions(h) /\ Counted(h) /\ SameWrapper(f, h)
             /\ h.balanceOf = f.balanceOf
<1> DEFINE h == Wrapped!Indexed(f, g)
           d == [a \in RewardAssets |-> (g[a] * RAY) \div f.fractionCount]
           held == [a \in RewardAssets |-> f.held[a] + g[a]]
           index == [a \in RewardAssets |-> f.indexRay[a] + d[a]]
<1>1. /\ RAY \in Nat \ {0} /\ IsFiniteSet(Holders) /\ f \in FractionalType
      /\ f.fractionCount \in Nat \ {0} /\ Wrapped!RewardAssets = RewardAssets
  BY FractionConstants, FractionalFields DEF SoundFractions
<1>2. \A a \in RewardAssets : g[a] \in Nat
  BY DEF PerReward
<1>3. ASSUME NEW a \in RewardAssets
      PROVE  d[a] \in Nat /\ d[a] * f.fractionCount <= RAY * g[a]
  <2> DEFINE x == g[a] * RAY
             n == f.fractionCount
  <2>1. x \in Nat /\ n \in Nat \ {0} /\ x = RAY * g[a]
    BY <1>1, <1>2
  <2>2. d[a] = x \div n
    OBVIOUS
  <2> HIDE DEF x, n, d
  <2>3. (x \div n) \in Nat /\ (x \div n) * n <= x
    BY <2>1
  <2> QED BY <2>1, <2>2, <2>3 DEF n
<1>4. held \in [RewardAssets -> Int] /\ index \in PerReward
  BY <1>1, <1>2, <1>3, FractionalFields DEF PerReward
<1>5. h = [f EXCEPT !.held = held, !.indexRay = index]
  BY <1>1 DEF Wrapped!Indexed
<1> HIDE DEF h, d
<1>6. h \in FractionalType
  <2> HIDE DEF held, index
  <2> QED BY <1>1, <1>4, <1>5 DEF FractionalType
<1>7. /\ h.held = held /\ h.indexRay = index /\ SameWrapper(f, h)
      /\ h.balanceOf = f.balanceOf /\ h.debtRayOf = f.debtRayOf /\ h.accruedOf = f.accruedOf
  <2> HIDE DEF held, index
  <2> QED BY <1>1, <1>5 DEF FractionalType, SameWrapper
<1>8. ASSUME NEW a \in RewardAssets, NEW u \in Holders
      PROVE  /\ Due(h, a, u) = Due(f, a, u) + d[a] * f.balanceOf[u]
             /\ h.debtRayOf[a][u] <= h.balanceOf[u] * h.indexRay[a]
  <2> DEFINE b == f.balanceOf[u]
             x == RAY * f.accruedOf[a][u]
             i == b * f.indexRay[a]
             e == d[a] * b
             j == b * (f.indexRay[a] + d[a])
  <2>1. /\ b \in Nat /\ f.indexRay[a] \in Nat /\ d[a] \in Nat
        /\ f.debtRayOf[a][u] \in Nat /\ f.accruedOf[a][u] \in Nat
    BY <1>1, <1>3, FractionalFields
  <2>2. x \in Nat /\ i \in Nat /\ e \in Nat /\ j = i + e
    BY <1>1, <2>1
  <2>3. /\ Due(h, a, u) = x + j - f.debtRayOf[a][u] /\ Due(f, a, u) = x + i - f.debtRayOf[a][u]
        /\ h.balanceOf[u] * h.indexRay[a] = j
    BY <1>7 DEF Due
  <2>4. f.debtRayOf[a][u] <= i
    BY DEF SoundFractions, DebtsReached
  <2>5. h.debtRayOf[a][u] = f.debtRayOf[a][u]
    BY <1>7
  <2> HIDE DEF x, i, j
  <2>6. e = d[a] * f.balanceOf[u]
    OBVIOUS
  <2> HIDE DEF e
  <2> QED BY <2>1, <2>2, <2>3, <2>4, <2>5, <2>6
<1>9. ASSUME NEW a \in RewardAssets
      PROVE  DueToAll(h, a) + RAY * Outstanding(h, a) <= RAY * h.held[a]
  <2> DEFINE p == [u \in Holders |-> Due(f, a, u)]
             q == [u \in Holders |-> d[a] * f.balanceOf[u]]
             r == [u \in Holders |-> Due(h, a, u)]
             B == SumOf(Holders, f.balanceOf)
  <2>1. \A u \in Holders : f.balanceOf[u] \in Int /\ q[u] = d[a] * f.balanceOf[u] /\ q[u] \in Int
    BY <1>1, <1>3, FractionalFields
  <2>2. \A u \in Holders : p[u] \in Int /\ q[u] \in Int /\ r[u] = p[u] + q[u]
    BY <1>1, <1>8, <2>1, FractionalFields
  <2>3. DueToAll(f, a) = SumOf(Holders, p) /\ DueToAll(h, a) = SumOf(Holders, r)
    BY DEF DueToAll
  <2>4. d[a] \in Int
    BY <1>3
  <2> HIDE DEF p, q, r
  <2>5. \A u \in Holders : r[u] \in Int
    BY <2>2
  <2>6. /\ SumOf(Holders, r) = SumOf(Holders, p) + SumOf(Holders, q)
        /\ SumOf(Holders, p) \in Int
    BY <1>1, <2>2, <2>5, SetSumOfSum, SetSumIsInt
  <2>7. SumOf(Holders, q) = d[a] * B
    BY <1>1, <2>1, <2>4, SetSumOfScaled
  <2>8. B \in Nat /\ B <= f.fractionCount
    BY <1>1, HeldAreMinted
  <2>9. d[a] * B \in Int /\ d[a] * B <= RAY * g[a]
    <3> HIDE DEF B
    <3> DEFINE k == f.fractionCount - B
    <3>1. k \in Nat /\ f.fractionCount = B + k
      BY <1>1, <2>8
    <3> HIDE DEF k
    <3>2. d[a] * (B + k) = d[a] * B + d[a] * k /\ d[a] * B \in Nat /\ d[a] * k \in Nat
      BY <1>3, <2>8, <3>1
    <3> DEFINE y == d[a] * B
               z == d[a] * k
               w == RAY * g[a]
    <3>3. y + z <= w
      BY <1>3, <3>1, <3>2
    <3>4. y \in Nat /\ z \in Nat /\ w \in Nat
      BY <1>1, <1>2, <3>2
    <3> HIDE DEF y, z, w
    <3>5. y \in Int /\ y <= w
      BY <3>3, <3>4
    <3> QED BY <3>5 DEF y, w
  <2>10. Outstanding(h, a) = Outstanding(f, a) /\ Outstanding(f, a) \in Int
    BY <1>1, <1>7, FractionalFields DEF Outstanding, SameWrapper
  <2>11. SumOf(Holders, p) + RAY * Outstanding(f, a) <= RAY * f.held[a]
    BY <2>3 DEF SoundFractions, Covered
  <2>12. RAY * h.held[a] = RAY * f.held[a] + RAY * g[a]
    <3>1. h.held[a] = f.held[a] + g[a]
      BY <1>7
    <3>2. f.held[a] \in Int /\ g[a] \in Int
      BY <1>1, <1>2, FractionalFields
    <3> QED BY <1>1, <3>1, <3>2
  <2> DEFINE P == SumOf(Holders, p)
             Q == d[a] * B
             O == RAY * Outstanding(f, a)
             H == RAY * f.held[a]
             G == RAY * g[a]
  <2>13. P \in Int /\ Q \in Int /\ O \in Int /\ H \in Int /\ G \in Int
    BY <1>1, <1>2, <2>6, <2>9, <2>10, FractionalFields
  <2>14. P + O <= H /\ Q <= G
    BY <2>9, <2>11
  <2>15. DueToAll(h, a) = P + Q /\ RAY * Outstanding(h, a) = O /\ RAY * h.held[a] = H + G
    BY <2>3, <2>6, <2>7, <2>10, <2>12
  <2> HIDE DEF P, Q, O, H, G
  <2> QED BY <2>13, <2>14, <2>15
<1>10. SoundFractions(h)
  <2>1. DebtsReached(h)
    BY <1>8 DEF DebtsReached
  <2>2. Covered(h)
    BY <1>9 DEF Covered
  <2> QED BY <1>6, <1>7, <2>1, <2>2 DEF SoundFractions, SameWrapper, NoPrincipalYet
<1>11. Counted(h)
  BY <1>7 DEF Counted, SameWrapper
<1> QED BY <1>7, <1>10, <1>11 DEF h
\* When balances change, what is due of users whose balance changes is settled first, and
\* only rounding is lost.
LEMMA RebalancedIsSound ==
  ASSUME NEW f, SoundFractions(f), NEW users, NEW b \in Holdings,
         \A u \in Holders : u \notin users => b[u] = f.balanceOf[u]
  PROVE  LET h == Wrapped!Rebalanced(f, users, b)
         IN  /\ SoundFractions(h) /\ SameWrapper(f, h) /\ h.balanceOf = b /\ h.held = f.held
             /\ \A a \in RewardAssets : h.accruedOf[a] \in Holdings
             /\ \A a \in RewardAssets, u \in Holders : u \in users => h.debtRayOf[a][u] = b[u] * h.indexRay[a]
<1> DEFINE h == Wrapped!Rebalanced(f, users, b)
           accrued == [a \in RewardAssets |-> [u \in Holders |->
                         IF u \in users THEN Wrapped!Claimable(f, a, u) ELSE f.accruedOf[a][u]]]
           debt == [a \in RewardAssets |-> [u \in Holders |->
                         IF u \in users THEN b[u] * f.indexRay[a] ELSE f.debtRayOf[a][u]]]
<1>1. /\ RAY \in Nat \ {0} /\ IsFiniteSet(Holders) /\ f \in FractionalType
      /\ Wrapped!RewardAssets = RewardAssets
  BY FractionConstants DEF SoundFractions
<1>2. \A u \in Holders : b[u] \in Nat
  BY DEF Holdings
<1>3. ASSUME NEW a \in RewardAssets, NEW u \in Holders
      PROVE  /\ Wrapped!Claimable(f, a, u) \in Nat /\ b[u] * f.indexRay[a] \in Nat
             /\ RAY * Wrapped!Claimable(f, a, u) <= Due(f, a, u)
             /\ f.debtRayOf[a][u] \in Nat /\ f.accruedOf[a][u] \in Nat
             /\ f.debtRayOf[a][u] <= f.balanceOf[u] * f.indexRay[a]
  <2>1. f.debtRayOf[a][u] <= f.balanceOf[u] * f.indexRay[a]
    BY DEF SoundFractions, DebtsReached
  <2>2. b[u] * f.indexRay[a] \in Nat
    BY <1>1, <1>2, FractionalFields
  <2> QED BY <1>1, <2>1, <2>2, ClaimableIsDue, FractionalFields
<1>4. accrued \in [RewardAssets -> Holdings] /\ debt \in [RewardAssets -> Holdings]
  BY <1>3 DEF Holdings
<1>5. h = [f EXCEPT !.accruedOf = accrued, !.debtRayOf = debt, !.balanceOf = b]
  BY <1>1 DEF Wrapped!Rebalanced
<1> HIDE DEF h
<1>6. h \in FractionalType
  <2> HIDE DEF accrued, debt
  <2> QED BY <1>1, <1>4, <1>5 DEF FractionalType
<1>7. /\ h.accruedOf = accrued /\ h.debtRayOf = debt /\ h.balanceOf = b
      /\ h.held = f.held /\ h.indexRay = f.indexRay /\ SameWrapper(f, h)
  <2> HIDE DEF accrued, debt
  <2> QED BY <1>1, <1>5 DEF FractionalType, SameWrapper
<1>8. ASSUME NEW a \in RewardAssets, NEW u \in Holders
      PROVE  /\ Due(h, a, u) \in Int /\ Due(h, a, u) <= Due(f, a, u)
             /\ h.debtRayOf[a][u] <= h.balanceOf[u] * h.indexRay[a]
  <2>1. CASE u \in users
    <3> DEFINE x == RAY * Wrapped!Claimable(f, a, u)
               y == b[u] * f.indexRay[a]
    <3>1. Due(h, a, u) = x + y - y /\ h.debtRayOf[a][u] = y /\ h.balanceOf[u] * h.indexRay[a] = y
      BY <1>7, <2>1 DEF Due
    <3>2. x \in Int /\ y \in Int /\ x <= Due(f, a, u)
      BY <1>1, <1>3
    <3> HIDE DEF x, y
    <3> QED BY <3>1, <3>2
  <2>2. CASE u \notin users
    <3>1. b[u] = f.balanceOf[u]
      BY <2>2
    <3>2. /\ Due(h, a, u) = Due(f, a, u) /\ h.debtRayOf[a][u] = f.debtRayOf[a][u]
          /\ h.balanceOf[u] * h.indexRay[a] = f.balanceOf[u] * f.indexRay[a]
      BY <1>7, <2>2, <3>1 DEF Due
    <3>3. Due(f, a, u) \in Int
      BY <1>1, FractionalFields
    <3> QED BY <1>3, <3>2, <3>3
  <2> QED BY <2>1, <2>2
<1>9. Covered(h)
  <2> SUFFICES ASSUME NEW a \in RewardAssets
               PROVE  DueToAll(h, a) + RAY * Outstanding(h, a) <= RAY * h.held[a]
    BY DEF Covered
  <2> DEFINE p == [u \in Holders |-> Due(f, a, u)]
             r == [u \in Holders |-> Due(h, a, u)]
  <2>1. \A u \in Holders : r[u] \in Int /\ p[u] \in Int /\ r[u] <= p[u]
    BY <1>1, <1>8, FractionalFields
  <2>2. DueToAll(f, a) = SumOf(Holders, p) /\ DueToAll(h, a) = SumOf(Holders, r)
    BY DEF DueToAll
  <2> HIDE DEF p, r
  <2>3. SumOf(Holders, r) <= SumOf(Holders, p) /\ SumOf(Holders, r) \in Int /\ SumOf(Holders, p) \in Int
    BY <1>1, <2>1, SetSumIsMonotone, SetSumIsInt
  <2>4. Outstanding(h, a) = Outstanding(f, a) /\ h.held[a] = f.held[a]
    BY <1>7 DEF Outstanding, SameWrapper
  <2>5. DueToAll(f, a) + RAY * Outstanding(f, a) <= RAY * f.held[a]
    BY DEF SoundFractions, Covered
  <2>6. RAY * Outstanding(f, a) \in Int /\ RAY * f.held[a] \in Int
    BY <1>1, FractionalFields
  <2> QED BY <2>2, <2>3, <2>4, <2>5, <2>6
<1>10. SoundFractions(h)
  <2>1. DebtsReached(h)
    BY <1>8 DEF DebtsReached
  <2> QED BY <1>6, <1>7, <1>9, <2>1 DEF SoundFractions, SameWrapper, NoPrincipalYet
<1>11. \A a \in RewardAssets : h.accruedOf[a] \in Holdings
  BY <1>4, <1>7
<1>12. \A a \in RewardAssets, u \in Holders : u \in users => h.debtRayOf[a][u] = b[u] * h.indexRay[a]
  BY <1>7
<1> QED BY <1>7, <1>10, <1>11, <1>12 DEF h

\* What Claim does once the user's rewards have accrued.
PaidOut(f, h, u, assets) ==
    h = [f EXCEPT !.held = [a \in Wrapped!RewardAssets |->
                       @[a] - (IF a \in assets THEN f.accruedOf[a][u] ELSE 0)],
                  !.accruedOf = [a \in Wrapped!RewardAssets |->
                       IF a \in assets THEN [f.accruedOf[a] EXCEPT ![u] = 0] ELSE @[a]]]

\* What is paid out leaves the balance and what the user has accrued together.
LEMMA ClaimedIsSound ==
  ASSUME NEW f, SoundFractions(f), NEW u \in Holders, NEW assets, NEW h, PaidOut(f, h, u, assets)
  PROVE  SoundFractions(h) /\ SameWrapper(f, h) /\ h.balanceOf = f.balanceOf
<1> DEFINE held == [a \in Wrapped!RewardAssets |->
                       f.held[a] - (IF a \in assets THEN f.accruedOf[a][u] ELSE 0)]
           accrued == [a \in Wrapped!RewardAssets |->
                       IF a \in assets THEN [f.accruedOf[a] EXCEPT ![u] = 0] ELSE f.accruedOf[a]]
<1>1. /\ RAY \in Nat \ {0} /\ IsFiniteSet(Holders) /\ f \in FractionalType
      /\ Wrapped!RewardAssets = RewardAssets
  BY FractionConstants DEF SoundFractions
<1>2. \A a \in RewardAssets : f.held[a] \in Int /\ f.accruedOf[a] \in Holdings
  BY <1>1, FractionalFields DEF FractionalType
<1>3. held \in [RewardAssets -> Int] /\ accrued \in [RewardAssets -> Holdings]
  BY <1>1, <1>2 DEF Holdings
<1>h. h = [f EXCEPT !.held = held, !.accruedOf = accrued]
  BY DEF PaidOut
<1>4. h \in FractionalType
  <2> HIDE DEF accrued, held
  <2> QED BY <1>1, <1>3, <1>h DEF FractionalType
<1>5. /\ h.accruedOf = accrued /\ h.held = held /\ h.balanceOf = f.balanceOf
      /\ h.debtRayOf = f.debtRayOf /\ h.indexRay = f.indexRay /\ SameWrapper(f, h)
  <2> HIDE DEF accrued, held
  <2> QED BY <1>1, <1>h DEF FractionalType, SameWrapper
<1>6. Covered(h)
  <2> SUFFICES ASSUME NEW a \in RewardAssets
               PROVE  DueToAll(h, a) + RAY * Outstanding(h, a) <= RAY * h.held[a]
    BY DEF Covered
  <2> DEFINE p == [x \in Holders |-> Due(f, a, x)]
             r == [x \in Holders |-> Due(h, a, x)]
             n == IF a \in assets THEN f.accruedOf[a][u] ELSE 0
  <2>1. \A x \in Holders : f.accruedOf[a][x] \in Nat
    BY <1>2 DEF Holdings
  <2>2. ASSUME NEW x \in Holders
        PROVE  /\ h.accruedOf[a][x] = IF x = u THEN f.accruedOf[a][u] - n ELSE f.accruedOf[a][x]
    <3>1. CASE a \in assets
      <4>1. h.accruedOf[a] = [f.accruedOf[a] EXCEPT ![u] = 0]
        BY <1>1, <1>5, <3>1
      <4>2. n = f.accruedOf[a][u] /\ f.accruedOf[a][u] - n = 0
        BY <2>1, <3>1
      <4>3. f.accruedOf[a] \in [Holders -> Nat]
        BY <1>2 DEF Holdings
      <4> HIDE DEF n
      <4> QED BY <4>1, <4>2, <4>3
    <3>2. CASE a \notin assets
      <4>1. h.accruedOf[a] = f.accruedOf[a] /\ n = 0
        BY <1>1, <1>5, <3>2
      <4> HIDE DEF n
      <4> QED BY <2>1, <4>1
    <3> QED BY <3>1, <3>2
  <2>3. n \in Nat /\ h.held[a] = f.held[a] - n
    BY <1>1, <1>5, <2>1
  <2> HIDE DEF n
  <2>4. \A x \in Holders : r[x] \in Int /\ p[x] \in Int
    BY <1>1, <1>4, FractionalFields
  <2>5. \A x \in Holders : x # u => r[x] = p[x]
    <3> TAKE x \in Holders
    <3> HAVE x # u
    <3>1. h.accruedOf[a][x] = f.accruedOf[a][x]
      BY <2>2
    <3> QED BY <1>5, <3>1 DEF Due
  <2>6. r[u] = p[u] - RAY * n
    <3> DEFINE x == RAY * f.accruedOf[a][u]
               y == f.balanceOf[u] * f.indexRay[a]
               z == RAY * (f.accruedOf[a][u] - n)
               w == RAY * n
    <3>1. h.accruedOf[a][u] = f.accruedOf[a][u] - n
      BY <2>2
    <3>2. r[u] = z + y - f.debtRayOf[a][u] /\ p[u] = x + y - f.debtRayOf[a][u]
      BY <1>5, <3>1 DEF Due
    <3>3. z = x - w /\ x \in Int /\ y \in Int /\ w \in Int /\ z \in Int /\ f.debtRayOf[a][u] \in Int
      BY <1>1, <2>1, <2>3, FractionalFields
    <3>4. w = RAY * n
      OBVIOUS
    <3> HIDE DEF x, y, z, w, p, r
    <3> QED BY <3>2, <3>3, <3>4
  <2>7. DueToAll(f, a) = SumOf(Holders, p) /\ DueToAll(h, a) = SumOf(Holders, r)
    BY DEF DueToAll
  <2> HIDE DEF p, r
  <2>8. SumOf(Holders, r) = SumOf(Holders, p) + r[u] - p[u] /\ SumOf(Holders, p) \in Int
    <3>1. \A x \in Holders : p[x] \in Int
      BY <2>4
    <3>2. \A x \in Holders : r[x] \in Int
      BY <2>4
    <3>3. IsFiniteSet(Holders) /\ u \in Holders
      BY <1>1
    <3>4. SumOf(Holders, r) = SumOf(Holders, p) + r[u] - p[u]
      BY <2>5, <3>1, <3>2, <3>3, SetSumOfUpdate, Z3T(60)
    <3> QED BY <3>1, <3>3, <3>4, SetSumIsInt
  <2>9. Outstanding(h, a) = Outstanding(f, a)
    BY <1>5 DEF Outstanding, SameWrapper
  <2>10. DueToAll(f, a) + RAY * Outstanding(f, a) <= RAY * f.held[a]
    BY DEF SoundFractions, Covered
  <2>11. /\ RAY * Outstanding(f, a) \in Int /\ RAY * f.held[a] \in Int /\ RAY * n \in Int
         /\ RAY * h.held[a] = RAY * f.held[a] - RAY * n
    <3>1. f.held[a] \in Int /\ Outstanding(f, a) \in Int
      BY <1>1, FractionalFields
    <3> QED BY <1>1, <2>3, <3>1
  <2> DEFINE P == SumOf(Holders, p)
             N == RAY * n
             O == RAY * Outstanding(f, a)
             H == RAY * f.held[a]
  <2>12. /\ DueToAll(h, a) = P + r[u] - p[u] /\ r[u] = p[u] - N /\ P + O <= H
         /\ RAY * Outstanding(h, a) = O /\ RAY * h.held[a] = H - N
         /\ P \in Int /\ N \in Int /\ O \in Int /\ H \in Int /\ p[u] \in Int /\ r[u] \in Int
    BY <2>4, <2>6, <2>7, <2>8, <2>9, <2>10, <2>11
  <2> HIDE DEF P, N, O, H
  <2> QED BY <2>12
<1>7. DebtsReached(h)
  BY <1>5 DEF DebtsReached, SoundFractions
<1> QED BY <1>4, <1>5, <1>6, <1>7 DEF SoundFractions, SameWrapper, NoPrincipalYet
\* A user who moves fractions to another neither makes nor loses any.
LEMMA MovedAreCounted ==
  ASSUME NEW b \in Holdings, NEW u \in Holders, NEW v \in Holders, u # v, NEW n \in 0 .. b[u]
  PROVE  LET m == [b EXCEPT ![u] = @ - n, ![v] = @ + n]
         IN  m \in Holdings /\ SumOf(Holders, m) = SumOf(Holders, b)
<1> DEFINE k == [b EXCEPT ![u] = b[u] - n]
           m == [k EXCEPT ![v] = b[v] + n]
<1>1. b \in [Holders -> Nat] /\ IsFiniteSet(Holders) /\ \A x \in Holders : b[x] \in Nat
  BY FractionConstants DEF Holdings
<1>2. n \in Nat /\ b[u] - n \in Nat /\ b[v] + n \in Nat
  BY <1>1
<1>3. k \in [Holders -> Nat] /\ m \in [Holders -> Nat]
  BY <1>1, <1>2
<1>4. /\ k[u] = b[u] - n /\ k[v] = b[v] /\ m[v] = b[v] + n
      /\ \A x \in Holders : x # u => k[x] = b[x]
      /\ \A x \in Holders : x # v => m[x] = k[x]
  BY <1>1, <1>3
<1>5. [b EXCEPT ![u] = @ - n, ![v] = @ + n] = m
  BY <1>1
<1> HIDE DEF k, m
<1>6. \A x \in Holders : b[x] \in Int /\ k[x] \in Int /\ m[x] \in Int
  BY <1>1, <1>3
<1>7. SumOf(Holders, k) = SumOf(Holders, b) + k[u] - b[u]
  BY <1>1, <1>4, <1>6, SetSumOfUpdate
<1>8. SumOf(Holders, m) = SumOf(Holders, k) + m[v] - k[v]
  BY <1>1, <1>4, <1>6, SetSumOfUpdate
<1>9. SumOf(Holders, b) \in Int
  BY <1>1, <1>6, SetSumIsInt
<1>10. SumOf(Holders, m) = SumOf(Holders, b)
  BY <1>1, <1>2, <1>4, <1>7, <1>8, <1>9
<1> QED BY <1>3, <1>5, <1>10 DEF Holdings

\* A share of the principal is never more than what is left of it.
LEMMA ShareIsLeft ==
  ASSUME NEW f, SoundFractions(f), Counted(f), NEW u \in Holders
  PROVE  /\ Wrapped!PrincipalShare(f, f.balanceOf[u]) \in Nat
         /\ Wrapped!PrincipalShare(f, f.balanceOf[u]) <= f.principalReturned - f.principalPaid
         /\ f.balanceOf[u] <= f.fractionCount - f.principalFractionsClaimed
<1> DEFINE n == f.balanceOf[u]
           k == f.fractionCount - f.principalFractionsClaimed
           r == f.principalReturned - f.principalPaid
           s == Wrapped!PrincipalShare(f, n)
<1>1. f \in FractionalType /\ IsFiniteSet(Holders)
  BY FractionConstants DEF SoundFractions
<1>2. \A x \in Holders : f.balanceOf[x] \in Nat
  BY <1>1, FractionalFields
<1>3. n \in Nat /\ n <= SumOf(Holders, f.balanceOf)
  BY <1>1, <1>2, SetSumIsNat
<1>4. n <= k /\ k \in Nat
  <2>1. SumOf(Holders, f.balanceOf) \in Nat
    BY <1>1, <1>2, SetSumIsNat
  <2> QED BY <1>1, <1>3, <2>1, FractionalFields DEF Counted
<1>5. r \in Nat
  BY <1>1, FractionalFields DEF SoundFractions
<1>6. s = IF n >= k THEN r ELSE (r * n) \div k
  BY DEF Wrapped!PrincipalShare
<1> HIDE DEF n, k, r, s
<1>7. CASE n >= k
  BY <1>4, <1>5, <1>6, <1>7 DEF n, k, r, s
<1>8. CASE n < k
  <2> DEFINE x == r * n
             q == x \div k
  <2>1. k \in Nat \ {0} /\ x \in Nat
    BY <1>3, <1>4, <1>5, <1>8
  <2> DEFINE d == k - n
  <2>2. d \in Nat /\ k = n + d
    BY <1>3, <1>4
  <2> HIDE DEF d
  <2>3. r * (n + d) = r * n + r * d /\ r * n \in Nat /\ r * d \in Nat
    BY <1>3, <1>5, <2>2
  <2>4. x <= r * k
    BY <2>2, <2>3
  <2> HIDE DEF x
  <2>5. q \in Nat /\ q * k <= x
    BY <2>1
  <2>6. s = q
    BY <1>3, <1>4, <1>6, <1>8 DEF x
  <2> HIDE DEF q
  <2>7. q <= r
    <3> SUFFICES ASSUME q > r PROVE FALSE
      BY <1>5, <2>5
    <3> DEFINE e == q - r
    <3>1. e \in Nat \ {0} /\ q = r + e
      BY <1>5, <2>5
    <3> HIDE DEF e
    <3>2. (r + e) * k = r * k + e * k /\ e * k > 0 /\ r * k \in Nat /\ e * k \in Nat
      BY <1>5, <2>1, <3>1
    <3> QED BY <2>1, <2>4, <2>5, <3>1, <3>2
  <2> QED BY <1>4, <2>5, <2>6, <2>7 DEF n, k, r, s
<1> QED BY <1>3, <1>4, <1>7, <1>8

\* Redeeming fractions: the user is paid out of what is outstanding, and the fractions are
\* gone.
LEMMA RedeemedIsSound ==
  ASSUME NEW f, SoundFractions(f), Counted(f), NEW u \in Holders, f.unlocked
  PROVE  LET n == f.balanceOf[u]
             s == Wrapped!PrincipalShare(f, n)
             h == [Wrapped!Rebalanced(f, {u}, [f.balanceOf EXCEPT ![u] = 0]) EXCEPT
                      !.principalClaimed = @ \cup {u},
                      !.principalFractionsClaimed = @ + n,
                      !.principalPaid = @ + s, !.held["nara"] = @ - s]
         IN  /\ SoundFractions(h) /\ Counted(h)
             /\ h.expectedTokenId = f.expectedTokenId /\ h.expectedBinder = f.expectedBinder
             /\ h.bound = f.bound /\ h.unlocked = f.unlocked
             /\ h.fractionCount = f.fractionCount /\ h.principalReturned = f.principalReturned
             /\ h.principalFractionsClaimed = f.principalFractionsClaimed + n
             /\ h.principalPaid = f.principalPaid + s
<1> DEFINE n == f.balanceOf[u]
           s == Wrapped!PrincipalShare(f, n)
           b == [f.balanceOf EXCEPT ![u] = 0]
           g == Wrapped!Rebalanced(f, {u}, b)
           claimed == g.principalClaimed \cup {u}
           count == g.principalFractionsClaimed + n
           paid == g.principalPaid + s
           held == [g.held EXCEPT !["nara"] = g.held["nara"] - s]
           h == [g EXCEPT !.principalClaimed = claimed, !.principalFractionsClaimed = count,
                          !.principalPaid = paid, !.held = held]
<1>1. f \in FractionalType /\ IsFiniteSet(Holders) /\ RAY \in Nat \ {0} /\ "nara" \in RewardAssets
  BY FractionConstants DEF SoundFractions, RewardAssets
<1>2. /\ f.balanceOf \in [Holders -> Nat] /\ b \in [Holders -> Nat] /\ n \in Nat
      /\ b[u] = 0 /\ \A x \in Holders : x # u => b[x] = f.balanceOf[x]
  <2>1. f.balanceOf \in [Holders -> Nat]
    BY <1>1 DEF FractionalType, Holdings
  <2> QED BY <2>1
<1>3. s \in Nat /\ s <= f.principalReturned - f.principalPaid
  BY ShareIsLeft
<1> HIDE DEF n, s, b
<1>4. /\ SoundFractions(g) /\ SameWrapper(f, g) /\ g.balanceOf = b /\ g.held = f.held
  <2>1. b \in Holdings
    BY <1>2 DEF Holdings
  <2>2. \A x \in Holders : x \notin {u} => b[x] = f.balanceOf[x]
    BY <1>2
  <2> QED BY <2>1, <2>2, RebalancedIsSound
<1>5. /\ [g EXCEPT !.principalClaimed = @ \cup {u}, !.principalFractionsClaimed = @ + n,
                   !.principalPaid = @ + s, !.held["nara"] = @ - s] = h
  <2> HIDE DEF g
  <2> QED OBVIOUS
<1> HIDE DEF g
<1>6. g \in FractionalType
  BY <1>4 DEF SoundFractions
<1>7. /\ claimed \in SUBSET Holders /\ count \in Nat /\ paid \in Nat
      /\ held \in [RewardAssets -> Int] /\ held["nara"] = g.held["nara"] - s
      /\ \A a \in RewardAssets : a # "nara" => held[a] = g.held[a]
  <2>1. g.held \in [RewardAssets -> Int]
    BY <1>6 DEF FractionalType
  <2> QED BY <1>1, <1>2, <1>3, <1>6, <2>1, FractionalFields
<1>8. h \in FractionalType
  <2> HIDE DEF claimed, count, paid, held
  <2> QED BY <1>6, <1>7 DEF FractionalType
<1>9. /\ h.held = held /\ h.principalPaid = paid /\ h.principalFractionsClaimed = count
      /\ h.balanceOf = g.balanceOf /\ h.accruedOf = g.accruedOf /\ h.debtRayOf = g.debtRayOf
      /\ h.indexRay = g.indexRay /\ h.fractionCount = g.fractionCount
      /\ h.principalReturned = g.principalReturned /\ h.unlocked = g.unlocked
      /\ h.expectedTokenId = g.expectedTokenId /\ h.expectedBinder = g.expectedBinder
      /\ h.bound = g.bound
  <2> HIDE DEF claimed, count, paid, held
  <2> QED BY <1>6 DEF FractionalType
<1> HIDE DEF h
<1>10. Covered(h)
  <2> SUFFICES ASSUME NEW a \in RewardAssets
               PROVE  DueToAll(h, a) + RAY * Outstanding(h, a) <= RAY * h.held[a]
    BY DEF Covered
  <2> DEFINE D == DueToAll(g, a)
             t == IF a = "nara" THEN s ELSE 0
  <2>1. DueToAll(h, a) = D
    BY <1>9 DEF DueToAll, Due
  <2>2. t \in Nat /\ Outstanding(g, a) \in Int /\ g.held[a] \in Int
    BY <1>3, <1>6, FractionalFields
  <2>3. h.held[a] = g.held[a] - t
    BY <1>7, <1>9, <2>2
  <2>4. Outstanding(h, a) = Outstanding(g, a) - t
    <3>1. paid = g.principalPaid + s /\ g.principalPaid \in Nat /\ g.principalReturned \in Nat
      BY <1>6, FractionalFields
    <3> QED BY <1>3, <1>9, <3>1 DEF Outstanding
  <2>5. D + RAY * Outstanding(g, a) <= RAY * g.held[a]
    BY <1>4 DEF SoundFractions, Covered
  <2>6. D \in Int
    <3>1. \A x \in Holders : [y \in Holders |-> Due(g, a, y)][x] \in Int
      BY <1>6, FractionalFields
    <3> QED BY <1>1, <3>1, SetSumIsInt DEF DueToAll
  <2> HIDE DEF D, t
  <2>7. /\ RAY * (Outstanding(g, a) - t) = RAY * Outstanding(g, a) - RAY * t
        /\ RAY * (g.held[a] - t) = RAY * g.held[a] - RAY * t
        /\ RAY * Outstanding(g, a) \in Int /\ RAY * t \in Int /\ RAY * g.held[a] \in Int
    BY <1>1, <2>2
  <2> DEFINE O == RAY * Outstanding(g, a)
             T == RAY * t
             H == RAY * g.held[a]
  <2>8. /\ RAY * Outstanding(h, a) = O - T /\ RAY * h.held[a] = H - T /\ D + O <= H
        /\ O \in Int /\ T \in Int /\ H \in Int
    BY <2>3, <2>4, <2>5, <2>7
  <2> HIDE DEF O, T, H
  <2> QED BY <2>1, <2>6, <2>8
<1>11. DebtsReached(h)
  BY <1>4, <1>9 DEF DebtsReached, SoundFractions
<1>12. paid = f.principalPaid + s /\ count = f.principalFractionsClaimed + n
  BY <1>4 DEF SameWrapper
<1>13. SoundFractions(h)
  <2>1. paid <= f.principalReturned
    BY <1>1, <1>3, <1>12, FractionalFields
  <2>2. h.unlocked /\ h.principalReturned = f.principalReturned
    BY <1>4, <1>9 DEF SameWrapper
  <2>3. h.fractionCount > 0
    BY <1>4, <1>9 DEF SoundFractions
  <2> QED BY <1>8, <1>9, <1>10, <1>11, <2>1, <2>2, <2>3 DEF SoundFractions
<1>14. Counted(h)
  <2>1. \A x \in Holders : f.balanceOf[x] \in Int /\ b[x] \in Int
    BY <1>2
  <2>2. SumOf(Holders, b) = SumOf(Holders, f.balanceOf) + b[u] - f.balanceOf[u]
    BY <1>1, <1>2, <2>1, SetSumOfUpdate
  <2>3. SumOf(Holders, f.balanceOf) \in Int
    BY <1>1, <2>1, SetSumIsInt
  <2>4. h.balanceOf = b /\ h.fractionCount = f.fractionCount
    BY <1>4, <1>9 DEF SameWrapper
  <2>5. SumOf(Holders, f.balanceOf) + f.principalFractionsClaimed = f.fractionCount
    BY DEF Counted
  <2>6. f.balanceOf[u] = n /\ f.principalFractionsClaimed \in Int
    BY <1>1, FractionalFields DEF n
  <2>7. SumOf(Holders, b) + (f.principalFractionsClaimed + n) = f.fractionCount
    BY <1>2, <2>2, <2>3, <2>5, <2>6
  <2> QED BY <1>9, <1>12, <2>4, <2>7 DEF Counted
<1> QED BY <1>4, <1>5, <1>9, <1>12, <1>13, <1>14 DEF SameWrapper, b, n, s, g
\* What UnlockPosition does after the rewards have been indexed.
GotBack(f, h, p) ==
    h = [f EXCEPT !.unlocked = TRUE, !.principalReturned = p, !.held["nara"] = @ + p]

\* Unlocking: what the position held arrives as principal, on top of the rewards.
LEMMA UnlockedIsSound ==
  ASSUME NEW f, SoundFractions(f), ~ f.unlocked, NEW p \in Nat, NEW h, GotBack(f, h, p)
  PROVE  /\ SoundFractions(h) /\ h.balanceOf = f.balanceOf
         /\ h.expectedTokenId = f.expectedTokenId /\ h.expectedBinder = f.expectedBinder
         /\ h.bound = f.bound /\ h.unlocked /\ h.fractionCount = f.fractionCount
         /\ h.principalReturned = p /\ h.principalPaid = 0 /\ h.principalFractionsClaimed = 0
         /\ f.principalFractionsClaimed = 0
<1> DEFINE held == [f.held EXCEPT !["nara"] = f.held["nara"] + p]
<1>1. f \in FractionalType /\ IsFiniteSet(Holders) /\ RAY \in Nat \ {0} /\ "nara" \in RewardAssets
  BY FractionConstants DEF SoundFractions, RewardAssets
<1>2. /\ held \in [RewardAssets -> Int] /\ held["nara"] = f.held["nara"] + p
      /\ \A a \in RewardAssets : a # "nara" => held[a] = f.held[a]
  <2>1. f.held \in [RewardAssets -> Int]
    BY <1>1 DEF FractionalType
  <2> QED BY <1>1, <2>1
<1>3. h = [f EXCEPT !.unlocked = TRUE, !.principalReturned = p, !.held = held]
  BY DEF GotBack
<1>4. h \in FractionalType
  <2> HIDE DEF held
  <2> QED BY <1>1, <1>2, <1>3 DEF FractionalType
<1>5. /\ h.held = held /\ h.principalReturned = p /\ h.unlocked
      /\ h.principalPaid = f.principalPaid
      /\ h.principalFractionsClaimed = f.principalFractionsClaimed
      /\ h.balanceOf = f.balanceOf /\ h.accruedOf = f.accruedOf /\ h.debtRayOf = f.debtRayOf
      /\ h.indexRay = f.indexRay /\ h.fractionCount = f.fractionCount
      /\ h.expectedTokenId = f.expectedTokenId /\ h.expectedBinder = f.expectedBinder
      /\ h.bound = f.bound
  <2> HIDE DEF held
  <2> QED BY <1>1, <1>3 DEF FractionalType
<1>6. f.principalReturned = 0 /\ f.principalPaid = 0 /\ f.principalFractionsClaimed = 0
  BY DEF SoundFractions, NoPrincipalYet
<1>7. Covered(h)
  <2> SUFFICES ASSUME NEW a \in RewardAssets
               PROVE  DueToAll(h, a) + RAY * Outstanding(h, a) <= RAY * h.held[a]
    BY DEF Covered
  <2> DEFINE D == DueToAll(f, a)
             t == IF a = "nara" THEN p ELSE 0
  <2>1. DueToAll(h, a) = D
    BY <1>5 DEF DueToAll, Due
  <2>2. t \in Nat /\ Outstanding(f, a) = 0 /\ f.held[a] \in Int
    BY <1>1, <1>6, FractionalFields DEF Outstanding
  <2>3. h.held[a] = f.held[a] + t
    BY <1>2, <1>5, <2>2
  <2>4. Outstanding(h, a) = t
    BY <1>5, <1>6 DEF Outstanding
  <2>5. D + RAY * 0 <= RAY * f.held[a]
    BY <2>2 DEF SoundFractions, Covered
  <2>6. D \in Int
    <3>1. \A x \in Holders : [y \in Holders |-> Due(f, a, y)][x] \in Int
      BY <1>1, FractionalFields
    <3> QED BY <1>1, <3>1, SetSumIsInt DEF DueToAll
  <2> HIDE DEF D, t
  <2>7. /\ RAY * (f.held[a] + t) = RAY * f.held[a] + RAY * t
        /\ RAY * 0 = 0 /\ RAY * t \in Int /\ RAY * f.held[a] \in Int
    BY <1>1, <2>2
  <2> QED BY <2>1, <2>3, <2>4, <2>5, <2>6, <2>7
<1>8. DebtsReached(h)
  BY <1>5 DEF DebtsReached, SoundFractions
<1>9. SoundFractions(h)
  <2>1. h.fractionCount > 0
    BY <1>5 DEF SoundFractions
  <2> QED BY <1>4, <1>5, <1>6, <1>7, <1>8, <2>1 DEF SoundFractions
<1> QED BY <1>5, <1>6, <1>9

\* A contract as it is deployed.
IsDeployed(f) ==
    /\ f \in FractionalType /\ ~ f.bound /\ ~ f.unlocked
    /\ f.principalReturned = 0 /\ f.principalPaid = 0 /\ f.principalFractionsClaimed = 0
    /\ \A u \in Holders : f.balanceOf[u] = 0
    /\ \A a \in RewardAssets : f.indexRay[a] = 0 /\ f.held[a] = 0
    /\ \A a \in RewardAssets, u \in Holders : f.debtRayOf[a][u] = 0 /\ f.accruedOf[a][u] = 0

\* What Bind does to it.
BoundFrom(f, h, u, n) ==
    /\ h \in FractionalType /\ h.fractionCount = n /\ h.balanceOf = [f.balanceOf EXCEPT ![u] = n]
    /\ h.unlocked = f.unlocked /\ h.principalReturned = f.principalReturned
    /\ h.principalPaid = f.principalPaid
    /\ h.principalFractionsClaimed = f.principalFractionsClaimed
    /\ h.indexRay = f.indexRay /\ h.held = f.held
    /\ h.debtRayOf = f.debtRayOf /\ h.accruedOf = f.accruedOf

LEMMA DeployedFields ==
  ASSUME NEW t \in Nfts, NEW u \in Holders
  PROVE  LET f == Wrapped!Deployed(t, u)
         IN  IsDeployed(f) /\ f.expectedTokenId = t /\ f.expectedBinder = u
<1> DEFINE zeros == [x \in Holders |-> 0]
           nothing == [a \in RewardAssets |-> 0]
           all == [a \in RewardAssets |-> zeros]
           f == [expectedTokenId |-> t, expectedBinder |-> u, bound |-> FALSE,
                 fractionCount |-> 0, balanceOf |-> zeros, indexRay |-> nothing,
                 debtRayOf |-> all, accruedOf |-> all, held |-> nothing, unlocked |-> FALSE,
                 principalReturned |-> 0, principalPaid |-> 0,
                 principalFractionsClaimed |-> 0, principalClaimed |-> {}]
<1>1. zeros \in Holdings /\ nothing \in PerReward /\ nothing \in [RewardAssets -> Int]
      /\ all \in [RewardAssets -> Holdings]
  BY DEF Holdings, PerReward
<1>2. Wrapped!Deployed(t, u) = f
  BY FractionConstants DEF Wrapped!Deployed, Wrapped!Nothing
<1>3. f \in FractionalType
  <2> HIDE DEF zeros, nothing, all
  <2> QED BY <1>1 DEF FractionalType
<1>4. /\ f.expectedTokenId = t /\ f.expectedBinder = u /\ ~ f.bound /\ ~ f.unlocked
      /\ f.principalReturned = 0 /\ f.principalPaid = 0 /\ f.principalFractionsClaimed = 0
      /\ f.balanceOf = zeros /\ f.indexRay = nothing /\ f.held = nothing
      /\ f.debtRayOf = all /\ f.accruedOf = all
  <2> HIDE DEF zeros, nothing, all
  <2> QED OBVIOUS
<1> HIDE DEF f
<1> QED BY <1>2, <1>3, <1>4 DEF IsDeployed

LEMMA BoundIsSound ==
  ASSUME NEW f, IsDeployed(f), NEW u \in Holders, NEW n \in Nat, n > 0, NEW h,
         BoundFrom(f, h, u, n)
  PROVE  SoundFractions(h) /\ Counted(h)
<1> DEFINE b == [f.balanceOf EXCEPT ![u] = n]
<1>1. IsFiniteSet(Holders) /\ RAY \in Nat \ {0}
  BY FractionConstants
<1>2. /\ f \in FractionalType /\ ~ f.unlocked
      /\ f.principalReturned = 0 /\ f.principalPaid = 0 /\ f.principalFractionsClaimed = 0
      /\ \A x \in Holders : f.balanceOf[x] = 0
      /\ \A a \in RewardAssets : f.indexRay[a] = 0 /\ f.held[a] = 0
      /\ \A a \in RewardAssets, x \in Holders : f.debtRayOf[a][x] = 0 /\ f.accruedOf[a][x] = 0
  BY DEF IsDeployed
<1>3. f.balanceOf \in [Holders -> Nat]
  BY <1>2 DEF FractionalType, Holdings
<1>4. b \in [Holders -> Nat] /\ b \in Holdings /\ b[u] = n /\ \A x \in Holders : x # u => b[x] = f.balanceOf[x]
  BY <1>3 DEF Holdings
<1>5. h.balanceOf = b
  BY DEF BoundFrom
<1> HIDE DEF b
<1>6. h \in FractionalType
  BY DEF BoundFrom
<1>7. /\ h.balanceOf = b /\ h.fractionCount = n /\ h.unlocked = f.unlocked
      /\ h.principalReturned = f.principalReturned /\ h.principalPaid = f.principalPaid
      /\ h.principalFractionsClaimed = f.principalFractionsClaimed
      /\ h.indexRay = f.indexRay /\ h.held = f.held
      /\ h.debtRayOf = f.debtRayOf /\ h.accruedOf = f.accruedOf
  BY <1>5 DEF BoundFrom
<1>8. ASSUME NEW a \in RewardAssets, NEW x \in Holders
      PROVE  Due(h, a, x) = 0 /\ h.debtRayOf[a][x] <= h.balanceOf[x] * h.indexRay[a]
  <2>1. b[x] * 0 = 0 /\ RAY * 0 = 0
    BY <1>1, <1>4
  <2> QED BY <1>2, <1>7, <2>1 DEF Due
<1>9. Covered(h)
  <2> SUFFICES ASSUME NEW a \in RewardAssets
               PROVE  DueToAll(h, a) + RAY * Outstanding(h, a) <= RAY * h.held[a]
    BY DEF Covered
  <2>1. DueToAll(h, a) = 0
    <3>1. \A x \in Holders : [y \in Holders |-> Due(h, a, y)][x] = 0
      BY <1>8
    <3> QED BY <1>1, <3>1, SetSumOfZeros DEF DueToAll
  <2>2. Outstanding(h, a) = 0 /\ h.held[a] = 0 /\ RAY * 0 = 0
    BY <1>1, <1>2, <1>7 DEF Outstanding
  <2> QED BY <2>1, <2>2
<1>10. SoundFractions(h)
  BY <1>2, <1>6, <1>7, <1>8, <1>9 DEF SoundFractions, DebtsReached, NoPrincipalYet
<1>11. Counted(h)
  <2> DEFINE before == f.balanceOf
  <2>1. \A x \in Holders : before[x] = 0
    BY <1>2
  <2>2. /\ \A x \in Holders : b[x] \in Int
        /\ \A x \in Holders : x # u => b[x] = before[x]
        /\ \A x \in Holders : before[x] \in Int
    BY <1>2, <1>4
  <2> HIDE DEF before
  <2>3. SumOf(Holders, b) = SumOf(Holders, before) + b[u] - before[u]
    BY <1>1, <2>2, SetSumOfUpdate
  <2>4. SumOf(Holders, before) = 0
    BY <1>1, <2>1, SetSumOfZeros
  <2>5. SumOf(Holders, b) = n
    BY <1>4, <2>1, <2>3, <2>4 DEF before
  <2> QED BY <1>2, <1>7, <2>5 DEF Counted
<1> QED BY <1>10, <1>11
--------------------------------------------------------------------------------
(* How a principal is shared out.  The products of these lemmas are of Naturals, so     *)
(* each is named and bounded before they are added up.                                  *)

LEMMA ProductIsInt == ASSUME NEW x \in Int, NEW y \in Int PROVE x * y \in Int
OBVIOUS
LEMMA ProductGrows ==
  ASSUME NEW x \in Int, NEW y \in Int, NEW z \in Nat, x <= y
  PROVE  x * z <= y * z
<1>1. y * z = x * z + (y - x) * z /\ (y - x) * z \in Nat /\ x * z \in Int
  OBVIOUS
<1> QED BY <1>1
LEMMA CommonFactor ==
  ASSUME NEW x \in Int, NEW y \in Int, NEW m \in Nat \ {0}, x * m <= y * m
  PROVE  x <= y
<1> SUFFICES ASSUME x > y PROVE FALSE
  OBVIOUS
<1>1. x * m = y * m + (x - y) * m /\ (x - y) * m > 0 /\ y * m \in Int
  OBVIOUS
<1> QED BY <1>1
LEMMA StrictFactor ==
  ASSUME NEW x \in Int, NEW y \in Int, NEW m \in Nat \ {0}, x * m < y * m
  PROVE  x < y
<1> SUFFICES ASSUME x >= y PROVE FALSE
  OBVIOUS
<1>1. x * m = y * m + (x - y) * m /\ (x - y) * m >= 0 /\ y * m \in Int
  OBVIOUS
<1> QED BY <1>1

\* The share s of b fractions among the m that remain of n, of what remains q of a principal
\* R after k claims.  What remains follows the fractions that remain, and one unit per claim.
LEMMA ShareBounds ==
  ASSUME NEW n \in Nat \ {0}, NEW m \in Nat \ {0}, NEW R \in Nat, NEW q \in Nat, NEW k \in Nat,
         R * m <= q * n, q * n <= R * m + k * n,
         NEW b \in Nat, b < m, NEW s \in Nat, s = (q * b) \div m
  PROVE  /\ b * R < (s + 1) * n /\ s * n <= b * R + k * n
         /\ R * (m - b) <= (q - s) * n /\ (q - s) * n <= R * (m - b) + (k + 1) * n
<1> DEFINE d == m - b
<1>1. d \in Nat \ {0} /\ m = b + d
  OBVIOUS
<1> HIDE DEF d
<1>2. s * m <= q * b /\ q * b < (s + 1) * m
  <2> DEFINE x == q * b
  <2>1. x \in Nat
    BY MulIsNat
  <2>2. s = x \div m
    OBVIOUS
  <2> HIDE DEF x
  <2>3. m * (x \div m) <= x /\ x <= m * (x \div m) + (m - 1)
    BY <2>1, DivBounds
  <2>4. m * s <= x /\ x < m * s + m
    <3> DEFINE y == m * s
    <3>1. y \in Nat /\ y = m * (x \div m)
      BY <2>2, MulIsNat
    <3>2. y <= x /\ x <= y + (m - 1)
      BY <2>3, <3>1
    <3> HIDE DEF y
    <3>3. y <= x /\ x < y + m
      BY <2>1, <3>1, <3>2
    <3> QED BY <3>3 DEF y
  <2>5. m * s = s * m /\ (s + 1) * m = s * m + m
    OBVIOUS
  <2> QED BY <2>4, <2>5 DEF x
<1>3. b * R < (s + 1) * n
  <2>1. (b * R) * m = (R * m) * b
    <3>1. b * R = R * b
      OBVIOUS
    <3>2. (R * b) * m = R * (b * m) /\ (R * m) * b = R * (m * b) /\ b * m = m * b
      OBVIOUS
    <3> QED BY <3>1, <3>2
  <2>2. (R * m) * b <= (q * n) * b
    BY ProductGrows, ProductIsInt
  <2>3. (q * n) * b = (q * b) * n
    OBVIOUS
  <2>4. (q * b) * n < ((s + 1) * m) * n
    <3> DEFINE x == q * b
               y == (s + 1) * m
    <3>1. x \in Int /\ y \in Int /\ x + 1 <= y
      BY <1>2, ProductIsInt
    <3> HIDE DEF x, y
    <3>2. (x + 1) * n <= y * n
      BY <3>1, ProductGrows
    <3>3. (x + 1) * n = x * n + n /\ x * n \in Int /\ y * n \in Int
      BY <3>1
    <3>4. x * n < y * n
      BY <3>2, <3>3
    <3> QED BY <3>4 DEF x, y
  <2>5. ((s + 1) * m) * n = ((s + 1) * n) * m
    OBVIOUS
  <2>6. (b * R) * m < ((s + 1) * n) * m
    <3> DEFINE u == (b * R) * m
               v == (q * n) * b
               w == ((s + 1) * n) * m
    <3>1. u <= v /\ v < w
      BY <2>1, <2>2, <2>3, <2>4, <2>5
    <3>2. u \in Int /\ v \in Int /\ w \in Int
      BY ProductIsInt
    <3> HIDE DEF u, v, w
    <3>3. u < w
      BY <3>1, <3>2
    <3> QED BY <3>3 DEF u, w
  <2> QED BY <2>6, StrictFactor, ProductIsInt
<1>4. s * n <= b * R + k * n
  <2> DEFINE kn == k * n
             Rm == R * m
             qn == q * n
             bR == b * R
             x1 == (s * m) * n
             x2 == (q * b) * n
             x3 == (Rm + kn) * b
             x4 == bR * m
             x5 == kn * b
             x6 == kn * m
  <2>1. kn \in Nat /\ Rm \in Nat /\ qn \in Nat /\ bR \in Nat /\ qn <= Rm + kn
    BY MulIsNat
  <2>2. x1 <= x2
    BY <1>2, ProductGrows, ProductIsInt
  <2>3. x2 = qn * b /\ (s * n) * m = x1
    OBVIOUS
  <2>4. Rm * b = x4
    <3>1. b * R = R * b
      OBVIOUS
    <3>2. (R * m) * b = (R * b) * m
      OBVIOUS
    <3> QED BY <3>1, <3>2
  <2> HIDE DEF kn, Rm, qn, bR
  <2>5. qn * b <= x3
    BY <2>1, ProductGrows
  <2>6. x3 = Rm * b + x5
    BY <2>1
  <2>7. x5 <= x6
    <3>1. kn * b = b * kn /\ kn * m = m * kn
      BY <2>1
    <3>2. b * kn <= m * kn
      BY <2>1, ProductGrows
    <3> QED BY <3>1, <3>2
  <2>8. (bR + kn) * m = x4 + x6
    BY <2>1
  <2>9. x1 \in Int /\ x2 \in Int /\ x3 \in Int /\ x4 \in Int /\ x5 \in Int /\ x6 \in Int
    BY <2>1, ProductIsInt
  <2>10. (s * n) * m <= (bR + kn) * m
    <3> DEFINE l == (s * n) * m
               r == (bR + kn) * m
    <3>1. l = x1 /\ x2 <= x3 /\ x3 = x4 + x5 /\ r = x4 + x6
      BY <2>3, <2>4, <2>5, <2>6, <2>8
    <3> HIDE DEF l, r, x1, x2, x3, x4, x5, x6
    <3>2. l <= r
      BY <2>2, <2>7, <2>9, <3>1
    <3> QED BY <3>2 DEF l, r
  <2>11. s * n \in Int /\ bR + kn \in Int
    BY <2>1, ProductIsInt
  <2>12. s * n <= bR + kn
    BY <2>10, <2>11, CommonFactor
  <2> QED BY <2>12 DEF bR, kn
<1>5. (q - s) * m = q * d + q * b - s * m /\ q - s \in Int
  <2> DEFINE x == q * b
             y == q * d
             z == s * m
             w == (q - s) * m
  <2>1. w = q * m - z
    OBVIOUS
  <2>2. q * m = x + y
    BY <1>1
  <2>3. x \in Int /\ y \in Int /\ z \in Int
    BY <1>1, ProductIsInt
  <2> HIDE DEF x, y, z, w
  <2>4. w = y + x - z
    BY <2>1, <2>2, <2>3
  <2> QED BY <2>4 DEF w, x, y, z
<1>6. R * d <= (q - s) * n
  <2> DEFINE Rm == R * m
             qn == q * n
             qd == q * d
             r == q - s
             y1 == Rm * d
             y2 == qn * d
             y3 == qd * n
             y4 == (r * m) * n
  <2>1. /\ Rm \in Nat /\ qn \in Nat /\ qd \in Nat /\ r \in Int /\ r * m \in Int
        /\ Rm <= qn
    BY <1>1, <1>5, MulIsNat, ProductIsInt
  <2>2. qd <= r * m
    <3> DEFINE a == q * b
               c == s * m
               e == r * m
    <3>1. a \in Int /\ c \in Int /\ c <= a /\ e = qd + a - c
      BY <1>2, <1>5, ProductIsInt
    <3> HIDE DEF a, c, e, qd
    <3>2. qd <= e
      BY <2>1, <3>1
    <3> QED BY <3>2 DEF e
  <2>3. y1 = (R * d) * m /\ y2 = y3
    BY <1>1
  <2> HIDE DEF Rm, qn, qd, r
  <2>4. y1 <= y2 /\ y3 <= y4 /\ y4 = (r * n) * m
    BY <1>1, <2>1, <2>2, ProductGrows
  <2>5. y1 \in Int /\ y2 \in Int /\ y3 \in Int /\ y4 \in Int
    BY <1>1, <2>1, ProductIsInt
  <2>6. (R * d) * m <= (r * n) * m
    BY <2>3, <2>4, <2>5
  <2>7. R * d \in Int /\ r * n \in Int
    BY <1>1, <2>1, ProductIsInt
  <2>8. R * d <= r * n
    BY <2>6, <2>7, CommonFactor
  <2> QED BY <2>8 DEF r
<1>7. (q - s) * n <= R * d + (k + 1) * n
  <2> DEFINE kn == k * n
             Rm == R * m
             Rd == R * d
             qn == q * n
             qd == q * d
             r == q - s
             y1 == (r * m) * n
             y2 == (qd + m) * n
             y3 == qn * d
             y4 == (Rm + kn) * d
             y5 == Rd * m
             y6 == kn * d
             y7 == kn * m
             y8 == m * n
  <2>1. /\ Rm \in Nat /\ qn \in Nat /\ qd \in Nat /\ kn \in Nat /\ Rd \in Nat
        /\ r \in Int /\ r * m \in Int /\ qn <= Rm + kn
    BY <1>1, <1>5, MulIsNat, ProductIsInt
  <2>2. r * m <= qd + m
    <3> DEFINE a == q * b
               c == s * m
               e == r * m
    <3>1. a \in Int /\ c \in Int /\ a < c + m /\ e = qd + a - c
      <4>1. (s + 1) * m = c + m
        OBVIOUS
      <4> QED BY <1>2, <1>5, <4>1, ProductIsInt
    <3> HIDE DEF a, c, e, qd
    <3>2. e <= qd + m
      BY <2>1, <3>1
    <3> QED BY <3>2 DEF e
  <2>3. Rm * d = y5 /\ qd * n = y3
    BY <1>1
  <2> HIDE DEF Rm, qn, qd, r, kn, Rd
  <2>4. y1 <= y2 /\ y2 = qd * n + y8 /\ y1 = (r * n) * m
    BY <1>1, <2>1, <2>2, ProductGrows
  <2>5. y3 <= y4 /\ y4 = Rm * d + y6
    BY <1>1, <2>1, ProductGrows
  <2>6. y6 <= y7
    <3>1. kn * d = d * kn /\ kn * m = m * kn /\ d <= m
      BY <1>1, <2>1
    <3>2. d * kn <= m * kn
      BY <1>1, <2>1, <3>1, ProductGrows
    <3> QED BY <3>1, <3>2
  <2>7. (Rd + (kn + n)) * m = y5 + (y7 + y8)
    <3>1. (Rd + (kn + n)) * m = Rd * m + (kn * m + n * m) /\ n * m = m * n
      BY <2>1
    <3> QED BY <3>1
  <2>8. /\ y1 \in Int /\ y2 \in Int /\ y3 \in Int /\ y4 \in Int /\ y5 \in Int /\ y6 \in Int
        /\ y7 \in Int /\ y8 \in Int
    BY <1>1, <2>1, ProductIsInt
  <2>9. (r * n) * m <= (Rd + (kn + n)) * m
    <3> DEFINE l == (r * n) * m
               t == (Rd + (kn + n)) * m
    <3>1. l = y1 /\ y2 = y3 + y8 /\ y4 = y5 + y6 /\ t = y5 + (y7 + y8) /\ y1 <= y2 /\ y3 <= y4
      BY <2>3, <2>4, <2>5, <2>7
    <3> HIDE DEF l, t, y1, y2, y3, y4, y5, y6, y7, y8
    <3>2. l <= t
      BY <2>6, <2>8, <3>1
    <3> QED BY <3>2 DEF l, t
  <2>10. r * n \in Int /\ Rd + (kn + n) \in Int
    BY <2>1, ProductIsInt
  <2>11. r * n <= Rd + (kn + n)
    BY <2>9, <2>10, CommonFactor
  <2>12. (k + 1) * n = kn + n
    BY DEF kn
  <2> QED BY <2>11, <2>12 DEF r, Rd
<1> QED BY <1>3, <1>4, <1>6, <1>7 DEF d
--------------------------------------------------------------------------------
(* The inductive invariant of the wrappers                                          *)

Redemption == [fractions : Nat, paid : Nat]

\* What a principal that r has drawn on so far still owes, and what each claim was paid.
SharedOut(f, r) ==
    LET n == f.fractionCount
        m == f.fractionCount - f.principalFractionsClaimed
        q == f.principalReturned - f.principalPaid
        due(i) == r[i].fractions * f.principalReturned
    IN  /\ f.principalReturned * m <= q * n
        /\ q * n <= f.principalReturned * m + Len(r) * n
        /\ m = 0 => q = 0
        /\ \A i \in DOMAIN r :
              /\ due(i) < (r[i].paid + 1) * n
              /\ r[i].paid * n <= due(i) + (i - 1) * n

\* A contract and the claims of principal made from it.
Kept(f, r) ==
    /\ f \in FractionalType
    /\ f.bound => SoundFractions(f) /\ Counted(f) /\ SharedOut(f, r)
    /\ ~ f.bound => f = Wrapped!Deployed(f.expectedTokenId, f.expectedBinder)
    /\ ~ f.unlocked => r = <<>>

WrapperTypeOK ==
    /\ wrappedOwnerOf \in [Nfts -> Holders \cup (1 .. MaxContracts) \cup {NoOne}]
    /\ principal \in [Nfts -> Nat]
    /\ earned \in [Nfts -> PerReward]
    /\ fractionalOf \in [Nfts -> 0 .. MaxContracts]
    /\ \A t \in Nfts : fractionalOf[t] # 0 => fractionalOf[t] \in DOMAIN fractionals
    /\ fractionals \in Seq(FractionalType)
    /\ Len(fractionals) <= MaxContracts
    /\ redeemed \in [1 .. MaxContracts -> Seq(Redemption)]

FractionsInv ==
    /\ WrapperTypeOK
    /\ \A c \in DOMAIN fractionals : Kept(fractionals[c], redeemed[c])
    /\ \A c \in 1 .. MaxContracts : c \notin DOMAIN fractionals => redeemed[c] = <<>>
    /\ WrapperHoldsToken
\* A claim keeps the principal shared out in proportion.
LEMMA RedeemedIsShared ==
  ASSUME NEW f, SoundFractions(f), Counted(f), NEW r \in Seq(Redemption), SharedOut(f, r),
         NEW u \in Holders, f.balanceOf[u] # 0, NEW h,
         h.fractionCount = f.fractionCount, h.principalReturned = f.principalReturned,
         h.principalFractionsClaimed = f.principalFractionsClaimed + f.balanceOf[u],
         h.principalPaid = f.principalPaid + Wrapped!PrincipalShare(f, f.balanceOf[u])
  PROVE  LET n == f.balanceOf[u]
             x == Append(r, [fractions |-> n, paid |-> Wrapped!PrincipalShare(f, n)])
         IN  x \in Seq(Redemption) /\ SharedOut(h, x)
<1> DEFINE n == f.fractionCount
           R == f.principalReturned
           m == n - f.principalFractionsClaimed
           q == R - f.principalPaid
           k == Len(r)
           b == f.balanceOf[u]
           s == Wrapped!PrincipalShare(f, b)
           z == [fractions |-> b, paid |-> s]
           x == Append(r, z)
<1>1. /\ n \in Nat \ {0} /\ R \in Nat /\ f.principalPaid \in Nat
      /\ f.principalFractionsClaimed \in Nat /\ q \in Nat /\ k \in Nat
      /\ b \in Nat \ {0} /\ s \in Nat /\ s <= q /\ b <= m
  <2>1. f \in FractionalType /\ f.principalPaid <= f.principalReturned /\ f.fractionCount > 0
    BY DEF SoundFractions
  <2>2. s \in Nat /\ s <= q /\ b <= m
    BY ShareIsLeft
  <2> HIDE DEF s
  <2> QED BY <2>1, <2>2, FractionalFields
<1>2. /\ R * m <= q * n /\ q * n <= R * m + k * n
      /\ \A i \in DOMAIN r : /\ r[i].fractions * R < (r[i].paid + 1) * n
                             /\ r[i].paid * n <= r[i].fractions * R + (i - 1) * n
  BY DEF SharedOut
<1>3. s = IF b >= m THEN q ELSE (q * b) \div m
  BY DEF Wrapped!PrincipalShare
<1>4. /\ h.fractionCount = n /\ h.principalReturned = R
      /\ h.fractionCount - h.principalFractionsClaimed = m - b
      /\ h.principalReturned - h.principalPaid = q - s
  <2> DEFINE c == f.principalFractionsClaimed
             o == f.principalPaid
  <2>1. /\ h.principalFractionsClaimed = c + b /\ h.principalPaid = o + s
        /\ m = n - c /\ q = R - o /\ c \in Nat /\ o \in Nat
        /\ h.fractionCount = n /\ h.principalReturned = R
    BY <1>1
  <2> HIDE DEF c, o, b, s, m, q, n, R
  <2>2. n - (c + b) = m - b /\ R - (o + s) = q - s
    BY <1>1, <2>1
  <2> QED BY <2>1, <2>2
<1> HIDE DEF s
<1>5. z \in Redemption /\ z.fractions = b /\ z.paid = s
  BY <1>1 DEF Redemption
<1> HIDE DEF z
<1>6. /\ x \in Seq(Redemption) /\ Len(x) = k + 1 /\ x[k + 1] = z
      /\ DOMAIN x = 1 .. k + 1 /\ DOMAIN r = 1 .. k
      /\ \A i \in 1 .. k : x[i] = r[i]
  BY <1>5
<1> HIDE DEF x, n, R, m, q, k, b
<1>7. m \in Nat \ {0}
  BY <1>1 DEF m
<1>8. /\ b * R < (s + 1) * n /\ s * n <= b * R + k * n
      /\ R * (m - b) <= (q - s) * n /\ (q - s) * n <= R * (m - b) + (k + 1) * n
      /\ m - b = 0 => q - s = 0
  <2>1. CASE b < m
    <3>1. s = (q * b) \div m
      BY <1>1, <1>3, <1>7, <2>1
    <3>2. m - b # 0
      BY <1>1, <1>7, <2>1
    <3>3. /\ b * R < (s + 1) * n /\ s * n <= b * R + k * n
          /\ R * (m - b) <= (q - s) * n /\ (q - s) * n <= R * (m - b) + (k + 1) * n
      BY <1>1, <1>2, <1>7, <2>1, <3>1, ShareBounds
    <3> QED BY <3>2, <3>3
  <2>2. CASE b = m
    <3>1. s = q /\ m - b = 0 /\ q - s = 0
      BY <1>1, <1>3, <1>7, <2>2
    <3>2. R * 0 = 0 /\ 0 * n = 0 /\ (k + 1) * n >= 0 /\ b * R = R * m
      BY <1>1, <2>2
    <3>3. (s + 1) * n = q * n + n /\ s * n = q * n /\ q * n \in Nat /\ R * m \in Nat /\ k * n \in Nat
      BY <1>1, <1>7, <3>1
    <3> DEFINE qn == q * n
               Rm == R * m
    <3>4. Rm < qn + n
      <4> HIDE DEF Rm, qn
      <4>1. Rm \in Nat /\ qn \in Nat /\ Rm <= qn
        BY <1>2, <3>3 DEF Rm, qn
      <4> QED BY <1>1, <4>1
    <3>5. b * R < (s + 1) * n /\ s * n <= b * R + k * n
      BY <1>2, <3>2, <3>3, <3>4
    <3>6. R * (m - b) = 0 /\ (q - s) * n = 0
      BY <3>1, <3>2
    <3>7. R * (m - b) + (k + 1) * n >= 0
      <4> DEFINE y == (k + 1) * n
      <4>1. y \in Int /\ y >= 0
        BY <1>1, <3>2
      <4> HIDE DEF y
      <4>2. 0 + y >= 0
        BY <4>1
      <4> QED BY <3>6, <4>2 DEF y
    <3>8. R * (m - b) <= (q - s) * n /\ (q - s) * n <= R * (m - b) + (k + 1) * n
      <4> DEFINE y == R * (m - b) + (k + 1) * n
      <4>1. 0 <= y
        <5>1. (k + 1) * n \in Int
          BY <1>1
        <5> QED BY <3>6, <3>7, <5>1
      <4> HIDE DEF y
      <4> QED BY <3>6, <4>1 DEF y
    <3> QED BY <3>1, <3>5, <3>8
  <2> QED BY <1>1, <1>7, <2>1, <2>2
<1>9. ASSUME NEW i \in DOMAIN x
      PROVE  /\ x[i].fractions * R < (x[i].paid + 1) * n
             /\ x[i].paid * n <= x[i].fractions * R + (i - 1) * n
  <2>1. CASE i = k + 1
    <3>1. x[i] = z /\ i - 1 = k
      BY <1>1, <1>6, <2>1
    <3> QED BY <1>5, <1>8, <3>1
  <2>2. CASE i # k + 1
    <3>1. i \in DOMAIN r /\ x[i] = r[i]
      BY <1>1, <1>6, <2>2
    <3> QED BY <1>2, <3>1
  <2> QED BY <2>1, <2>2
<1>10. SharedOut(h, x)
  BY <1>4, <1>6, <1>8, <1>9 DEF SharedOut
<1> QED BY <1>6, <1>10 DEF x, z, s, b

\* Nothing was drawn when the principal arrives.
LEMMA NothingDrawnIsShared ==
  ASSUME NEW f, f.fractionCount \in Nat \ {0}, f.principalReturned \in Nat, f.principalPaid = 0,
         f.principalFractionsClaimed = 0
  PROVE  SharedOut(f, <<>>)
<1> DEFINE n == f.fractionCount
           R == f.principalReturned
           p == f.principalPaid
           c == f.principalFractionsClaimed
           r == <<>>
<1>1. R * (n - c) = R * n /\ (R - p) * n = R * n /\ R * n \in Nat /\ n - c # 0
  OBVIOUS
<1>2. Len(r) = 0 /\ DOMAIN r = {} /\ 0 * n = 0
  OBVIOUS
<1> HIDE DEF r
<1>3. R * (n - c) <= (R - p) * n /\ (R - p) * n <= R * (n - c) + Len(r) * n
  <2> DEFINE y == R * n
             left == R * (n - c)
             owed == (R - p) * n
             spare == Len(r) * n
  <2>1. y \in Nat /\ left = y /\ owed = y /\ spare = 0
    BY <1>1, <1>2
  <2> HIDE DEF y, left, owed, spare
  <2>2. left <= owed /\ owed <= left + spare
    BY <2>1
  <2> QED BY <2>2 DEF left, owed, spare
<1>4. SharedOut(f, r)
  BY <1>1, <1>2, <1>3 DEF SharedOut
<1> QED BY <1>4 DEF r

\* Only the amounts of the principal matter to how it is shared out.
LEMMA SameShares ==
  ASSUME NEW f, NEW h, NEW r, SharedOut(f, r), SameWrapper(f, h)
  PROVE  SharedOut(h, r)
BY DEF SharedOut, SameWrapper
\* A step that changes one bound contract, its claims and the owner of its token.
LEMMA OneContractChanges ==
  ASSUME FractionsInv, NEW c \in DOMAIN fractionals, NEW h, NEW r,
         fractionals' = [fractionals EXCEPT ![c] = h], redeemed' = [redeemed EXCEPT ![c] = r],
         Kept(h, r), r \in Seq(Redemption), h.bound,
         h.expectedTokenId = fractionals[c].expectedTokenId,
         fractionalOf[h.expectedTokenId] = c, fractionalOf' = fractionalOf,
         wrappedOwnerOf' \in [Nfts -> Holders \cup (1 .. MaxContracts) \cup {NoOne}],
         wrappedOwnerOf'[h.expectedTokenId] = IF h.unlocked THEN NoOne ELSE c,
         \A t \in Nfts : t # h.expectedTokenId => wrappedOwnerOf'[t] = wrappedOwnerOf[t],
         principal' \in [Nfts -> Nat], earned' \in [Nfts -> PerReward]
  PROVE  FractionsInv'
<1>1. /\ fractionals \in Seq(FractionalType) /\ h \in FractionalType
      /\ redeemed \in [1 .. MaxContracts -> Seq(Redemption)] /\ Len(fractionals) <= MaxContracts
      /\ MaxContracts \in Nat
  BY FractionalAssumption DEF FractionsInv, WrapperTypeOK, Kept
<1>2. DOMAIN fractionals = 1 .. Len(fractionals) /\ Len(fractionals) \in Nat /\ c \in 1 .. MaxContracts
  BY <1>1
<1>3. /\ fractionals' \in Seq(FractionalType) /\ Len(fractionals') = Len(fractionals)
      /\ DOMAIN fractionals' = DOMAIN fractionals /\ fractionals'[c] = h
      /\ \A d \in DOMAIN fractionals : d # c => fractionals'[d] = fractionals[d]
  BY <1>1, <1>2
<1>4. /\ redeemed' \in [1 .. MaxContracts -> Seq(Redemption)] /\ redeemed'[c] = r
      /\ \A d \in 1 .. MaxContracts : d # c => redeemed'[d] = redeemed[d]
  BY <1>1, <1>2
<1>5. WrapperTypeOK'
  BY <1>1, <1>3, <1>4 DEF FractionsInv, WrapperTypeOK
<1>6. \A d \in DOMAIN fractionals' : Kept(fractionals'[d], redeemed'[d])
  <2> SUFFICES ASSUME NEW d \in DOMAIN fractionals PROVE Kept(fractionals'[d], redeemed'[d])
    BY <1>3
  <2>1. CASE d = c
    BY <1>3, <1>4, <2>1
  <2>2. CASE d # c
    <3>1. fractionals'[d] = fractionals[d] /\ redeemed'[d] = redeemed[d]
      BY <1>1, <1>2, <1>3, <1>4, <2>2
    <3>2. Kept(fractionals[d], redeemed[d])
      BY DEF FractionsInv
    <3> QED BY <3>1, <3>2
  <2> QED BY <2>1, <2>2
<1>7. \A d \in 1 .. MaxContracts : d \notin DOMAIN fractionals' => redeemed'[d] = <<>>
  BY <1>3, <1>4 DEF FractionsInv
<1>8. WrapperHoldsToken'
  <2> SUFFICES ASSUME NEW d \in DOMAIN fractionals, fractionals'[d].bound
               PROVE  /\ fractionalOf[fractionals'[d].expectedTokenId] = d
                      /\ wrappedOwnerOf'[fractionals'[d].expectedTokenId] =
                            IF fractionals'[d].unlocked THEN NoOne ELSE d
    BY <1>3 DEF WrapperHoldsToken, Bound
  <2>1. CASE d = c
    BY <1>3, <2>1
  <2>2. CASE d # c
    <3> DEFINE g == fractionals[d]
    <3>1. fractionals'[d] = g
      BY <1>3, <2>2
    <3>2. fractionalOf[g.expectedTokenId] = d /\ wrappedOwnerOf[g.expectedTokenId] = IF g.unlocked THEN NoOne ELSE d
      BY <2>2, <3>1 DEF FractionsInv, WrapperHoldsToken, Bound
    <3>3. g \in FractionalType
      BY <1>1, <1>2
    <3>4. g.expectedTokenId \in Nfts
      BY <3>3, FractionalFields
    <3> HIDE DEF g
    <3>5. g.expectedTokenId # h.expectedTokenId
      BY <2>2, <3>2
    <3> QED BY <3>1, <3>2, <3>4, <3>5
  <2> QED BY <2>1, <2>2
<1> QED BY <1>5, <1>6, <1>7, <1>8 DEF FractionsInv

\* A bound contract before a step, with all that the invariant says of it.
LEMMA BoundContract ==
  ASSUME FractionsInv, NEW c \in DOMAIN fractionals, fractionals[c].bound
  PROVE  LET f == fractionals[c]
         IN  /\ f \in FractionalType /\ SoundFractions(f) /\ Counted(f)
             /\ SharedOut(f, redeemed[c]) /\ redeemed[c] \in Seq(Redemption)
             /\ ~ f.unlocked => redeemed[c] = <<>>
             /\ f.expectedTokenId \in Nfts /\ fractionalOf[f.expectedTokenId] = c
             /\ wrappedOwnerOf[f.expectedTokenId] = IF f.unlocked THEN NoOne ELSE c
             /\ c \in 1 .. MaxContracts
<1> DEFINE f == fractionals[c]
<1>1. Kept(f, redeemed[c])
  BY DEF FractionsInv
<1>2. f \in FractionalType /\ SoundFractions(f) /\ Counted(f) /\ SharedOut(f, redeemed[c])
      /\ (~ f.unlocked => redeemed[c] = <<>>)
  BY <1>1 DEF Kept
<1>3. c \in 1 .. MaxContracts
  BY FractionalAssumption DEF FractionsInv, WrapperTypeOK
<1>4. redeemed[c] \in Seq(Redemption)
  BY <1>3 DEF FractionsInv, WrapperTypeOK
<1>5. f.expectedTokenId \in Nfts
  BY <1>2, FractionalFields
<1>6. fractionalOf[f.expectedTokenId] = c /\ wrappedOwnerOf[f.expectedTokenId] = IF f.unlocked THEN NoOne ELSE c
  BY DEF FractionsInv, WrapperHoldsToken, Bound
<1> QED BY <1>2, <1>3, <1>4, <1>5, <1>6

\* A step that leaves the NFTs' owners, the registry and the claims of principal alone and
\* takes one bound contract to another sound one.
LEMMA RewardsChange ==
  ASSUME FractionsInv, NEW c \in DOMAIN fractionals, fractionals[c].bound, NEW h,
         fractionals' = [fractionals EXCEPT ![c] = h],
         SoundFractions(h), Counted(h), SameWrapper(fractionals[c], h),
         wrappedOwnerOf' = wrappedOwnerOf, principal' = principal,
         earned' \in [Nfts -> PerReward], fractionalOf' = fractionalOf, redeemed' = redeemed
  PROVE  FractionsInv'
<1> DEFINE f == fractionals[c]
<1>1. /\ f \in FractionalType /\ SharedOut(f, redeemed[c]) /\ redeemed[c] \in Seq(Redemption)
      /\ (~ f.unlocked => redeemed[c] = <<>>) /\ c \in 1 .. MaxContracts
      /\ f.expectedTokenId \in Nfts /\ fractionalOf[f.expectedTokenId] = c
      /\ wrappedOwnerOf[f.expectedTokenId] = IF f.unlocked THEN NoOne ELSE c
  BY BoundContract
<1>2. /\ h.bound /\ h.unlocked = f.unlocked /\ h.expectedTokenId = f.expectedTokenId
      /\ h \in FractionalType
  BY DEF SameWrapper, SoundFractions
<1>3. SharedOut(h, redeemed[c])
  BY <1>1, SameShares
<1> HIDE DEF f
<1>4. Kept(h, redeemed[c])
  BY <1>1, <1>2, <1>3 DEF Kept
<1>5. redeemed' = [redeemed EXCEPT ![c] = redeemed[c]]
  BY <1>1 DEF FractionsInv, WrapperTypeOK
<1>6. /\ wrappedOwnerOf \in [Nfts -> Holders \cup (1 .. MaxContracts) \cup {NoOne}]
      /\ principal \in [Nfts -> Nat]
  BY DEF FractionsInv, WrapperTypeOK
<1>7. h.expectedTokenId = fractionals[c].expectedTokenId /\ fractionalOf[h.expectedTokenId] = c
  BY <1>1, <1>2 DEF f
<1> DEFINE r == redeemed[c]
<1>8. Kept(h, r) /\ r \in Seq(Redemption) /\ redeemed' = [redeemed EXCEPT ![c] = r]
  BY <1>1, <1>4, <1>5
<1>9. wrappedOwnerOf'[h.expectedTokenId] = IF h.unlocked THEN NoOne ELSE c
  BY <1>1, <1>2
<1>10. /\ wrappedOwnerOf' \in [Nfts -> Holders \cup (1 .. MaxContracts) \cup {NoOne}]
       /\ principal' \in [Nfts -> Nat]
       /\ \A t \in Nfts : t # h.expectedTokenId => wrappedOwnerOf'[t] = wrappedOwnerOf[t]
  BY <1>6
<1> HIDE DEF r
<1> QED BY <1>2, <1>7, <1>8, <1>9, <1>10, OneContractChanges
--------------------------------------------------------------------------------
(* Every step keeps the invariant                                                   *)

LEMMA HarvestParts ==
  ASSUME FractionsInv, NEW t \in Nfts, NEW answers
  PROVE  /\ Wrapped!Gains(t, answers) \in PerReward /\ Wrapped!Left(t, answers) \in PerReward
         /\ [earned EXCEPT ![t] = Wrapped!Left(t, answers)] \in [Nfts -> PerReward]
<1> DEFINE g == Wrapped!Gains(t, answers)
           l == Wrapped!Left(t, answers)
<1>1. earned \in [Nfts -> PerReward] /\ Wrapped!RewardAssets = RewardAssets
  BY FractionConstants DEF FractionsInv, WrapperTypeOK
<1>2. \A a \in RewardAssets : earned[t][a] \in Nat
  BY <1>1 DEF PerReward
<1>3. /\ g \in PerReward
      /\ \A a \in RewardAssets : g[a] = earned[t][a] \/ g[a] = 0
  BY <1>1, <1>2 DEF Wrapped!Gains, PerReward
<1> HIDE DEF g
<1>4. l = [a \in RewardAssets |-> earned[t][a] - g[a]]
  BY <1>1 DEF Wrapped!Left, g
<1>5. l \in PerReward
  BY <1>2, <1>3, <1>4 DEF PerReward
<1> HIDE DEF l
<1> QED BY <1>1, <1>3, <1>5 DEF g, l

LEMMA CreateKeeps ==
  ASSUME FractionsInv, NEW u \in Holders, NEW t \in Nfts, Wrapped!Create(u, t)
  PROVE  FractionsInv'
<1> DEFINE f == Wrapped!Deployed(t, u)
           n == Len(fractionals) + 1
<1>1. /\ fractionals' = Append(fractionals, f) /\ fractionalOf' = [fractionalOf EXCEPT ![t] = n]
      /\ wrappedOwnerOf' = wrappedOwnerOf /\ principal' = principal /\ earned' = earned
      /\ redeemed' = redeemed /\ Len(fractionals) < MaxContracts
      /\ (fractionalOf[t] # 0 => ~ fractionals[fractionalOf[t]].bound)
  BY DEF Wrapped!Create, Wrapped!nft
<1>2. f \in FractionalType /\ f.expectedTokenId = t /\ f.expectedBinder = u /\ ~ f.bound /\ ~ f.unlocked
  BY DeployedFields DEF IsDeployed
<1>3. f = Wrapped!Deployed(f.expectedTokenId, f.expectedBinder)
  BY <1>2
<1> HIDE DEF f
<1>4. /\ fractionals \in Seq(FractionalType) /\ MaxContracts \in Nat
      /\ fractionalOf \in [Nfts -> 0 .. MaxContracts]
      /\ redeemed \in [1 .. MaxContracts -> Seq(Redemption)]
  BY FractionalAssumption DEF FractionsInv, WrapperTypeOK
<1>5. /\ n \in 1 .. MaxContracts /\ DOMAIN fractionals = 1 .. n - 1
      /\ fractionals' \in Seq(FractionalType) /\ Len(fractionals') = n
      /\ DOMAIN fractionals' = 1 .. n /\ fractionals'[n] = f
      /\ \A d \in DOMAIN fractionals : fractionals'[d] = fractionals[d] /\ d # n /\ d # 0
  BY <1>1, <1>2, <1>4
<1> HIDE DEF n
<1>6. redeemed[n] = <<>>
  BY <1>4, <1>5 DEF FractionsInv
<1>7. /\ fractionalOf' \in [Nfts -> 0 .. MaxContracts] /\ fractionalOf'[t] = n
      /\ \A x \in Nfts : x # t => fractionalOf'[x] = fractionalOf[x]
  BY <1>1, <1>4, <1>5
<1>8. WrapperTypeOK'
  <2>1. \A x \in Nfts : fractionalOf'[x] # 0 => fractionalOf'[x] \in DOMAIN fractionals'
    <3> SUFFICES ASSUME NEW x \in Nfts, fractionalOf'[x] # 0 PROVE fractionalOf'[x] \in 1 .. n
      BY <1>5
    <3>1. CASE x = t
      BY <1>4, <1>5, <1>7, <3>1
    <3>2. CASE x # t
      <4>1. fractionalOf[x] \in 1 .. n - 1
        BY <1>5, <1>7, <3>2 DEF FractionsInv, WrapperTypeOK
      <4> QED BY <1>4, <1>5, <1>7, <3>2, <4>1
    <3> QED BY <3>1, <3>2
  <2>2. Len(fractionals') <= MaxContracts
    BY <1>4, <1>5
  <2> QED BY <1>1, <1>5, <1>7, <2>1, <2>2 DEF FractionsInv, WrapperTypeOK
<1>9. \A d \in DOMAIN fractionals' : Kept(fractionals'[d], redeemed'[d])
  <2> SUFFICES ASSUME NEW d \in 1 .. n PROVE Kept(fractionals'[d], redeemed'[d])
    BY <1>5
  <2>1. CASE d = n
    BY <1>1, <1>2, <1>3, <1>5, <1>6, <2>1 DEF Kept
  <2>2. CASE d # n
    <3>1. d \in DOMAIN fractionals
      BY <1>4, <1>5, <2>2
    <3> QED BY <1>1, <1>5, <3>1 DEF FractionsInv
  <2> QED BY <2>1, <2>2
<1>10. \A d \in 1 .. MaxContracts : d \notin DOMAIN fractionals' => redeemed'[d] = <<>>
  BY <1>1, <1>4, <1>5 DEF FractionsInv
<1>11. WrapperHoldsToken'
  <2> SUFFICES ASSUME NEW d \in 1 .. n, fractionals'[d].bound
               PROVE  /\ fractionalOf'[fractionals'[d].expectedTokenId] = d
                      /\ wrappedOwnerOf'[fractionals'[d].expectedTokenId] =
                            IF fractionals'[d].unlocked THEN NoOne ELSE d
    BY <1>5 DEF WrapperHoldsToken, Bound
  <2>1. d # n
    BY <1>2, <1>5
  <2>2. d \in DOMAIN fractionals
    BY <1>4, <1>5, <2>1
  <2> DEFINE g == fractionals[d]
  <2>3. fractionals'[d] = g /\ g.bound
    BY <1>5, <2>2
  <2>4. /\ g.expectedTokenId \in Nfts /\ fractionalOf[g.expectedTokenId] = d
        /\ wrappedOwnerOf[g.expectedTokenId] = IF g.unlocked THEN NoOne ELSE d
    BY <2>2, <2>3, BoundContract
  <2>5. g.expectedTokenId # t
    BY <1>1, <1>5, <2>2, <2>3, <2>4
  <2> HIDE DEF g
  <2> QED BY <1>1, <1>7, <2>3, <2>4, <2>5
<1> QED BY <1>8, <1>9, <1>10, <1>11 DEF FractionsInv

LEMMA BindKeeps ==
  ASSUME FractionsInv, NEW c \in DOMAIN fractionals, NEW n \in FractionCounts, Wrapped!Bind(c, n)
  PROVE  FractionsInv'
<1> DEFINE f == fractionals[c]
           u == f.expectedBinder
           t == f.expectedTokenId
           h == [f EXCEPT !.bound = TRUE, !.fractionCount = n, !.balanceOf[u] = n]
           r == <<>>
<1>1. /\ ~ f.bound /\ fractionalOf[t] = c /\ wrappedOwnerOf' = [wrappedOwnerOf EXCEPT ![t] = c]
      /\ fractionals' = [fractionals EXCEPT ![c] = h]
      /\ principal' = principal /\ earned' = earned /\ fractionalOf' = fractionalOf
      /\ redeemed' = redeemed
  BY DEF Wrapped!Bind, Wrapped!Canonical
<1>2. n \in Nat /\ n > 0
  BY FractionalAssumption
<1>3. /\ f \in FractionalType /\ f = Wrapped!Deployed(t, u) /\ (~ f.unlocked => redeemed[c] = <<>>)
  BY <1>1 DEF FractionsInv, Kept
<1>4. t \in Nfts /\ u \in Holders /\ c \in 1 .. MaxContracts
  <2>1. c \in 1 .. MaxContracts
    BY FractionalAssumption DEF FractionsInv, WrapperTypeOK
  <2> HIDE DEF f
  <2> QED BY <1>3, <2>1, FractionalFields
<1>5. /\ SoundFractions(h) /\ Counted(h) /\ h.expectedTokenId = t /\ h.bound /\ ~ h.unlocked
      /\ h.fractionCount = n /\ ~ f.unlocked
  <2> HIDE DEF f, h, t, u
  <2> DEFINE b == [f.balanceOf EXCEPT ![u] = n]
  <2>1. IsDeployed(f)
    <3> DEFINE d == Wrapped!Deployed(t, u)
    <3>1. IsDeployed(d)
      BY <1>4, DeployedFields
    <3> HIDE DEF d
    <3> QED BY <1>3, <3>1 DEF d
  <2>2. h = [f EXCEPT !.bound = TRUE, !.fractionCount = n, !.balanceOf = b]
    BY DEF h
  <2>3. f.balanceOf \in [Holders -> Nat] /\ b \in Holdings
    BY <1>2, <1>3 DEF FractionalType, Holdings
  <2>4. b = [f.balanceOf EXCEPT ![u] = n]
    OBVIOUS
  <2> HIDE DEF b
  <2>5. /\ BoundFrom(f, h, u, n) /\ h.bound /\ h.unlocked = f.unlocked
        /\ h.expectedTokenId = f.expectedTokenId /\ h.fractionCount = n
    <3>1. h \in FractionalType
      BY <1>2, <1>3, <2>2, <2>3 DEF FractionalType
    <3>2. /\ h.fractionCount = n /\ h.balanceOf = b
          /\ h.unlocked = f.unlocked /\ h.principalReturned = f.principalReturned
          /\ h.principalPaid = f.principalPaid
          /\ h.principalFractionsClaimed = f.principalFractionsClaimed
          /\ h.indexRay = f.indexRay /\ h.held = f.held
          /\ h.debtRayOf = f.debtRayOf /\ h.accruedOf = f.accruedOf
          /\ h.bound /\ h.expectedTokenId = f.expectedTokenId
      BY <1>3, <2>2 DEF FractionalType
    <3> QED BY <2>4, <3>1, <3>2 DEF BoundFrom
  <2>6. SoundFractions(h) /\ Counted(h)
    BY <1>2, <1>4, <2>1, <2>5, BoundIsSound
  <2>7. ~ f.unlocked /\ f.expectedTokenId = t
    BY <2>1 DEF IsDeployed, t
  <2> QED BY <2>5, <2>6, <2>7
<1> HIDE DEF f, h, t, u
<1>6. h \in FractionalType /\ h.principalReturned = 0 /\ h.principalPaid = 0 /\ h.principalFractionsClaimed = 0
  BY <1>5 DEF SoundFractions, NoPrincipalYet
<1>7. SharedOut(h, <<>>)
  BY <1>2, <1>5, <1>6, NothingDrawnIsShared
<1>8. <<>> \in Seq(Redemption)
  OBVIOUS
<1>9. Kept(h, r) /\ r \in Seq(Redemption)
  BY <1>5, <1>6, <1>7, <1>8 DEF Kept
<1>10. redeemed' = [redeemed EXCEPT ![c] = r]
  BY <1>1, <1>3, <1>4, <1>5 DEF FractionsInv, WrapperTypeOK
<1> HIDE DEF r
<1>11. wrappedOwnerOf \in [Nfts -> Holders \cup (1 .. MaxContracts) \cup {NoOne}]
  BY DEF FractionsInv, WrapperTypeOK
<1>12. /\ wrappedOwnerOf' \in [Nfts -> Holders \cup (1 .. MaxContracts) \cup {NoOne}]
       /\ wrappedOwnerOf'[h.expectedTokenId] = IF h.unlocked THEN NoOne ELSE c
       /\ \A x \in Nfts : x # h.expectedTokenId => wrappedOwnerOf'[x] = wrappedOwnerOf[x]
  BY <1>1, <1>4, <1>5, <1>11
<1>13. principal' \in [Nfts -> Nat] /\ earned' \in [Nfts -> PerReward]
  BY <1>1 DEF FractionsInv, WrapperTypeOK
<1>14. h.expectedTokenId = fractionals[c].expectedTokenId /\ fractionalOf[h.expectedTokenId] = c
  BY <1>1, <1>5 DEF t, f
<1> QED BY <1>1, <1>5, <1>9, <1>10, <1>12, <1>13, <1>14, OneContractChanges

LEMMA TransferKeeps ==
  ASSUME FractionsInv, NEW c \in DOMAIN fractionals, NEW u \in Holders, NEW v \in Holders,
         NEW n \in 0 .. fractionals[c].balanceOf[u], NEW answers \in Answers,
         Wrapped!TransferFractions(c, u, v, n, answers)
  PROVE  FractionsInv'
<1> DEFINE f == fractionals[c]
           t == f.expectedTokenId
           k == Wrapped!Indexed(f, Wrapped!Gains(t, answers))
           g == IF f.unlocked THEN f ELSE k
           b == [f.balanceOf EXCEPT ![u] = @ - n, ![v] = @ + n]
           h == Wrapped!Rebalanced(g, {u, v}, b)
<1>1. /\ f.bound /\ u # v /\ fractionals' = [fractionals EXCEPT ![c] = h]
      /\ earned' = (IF f.unlocked THEN earned ELSE [earned EXCEPT ![t] = Wrapped!Left(t, answers)])
      /\ wrappedOwnerOf' = wrappedOwnerOf /\ principal' = principal
      /\ fractionalOf' = fractionalOf /\ redeemed' = redeemed
  BY DEF Wrapped!TransferFractions
<1>2. f \in FractionalType /\ SoundFractions(f) /\ Counted(f) /\ t \in Nfts
  BY <1>1, BoundContract
<1> HIDE DEF f
<1>3. /\ Wrapped!Gains(t, answers) \in PerReward
      /\ [earned EXCEPT ![t] = Wrapped!Left(t, answers)] \in [Nfts -> PerReward]
  BY <1>2, HarvestParts
<1>4. SoundFractions(k) /\ Counted(k) /\ SameWrapper(f, k) /\ k.balanceOf = f.balanceOf
  BY <1>2, <1>3, IndexedIsSound
<1> HIDE DEF k, t
<1>5. SoundFractions(g) /\ Counted(g) /\ SameWrapper(f, g) /\ g.balanceOf = f.balanceOf
  BY <1>2, <1>4 DEF SameWrapper
<1>6. f.balanceOf \in Holdings
  BY <1>2 DEF FractionalType
<1>7. b \in Holdings /\ SumOf(Holders, b) = SumOf(Holders, f.balanceOf)
  <2>1. n \in 0 .. f.balanceOf[u]
    BY DEF f
  <2> QED BY <1>1, <1>6, <2>1, MovedAreCounted
<1>8. \A x \in Holders : x \notin {u, v} => b[x] = g.balanceOf[x]
  BY <1>5, <1>6 DEF Holdings
<1> HIDE DEF g, b
<1>9. SoundFractions(h) /\ SameWrapper(g, h) /\ h.balanceOf = b
  BY <1>5, <1>7, <1>8, RebalancedIsSound
<1> HIDE DEF h
<1>10. Counted(h) /\ SameWrapper(f, h)
  BY <1>5, <1>7, <1>9 DEF Counted, SameWrapper
<1>11. earned' \in [Nfts -> PerReward]
  BY <1>1, <1>3 DEF FractionsInv, WrapperTypeOK
<1> QED BY <1>1, <1>9, <1>10, <1>11, RewardsChange DEF f
LEMMA HarvestKeeps ==
  ASSUME FractionsInv, NEW c \in DOMAIN fractionals, NEW answers \in Answers,
         Wrapped!Harvest(c, answers)
  PROVE  FractionsInv'
<1> DEFINE f == fractionals[c]
           t == f.expectedTokenId
           h == Wrapped!Indexed(f, Wrapped!Gains(t, answers))
<1>1. /\ f.bound /\ fractionals' = [fractionals EXCEPT ![c] = h]
      /\ earned' = [earned EXCEPT ![t] = Wrapped!Left(t, answers)]
      /\ wrappedOwnerOf' = wrappedOwnerOf /\ principal' = principal
      /\ fractionalOf' = fractionalOf /\ redeemed' = redeemed
  BY DEF Wrapped!Harvest
<1>2. SoundFractions(f) /\ Counted(f) /\ t \in Nfts
  BY <1>1, BoundContract
<1> HIDE DEF f
<1>3. /\ Wrapped!Gains(t, answers) \in PerReward
      /\ [earned EXCEPT ![t] = Wrapped!Left(t, answers)] \in [Nfts -> PerReward]
  BY <1>2, HarvestParts
<1>4. SoundFractions(h) /\ Counted(h) /\ SameWrapper(f, h)
  BY <1>2, <1>3, IndexedIsSound
<1> HIDE DEF h, t
<1> QED BY <1>1, <1>3, <1>4, RewardsChange DEF f

LEMMA ClaimKeeps ==
  ASSUME FractionsInv, NEW c \in DOMAIN fractionals, NEW u \in Holders, NEW assets,
         Wrapped!Claim(c, u, assets)
  PROVE  FractionsInv'
<1> DEFINE f == fractionals[c]
           g == Wrapped!Rebalanced(f, {u}, f.balanceOf)
           h == [g EXCEPT !.held = [a \in Wrapped!RewardAssets |->
                               @[a] - (IF a \in assets THEN g.accruedOf[a][u] ELSE 0)],
                          !.accruedOf = [a \in Wrapped!RewardAssets |->
                               IF a \in assets THEN [g.accruedOf[a] EXCEPT ![u] = 0] ELSE @[a]]]
<1>1. /\ g.bound /\ fractionals' = [fractionals EXCEPT ![c] = h]
      /\ wrappedOwnerOf' = wrappedOwnerOf /\ principal' = principal /\ earned' = earned
      /\ fractionalOf' = fractionalOf /\ redeemed' = redeemed
  BY DEF Wrapped!Claim, Wrapped!nft
<1>2. g.bound = f.bound /\ f \in FractionalType
  <2>1. f \in FractionalType
    BY DEF FractionsInv, Kept
  <2> HIDE DEF f
  <2> QED BY <2>1 DEF Wrapped!Rebalanced, FractionalType
<1>3. SoundFractions(f) /\ Counted(f)
  BY <1>1, <1>2, BoundContract
<1> HIDE DEF f
<1>4. f.balanceOf \in Holdings
  BY <1>2 DEF FractionalType
<1>5. SoundFractions(g) /\ SameWrapper(f, g) /\ g.balanceOf = f.balanceOf
  BY <1>3, <1>4, RebalancedIsSound
<1> HIDE DEF g
<1>6. PaidOut(g, h, u, assets)
  BY DEF PaidOut
<1> HIDE DEF h
<1>7. SoundFractions(h) /\ SameWrapper(g, h) /\ h.balanceOf = g.balanceOf
  BY <1>5, <1>6, ClaimedIsSound
<1>8. Counted(h) /\ SameWrapper(f, h)
  BY <1>3, <1>5, <1>7 DEF Counted, SameWrapper
<1>9. earned' \in [Nfts -> PerReward]
  BY <1>1 DEF FractionsInv, WrapperTypeOK
<1>10. f.bound
  BY <1>1, <1>2
<1> QED BY <1>1, <1>7, <1>8, <1>9, <1>10, RewardsChange DEF f

LEMMA ReceiveEthKeeps ==
  ASSUME FractionsInv, NEW c \in DOMAIN fractionals, Wrapped!ReceiveEth(c)
  PROVE  FractionsInv'
<1> DEFINE f == fractionals[c]
           one == [Wrapped!Nothing EXCEPT !["eth"] = 1]
           h == Wrapped!Indexed(f, one)
<1>1. /\ f.bound /\ fractionals' = [fractionals EXCEPT ![c] = h]
      /\ wrappedOwnerOf' = wrappedOwnerOf /\ principal' = principal /\ earned' = earned
      /\ fractionalOf' = fractionalOf /\ redeemed' = redeemed
  BY DEF Wrapped!ReceiveEth, Wrapped!nft
<1>2. SoundFractions(f) /\ Counted(f)
  BY <1>1, BoundContract
<1> HIDE DEF f
<1>3. one \in PerReward
  BY FractionConstants DEF PerReward, Wrapped!Nothing
<1> HIDE DEF one
<1>4. SoundFractions(h) /\ Counted(h) /\ SameWrapper(f, h)
  BY <1>2, <1>3, IndexedIsSound
<1> HIDE DEF h
<1>5. earned' \in [Nfts -> PerReward]
  BY <1>1 DEF FractionsInv, WrapperTypeOK
<1> QED BY <1>1, <1>4, <1>5, RewardsChange DEF f

LEMMA UnlockKeeps ==
  ASSUME FractionsInv, NEW c \in DOMAIN fractionals, NEW answers \in Answers,
         Wrapped!UnlockPosition(c, answers)
  PROVE  FractionsInv'
<1> DEFINE f == fractionals[c]
           t == f.expectedTokenId
           left == Wrapped!Left(t, answers)
           late == [Wrapped!Nothing EXCEPT !["eth"] = left["eth"]]
           k == Wrapped!Indexed(f, Wrapped!Gains(t, answers))
           g == Wrapped!Indexed(k, late)
           p == principal[t] + left["nara"]
           h == [g EXCEPT !.unlocked = TRUE, !.principalReturned = p,
                          !.held["nara"] = @ + principal[t] + left["nara"]]
           r == redeemed[c]
<1>1. /\ f.bound /\ ~ f.unlocked /\ fractionals' = [fractionals EXCEPT ![c] = h]
      /\ wrappedOwnerOf' = [wrappedOwnerOf EXCEPT ![t] = NoOne]
      /\ principal' = [principal EXCEPT ![t] = 0]
      /\ earned' = [earned EXCEPT ![t] = [Wrapped!Nothing EXCEPT !["usdc"] = left["usdc"]]]
      /\ fractionalOf' = fractionalOf /\ redeemed' = redeemed
  BY DEF Wrapped!UnlockPosition, Wrapped!Returned
<1>2. /\ f \in FractionalType /\ SoundFractions(f) /\ Counted(f) /\ t \in Nfts
      /\ r \in Seq(Redemption) /\ r = <<>> /\ fractionalOf[t] = c /\ c \in 1 .. MaxContracts
  BY <1>1, BoundContract
<1> HIDE DEF f
<1>3. Wrapped!Gains(t, answers) \in PerReward /\ left \in PerReward
  BY <1>2, HarvestParts
<1>4. SoundFractions(k) /\ Counted(k) /\ SameWrapper(f, k)
  BY <1>2, <1>3, IndexedIsSound
<1> HIDE DEF k, left
<1>5. late \in PerReward /\ left["nara"] \in Nat
      /\ [Wrapped!Nothing EXCEPT !["usdc"] = left["usdc"]] \in PerReward
  BY <1>3, FractionConstants DEF PerReward, Wrapped!Nothing, RewardAssets
<1> HIDE DEF late
<1>6. SoundFractions(g) /\ Counted(g) /\ SameWrapper(k, g)
  BY <1>4, <1>5, IndexedIsSound
<1> HIDE DEF g
<1>7. p \in Nat /\ principal[t] \in Nat
  BY <1>2, <1>5 DEF FractionsInv, WrapperTypeOK
<1>8. g \in FractionalType /\ g.held["nara"] \in Int /\ ~ g.unlocked
  <2>1. g \in FractionalType /\ "nara" \in RewardAssets
    BY <1>6 DEF SoundFractions, RewardAssets
  <2>2. ~ g.unlocked
    BY <1>1, <1>4, <1>6 DEF SameWrapper
  <2> QED BY <2>1, <2>2, FractionalFields
<1>9. GotBack(g, h, p)
  <2>1. g.held["nara"] + principal[t] + left["nara"] = g.held["nara"] + p
    BY <1>5, <1>7, <1>8
  <2> QED BY <2>1 DEF GotBack
<1> HIDE DEF p, h, t, r
<1>10. /\ SoundFractions(h) /\ h.balanceOf = g.balanceOf
       /\ h.expectedTokenId = g.expectedTokenId
       /\ h.bound = g.bound /\ h.unlocked /\ h.fractionCount = g.fractionCount
       /\ h.principalReturned = p /\ h.principalPaid = 0 /\ h.principalFractionsClaimed = 0
       /\ g.principalFractionsClaimed = 0
  BY <1>6, <1>7, <1>8, <1>9, UnlockedIsSound
<1>11. Counted(h) /\ SoundFractions(h) /\ h.bound /\ h.unlocked /\ h.expectedTokenId = t
  <2>1. g.bound = f.bound /\ g.expectedTokenId = f.expectedTokenId
    BY <1>4, <1>6 DEF SameWrapper
  <2> QED BY <1>1, <1>6, <1>10, <2>1 DEF Counted, t
<1>12. SharedOut(h, r)
  <2>1. h.fractionCount \in Nat \ {0}
    BY <1>11, FractionalFields DEF SoundFractions
  <2> QED BY <1>2, <1>7, <1>10, <2>1, NothingDrawnIsShared
<1>13. Kept(h, r) /\ h.expectedTokenId = fractionals[c].expectedTokenId
  BY <1>11, <1>12 DEF Kept, SoundFractions, f, t
<1>14. redeemed' = [redeemed EXCEPT ![c] = r]
  BY <1>1, <1>2 DEF FractionsInv, WrapperTypeOK, r
<1>15. /\ wrappedOwnerOf' \in [Nfts -> Holders \cup (1 .. MaxContracts) \cup {NoOne}]
       /\ wrappedOwnerOf'[h.expectedTokenId] = IF h.unlocked THEN NoOne ELSE c
       /\ \A x \in Nfts : x # h.expectedTokenId => wrappedOwnerOf'[x] = wrappedOwnerOf[x]
  <2>1. wrappedOwnerOf \in [Nfts -> Holders \cup (1 .. MaxContracts) \cup {NoOne}]
    BY DEF FractionsInv, WrapperTypeOK
  <2> QED BY <1>1, <1>2, <1>11, <2>1
<1>16. principal' \in [Nfts -> Nat] /\ earned' \in [Nfts -> PerReward]
  BY <1>1, <1>2, <1>5 DEF FractionsInv, WrapperTypeOK
<1>17. fractionalOf[h.expectedTokenId] = c
  BY <1>2, <1>11
<1> QED BY <1>1, <1>2, <1>11, <1>13, <1>14, <1>15, <1>16, <1>17, OneContractChanges

LEMMA ClaimPrincipalKeeps ==
  ASSUME FractionsInv, NEW c \in DOMAIN fractionals, NEW u \in Holders,
         Wrapped!ClaimPrincipal(c, u)
  PROVE  FractionsInv'
<1> DEFINE f == fractionals[c]
           n == f.balanceOf[u]
           s == Wrapped!PrincipalShare(f, n)
           h == [Wrapped!Rebalanced(f, {u}, [f.balanceOf EXCEPT ![u] = 0]) EXCEPT
                    !.principalClaimed = @ \cup {u},
                    !.principalFractionsClaimed = @ + n,
                    !.principalPaid = @ + s, !.held["nara"] = @ - s]
           r == Append(redeemed[c], [fractions |-> n, paid |-> s])
<1>1. /\ f.unlocked /\ n # 0 /\ fractionals' = [fractionals EXCEPT ![c] = h]
      /\ redeemed' = [redeemed EXCEPT ![c] = Append(@, [fractions |-> n, paid |-> s])]
      /\ wrappedOwnerOf' = wrappedOwnerOf /\ principal' = principal /\ earned' = earned
      /\ fractionalOf' = fractionalOf
  BY DEF Wrapped!ClaimPrincipal, Wrapped!nft
<1>2. f.bound
  <2> SUFFICES ASSUME ~ f.bound PROVE FALSE
    OBVIOUS
  <2>1. f \in FractionalType /\ f = Wrapped!Deployed(f.expectedTokenId, f.expectedBinder)
    BY DEF FractionsInv, Kept
  <2> HIDE DEF f
  <2>2. f.expectedTokenId \in Nfts /\ f.expectedBinder \in Holders
    BY <2>1, FractionalFields
  <2> DEFINE d == Wrapped!Deployed(f.expectedTokenId, f.expectedBinder)
  <2>3. ~ d.unlocked
    BY <2>2, DeployedFields DEF IsDeployed
  <2> HIDE DEF d
  <2>4. f = d
    BY <2>1 DEF d
  <2> QED BY <1>1, <2>3, <2>4
<1>3. /\ f \in FractionalType /\ SoundFractions(f) /\ Counted(f) /\ f.expectedTokenId \in Nfts
      /\ SharedOut(f, redeemed[c]) /\ redeemed[c] \in Seq(Redemption)
      /\ fractionalOf[f.expectedTokenId] = c /\ c \in 1 .. MaxContracts
      /\ wrappedOwnerOf[f.expectedTokenId] = IF f.unlocked THEN NoOne ELSE c
  BY <1>2, BoundContract
<1>4. redeemed' = [redeemed EXCEPT ![c] = r]
  BY <1>1
<1> HIDE DEF f
<1>5. /\ SoundFractions(h) /\ Counted(h)
      /\ h.expectedTokenId = f.expectedTokenId /\ h.bound = f.bound /\ h.unlocked = f.unlocked
      /\ h.fractionCount = f.fractionCount /\ h.principalReturned = f.principalReturned
      /\ h.principalFractionsClaimed = f.principalFractionsClaimed + n
      /\ h.principalPaid = f.principalPaid + s
  <2>1. SoundFractions(f) /\ Counted(f) /\ u \in Holders /\ f.unlocked
    BY <1>1, <1>3
  <2>2. /\ SoundFractions(h) /\ Counted(h)
        /\ h.expectedTokenId = f.expectedTokenId /\ h.bound = f.bound /\ h.unlocked = f.unlocked
    BY <2>1, RedeemedIsSound
  <2>3. /\ h.fractionCount = f.fractionCount /\ h.principalReturned = f.principalReturned
        /\ h.principalFractionsClaimed = f.principalFractionsClaimed + n
        /\ h.principalPaid = f.principalPaid + s
    BY <2>1, RedeemedIsSound
  <2> QED BY <2>2, <2>3
<1> HIDE DEF h
<1> DEFINE old == redeemed[c]
<1>6. old \in Seq(Redemption) /\ SharedOut(f, old)
  BY <1>3
<1> HIDE DEF old
<1>7. LET x == Append(old, [fractions |-> n, paid |-> s]) IN x \in Seq(Redemption) /\ SharedOut(h, x)
  BY <1>1, <1>3, <1>5, <1>6, RedeemedIsShared
<1>8. r \in Seq(Redemption) /\ SharedOut(h, r)
  BY <1>7 DEF old
<1> HIDE DEF r
<1>9. Kept(h, r)
  BY <1>1, <1>2, <1>5, <1>8 DEF Kept, SoundFractions
<1>10. h.bound /\ h.expectedTokenId = fractionals[c].expectedTokenId /\ fractionalOf[h.expectedTokenId] = c
  BY <1>2, <1>3, <1>5 DEF f
<1>11. /\ wrappedOwnerOf' \in [Nfts -> Holders \cup (1 .. MaxContracts) \cup {NoOne}]
       /\ wrappedOwnerOf'[h.expectedTokenId] = IF h.unlocked THEN NoOne ELSE c
       /\ \A x \in Nfts : x # h.expectedTokenId => wrappedOwnerOf'[x] = wrappedOwnerOf[x]
  BY <1>1, <1>3, <1>5 DEF FractionsInv, WrapperTypeOK
<1>12. principal' \in [Nfts -> Nat] /\ earned' \in [Nfts -> PerReward]
  BY <1>1 DEF FractionsInv, WrapperTypeOK
<1> QED BY <1>1, <1>4, <1>8, <1>9, <1>10, <1>11, <1>12, OneContractChanges
\* Steps of the NFTs and the engine leave the wrappers, and what they hold, alone.
LEMMA OutsideKeeps ==
  ASSUME FractionsInv, fractionals' = fractionals, fractionalOf' = fractionalOf,
         redeemed' = redeemed, principal' = principal, earned' \in [Nfts -> PerReward],
         wrappedOwnerOf' \in [Nfts -> Holders \cup (1 .. MaxContracts) \cup {NoOne}],
         \A t \in Nfts : wrappedOwnerOf'[t] = wrappedOwnerOf[t]
                         \/ wrappedOwnerOf[t] \in Holders
  PROVE  FractionsInv'
<1>1. WrapperTypeOK'
  BY DEF FractionsInv, WrapperTypeOK
<1>2. WrapperHoldsToken'
  <2> SUFFICES ASSUME NEW d \in DOMAIN fractionals, fractionals[d].bound
               PROVE  /\ fractionalOf[fractionals[d].expectedTokenId] = d
                      /\ wrappedOwnerOf'[fractionals[d].expectedTokenId] =
                            IF fractionals[d].unlocked THEN NoOne ELSE d
    BY DEF WrapperHoldsToken, Bound
  <2> DEFINE g == fractionals[d]
  <2>1. /\ g.expectedTokenId \in Nfts /\ fractionalOf[g.expectedTokenId] = d
        /\ wrappedOwnerOf[g.expectedTokenId] = (IF g.unlocked THEN NoOne ELSE d)
        /\ d \in 1 .. MaxContracts
    BY BoundContract
  <2> HIDE DEF g
  <2>2. wrappedOwnerOf[g.expectedTokenId] \notin Holders
    BY <2>1, FractionalAssumption
  <2>3. wrappedOwnerOf'[g.expectedTokenId] = wrappedOwnerOf[g.expectedTokenId]
    BY <2>1, <2>2
  <2> QED BY <2>1, <2>3 DEF g
<1> QED BY <1>1, <1>2 DEF FractionsInv

LEMMA NftStepKeeps ==
  ASSUME FractionsInv, NEW t \in Nfts,
         \/ \E u \in Holders : Wrapped!TransferNft(t, u)
         \/ \E a \in Wrapped!RewardAssets : Wrapped!Earn(t, a)
         \/ Wrapped!Mature(t)
  PROVE  FractionsInv'
<1>1. /\ wrappedOwnerOf \in [Nfts -> Holders \cup (1 .. MaxContracts) \cup {NoOne}]
      /\ earned \in [Nfts -> PerReward]
  BY DEF FractionsInv, WrapperTypeOK
<1>2. CASE \E u \in Holders : Wrapped!TransferNft(t, u)
  <2>1. PICK u \in Holders : Wrapped!TransferNft(t, u)
    BY <1>2
  <2>2. /\ wrappedOwnerOf[t] \in Holders /\ wrappedOwnerOf' = [wrappedOwnerOf EXCEPT ![t] = u]
        /\ fractionals' = fractionals /\ fractionalOf' = fractionalOf /\ redeemed' = redeemed
        /\ principal' = principal /\ earned' = earned
    BY <2>1 DEF Wrapped!TransferNft
  <2>3. /\ wrappedOwnerOf' \in [Nfts -> Holders \cup (1 .. MaxContracts) \cup {NoOne}]
        /\ \A x \in Nfts : wrappedOwnerOf'[x] = wrappedOwnerOf[x] \/ wrappedOwnerOf[x] \in Holders
    BY <1>1, <2>2
  <2>4. earned' \in [Nfts -> PerReward]
    BY <1>1, <2>2
  <2> QED BY <2>2, <2>3, <2>4, OutsideKeeps
<1>3. CASE \E a \in Wrapped!RewardAssets : Wrapped!Earn(t, a)
  <2>1. PICK a \in Wrapped!RewardAssets : Wrapped!Earn(t, a)
    BY <1>3
  <2>2. /\ earned' = [earned EXCEPT ![t][a] = @ + 1] /\ wrappedOwnerOf' = wrappedOwnerOf
        /\ fractionals' = fractionals /\ fractionalOf' = fractionalOf /\ redeemed' = redeemed
        /\ principal' = principal
    BY <2>1 DEF Wrapped!Earn
  <2>3. a \in RewardAssets
    BY FractionConstants
  <2>4. [earned[t] EXCEPT ![a] = earned[t][a] + 1] \in PerReward
    BY <1>1, <2>3 DEF PerReward
  <2>5. earned' \in [Nfts -> PerReward]
    <3>1. earned' = [earned EXCEPT ![t] = [earned[t] EXCEPT ![a] = earned[t][a] + 1]]
      BY <2>2
    <3> QED BY <1>1, <2>4, <3>1
  <2>6. /\ wrappedOwnerOf' \in [Nfts -> Holders \cup (1 .. MaxContracts) \cup {NoOne}]
        /\ \A x \in Nfts : wrappedOwnerOf'[x] = wrappedOwnerOf[x] \/ wrappedOwnerOf[x] \in Holders
    BY <1>1, <2>2
  <2> QED BY <2>2, <2>5, <2>6, OutsideKeeps
<1>4. CASE Wrapped!Mature(t)
  <2>1. /\ wrappedOwnerOf' = wrappedOwnerOf /\ earned' = earned
        /\ fractionals' = fractionals /\ fractionalOf' = fractionalOf /\ redeemed' = redeemed
        /\ principal' = principal
    BY <1>4 DEF Wrapped!Mature
  <2>2. /\ wrappedOwnerOf' \in [Nfts -> Holders \cup (1 .. MaxContracts) \cup {NoOne}]
        /\ \A x \in Nfts : wrappedOwnerOf'[x] = wrappedOwnerOf[x] \/ wrappedOwnerOf[x] \in Holders
        /\ earned' \in [Nfts -> PerReward]
    BY <1>1, <2>1
  <2> QED BY <2>1, <2>2, OutsideKeeps
<1> QED BY <1>2, <1>3, <1>4

LEMMA FractionsInit ==
  ASSUME Wrapped!Init
  PROVE  FractionsInv
<1>1. /\ wrappedOwnerOf \in [Nfts -> Holders] /\ principal \in [Nfts -> Principals]
      /\ earned = [t \in Nfts |-> Wrapped!Nothing] /\ fractionalOf = [t \in Nfts |-> 0]
      /\ fractionals = <<>> /\ redeemed = [c \in 1 .. MaxContracts |-> <<>>]
  BY DEF Wrapped!Init, Wrapped!Contracts
<1>2. Wrapped!Nothing \in PerReward /\ <<>> \in Seq(Redemption) /\ <<>> \in Seq(FractionalType)
  BY FractionConstants DEF PerReward, Wrapped!Nothing
<1>3. MaxContracts \in Nat /\ Principals \subseteq Nat
  BY FractionalAssumption
<1>4. DOMAIN fractionals = {} /\ Len(fractionals) = 0
  BY <1>1
<1>5. WrapperTypeOK
  <2>1. earned \in [Nfts -> PerReward] /\ redeemed \in [1 .. MaxContracts -> Seq(Redemption)]
    <3> DEFINE nothing == Wrapped!Nothing
               none == <<>>
    <3>1. earned = [t \in Nfts |-> nothing] /\ redeemed = [c \in 1 .. MaxContracts |-> none]
      BY <1>1
    <3>2. nothing \in PerReward /\ none \in Seq(Redemption)
      BY <1>2
    <3> HIDE DEF nothing, none
    <3> QED BY <3>1, <3>2
  <2>2. /\ wrappedOwnerOf \in [Nfts -> Holders \cup (1 .. MaxContracts) \cup {NoOne}]
        /\ principal \in [Nfts -> Nat]
    BY <1>1, <1>3
  <2>3. /\ fractionalOf \in [Nfts -> 0 .. MaxContracts] /\ \A t \in Nfts : fractionalOf[t] = 0
    BY <1>1, <1>3
  <2>4. fractionals \in Seq(FractionalType) /\ Len(fractionals) <= MaxContracts
    BY <1>1, <1>2, <1>3, <1>4
  <2> QED BY <2>1, <2>2, <2>3, <2>4 DEF WrapperTypeOK
<1> QED BY <1>1, <1>4, <1>5 DEF FractionsInv, WrapperHoldsToken, Bound

LEMMA FractionsStep ==
  ASSUME FractionsInv, [Wrapped!Next]_wrappedVars
  PROVE  FractionsInv'
<1>1. CASE Wrapped!Next
  <2>1. ASSUME NEW t \in Nfts, NEW u \in Holders, Wrapped!Create(u, t) PROVE FractionsInv'
    BY <2>1, CreateKeeps
  <2>2. ASSUME NEW t \in Nfts,
               \/ \E u \in Holders : Wrapped!TransferNft(t, u)
               \/ \E a \in Wrapped!RewardAssets : Wrapped!Earn(t, a)
               \/ Wrapped!Mature(t)
        PROVE  FractionsInv'
    BY <2>2, NftStepKeeps
  <2>3. ASSUME NEW c \in DOMAIN fractionals, NEW n \in FractionCounts, Wrapped!Bind(c, n)
        PROVE  FractionsInv'
    BY <2>3, BindKeeps
  <2>4. ASSUME NEW c \in DOMAIN fractionals, NEW u \in Holders, NEW v \in Holders,
               NEW answers \in Answers, NEW n \in 0 .. fractionals[c].balanceOf[u],
               Wrapped!TransferFractions(c, u, v, n, answers)
        PROVE  FractionsInv'
    BY <2>4, TransferKeeps
  <2>5. ASSUME NEW c \in DOMAIN fractionals, NEW answers \in Answers,
               Wrapped!Harvest(c, answers) \/ Wrapped!UnlockPosition(c, answers)
        PROVE  FractionsInv'
    BY <2>5, HarvestKeeps, UnlockKeeps
  <2>6. ASSUME NEW c \in DOMAIN fractionals, NEW u \in Holders,
               \/ Wrapped!Claim(c, u, {"nara", "usdc"}) \/ Wrapped!Claim(c, u, {"eth"})
               \/ Wrapped!ClaimPrincipal(c, u)
        PROVE  FractionsInv'
    BY <2>6, ClaimKeeps, ClaimPrincipalKeeps
  <2>7. ASSUME NEW c \in DOMAIN fractionals, Wrapped!ReceiveEth(c) PROVE FractionsInv'
    BY <2>7, ReceiveEthKeeps
  <2> QED BY <1>1, <2>1, <2>2, <2>3, <2>4, <2>5, <2>6, <2>7 DEF Wrapped!Next
<1>2. CASE UNCHANGED wrappedVars
  <2>1. /\ wrappedOwnerOf' = wrappedOwnerOf /\ earned' = earned
        /\ fractionals' = fractionals /\ fractionalOf' = fractionalOf /\ redeemed' = redeemed
        /\ principal' = principal
    BY <1>2 DEF wrappedVars
  <2>2. /\ wrappedOwnerOf' \in [Nfts -> Holders \cup (1 .. MaxContracts) \cup {NoOne}]
        /\ \A x \in Nfts : wrappedOwnerOf'[x] = wrappedOwnerOf[x] \/ wrappedOwnerOf[x] \in Holders
        /\ earned' \in [Nfts -> PerReward]
    BY <2>1 DEF FractionsInv, WrapperTypeOK
  <2> QED BY <2>1, <2>2, OutsideKeeps
<1> QED BY <1>1, <1>2

--------------------------------------------------------------------------------
(* What the wrappers promise                                                        *)

LEMMA FractionsInvariant == RewardsSpec => []FractionsInv
<1>1. RewardsInit => FractionsInv
  BY FractionsInit DEF RewardsInit
<1>2. FractionsInv /\ [RewardsNext]_rewardVars => FractionsInv'
  <2> SUFFICES ASSUME FractionsInv, [RewardsNext]_rewardVars PROVE FractionsInv'
    OBVIOUS
  <2>1. [Wrapped!Next]_wrappedVars
    BY DEF RewardsNext, rewardVars
  <2> QED BY <2>1, FractionsStep
<1> QED BY <1>1, <1>2, PTL DEF RewardsSpec

\* For any number of holders and wrappers, however rewards arrive and fractions move, and
\* whichever harvest fails, a wrapper holds of every asset all that its holders can still
\* claim of it, rewards and principal, and fractions are neither made nor lost.
THEOREM FractionsAreBacked == RewardsSpec => []FractionsBacked
<1>1. FractionsInv => FractionsBacked
  <2> SUFFICES ASSUME FractionsInv, NEW c \in Bound
               PROVE  LET f == fractionals[c]
                      IN  /\ \A a \in RewardAssets :
                                SumOf(Holders, [u \in Holders |-> Wrapped!Claimable(f, a, u)])
                                    + (IF a = "nara" THEN f.principalReturned - f.principalPaid ELSE 0)
                                <= f.held[a]
                          /\ SumOf(Holders, f.balanceOf) + f.principalFractionsClaimed = f.fractionCount
    BY DEF FractionsBacked
  <2> DEFINE f == fractionals[c]
  <2>1. c \in DOMAIN fractionals /\ f.bound
    BY DEF Bound
  <2>2. SoundFractions(f) /\ Counted(f)
    BY <2>1, BoundContract
  <2> HIDE DEF f
  <2>3. ASSUME NEW a \in RewardAssets
        PROVE  SumOf(Holders, [u \in Holders |-> Wrapped!Claimable(f, a, u)])
                   + (IF a = "nara" THEN f.principalReturned - f.principalPaid ELSE 0) <= f.held[a]
    <3>1. SumOf(Holders, [u \in Holders |-> Wrapped!Claimable(f, a, u)]) + Outstanding(f, a) <= f.held[a]
      BY <2>2, CoveredIsBacked
    <3> QED BY <3>1 DEF Outstanding
  <2>4. SumOf(Holders, f.balanceOf) + f.principalFractionsClaimed = f.fractionCount
    BY <2>2 DEF Counted
  <2> QED BY <2>3, <2>4 DEF f
<1> QED BY <1>1, FractionsInvariant, PTL

\* In whatever order holders redeem, each is paid its share of the principal up to a unit
\* for each claim before it, and the last fraction redeemed takes all that is left.
THEOREM PrincipalIsSharedOut == RewardsSpec => []PrincipalSharedOut
<1>1. FractionsInv => PrincipalSharedOut
  <2> SUFFICES ASSUME FractionsInv, NEW c \in Bound
               PROVE  LET f == fractionals[c]
                          due(i) == redeemed[c][i].fractions * f.principalReturned
                      IN  /\ \A i \in DOMAIN redeemed[c] :
                                /\ due(i) < (redeemed[c][i].paid + 1) * f.fractionCount
                                /\ redeemed[c][i].paid * f.fractionCount
                                      <= due(i) + (i - 1) * f.fractionCount
                          /\ f.principalFractionsClaimed = f.fractionCount
                                => f.principalPaid = f.principalReturned
    BY DEF PrincipalSharedOut
  <2> DEFINE f == fractionals[c]
             r == redeemed[c]
  <2>1. c \in DOMAIN fractionals /\ f.bound
    BY DEF Bound
  <2>2. f \in FractionalType /\ SharedOut(f, r)
    BY <2>1, BoundContract
  <2> HIDE DEF f, r
  <2>3. \A i \in DOMAIN r :
           /\ r[i].fractions * f.principalReturned < (r[i].paid + 1) * f.fractionCount
           /\ r[i].paid * f.fractionCount
                 <= r[i].fractions * f.principalReturned + (i - 1) * f.fractionCount
    BY <2>2 DEF SharedOut
  <2>4. f.principalFractionsClaimed = f.fractionCount => f.principalPaid = f.principalReturned
    <3>1. /\ f.principalFractionsClaimed \in Nat /\ f.fractionCount \in Nat
          /\ f.principalPaid \in Nat /\ f.principalReturned \in Nat
      BY <2>2, FractionalFields
    <3>2. f.fractionCount - f.principalFractionsClaimed = 0 => f.principalReturned - f.principalPaid = 0
      BY <2>2 DEF SharedOut
    <3> QED BY <3>1, <3>2
  <2> QED BY <2>3, <2>4 DEF f, r
<1> QED BY <1>1, FractionsInvariant, PTL

\* Through any number of wrappers made for a token and replaced, fractions exist only of the
\* one the registry names, and it holds the token until the position is unlocked.
THEOREM WrappersHoldTheirToken == RewardsSpec => []WrapperHoldsToken
<1>1. FractionsInv => WrapperHoldsToken
  BY DEF FractionsInv
<1> QED BY <1>1, FractionsInvariant, PTL
================================================================================
