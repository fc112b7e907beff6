---------------------------- MODULE NaraLedgerProofs ----------------------------
(* Lemmas about the operators of NaraEngine that carry the ledger, the record core, *)
(* from one epoch to the next: they keep its type, its weights exact and its books. *)
EXTENDS NaraEngineProperties, PrefixSumProofs, TLAPS

--------------------------------------------------------------------------------
(* Arithmetic *)

LEMMA MulDivIsNat ==
  ASSUME NEW x \in Nat, NEW y \in Nat, NEW d \in Nat \ {0}
  PROVE  MulDiv(x, y, d) \in Nat
<1>1. x * y \in Nat
  OBVIOUS
<1> QED BY <1>1 DEF MulDiv

\* A share of at most the whole is at most the whole.
LEMMA ShareIsNoMore ==
  ASSUME NEW a \in Nat, NEW b \in Nat, NEW d \in Nat \ {0}, b <= d
  PROVE  (a * b) \div d \in Nat /\ (a * b) \div d <= a
<1>1. a * b \in Nat
  OBVIOUS
<1> QED BY <1>1

LEMMA DivIsMonotone ==
  ASSUME NEW a \in Nat, NEW b \in Nat, a <= b, NEW d \in Nat \ {0}
  PROVE  a \div d \in Nat /\ a \div d <= b \div d
OBVIOUS

LEMMA ComputeWeightIsNat ==
  ASSUME NEW cfg \in Configs, NEW amount \in Nat, NEW dur \in Nat
  PROVE  ComputeWeight(cfg, amount, dur) \in Nat
<1> DEFINE r  == (dur * WAD) \div cfg.maxLockEpochs
           r2 == (r * r) \div WAD
           a  == (cfg.durationLinearWad * r) \div WAD
           b  == (cfg.durationQuadraticWad * r2) \div WAD
<1>1. /\ cfg.maxLockEpochs \in Nat \ {0} /\ WAD \in Nat \ {0}
      /\ cfg.durationLinearWad \in Nat /\ cfg.durationQuadraticWad \in Nat
  BY ConfigAssumption, WadAssumption DEF ConfigType
<1>2. r \in Nat
  <2>1. dur * WAD \in Nat
    BY <1>1
  <2> QED BY <1>1, <2>1
<1>3. r2 \in Nat
  <2> HIDE DEF r
  <2>1. r * r \in Nat
    BY <1>2
  <2> QED BY <1>1, <2>1
<1>4. a \in Nat
  <2> HIDE DEF r
  <2>1. cfg.durationLinearWad * r \in Nat
    BY <1>1, <1>2
  <2> QED BY <1>1, <2>1
<1>5. b \in Nat
  <2> HIDE DEF r2
  <2>1. cfg.durationQuadraticWad * r2 \in Nat
    BY <1>1, <1>3
  <2> QED BY <1>1, <2>1
<1>6. ComputeWeight(cfg, amount, dur) = (amount * (WAD + a + b)) \div WAD
  BY DEF ComputeWeight
<1> HIDE DEF r, r2, a, b
<1>7. amount * (WAD + a + b) \in Nat
  BY <1>1, <1>4, <1>5
<1> QED BY <1>1, <1>6, <1>7

--------------------------------------------------------------------------------
(* What a step of the ledger leaves alone *)

SameWeights(c, d) ==
    /\ d.epoch = c.epoch /\ d.activeTotalWeight = c.activeTotalWeight
    /\ d.scheduledActivationWeight = c.scheduledActivationWeight
    /\ d.scheduledDeactivationWeight = c.scheduledDeactivationWeight
SameConfig(c, d) ==
    /\ d.config = c.config /\ d.stagedConfig = c.stagedConfig
    /\ d.stagedConfigEpoch = c.stagedConfigEpoch
SameBooks(c, d) ==
    /\ d.balance = c.balance /\ d.trackedEmissionReserve = c.trackedEmissionReserve
    /\ d.totalNaraDripPaid = c.totalNaraDripPaid
    /\ d.totalPendingNaraRewards = c.totalPendingNaraRewards /\ d.reserve = c.reserve

\* The indices, the ETH queued and the NARA distributed.
SameIndices(c, d) ==
    /\ d.naraIndexRay = c.naraIndexRay /\ d.naraIndexAtEpoch = c.naraIndexAtEpoch
    /\ d.ethIndexRay = c.ethIndexRay /\ d.ethIndexAtEpoch = c.ethIndexAtEpoch
    /\ d.pendingEthForNextEpoch = c.pendingEthForNextEpoch
    /\ d.totalNaraDripPaid = c.totalNaraDripPaid

\* gained is shared out over the weight W by a rise of the index, which rounds it down
\* by less than one RAY-th of a unit of weight.
IsRise(rise, W, gained) == /\ rise \in Nat /\ rise * W <= RAY * gained
                           /\ RAY * gained <= (rise + 1) * W
\* d distributes NARA, or ETH, to the weight W of c, whose indices rise.
EmitsNara(c, d, W) ==
    \E gained \in Nat, rise \in Nat :
        /\ IsRise(rise, W, gained)
        /\ d.totalNaraDripPaid = c.totalNaraDripPaid + gained
        /\ d.naraIndexRay = c.naraIndexRay + rise
SameEth(c, d) == /\ d.ethIndexRay = c.ethIndexRay
                 /\ d.pendingEthForNextEpoch = c.pendingEthForNextEpoch
EmitsEth(c, d, W) ==
    \E gained \in Nat, rise \in Nat :
        /\ IsRise(rise, W, gained)
        /\ d.pendingEthForNextEpoch = c.pendingEthForNextEpoch - gained
        /\ d.ethIndexRay = c.ethIndexRay + rise
SameNara(c, d) == /\ d.naraIndexRay = c.naraIndexRay
                  /\ d.totalNaraDripPaid = c.totalNaraDripPaid
SameNotes(c, d) == /\ d.naraIndexAtEpoch = c.naraIndexAtEpoch
                   /\ d.ethIndexAtEpoch = c.ethIndexAtEpoch
\* The index of an epoch written down.
Noted(A, x, v) == [A EXCEPT ![x] = v]

LEMMA RiseOfIndex ==
  ASSUME NEW gained \in Nat, NEW W \in Nat \ {0}
  PROVE  IsRise(MulDiv(gained, RAY, W), W, gained)
<1> DEFINE k == gained * RAY
<1>1. k \in Nat /\ MulDiv(gained, RAY, W) = k \div W /\ RAY * gained = k
  BY RayAssumption DEF MulDiv
<1> HIDE DEF k
<1> DEFINE q == k \div W
<1>2. q \in Nat /\ W * q <= k /\ k < W * q + W
  BY <1>1
<1> HIDE DEF q
<1>3. q * W = W * q /\ (q + 1) * W = W * q + W /\ W * q \in Nat
  BY <1>2
<1>4. q * W <= k /\ k <= (q + 1) * W
  BY <1>1, <1>2, <1>3
<1> QED BY <1>1, <1>2, <1>4 DEF IsRise, q

LEMMA NothingGained == ASSUME NEW W \in Nat PROVE IsRise(0, W, 0)
<1>1. 0 * W = 0 /\ (0 + 1) * W = W /\ RAY * 0 = 0
  BY RayAssumption
<1> QED BY <1>1 DEF IsRise

(* The books of a ledger, for the principal and the rewards claimed beside it.  The *)
(* second conjunct makes the first one inductive: rewards that a clamped pending    *)
(* counter forgets have been claimed, so topping the reserve up never takes them.   *)
Books(c, locked, claimed) ==
    /\ c.balance + claimed >= locked + c.trackedEmissionReserve + c.totalNaraDripPaid
    /\ c.totalPendingNaraRewards + claimed >= c.totalNaraDripPaid
    /\ c.reserve.totalReleased <= c.reserve.allocation
    /\ c.balance + c.reserve.balance <= Supply

LEMMA TopUpKeeps ==
  ASSUME NEW c, c \in CoreType, NEW locked \in Nat, NEW claimed \in Nat
  PROVE  /\ TopUp(c, locked) \in CoreType
         /\ SameWeights(c, TopUp(c, locked)) /\ SameConfig(c, TopUp(c, locked))
         /\ SameIndices(c, TopUp(c, locked))
         /\ Books(c, locked, claimed) => Books(TopUp(c, locked), locked, claimed)
<1>1. TopUp(c, locked) \in CoreType
  BY DEF TopUp, CoreType, SaturatingSub, Reserved
<1>2. /\ SameWeights(c, TopUp(c, locked)) /\ SameConfig(c, TopUp(c, locked))
      /\ SameIndices(c, TopUp(c, locked))
  BY DEF TopUp, CoreType, SameWeights, SameConfig, SameIndices
<1>3. Books(c, locked, claimed) => Books(TopUp(c, locked), locked, claimed)
  BY DEF TopUp, CoreType, SaturatingSub, Reserved, Books
<1> QED BY <1>1, <1>2, <1>3

LEMMA ApplyStagedConfigKeeps ==
  ASSUME NEW c, c \in CoreType, NEW e \in Epochs,
         c.stagedConfigEpoch = e => c.stagedConfig \in Configs
  PROVE  LET d == ApplyStagedConfig(c, e)
         IN  /\ d \in CoreType /\ SameWeights(c, d) /\ SameBooks(c, d) /\ SameIndices(c, d)
             /\ c.stagedConfigEpoch = e => d.stagedConfigEpoch = 0 /\ d.stagedConfig = NoConfig
             /\ c.stagedConfigEpoch # e => SameConfig(c, d)
BY DEF ApplyStagedConfig, CoreType, SameWeights, SameBooks, SameConfig, SameIndices

LEMMA ApplyScheduleKeeps ==
  ASSUME NEW c, c \in CoreType, NEW e \in Epochs
  PROVE  LET d == ApplySchedule(c, e)
         IN  /\ d \in CoreType /\ SameConfig(c, d) /\ SameBooks(c, d) /\ d.epoch = c.epoch
             /\ SameIndices(c, d)
             /\ d.activeTotalWeight =
                    SaturatingSub(c.activeTotalWeight + c.scheduledActivationWeight[e],
                                  c.scheduledDeactivationWeight[e])
             /\ \A x \in Epochs : x # e =>
                    /\ d.scheduledActivationWeight[x] = c.scheduledActivationWeight[x]
                    /\ d.scheduledDeactivationWeight[x] = c.scheduledDeactivationWeight[x]
<1> DEFINE a == [c.scheduledActivationWeight EXCEPT ![e] = 0]
           b == [c.scheduledDeactivationWeight EXCEPT ![e] = 0]
           v == SaturatingSub(c.activeTotalWeight + c.scheduledActivationWeight[e],
                              c.scheduledDeactivationWeight[e])
<1>1. ApplySchedule(c, e) = [c EXCEPT !.activeTotalWeight = v,
                                      !.scheduledActivationWeight = a,
                                      !.scheduledDeactivationWeight = b]
  BY DEF ApplySchedule
<1>2. a \in [Epochs -> Nat] /\ b \in [Epochs -> Nat] /\ v \in Nat
  BY DEF CoreType, SaturatingSub
<1>3. \A x \in Epochs : x # e => /\ a[x] = c.scheduledActivationWeight[x]
                                 /\ b[x] = c.scheduledDeactivationWeight[x]
  BY DEF CoreType
<1> HIDE DEF a, b
<1>4. ApplySchedule(c, e) \in CoreType
  <2> HIDE DEF v
  <2> QED BY <1>1, <1>2 DEF CoreType
<1>5. /\ SameConfig(c, ApplySchedule(c, e)) /\ SameBooks(c, ApplySchedule(c, e))
      /\ ApplySchedule(c, e).epoch = c.epoch /\ ApplySchedule(c, e).activeTotalWeight = v
      /\ ApplySchedule(c, e).scheduledActivationWeight = a
      /\ ApplySchedule(c, e).scheduledDeactivationWeight = b
      /\ SameIndices(c, ApplySchedule(c, e))
  <2> HIDE DEF v
  <2> QED BY <1>1 DEF CoreType, SameConfig, SameBooks, SameIndices
<1> QED BY <1>3, <1>4, <1>5

LEMMA DistributeEthKeeps ==
  ASSUME NEW c, c \in CoreType
  PROVE  LET d == DistributeEth(c)
         IN  /\ d \in CoreType /\ SameWeights(c, d) /\ SameConfig(c, d) /\ SameBooks(c, d)
             /\ EmitsEth(c, d, c.activeTotalWeight) /\ SameNara(c, d) /\ SameNotes(c, d)
<1>1. CASE c.activeTotalWeight = 0
  <2>1. DistributeEth(c) = c
    BY <1>1 DEF DistributeEth
  <2>2. c.pendingEthForNextEpoch = c.pendingEthForNextEpoch - 0
        /\ c.ethIndexRay = c.ethIndexRay + 0
    BY DEF CoreType
  <2>3. IsRise(0, c.activeTotalWeight, 0)
    BY NothingGained DEF CoreType
  <2>4. EmitsEth(c, c, c.activeTotalWeight)
    BY <2>2, <2>3 DEF EmitsEth
  <2> QED BY <2>1, <2>4 DEF SameWeights, SameConfig, SameBooks, SameNara, SameNotes
<1>2. CASE c.activeTotalWeight # 0
  <2> DEFINE x == c.ethIndexRay + MulDiv(c.pendingEthForNextEpoch, RAY, c.activeTotalWeight)
  <2>1. DistributeEth(c) = [c EXCEPT !.pendingEthForNextEpoch = 0, !.ethIndexRay = x]
    BY <1>2 DEF DistributeEth
  <2>2. x \in Nat
    <3>1. /\ c.pendingEthForNextEpoch \in Nat /\ c.activeTotalWeight \in Nat \ {0}
          /\ c.ethIndexRay \in Nat /\ RAY \in Nat
      BY <1>2, RayAssumption DEF CoreType
    <3>2. MulDiv(c.pendingEthForNextEpoch, RAY, c.activeTotalWeight) \in Nat
      BY <3>1, MulDivIsNat
    <3> QED BY <3>1, <3>2
  <2> HIDE DEF x
  <2> DEFINE none == 0
  <2>3. none \in Nat
    OBVIOUS
  <2>4. DistributeEth(c) = [c EXCEPT !.pendingEthForNextEpoch = none, !.ethIndexRay = x]
    BY <2>1
  <2> HIDE DEF none
  <2>5. DistributeEth(c) \in CoreType
    BY Zenon, <2>2, <2>3, <2>4 DEF CoreType
  <2>6. /\ DistributeEth(c).pendingEthForNextEpoch = 0 /\ DistributeEth(c).ethIndexRay = x
        /\ SameNara(c, DistributeEth(c)) /\ SameNotes(c, DistributeEth(c))
    BY <2>1 DEF CoreType, SameNara, SameNotes
  <2>7. EmitsEth(c, DistributeEth(c), c.activeTotalWeight)
    <3> DEFINE gained == c.pendingEthForNextEpoch
               rise == MulDiv(gained, RAY, c.activeTotalWeight)
    <3>1. gained \in Nat /\ c.activeTotalWeight \in Nat \ {0}
      BY <1>2 DEF CoreType
    <3>2. IsRise(rise, c.activeTotalWeight, gained)
      BY <3>1, RiseOfIndex
    <3>3. rise \in Nat
      BY <3>2 DEF IsRise
    <3>4. 0 = c.pendingEthForNextEpoch - gained
      BY <3>1
    <3>5. x = c.ethIndexRay + rise
      BY DEF x
    <3> HIDE DEF gained, rise
    <3> QED BY <2>6, <3>1, <3>2, <3>3, <3>4, <3>5 DEF EmitsEth
  <2> QED BY <2>1, <2>5, <2>6, <2>7 DEF CoreType, SameWeights, SameConfig, SameBooks
<1> QED BY <1>1, <1>2

LEMMA ReleaseKeeps ==
  ASSUME NEW r, r \in ReserveType, NEW amount \in Nat, amount <= r.balance,
         r.totalReleased + amount <= r.allocation
  PROVE  LET s == ReleaseToEngine(r, amount)
         IN  /\ s \in ReserveType /\ s.totalReleased <= s.allocation
             /\ s.balance = r.balance - amount
<1> DEFINE x == r.totalReleased + amount
           y == r.balance - amount
           s == [r EXCEPT !.totalReleased = x, !.balance = y]
<1>1. ReleaseToEngine(r, amount) = s
  BY DEF ReleaseToEngine
<1>2. x \in Nat /\ y \in Nat /\ x <= r.allocation
  BY DEF ReserveType
<1> HIDE DEF x
<1>3. s \in ReserveType
  <2> HIDE DEF y
  <2> QED BY <1>2 DEF ReserveType
<1>4. s.totalReleased = x /\ s.balance = y /\ s.allocation = r.allocation
  BY DEF ReserveType
<1> QED BY <1>1, <1>2, <1>3, <1>4

\* The two updates of the epoch step's distribution, named so that the provers can
\* match them.
IsPulled(c, d, b, r) == d = [c EXCEPT !.balance = b, !.reserve = r]
IsEmitted(c, d, w, x, y, z) ==
    d = [c EXCEPT !.trackedEmissionReserve = w, !.totalPendingNaraRewards = x,
                  !.totalNaraDripPaid = y, !.naraIndexRay = z]
\* What the second one books.
IsBooked(c, d, w, x, y) ==
    /\ d.balance = c.balance /\ d.reserve = c.reserve
    /\ d.trackedEmissionReserve = w
    /\ d.totalPendingNaraRewards = x
    /\ d.totalNaraDripPaid = y

LEMMA PulledShape ==
  ASSUME NEW c, c \in CoreType, NEW b, b \in Nat, NEW r, r \in ReserveType,
         NEW d, IsPulled(c, d, b, r)
  PROVE  /\ d \in CoreType /\ SameWeights(c, d) /\ SameConfig(c, d)
         /\ d.balance = b /\ d.reserve = r
         /\ d.trackedEmissionReserve = c.trackedEmissionReserve
         /\ d.totalNaraDripPaid = c.totalNaraDripPaid
         /\ d.totalPendingNaraRewards = c.totalPendingNaraRewards
         /\ SameIndices(c, d)
<1>1. d \in CoreType
  BY Zenon DEF CoreType, IsPulled
<1>2. SameWeights(c, d) /\ SameConfig(c, d) /\ SameIndices(c, d)
  BY DEF CoreType, IsPulled, SameWeights, SameConfig, SameIndices
<1> QED BY <1>1, <1>2 DEF CoreType, IsPulled

LEMMA EmittedShape ==
  ASSUME NEW c, c \in CoreType, NEW w, w \in Nat, NEW x, x \in Nat, NEW y, y \in Nat,
         NEW z, z \in Nat,
         NEW d, IsEmitted(c, d, w, x, y, z)
  PROVE  /\ d \in CoreType /\ SameWeights(c, d) /\ SameConfig(c, d)
         /\ IsBooked(c, d, w, x, y) /\ d.naraIndexRay = z /\ SameEth(c, d) /\ SameNotes(c, d)
<1>1. d \in CoreType
  BY Zenon DEF CoreType, IsEmitted
<1>2. /\ SameWeights(c, d) /\ SameConfig(c, d) /\ d.naraIndexRay = z
      /\ SameEth(c, d) /\ SameNotes(c, d)
  BY DEF CoreType, IsEmitted, SameWeights, SameConfig, SameEth, SameNotes
<1> QED BY <1>1, <1>2 DEF CoreType, IsEmitted, IsBooked

\* The distribution of an epoch: its type, and the books across pull and emission.
LEMMA EmitKeeps ==
  ASSUME NEW c, c \in CoreType, NEW locked \in Nat, NEW draw, draw.target \in Nat,
         c.reserve.totalReleased <= c.reserve.allocation,
         LET shortfall == Shortfall(c, locked, Target(c, draw), draw.mood)
         IN  CanPull(c, shortfall, draw.mood)
             => Arrived(Pull(c, shortfall, draw.mood), locked, EmissionReserve(c, locked)) >= 0
  PROVE  LET d == Emit(c, locked, draw)
         IN  /\ d \in CoreType /\ SameWeights(c, d) /\ SameConfig(c, d)
             /\ EmitsNara(c, d, c.activeTotalWeight) /\ SameEth(c, d) /\ SameNotes(c, d)
             /\ \A claimed \in Nat :
                    Books(c, locked, claimed) => Books(d, locked, claimed)
<1> DEFINE target    == Target(c, draw)
           local     == EmissionReserve(c, locked)
           available == RewardReserveAvailable(c, draw.mood)
           wanted    == Wanted(c, locked, target, draw.mood)
           shortfall == Shortfall(c, locked, target, draw.mood)
           pulls     == CanPull(c, shortfall, draw.mood)
           pulled    == Pull(c, shortfall, draw.mood)
           received  == IF pulls THEN MinOf(shortfall, Arrived(pulled, locked, local)) ELSE 0
           emitted   == IF shortfall = 0 THEN wanted ELSE local + received
           index     == IF emitted > 0
                        THEN pulled.naraIndexRay + MulDiv(emitted, RAY, c.activeTotalWeight)
                        ELSE pulled.naraIndexRay
<1>1. target \in Nat /\ (target > 0 => c.activeTotalWeight > 0)
  BY DEF Target
<1>2. local \in Nat /\ local <= c.trackedEmissionReserve
  BY DEF EmissionReserve, MinOf, SaturatingSub, Reserved, CoreType
<1>3. available \in Nat
  BY DEF RewardReserveAvailable, AvailableRewards, RemainingAllocation, CoreType, ReserveType
<1>4. wanted \in Nat /\ wanted <= target /\ wanted <= local + available
  BY <1>1, <1>2, <1>3 DEF Wanted, MinOf
<1>5. /\ shortfall \in Nat /\ shortfall <= wanted
      /\ shortfall = 0 => wanted <= local
  <2>1. shortfall = SaturatingSub(wanted, local)
    BY DEF Shortfall
  <2> HIDE DEF wanted, local, shortfall
  <2> QED BY <2>1, <1>2, <1>4 DEF SaturatingSub
<1>6. pulls => /\ shortfall > 0 /\ shortfall <= c.reserve.balance
               /\ c.reserve.totalReleased + shortfall <= c.reserve.allocation
  <2> HIDE DEF shortfall
  <2> QED BY <1>5 DEF CanPull, CanRelease, AvailableRewards, RemainingAllocation,
                      CoreType, ReserveType
<1>7. /\ pulled \in CoreType /\ SameWeights(c, pulled) /\ SameConfig(c, pulled)
      /\ pulled.trackedEmissionReserve = c.trackedEmissionReserve
      /\ pulled.totalNaraDripPaid = c.totalNaraDripPaid
      /\ pulled.totalPendingNaraRewards = c.totalPendingNaraRewards
      /\ pulled.reserve.totalReleased <= pulled.reserve.allocation
      /\ pulled.balance + pulled.reserve.balance = c.balance + c.reserve.balance
      /\ pulled.balance = c.balance + (IF pulls THEN shortfall ELSE 0)
      /\ SameIndices(c, pulled)
  <2>1. CASE ~ pulls
    <3>1. pulled = c
      BY <2>1 DEF Pull
    <3> HIDE DEF pulled, pulls
    <3> QED BY <3>1, <2>1 DEF SameWeights, SameConfig, CoreType, ReserveType, SameIndices
  <2>2. CASE pulls
    <3> DEFINE r == ReleaseToEngine(c.reserve, shortfall)
    <3>1. pulled = [c EXCEPT !.balance = @ + shortfall, !.reserve = r]
      BY <2>2 DEF Pull
    <3> HIDE DEF shortfall, pulls, pulled
    <3>2. c.reserve \in ReserveType /\ c.balance \in Nat
      BY DEF CoreType
    <3>3. /\ r \in ReserveType /\ r.totalReleased <= r.allocation
          /\ r.balance = c.reserve.balance - shortfall
      BY <3>2, <1>5, <1>6, <2>2, ReleaseKeeps
    <3> HIDE DEF r
    <3> DEFINE b == c.balance + shortfall
    <3>6. b \in Nat /\ IsPulled(c, pulled, b, r)
      BY <3>1, <3>2, <1>5 DEF IsPulled
    <3> HIDE DEF b
    <3>7. /\ pulled \in CoreType /\ SameWeights(c, pulled) /\ SameConfig(c, pulled)
          /\ pulled.reserve = r /\ pulled.balance = b
          /\ pulled.trackedEmissionReserve = c.trackedEmissionReserve
          /\ pulled.totalNaraDripPaid = c.totalNaraDripPaid
          /\ pulled.totalPendingNaraRewards = c.totalPendingNaraRewards
          /\ SameIndices(c, pulled)
      BY <3>3, <3>6, PulledShape
    <3>5. c.reserve.balance \in Nat
      BY <3>2 DEF ReserveType
    <3> QED BY <3>2, <3>3, <3>7, <3>5, <2>2, <1>5 DEF b
  <2> QED BY <2>1, <2>2
<1>8. received \in Nat /\ received <= (IF pulls THEN shortfall ELSE 0)
  <2>1. pulls => Arrived(pulled, locked, local) >= 0
    OBVIOUS
  <2>2. Arrived(pulled, locked, local) \in Int
    BY <1>7, <1>2 DEF Arrived, Reserved, CoreType
  <2> HIDE DEF pulls, pulled, local, shortfall
  <2> QED BY <2>1, <2>2, <1>5 DEF MinOf
<1>9. emitted \in Nat /\ emitted <= local + received /\ (emitted > 0 => wanted > 0)
  <2>1. shortfall > 0 => wanted > 0
    BY <1>4, <1>5
  <2> HIDE DEF wanted, shortfall, local, received
  <2> QED BY <2>1, <1>2, <1>4, <1>5, <1>8
<1>10. index \in Nat
  <2>1. pulled.naraIndexRay \in Nat
    BY <1>7 DEF CoreType
  <2>2. CASE emitted > 0
    <3>1. c.activeTotalWeight \in Nat \ {0}
      BY <2>2, <1>1, <1>4, <1>9 DEF CoreType
    <3>2. MulDiv(emitted, RAY, c.activeTotalWeight) \in Nat
      <4> HIDE DEF emitted
      <4> QED BY <3>1, <1>9, RayAssumption, MulDivIsNat
    <3> HIDE DEF emitted, pulled
    <3> QED BY <2>1, <2>2, <3>2
  <2>3. CASE ~ (emitted > 0)
    <3> HIDE DEF emitted, pulled
    <3> QED BY <2>1, <2>3
  <2> QED BY <2>2, <2>3
<1>16. /\ emitted > 0 => c.activeTotalWeight \in Nat \ {0}
       /\ index = IF emitted > 0
                  THEN c.naraIndexRay + MulDiv(emitted, RAY, c.activeTotalWeight)
                  ELSE c.naraIndexRay
  <2>1. emitted > 0 => c.activeTotalWeight \in Nat \ {0}
    BY <1>1, <1>4, <1>9 DEF CoreType
  <2>2. pulled.naraIndexRay = c.naraIndexRay
    BY <1>7 DEF SameIndices
  <2> HIDE DEF emitted, pulled
  <2> QED BY <2>1, <2>2
<1>17. \E rise \in Nat : /\ IsRise(rise, c.activeTotalWeight, emitted)
                         /\ index = c.naraIndexRay + rise
  <2> HIDE DEF emitted, index
  <2>1. c.naraIndexRay \in Nat /\ c.activeTotalWeight \in Nat
    BY DEF CoreType
  <2>2. CASE emitted > 0
    <3> DEFINE rise == MulDiv(emitted, RAY, c.activeTotalWeight)
    <3>1. IsRise(rise, c.activeTotalWeight, emitted)
      BY <1>9, <1>16, <2>2, RiseOfIndex
    <3>2. index = c.naraIndexRay + rise
      BY <1>16, <2>2
    <3> HIDE DEF rise
    <3> QED BY <3>1, <3>2 DEF IsRise
  <2>3. CASE ~ (emitted > 0)
    <3>1. emitted = 0 /\ index = c.naraIndexRay + 0
      BY <1>9, <1>16, <2>1, <2>3
    <3> QED BY <2>1, <3>1, NothingGained
  <2> QED BY <2>2, <2>3
<1>11. Emit(c, locked, draw) =
           [pulled EXCEPT !.trackedEmissionReserve = @ + received - emitted,
                          !.totalPendingNaraRewards = @ + emitted,
                          !.totalNaraDripPaid = @ + emitted,
                          !.naraIndexRay = index]
  BY DEF Emit
<1> HIDE DEF target, local, available, wanted, shortfall, pulls, pulled, received, emitted, index
<1> DEFINE d == Emit(c, locked, draw)
<1> DEFINE w == pulled.trackedEmissionReserve + received - emitted
           x == pulled.totalPendingNaraRewards + emitted
           y == pulled.totalNaraDripPaid + emitted
<1>12. w \in Nat /\ x \in Nat /\ y \in Nat
  BY <1>2, <1>7, <1>8, <1>9 DEF CoreType
<1>13. /\ d \in CoreType /\ SameWeights(pulled, d) /\ SameConfig(pulled, d)
       /\ IsBooked(pulled, d, w, x, y) /\ d.naraIndexRay = index
       /\ SameEth(pulled, d) /\ SameNotes(pulled, d)
  <2>1. IsEmitted(pulled, d, w, x, y, index)
    BY <1>11 DEF IsEmitted
  <2> HIDE DEF w, x, y, d
  <2>2. pulled \in CoreType
    BY <1>7
  <2>3. w \in Nat /\ x \in Nat /\ y \in Nat /\ index \in Nat
    BY <1>10, <1>12
  <2>4. /\ d \in CoreType /\ SameWeights(pulled, d) /\ SameConfig(pulled, d)
        /\ IsBooked(pulled, d, w, x, y) /\ d.naraIndexRay = index /\ SameEth(pulled, d)
        /\ SameNotes(pulled, d)
    BY ZenonT(60), <2>1, <2>2, <2>3, EmittedShape
  <2> QED BY <2>4
<1>14. /\ SameWeights(c, d) /\ SameConfig(c, d)
       /\ d.trackedEmissionReserve = c.trackedEmissionReserve + received - emitted
       /\ d.totalPendingNaraRewards = c.totalPendingNaraRewards + emitted
       /\ d.totalNaraDripPaid = c.totalNaraDripPaid + emitted
  BY <1>7, <1>13 DEF SameWeights, SameConfig, IsBooked
<1>18. EmitsNara(c, d, c.activeTotalWeight) /\ SameEth(c, d) /\ SameNotes(c, d)
  <2>1. SameEth(c, d) /\ SameNotes(c, d)
    BY <1>7, <1>13 DEF SameIndices, SameEth, SameNotes
  <2>2. d.naraIndexRay = index /\ d.totalNaraDripPaid = c.totalNaraDripPaid + emitted
    BY <1>13, <1>14
  <2> HIDE DEF d
  <2> QED BY <1>9, <1>17, <2>1, <2>2 DEF EmitsNara
<1>15. ASSUME NEW claimed \in Nat, Books(c, locked, claimed)
       PROVE  Books(d, locked, claimed)
  <2>1. /\ c.balance \in Nat /\ c.trackedEmissionReserve \in Nat /\ c.totalNaraDripPaid \in Nat
        /\ c.totalPendingNaraRewards \in Nat /\ pulled.balance \in Nat
    BY <1>7 DEF CoreType
  <2>2. received <= pulled.balance - c.balance
    BY <2>1, <1>5, <1>7, <1>8
  <2> HIDE DEF d
  <2> QED BY <2>1, <2>2, <1>7, <1>8, <1>9, <1>13, <1>14, <1>15 DEF Books, IsBooked
<1> QED BY <1>13, <1>14, <1>15, <1>18

--------------------------------------------------------------------------------
(* Tallies over positions *)

IsPositions(ps) ==
    /\ ps \in Seq(PositionType)
    /\ \A i \in DOMAIN ps : /\ ps[i].createdEpoch < ps[i].activationEpoch
                            /\ ps[i].activationEpoch < ps[i].unlockEpoch

LEMMA PositionFacts ==
  ASSUME NEW ps, IsPositions(ps)
  PROVE  /\ Len(ps) \in Nat /\ DOMAIN ps = 1 .. Len(ps)
         /\ \A i \in 1 .. Len(ps) :
                /\ ps[i] \in PositionType
                /\ ps[i].amount \in Nat /\ ps[i].weight \in Nat \ {0}
                /\ ps[i].createdEpoch \in Nat /\ ps[i].activationEpoch \in Nat
                /\ ps[i].unlockEpoch \in Nat
                /\ ps[i].createdEpoch < ps[i].activationEpoch
                /\ ps[i].activationEpoch < ps[i].unlockEpoch
<1>1. Len(ps) \in Nat /\ DOMAIN ps = 1 .. Len(ps)
  BY DEF IsPositions
<1>2. \A i \in 1 .. Len(ps) : ps[i] \in PositionType
  BY DEF IsPositions
<1>3. \A q \in PositionType : /\ q.amount \in Nat /\ q.weight \in Nat \ {0}
                              /\ q.createdEpoch \in Nat /\ q.activationEpoch \in Nat
                              /\ q.unlockEpoch \in Nat
  BY EngineAssumption DEF PositionType, Epochs
<1> QED BY <1>1, <1>2, <1>3 DEF IsPositions

\* The active weight of the next epoch: what starts is added, what stops is taken
\* off, and nothing has to be clamped.
LEMMA ActiveWeightStep ==
  ASSUME NEW ps, IsPositions(ps), NEW e \in Nat
  PROVE  /\ ActiveWeight(ps, e) \in Nat /\ ActiveWeight(ps, e + 1) \in Nat
         /\ StartingWeight(ps, e + 1) \in Nat /\ StoppingWeight(ps, e + 1) \in Nat
         /\ ActiveWeight(ps, e + 1) + StoppingWeight(ps, e + 1)
                = ActiveWeight(ps, e) + StartingWeight(ps, e + 1)
<1> DEFINE n == Len(ps)
           a == [i \in DOMAIN ps |-> When(IsActive(ps[i], e), ps[i].weight)]
           b == [i \in DOMAIN ps |-> When(IsActive(ps[i], e + 1), ps[i].weight)]
           s == [i \in DOMAIN ps |-> When(ps[i].activationEpoch = e + 1, ps[i].weight)]
           t == [i \in DOMAIN ps |-> When(ps[i].unlockEpoch = e + 1, ps[i].weight)]
           h == [i \in DOMAIN ps |-> a[i] + s[i]]
<1>1. n \in Nat /\ DOMAIN ps = 1 .. n
  BY PositionFacts
<1>2. \A i \in 1 .. n : /\ a[i] \in Nat /\ b[i] \in Nat /\ s[i] \in Nat /\ t[i] \in Nat
                        /\ h[i] = a[i] + s[i] /\ h[i] = b[i] + t[i]
  BY PositionFacts DEF When, IsActive
<1>3. /\ ActiveWeight(ps, e) = SumTo(a, n) /\ ActiveWeight(ps, e + 1) = SumTo(b, n)
      /\ StartingWeight(ps, e + 1) = SumTo(s, n) /\ StoppingWeight(ps, e + 1) = SumTo(t, n)
  BY DEF ActiveWeight, StartingWeight, StoppingWeight
<1> HIDE DEF n, a, b, s, t, h
<1>4. /\ IsFamily(a, n) /\ IsFamily(b, n) /\ IsFamily(s, n) /\ IsFamily(t, n)
      /\ IsFamily(h, n)
  BY <1>1, <1>2 DEF IsFamily
<1>5. SumTo(h, n) = SumTo(a, n) + SumTo(s, n)
  BY <1>2, <1>4, SumOfSum
<1>6. SumTo(h, n) = SumTo(b, n) + SumTo(t, n)
  BY <1>2, <1>4, SumOfSum
<1>7. /\ SumTo(a, n) \in Nat /\ SumTo(b, n) \in Nat
      /\ SumTo(s, n) \in Nat /\ SumTo(t, n) \in Nat
  BY <1>1, <1>2, SumIsNat
<1> QED BY <1>3, <1>5, <1>6, <1>7

--------------------------------------------------------------------------------
(* One epoch *)

\* The staged configuration of a ledger is for its next epoch.
Staged(c) ==
    /\ c.stagedConfigEpoch # 0 => /\ c.stagedConfigEpoch = c.epoch + 1
                                  /\ c.stagedConfig \in Configs
    /\ c.stagedConfigEpoch = 0 => c.stagedConfig = NoConfig

\* The weights of a ledger are those of the positions.
WeightsExact(c, ps) ==
    /\ c.activeTotalWeight = ActiveWeight(ps, c.epoch)
    /\ \A e \in Epochs : e > c.epoch =>
           /\ c.scheduledActivationWeight[e] = StartingWeight(ps, e)
           /\ c.scheduledDeactivationWeight[e] = StoppingWeight(ps, e)

\* The ledger's part of the inductive invariant.
LedgerInv(c, locked, ps, claimed) ==
    /\ c \in CoreType /\ Staged(c) /\ WeightsExact(c, ps) /\ Books(c, locked, claimed)

\* d has settled one epoch more than c, and has taken up what c had staged.
IsNext(c, d) == d.epoch = c.epoch + 1 /\ d.stagedConfigEpoch = 0
\* d has settled the next epoch of c and paid it out to the positions active in it.
PaidOut(c, d, ps) ==
    /\ c.epoch + 1 \in Epochs /\ d.epoch = c.epoch + 1
    /\ EmitsNara(c, d, ActiveWeight(ps, c.epoch + 1))
    /\ EmitsEth(c, d, ActiveWeight(ps, c.epoch + 1))
    /\ d.naraIndexAtEpoch = Noted(c.naraIndexAtEpoch, c.epoch + 1, d.naraIndexRay)
    /\ d.ethIndexAtEpoch = Noted(c.ethIndexAtEpoch, c.epoch + 1, d.ethIndexRay)
\* d has settled the epochs of c and maybe more.
IsLater(c, d) == /\ d.epoch >= c.epoch
                 /\ c.stagedConfigEpoch = 0 => d.stagedConfigEpoch = 0

LEMMA LedgerEpoch ==
  ASSUME NEW c, NEW locked, NEW ps, NEW claimed, LedgerInv(c, locked, ps, claimed)
  PROVE  c.epoch \in Nat /\ c.epoch \in Epochs
BY EngineAssumption DEF LedgerInv, CoreType, Epochs

LEMMA OpenEpochKeeps ==
  ASSUME NEW c, NEW locked \in Nat, NEW claimed \in Nat, NEW ps, IsPositions(ps),
         LedgerInv(c, locked, ps, claimed), c.epoch + 1 \in Epochs
  PROVE  LET d == OpenEpoch(c, locked)
         IN  /\ d \in CoreType /\ d.epoch = c.epoch /\ Books(d, locked, claimed)
             /\ SameIndices(c, d)
             /\ d.stagedConfigEpoch = 0 /\ d.stagedConfig = NoConfig
             /\ d.activeTotalWeight = ActiveWeight(ps, c.epoch + 1)
             /\ \A e \in Epochs : e > c.epoch + 1 =>
                    /\ d.scheduledActivationWeight[e] = StartingWeight(ps, e)
                    /\ d.scheduledDeactivationWeight[e] = StoppingWeight(ps, e)
<1> DEFINE n == c.epoch + 1
           f == TopUp(c, locked)
           g == ApplyStagedConfig(f, n)
           d == ApplySchedule(g, n)
<1>1. c \in CoreType /\ Staged(c) /\ WeightsExact(c, ps) /\ Books(c, locked, claimed)
  BY DEF LedgerInv
<1>2. c.epoch \in Nat /\ n \in Epochs
  BY <1>1, EngineAssumption DEF CoreType, Epochs
<1>3. /\ f \in CoreType /\ SameWeights(c, f) /\ SameConfig(c, f)
      /\ Books(f, locked, claimed) /\ SameIndices(c, f)
  BY <1>1, TopUpKeeps
<1>4. f.stagedConfigEpoch = n => f.stagedConfig \in Configs
  BY <1>1, <1>2, <1>3 DEF SameConfig, Staged
<1> HIDE DEF f
<1>5. /\ g \in CoreType /\ SameWeights(f, g) /\ SameBooks(f, g) /\ SameIndices(f, g)
      /\ g.stagedConfigEpoch = 0 /\ g.stagedConfig = NoConfig
  <2>1. /\ g \in CoreType /\ SameWeights(f, g) /\ SameBooks(f, g) /\ SameIndices(f, g)
        /\ f.stagedConfigEpoch = n => g.stagedConfigEpoch = 0 /\ g.stagedConfig = NoConfig
        /\ f.stagedConfigEpoch # n => SameConfig(f, g)
    BY <1>2, <1>3, <1>4, ApplyStagedConfigKeeps
  <2> HIDE DEF g, n
  <2>2. f.stagedConfigEpoch # n => f.stagedConfigEpoch = 0 /\ f.stagedConfig = NoConfig
    BY <1>1, <1>3 DEF Staged, SameConfig, n
  <2> QED BY <2>1, <2>2 DEF SameConfig
<1> HIDE DEF g
<1>6. /\ d \in CoreType /\ SameConfig(g, d) /\ SameBooks(g, d) /\ d.epoch = g.epoch
      /\ SameIndices(g, d)
      /\ d.activeTotalWeight =
             SaturatingSub(g.activeTotalWeight + g.scheduledActivationWeight[n],
                           g.scheduledDeactivationWeight[n])
      /\ \A x \in Epochs : x # n =>
             /\ d.scheduledActivationWeight[x] = g.scheduledActivationWeight[x]
             /\ d.scheduledDeactivationWeight[x] = g.scheduledDeactivationWeight[x]
  BY <1>2, <1>5, ApplyScheduleKeeps
<1>7. OpenEpoch(c, locked) = d
  BY DEF OpenEpoch, f, g
<1> HIDE DEF d
<1>8. /\ g.epoch = c.epoch /\ g.activeTotalWeight = c.activeTotalWeight
      /\ g.scheduledActivationWeight = c.scheduledActivationWeight
      /\ g.scheduledDeactivationWeight = c.scheduledDeactivationWeight
  BY <1>3, <1>5 DEF SameWeights
<1>9. d.activeTotalWeight = ActiveWeight(ps, n)
  <2>1. /\ g.activeTotalWeight = ActiveWeight(ps, c.epoch)
        /\ g.scheduledActivationWeight[n] = StartingWeight(ps, n)
        /\ g.scheduledDeactivationWeight[n] = StoppingWeight(ps, n)
    BY <1>1, <1>2, <1>8 DEF WeightsExact
  <2> DEFINE before == ActiveWeight(ps, c.epoch)
             up == StartingWeight(ps, n)
             down == StoppingWeight(ps, n)
  <2>2. d.activeTotalWeight = SaturatingSub(before + up, down)
    BY <2>1, <1>6
  <2>3. /\ before \in Nat /\ up \in Nat /\ down \in Nat /\ ActiveWeight(ps, n) \in Nat
        /\ ActiveWeight(ps, n) + down = before + up
    BY <1>2, ActiveWeightStep
  <2> HIDE DEF before, up, down
  <2> QED BY <2>2, <2>3 DEF SaturatingSub
<1>10. \A e \in Epochs : e > n =>
           /\ d.scheduledActivationWeight[e] = StartingWeight(ps, e)
           /\ d.scheduledDeactivationWeight[e] = StoppingWeight(ps, e)
  <2>1. SUFFICES ASSUME NEW e \in Epochs, e > n
                 PROVE  /\ d.scheduledActivationWeight[e] = StartingWeight(ps, e)
                        /\ d.scheduledDeactivationWeight[e] = StoppingWeight(ps, e)
    OBVIOUS
  <2>2. e # n /\ e > c.epoch
    BY <2>1, <1>2 DEF Epochs
  <2> QED BY <2>2, <1>1, <1>6, <1>8 DEF WeightsExact
<1>11. Books(d, locked, claimed)
  BY <1>3, <1>5, <1>6 DEF SameBooks, Books
<1>12. SameIndices(c, d)
  BY <1>3, <1>5, <1>6 DEF SameIndices
<1> QED BY <1>5, <1>6, <1>7, <1>8, <1>9, <1>10, <1>11, <1>12 DEF SameConfig

\* A step that the code can take settles one epoch and keeps the ledger's invariant.
LEMMA AdvanceKeeps ==
  ASSUME NEW c, NEW locked \in Nat, NEW claimed \in Nat, NEW ps, IsPositions(ps),
         LedgerInv(c, locked, ps, claimed), c.epoch + 1 \in Epochs,
         NEW draw, draw.target \in Nat, CanAdvance(c, locked, draw)
  PROVE  /\ LedgerInv(AdvanceOneEpoch(c, locked, draw), locked, ps, claimed)
         /\ IsNext(c, AdvanceOneEpoch(c, locked, draw))
         /\ PaidOut(c, AdvanceOneEpoch(c, locked, draw), ps)
<1> DEFINE n == c.epoch + 1
           f == OpenEpoch(c, locked)
           g == Emit(f, locked, draw)
           h == DistributeEth(g)
           x == [h.naraIndexAtEpoch EXCEPT ![n] = h.naraIndexRay]
           y == [h.ethIndexAtEpoch EXCEPT ![n] = h.ethIndexRay]
           d == [h EXCEPT !.epoch = n, !.naraIndexAtEpoch = x, !.ethIndexAtEpoch = y]
<1>1. /\ f \in CoreType /\ f.epoch = c.epoch /\ Books(f, locked, claimed)
      /\ SameIndices(c, f)
      /\ f.stagedConfigEpoch = 0 /\ f.stagedConfig = NoConfig
      /\ f.activeTotalWeight = ActiveWeight(ps, n)
      /\ \A e \in Epochs : e > n =>
             /\ f.scheduledActivationWeight[e] = StartingWeight(ps, e)
             /\ f.scheduledDeactivationWeight[e] = StoppingWeight(ps, e)
  BY OpenEpochKeeps
<1>2. LET shortfall == Shortfall(f, locked, Target(f, draw), draw.mood)
      IN  CanPull(f, shortfall, draw.mood)
          => Arrived(Pull(f, shortfall, draw.mood), locked, EmissionReserve(f, locked)) >= 0
  BY DEF CanAdvance
<1> HIDE DEF f
<1>3. /\ g \in CoreType /\ SameWeights(f, g) /\ SameConfig(f, g)
      /\ Books(g, locked, claimed)
      /\ EmitsNara(f, g, f.activeTotalWeight) /\ SameEth(f, g) /\ SameNotes(f, g)
  <2>1. f.reserve.totalReleased <= f.reserve.allocation
    BY <1>1 DEF Books
  <2> QED BY <1>1, <1>2, <2>1, EmitKeeps
<1> HIDE DEF g
<1>4. /\ h \in CoreType /\ SameWeights(g, h) /\ SameConfig(g, h) /\ SameBooks(g, h)
      /\ EmitsEth(g, h, g.activeTotalWeight) /\ SameNara(g, h) /\ SameNotes(g, h)
  BY <1>3, DistributeEthKeeps
<1>5. AdvanceOneEpoch(c, locked, draw) = d
  BY DEF AdvanceOneEpoch, f, g
<1> HIDE DEF h
<1>6. /\ x \in [Epochs -> Nat] /\ y \in [Epochs -> Nat] /\ n \in Epochs
  BY <1>4 DEF CoreType
<1>7. d \in CoreType
  <2> HIDE DEF x, y, n
  <2> QED BY Zenon, <1>4, <1>6 DEF CoreType
<1>8. /\ d.epoch = n /\ SameConfig(h, d) /\ SameBooks(h, d)
      /\ d.activeTotalWeight = h.activeTotalWeight
      /\ d.scheduledActivationWeight = h.scheduledActivationWeight
      /\ d.scheduledDeactivationWeight = h.scheduledDeactivationWeight
      /\ SameNara(h, d) /\ SameEth(h, d)
      /\ d.naraIndexAtEpoch = x /\ d.ethIndexAtEpoch = y
  <2> HIDE DEF x, y, n
  <2> QED BY <1>4 DEF CoreType, SameConfig, SameBooks, SameNara, SameEth
<1> HIDE DEF d
<1>9. Staged(d) /\ d.stagedConfigEpoch = 0
  BY <1>1, <1>3, <1>4, <1>8 DEF Staged, SameConfig
<1>10. WeightsExact(d, ps)
  <2> HIDE DEF n
  <2> QED BY <1>1, <1>3, <1>4, <1>8 DEF WeightsExact, SameWeights
<1>11. Books(d, locked, claimed)
  BY <1>3, <1>4, <1>8 DEF Books, SameBooks
<1>12. PaidOut(c, d, ps)
  <2> DEFINE W == ActiveWeight(ps, n)
  <2>1. f.activeTotalWeight = W /\ g.activeTotalWeight = W
    BY <1>1, <1>3 DEF SameWeights
  <2> HIDE DEF W
  <2>2. EmitsNara(c, d, W)
    <3>1. EmitsNara(f, g, W)
      BY <1>3, <2>1
    <3>2. f.totalNaraDripPaid = c.totalNaraDripPaid /\ f.naraIndexRay = c.naraIndexRay
      BY <1>1 DEF SameIndices
    <3>3. d.totalNaraDripPaid = g.totalNaraDripPaid /\ d.naraIndexRay = g.naraIndexRay
      BY <1>4, <1>8 DEF SameNara
    <3> QED BY <3>1, <3>2, <3>3 DEF EmitsNara
  <2>3. EmitsEth(c, d, W)
    <3>1. EmitsEth(g, h, W)
      BY <1>4, <2>1
    <3>2. /\ g.pendingEthForNextEpoch = c.pendingEthForNextEpoch
          /\ g.ethIndexRay = c.ethIndexRay
      BY <1>1, <1>3 DEF SameIndices, SameEth
    <3>3. d.pendingEthForNextEpoch = h.pendingEthForNextEpoch /\ d.ethIndexRay = h.ethIndexRay
      BY <1>8 DEF SameEth
    <3> QED BY <3>1, <3>2, <3>3 DEF EmitsEth
  <2>4. /\ h.naraIndexAtEpoch = c.naraIndexAtEpoch /\ h.ethIndexAtEpoch = c.ethIndexAtEpoch
        /\ h.naraIndexRay = d.naraIndexRay /\ h.ethIndexRay = d.ethIndexRay
    BY <1>1, <1>3, <1>4, <1>8 DEF SameIndices, SameNotes, SameNara, SameEth
  <2>5. /\ d.naraIndexAtEpoch = Noted(c.naraIndexAtEpoch, n, d.naraIndexRay)
        /\ d.ethIndexAtEpoch = Noted(c.ethIndexAtEpoch, n, d.ethIndexRay)
    BY <1>8, <2>4 DEF Noted
  <2> QED BY <1>6, <1>8, <2>2, <2>3, <2>5 DEF PaidOut, W
<1> QED BY <1>5, <1>7, <1>8, <1>9, <1>10, <1>11, <1>12 DEF LedgerInv, IsNext

\* The ledgers that a call passes through, from c to d.
IsChain(P, n, c, d, locked, claimed, ps) ==
    /\ n \in Nat /\ P[0] = c /\ P[n] = d
    /\ \A k \in 0 .. n : LedgerInv(P[k], locked, ps, claimed) /\ IsLater(c, P[k])
    /\ \A k \in 0 .. n : k > 0 => P[k] = P[k - 1] \/ PaidOut(P[k - 1], P[k], ps)

\* However many epochs a call settles, it keeps the ledger's invariant and pays each
\* epoch out.
LEMMA CatchUpChain ==
  ASSUME NEW c, NEW locked \in Nat, NEW claimed \in Nat, NEW ps, IsPositions(ps),
         LedgerInv(c, locked, ps, claimed),
         NEW live \in Epochs, NEW n \in Nat, NEW draws,
         draws \in [c.epoch + 1 .. MinOf(live, c.epoch + n) -> Draws]
  PROVE  \E P : IsChain(P, n, c, CatchUp(c, locked, live, draws, n), locked, claimed, ps)
<1> DEFINE G(prev) == IF prev.epoch < live /\ CanAdvance(prev, locked, draws[prev.epoch + 1])
                      THEN AdvanceOneEpoch(prev, locked, draws[prev.epoch + 1]) ELSE prev
           F(s, m) == [k \in 0 .. m |-> IF k = 0 THEN c ELSE G(s[k - 1])]
           P == CHOOSE s : s = F(s, n)
<1>1. CatchUp(c, locked, live, draws, n) = P[n]
  BY DEF CatchUp
<1>2. \A m \in Nat : \E s : s = F(s, m)
  <2> DEFINE S == {m \in Nat : \E s : s = F(s, m)}
  <2> HIDE DEF G
  <2>1. 0 \in S
    <3> DEFINE s == [k \in 0 .. 0 |-> c]
    <3>1. s = F(s, 0)
      OBVIOUS
    <3> QED BY <3>1
  <2>2. ASSUME NEW m \in Nat, m \in S PROVE m + 1 \in S
    <3>1. PICK s : s = F(s, m)
      BY <2>2
    <3> DEFINE t == [k \in 0 .. m + 1 |-> IF k = m + 1 THEN G(s[m]) ELSE s[k]]
    <3>2. \A k \in 0 .. m : s[k] = IF k = 0 THEN c ELSE G(s[k - 1])
      BY <3>1
    <3>3. \A k \in 0 .. m + 1 : t[k] = IF k = 0 THEN c ELSE G(t[k - 1])
      <4>1. SUFFICES ASSUME NEW k \in 0 .. m + 1
                     PROVE  t[k] = IF k = 0 THEN c ELSE G(t[k - 1])
        OBVIOUS
      <4>2. CASE k = m + 1
        BY <4>2
      <4>3. CASE k # m + 1
        BY <4>3, <3>2
      <4> QED BY <4>2, <4>3
    <3>4. t = F(t, m + 1)
      <4> DEFINE V(k) == IF k = 0 THEN c ELSE G(t[k - 1])
      <4>1. \A k \in 0 .. m + 1 : t[k] = V(k)
        BY <3>3
      <4>2. t = [k \in 0 .. m + 1 |-> t[k]]
        OBVIOUS
      <4> HIDE DEF t, V
      <4>3. t = [k \in 0 .. m + 1 |-> V(k)]
        BY <4>1, <4>2
      <4> QED BY <4>3 DEF V
    <3>5. \E u : u = F(u, m + 1)
      <4> HIDE DEF t, F
      <4> QED BY <3>4
    <3>6. m + 1 \in Nat
      OBVIOUS
    <3> HIDE DEF t, F
    <3> QED BY <3>5, <3>6
  <2> HIDE DEF S
  <2>3. S \in SUBSET Nat
    <3> HIDE DEF F
    <3> QED BY DEF S
  <2>4. S = Nat
    BY <2>1, <2>2, <2>3, NatSetInduction
  <2> QED BY <2>4 DEF S
<1>3. P = F(P, n)
  <2>1. \E s : s = F(s, n)
    BY <1>2
  <2> HIDE DEF F
  <2> QED BY <2>1
<1> HIDE DEF P
<1>4. \A k \in 0 .. n : P[k] = IF k = 0 THEN c ELSE G(P[k - 1])
  <2> DEFINE V(k) == IF k = 0 THEN c ELSE G(P[k - 1])
  <2>1. P = [k \in 0 .. n |-> V(k)]
    BY <1>3
  <2> HIDE DEF V
  <2>2. \A k \in 0 .. n : P[k] = V(k)
    BY <2>1
  <2> QED BY <2>2 DEF V
<1> DEFINE Good(k) == /\ LedgerInv(P[k], locked, ps, claimed)
                      /\ IsLater(c, P[k]) /\ P[k].epoch <= c.epoch + k
                      /\ k > 0 => P[k] = P[k - 1] \/ PaidOut(P[k - 1], P[k], ps)
           S == {k \in Nat : k <= n => Good(k)}
<1>5. c.epoch \in Nat /\ live \in Nat
  BY EngineAssumption DEF LedgerInv, CoreType, Epochs
<1>6. 0 \in S
  BY <1>4, <1>5 DEF IsLater
<1>7. ASSUME NEW k \in Nat, k \in S PROVE k + 1 \in S
  <2>1. SUFFICES ASSUME k + 1 <= n PROVE Good(k + 1)
    OBVIOUS
  <2>2. Good(k) /\ P[k + 1] = G(P[k])
    BY <1>4, <1>7, <2>1
  <2>3. P[k].epoch \in Nat
    BY <2>2, LedgerEpoch
  <2> DEFINE draw == draws[P[k].epoch + 1]
  <2>4. CASE P[k].epoch < live /\ CanAdvance(P[k], locked, draw)
    <3>1. P[k].epoch + 1 \in c.epoch + 1 .. MinOf(live, c.epoch + n)
      <4>1. P[k].epoch >= c.epoch /\ P[k].epoch <= c.epoch + k /\ P[k].epoch < live
        BY <2>2, <2>4 DEF IsLater
      <4> DEFINE m == P[k].epoch
                 e == c.epoch
      <4>2. /\ m \in Nat /\ e \in Nat /\ live \in Nat /\ m >= e /\ m <= e + k /\ m < live
            /\ k + 1 <= n
        BY <4>1, <2>1, <2>3, <1>5
      <4> HIDE DEF m, e
      <4>3. m + 1 \in Nat /\ e + 1 <= m + 1 /\ m + 1 <= MinOf(live, e + n)
            /\ e + 1 \in Nat /\ MinOf(live, e + n) \in Nat
        BY <4>2 DEF MinOf
      <4>4. m + 1 \in e + 1 .. MinOf(live, e + n)
        BY <4>3
      <4> QED BY <4>4 DEF m, e
    <3>2. draw \in Draws
      BY <3>1
    <3>3. draw.target \in Nat
      <4> HIDE DEF draw
      <4> QED BY <3>2, EngineAssumption DEF Draws
    <3>4. P[k].epoch + 1 \in Epochs
      BY <2>3, <2>4, EngineAssumption DEF Epochs
    <3>5. P[k + 1] = AdvanceOneEpoch(P[k], locked, draw)
      BY <2>2, <2>4
    <3> HIDE DEF draw
    <3>6. LedgerInv(P[k], locked, ps, claimed) /\ CanAdvance(P[k], locked, draw)
      BY <2>2, <2>4
    <3>7. /\ LedgerInv(P[k + 1], locked, ps, claimed) /\ IsNext(P[k], P[k + 1])
          /\ PaidOut(P[k], P[k + 1], ps)
      BY Zenon, <3>3, <3>4, <3>5, <3>6, AdvanceKeeps
    <3>8. P[k + 1].epoch = P[k].epoch + 1
      BY <3>7 DEF IsNext
    <3>9. IsLater(c, P[k + 1]) /\ P[k + 1].epoch <= c.epoch + (k + 1)
      <4>1. P[k].epoch >= c.epoch /\ P[k].epoch <= c.epoch + k
        BY <2>2 DEF IsLater
      <4>2. P[k + 1].stagedConfigEpoch = 0
        BY <3>7 DEF IsNext
      <4> HIDE DEF Good, G, F
      <4> DEFINE a == c.epoch
                 b == P[k].epoch
                 d == P[k + 1].epoch
      <4>3. d >= a /\ d <= a + (k + 1)
        <5> HIDE DEF a, b, d
        <5>1. /\ a \in Nat /\ b \in Nat /\ k \in Nat
              /\ b >= a /\ b <= a + k /\ d = b + 1
          BY <4>1, <2>3, <3>8, <1>5 DEF a, b, d
        <5> QED BY <5>1
      <4> QED BY <4>2, <4>3 DEF IsLater
    <3>10. (k + 1) - 1 = k
      OBVIOUS
    <3> QED BY <3>7, <3>9, <3>10
  <2>5. CASE ~ (P[k].epoch < live /\ CanAdvance(P[k], locked, draw))
    <3>1. P[k + 1] = P[k]
      BY <2>2, <2>5
    <3>2. (k + 1) - 1 = k
      OBVIOUS
    <3>3. Good(k)
      BY <2>2
    <3>4. P[k + 1].epoch <= c.epoch + (k + 1)
      <4> DEFINE a == c.epoch
                 b == P[k].epoch
      <4>1. a \in Nat /\ b \in Nat /\ b <= a + k /\ P[k + 1].epoch = b
        BY <1>5, <2>3, <3>1, <3>3
      <4> HIDE DEF a, b
      <4>2. b <= a + (k + 1)
        BY <4>1
      <4> QED BY <4>1, <4>2 DEF a
    <3> QED BY <3>1, <3>2, <3>3, <3>4
  <2> QED BY <2>4, <2>5
<1> HIDE DEF S
<1>8. S \in SUBSET Nat
  <2> HIDE DEF Good
  <2> QED BY DEF S
<1>9. S = Nat
  BY <1>6, <1>7, <1>8, NatSetInduction
<1>10. \A k \in 0 .. n : Good(k)
  <2>1. \A k \in Nat : k <= n => Good(k)
    BY <1>9 DEF S
  <2> HIDE DEF Good
  <2> QED BY <2>1
<1>11. P[0] = c
  <2>1. 0 \in 0 .. n
    OBVIOUS
  <2> HIDE DEF G, F
  <2> QED BY <1>4, <2>1
<1>12. IsChain(P, n, c, CatchUp(c, locked, live, draws, n), locked, claimed, ps)
  <2> HIDE DEF G, F
  <2> QED BY <1>1, <1>10, <1>11 DEF IsChain
<1> QED BY <1>12

LEMMA CatchUpKeeps ==
  ASSUME NEW c, NEW locked \in Nat, NEW claimed \in Nat, NEW ps, IsPositions(ps),
         LedgerInv(c, locked, ps, claimed),
         NEW live \in Epochs, NEW n \in Nat, NEW draws,
         draws \in [c.epoch + 1 .. MinOf(live, c.epoch + n) -> Draws]
  PROVE  /\ LedgerInv(CatchUp(c, locked, live, draws, n), locked, ps, claimed)
         /\ IsLater(c, CatchUp(c, locked, live, draws, n))
<1> DEFINE d == CatchUp(c, locked, live, draws, n)
<1>1. PICK P : IsChain(P, n, c, d, locked, claimed, ps)
  BY CatchUpChain
<1> HIDE DEF d
<1>2. n \in 0 .. n
  OBVIOUS
<1> QED BY <1>1, <1>2 DEF IsChain, d

--------------------------------------------------------------------------------
(* What the functions of NaraEngine do to positions and to the ledger beside them:  *)
(* the tallies move as the aggregates do when a position is appended, changed, or   *)
(* emptied.                                                                         *)

IsPosition(p) == /\ p \in PositionType
                 /\ p.createdEpoch < p.activationEpoch /\ p.activationEpoch < p.unlockEpoch

LEMMA AppendKeepsPositions ==
  ASSUME NEW ps, IsPositions(ps), NEW p, IsPosition(p)
  PROVE  IsPositions(Append(ps, p))
<1>1. ps \in Seq(PositionType) /\ p \in PositionType
  BY DEF IsPositions, IsPosition
<1>2. Append(ps, p) \in Seq(PositionType)
  BY <1>1
<1>3. ASSUME NEW i \in DOMAIN Append(ps, p)
      PROVE  \/ i \in DOMAIN ps /\ Append(ps, p)[i] = ps[i]
             \/ Append(ps, p)[i] = p
  BY <1>1
<1> QED BY <1>2, <1>3 DEF IsPositions, IsPosition

\* A new position adds its own share to every tally.
TalliesAdd(ps, qs, p) ==
    /\ Principals(qs) = Principals(ps) + p.amount
    /\ \A e \in Nat :
          /\ ActiveWeight(qs, e) = ActiveWeight(ps, e) + When(IsActive(p, e), p.weight)
          /\ StartingWeight(qs, e) =
                 StartingWeight(ps, e) + When(p.activationEpoch = e, p.weight)
          /\ StoppingWeight(qs, e) =
                 StoppingWeight(ps, e) + When(p.unlockEpoch = e, p.weight)

LEMMA TalliesOfAppend ==
  ASSUME NEW ps, IsPositions(ps), NEW p, IsPosition(p), NEW qs, qs = Append(ps, p)
  PROVE  TalliesAdd(ps, qs, p)
<1>1. IsPositions(qs) /\ Len(qs) = Len(ps) + 1 /\ qs[Len(ps) + 1] = p
  BY AppendKeepsPositions DEF IsPositions
<1>2. \A i \in 1 .. Len(ps) : qs[i] = ps[i]
  BY DEF IsPositions
<1>3. Len(ps) \in Nat /\ DOMAIN ps = 1 .. Len(ps) /\ DOMAIN qs = 1 .. Len(ps) + 1
  BY <1>1, PositionFacts
<1>4. /\ \A i \in 1 .. Len(ps) : ps[i].amount \in Nat /\ ps[i].weight \in Nat
      /\ \A i \in 1 .. Len(ps) + 1 : qs[i].amount \in Nat /\ qs[i].weight \in Nat
  BY <1>1, PositionFacts
<1>5. Principals(qs) = Principals(ps) + p.amount
  <2> DEFINE f == [i \in DOMAIN ps |-> ps[i].amount]
             g == [i \in DOMAIN qs |-> qs[i].amount]
  <2>1. IsFamily(f, Len(ps)) /\ IsFamily(g, Len(ps) + 1)
    BY <1>3, <1>4 DEF IsFamily
  <2>2. (\A i \in 1 .. Len(ps) : g[i] = f[i]) /\ g[Len(ps) + 1] = p.amount
    BY <1>1, <1>2, <1>3
  <2> HIDE DEF f, g
  <2>3. SumTo(g, Len(ps) + 1) = SumTo(f, Len(ps)) + g[Len(ps) + 1]
    BY <2>1, <2>2, SumOfAppend
  <2> QED BY <2>2, <2>3, <1>1 DEF Principals, f, g
<1>6. SUFFICES ASSUME NEW e \in Nat
               PROVE  /\ ActiveWeight(qs, e) =
                             ActiveWeight(ps, e) + When(IsActive(p, e), p.weight)
                      /\ StartingWeight(qs, e) =
                             StartingWeight(ps, e) + When(p.activationEpoch = e, p.weight)
                      /\ StoppingWeight(qs, e) =
                             StoppingWeight(ps, e) + When(p.unlockEpoch = e, p.weight)
  BY <1>5 DEF TalliesAdd
<1>7. ActiveWeight(qs, e) = ActiveWeight(ps, e) + When(IsActive(p, e), p.weight)
  <2> DEFINE f == [i \in DOMAIN ps |-> When(IsActive(ps[i], e), ps[i].weight)]
             g == [i \in DOMAIN qs |-> When(IsActive(qs[i], e), qs[i].weight)]
  <2>1. IsFamily(f, Len(ps)) /\ IsFamily(g, Len(ps) + 1)
    BY <1>3, <1>4 DEF IsFamily, When
  <2>2. /\ \A i \in 1 .. Len(ps) : g[i] = f[i]
        /\ g[Len(ps) + 1] = When(IsActive(p, e), p.weight)
    BY <1>1, <1>2, <1>3
  <2> HIDE DEF f, g
  <2>3. SumTo(g, Len(ps) + 1) = SumTo(f, Len(ps)) + g[Len(ps) + 1]
    BY <2>1, <2>2, SumOfAppend
  <2> QED BY <2>2, <2>3, <1>1 DEF ActiveWeight, f, g
<1>8. StartingWeight(qs, e) = StartingWeight(ps, e) + When(p.activationEpoch = e, p.weight)
  <2> DEFINE f == [i \in DOMAIN ps |-> When(ps[i].activationEpoch = e, ps[i].weight)]
             g == [i \in DOMAIN qs |-> When(qs[i].activationEpoch = e, qs[i].weight)]
  <2>1. IsFamily(f, Len(ps)) /\ IsFamily(g, Len(ps) + 1)
    BY <1>3, <1>4 DEF IsFamily, When
  <2>2. /\ \A i \in 1 .. Len(ps) : g[i] = f[i]
        /\ g[Len(ps) + 1] = When(p.activationEpoch = e, p.weight)
    BY <1>1, <1>2, <1>3
  <2> HIDE DEF f, g
  <2>3. SumTo(g, Len(ps) + 1) = SumTo(f, Len(ps)) + g[Len(ps) + 1]
    BY <2>1, <2>2, SumOfAppend
  <2> QED BY <2>2, <2>3, <1>1 DEF StartingWeight, f, g
<1>9. StoppingWeight(qs, e) = StoppingWeight(ps, e) + When(p.unlockEpoch = e, p.weight)
  <2> DEFINE f == [i \in DOMAIN ps |-> When(ps[i].unlockEpoch = e, ps[i].weight)]
             g == [i \in DOMAIN qs |-> When(qs[i].unlockEpoch = e, qs[i].weight)]
  <2>1. IsFamily(f, Len(ps)) /\ IsFamily(g, Len(ps) + 1)
    BY <1>3, <1>4 DEF IsFamily, When
  <2>2. /\ \A i \in 1 .. Len(ps) : g[i] = f[i]
        /\ g[Len(ps) + 1] = When(p.unlockEpoch = e, p.weight)
    BY <1>1, <1>2, <1>3
  <2> HIDE DEF f, g
  <2>3. SumTo(g, Len(ps) + 1) = SumTo(f, Len(ps)) + g[Len(ps) + 1]
    BY <2>1, <2>2, SumOfAppend
  <2> QED BY <2>2, <2>3, <1>1 DEF StoppingWeight, f, g
<1> QED BY <1>7, <1>8, <1>9

\* qs is ps with the position i changed.
DiffersAt(ps, qs, i) == /\ IsPositions(qs) /\ Len(qs) = Len(ps) /\ i \in 1 .. Len(ps)
                        /\ \A j \in 1 .. Len(ps) : j # i => qs[j] = ps[j]

\* Changing one position moves every tally by the change of its share.
TalliesMove(ps, qs, p, q) ==
    /\ Principals(qs) = Principals(ps) + q.amount - p.amount
    /\ \A e \in Nat :
          /\ ActiveWeight(qs, e) = ActiveWeight(ps, e)
                 + When(IsActive(q, e), q.weight) - When(IsActive(p, e), p.weight)
          /\ StartingWeight(qs, e) = StartingWeight(ps, e)
                 + When(q.activationEpoch = e, q.weight)
                 - When(p.activationEpoch = e, p.weight)
          /\ StoppingWeight(qs, e) = StoppingWeight(ps, e)
                 + When(q.unlockEpoch = e, q.weight) - When(p.unlockEpoch = e, p.weight)

LEMMA TalliesOfUpdate ==
  ASSUME NEW ps, IsPositions(ps), NEW qs, NEW i, DiffersAt(ps, qs, i)
  PROVE  TalliesMove(ps, qs, ps[i], qs[i])
<1> DEFINE n == Len(ps)
<1>1. /\ Len(qs) = n /\ i \in 1 .. n /\ n \in Nat
      /\ DOMAIN ps = 1 .. n /\ DOMAIN qs = 1 .. n
      /\ \A j \in 1 .. n : j # i => qs[j] = ps[j]
  BY PositionFacts DEF DiffersAt
<1>2. \A j \in 1 .. n : /\ ps[j].amount \in Nat /\ ps[j].weight \in Nat
                        /\ qs[j].amount \in Nat /\ qs[j].weight \in Nat
  BY <1>1, PositionFacts DEF DiffersAt
<1> HIDE DEF n
<1>3. Principals(qs) = Principals(ps) + qs[i].amount - ps[i].amount
  <2> DEFINE f == [j \in DOMAIN ps |-> ps[j].amount]
             g == [j \in DOMAIN qs |-> qs[j].amount]
  <2>1. /\ IsFamily(f, n) /\ IsFamily(g, n)
        /\ \A j \in 1 .. n : j # i => g[j] = f[j]
        /\ f[i] = ps[i].amount /\ g[i] = qs[i].amount
    BY <1>1, <1>2 DEF IsFamily
  <2> HIDE DEF f, g
  <2>2. SumTo(g, n) = SumTo(f, n) + g[i] - f[i]
    BY <2>1, <1>1, SumOfUpdate
  <2> QED BY <2>1, <2>2, <1>1 DEF Principals, f, g, n
<1>4. SUFFICES ASSUME NEW e \in Nat
               PROVE  /\ ActiveWeight(qs, e) = ActiveWeight(ps, e)
                             + When(IsActive(qs[i], e), qs[i].weight)
                             - When(IsActive(ps[i], e), ps[i].weight)
                      /\ StartingWeight(qs, e) = StartingWeight(ps, e)
                             + When(qs[i].activationEpoch = e, qs[i].weight)
                             - When(ps[i].activationEpoch = e, ps[i].weight)
                      /\ StoppingWeight(qs, e) = StoppingWeight(ps, e)
                             + When(qs[i].unlockEpoch = e, qs[i].weight)
                             - When(ps[i].unlockEpoch = e, ps[i].weight)
  BY <1>3 DEF TalliesMove
<1>5. ActiveWeight(qs, e) = ActiveWeight(ps, e) + When(IsActive(qs[i], e), qs[i].weight)
                                                - When(IsActive(ps[i], e), ps[i].weight)
  <2> DEFINE f == [j \in DOMAIN ps |-> When(IsActive(ps[j], e), ps[j].weight)]
             g == [j \in DOMAIN qs |-> When(IsActive(qs[j], e), qs[j].weight)]
  <2>1. /\ IsFamily(f, n) /\ IsFamily(g, n)
        /\ \A j \in 1 .. n : j # i => g[j] = f[j]
        /\ f[i] = When(IsActive(ps[i], e), ps[i].weight)
        /\ g[i] = When(IsActive(qs[i], e), qs[i].weight)
    BY <1>1, <1>2 DEF IsFamily, When
  <2> HIDE DEF f, g
  <2>2. SumTo(g, n) = SumTo(f, n) + g[i] - f[i]
    BY <2>1, <1>1, SumOfUpdate
  <2> QED BY <2>1, <2>2, <1>1 DEF ActiveWeight, f, g, n
<1>6. StartingWeight(qs, e) = StartingWeight(ps, e)
                                  + When(qs[i].activationEpoch = e, qs[i].weight)
                                  - When(ps[i].activationEpoch = e, ps[i].weight)
  <2> DEFINE f == [j \in DOMAIN ps |-> When(ps[j].activationEpoch = e, ps[j].weight)]
             g == [j \in DOMAIN qs |-> When(qs[j].activationEpoch = e, qs[j].weight)]
  <2>1. /\ IsFamily(f, n) /\ IsFamily(g, n)
        /\ \A j \in 1 .. n : j # i => g[j] = f[j]
        /\ f[i] = When(ps[i].activationEpoch = e, ps[i].weight)
        /\ g[i] = When(qs[i].activationEpoch = e, qs[i].weight)
    BY <1>1, <1>2 DEF IsFamily, When
  <2> HIDE DEF f, g
  <2>2. SumTo(g, n) = SumTo(f, n) + g[i] - f[i]
    BY <2>1, <1>1, SumOfUpdate
  <2> QED BY <2>1, <2>2, <1>1 DEF StartingWeight, f, g, n
<1>7. StoppingWeight(qs, e) = StoppingWeight(ps, e)
                                  + When(qs[i].unlockEpoch = e, qs[i].weight)
                                  - When(ps[i].unlockEpoch = e, ps[i].weight)
  <2> DEFINE f == [j \in DOMAIN ps |-> When(ps[j].unlockEpoch = e, ps[j].weight)]
             g == [j \in DOMAIN qs |-> When(qs[j].unlockEpoch = e, qs[j].weight)]
  <2>1. /\ IsFamily(f, n) /\ IsFamily(g, n)
        /\ \A j \in 1 .. n : j # i => g[j] = f[j]
        /\ f[i] = When(ps[i].unlockEpoch = e, ps[i].weight)
        /\ g[i] = When(qs[i].unlockEpoch = e, qs[i].weight)
    BY <1>1, <1>2 DEF IsFamily, When
  <2> HIDE DEF f, g
  <2>2. SumTo(g, n) = SumTo(f, n) + g[i] - f[i]
    BY <2>1, <1>1, SumOfUpdate
  <2> QED BY <2>1, <2>2, <1>1 DEF StoppingWeight, f, g, n
<1> QED BY <1>5, <1>6, <1>7

\* Positions that agree on their weights and epochs have the same weight tallies.
SameWeighing(ps, qs) ==
    /\ IsPositions(qs) /\ Len(qs) = Len(ps)
    /\ \A j \in 1 .. Len(ps) : /\ qs[j].weight = ps[j].weight
                               /\ qs[j].activationEpoch = ps[j].activationEpoch
                               /\ qs[j].unlockEpoch = ps[j].unlockEpoch

LEMMA TalliesOfSameWeighing ==
  ASSUME NEW ps, IsPositions(ps), NEW qs, SameWeighing(ps, qs)
  PROVE  \A e : /\ ActiveWeight(qs, e) = ActiveWeight(ps, e)
                /\ StartingWeight(qs, e) = StartingWeight(ps, e)
                /\ StoppingWeight(qs, e) = StoppingWeight(ps, e)
<1>1. Len(qs) = Len(ps) /\ DOMAIN ps = 1 .. Len(ps) /\ DOMAIN qs = 1 .. Len(ps)
  BY PositionFacts DEF SameWeighing
<1>2. SUFFICES ASSUME NEW e
               PROVE  /\ ActiveWeight(qs, e) = ActiveWeight(ps, e)
                      /\ StartingWeight(qs, e) = StartingWeight(ps, e)
                      /\ StoppingWeight(qs, e) = StoppingWeight(ps, e)
  OBVIOUS
<1>3. /\ [i \in DOMAIN qs |-> When(IsActive(qs[i], e), qs[i].weight)]
           = [i \in DOMAIN ps |-> When(IsActive(ps[i], e), ps[i].weight)]
      /\ [i \in DOMAIN qs |-> When(qs[i].activationEpoch = e, qs[i].weight)]
           = [i \in DOMAIN ps |-> When(ps[i].activationEpoch = e, ps[i].weight)]
      /\ [i \in DOMAIN qs |-> When(qs[i].unlockEpoch = e, qs[i].weight)]
           = [i \in DOMAIN ps |-> When(ps[i].unlockEpoch = e, ps[i].weight)]
  BY <1>1 DEF SameWeighing, IsActive
<1> QED BY <1>1, <1>3 DEF ActiveWeight, StartingWeight, StoppingWeight

\* No position outweighs a tally it belongs to.
LEMMA TalliesBound ==
  ASSUME NEW ps, IsPositions(ps), NEW i \in 1 .. Len(ps), NEW e \in Nat
  PROVE  /\ Principals(ps) \in Nat
         /\ ActiveWeight(ps, e) \in Nat /\ StartingWeight(ps, e) \in Nat
         /\ StoppingWeight(ps, e) \in Nat
         /\ ps[i].amount <= Principals(ps)
         /\ IsActive(ps[i], e) => ps[i].weight <= ActiveWeight(ps, e)
         /\ ps[i].activationEpoch = e => ps[i].weight <= StartingWeight(ps, e)
         /\ ps[i].unlockEpoch = e => ps[i].weight <= StoppingWeight(ps, e)
<1> DEFINE n == Len(ps)
           f == [j \in DOMAIN ps |-> ps[j].amount]
           a == [j \in DOMAIN ps |-> When(IsActive(ps[j], e), ps[j].weight)]
           s == [j \in DOMAIN ps |-> When(ps[j].activationEpoch = e, ps[j].weight)]
           t == [j \in DOMAIN ps |-> When(ps[j].unlockEpoch = e, ps[j].weight)]
<1>1. n \in Nat /\ DOMAIN ps = 1 .. n
  BY PositionFacts
<1>2. \A j \in 1 .. n : f[j] \in Nat /\ a[j] \in Nat /\ s[j] \in Nat /\ t[j] \in Nat
  BY <1>1, PositionFacts DEF When
<1>3. /\ f[i] = ps[i].amount
      /\ IsActive(ps[i], e) => a[i] = ps[i].weight
      /\ ps[i].activationEpoch = e => s[i] = ps[i].weight
      /\ ps[i].unlockEpoch = e => t[i] = ps[i].weight
  BY <1>1 DEF When
<1> HIDE DEF f, a, s, t
<1>4. /\ SumTo(f, n) \in Nat /\ f[i] <= SumTo(f, n)
      /\ SumTo(a, n) \in Nat /\ a[i] <= SumTo(a, n)
      /\ SumTo(s, n) \in Nat /\ s[i] <= SumTo(s, n)
      /\ SumTo(t, n) \in Nat /\ t[i] <= SumTo(t, n)
  BY <1>1, <1>2, SumIsNat
<1>5. /\ Principals(ps) = SumTo(f, n) /\ ActiveWeight(ps, e) = SumTo(a, n)
      /\ StartingWeight(ps, e) = SumTo(s, n) /\ StoppingWeight(ps, e) = SumTo(t, n)
  BY DEF Principals, ActiveWeight, StartingWeight, StoppingWeight, f, a, s, t
<1> QED BY <1>3, <1>4, <1>5

\* The principal of the positions of a batch.
AmountOf(ps, ids) == SumTo([j \in DOMAIN ps |-> When(j \in ids, ps[j].amount)], Len(ps))

\* Emptying some positions takes exactly their principal off the total.
LEMMA PrincipalsOfWithdrawal ==
  ASSUME NEW ps, IsPositions(ps), NEW qs, IsPositions(qs), Len(qs) = Len(ps), NEW ids,
         \A j \in 1 .. Len(ps) : qs[j].amount = IF j \in ids THEN 0 ELSE ps[j].amount
  PROVE  /\ AmountOf(ps, ids) \in Nat
         /\ Principals(ps) = Principals(qs) + AmountOf(ps, ids)
         /\ Principals(qs) \in Nat
<1> DEFINE n == Len(ps)
           f == [j \in DOMAIN ps |-> ps[j].amount]
           g == [j \in DOMAIN qs |-> qs[j].amount]
           gone == [j \in DOMAIN ps |-> When(j \in ids, ps[j].amount)]
<1>1. n \in Nat /\ DOMAIN ps = 1 .. n /\ DOMAIN qs = 1 .. n
  BY PositionFacts
<1>2. \A j \in 1 .. n : /\ f[j] \in Nat /\ g[j] \in Nat /\ gone[j] \in Nat
                        /\ f[j] = g[j] + gone[j]
  BY <1>1, PositionFacts DEF When
<1>3. Principals(ps) = SumTo(f, n) /\ Principals(qs) = SumTo(g, n)
      /\ AmountOf(ps, ids) = SumTo(gone, n)
  BY DEF Principals, AmountOf
<1> HIDE DEF n, f, g, gone
<1>4. IsFamily(f, n) /\ IsFamily(g, n) /\ IsFamily(gone, n)
  BY <1>1, <1>2 DEF IsFamily
<1>5. SumTo(f, n) = SumTo(g, n) + SumTo(gone, n)
  BY <1>2, <1>4, SumOfSum
<1>6. SumTo(gone, n) \in Nat /\ SumTo(g, n) \in Nat
  BY <1>1, <1>2, SumIsNat
<1> QED BY <1>3, <1>5, <1>6

LEMMA SameAmountsSamePrincipals ==
  ASSUME NEW ps, IsPositions(ps), NEW qs, IsPositions(qs), Len(qs) = Len(ps),
         \A j \in 1 .. Len(ps) : qs[j].amount = ps[j].amount
  PROVE  Principals(qs) = Principals(ps)
<1>1. DOMAIN ps = 1 .. Len(ps) /\ DOMAIN qs = 1 .. Len(ps)
  BY PositionFacts
<1>2. [j \in DOMAIN qs |-> qs[j].amount] = [j \in DOMAIN ps |-> ps[j].amount]
  BY <1>1
<1> QED BY <1>2 DEF Principals

--------------------------------------------------------------------------------
(* The ledger under the functions, with the positions they leave behind *)

SameClock(c, d) == d.epoch = c.epoch /\ SameConfig(c, d)

LEMMA SameClockStaged ==
  ASSUME NEW c, Staged(c), NEW d, SameClock(c, d)
  PROVE  Staged(d)
BY DEF Staged, SameClock, SameConfig

\* _createPosition's update of the ledger.
IsCreated(c, d, amount, weight, starts, ends) ==
    d = [c EXCEPT !.balance = @ + amount,
                  !.scheduledActivationWeight[starts] = @ + weight,
                  !.scheduledDeactivationWeight[ends] = @ + weight]

LEMMA CreateKeeps ==
  ASSUME NEW c, NEW locked \in Nat, NEW claimed \in Nat, NEW ps, IsPositions(ps),
         LedgerInv(c, locked, ps, claimed),
         NEW p, IsPosition(p), p.activationEpoch > c.epoch,
         c.balance + c.reserve.balance + p.amount <= Supply,
         NEW d, IsCreated(c, d, p.amount, p.weight, p.activationEpoch, p.unlockEpoch)
  PROVE  LedgerInv(d, locked + p.amount, Append(ps, p), claimed) /\ SameClock(c, d)
<1> DEFINE w == p.weight
           s == p.activationEpoch
           u == p.unlockEpoch
           a == [c.scheduledActivationWeight EXCEPT ![s] = @ + w]
           b == [c.scheduledDeactivationWeight EXCEPT ![u] = @ + w]
           m == c.balance + p.amount
           qs == Append(ps, p)
<1>1. c \in CoreType /\ Staged(c) /\ WeightsExact(c, ps) /\ Books(c, locked, claimed)
  BY DEF LedgerInv
<1>2. /\ p.amount \in Nat /\ w \in Nat /\ s \in Epochs /\ u \in Epochs
      /\ s \in Nat /\ u \in Nat /\ s < u
  BY EngineAssumption DEF IsPosition, PositionType, Epochs
<1>3. d = [c EXCEPT !.balance = m, !.scheduledActivationWeight = a,
                    !.scheduledDeactivationWeight = b]
  BY DEF IsCreated
<1>4. /\ c.scheduledActivationWeight \in [Epochs -> Nat]
      /\ c.scheduledDeactivationWeight \in [Epochs -> Nat]
      /\ c.balance \in Nat
  BY <1>1 DEF CoreType
<1>5. /\ a \in [Epochs -> Nat] /\ b \in [Epochs -> Nat] /\ m \in Nat
      /\ \A e \in Epochs : /\ a[e] = c.scheduledActivationWeight[e] + When(s = e, w)
                           /\ b[e] = c.scheduledDeactivationWeight[e] + When(u = e, w)
  BY <1>2, <1>4 DEF When
<1> HIDE DEF a, b, m, w, s, u
<1>6. d \in CoreType
  BY Zenon, <1>1, <1>3, <1>5 DEF CoreType
<1>7. /\ SameClock(c, d) /\ d.balance = m
      /\ d.activeTotalWeight = c.activeTotalWeight
      /\ d.scheduledActivationWeight = a /\ d.scheduledDeactivationWeight = b
      /\ d.trackedEmissionReserve = c.trackedEmissionReserve
      /\ d.totalNaraDripPaid = c.totalNaraDripPaid
      /\ d.totalPendingNaraRewards = c.totalPendingNaraRewards /\ d.reserve = c.reserve
  BY <1>1, <1>3 DEF CoreType, SameClock, SameConfig
<1>8. c.epoch \in Nat
  BY LedgerEpoch
<1>9. \A e \in Nat :
          /\ ActiveWeight(qs, e) = ActiveWeight(ps, e) + When(IsActive(p, e), w)
          /\ StartingWeight(qs, e) = StartingWeight(ps, e) + When(s = e, w)
          /\ StoppingWeight(qs, e) = StoppingWeight(ps, e) + When(u = e, w)
  <2>1. qs = Append(ps, p)
    OBVIOUS
  <2> HIDE DEF qs
  <2>2. TalliesAdd(ps, qs, p)
    BY <2>1, TalliesOfAppend
  <2> QED BY <2>2 DEF TalliesAdd, w, s, u
<1>10. WeightsExact(d, qs)
  <2>1. When(IsActive(p, c.epoch), w) = 0
    BY <1>2, <1>8 DEF IsActive, When, s
  <2>2. ActiveWeight(qs, c.epoch) = ActiveWeight(ps, c.epoch)
    <3>1. ActiveWeight(ps, c.epoch) \in Nat
      BY <1>1 DEF WeightsExact, CoreType
    <3> QED BY <2>1, <3>1, <1>8, <1>9
  <2>3. ASSUME NEW e \in Epochs, e > c.epoch
        PROVE  a[e] = StartingWeight(qs, e) /\ b[e] = StoppingWeight(qs, e)
    <3>1. e \in Nat
      BY EngineAssumption DEF Epochs
    <3> QED BY <2>3, <3>1, <1>1, <1>5, <1>9 DEF WeightsExact
  <2> HIDE DEF qs
  <2> QED BY <2>2, <2>3, <1>1, <1>7 DEF WeightsExact, SameClock
<1>11. Books(d, locked + p.amount, claimed)
  <2>1. /\ c.balance \in Nat /\ c.trackedEmissionReserve \in Nat /\ c.totalNaraDripPaid \in Nat
        /\ c.reserve.balance \in Nat
    BY <1>1 DEF CoreType, ReserveType
  <2> QED BY <2>1, <1>1, <1>2, <1>7 DEF Books, m
<1>12. Staged(d)
  BY <1>1, <1>7, SameClockStaged
<1> QED BY <1>6, <1>7, <1>10, <1>11, <1>12 DEF LedgerInv

\* _deliverNara, and with it the principal that unlock sends: paying out of the
\* engine keeps the books.
IsPaid(c, d, rewards, principal) ==
    d = [DeliverNara(c, rewards) EXCEPT !.balance = @ - principal]

LEMMA PayKeeps ==
  ASSUME NEW c, NEW locked \in Nat, NEW claimed \in Nat, NEW ps,
         LedgerInv(c, locked, ps, claimed),
         NEW rewards \in Nat, NEW principal \in Nat, principal <= locked,
         rewards + principal <= c.balance,
         NEW qs, IsPositions(ps), SameWeighing(ps, qs),
         NEW d, IsPaid(c, d, rewards, principal)
  PROVE  LedgerInv(d, locked - principal, qs, claimed + rewards) /\ SameClock(c, d)
<1> DEFINE x == SaturatingSub(c.totalPendingNaraRewards, rewards)
           y == c.balance - rewards - principal
<1>1. c \in CoreType /\ Staged(c) /\ WeightsExact(c, ps) /\ Books(c, locked, claimed)
  BY DEF LedgerInv
<1>2. /\ c.balance \in Nat /\ c.trackedEmissionReserve \in Nat /\ c.totalNaraDripPaid \in Nat
      /\ c.totalPendingNaraRewards \in Nat /\ c.reserve.balance \in Nat
  BY <1>1 DEF CoreType, ReserveType
<1>3. x \in Nat /\ y \in Nat
  BY <1>2 DEF SaturatingSub
<1>4. d = [c EXCEPT !.totalPendingNaraRewards = x, !.balance = y]
  BY <1>1 DEF IsPaid, DeliverNara, CoreType
<1> HIDE DEF x, y
<1>5. d \in CoreType
  BY Zenon, <1>1, <1>3, <1>4 DEF CoreType
<1>6. /\ SameClock(c, d) /\ SameWeights(c, d) /\ d.balance = y
      /\ d.totalPendingNaraRewards = x
      /\ d.trackedEmissionReserve = c.trackedEmissionReserve
      /\ d.totalNaraDripPaid = c.totalNaraDripPaid /\ d.reserve = c.reserve
  BY <1>1, <1>4 DEF CoreType, SameClock, SameConfig, SameWeights
<1>7. WeightsExact(d, qs)
  BY <1>1, <1>6, TalliesOfSameWeighing DEF WeightsExact, SameWeights
<1>8. Books(d, locked - principal, claimed + rewards)
  <2>1. Supply \in Nat
    BY EngineAssumption
  <2> QED BY <2>1, <1>1, <1>2, <1>6 DEF Books, SaturatingSub, x, y
<1>9. Staged(d)
  BY <1>1, <1>6, SameClockStaged
<1> QED BY <1>5, <1>6, <1>7, <1>8, <1>9 DEF LedgerInv

\* The deactivation schedule of d is that of c with one position moved.
IsMoved(c, d, u, w, nu, nw) ==
    /\ SameClock(c, d) /\ SameBooks(c, d)
    /\ d.activeTotalWeight = c.activeTotalWeight
    /\ d.scheduledActivationWeight = c.scheduledActivationWeight
    /\ \A e \in Epochs : d.scheduledDeactivationWeight[e] =
           c.scheduledDeactivationWeight[e] + When(nu = e, nw) - When(u = e, w)

LEMMA MoveKeeps ==
  ASSUME NEW c, c \in CoreType, NEW p, IsPosition(p), NEW nu \in Epochs, nu # p.unlockEpoch,
         NEW nw \in Nat, p.weight <= c.scheduledDeactivationWeight[p.unlockEpoch]
  PROVE  /\ MoveDeactivation(c, p, nu, nw) \in CoreType
         /\ IsMoved(c, MoveDeactivation(c, p, nu, nw), p.unlockEpoch, p.weight, nu, nw)
<1> DEFINE w == p.weight
           u == p.unlockEpoch
           o == c.scheduledDeactivationWeight
           a == [o EXCEPT ![u] = SaturatingSub(@, w)]
           b == [a EXCEPT ![nu] = @ + nw]
           d == MoveDeactivation(c, p, nu, nw)
<1>1. w \in Nat /\ u \in Epochs
  BY DEF IsPosition, PositionType
<1>2. o \in [Epochs -> Nat] /\ w <= o[u]
  BY DEF CoreType
<1>3. d = [c EXCEPT !.scheduledDeactivationWeight = b]
  <2>1. d = [[c EXCEPT !.scheduledDeactivationWeight = a] EXCEPT
                !.scheduledDeactivationWeight = b]
    <3> DEFINE f == [c EXCEPT !.scheduledDeactivationWeight = a]
    <3>1. f.scheduledDeactivationWeight = a
      BY DEF CoreType
    <3>2. d = [f EXCEPT !.scheduledDeactivationWeight[nu] = @ + nw]
      BY DEF MoveDeactivation
    <3> HIDE DEF f, a
    <3>3. d = [f EXCEPT !.scheduledDeactivationWeight = b]
      BY <3>1, <3>2
    <3> QED BY <3>3 DEF f
  <2> HIDE DEF a, b, d
  <2> QED BY <2>1 DEF CoreType
<1>4. /\ b \in [Epochs -> Nat]
      /\ \A e \in Epochs : b[e] = o[e] + When(nu = e, nw) - When(u = e, w)
  <2> HIDE DEF o, w, u
  <2>1. a \in [Epochs -> Nat] /\ \A e \in Epochs : a[e] = o[e] - When(u = e, w)
    BY <1>1, <1>2 DEF SaturatingSub, When
  <2>2. nu # u
    BY DEF u
  <2> HIDE DEF a
  <2> QED BY <1>1, <1>2, <2>1, <2>2 DEF When
<1> HIDE DEF b, d
<1>5. d \in CoreType
  BY Zenon, <1>3, <1>4 DEF CoreType
<1>6. /\ SameClock(c, d) /\ SameBooks(c, d)
      /\ d.activeTotalWeight = c.activeTotalWeight
      /\ d.scheduledActivationWeight = c.scheduledActivationWeight
      /\ d.scheduledDeactivationWeight = b
  BY <1>3 DEF CoreType, SameClock, SameConfig, SameBooks
<1>7. IsMoved(c, d, u, w, nu, nw)
  BY <1>4, <1>6 DEF IsMoved
<1> QED BY <1>5, <1>7 DEF d

\* q is p with a later unlock epoch and another weight.
IsExtended(p, q) ==
    /\ IsPosition(p) /\ IsPosition(q) /\ q.amount = p.amount
    /\ q.activationEpoch = p.activationEpoch /\ q.unlockEpoch > p.unlockEpoch

LEMMA ExtensionFacts ==
  ASSUME NEW p, NEW q, IsExtended(p, q)
  PROVE  /\ p.weight \in Nat /\ q.weight \in Nat /\ p.unlockEpoch \in Epochs
         /\ q.unlockEpoch \in Epochs /\ p.activationEpoch \in Epochs
         /\ p.unlockEpoch \in Nat /\ q.unlockEpoch \in Nat /\ p.activationEpoch \in Nat
         /\ p.amount \in Nat
BY EngineAssumption DEF IsExtended, IsPosition, PositionType, Epochs

\* Before activation: both schedules move, the books and the active weight do not.
IsExtendedEarly(c, d, p, nu, nw) ==
    d = [MoveDeactivation(c, p, nu, nw) EXCEPT
            !.scheduledActivationWeight[p.activationEpoch] =
                IF nw >= p.weight THEN @ + (nw - p.weight)
                ELSE SaturatingSub(@, p.weight - nw)]

LEMMA ExtendInactiveKeeps ==
  ASSUME NEW c, NEW locked \in Nat, NEW claimed \in Nat, NEW ps, IsPositions(ps),
         LedgerInv(c, locked, ps, claimed), NEW qs, NEW i, DiffersAt(ps, qs, i),
         IsExtended(ps[i], qs[i]), c.epoch < ps[i].activationEpoch,
         NEW d, IsExtendedEarly(c, d, ps[i], qs[i].unlockEpoch, qs[i].weight)
  PROVE  LedgerInv(d, locked, qs, claimed) /\ SameClock(c, d)
<1> DEFINE p == ps[i]
           q == qs[i]
           s == p.activationEpoch
           w == p.weight
           nw == q.weight
           u == p.unlockEpoch
           nu == q.unlockEpoch
           f == MoveDeactivation(c, p, nu, nw)
           o == c.scheduledActivationWeight
           x == IF nw >= w THEN o[s] + (nw - w) ELSE SaturatingSub(o[s], w - nw)
           a == [o EXCEPT ![s] = x]
<1>1. c \in CoreType /\ Staged(c) /\ WeightsExact(c, ps) /\ Books(c, locked, claimed)
  BY DEF LedgerInv
<1>2. /\ w \in Nat /\ nw \in Nat /\ s \in Epochs /\ u \in Epochs /\ nu \in Epochs
      /\ s \in Nat /\ u \in Nat /\ nu \in Nat /\ s < u /\ u < nu /\ q.activationEpoch = s
      /\ IsPosition(p) /\ c.epoch \in Nat /\ c.epoch < s
  BY ExtensionFacts, LedgerEpoch DEF IsExtended, IsPosition
<1>3. i \in 1 .. Len(ps)
  BY DEF DiffersAt
<1>4. /\ w <= StoppingWeight(ps, u) /\ w <= StartingWeight(ps, s)
      /\ StartingWeight(ps, s) \in Nat
  BY <1>2, <1>3, TalliesBound
<1>5. /\ o[s] = StartingWeight(ps, s)
      /\ c.scheduledDeactivationWeight[u] = StoppingWeight(ps, u)
  BY <1>1, <1>2 DEF WeightsExact
<1>6. f \in CoreType /\ IsMoved(c, f, u, w, nu, nw)
  BY <1>1, <1>2, <1>4, <1>5, MoveKeeps
<1>7. TalliesMove(ps, qs, p, q)
  BY TalliesOfUpdate
<1>8. d = [f EXCEPT !.scheduledActivationWeight = a]
  <2>1. f.scheduledActivationWeight = o
    BY <1>6 DEF IsMoved
  <2>2. d = [f EXCEPT !.scheduledActivationWeight[s] =
                 IF nw >= w THEN @ + (nw - w) ELSE SaturatingSub(@, w - nw)]
    BY DEF IsExtendedEarly
  <2> HIDE DEF f, o, s, w, nw
  <2> QED BY <2>1, <2>2
<1> HIDE DEF f, o, s, w, nw, u, nu, p, q
<1>9. x \in Nat /\ x = o[s] + nw - w
  BY <1>2, <1>4, <1>5 DEF SaturatingSub
<1>10. /\ a \in [Epochs -> Nat]
       /\ \A e \in Epochs : a[e] = o[e] + When(s = e, nw) - When(s = e, w)
  <2>1. o \in [Epochs -> Nat]
    BY <1>1 DEF CoreType, o
  <2>2. w \in Nat /\ nw \in Nat /\ s \in Epochs
    BY <1>2
  <2> HIDE DEF x
  <2>3. a \in [Epochs -> Nat]
    BY <1>9, <2>1
  <2>4. ASSUME NEW e \in Epochs
        PROVE  a[e] = o[e] + When(s = e, nw) - When(s = e, w)
    <3>1. o[e] \in Nat
      BY <2>1
    <3>2. CASE e = s
      BY <3>1, <3>2, <1>9, <2>1, <2>2 DEF When
    <3>3. CASE e # s
      BY <3>1, <3>3, <2>1, <2>2 DEF When
    <3> QED BY <3>2, <3>3
  <2> QED BY <2>3, <2>4
<1> HIDE DEF a, x
<1>11. d \in CoreType
  BY Zenon, <1>6, <1>8, <1>10 DEF CoreType
<1>12. /\ SameClock(f, d) /\ SameBooks(f, d)
       /\ d.activeTotalWeight = f.activeTotalWeight
       /\ d.scheduledActivationWeight = a
       /\ d.scheduledDeactivationWeight = f.scheduledDeactivationWeight
  BY <1>6, <1>8 DEF CoreType, SameClock, SameConfig, SameBooks
<1>13. SameClock(c, d)
  BY <1>6, <1>12 DEF IsMoved, SameClock, SameConfig
<1>14. WeightsExact(d, qs)
  <2>1. ActiveWeight(qs, c.epoch) = ActiveWeight(ps, c.epoch)
    <3>1. /\ When(IsActive(q, c.epoch), q.weight) = 0
          /\ When(IsActive(p, c.epoch), p.weight) = 0
      BY <1>2 DEF When, IsActive, s
    <3>2. ActiveWeight(ps, c.epoch) \in Nat
      BY <1>1 DEF WeightsExact, CoreType
    <3> QED BY <3>1, <3>2, <1>2, <1>7 DEF TalliesMove
  <2>2. ASSUME NEW e \in Epochs, e > c.epoch
        PROVE  /\ d.scheduledActivationWeight[e] = StartingWeight(qs, e)
               /\ d.scheduledDeactivationWeight[e] = StoppingWeight(qs, e)
    <3>1. e \in Nat
      BY EngineAssumption DEF Epochs
    <3>2. /\ StartingWeight(qs, e) = o[e] + When(s = e, nw) - When(s = e, w)
          /\ StoppingWeight(qs, e) =
                 c.scheduledDeactivationWeight[e] + When(nu = e, nw) - When(u = e, w)
      BY <2>2, <3>1, <1>1, <1>2, <1>7 DEF TalliesMove, WeightsExact, o, s, u, nu, w, nw
    <3> QED BY <3>2, <1>6, <1>10, <1>12 DEF IsMoved
  <2> QED BY <2>1, <2>2, <1>1, <1>6, <1>12, <1>13 DEF WeightsExact, SameClock, IsMoved
<1>15. Books(d, locked, claimed)
  BY <1>1, <1>6, <1>12 DEF Books, SameBooks, IsMoved
<1>16. Staged(d)
  BY <1>1, <1>13, SameClockStaged
<1> QED BY <1>11, <1>13, <1>14, <1>15, <1>16 DEF LedgerInv

\* While active: the open epoch is paid, and the active weight follows.
IsExtendedLate(c, d, p, nu, nw, rewards) ==
    d = [DeliverNara(MoveDeactivation(c, p, nu, nw), rewards) EXCEPT
            !.activeTotalWeight = @ + nw - p.weight]

LEMMA ExtendActiveKeeps ==
  ASSUME NEW c, NEW locked \in Nat, NEW claimed \in Nat, NEW ps, IsPositions(ps),
         LedgerInv(c, locked, ps, claimed), NEW qs, NEW i, DiffersAt(ps, qs, i),
         IsExtended(ps[i], qs[i]),
         ps[i].activationEpoch <= c.epoch, c.epoch < ps[i].unlockEpoch,
         NEW rewards \in Nat, rewards <= c.balance,
         NEW d, IsExtendedLate(c, d, ps[i], qs[i].unlockEpoch, qs[i].weight, rewards)
  PROVE  LedgerInv(d, locked, qs, claimed + rewards) /\ SameClock(c, d)
<1> DEFINE p == ps[i]
           q == qs[i]
           s == p.activationEpoch
           w == p.weight
           nw == q.weight
           u == p.unlockEpoch
           nu == q.unlockEpoch
           f == MoveDeactivation(c, p, nu, nw)
           x == SaturatingSub(f.totalPendingNaraRewards, rewards)
           y == f.balance - rewards
           z == f.activeTotalWeight + nw - w
<1>1. c \in CoreType /\ Staged(c) /\ WeightsExact(c, ps) /\ Books(c, locked, claimed)
  BY DEF LedgerInv
<1>2. /\ w \in Nat /\ nw \in Nat /\ s \in Epochs /\ u \in Epochs /\ nu \in Epochs
      /\ s \in Nat /\ u \in Nat /\ nu \in Nat /\ s < u /\ u < nu /\ q.activationEpoch = s
      /\ IsPosition(p) /\ c.epoch \in Nat /\ s <= c.epoch /\ c.epoch < u
  BY ExtensionFacts, LedgerEpoch DEF IsExtended, IsPosition
<1>3. i \in 1 .. Len(ps)
  BY DEF DiffersAt
<1>4. /\ w <= StoppingWeight(ps, u) /\ w <= ActiveWeight(ps, c.epoch)
      /\ ActiveWeight(ps, c.epoch) \in Nat
  <2>1. IsActive(p, c.epoch)
    BY <1>2 DEF IsActive
  <2> QED BY <2>1, <1>2, <1>3, TalliesBound
<1>5. /\ c.activeTotalWeight = ActiveWeight(ps, c.epoch)
      /\ c.scheduledDeactivationWeight[u] = StoppingWeight(ps, u)
  BY <1>1, <1>2 DEF WeightsExact
<1>6. f \in CoreType /\ IsMoved(c, f, u, w, nu, nw)
  BY <1>1, <1>2, <1>4, <1>5, MoveKeeps
<1>7. TalliesMove(ps, qs, p, q)
  BY TalliesOfUpdate
<1>8. d = [f EXCEPT !.totalPendingNaraRewards = x, !.balance = y, !.activeTotalWeight = z]
  <2>1. d = [DeliverNara(f, rewards) EXCEPT !.activeTotalWeight = @ + nw - w]
    BY DEF IsExtendedLate
  <2> HIDE DEF f, w, nw
  <2> QED BY <2>1, <1>6 DEF DeliverNara, CoreType
<1> HIDE DEF f, s, w, nw, u, nu, p, q
<1>9. /\ c.balance \in Nat /\ c.trackedEmissionReserve \in Nat /\ c.totalNaraDripPaid \in Nat
      /\ c.totalPendingNaraRewards \in Nat /\ c.reserve.balance \in Nat
  BY <1>1 DEF CoreType, ReserveType
<1>10. /\ f.balance = c.balance /\ f.trackedEmissionReserve = c.trackedEmissionReserve
       /\ f.totalNaraDripPaid = c.totalNaraDripPaid
       /\ f.totalPendingNaraRewards = c.totalPendingNaraRewards /\ f.reserve = c.reserve
       /\ f.activeTotalWeight = c.activeTotalWeight
  BY <1>6 DEF IsMoved, SameBooks
<1>11. x \in Nat /\ y \in Nat /\ z \in Nat
  BY <1>2, <1>4, <1>5, <1>9, <1>10 DEF SaturatingSub
<1> HIDE DEF x, y, z
<1>12. d \in CoreType
  BY Zenon, <1>6, <1>8, <1>11 DEF CoreType
<1>13. /\ SameClock(f, d) /\ d.activeTotalWeight = z /\ d.balance = y
       /\ d.totalPendingNaraRewards = x
       /\ d.trackedEmissionReserve = f.trackedEmissionReserve
       /\ d.totalNaraDripPaid = f.totalNaraDripPaid /\ d.reserve = f.reserve
       /\ d.scheduledActivationWeight = f.scheduledActivationWeight
       /\ d.scheduledDeactivationWeight = f.scheduledDeactivationWeight
  BY <1>6, <1>8 DEF CoreType, SameClock, SameConfig
<1>14. SameClock(c, d)
  BY <1>6, <1>13 DEF IsMoved, SameClock, SameConfig
<1>15. WeightsExact(d, qs)
  <2>1. ActiveWeight(qs, c.epoch) = z
    <3>1. /\ When(IsActive(q, c.epoch), q.weight) = nw
          /\ When(IsActive(p, c.epoch), p.weight) = w
      BY <1>2 DEF When, IsActive, s, u, nu, w, nw
    <3> QED BY <3>1, <1>2, <1>4, <1>5, <1>7, <1>10 DEF TalliesMove, z
  <2>2. ASSUME NEW e \in Epochs, e > c.epoch
        PROVE  /\ d.scheduledActivationWeight[e] = StartingWeight(qs, e)
               /\ d.scheduledDeactivationWeight[e] = StoppingWeight(qs, e)
    <3>1. e \in Nat
      BY EngineAssumption DEF Epochs
    <3>2. When(s = e, nw) = 0 /\ When(s = e, w) = 0
      BY <2>2, <3>1, <1>2 DEF When
    <3>3. c.scheduledActivationWeight[e] \in Nat
      BY <1>1 DEF CoreType
    <3>4. /\ StartingWeight(qs, e) = c.scheduledActivationWeight[e]
          /\ StoppingWeight(qs, e) =
                 c.scheduledDeactivationWeight[e] + When(nu = e, nw) - When(u = e, w)
      <4>1. /\ StartingWeight(ps, e) = c.scheduledActivationWeight[e]
            /\ StoppingWeight(ps, e) = c.scheduledDeactivationWeight[e]
        BY <2>2, <1>1 DEF WeightsExact
      <4>2. /\ StartingWeight(qs, e) =
                   StartingWeight(ps, e) + When(s = e, nw) - When(s = e, w)
            /\ StoppingWeight(qs, e) =
                   StoppingWeight(ps, e) + When(nu = e, nw) - When(u = e, w)
        BY <3>1, <1>2, <1>7 DEF TalliesMove, s, u, nu, w, nw
      <4> QED BY <4>1, <4>2, <3>2, <3>3
    <3> QED BY <3>4, <1>6, <1>13 DEF IsMoved
  <2> QED BY <2>1, <2>2, <1>13, <1>14 DEF WeightsExact, SameClock
<1>16. Books(d, locked, claimed + rewards)
  <2>1. Supply \in Nat
    BY EngineAssumption
  <2> QED BY <2>1, <1>1, <1>9, <1>10, <1>13 DEF Books, SaturatingSub, x, y
<1>17. Staged(d)
  BY <1>1, <1>14, SameClockStaged
<1> QED BY <1>12, <1>14, <1>15, <1>16, <1>17 DEF LedgerInv
================================================================================
