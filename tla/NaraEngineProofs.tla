---------------------------- MODULE NaraEngineProofs ----------------------------
(* Theorems about NARAEngine for every value of the constants: the inductive       *)
(* invariant and the safety properties that follow from it, the custody promise    *)
(* that it implements, and, in the second half, the rewards: what positions can    *)
(* still collect, in NARA, ETH and tokens, is covered by what came in for them.    *)
(* At the end, the same for the engine in the care of its keeper.                  *)
EXTENDS NaraLedgerProofs, EpochKeeper, FiniteSetTheorems, SequenceTheorems

--------------------------------------------------------------------------------
(* Types of what is owed *)

LEMMA PositionParts ==
  ASSUME NEW p, IsPosition(p)
  PROVE  /\ p.amount \in Nat /\ p.weight \in Nat \ {0} /\ p.tokenWeight \in Nat \ {0}
         /\ p.createdEpoch \in Nat /\ p.activationEpoch \in Nat /\ p.unlockEpoch \in Nat
         /\ p.createdEpoch < p.activationEpoch /\ p.activationEpoch < p.unlockEpoch
         /\ p.unlockEpoch <= EpochBound /\ EpochBound \in Nat
         /\ p.naraDebtRay \in DebtType /\ p.ethDebtRay \in DebtType
         /\ p.tokenDebtRay \in Nat
BY EngineAssumption DEF IsPosition, PositionType, Epochs

LEMMA OpeningDebtType ==
  ASSUME NEW idx, idx \in [Epochs -> Nat], NEW p, IsPosition(p)
  PROVE  OpeningDebt(p.weight, idx, p) \in Nat
<1>1. p.weight \in Nat /\ p.activationEpoch - 1 \in Epochs
  <2> DEFINE a == p.activationEpoch
             b == p.createdEpoch
             d == p.unlockEpoch
  <2>1. /\ p.weight \in Nat /\ a \in Nat /\ b \in Nat /\ d \in Nat /\ b < a /\ a < d
        /\ d <= EpochBound /\ EpochBound \in Nat
    BY PositionParts
  <2> HIDE DEF a, b, d
  <2>2. a - 1 \in Epochs
    BY <2>1 DEF Epochs
  <2> QED BY <2>1, <2>2 DEF a
<1>2. idx[p.activationEpoch - 1] \in Nat
  BY <1>1
<1> QED BY <1>1, <1>2, MulDivIsNat, RayAssumption DEF OpeningDebt

LEMMA AccrualType ==
  ASSUME NEW idx, idx \in [Epochs -> Nat], NEW ep \in Nat, NEW p, IsPosition(p),
         NEW debtRay, debtRay \in DebtType
  PROVE  /\ Accrual(idx, ep, p, debtRay).owed \in Nat
         /\ Accrual(idx, ep, p, debtRay).debt \in DebtType
<1>1. CASE ~ HasClosedEpoch(ep, p)
  BY <1>1 DEF Accrual
<1>2. CASE HasClosedEpoch(ep, p)
  <2> DEFINE last == LastPayableEpoch(ep, p)
             debt == IF debtRay = DEBT_UNINITIALISED
                     THEN OpeningDebt(p.weight, idx, p) ELSE debtRay
             gross == MulDiv(p.weight, idx[last], RAY)
  <2>1. p.weight \in Nat /\ last \in Epochs
    BY <1>2, PositionParts DEF Epochs, HasClosedEpoch, LastPayableEpoch, MinOf
  <2>2. debt \in Nat
    BY OpeningDebtType DEF DebtType
  <2>3. gross \in Nat
    <3>1. idx[last] \in Nat
      BY <2>1
    <3> QED BY <2>1, <3>1, MulDivIsNat, RayAssumption
  <2>4. Accrual(idx, ep, p, debtRay) =
            IF gross > debt THEN [owed |-> gross - debt, debt |-> gross]
            ELSE [owed |-> 0, debt |-> debt]
    BY <1>2 DEF Accrual
  <2> HIDE DEF debt, gross, last
  <2> QED BY <2>2, <2>3, <2>4 DEF DebtType
<1> QED BY <1>1, <1>2

LEMMA SettlementType ==
  ASSUME NEW idx, idx \in [Epochs -> Nat], NEW live \in Nat, NEW ep \in Nat,
         NEW p, IsPosition(p), NEW debtRay, debtRay \in DebtType
  PROVE  Settlement(idx, live, ep, p, debtRay) \in Nat
<1> DEFINE closed == Accrual(idx, ep, p, debtRay)
           debt   == IF closed.debt = DEBT_UNINITIALISED
                     THEN OpeningDebt(p.weight, idx, p) ELSE closed.debt
           gross  == MulDiv(p.weight, live, RAY)
<1>1. closed.owed \in Nat /\ closed.debt \in DebtType
  BY AccrualType
<1>2. debt \in Nat
  <2> HIDE DEF closed
  <2> QED BY <1>1, OpeningDebtType DEF DebtType
<1>3. gross \in Nat
  <2>1. p.weight \in Nat
    BY DEF IsPosition, PositionType
  <2> QED BY <2>1, MulDivIsNat, RayAssumption
<1>4. Settlement(idx, live, ep, p, debtRay) = closed.owed + SaturatingSub(gross, debt)
  BY DEF Settlement
<1> HIDE DEF closed, debt, gross
<1> QED BY <1>1, <1>2, <1>3, <1>4 DEF SaturatingSub

TokenType == [indexRay : Nat, balance : Nat, notified : Nat,
              checkpoints : Seq([epoch : Epochs, indexRay : Nat])]

LEMMA TokenIndexType ==
  ASSUME NEW t, t \in TokenType, NEW e
  PROVE  TokenIndexAtOrBefore(t, e) \in Nat
<1> DEFINE len == Len(t.checkpoints)
           known == {k \in DOMAIN t.checkpoints : t.checkpoints[k].epoch <= e}
<1>1. /\ t.checkpoints \in Seq([epoch : Epochs, indexRay : Nat])
      /\ len \in Nat /\ DOMAIN t.checkpoints = 1 .. len
  BY DEF TokenType
<1>2. CASE known = {}
  BY <1>2 DEF TokenIndexAtOrBefore
<1>3. CASE known # {}
  <2>1. known \in SUBSET (1 .. len)
    BY <1>1
  <2>2. IsFiniteSet(1 .. len) /\ Cardinality(1 .. len) = len
    BY <1>1, FS_Interval
  <2> HIDE DEF known, len
  <2>3. /\ IsFiniteSet(known) /\ Cardinality(known) \in Nat
        /\ Cardinality(known) <= len
    BY <2>1, <2>2, FS_Subset, FS_CardinalityType
  <2>4. Cardinality(known) # 0
    BY <2>3, <1>3, FS_EmptySet
  <2>5. Cardinality(known) \in 1 .. len
    BY <2>3, <2>4, <1>1
  <2>6. t.checkpoints[Cardinality(known)].indexRay \in Nat
    <3> DEFINE E == [epoch : Epochs, indexRay : Nat]
    <3>1. t.checkpoints \in Seq(E) /\ len = Len(t.checkpoints)
      BY <1>1 DEF len
    <3>2. \A x \in E : x.indexRay \in Nat
      OBVIOUS
    <3> HIDE DEF E
    <3>3. t.checkpoints[Cardinality(known)] \in E
      BY <2>5, <3>1
    <3> QED BY <3>2, <3>3
  <2> QED BY <2>6, <1>3 DEF TokenIndexAtOrBefore, known
<1> QED BY <1>2, <1>3

LEMMA TokenOwedType ==
  ASSUME NEW t, t \in TokenType, NEW ep, NEW p, IsPosition(p)
  PROVE  TokenOwed(t, ep, p).owed \in Nat /\ TokenOwed(t, ep, p).debt \in Nat
<1> DEFINE end   == TokenRewardEndIndex(t, ep, p)
           start == TokenIndexAtOrBefore(t, p.activationEpoch - 1)
           debt  == IF p.tokenDebtRay = 0 /\ start # 0
                    THEN MulDiv(p.tokenWeight, start, RAY) ELSE p.tokenDebtRay
           gross == MulDiv(p.tokenWeight, end, RAY)
<1>1. p.tokenWeight \in Nat /\ p.tokenDebtRay \in Nat /\ t.indexRay \in Nat
  BY DEF IsPosition, PositionType, TokenType
<1>2. start \in Nat /\ end \in Nat
  BY <1>1, TokenIndexType DEF TokenRewardEndIndex
<1> HIDE DEF start, end
<1>3. debt \in Nat /\ gross \in Nat
  BY <1>1, <1>2, MulDivIsNat, RayAssumption
<1>4. TokenOwed(t, ep, p) = IF gross > debt THEN [owed |-> gross - debt, debt |-> gross]
                            ELSE [owed |-> 0, debt |-> p.tokenDebtRay]
  BY DEF TokenOwed, TokenAccrual, start, end
<1> HIDE DEF debt, gross
<1> QED BY <1>1, <1>3, <1>4

--------------------------------------------------------------------------------
(* The inductive invariant *)

\* The settled epoch never runs ahead of a clock that stays within its bound.
ClockInv == now \in 0 .. MaxTime /\ core.epoch <= CurrentEpoch
\* The ledger is well formed, its weights are the positions' and its books balance.
BooksInv == /\ LedgerInv(core, totalLocked, positions, totalNaraDripClaimed)
            /\ totalLocked \in Nat /\ totalNaraDripClaimed \in Nat
PositionInv == IsPositions(positions) /\ PrincipalConserved
\* At most one configuration change is in flight.
ConfigInv ==
    /\ pendingConfig \in [config : Configs \cup {NoConfig}, timestamp : Nat]
    /\ pendingConfig.timestamp # 0 => pendingConfig.config \in Configs
    /\ core.stagedConfigEpoch # 0 => pendingConfig.timestamp = 0

FeesType == [lockFeeBps : FeeBpsChoices \cup {0}, claimFeeBps : FeeBpsChoices \cup {0},
             lockFeeWei : Nat, unlockFeeWei : Nat]
EthType == [balance : Nat, accumulatedTreasuryEthFees : Nat, received : Nat, claimed : Nat]
RebasesType == [count : Nat, shed : Nat]
FundsInv == /\ fees \in FeesType /\ eth \in EthType /\ token \in TokenType
            /\ rebases \in RebasesType

OwnerInv == ownerPositionCount \in [Owners -> Nat] /\ OwnerCountExact

IInv == ClockInv /\ BooksInv /\ PositionInv /\ ConfigInv /\ FundsInv /\ OwnerInv

--------------------------------------------------------------------------------
(* What the freshness check gives every function *)

LEMMA ClockFacts ==
  ASSUME IInv
  PROVE  /\ CurrentEpoch \in Epochs /\ CurrentEpoch \in Nat
         /\ core.epoch \in Nat /\ core \in CoreType
<1>1. now \in Nat /\ now <= MaxTime /\ EpochLength \in Nat \ {0} /\ MaxTime \in Nat
      /\ EpochBound \in Nat /\ MaxTime \div EpochLength <= EpochBound
  BY EngineAssumption DEF IInv, ClockInv
<1>2. CurrentEpoch \in Nat /\ CurrentEpoch <= MaxTime \div EpochLength
  BY <1>1, DivIsMonotone DEF CurrentEpoch
<1>3. MaxTime \div EpochLength \in Nat
  BY <1>1, DivIsMonotone
<1>4. CurrentEpoch \in Epochs
  BY <1>1, <1>2, <1>3 DEF Epochs
<1>5. core.epoch \in Nat /\ core \in CoreType
  BY LedgerEpoch DEF IInv, BooksInv, LedgerInv
<1> QED BY <1>2, <1>4, <1>5

IsFresh(c) == /\ LedgerInv(c, totalLocked, positions, totalNaraDripClaimed)
              /\ IsLater(core, c) /\ c.epoch <= CurrentEpoch

LEMMA AdvancedFacts ==
  ASSUME IInv, NEW n \in Nat, NEW c, c \in Advanced(n)
  PROVE  /\ LedgerInv(c, totalLocked, positions, totalNaraDripClaimed)
         /\ IsLater(core, c)
<1>1. PICK draws \in [core.epoch + 1 .. MinOf(CurrentEpoch, core.epoch + n) -> Draws] :
          c = CatchUp(core, totalLocked, CurrentEpoch, draws, n)
  BY DEF Advanced
<1>2. /\ LedgerInv(core, totalLocked, positions, totalNaraDripClaimed)
      /\ totalLocked \in Nat /\ totalNaraDripClaimed \in Nat /\ IsPositions(positions)
      /\ CurrentEpoch \in Epochs
  BY ClockFacts DEF IInv, BooksInv, PositionInv
<1> QED BY <1>1, <1>2, CatchUpKeeps

LEMMA FreshFacts ==
  ASSUME IInv, NEW c, c \in FreshCores
  PROVE  IsFresh(c) /\ c.epoch = CurrentEpoch
<1>1. c \in Advanced(MaxJitAdvance) /\ c.epoch = CurrentEpoch
  BY DEF FreshCores
<1>2. MaxJitAdvance \in Nat
  BY EngineAssumption
<1>3. /\ LedgerInv(c, totalLocked, positions, totalNaraDripClaimed)
      /\ IsLater(core, c)
  BY <1>1, <1>2, AdvancedFacts
<1>4. c.epoch <= CurrentEpoch
  BY <1>1, ClockFacts
<1> QED BY <1>1, <1>3, <1>4 DEF IsFresh

LEMMA CoreIsFresh ==
  ASSUME IInv
  PROVE  IsFresh(core)
<1>1. IsLater(core, core)
  BY ClockFacts DEF IsLater
<1> QED BY <1>1 DEF IsFresh, IInv, BooksInv, ClockInv

\* The parts of the invariant about a step whose ledger keeps the clock of a fresh one.
LEMMA StepFromFresh ==
  ASSUME IInv, NEW c, IsFresh(c), SameClock(c, core'), UNCHANGED <<now, pendingConfig>>
  PROVE  ClockInv' /\ ConfigInv'
<1>1. CurrentEpoch' = CurrentEpoch /\ c.epoch \in Nat
  BY LedgerEpoch DEF CurrentEpoch, IsFresh
<1>2. ClockInv'
  BY <1>1 DEF IInv, ClockInv, SameClock, IsFresh
<1>3. core'.stagedConfigEpoch # 0 => pendingConfig.timestamp = 0
  BY DEF SameClock, SameConfig, IsFresh, IsLater, IInv, ConfigInv
<1>4. ConfigInv'
  BY <1>3 DEF IInv, ConfigInv
<1> QED BY <1>2, <1>4

--------------------------------------------------------------------------------
(* Payments *)

LEMMA PositionsFacts ==
  ASSUME IInv
  PROVE  /\ IsPositions(positions) /\ Ids = 1 .. Len(positions) /\ Len(positions) \in Nat
         /\ DOMAIN positions = Ids /\ positions \in Seq(PositionType)
         /\ \A i \in Ids : IsPosition(positions[i])
<1>1. IsPositions(positions) /\ positions \in Seq(PositionType)
  BY DEF IInv, PositionInv, IsPositions
<1>2. Ids = 1 .. Len(positions) /\ Len(positions) \in Nat /\ DOMAIN positions = Ids
  BY <1>1, PositionFacts DEF Ids
<1>3. \A i \in Ids : IsPosition(positions[i])
  BY <1>1, <1>2, PositionFacts DEF IsPosition
<1> QED BY <1>1, <1>2, <1>3

LEMMA SumOverIsNat ==
  ASSUME IInv, NEW ids, NEW f, \A i \in Ids : f[i] \in Nat
  PROVE  SumOver(ids, f) \in Nat
<1> DEFINE g == [i \in Ids |-> When(i \in ids, f[i])]
<1>1. Ids = 1 .. Len(positions) /\ Len(positions) \in Nat
  BY PositionsFacts
<1>2. \A i \in 1 .. Len(positions) : g[i] \in Nat
  BY <1>1 DEF When
<1> HIDE DEF g
<1>3. SumTo(g, Len(positions)) \in Nat
  BY <1>1, <1>2, SumIsNat
<1> QED BY <1>3 DEF SumOver, g

LEMMA FeesFacts ==
  ASSUME IInv
  PROVE  /\ BPS \in Nat \ {0}
         /\ fees.claimFeeBps \in Nat /\ fees.claimFeeBps <= BPS
         /\ fees.lockFeeBps \in Nat /\ fees.lockFeeBps <= BPS
         /\ fees.lockFeeWei \in Nat /\ fees.unlockFeeWei \in Nat
<1>1. fees \in FeesType
  BY DEF IInv, FundsInv
<1>2. BPS \in Nat \ {0} /\ FeeBpsChoices \cup {0} \subseteq 0 .. BPS
  BY EngineAssumption
<1>3. \A x \in FeeBpsChoices \cup {0} : x \in Nat /\ x <= BPS
  BY <1>2
<1>4. fees.claimFeeBps \in FeeBpsChoices \cup {0} /\ fees.lockFeeBps \in FeeBpsChoices \cup {0}
      /\ fees.lockFeeWei \in Nat /\ fees.unlockFeeWei \in Nat
  BY <1>1 DEF FeesType
<1> QED BY <1>2, <1>3, <1>4

\* Whatever the claim fee, what is kept and what is sent are amounts of ETH.
LEMMA DeliverEthType ==
  ASSUME IInv, NEW e, e \in EthType, NEW ids, NEW owed, \A i \in Ids : owed[i] \in Nat,
         DeliverEth(e, ids, owed).balance >= 0
  PROVE  DeliverEth(e, ids, owed) \in EthType
<1> DEFINE fee  == [i \in Ids |-> ClaimFee(owed[i])]
           n    == Len(positions)
           feeSum == SumOver(ids, fee)
           all  == SumOver(ids, owed)
           f    == [i \in Ids |-> When(i \in ids, fee[i])]
           g    == [i \in Ids |-> When(i \in ids, owed[i])]
<1>1. Ids = 1 .. n /\ n \in Nat
  BY PositionsFacts
<1>2. fees.claimFeeBps \in Nat /\ fees.claimFeeBps <= BPS /\ BPS \in Nat \ {0}
  BY FeesFacts
<1>3. \A i \in Ids : fee[i] \in Nat /\ fee[i] <= owed[i]
  <2>1. \A a \in Nat : ClaimFee(a) \in Nat /\ ClaimFee(a) <= a
    BY <1>2, ShareIsNoMore DEF ClaimFee
  <2> QED BY <2>1
<1> HIDE DEF fee, n
<1>4. feeSum \in Nat /\ all \in Nat
  BY <1>3, SumOverIsNat
<1>5. feeSum <= all
  <2>1. feeSum = SumTo(f, n) /\ all = SumTo(g, n)
    BY DEF SumOver, n
  <2>2. \A i \in 1 .. n : f[i] \in Nat /\ g[i] \in Nat /\ f[i] <= g[i]
    BY <1>1, <1>3 DEF When
  <2> HIDE DEF f, g, feeSum, all
  <2>3. IsFamily(f, n) /\ IsFamily(g, n)
    BY <1>1, <2>2 DEF IsFamily
  <2> QED BY <2>1, <2>2, <2>3, SumIsMonotone
<1> DEFINE b == e.balance - (all - feeSum)
           x == e.claimed + (all - feeSum)
           y == e.accumulatedTreasuryEthFees + feeSum
<1>6. DeliverEth(e, ids, owed) = [e EXCEPT !.balance = b, !.claimed = x,
                                           !.accumulatedTreasuryEthFees = y]
  BY DEF DeliverEth, fee
<1> HIDE DEF feeSum, all, f, g
<1>7. /\ e.balance \in Nat /\ e.claimed \in Nat /\ e.accumulatedTreasuryEthFees \in Nat
  BY DEF EthType
<1>8. b \in Int /\ x \in Nat /\ y \in Nat
  BY <1>4, <1>5, <1>7
<1> HIDE DEF b, x, y
<1>9. b \in Nat
  <2>1. DeliverEth(e, ids, owed).balance = b
    BY <1>6 DEF EthType
  <2> QED BY <1>8, <2>1
<1> QED BY Zenon, <1>6, <1>8, <1>9 DEF EthType

LEMMA CollectType ==
  ASSUME NEW e, e \in EthType, NEW required \in Nat
  PROVE  CollectFlatEthFee(e, required) \in EthType
<1> DEFINE x == e.balance + required
           y == e.accumulatedTreasuryEthFees + required
<1>1. CollectFlatEthFee(e, required) =
          [e EXCEPT !.balance = x, !.accumulatedTreasuryEthFees = y]
  BY DEF CollectFlatEthFee
<1>2. x \in Nat /\ y \in Nat
  BY DEF EthType
<1> HIDE DEF x, y
<1> QED BY Zenon, <1>1, <1>2 DEF EthType

\* What a ledger of the right type owes each position.
LEMMA OwedType ==
  ASSUME IInv, NEW c, c \in CoreType
  PROVE  \A i \in Ids : /\ NaraOwed(c)[i] \in Nat /\ NaraAccrual(c, i).debt \in DebtType
                        /\ EthOwed(c)[i] \in Nat /\ EthAccrual(c, i).debt \in DebtType
<1>1. SUFFICES ASSUME NEW i \in Ids
               PROVE  /\ NaraOwed(c)[i] \in Nat /\ NaraAccrual(c, i).debt \in DebtType
                      /\ EthOwed(c)[i] \in Nat /\ EthAccrual(c, i).debt \in DebtType
  OBVIOUS
<1>2. IsPosition(positions[i])
  BY PositionsFacts
<1>3. /\ c.naraIndexAtEpoch \in [Epochs -> Nat] /\ c.ethIndexAtEpoch \in [Epochs -> Nat]
      /\ c.epoch \in Nat
  <2>1. /\ c.naraIndexAtEpoch \in [Epochs -> Nat] /\ c.ethIndexAtEpoch \in [Epochs -> Nat]
        /\ c.epoch \in Epochs
    BY DEF CoreType
  <2>2. \A e \in Epochs : e \in Nat
    BY DEF Epochs
  <2> QED BY <2>1, <2>2
<1>4. positions[i].naraDebtRay \in DebtType /\ positions[i].ethDebtRay \in DebtType
  BY <1>2, PositionParts
<1>5. NaraAccrual(c, i).owed \in Nat /\ NaraAccrual(c, i).debt \in DebtType
  BY <1>2, <1>3, <1>4, AccrualType DEF NaraAccrual
<1>6. EthAccrual(c, i).owed \in Nat /\ EthAccrual(c, i).debt \in DebtType
  BY <1>2, <1>3, <1>4, AccrualType DEF EthAccrual
<1> QED BY <1>5, <1>6 DEF NaraOwed, EthOwed

\* A payment moves the debts of a position, and an unlock its amount.
IsRepaid(p, q, x, y, a) ==
    q = [p EXCEPT !.naraDebtRay = x, !.ethDebtRay = y, !.amount = a]

LEMMA PaidPosition ==
  ASSUME NEW p, IsPosition(p), NEW x, x \in DebtType, NEW y, y \in DebtType,
         NEW a, a \in Nat, NEW q, IsRepaid(p, q, x, y, a)
  PROVE  /\ IsPosition(q) /\ q.amount = a /\ q.weight = p.weight
         /\ q.activationEpoch = p.activationEpoch /\ q.unlockEpoch = p.unlockEpoch
         /\ q.owner = p.owner /\ q.countsOwnerCap = p.countsOwnerCap
<1>1. p \in PositionType
  BY DEF IsPosition
<1>2. q \in PositionType
  BY Zenon, <1>1 DEF PositionType, IsRepaid
<1> QED BY <1>1, <1>2 DEF IsPosition, PositionType, IsRepaid

--------------------------------------------------------------------------------
(* Steps that touch no position *)

LEMMA StandingPositions ==
  ASSUME IInv, UNCHANGED <<positions, totalLocked, ownerPositionCount>>
  PROVE  PositionInv' /\ OwnerInv'
<1>1. Ids' = Ids
  BY DEF Ids
<1> QED BY <1>1 DEF IInv, PositionInv, OwnerInv, PrincipalConserved, OwnerCountExact

LEMMA ReshapedLedger ==
  ASSUME NEW c, NEW locked, NEW ps, NEW claimed, LedgerInv(c, locked, ps, claimed),
         NEW d, d \in CoreType, SameConfig(c, d), SameWeights(c, d), Books(d, locked, claimed)
  PROVE  LedgerInv(d, locked, ps, claimed) /\ SameClock(c, d)
<1>1. SameClock(c, d)
  BY DEF SameClock, SameWeights
<1>2. Staged(d)
  BY <1>1, SameClockStaged DEF LedgerInv
<1>3. WeightsExact(d, ps)
  BY DEF LedgerInv, WeightsExact, SameWeights
<1> QED BY <1>1, <1>2, <1>3 DEF LedgerInv

\* A step of the ledger alone.
LEMMA LedgerStep ==
  ASSUME IInv, OnlyCoreChanges, NEW c, IsFresh(c), SameClock(c, core'),
         LedgerInv(core', totalLocked, positions, totalNaraDripClaimed)
  PROVE  IInv'
<1>1. ClockInv' /\ ConfigInv'
  BY StepFromFresh DEF OnlyCoreChanges
<1>2. PositionInv' /\ OwnerInv'
  BY StandingPositions DEF OnlyCoreChanges
<1>3. BooksInv'
  BY DEF OnlyCoreChanges, IInv, BooksInv
<1>4. FundsInv'
  BY DEF OnlyCoreChanges, IInv, FundsInv
<1> QED BY <1>1, <1>2, <1>3, <1>4 DEF IInv

LEMMA BooksFacts ==
  ASSUME IInv
  PROVE  /\ core \in CoreType /\ core.balance \in Nat /\ core.trackedEmissionReserve \in Nat
         /\ core.reserve \in ReserveType /\ core.reserve.balance \in Nat
         /\ core.totalNaraDripPaid \in Nat /\ core.totalPendingNaraRewards \in Nat
         /\ totalLocked \in Nat /\ totalNaraDripClaimed \in Nat /\ Supply \in Nat
         /\ Books(core, totalLocked, totalNaraDripClaimed)
         /\ LedgerInv(core, totalLocked, positions, totalNaraDripClaimed)
<1>1. core \in CoreType /\ Books(core, totalLocked, totalNaraDripClaimed)
      /\ totalLocked \in Nat /\ totalNaraDripClaimed \in Nat
      /\ LedgerInv(core, totalLocked, positions, totalNaraDripClaimed)
  BY DEF IInv, BooksInv, LedgerInv
<1>2. /\ core.balance \in Nat /\ core.trackedEmissionReserve \in Nat
      /\ core.reserve \in ReserveType
      /\ core.totalNaraDripPaid \in Nat /\ core.totalPendingNaraRewards \in Nat
  BY <1>1 DEF CoreType
<1>3. core.reserve.balance \in Nat
  BY <1>2 DEF ReserveType
<1> QED BY <1>1, <1>2, <1>3, EngineAssumption

LEMMA TickStep ==
  ASSUME IInv, Tick
  PROVE  IInv'
<1>1. now \in Nat /\ EpochLength \in Nat \ {0} /\ MaxTime \in Nat /\ now < MaxTime
  BY EngineAssumption DEF IInv, ClockInv, Tick
<1>2. CurrentEpoch \in Nat /\ CurrentEpoch' \in Nat /\ CurrentEpoch <= CurrentEpoch'
  <2>1. now' = now + 1
    BY DEF Tick
  <2>2. now + 1 \in Nat /\ now <= now + 1
    BY <1>1
  <2>3. now \div EpochLength \in Nat /\ now \div EpochLength <= (now + 1) \div EpochLength
    BY <1>1, <2>2, DivIsMonotone
  <2>4. (now + 1) \div EpochLength \in Nat
    BY <1>1, <2>2, DivIsMonotone
  <2> QED BY <2>1, <2>3, <2>4 DEF CurrentEpoch
<1>3. ClockInv'
  BY <1>1, <1>2, ClockFacts DEF IInv, ClockInv, Tick
<1>4. PositionInv' /\ OwnerInv'
  BY StandingPositions DEF Tick
<1>5. BooksInv' /\ FundsInv' /\ ConfigInv'
  BY DEF Tick, IInv, BooksInv, FundsInv, ConfigInv
<1> QED BY <1>3, <1>4, <1>5 DEF IInv

\* NARA arriving from outside, booked as reserve or not.
LEMMA FundedLedger ==
  ASSUME IInv, NEW a \in Nat, a <= Circulating(core), NEW b \in Nat, b <= a,
         core' = [core EXCEPT !.balance = @ + a, !.trackedEmissionReserve = @ + b],
         OnlyCoreChanges
  PROVE  IInv'
<1> DEFINE x == core.balance + a
           y == core.trackedEmissionReserve + b
<1>1. x \in Nat /\ y \in Nat
  BY BooksFacts
<1>2. core' = [core EXCEPT !.balance = x, !.trackedEmissionReserve = y]
  OBVIOUS
<1> HIDE DEF x, y
<1>3. core' \in CoreType
  BY Zenon, BooksFacts, <1>1, <1>2 DEF CoreType
<1>4. /\ SameConfig(core, core') /\ SameWeights(core, core')
      /\ core'.balance = x /\ core'.trackedEmissionReserve = y
      /\ core'.totalNaraDripPaid = core.totalNaraDripPaid
      /\ core'.totalPendingNaraRewards = core.totalPendingNaraRewards
      /\ core'.reserve = core.reserve
  BY BooksFacts, <1>2 DEF CoreType, SameConfig, SameWeights
<1>5. Books(core', totalLocked, totalNaraDripClaimed)
  BY BooksFacts, <1>4 DEF Books, Circulating, x, y
<1>6. /\ LedgerInv(core', totalLocked, positions, totalNaraDripClaimed)
      /\ SameClock(core, core')
  BY BooksFacts, <1>3, <1>4, <1>5, ReshapedLedger
<1> QED BY <1>6, CoreIsFresh, LedgerStep

LEMMA DepositStep ==
  ASSUME IInv, NEW a \in Deposits, DepositRewards(a)
  PROVE  IInv'
<1>1. a \in Nat /\ a <= a
  BY EngineAssumption
<1>2. /\ core' = [core EXCEPT !.balance = @ + a, !.trackedEmissionReserve = @ + a]
      /\ a <= Circulating(core) /\ OnlyCoreChanges
  BY DEF DepositRewards
<1> QED BY Zenon, <1>1, <1>2, FundedLedger

LEMMA DonateStep ==
  ASSUME IInv, NEW a \in Donations, Donate(a)
  PROVE  IInv'
<1>1. a \in Nat /\ 0 \in Nat /\ 0 <= a
  BY EngineAssumption
<1>2. core' = [core EXCEPT !.balance = @ + a, !.trackedEmissionReserve = @ + 0]
  <2>1. core' = [core EXCEPT !.balance = @ + a]
    BY DEF Donate
  <2>2. core.trackedEmissionReserve + 0 = core.trackedEmissionReserve
    BY BooksFacts
  <2> QED BY <2>1, <2>2, BooksFacts DEF CoreType
<1>3. a <= Circulating(core) /\ OnlyCoreChanges
  BY DEF Donate
<1> QED BY Zenon, <1>1, <1>2, <1>3, FundedLedger

LEMMA SyncStep ==
  ASSUME IInv, SyncEmissionReserve
  PROVE  IInv'
<1>1. core' = TopUp(core, totalLocked) /\ OnlyCoreChanges
  BY DEF SyncEmissionReserve
<1>2. /\ core' \in CoreType /\ SameWeights(core, core') /\ SameConfig(core, core')
      /\ Books(core', totalLocked, totalNaraDripClaimed)
  BY <1>1, BooksFacts, TopUpKeeps
<1>3. /\ LedgerInv(core', totalLocked, positions, totalNaraDripClaimed)
      /\ SameClock(core, core')
  BY BooksFacts, <1>2, ReshapedLedger
<1> QED BY <1>1, <1>3, CoreIsFresh, LedgerStep

LEMMA AdvanceStep ==
  ASSUME IInv, NEW n \in Nat, AdvanceBy(n)
  PROVE  IInv'
<1>1. /\ core' \in Advanced(n) /\ core'.epoch = MinOf(CurrentEpoch, core.epoch + n)
      /\ OnlyCoreChanges
  BY DEF AdvanceBy
<1>2. /\ LedgerInv(core', totalLocked, positions, totalNaraDripClaimed)
      /\ IsLater(core, core')
  BY <1>1, AdvancedFacts
<1>3. core'.epoch <= CurrentEpoch
  BY <1>1, ClockFacts DEF MinOf
<1>4. IsFresh(core') /\ SameClock(core', core')
  BY <1>2, <1>3 DEF IsFresh, SameClock, SameConfig
<1> QED BY <1>1, <1>2, <1>4, LedgerStep

LEMMA WireStep ==
  ASSUME IInv, SetRewardReserve
  PROVE  IInv'
<1> DEFINE r == [core.reserve EXCEPT !.wired = TRUE]
<1>1. core' = [core EXCEPT !.reserve = r] /\ OnlyCoreChanges
  BY DEF SetRewardReserve
<1>2. /\ r \in ReserveType /\ r.balance = core.reserve.balance
      /\ r.totalReleased = core.reserve.totalReleased /\ r.allocation = core.reserve.allocation
  BY BooksFacts DEF ReserveType
<1> HIDE DEF r
<1>3. core' \in CoreType
  BY Zenon, BooksFacts, <1>1, <1>2 DEF CoreType
<1>4. /\ SameConfig(core, core') /\ SameWeights(core, core')
      /\ core'.balance = core.balance
      /\ core'.trackedEmissionReserve = core.trackedEmissionReserve
      /\ core'.totalNaraDripPaid = core.totalNaraDripPaid
      /\ core'.totalPendingNaraRewards = core.totalPendingNaraRewards
      /\ core'.reserve = r
  BY BooksFacts, <1>1 DEF CoreType, SameConfig, SameWeights
<1>5. Books(core', totalLocked, totalNaraDripClaimed)
  BY BooksFacts, <1>2, <1>4 DEF Books
<1>6. /\ LedgerInv(core', totalLocked, positions, totalNaraDripClaimed)
      /\ SameClock(core, core')
  BY BooksFacts, <1>3, <1>4, <1>5, ReshapedLedger
<1> QED BY <1>1, <1>6, CoreIsFresh, LedgerStep

--------------------------------------------------------------------------------
(* Administration *)

LEMMA ProposeStep ==
  ASSUME IInv, NEW k \in ProposedConfigs, ProposeConfig(k)
  PROVE  IInv'
<1>1. k \in Configs /\ now \in Nat /\ ConfigChangeDelay \in Nat
  BY EngineAssumption, ConfigAssumption DEF IInv, ClockInv
<1>2. /\ pendingConfig' = [config |-> k, timestamp |-> now + ConfigChangeDelay]
      /\ core.stagedConfigEpoch = 0
      /\ UNCHANGED <<now, core, totalLocked, positions, ownerPositionCount, fees, eth,
                     totalNaraDripClaimed, token, rebases>>
  BY DEF ProposeConfig
<1>3. ConfigInv'
  BY <1>1, <1>2 DEF ConfigInv
<1>4. ClockInv' /\ BooksInv' /\ FundsInv'
  BY <1>2 DEF IInv, ClockInv, CurrentEpoch, BooksInv, FundsInv
<1>5. PositionInv' /\ OwnerInv'
  BY <1>2, StandingPositions
<1> QED BY <1>3, <1>4, <1>5 DEF IInv

\* A ledger with another staged configuration.
LEMMA StagedLedger ==
  ASSUME IInv, NEW c, IsFresh(c), NEW k, NEW e \in Nat,
         core' = [c EXCEPT !.stagedConfig = k, !.stagedConfigEpoch = e],
         \/ e = 0 /\ k = NoConfig
         \/ e = c.epoch + 1 /\ k \in Configs,
         pendingConfig' = NothingPending,
         UNCHANGED <<now, totalLocked, positions, ownerPositionCount, fees, eth,
                     totalNaraDripClaimed, token, rebases>>
  PROVE  IInv'
<1>1. /\ c \in CoreType /\ WeightsExact(c, positions)
      /\ Books(c, totalLocked, totalNaraDripClaimed) /\ c.epoch \in Nat
      /\ c.epoch <= CurrentEpoch
  BY LedgerEpoch DEF IsFresh, LedgerInv
<1>2. k \in Configs \cup {NoConfig}
  OBVIOUS
<1>3. core' \in CoreType
  BY Zenon, <1>1, <1>2 DEF CoreType
<1>4. /\ SameWeights(c, core') /\ SameBooks(c, core')
      /\ core'.stagedConfig = k /\ core'.stagedConfigEpoch = e
  BY <1>1 DEF CoreType, SameWeights, SameBooks
<1>5. LedgerInv(core', totalLocked, positions, totalNaraDripClaimed)
  <2>1. Staged(core')
    BY <1>1, <1>4 DEF Staged, SameWeights
  <2>2. WeightsExact(core', positions)
    BY <1>1, <1>4 DEF WeightsExact, SameWeights
  <2>3. Books(core', totalLocked, totalNaraDripClaimed)
    BY <1>1, <1>4 DEF Books, SameBooks
  <2> QED BY <1>3, <2>1, <2>2, <2>3 DEF LedgerInv
<1>6. ClockInv'
  BY <1>1, <1>4 DEF IInv, ClockInv, CurrentEpoch, SameWeights
<1>7. ConfigInv'
  BY DEF ConfigInv, NothingPending
<1>8. BooksInv' /\ FundsInv'
  BY <1>5 DEF IInv, BooksInv, FundsInv
<1>9. PositionInv' /\ OwnerInv'
  BY StandingPositions
<1> QED BY <1>6, <1>7, <1>8, <1>9 DEF IInv

LEMMA ExecuteStep ==
  ASSUME IInv, ExecuteConfig
  PROVE  IInv'
<1>1. PICK c \in FreshCores :
          core' = [c EXCEPT !.stagedConfig = pendingConfig.config,
                            !.stagedConfigEpoch = c.epoch + 1]
  BY DEF ExecuteConfig, StagedFor
<1>2. IsFresh(c)
  BY FreshFacts
<1>3. c.epoch + 1 \in Nat
  BY <1>2, LedgerEpoch DEF IsFresh
<1>4. pendingConfig.config \in Configs
  BY DEF ExecuteConfig, IInv, ConfigInv
<1>5. /\ pendingConfig' = NothingPending
      /\ UNCHANGED <<now, totalLocked, positions, ownerPositionCount, fees, eth,
                     totalNaraDripClaimed, token, rebases>>
  BY DEF ExecuteConfig
<1> QED BY <1>1, <1>2, <1>3, <1>4, <1>5, StagedLedger

LEMMA CancelStep ==
  ASSUME IInv, CancelConfig
  PROVE  IInv'
<1>1. /\ core' = [core EXCEPT !.stagedConfig = NoConfig, !.stagedConfigEpoch = 0]
      /\ pendingConfig' = NothingPending
      /\ UNCHANGED <<now, totalLocked, positions, ownerPositionCount, fees, eth,
                     totalNaraDripClaimed, token, rebases>>
  BY DEF CancelConfig
<1> QED BY <1>1, CoreIsFresh, StagedLedger

\* A step that leaves the ledger and the positions alone.
LEMMA FundsStep ==
  ASSUME IInv, FundsInv',
         UNCHANGED <<now, core, totalLocked, positions, ownerPositionCount, pendingConfig,
                     totalNaraDripClaimed>>
  PROVE  IInv'
<1>1. ClockInv' /\ BooksInv' /\ ConfigInv'
  BY DEF IInv, ClockInv, CurrentEpoch, BooksInv, ConfigInv
<1>2. PositionInv' /\ OwnerInv'
  BY StandingPositions
<1> QED BY <1>1, <1>2 DEF IInv

LEMMA SetFeeStep ==
  ASSUME IInv, SetFee
  PROVE  IInv'
<1>1. fees \in FeesType /\ FlatFeeChoices \subseteq Nat
  BY EngineAssumption DEF IInv, FundsInv
<1>2. fees' \in FeesType
  BY <1>1 DEF SetFee, FeesType
<1>3. FundsInv'
  BY <1>2 DEF IInv, FundsInv, SetFee
<1> QED BY <1>3, FundsStep DEF SetFee

LEMMA WithdrawStep ==
  ASSUME IInv, WithdrawTreasuryEthFees
  PROVE  IInv'
<1> DEFINE x == eth.balance - eth.accumulatedTreasuryEthFees
<1>1. eth \in EthType
  BY DEF IInv, FundsInv
<1>2. eth' = [eth EXCEPT !.balance = x, !.accumulatedTreasuryEthFees = 0]
      /\ eth.balance >= eth.accumulatedTreasuryEthFees
  BY DEF WithdrawTreasuryEthFees
<1>3. x \in Nat
  BY <1>1, <1>2 DEF EthType
<1> HIDE DEF x
<1>4. eth' \in EthType
  BY <1>1, <1>2, <1>3 DEF EthType
<1>5. FundsInv'
  BY <1>4 DEF IInv, FundsInv, WithdrawTreasuryEthFees
<1> QED BY <1>5, FundsStep DEF WithdrawTreasuryEthFees

--------------------------------------------------------------------------------
(* Rewards paid in and out *)

LEMMA FreshParts ==
  ASSUME IInv, NEW c, IsFresh(c)
  PROVE  /\ c \in CoreType /\ c.epoch \in Nat /\ c.activeTotalWeight \in Nat
         /\ c.pendingEthForNextEpoch \in Nat /\ c.balance \in Nat
         /\ c.naraIndexRay \in Nat /\ c.ethIndexRay \in Nat
         /\ c.naraIndexAtEpoch \in [Epochs -> Nat] /\ c.ethIndexAtEpoch \in [Epochs -> Nat]
         /\ c.epoch \in Epochs /\ c.config \in Configs
         /\ LedgerInv(c, totalLocked, positions, totalNaraDripClaimed)
         /\ Books(c, totalLocked, totalNaraDripClaimed)
<1>1. c \in CoreType /\ LedgerInv(c, totalLocked, positions, totalNaraDripClaimed)
      /\ Books(c, totalLocked, totalNaraDripClaimed)
  BY DEF IsFresh, LedgerInv
<1>2. c.epoch \in Nat /\ c.epoch \in Epochs
  BY <1>1, LedgerEpoch
<1> QED BY <1>1, <1>2 DEF CoreType

LEMMA NotifyEthStep ==
  ASSUME IInv, NEW a \in EthRewards, NotifyEthRewards(a)
  PROVE  IInv'
<1>1. PICK c \in FreshCores : core' = [c EXCEPT !.pendingEthForNextEpoch = @ + a]
  BY DEF NotifyEthRewards
<1>2. IsFresh(c) /\ a \in Nat
  BY FreshFacts, EngineAssumption
<1> DEFINE x == c.pendingEthForNextEpoch + a
<1>3. x \in Nat /\ core' = [c EXCEPT !.pendingEthForNextEpoch = x]
  BY <1>1, <1>2, FreshParts
<1> HIDE DEF x
<1>4. c \in CoreType
  BY <1>2, FreshParts
<1>5. core' \in CoreType
  BY Zenon, <1>3, <1>4 DEF CoreType
<1>6. SameConfig(c, core') /\ SameWeights(c, core') /\ SameBooks(c, core')
  BY <1>3, <1>4 DEF CoreType, SameConfig, SameWeights, SameBooks
<1>7. Books(core', totalLocked, totalNaraDripClaimed)
  BY <1>2, <1>6, FreshParts DEF Books, SameBooks
<1>8. /\ LedgerInv(core', totalLocked, positions, totalNaraDripClaimed)
      /\ SameClock(c, core')
  BY <1>2, <1>5, <1>6, <1>7, FreshParts, ReshapedLedger
<1>9. UNCHANGED <<now, totalLocked, positions, ownerPositionCount, pendingConfig, fees,
                  totalNaraDripClaimed, token, rebases>>
  BY DEF NotifyEthRewards
<1>10. eth' \in EthType
  <2> DEFINE y == eth.balance + a
             z == eth.received + a
  <2>1. eth \in EthType
    BY DEF IInv, FundsInv
  <2>2. eth' = [eth EXCEPT !.balance = y, !.received = z]
    BY DEF NotifyEthRewards
  <2>3. y \in Nat /\ z \in Nat
    BY <1>2, <2>1 DEF EthType
  <2> HIDE DEF y, z
  <2> QED BY Zenon, <2>1, <2>2, <2>3 DEF EthType
<1>11. ClockInv' /\ ConfigInv'
  BY <1>2, <1>8, <1>9, StepFromFresh
<1>12. BooksInv' /\ FundsInv'
  BY <1>8, <1>9, <1>10 DEF IInv, BooksInv, FundsInv
<1>13. PositionInv' /\ OwnerInv'
  BY <1>9, StandingPositions
<1> QED BY <1>11, <1>12, <1>13 DEF IInv

\* The ledger a function leaves as it found it, once caught up.
LEMMA FreshLedger ==
  ASSUME IInv, NEW c \in FreshCores, core' = c, UNCHANGED <<now, pendingConfig>>
  PROVE  /\ ClockInv' /\ ConfigInv'
         /\ LedgerInv(core', totalLocked, positions, totalNaraDripClaimed)
<1>1. IsFresh(c)
  BY FreshFacts
<1>2. SameClock(c, core')
  BY DEF SameClock, SameConfig
<1> QED BY <1>1, <1>2, StepFromFresh DEF IsFresh

LEMMA CheckpointsType ==
  ASSUME NEW entries, entries \in Seq([epoch : Epochs, indexRay : Nat]),
         NEW e \in Epochs, NEW x \in Nat
  PROVE  WriteTokenIndexCheckpoint(entries, e, x) \in Seq([epoch : Epochs, indexRay : Nat])
<1> DEFINE E == [epoch : Epochs, indexRay : Nat]
           n == Len(entries)
           entry == [epoch |-> e, indexRay |-> x]
<1>1. entry \in E
  OBVIOUS
<1>2. entries \in [1 .. n -> E] /\ n \in Nat
  BY LenProperties
<1>3. [entries EXCEPT ![n] = entry] \in Seq(E)
  <2> HIDE DEF E, entry, n
  <2>1. [entries EXCEPT ![n] = entry] \in [1 .. n -> E]
    BY <1>1, <1>2
  <2> QED BY <1>2, <2>1, SeqDef
<1>4. Append(entries, entry) \in Seq(E)
  <2> HIDE DEF E, entry
  <2> QED BY <1>1 DEF E
<1>5. WriteTokenIndexCheckpoint(entries, e, x) \in {[entries EXCEPT ![n] = entry],
                                                    Append(entries, entry)}
  BY DEF WriteTokenIndexCheckpoint
<1> HIDE DEF E, entry, n
<1> QED BY <1>3, <1>4, <1>5 DEF E

LEMMA NotifyTokenStep ==
  ASSUME IInv, NEW a \in TokenRewards, NotifyTokenRewards(a)
  PROVE  IInv'
<1> DEFINE Index(c) == token.indexRay + MulDiv(a, RAY, c.activeTotalWeight)
<1>1. PICK c \in FreshCores :
          /\ c.activeTotalWeight > 0 /\ core' = c
          /\ token' = [indexRay |-> Index(c), balance |-> token.balance + a,
                       notified |-> token.notified + a,
                       checkpoints |-> WriteTokenIndexCheckpoint(
                                           token.checkpoints, c.epoch, Index(c))]
  BY DEF NotifyTokenRewards
<1>2. UNCHANGED <<now, totalLocked, positions, ownerPositionCount, pendingConfig, fees,
                  eth, totalNaraDripClaimed, rebases>>
  BY DEF NotifyTokenRewards
<1>3. ClockInv' /\ ConfigInv' /\ LedgerInv(core', totalLocked, positions, totalNaraDripClaimed)
  BY <1>1, <1>2, FreshLedger
<1>4. c.activeTotalWeight \in Nat \ {0} /\ a \in Nat /\ c.epoch \in Epochs
  BY <1>1, FreshFacts, FreshParts, EngineAssumption
<1>5. /\ token.indexRay \in Nat /\ token.balance \in Nat /\ token.notified \in Nat
      /\ token.checkpoints \in Seq([epoch : Epochs, indexRay : Nat])
  BY DEF IInv, FundsInv, TokenType
<1>6. Index(c) \in Nat
  <2>1. MulDiv(a, RAY, c.activeTotalWeight) \in Nat
    BY <1>4, MulDivIsNat, RayAssumption
  <2> QED BY <1>5, <2>1
<1> DEFINE y == token.balance + a
           z == token.notified + a
           k == WriteTokenIndexCheckpoint(token.checkpoints, c.epoch, Index(c))
<1>7. y \in Nat /\ z \in Nat
  BY <1>4, <1>5
<1>8. k \in Seq([epoch : Epochs, indexRay : Nat])
  <2> HIDE DEF Index
  <2> QED BY <1>4, <1>5, <1>6, CheckpointsType
<1>9. token' = [indexRay |-> Index(c), balance |-> y, notified |-> z, checkpoints |-> k]
  BY <1>1
<1> HIDE DEF Index, y, z, k
<1>10. token' \in TokenType
  BY Zenon, <1>6, <1>7, <1>8, <1>9 DEF TokenType
<1>11. BooksInv' /\ FundsInv'
  BY <1>2, <1>3, <1>10 DEF IInv, BooksInv, FundsInv
<1>12. PositionInv' /\ OwnerInv'
  BY <1>2, StandingPositions
<1> QED BY <1>3, <1>11, <1>12 DEF IInv

--------------------------------------------------------------------------------
(* Steps that change positions *)

\* A sequence of positions given by its entries.
LEMMA SequenceOfPositions ==
  ASSUME NEW n \in Nat, NEW qs, qs = [j \in 1 .. n |-> qs[j]],
         \A j \in 1 .. n : IsPosition(qs[j])
  PROVE  IsPositions(qs) /\ Len(qs) = n
<1>1. \A j \in 1 .. n : qs[j] \in PositionType
  BY DEF IsPosition
<1>2. qs \in [1 .. n -> PositionType]
  BY <1>1
<1>3. qs \in Seq(PositionType)
  BY <1>2, SeqDef
<1>4. DOMAIN qs = 1 .. n
  BY <1>2
<1>5. Len(qs) = n
  <2>1. Len(qs) \in Nat /\ DOMAIN qs = 1 .. Len(qs)
    BY <1>3, LenProperties
  <2> QED BY <2>1, <1>4
<1> QED BY <1>3, <1>4, <1>5 DEF IsPositions, IsPosition

IsReplaced(ps, qs, i, q) == qs = [ps EXCEPT ![i] = q]

LEMMA ReplacedPosition ==
  ASSUME NEW ps, IsPositions(ps), NEW i \in 1 .. Len(ps), NEW q, IsPosition(q),
         NEW qs, IsReplaced(ps, qs, i, q)
  PROVE  DiffersAt(ps, qs, i) /\ qs[i] = q
<1>1. Len(ps) \in Nat /\ DOMAIN ps = 1 .. Len(ps) /\ \A j \in 1 .. Len(ps) : IsPosition(ps[j])
  BY PositionFacts DEF IsPosition
<1>2. qs = [j \in 1 .. Len(ps) |-> qs[j]]
  BY <1>1 DEF IsReplaced
<1>3. qs[i] = q /\ \A j \in 1 .. Len(ps) : j # i => qs[j] = ps[j]
  BY <1>1 DEF IsReplaced
<1>4. \A j \in 1 .. Len(ps) : IsPosition(qs[j])
  BY <1>1, <1>3
<1>5. IsPositions(qs) /\ Len(qs) = Len(ps)
  BY <1>1, <1>2, <1>4, SequenceOfPositions
<1> QED BY <1>3, <1>5 DEF DiffersAt

\* The positions that hold a cap slot of owner o.
Counted(ps, o) == {i \in 1 .. Len(ps) : ps[i].owner = o /\ ps[i].countsOwnerCap
                                        /\ ps[i].amount # 0}

LEMMA CountedFacts ==
  ASSUME IInv, NEW o \in Owners
  PROVE  /\ ownerPositionCount[o] \in Nat
         /\ ownerPositionCount[o] = Cardinality(Counted(positions, o))
         /\ ownerPositionCount[o] <= MaxPositionsPerAccount
         /\ IsFiniteSet(Counted(positions, o))
         /\ Cardinality(Counted(positions, o)) \in Nat
<1>1. /\ ownerPositionCount[o] = Cardinality(Counted(positions, o))
      /\ ownerPositionCount[o] <= MaxPositionsPerAccount
      /\ ownerPositionCount \in [Owners -> Nat]
  <2>1. OwnerCountExact /\ ownerPositionCount \in [Owners -> Nat]
    BY DEF IInv, OwnerInv
  <2>2. Counted(positions, o) = {i \in Ids : positions[i].owner = o
                                    /\ positions[i].countsOwnerCap /\ positions[i].amount # 0}
    BY DEF Counted, Ids
  <2> QED BY <2>1, <2>2 DEF OwnerCountExact
<1>2. IsFiniteSet(1 .. Len(positions)) /\ Counted(positions, o) \in SUBSET (1 .. Len(positions))
  BY PositionsFacts, FS_Interval DEF Counted
<1>3. IsFiniteSet(Counted(positions, o))
  BY <1>2, FS_Subset
<1> QED BY <1>1, <1>3, FS_CardinalityType

LEMMA OwnerInvByCounts ==
  ASSUME ownerPositionCount' \in [Owners -> Nat],
         \A o \in Owners : /\ ownerPositionCount'[o] = Cardinality(Counted(positions', o))
                           /\ ownerPositionCount'[o] <= MaxPositionsPerAccount
  PROVE  OwnerInv'
BY DEF OwnerInv, OwnerCountExact, Counted, Ids

\* Positions that stay open with their owner keep their cap slot.
SameSlots(ps, qs) ==
    /\ Len(qs) = Len(ps)
    /\ \A j \in 1 .. Len(ps) : /\ qs[j].owner = ps[j].owner
                               /\ qs[j].countsOwnerCap = ps[j].countsOwnerCap
                               /\ qs[j].amount = ps[j].amount

LEMMA OwnersStand ==
  ASSUME IInv, UNCHANGED ownerPositionCount, SameSlots(positions, positions')
  PROVE  OwnerInv'
<1>1. \A o \in Owners : Counted(positions', o) = Counted(positions, o)
  BY DEF SameSlots, Counted
<1>2. ownerPositionCount' \in [Owners -> Nat]
  BY DEF IInv, OwnerInv
<1> QED BY <1>1, <1>2, CountedFacts, OwnerInvByCounts

\* The principal stands when amounts do.
LEMMA PrincipalStands ==
  ASSUME IInv, UNCHANGED totalLocked, IsPositions(positions'), SameSlots(positions, positions')
  PROVE  PositionInv'
<1>1. Principals(positions') = Principals(positions)
  BY PositionsFacts, SameAmountsSamePrincipals DEF SameSlots
<1> QED BY <1>1 DEF IInv, PositionInv, PrincipalConserved

LEMMA ClaimTokenStep ==
  ASSUME IInv, NEW i \in Ids, ClaimTokenRewards(i)
  PROVE  IInv'
<1> DEFINE p == positions[i]
           Due(c) == TokenOwed(token, c.epoch, p)
<1>1. PICK c \in FreshCores :
          /\ Due(c).owed <= token.balance /\ core' = c
          /\ positions' = [positions EXCEPT ![i].tokenDebtRay = Due(c).debt]
          /\ token' = [token EXCEPT !.balance = @ - Due(c).owed]
  BY DEF ClaimTokenRewards
<1>2. UNCHANGED <<now, totalLocked, ownerPositionCount, pendingConfig, fees, eth,
                  totalNaraDripClaimed, rebases>>
  BY DEF ClaimTokenRewards
<1>3. ClockInv' /\ ConfigInv' /\ LedgerInv(c, totalLocked, positions, totalNaraDripClaimed)
  BY <1>1, <1>2, FreshLedger
<1>4. token \in TokenType /\ IsPosition(p) /\ IsPositions(positions)
      /\ i \in 1 .. Len(positions)
  BY PositionsFacts DEF IInv, FundsInv
<1>5. Due(c).owed \in Nat /\ Due(c).debt \in Nat
  BY <1>4, TokenOwedType
<1> DEFINE owed == Due(c).owed
           debt == Due(c).debt
           y == token.balance - owed
           q == [p EXCEPT !.tokenDebtRay = debt]
<1>6. y \in Nat
  BY <1>1, <1>4, <1>5 DEF TokenType
<1>7. token' \in TokenType
  <2>1. token' = [token EXCEPT !.balance = y]
    BY <1>1
  <2> HIDE DEF y
  <2> QED BY Zenon, <1>4, <1>6, <2>1 DEF TokenType
<1>8. /\ IsPosition(q) /\ q.amount = p.amount /\ q.weight = p.weight
      /\ q.activationEpoch = p.activationEpoch /\ q.unlockEpoch = p.unlockEpoch
      /\ q.owner = p.owner /\ q.countsOwnerCap = p.countsOwnerCap
  <2> HIDE DEF p, debt
  <2>1. debt \in Nat
    BY <1>5 DEF debt
  <2>2. q \in PositionType
    BY Zenon, <1>4, <2>1 DEF PositionType, IsPosition
  <2> QED BY <1>4, <2>2 DEF PositionType, IsPosition
<1>9. positions' = [positions EXCEPT ![i] = q]
  BY <1>1
<1> HIDE DEF Due, q
<1>10. DiffersAt(positions, positions', i) /\ positions'[i] = q
  <2>1. IsPosition(q) /\ IsPositions(positions) /\ i \in 1 .. Len(positions)
    BY <1>4, <1>8
  <2>2. IsReplaced(positions, positions', i, q)
    BY <1>9 DEF IsReplaced
  <2> QED BY <2>1, <2>2, ReplacedPosition
<1>11. /\ IsPositions(positions') /\ SameSlots(positions, positions')
       /\ SameWeighing(positions, positions')
  BY <1>8, <1>10 DEF DiffersAt, SameSlots, SameWeighing
<1>12. LedgerInv(core', totalLocked, positions', totalNaraDripClaimed)
  <2>1. WeightsExact(c, positions')
    BY <1>3, <1>4, <1>11, TalliesOfSameWeighing DEF LedgerInv, WeightsExact
  <2> QED BY <1>1, <1>3, <2>1 DEF LedgerInv
<1>13. BooksInv' /\ FundsInv'
  BY <1>2, <1>7, <1>12 DEF IInv, BooksInv, FundsInv
<1>14. PositionInv' /\ OwnerInv'
  BY <1>2, <1>11, PrincipalStands, OwnersStand
<1> QED BY <1>3, <1>13, <1>14 DEF IInv

\* Some positions have been paid, and hold what they held or nothing.
IsPaidOut(c, i, a, q) ==
    q = [positions[i] EXCEPT !.naraDebtRay = NaraAccrual(c, i).debt,
                             !.ethDebtRay = EthAccrual(c, i).debt, !.amount = a]

IsPayment(c, ids, qs) ==
    /\ qs = [j \in Ids |-> qs[j]]
    /\ \A j \in Ids : /\ j \notin ids => qs[j] = positions[j]
                      /\ j \in ids => \E a \in Nat : IsPaidOut(c, j, a, qs[j])
SameOwners(ps, qs) == \A j \in Ids : /\ qs[j].owner = ps[j].owner
                                     /\ qs[j].countsOwnerCap = ps[j].countsOwnerCap

LEMMA PaidSequence ==
  ASSUME IInv, NEW c, c \in CoreType, NEW ids, NEW qs, IsPayment(c, ids, qs)
  PROVE  /\ IsPositions(qs) /\ Len(qs) = Len(positions) /\ SameWeighing(positions, qs)
         /\ SameOwners(positions, qs)
<1> DEFINE n == Len(positions)
<1>1. Ids = 1 .. n /\ n \in Nat /\ IsPositions(positions)
  BY PositionsFacts
<1>2. \A j \in Ids : /\ IsPosition(qs[j])
                     /\ qs[j].weight = positions[j].weight
                     /\ qs[j].activationEpoch = positions[j].activationEpoch
                     /\ qs[j].unlockEpoch = positions[j].unlockEpoch
                     /\ qs[j].owner = positions[j].owner
                     /\ qs[j].countsOwnerCap = positions[j].countsOwnerCap
  <2>1. SUFFICES ASSUME NEW j \in Ids
                 PROVE  /\ IsPosition(qs[j])
                        /\ qs[j].weight = positions[j].weight
                        /\ qs[j].activationEpoch = positions[j].activationEpoch
                        /\ qs[j].unlockEpoch = positions[j].unlockEpoch
                        /\ qs[j].owner = positions[j].owner
                        /\ qs[j].countsOwnerCap = positions[j].countsOwnerCap
    OBVIOUS
  <2>2. IsPosition(positions[j])
    BY PositionsFacts
  <2>3. CASE j \notin ids
    BY <2>2, <2>3 DEF IsPayment
  <2>4. CASE j \in ids
    <3>1. PICK a \in Nat : IsPaidOut(c, j, a, qs[j])
      BY <2>4 DEF IsPayment
    <3>2. NaraAccrual(c, j).debt \in DebtType /\ EthAccrual(c, j).debt \in DebtType
      BY OwedType
    <3> DEFINE p == positions[j]
               x == NaraAccrual(c, j).debt
               y == EthAccrual(c, j).debt
    <3>3. IsRepaid(p, qs[j], x, y, a)
      BY <3>1 DEF IsPaidOut, IsRepaid
    <3>4. IsPosition(p) /\ x \in DebtType /\ y \in DebtType
      BY <2>2, <3>2
    <3> HIDE DEF p, x, y
    <3>5. /\ IsPosition(qs[j]) /\ qs[j].weight = p.weight
          /\ qs[j].activationEpoch = p.activationEpoch
          /\ qs[j].unlockEpoch = p.unlockEpoch
          /\ qs[j].owner = p.owner /\ qs[j].countsOwnerCap = p.countsOwnerCap
      BY <3>3, <3>4, PaidPosition
    <3> QED BY <3>5 DEF p
  <2> QED BY <2>3, <2>4
<1>3. IsPositions(qs) /\ Len(qs) = n
  <2>1. qs = [j \in 1 .. n |-> qs[j]]
    BY <1>1 DEF IsPayment
  <2> HIDE DEF n
  <2> QED BY <1>1, <1>2, <2>1, SequenceOfPositions
<1> QED BY <1>1, <1>2, <1>3 DEF SameWeighing, SameOwners

LEMMA ClaimStep ==
  ASSUME IInv, NEW caller \in Owners, NEW ids \in SUBSET Ids, Claim(caller, ids)
  PROVE  IInv'
<1> DEFINE Rewards(c) == SumOver(ids, NaraOwed(c))
<1>1. PICK c \in FreshCores :
          /\ Rewards(c) <= c.balance /\ core' = DeliverNara(c, Rewards(c))
          /\ totalNaraDripClaimed' = totalNaraDripClaimed + Rewards(c)
          /\ eth' = DeliverEth(eth, ids, EthOwed(c)) /\ eth'.balance >= 0
          /\ positions' = [i \in Ids |-> IF i \in ids THEN Accrued(c, i) ELSE positions[i]]
  BY DEF Claim
<1>2. UNCHANGED <<now, totalLocked, ownerPositionCount, pendingConfig, fees, token, rebases>>
  BY DEF Claim
<1>3. /\ IsFresh(c) /\ c \in CoreType /\ c.balance \in Nat
      /\ LedgerInv(c, totalLocked, positions, totalNaraDripClaimed)
      /\ totalLocked \in Nat /\ totalNaraDripClaimed \in Nat
  BY FreshFacts, FreshParts, BooksFacts
<1> DEFINE rewards == Rewards(c)
<1>4. rewards \in Nat
  BY <1>3, OwedType, SumOverIsNat
<1>5. /\ IsPositions(positions') /\ Len(positions') = Len(positions)
      /\ SameWeighing(positions, positions') /\ SameSlots(positions, positions')
  <2>1. \A j \in Ids : /\ j \notin ids => positions'[j] = positions[j]
                       /\ j \in ids => IsPaidOut(c, j, positions[j].amount, positions'[j])
    <3>1. SUFFICES ASSUME NEW j \in Ids, j \in ids
                   PROVE  IsPaidOut(c, j, positions[j].amount, positions'[j])
      BY <1>1
    <3>2. positions'[j] = Accrued(c, j) /\ positions[j] \in PositionType
      BY <1>1, <3>1, PositionsFacts DEF IsPosition
    <3> QED BY <3>2 DEF IsPaidOut, Accrued, PositionType
  <2>2. \A j \in Ids : positions[j].amount \in Nat
    BY PositionsFacts, PositionParts
  <2>3. positions' = [j \in Ids |-> positions'[j]]
    BY <1>1
  <2>4. /\ IsPositions(positions') /\ Len(positions') = Len(positions)
        /\ SameWeighing(positions, positions')
        /\ SameOwners(positions, positions')
    <3>1. IsPayment(c, ids, positions')
      BY <2>1, <2>2, <2>3 DEF IsPayment
    <3> QED BY <1>3, <3>1, PaidSequence
  <2>5. \A j \in Ids : positions'[j].amount = positions[j].amount
    <3>1. SUFFICES ASSUME NEW j \in Ids, j \in ids
                   PROVE  positions'[j].amount = positions[j].amount
      BY <2>1
    <3>2. positions[j] \in PositionType
      BY PositionsFacts DEF IsPosition
    <3> QED BY <2>1, <3>1, <3>2 DEF IsPaidOut, PositionType
  <2> QED BY <2>4, <2>5, PositionsFacts DEF SameSlots, SameOwners
<1> HIDE DEF rewards, Rewards
<1>6. IsPaid(c, core', rewards, 0)
  <2>1. c.balance - rewards - 0 = c.balance - rewards
    BY <1>3, <1>4
  <2>2. core' = DeliverNara(c, rewards)
    BY <1>1 DEF rewards
  <2> QED BY <1>3, <2>1, <2>2 DEF IsPaid, DeliverNara, CoreType
<1>7. /\ LedgerInv(core', totalLocked, positions', totalNaraDripClaimed')
      /\ SameClock(c, core')
  <2>1. rewards + 0 <= c.balance /\ 0 <= totalLocked /\ totalLocked - 0 = totalLocked
        /\ totalNaraDripClaimed' = totalNaraDripClaimed + rewards
    BY <1>1, <1>3, <1>4 DEF rewards
  <2> QED BY <1>3, <1>4, <1>5, <1>6, <2>1, PositionsFacts, PayKeeps
<1>8. ClockInv' /\ ConfigInv'
  BY <1>2, <1>3, <1>7, StepFromFresh
<1>9. totalNaraDripClaimed' \in Nat
  BY <1>1, <1>3, <1>4 DEF rewards
<1>10. eth' \in EthType
  <2>1. eth \in EthType /\ \A i \in Ids : EthOwed(c)[i] \in Nat
    BY <1>3, OwedType DEF IInv, FundsInv
  <2> QED BY <1>1, <2>1, DeliverEthType
<1>11. BooksInv' /\ FundsInv'
  BY <1>2, <1>7, <1>9, <1>10 DEF IInv, BooksInv, FundsInv
<1>12. PositionInv' /\ OwnerInv'
  BY <1>2, <1>5, PrincipalStands, OwnersStand
<1> QED BY <1>8, <1>11, <1>12 DEF IInv

\* The positions of a batch give back exactly their own cap slots.
LEMMA SlotsFreed ==
  ASSUME IInv, NEW caller \in Owners, NEW ids \in SUBSET Ids,
         \A i \in ids : positions[i].amount # 0 /\ positions[i].owner = caller,
         Len(positions') = Len(positions),
         \A j \in Ids : /\ positions'[j].owner = positions[j].owner
                        /\ positions'[j].countsOwnerCap = positions[j].countsOwnerCap
                        /\ positions'[j].amount = IF j \in ids THEN 0 ELSE positions[j].amount,
         ownerPositionCount' = [ownerPositionCount EXCEPT ![caller] = @ - CapSlots(ids)]
  PROVE  OwnerInv'
<1> DEFINE mine == {i \in ids : positions[i].countsOwnerCap}
<1>1. Ids = 1 .. Len(positions)
  BY PositionsFacts
<1>2. mine \subseteq Counted(positions, caller)
  BY <1>1 DEF Counted
<1>3. Counted(positions', caller) = Counted(positions, caller) \ mine
  BY <1>1 DEF Counted
<1>4. \A o \in Owners : o # caller => Counted(positions', o) = Counted(positions, o)
  BY <1>1 DEF Counted
<1> DEFINE S == Counted(positions, caller)
<1>5. Cardinality(S \ mine) = Cardinality(S) - Cardinality(S \cap mine)
      /\ IsFiniteSet(S \ mine)
  BY CountedFacts, FS_Difference
<1>6. S \cap mine = mine /\ Cardinality(mine) = CapSlots(ids)
  BY <1>2 DEF CapSlots
<1>7. Cardinality(S \ mine) \in Nat
  BY <1>5, FS_CardinalityType
<1>8. IsFiniteSet(mine) /\ Cardinality(mine) \in Nat
  <2>1. IsFiniteSet(S) /\ mine \in SUBSET S
    BY <1>2, CountedFacts
  <2> QED BY <2>1, FS_Subset, FS_CardinalityType
<1> HIDE DEF mine
<1>9. ownerPositionCount \in [Owners -> Nat] /\ MaxPositionsPerAccount \in Nat
  BY EngineAssumption DEF IInv, OwnerInv
<1>10. ownerPositionCount'[caller] = Cardinality(S \ mine)
       /\ ownerPositionCount'[caller] <= MaxPositionsPerAccount
  <2>1. ownerPositionCount'[caller] = ownerPositionCount[caller] - Cardinality(mine)
    BY <1>6, <1>9
  <2>2. ownerPositionCount[caller] = Cardinality(S) /\ ownerPositionCount[caller] \in Nat
        /\ ownerPositionCount[caller] <= MaxPositionsPerAccount
    BY CountedFacts
  <2> HIDE DEF S
  <2>3. Cardinality(S \ mine) = Cardinality(S) - Cardinality(mine)
    BY <1>5, <1>6
  <2> QED BY <2>1, <2>2, <2>3, <1>8, <1>9
<1>11. \A o \in Owners : o # caller => ownerPositionCount'[o] = ownerPositionCount[o]
  BY <1>9
<1>12. ownerPositionCount' \in [Owners -> Nat]
  <2>1. ownerPositionCount'[caller] \in Nat
    BY <1>7, <1>10
  <2> QED BY <2>1, <1>9, <1>11
<1>13. \A o \in Owners : /\ ownerPositionCount'[o] = Cardinality(Counted(positions', o))
                         /\ ownerPositionCount'[o] <= MaxPositionsPerAccount
  BY <1>3, <1>4, <1>10, <1>11, CountedFacts
<1> QED BY <1>12, <1>13, OwnerInvByCounts

LEMMA UnlockStep ==
  ASSUME IInv, NEW caller \in Owners, NEW ids \in SUBSET Ids, Unlock(caller, ids)
  PROVE  IInv'
<1> DEFINE Rewards(c) == SumOver(ids, NaraOwed(c))
           principal == Principal(ids)
           fee == fees.unlockFeeWei * Cardinality(ids)
<1>1. PICK c \in FreshCores :
          /\ Rewards(c) + principal <= c.balance
          /\ core' = [DeliverNara(c, Rewards(c)) EXCEPT !.balance = @ - principal]
          /\ totalLocked' = totalLocked - principal
          /\ totalNaraDripClaimed' = totalNaraDripClaimed + Rewards(c)
          /\ eth' = DeliverEth(CollectFlatEthFee(eth, fee), ids, EthOwed(c))
          /\ eth'.balance >= 0
          /\ positions' = [i \in Ids |-> IF i \in ids THEN [Accrued(c, i) EXCEPT !.amount = 0]
                                         ELSE positions[i]]
  BY DEF Unlock
<1>2. /\ UNCHANGED <<now, pendingConfig, fees, token, rebases>>
      /\ ownerPositionCount' = [ownerPositionCount EXCEPT ![caller] = @ - CapSlots(ids)]
      /\ \A i \in ids : positions[i].amount # 0 /\ positions[i].owner = caller
  BY DEF Unlock, OwnedBy
<1>3. /\ IsFresh(c) /\ c \in CoreType /\ c.balance \in Nat
      /\ LedgerInv(c, totalLocked, positions, totalNaraDripClaimed)
      /\ totalLocked \in Nat /\ totalNaraDripClaimed \in Nat
  BY FreshFacts, FreshParts, BooksFacts
<1> DEFINE rewards == Rewards(c)
<1>4. rewards \in Nat
  BY <1>3, OwedType, SumOverIsNat
<1>5. /\ IsPositions(positions') /\ Len(positions') = Len(positions)
      /\ SameWeighing(positions, positions')
      /\ \A j \in Ids : /\ positions'[j].owner = positions[j].owner
                        /\ positions'[j].countsOwnerCap = positions[j].countsOwnerCap
                        /\ positions'[j].amount = IF j \in ids THEN 0 ELSE positions[j].amount
  <2>1. \A j \in Ids : /\ j \notin ids => positions'[j] = positions[j]
                       /\ j \in ids => /\ IsPaidOut(c, j, 0, positions'[j])
                                       /\ positions'[j].amount = 0
    <3>1. SUFFICES ASSUME NEW j \in Ids, j \in ids
                   PROVE  IsPaidOut(c, j, 0, positions'[j]) /\ positions'[j].amount = 0
      BY <1>1
    <3>2. positions'[j] = [Accrued(c, j) EXCEPT !.amount = 0] /\ positions[j] \in PositionType
      BY <1>1, <3>1, PositionsFacts DEF IsPosition
    <3> QED BY <3>2 DEF IsPaidOut, Accrued, PositionType
  <2>2. positions' = [j \in Ids |-> positions'[j]]
    BY <1>1
  <2>3. IsPayment(c, ids, positions')
    BY <2>1, <2>2 DEF IsPayment
  <2>4. /\ IsPositions(positions') /\ Len(positions') = Len(positions)
        /\ SameWeighing(positions, positions') /\ SameOwners(positions, positions')
    BY <1>3, <2>3, PaidSequence
  <2> QED BY <2>1, <2>4 DEF SameOwners
<1>6. /\ principal \in Nat /\ principal <= totalLocked
      /\ Principals(positions') = totalLocked - principal
  <2>1. principal = AmountOf(positions, ids)
    BY PositionsFacts DEF Principal, SumOver, AmountOf
  <2>2. /\ AmountOf(positions, ids) \in Nat /\ Principals(positions') \in Nat
        /\ Principals(positions) = Principals(positions') + AmountOf(positions, ids)
    BY <1>5, PositionsFacts, PrincipalsOfWithdrawal
  <2>3. totalLocked = Principals(positions)
    BY DEF IInv, PositionInv, PrincipalConserved
  <2> HIDE DEF principal
  <2> QED BY <2>1, <2>2, <2>3
<1> HIDE DEF rewards, Rewards, principal
<1>7. IsPaid(c, core', rewards, principal)
  BY <1>1 DEF rewards, IsPaid
<1>8. /\ LedgerInv(core', totalLocked', positions', totalNaraDripClaimed')
      /\ SameClock(c, core')
  <2>1. rewards + principal <= c.balance /\ totalLocked' = totalLocked - principal
        /\ totalNaraDripClaimed' = totalNaraDripClaimed + rewards
    BY <1>1 DEF rewards
  <2> QED BY <1>3, <1>4, <1>5, <1>6, <1>7, <2>1, PositionsFacts, PayKeeps
<1>9. ClockInv' /\ ConfigInv'
  BY <1>2, <1>3, <1>8, StepFromFresh
<1>10. totalNaraDripClaimed' \in Nat /\ totalLocked' \in Nat
  BY <1>1, <1>3, <1>4, <1>6 DEF rewards
<1>11. eth' \in EthType
  <2>1. eth \in EthType /\ \A i \in Ids : EthOwed(c)[i] \in Nat
    BY <1>3, OwedType DEF IInv, FundsInv
  <2>2. Cardinality(ids) \in Nat
    <3>1. IsFiniteSet(Ids) /\ ids \in SUBSET Ids
      BY PositionsFacts, FS_Interval
    <3> QED BY <3>1, FS_Subset, FS_CardinalityType
  <2>3. fee \in Nat
    BY <2>2, FeesFacts
  <2> HIDE DEF fee
  <2>4. CollectFlatEthFee(eth, fee) \in EthType
    BY <2>1, <2>3, CollectType
  <2> DEFINE e == CollectFlatEthFee(eth, fee)
  <2>5. eth' = DeliverEth(e, ids, EthOwed(c)) /\ eth'.balance >= 0 /\ e \in EthType
    BY <1>1, <2>4
  <2> HIDE DEF e
  <2> QED BY <2>1, <2>5, DeliverEthType
<1>12. BooksInv' /\ FundsInv'
  BY <1>2, <1>8, <1>10, <1>11 DEF IInv, BooksInv, FundsInv
<1>13. OwnerInv'
  BY <1>2, <1>5, SlotsFreed
<1>14. PositionInv'
  BY <1>1, <1>5, <1>6 DEF PositionInv, PrincipalConserved
<1> QED BY <1>9, <1>12, <1>13, <1>14 DEF IInv

\* extend leaves the position with another weight, unlock epoch and debts.
IsReshaped(p, q, w, u, t, x, y) ==
    q = [p EXCEPT !.weight = w, !.unlockEpoch = u, !.tokenWeight = t,
                  !.naraDebtRay = x, !.ethDebtRay = y]

LEMMA ReshapedPosition ==
  ASSUME NEW p, IsPosition(p), NEW w \in Nat \ {0}, NEW u \in Epochs, u > p.unlockEpoch,
         NEW t \in Nat \ {0}, NEW x, x \in DebtType, NEW y, y \in DebtType,
         NEW q, IsReshaped(p, q, w, u, t, x, y)
  PROVE  /\ IsExtended(p, q) /\ q.weight = w /\ q.unlockEpoch = u
         /\ q.owner = p.owner /\ q.countsOwnerCap = p.countsOwnerCap
<1>1. p \in PositionType
  BY DEF IsPosition
<1>2. q \in PositionType
  BY Zenon, <1>1 DEF PositionType, IsReshaped
<1>3. /\ q.weight = w /\ q.unlockEpoch = u /\ q.amount = p.amount
      /\ q.createdEpoch = p.createdEpoch /\ q.activationEpoch = p.activationEpoch
      /\ q.owner = p.owner /\ q.countsOwnerCap = p.countsOwnerCap
  BY <1>1 DEF PositionType, IsReshaped
<1>4. /\ p.createdEpoch \in Nat /\ p.activationEpoch \in Nat /\ p.unlockEpoch \in Nat
      /\ u \in Nat
  BY PositionParts DEF Epochs
<1>5. IsPosition(q)
  BY <1>2, <1>3, <1>4 DEF IsPosition
<1> QED BY <1>3, <1>5 DEF IsExtended

\* What extend computes before it branches on the state of the position.
Extension(c, i, nu, nw) ==
    /\ nw \in Nat \ {0} /\ nu \in Epochs /\ nu > positions[i].unlockEpoch
    /\ c.epoch < positions[i].unlockEpoch

LEMMA ExtensionHolds ==
  ASSUME IInv, NEW i \in Ids, NEW more \in Nat, NEW c, IsFresh(c), NEW nu, NEW nw,
         nu = positions[i].unlockEpoch + more,
         nw = ComputeWeight(c.config, positions[i].amount,
                  positions[i].unlockEpoch - positions[i].createdEpoch - 1 + more),
         nw > ComputeWeight(c.config, positions[i].amount,
                  positions[i].unlockEpoch - positions[i].createdEpoch - 1),
         nu <= EpochBound, c.epoch < positions[i].unlockEpoch
  PROVE  Extension(c, i, nu, nw)
<1> DEFINE p == positions[i]
           old == p.unlockEpoch - p.createdEpoch - 1
           W(d) == ComputeWeight(c.config, p.amount, d)
<1>1. /\ p.amount \in Nat /\ p.unlockEpoch \in Nat /\ p.createdEpoch \in Nat
      /\ p.createdEpoch < p.unlockEpoch /\ EpochBound \in Nat
  <2>1. IsPosition(p)
    BY PositionsFacts
  <2> DEFINE a == p.activationEpoch
             b == p.createdEpoch
             d == p.unlockEpoch
  <2> HIDE DEF p
  <2>2. /\ p.amount \in Nat /\ a \in Nat /\ b \in Nat /\ d \in Nat /\ b < a /\ a < d
        /\ EpochBound \in Nat
    BY <2>1, PositionParts
  <2> HIDE DEF a, b, d
  <2>3. b < d
    BY <2>2
  <2> QED BY <2>2, <2>3 DEF b, d
<1>2. c.config \in Configs
  BY FreshParts
<1>3. old \in Nat /\ old + more \in Nat
  BY <1>1
<1> HIDE DEF old
<1>4. W(old) \in Nat /\ W(old + more) \in Nat
  BY <1>1, <1>2, <1>3, ComputeWeightIsNat
<1>5. nw = W(old + more) /\ nw > W(old)
  BY DEF old
<1>6. more # 0
  <2>1. SUFFICES ASSUME more = 0 PROVE FALSE
    OBVIOUS
  <2>2. old + more = old
    BY <2>1, <1>3
  <2>3. nw = W(old)
    BY <2>2, <1>5
  <2> HIDE DEF W
  <2> QED BY <2>3, <1>4, <1>5
<1> HIDE DEF W
<1>7. nw \in Nat \ {0}
  BY <1>4, <1>5
<1> QED BY <1>1, <1>6, <1>7 DEF Extension, Epochs

\* The part of the invariant about positions, after one of them was extended.
LEMMA ExtendedPositions ==
  ASSUME IInv, NEW i \in Ids, NEW q, IsExtended(positions[i], q),
         q.owner = positions[i].owner, q.countsOwnerCap = positions[i].countsOwnerCap,
         IsReplaced(positions, positions', i, q),
         UNCHANGED <<totalLocked, ownerPositionCount>>
  PROVE  /\ DiffersAt(positions, positions', i) /\ positions'[i] = q
         /\ PositionInv' /\ OwnerInv'
<1>1. IsPositions(positions) /\ i \in 1 .. Len(positions) /\ IsPosition(q)
  BY PositionsFacts DEF IsExtended
<1>2. DiffersAt(positions, positions', i) /\ positions'[i] = q
  BY <1>1, ReplacedPosition
<1>3. IsPositions(positions') /\ SameSlots(positions, positions')
  BY <1>2 DEF DiffersAt, SameSlots, IsExtended
<1> QED BY <1>2, <1>3, PrincipalStands, OwnersStand

LEMMA ExtendInactiveStep ==
  ASSUME IInv, NEW i \in Ids, NEW c, IsFresh(c), NEW nu, NEW nw, Extension(c, i, nu, nw),
         c.epoch < positions[i].activationEpoch, ExtendInactive(c, i, nu, nw),
         UNCHANGED <<now, totalLocked, ownerPositionCount, pendingConfig, fees, token>>
  PROVE  IInv'
<1> DEFINE p == positions[i]
           none == DEBT_UNINITIALISED
           q == [p EXCEPT !.weight = nw, !.unlockEpoch = nu, !.tokenWeight = nw,
                          !.naraDebtRay = none, !.ethDebtRay = none]
<1>1. /\ IsExtendedEarly(c, core', p, nu, nw)
      /\ positions' = [positions EXCEPT ![i] = q]
      /\ UNCHANGED <<eth, totalNaraDripClaimed, rebases>>
  BY DEF ExtendInactive, IsExtendedEarly
<1>2. IsPosition(p) /\ none \in DebtType
  BY PositionsFacts DEF DebtType
<1>3. nw \in Nat \ {0} /\ nu \in Epochs /\ nu > p.unlockEpoch
  BY DEF Extension
<1>4. IsReshaped(p, q, nw, nu, nw, none, none)
  BY DEF IsReshaped
<1> HIDE DEF q, none, p
<1>5. /\ IsExtended(p, q) /\ q.weight = nw /\ q.unlockEpoch = nu
      /\ q.owner = p.owner /\ q.countsOwnerCap = p.countsOwnerCap
  BY <1>2, <1>3, <1>4, ReshapedPosition
<1>6. IsReplaced(positions, positions', i, q)
  BY <1>1 DEF IsReplaced
<1>7. /\ DiffersAt(positions, positions', i) /\ positions'[i] = q
      /\ PositionInv' /\ OwnerInv'
  BY <1>5, <1>6, ExtendedPositions DEF p
<1>8. /\ LedgerInv(core', totalLocked, positions', totalNaraDripClaimed)
      /\ SameClock(c, core')
  <2>1. /\ LedgerInv(c, totalLocked, positions, totalNaraDripClaimed)
        /\ totalLocked \in Nat /\ totalNaraDripClaimed \in Nat /\ IsPositions(positions)
    BY FreshParts, BooksFacts, PositionsFacts
  <2>2. /\ IsExtended(positions[i], positions'[i])
        /\ IsExtendedEarly(c, core', positions[i], positions'[i].unlockEpoch,
                           positions'[i].weight)
    BY <1>1, <1>5, <1>7 DEF p
  <2> QED BY <1>7, <2>1, <2>2, ExtendInactiveKeeps
<1>9. ClockInv' /\ ConfigInv'
  BY <1>8, StepFromFresh
<1>10. BooksInv' /\ FundsInv'
  BY <1>1, <1>8 DEF IInv, BooksInv, FundsInv
<1> QED BY <1>7, <1>9, <1>10 DEF IInv

LEMMA ExtendActiveStep ==
  ASSUME IInv, NEW i \in Ids, NEW c, IsFresh(c), NEW nu, NEW nw, Extension(c, i, nu, nw),
         c.epoch >= positions[i].activationEpoch, ExtendActive(c, i, nu, nw),
         UNCHANGED <<now, totalLocked, ownerPositionCount, pendingConfig, fees, token>>
  PROVE  IInv'
<1> DEFINE p == positions[i]
           nara == Settlement(c.naraIndexAtEpoch, c.naraIndexRay, c.epoch, p, p.naraDebtRay)
           owed == Settlement(c.ethIndexAtEpoch, c.ethIndexRay, c.epoch, p, p.ethDebtRay)
           dues == [j \in Ids |-> owed]
           t == IF TokenRewardsNotified THEN p.tokenWeight ELSE nw
           x == MulDiv(nw, c.naraIndexRay, RAY)
           y == MulDiv(nw, c.ethIndexRay, RAY)
           q == [p EXCEPT !.weight = nw, !.unlockEpoch = nu, !.tokenWeight = t,
                          !.naraDebtRay = x, !.ethDebtRay = y]
<1>1. /\ IsExtendedLate(c, core', p, nu, nw, nara)
      /\ positions' = [positions EXCEPT ![i] = q]
      /\ nara <= c.balance /\ eth' = DeliverEth(eth, {i}, dues) /\ eth'.balance >= 0
      /\ totalNaraDripClaimed' = totalNaraDripClaimed + nara
      /\ rebases' = Rebased(c, p, nw)
  BY DEF ExtendActive, IsExtendedLate
<1>2. /\ c.naraIndexRay \in Nat /\ c.ethIndexRay \in Nat /\ c.epoch \in Nat
      /\ c.naraIndexAtEpoch \in [Epochs -> Nat] /\ c.ethIndexAtEpoch \in [Epochs -> Nat]
  BY FreshParts
<1>3. /\ IsPosition(p) /\ p.naraDebtRay \in DebtType /\ p.ethDebtRay \in DebtType
      /\ p.tokenWeight \in Nat \ {0}
  BY PositionsFacts, PositionParts
<1>4. nw \in Nat \ {0} /\ nu \in Epochs /\ nu > p.unlockEpoch
  BY DEF Extension
<1>5. nara \in Nat /\ owed \in Nat
  <2> HIDE DEF p
  <2> QED BY <1>2, <1>3, SettlementType
<1>6. x \in Nat /\ y \in Nat
  BY <1>2, <1>4, MulDivIsNat, RayAssumption
<1>7. t \in Nat \ {0} /\ x \in DebtType /\ y \in DebtType
  <2> HIDE DEF x, y
  <2> QED BY <1>3, <1>4, <1>6 DEF DebtType
<1>8. IsReshaped(p, q, nw, nu, t, x, y)
  BY DEF IsReshaped
<1>9. \A j \in Ids : dues[j] \in Nat
  BY <1>5
<1> HIDE DEF nara, owed, dues, t, x, y, q, p
<1>10. /\ IsExtended(p, q) /\ q.weight = nw /\ q.unlockEpoch = nu
       /\ q.owner = p.owner /\ q.countsOwnerCap = p.countsOwnerCap
  BY <1>3, <1>4, <1>7, <1>8, ReshapedPosition
<1>11. IsReplaced(positions, positions', i, q)
  BY <1>1 DEF IsReplaced
<1>12. /\ DiffersAt(positions, positions', i) /\ positions'[i] = q
       /\ PositionInv' /\ OwnerInv'
  BY <1>10, <1>11, ExtendedPositions DEF p
<1>13. /\ LedgerInv(core', totalLocked, positions', totalNaraDripClaimed')
       /\ SameClock(c, core') /\ totalNaraDripClaimed' \in Nat
  <2>1. /\ LedgerInv(c, totalLocked, positions, totalNaraDripClaimed)
        /\ totalLocked \in Nat /\ totalNaraDripClaimed \in Nat /\ IsPositions(positions)
    BY FreshParts, BooksFacts, PositionsFacts
  <2>2. /\ IsExtended(positions[i], positions'[i])
        /\ IsExtendedLate(c, core', positions[i], positions'[i].unlockEpoch,
                          positions'[i].weight, nara)
    BY <1>1, <1>10, <1>12 DEF p
  <2>3. positions[i].activationEpoch <= c.epoch /\ c.epoch < positions[i].unlockEpoch
    BY <1>2, PositionsFacts, PositionParts DEF Extension
  <2>4. nara \in Nat /\ nara <= c.balance
    BY <1>1, <1>5
  <2>5. LedgerInv(core', totalLocked, positions', totalNaraDripClaimed + nara)
        /\ SameClock(c, core')
    BY <1>12, <2>1, <2>2, <2>3, <2>4, ExtendActiveKeeps
  <2> QED BY <1>1, <2>1, <2>4, <2>5
<1>14. ClockInv' /\ ConfigInv'
  BY <1>13, StepFromFresh
<1>15. eth' \in EthType /\ rebases' \in RebasesType
  <2>1. eth \in EthType /\ rebases \in RebasesType
    BY DEF IInv, FundsInv
  <2>2. eth' \in EthType
    BY <1>1, <1>9, <2>1, DeliverEthType
  <2>3. Rebased(c, p, nw) \in RebasesType
    <3>1. p.weight \in Nat /\ p.activationEpoch \in Nat /\ p.activationEpoch <= c.epoch
      BY <1>3, PositionParts DEF p
    <3>2. rebases.count \in Nat /\ rebases.shed \in Nat /\ nw \in Nat
      BY <1>4, <2>1 DEF RebasesType
    <3>3. SaturatingSub(p.weight, nw) \in Nat /\ c.epoch - p.activationEpoch + 1 \in Nat
      BY <1>2, <3>1, <3>2 DEF SaturatingSub
    <3>4. SaturatingSub(p.weight, nw) * (c.epoch - p.activationEpoch + 1) \in Nat
      BY <3>3
    <3> QED BY <3>2, <3>4 DEF Rebased, RebasesType
  <2> QED BY <1>1, <2>1, <2>2, <2>3
<1>16. BooksInv' /\ FundsInv'
  BY <1>13, <1>15 DEF IInv, BooksInv, FundsInv
<1> QED BY <1>12, <1>14, <1>16 DEF IInv

LEMMA ExtendStep ==
  ASSUME IInv, NEW i \in Ids, NEW more \in Extensions, Extend(i, more)
  PROVE  IInv'
<1> DEFINE p == positions[i]
           old == p.unlockEpoch - p.createdEpoch - 1
           nu == p.unlockEpoch + more
           NW(c) == ComputeWeight(c.config, p.amount, old + more)
<1>1. PICK c \in FreshCores :
          /\ c.epoch < p.unlockEpoch
          /\ NW(c) > ComputeWeight(c.config, p.amount, old)
          /\ nu <= EpochBound
          /\ \/ c.epoch < p.activationEpoch /\ ExtendInactive(c, i, nu, NW(c))
             \/ c.epoch >= p.activationEpoch /\ ExtendActive(c, i, nu, NW(c))
  BY DEF Extend
<1>2. UNCHANGED <<now, totalLocked, ownerPositionCount, pendingConfig, fees, token>>
  BY DEF Extend
<1>3. IsFresh(c) /\ more \in Nat
  BY FreshFacts, EngineAssumption
<1> DEFINE nw == NW(c)
<1>4. Extension(c, i, nu, nw)
  BY <1>1, <1>3, ExtensionHolds
<1> HIDE DEF NW, nu
<1> QED BY <1>1, <1>2, <1>3, <1>4, ExtendInactiveStep, ExtendActiveStep

\* A new position takes a cap slot of its owner when the owner pays for it.
LEMMA SlotTaken ==
  ASSUME IInv, NEW owner \in Owners, NEW p, IsPosition(p), p.owner = owner, p.amount # 0,
         p.countsOwnerCap => ownerPositionCount[owner] < MaxPositionsPerAccount,
         positions' = Append(positions, p),
         ownerPositionCount' = [ownerPositionCount EXCEPT
                                    ![owner] = @ + When(p.countsOwnerCap, 1)]
  PROVE  OwnerInv'
<1> DEFINE n == Len(positions)
           S == Counted(positions, owner)
<1>1. /\ n \in Nat /\ positions \in Seq(PositionType) /\ p \in PositionType
  BY PositionsFacts DEF IsPosition
<1>2. /\ Len(positions') = n + 1 /\ positions'[n + 1] = p
      /\ \A j \in 1 .. n : positions'[j] = positions[j]
  BY <1>1
<1>3. 1 .. n + 1 = (1 .. n) \cup {n + 1}
  BY <1>1
<1> HIDE DEF n
<1>4. \A o \in Owners : o # owner => Counted(positions', o) = Counted(positions, o)
  BY <1>2, <1>3 DEF Counted, n
<1>5. Counted(positions', owner) = IF p.countsOwnerCap THEN S \cup {n + 1} ELSE S
  <2>1. CASE p.countsOwnerCap
    BY <1>2, <1>3, <2>1 DEF Counted, n
  <2>2. CASE ~ p.countsOwnerCap
    BY <1>2, <1>3, <2>2 DEF Counted, n
  <2> QED BY <2>1, <2>2
<1>6. n + 1 \notin S
  BY <1>1 DEF Counted, n
<1>7. /\ ownerPositionCount[owner] = Cardinality(S) /\ Cardinality(S) \in Nat
      /\ ownerPositionCount[owner] <= MaxPositionsPerAccount /\ IsFiniteSet(S)
  BY CountedFacts
<1>8. Cardinality(Counted(positions', owner)) = Cardinality(S) + When(p.countsOwnerCap, 1)
  <2>1. Cardinality(S \cup {n + 1}) = Cardinality(S) + 1
    BY <1>6, <1>7, FS_AddElement
  <2> HIDE DEF S
  <2> QED BY <2>1, <1>5, <1>7 DEF When
<1>9. ownerPositionCount \in [Owners -> Nat] /\ MaxPositionsPerAccount \in Nat
  BY EngineAssumption DEF IInv, OwnerInv
<1> HIDE DEF S
<1>10. ownerPositionCount'[owner] = Cardinality(S) + When(p.countsOwnerCap, 1)
  BY <1>7, <1>9
<1>11. /\ ownerPositionCount'[owner] \in Nat
       /\ ownerPositionCount'[owner] <= MaxPositionsPerAccount
  BY <1>7, <1>9, <1>10 DEF When
<1>12. \A o \in Owners : o # owner => ownerPositionCount'[o] = ownerPositionCount[o]
  BY <1>9
<1>13. ownerPositionCount' \in [Owners -> Nat]
  BY <1>9, <1>11, <1>12
<1>14. \A o \in Owners : /\ ownerPositionCount'[o] = Cardinality(Counted(positions', o))
                         /\ ownerPositionCount'[o] <= MaxPositionsPerAccount
  BY <1>4, <1>8, <1>10, <1>11, <1>12, CountedFacts
<1> QED BY <1>13, <1>14, OwnerInvByCounts

LEMMA CreateStep ==
  ASSUME IInv, NEW c, IsFresh(c), NEW payer, NEW owner \in Owners, NEW amount \in Amounts,
         NEW dur \in Durations, CreatePosition(c, payer, owner, amount, dur),
         UNCHANGED <<now, pendingConfig, fees, totalNaraDripClaimed, token, rebases>>,
         eth' \in EthType
  PROVE  IInv'
<1> DEFINE net    == amount - (amount * fees.lockFeeBps) \div BPS
           weight == ComputeWeight(c.config, net, dur)
           starts == c.epoch + c.config.activationDelayEpochs + 1
           ends   == c.epoch + dur + 1
           self   == payer = owner
           none   == DEBT_UNINITIALISED
           zero   == 0
           p == [owner |-> owner, countsOwnerCap |-> self, createdEpoch |-> c.epoch,
                 amount |-> net, weight |-> weight, activationEpoch |-> starts,
                 unlockEpoch |-> ends, tokenWeight |-> weight,
                 naraDebtRay |-> none, ethDebtRay |-> none, tokenDebtRay |-> zero]
<1>1. /\ net # 0 /\ weight # 0 /\ amount <= Circulating(c)
      /\ dur > c.config.activationDelayEpochs
      /\ self => ownerPositionCount[owner] < MaxPositionsPerAccount
      /\ ends <= EpochBound
      /\ positions' = Append(positions, p)
      /\ ownerPositionCount' = [ownerPositionCount EXCEPT ![owner] = @ + When(self, 1)]
      /\ totalLocked' = totalLocked + net
      /\ IsCreated(c, core', net, weight, starts, ends)
  BY DEF CreatePosition, IsCreated
<1>2. /\ c \in CoreType /\ c.config \in Configs /\ c.epoch \in Nat /\ c.epoch \in Epochs
      /\ LedgerInv(c, totalLocked, positions, totalNaraDripClaimed)
      /\ totalLocked \in Nat /\ totalNaraDripClaimed \in Nat
  BY FreshParts, BooksFacts
<1>3. amount \in Nat /\ dur \in Nat /\ EpochBound \in Nat
  BY EngineAssumption
<1>4. net \in Nat /\ net <= amount
  <2>1. (amount * fees.lockFeeBps) \div BPS \in Nat
        /\ (amount * fees.lockFeeBps) \div BPS <= amount
    BY <1>3, FeesFacts, ShareIsNoMore
  <2> QED BY <1>3, <2>1
<1>5. c.config.activationDelayEpochs \in Nat \ {0}
  BY <1>2, ConfigAssumption DEF ConfigType
<1>6. /\ starts \in Epochs /\ ends \in Epochs /\ c.epoch < starts /\ starts < ends
  <2> DEFINE delay == c.config.activationDelayEpochs
             ep == c.epoch
  <2>1. delay \in Nat /\ dur > delay /\ ep \in Nat /\ ends <= EpochBound
        /\ starts = ep + delay + 1 /\ ends = ep + dur + 1
    BY <1>1, <1>2, <1>5
  <2> HIDE DEF delay, ep, starts, ends
  <2>2. starts \in Epochs /\ ends \in Epochs /\ ep < starts /\ starts < ends
    BY <2>1, <1>3 DEF Epochs
  <2> QED BY <2>2 DEF ep
<1>7. weight \in Nat \ {0}
  <2> HIDE DEF net
  <2> QED BY <1>1, <1>2, <1>3, <1>4, ComputeWeightIsNat
<1>8. self \in BOOLEAN /\ none \in DebtType /\ zero \in Nat
  BY DEF DebtType
<1>9. c.balance + c.reserve.balance + net <= Supply
  <2>1. c.balance \in Nat /\ c.reserve.balance \in Nat /\ Supply \in Nat
    BY <1>2, EngineAssumption DEF CoreType, ReserveType
  <2>2. amount <= Supply - c.balance - c.reserve.balance
    BY <1>1 DEF Circulating
  <2> HIDE DEF net
  <2> QED BY <2>1, <2>2, <1>3, <1>4
<1> HIDE DEF net, weight, starts, ends, self, none, zero
<1>10. p \in PositionType
  BY Zenon, <1>2, <1>4, <1>6, <1>7, <1>8 DEF PositionType
<1>11. IsPosition(p) /\ p.owner = owner /\ p.countsOwnerCap = self /\ p.amount = net
       /\ p.weight = weight /\ p.activationEpoch = starts /\ p.unlockEpoch = ends
  BY <1>6, <1>10 DEF IsPosition
<1> HIDE DEF p
<1>12. /\ LedgerInv(core', totalLocked + p.amount, positions', totalNaraDripClaimed)
       /\ SameClock(c, core')
  <2>1. IsCreated(c, core', p.amount, p.weight, p.activationEpoch, p.unlockEpoch)
    BY <1>1, <1>11
  <2>2. p.activationEpoch > c.epoch /\ c.balance + c.reserve.balance + p.amount <= Supply
    BY <1>2, <1>6, <1>9, <1>11, PositionParts
  <2>3. /\ LedgerInv(core', totalLocked + p.amount, Append(positions, p), totalNaraDripClaimed)
        /\ SameClock(c, core')
    BY <1>2, <1>11, <2>1, <2>2, PositionsFacts, CreateKeeps
  <2> QED BY <1>1, <2>3
<1>13. ClockInv' /\ ConfigInv'
  BY <1>12, StepFromFresh
<1>14. BooksInv' /\ FundsInv'
  <2>1. totalLocked' = totalLocked + p.amount /\ totalLocked' \in Nat
    BY <1>1, <1>2, <1>4, <1>11
  <2> QED BY <1>12, <2>1 DEF IInv, BooksInv, FundsInv
<1>15. PositionInv'
  <2>1. IsPositions(positions')
    BY <1>1, <1>11, PositionsFacts, AppendKeepsPositions
  <2>2. TalliesAdd(positions, positions', p)
    BY <1>1, <1>11, PositionsFacts, TalliesOfAppend
  <2>3. Principals(positions') = Principals(positions) + p.amount
    BY <2>2 DEF TalliesAdd
  <2> QED BY <2>1, <2>3, <1>1, <1>11 DEF IInv, PositionInv, PrincipalConserved
<1>16. OwnerInv'
  BY <1>1, <1>11, SlotTaken
<1> QED BY <1>13, <1>14, <1>15, <1>16 DEF IInv

LEMMA LockStep ==
  ASSUME IInv, NEW payer, NEW owner \in Owners, NEW amount \in Amounts, NEW dur \in Durations,
         Lock(payer, owner, amount, dur) \/ OnTransferReceived(payer, owner, amount, dur)
  PROVE  IInv'
<1>1. eth \in EthType /\ fees.lockFeeWei \in Nat
  BY FeesFacts DEF IInv, FundsInv
<1>2. CASE Lock(payer, owner, amount, dur)
  <2>1. PICK c \in FreshCores : CreatePosition(c, payer, owner, amount, dur)
    BY <1>2 DEF Lock
  <2>2. IsFresh(c)
    BY FreshFacts
  <2>3. eth' \in EthType
    BY <1>1, <1>2, CollectType DEF Lock
  <2>4. UNCHANGED <<now, pendingConfig, fees, totalNaraDripClaimed, token, rebases>>
    BY <1>2 DEF Lock
  <2> QED BY <2>1, <2>2, <2>3, <2>4, CreateStep
<1>3. CASE OnTransferReceived(payer, owner, amount, dur)
  <2>1. /\ CreatePosition(core, payer, owner, amount, dur)
        /\ UNCHANGED <<now, pendingConfig, fees, totalNaraDripClaimed, token, rebases>>
        /\ eth' \in EthType
    BY <1>1, <1>3 DEF OnTransferReceived
  <2> QED BY <2>1, CoreIsFresh, CreateStep
<1> QED BY <1>2, <1>3

--------------------------------------------------------------------------------
(* The theorems *)

\* The deployed engine satisfies the invariant.
LEMMA InitHolds ==
  ASSUME Init
  PROVE  IInv
<1>1. /\ EpochLength \in Nat \ {0} /\ MaxTime \in Nat /\ EpochBound \in Nat
      /\ Supply \in Nat /\ MaxPositionsPerAccount \in Nat /\ InitialReserve \in ReserveType
      /\ InitialReserve.totalReleased = 0 /\ InitialReserve.balance <= Supply
      /\ InitialConfig \in Configs
  BY EngineAssumption, ConfigAssumption
<1>2. positions = <<>> /\ Len(positions) = 0 /\ totalLocked = 0 /\ totalNaraDripClaimed = 0
  BY DEF Init
<1>3. IsPositions(positions)
  BY <1>2 DEF IsPositions
<1>4. ClockInv
  <2>1. now = 0 /\ core.epoch = 0
    BY DEF Init
  <2>2. CurrentEpoch \in Nat
    <3>1. 0 \div EpochLength \in Nat
      BY <1>1, DivIsMonotone
    <3> QED BY <2>1, <3>1 DEF CurrentEpoch
  <2> QED BY <2>1, <2>2, <1>1 DEF ClockInv
<1>5. Principals(positions) = 0
      /\ \A e \in Nat : /\ ActiveWeight(positions, e) = 0
                        /\ StartingWeight(positions, e) = 0
                        /\ StoppingWeight(positions, e) = 0
  <2>1. \A f : SumTo(f, 0) = 0
    BY SumOfZeros
  <2> QED BY <1>2, <2>1 DEF Principals, ActiveWeight, StartingWeight, StoppingWeight
<1>6. core \in CoreType
  <2>1. 0 \in Epochs /\ EmptySchedule \in [Epochs -> Nat]
    BY <1>1 DEF Epochs, EmptySchedule
  <2> DEFINE zero == 0
  <2>2. zero \in Nat /\ zero \in Epochs
    BY <2>1
  <2>3. core = [epoch |-> zero, config |-> InitialConfig,
                stagedConfig |-> NoConfig, stagedConfigEpoch |-> zero,
                activeTotalWeight |-> zero,
                scheduledActivationWeight |-> EmptySchedule,
                scheduledDeactivationWeight |-> EmptySchedule,
                naraIndexRay |-> zero, ethIndexRay |-> zero,
                naraIndexAtEpoch |-> EmptySchedule, ethIndexAtEpoch |-> EmptySchedule,
                pendingEthForNextEpoch |-> zero, totalPendingNaraRewards |-> zero,
                trackedEmissionReserve |-> zero, totalNaraDripPaid |-> zero,
                balance |-> zero, reserve |-> InitialReserve]
    BY DEF Init
  <2> HIDE DEF zero
  <2> QED BY Zenon, <1>1, <2>1, <2>2, <2>3 DEF CoreType
<1>7. /\ core.epoch = 0 /\ core.stagedConfigEpoch = 0 /\ core.stagedConfig = NoConfig
      /\ core.activeTotalWeight = 0 /\ core.scheduledActivationWeight = EmptySchedule
      /\ core.scheduledDeactivationWeight = EmptySchedule
      /\ core.balance = 0 /\ core.trackedEmissionReserve = 0 /\ core.totalNaraDripPaid = 0
      /\ core.totalPendingNaraRewards = 0 /\ core.reserve = InitialReserve
  BY DEF Init
<1>8. BooksInv
  <2>1. WeightsExact(core, positions)
    <3>1. \A e \in Epochs : e \in Nat /\ EmptySchedule[e] = 0
      BY <1>1 DEF Epochs, EmptySchedule
    <3> QED BY <1>5, <1>7, <3>1 DEF WeightsExact
  <2>2. Books(core, totalLocked, totalNaraDripClaimed)
    BY <1>1, <1>2, <1>7 DEF Books, ReserveType
  <2>3. Staged(core)
    BY <1>7 DEF Staged
  <2> QED BY <1>2, <1>6, <2>1, <2>2, <2>3 DEF BooksInv, LedgerInv
<1>9. PositionInv
  BY <1>2, <1>3, <1>5 DEF PositionInv, PrincipalConserved
<1>10. ConfigInv
  BY <1>7 DEF Init, ConfigInv, NothingPending
<1>11. FundsInv
  <2>1. fees \in FeesType /\ eth \in EthType /\ rebases \in RebasesType
    BY DEF Init, FeesType, EthType, RebasesType
  <2>2. token \in TokenType
    BY DEF Init, TokenType
  <2> QED BY <2>1, <2>2 DEF FundsInv
<1>12. OwnerInv
  <2>1. \A o \in Owners : Counted(positions, o) = {}
    BY <1>2 DEF Counted
  <2>2. \A o \in Owners : {i \in Ids : /\ positions[i].owner = o /\ positions[i].countsOwnerCap
                                       /\ positions[i].amount # 0} = {}
    BY <1>2 DEF Ids
  <2>3. Cardinality({}) = 0
    BY FS_EmptySet
  <2>4. ownerPositionCount = [o \in Owners |-> 0]
    BY DEF Init
  <2>5. ownerPositionCount \in [Owners -> Nat]
    BY <2>4
  <2>6. \A o \in Owners : ownerPositionCount[o] = 0 /\ 0 <= MaxPositionsPerAccount
    BY <2>4, <1>1
  <2> QED BY <2>2, <2>3, <2>5, <2>6 DEF OwnerInv, OwnerCountExact
<1> QED BY <1>4, <1>8, <1>9, <1>10, <1>11, <1>12 DEF IInv

\* Every function of the engine keeps the invariant.
LEMMA NextKeeps ==
  ASSUME IInv, [Next]_vars
  PROVE  IInv'
<1>1. CASE Tick
  BY <1>1, TickStep
<1>2. CASE \E payer \in Payers, owner \in Owners, a \in Amounts, d \in Durations :
              Lock(payer, owner, a, d) \/ OnTransferReceived(payer, owner, a, d)
  BY <1>2, LockStep
<1>3. CASE \E i \in Ids, d \in Extensions : Extend(i, d)
  BY <1>3, ExtendStep
<1>4. CASE \E caller \in Owners, ids \in SUBSET Ids : Unlock(caller, ids) \/ Claim(caller, ids)
  BY <1>4, UnlockStep, ClaimStep
<1>5. CASE \E i \in Ids : ClaimTokenRewards(i)
  BY <1>5, ClaimTokenStep
<1>6. CASE \E a \in EthRewards : NotifyEthRewards(a)
  BY <1>6, NotifyEthStep
<1>7. CASE \E a \in TokenRewards : NotifyTokenRewards(a)
  BY <1>7, NotifyTokenStep
<1>8. CASE \E a \in Deposits : DepositRewards(a)
  BY <1>8, DepositStep
<1>9. CASE \E a \in Donations : Donate(a)
  BY <1>9, DonateStep
<1>10. CASE SyncEmissionReserve
  BY <1>10, SyncStep
<1>11. CASE \E n \in AdvanceSteps : AdvanceEpochs(n)
  <2>1. PICK n \in AdvanceSteps : AdvanceBy(n)
    BY <1>11 DEF AdvanceEpochs
  <2>2. n \in Nat
    BY EngineAssumption
  <2> QED BY <2>1, <2>2, AdvanceStep
<1>12. CASE Poke
  <2>1. MaxJitAdvance \in Nat
    BY EngineAssumption
  <2> QED BY <1>12, <2>1, AdvanceStep DEF Poke
<1>13. CASE SetRewardReserve
  BY <1>13, WireStep
<1>14. CASE \E c \in ProposedConfigs : ProposeConfig(c)
  BY <1>14, ProposeStep
<1>15. CASE ExecuteConfig
  BY <1>15, ExecuteStep
<1>16. CASE CancelConfig
  BY <1>16, CancelStep
<1>17. CASE SetFee
  BY <1>17, SetFeeStep
<1>18. CASE WithdrawTreasuryEthFees
  BY <1>18, WithdrawStep
<1>19. CASE UNCHANGED vars
  <2>1. FundsInv'
    BY <1>19 DEF vars, IInv, FundsInv
  <2> QED BY <1>19, <2>1, FundsStep DEF vars
<1> QED BY <1>1, <1>2, <1>3, <1>4, <1>5, <1>6, <1>7, <1>8, <1>9, <1>10, <1>11, <1>12, <1>13,
           <1>14, <1>15, <1>16, <1>17, <1>18, <1>19 DEF Next

\* The inductive invariant holds in every reachable state.
THEOREM InductiveInvariant == Spec => []IInv
<1>1. Init => IInv
  BY InitHolds
<1>2. IInv /\ [Next]_vars => IInv'
  BY NextKeeps
<1> QED BY <1>1, <1>2, PTL DEF Spec

\* Type correctness: no unsigned quantity of the contract ever goes below zero, and
\* the settled epoch never passes the clock.
THEOREM TypeCorrect == Spec => []TypeOK
<1>1. IInv => TypeOK
  BY PositionsFacts DEF IInv, ClockInv, BooksInv, LedgerInv, ConfigInv, FundsInv, RebasesType, OwnerInv,
                        FeesType, EthType, TokenType, TypeOK
<1> QED BY <1>1, InductiveInvariant, PTL

\* totalLocked is exactly the principal of the open positions.
THEOREM PrincipalIsConserved == Spec => []PrincipalConserved
<1>1. IInv => PrincipalConserved
  BY DEF IInv, PositionInv
<1> QED BY <1>1, InductiveInvariant, PTL

\* The divisor of every distribution is exactly the weight of the active positions.
THEOREM ActiveWeightIsExact == Spec => []ActiveWeightExact
<1>1. IInv => ActiveWeightExact
  BY DEF IInv, BooksInv, LedgerInv, WeightsExact, ActiveWeightExact
<1> QED BY <1>1, InductiveInvariant, PTL

\* The schedules are exact for every epoch to come, so no subtraction ever clamps.
THEOREM SchedulesAreExact == Spec => []SchedulesExact
<1>1. IInv => SchedulesExact
  BY DEF IInv, BooksInv, LedgerInv, WeightsExact, SchedulesExact
<1> QED BY <1>1, InductiveInvariant, PTL

\* Divisor and schedules stay exact together, for any positions, configurations and epochs.
THEOREM WeightAggregatesAreExact == Spec => []WeightAggregatesExact
<1>1. ActiveWeightExact /\ SchedulesExact => WeightAggregatesExact
  BY DEF WeightAggregatesExact
<1> QED BY <1>1, ActiveWeightIsExact, SchedulesAreExact, PTL

\* A staged configuration is always for the next epoch, and blocks no other change.
THEOREM StagedConfigIsOnTime == Spec => []StagedConfigOnTime
<1>1. IInv => StagedConfigOnTime
  BY DEF IInv, BooksInv, LedgerInv, Staged, ConfigInv, StagedConfigOnTime
<1> QED BY <1>1, InductiveInvariant, PTL

\* The unchecked owner counter counts exactly the positions under the cap.
THEOREM OwnerCountIsExact == Spec => []OwnerCountExact
<1>1. IInv => OwnerCountExact
  BY DEF IInv, OwnerInv
<1> QED BY <1>1, InductiveInvariant, PTL

\* The engine's NARA always covers principal, reserve and unclaimed distributions.
THEOREM NaraBooksAreBalanced == Spec => []NaraBooksBalance
<1>1. ASSUME IInv PROVE NaraBooksBalance
  <2>1. Books(core, totalLocked, totalNaraDripClaimed) /\ core.reserve.balance \in Nat
        /\ core.balance \in Nat /\ Supply \in Nat
    BY <1>1, BooksFacts
  <2> QED BY <2>1 DEF Books, NaraBooksBalance, Circulating
<1> QED BY <1>1, InductiveInvariant, PTL

--------------------------------------------------------------------------------
(* The engine implements PrincipalCustody: every function of NARAEngine, however    *)
(* many epochs it settles first, is one step of the custody promise or none.        *)

DepositType == [owner : Owners, amount : Nat, unlockEpoch : Epochs]

\* The deposits seen by the abstraction are the positions, one by one.
LEMMA DepositFacts ==
  ASSUME NEW ps, IsPositions(ps)
  PROVE  /\ Len(DepositsOf(ps)) = Len(ps) /\ DOMAIN DepositsOf(ps) = 1 .. Len(ps)
         /\ DepositsOf(ps) \in Seq(DepositType) /\ Len(ps) \in Nat
         /\ \A i \in 1 .. Len(ps) :
               /\ DepositsOf(ps)[i] = [owner |-> ps[i].owner, amount |-> ps[i].amount,
                                       unlockEpoch |-> ps[i].unlockEpoch]
               /\ DepositsOf(ps)[i].owner = ps[i].owner
               /\ DepositsOf(ps)[i].amount = ps[i].amount
               /\ DepositsOf(ps)[i].unlockEpoch = ps[i].unlockEpoch
<1> DEFINE ds == DepositsOf(ps)
           n  == Len(ps)
<1>1. /\ n \in Nat /\ DOMAIN ps = 1 .. n
      /\ \A i \in 1 .. n : ps[i] \in PositionType
  BY PositionFacts
<1>2. ds = [i \in 1 .. n |-> [owner |-> ps[i].owner, amount |-> ps[i].amount,
                              unlockEpoch |-> ps[i].unlockEpoch]]
  BY <1>1 DEF DepositsOf
<1> HIDE DEF ds, n
<1>3. \A i \in 1 .. n : /\ ds[i] = [owner |-> ps[i].owner, amount |-> ps[i].amount,
                                    unlockEpoch |-> ps[i].unlockEpoch]
                        /\ ds[i].owner = ps[i].owner /\ ds[i].amount = ps[i].amount
                        /\ ds[i].unlockEpoch = ps[i].unlockEpoch
  BY <1>2
<1>4. ASSUME NEW i \in 1 .. n PROVE ds[i] \in DepositType
  <2>1. /\ ps[i].owner \in Owners /\ ps[i].amount \in Nat /\ ps[i].unlockEpoch \in Epochs
    BY <1>1 DEF PositionType
  <2>2. ASSUME NEW o \in Owners, NEW a \in Nat, NEW u \in Epochs
        PROVE  [owner |-> o, amount |-> a, unlockEpoch |-> u] \in DepositType
    BY DEF DepositType
  <2>3. [owner |-> ps[i].owner, amount |-> ps[i].amount,
         unlockEpoch |-> ps[i].unlockEpoch] \in DepositType
    BY <2>1, <2>2
  <2> QED BY <1>3, <2>3
<1>5. DOMAIN ds = 1 .. n /\ ds = [i \in 1 .. n |-> ds[i]]
  BY <1>2
<1>6. ds \in [1 .. n -> DepositType]
  BY <1>4, <1>5
<1>7. ds \in Seq(DepositType)
  BY <1>1, <1>6, SeqDef
<1>8. Len(ds) = n
  <2>1. Len(ds) \in Nat /\ DOMAIN ds = 1 .. Len(ds)
    BY <1>7, LenProperties
  <2> QED BY <2>1, <1>1, <1>5
<1> QED BY <1>1, <1>3, <1>5, <1>7, <1>8 DEF ds, n

SameDeposits(ps, qs) ==
    /\ IsPositions(ps) /\ IsPositions(qs) /\ Len(qs) = Len(ps)
    /\ \A i \in 1 .. Len(ps) : /\ qs[i].owner = ps[i].owner /\ qs[i].amount = ps[i].amount
                               /\ qs[i].unlockEpoch = ps[i].unlockEpoch

LEMMA DepositsStand ==
  ASSUME NEW ps, NEW qs, SameDeposits(ps, qs)
  PROVE  DepositsOf(qs) = DepositsOf(ps)
<1>1. DOMAIN ps = 1 .. Len(ps) /\ DOMAIN qs = 1 .. Len(ps)
  BY PositionFacts DEF SameDeposits
<1> QED BY <1>1 DEF SameDeposits, DepositsOf

--------------------------------------------------------------------------------
(* Steps of the abstraction *)

\* A function that settles epochs and then keeps the clock lets epochs pass.
LEMMA EpochsPassed ==
  ASSUME IInv, NEW c, IsFresh(c), core'.epoch = c.epoch
  PROVE  Custody!EpochsPass
<1>1. c.epoch \in Nat /\ c.epoch >= core.epoch
  BY FreshParts DEF IsFresh, IsLater
<1> QED BY <1>1 DEF Custody!EpochsPass

\* Whatever leaves deposits alone is a Settle.
LEMMA SettleStep ==
  ASSUME IInv, NEW c, IsFresh(c), core'.epoch = c.epoch, UNCHANGED totalLocked,
         \/ UNCHANGED positions
         \/ SameDeposits(positions, positions')
  PROVE  Custody!Next
<1>1. DepositsOf(positions') = DepositsOf(positions)
  BY DepositsStand
<1>2. Custody!EpochsPass
  BY EpochsPassed
<1>3. Custody!Settle
  BY <1>1, <1>2 DEF Custody!Settle
<1> QED BY <1>3 DEF Custody!Next

LEMMA StutterStep ==
  ASSUME UNCHANGED <<core, totalLocked, positions>>
  PROVE  UNCHANGED Custody!vars
BY DEF Custody!vars

\* The functions that work on the ledger and on the funds.
LEMMA LedgerSettles ==
  ASSUME IInv,
         \/ \E a \in Deposits : DepositRewards(a)
         \/ \E a \in Donations : Donate(a)
         \/ SyncEmissionReserve \/ SetRewardReserve \/ CancelConfig
  PROVE  Custody!Next
<1>1. core'.epoch = core.epoch
  BY ClockFacts DEF DepositRewards, Donate, SyncEmissionReserve, TopUp, SetRewardReserve,
                    CancelConfig, CoreType
<1>2. UNCHANGED <<totalLocked, positions>>
  BY DEF DepositRewards, Donate, SyncEmissionReserve, SetRewardReserve, CancelConfig,
         OnlyCoreChanges
<1> QED BY <1>1, <1>2, CoreIsFresh, SettleStep

LEMMA AdvanceSettles ==
  ASSUME IInv, NEW n \in Nat, AdvanceBy(n)
  PROVE  Custody!Next
<1>1. /\ core' \in Advanced(n) /\ core'.epoch = MinOf(CurrentEpoch, core.epoch + n)
      /\ UNCHANGED <<totalLocked, positions>>
  BY DEF AdvanceBy, OnlyCoreChanges
<1>2. /\ LedgerInv(core', totalLocked, positions, totalNaraDripClaimed)
      /\ IsLater(core, core')
  BY <1>1, AdvancedFacts
<1>3. core'.epoch <= CurrentEpoch
  BY <1>1, ClockFacts DEF MinOf
<1>4. IsFresh(core')
  BY <1>2, <1>3 DEF IsFresh
<1> QED BY <1>1, <1>4, SettleStep

LEMMA FundingSettles ==
  ASSUME IInv,
         \/ \E a \in EthRewards : NotifyEthRewards(a)
         \/ \E a \in TokenRewards : NotifyTokenRewards(a)
         \/ ExecuteConfig
  PROVE  Custody!Next
<1>1. /\ \E c \in FreshCores : \/ core' = c
                               \/ \E x : core' = [c EXCEPT !.pendingEthForNextEpoch = x]
                               \/ \E x, y : core' = [c EXCEPT !.stagedConfig = x,
                                                              !.stagedConfigEpoch = y]
      /\ UNCHANGED <<totalLocked, positions>>
  BY DEF NotifyEthRewards, NotifyTokenRewards, ExecuteConfig
<1>2. PICK c \in FreshCores : \/ core' = c
                              \/ \E x : core' = [c EXCEPT !.pendingEthForNextEpoch = x]
                              \/ \E x, y : core' = [c EXCEPT !.stagedConfig = x,
                                                             !.stagedConfigEpoch = y]
  BY <1>1
<1>3. IsFresh(c) /\ c \in CoreType
  BY FreshFacts, FreshParts
<1>4. core'.epoch = c.epoch
  BY <1>2, <1>3 DEF CoreType
<1> QED BY <1>1, <1>3, <1>4, SettleStep

\* Claims move debts and nothing that custody sees.
LEMMA ClaimSettles ==
  ASSUME IInv, IInv', NEW caller \in Owners, NEW ids \in SUBSET Ids, Claim(caller, ids)
  PROVE  Custody!Next
<1>1. PICK c \in FreshCores :
          /\ core' = DeliverNara(c, SumOver(ids, NaraOwed(c)))
          /\ positions' = [i \in Ids |-> IF i \in ids THEN Accrued(c, i) ELSE positions[i]]
  BY DEF Claim
<1>2. IsFresh(c) /\ c \in CoreType /\ UNCHANGED totalLocked
  BY FreshFacts, FreshParts DEF Claim
<1>3. core'.epoch = c.epoch
  BY <1>1, <1>2 DEF DeliverNara, CoreType
<1>4. /\ IsPositions(positions) /\ IsPositions(positions') /\ Ids = 1 .. Len(positions)
      /\ Len(positions) \in Nat /\ \A i \in Ids : positions[i] \in PositionType
  BY PositionsFacts DEF IInv, PositionInv, IsPosition
<1>5. Len(positions') = Len(positions)
  <2>1. DOMAIN positions' = 1 .. Len(positions)
    BY <1>1, <1>4
  <2>2. DOMAIN positions' = 1 .. Len(positions') /\ Len(positions') \in Nat
    BY <1>4, PositionFacts
  <2> QED BY <2>1, <2>2, <1>4
<1>6. \A i \in Ids : /\ positions'[i].owner = positions[i].owner
                     /\ positions'[i].amount = positions[i].amount
                     /\ positions'[i].unlockEpoch = positions[i].unlockEpoch
  <2>1. SUFFICES ASSUME NEW i \in Ids, i \in ids
                 PROVE  /\ Accrued(c, i).owner = positions[i].owner
                        /\ Accrued(c, i).amount = positions[i].amount
                        /\ Accrued(c, i).unlockEpoch = positions[i].unlockEpoch
    BY <1>1
  <2> QED BY <1>4 DEF Accrued, PositionType
<1>7. SameDeposits(positions, positions')
  BY <1>4, <1>5, <1>6 DEF SameDeposits
<1> QED BY <1>2, <1>3, <1>7, SettleStep

LEMMA ClaimTokenSettles ==
  ASSUME IInv, IInv', NEW i \in Ids, ClaimTokenRewards(i)
  PROVE  Custody!Next
<1>1. PICK c \in FreshCores :
          /\ core' = c
          /\ \E d : positions' = [positions EXCEPT ![i].tokenDebtRay = d]
  BY DEF ClaimTokenRewards
<1>2. PICK d : positions' = [positions EXCEPT ![i].tokenDebtRay = d]
  BY <1>1
<1>3. IsFresh(c) /\ core'.epoch = c.epoch /\ UNCHANGED totalLocked
  BY <1>1, FreshFacts DEF ClaimTokenRewards
<1>4. /\ IsPositions(positions) /\ IsPositions(positions') /\ Ids = 1 .. Len(positions)
      /\ Len(positions) \in Nat /\ DOMAIN positions = Ids
      /\ \A j \in Ids : positions[j] \in PositionType
  BY PositionsFacts DEF IInv, PositionInv, IsPosition
<1>5. Len(positions') = Len(positions)
  <2>1. DOMAIN positions' = 1 .. Len(positions)
    BY <1>2, <1>4
  <2>2. DOMAIN positions' = 1 .. Len(positions') /\ Len(positions') \in Nat
    BY <1>4, PositionFacts
  <2> QED BY <2>1, <2>2, <1>4
<1>6. \A j \in Ids : /\ positions'[j].owner = positions[j].owner
                     /\ positions'[j].amount = positions[j].amount
                     /\ positions'[j].unlockEpoch = positions[j].unlockEpoch
  BY <1>2, <1>4 DEF PositionType
<1>7. SameDeposits(positions, positions')
  BY <1>4, <1>5, <1>6 DEF SameDeposits
<1> QED BY <1>3, <1>7, SettleStep

\* A lock is a Deposit, whichever way the NARA arrives.
LEMMA CreateDeposits ==
  ASSUME IInv, IInv', NEW c, IsFresh(c), NEW payer, NEW owner \in Owners,
         NEW amount \in Amounts, NEW dur \in Durations,
         CreatePosition(c, payer, owner, amount, dur)
  PROVE  Custody!Next
<1> DEFINE net  == amount - (amount * fees.lockFeeBps) \div BPS
           ends == c.epoch + dur + 1
           ds   == DepositsOf(positions)
           n    == Len(positions)
           d    == [owner |-> owner, amount |-> net, unlockEpoch |-> ends]
<1>1. \E p : /\ positions' = Append(positions, p)
             /\ p.owner = owner /\ p.amount = net /\ p.unlockEpoch = ends
  BY DEF CreatePosition
<1>2. PICK p : /\ positions' = Append(positions, p)
               /\ p.owner = owner /\ p.amount = net /\ p.unlockEpoch = ends
  BY <1>1
<1>3. /\ net # 0 /\ totalLocked' = totalLocked + net
      /\ dur > c.config.activationDelayEpochs
  BY DEF CreatePosition
<1>4. /\ c \in CoreType /\ c.config \in Configs /\ c.epoch \in Nat
      /\ amount \in Nat /\ dur \in Nat
  BY FreshParts, EngineAssumption
<1>5. core'.epoch = c.epoch
  BY <1>4 DEF CreatePosition, CoreType
<1>6. net > 0
  <2>1. (amount * fees.lockFeeBps) \div BPS \in Nat
        /\ (amount * fees.lockFeeBps) \div BPS <= amount
    BY <1>4, FeesFacts, ShareIsNoMore
  <2> QED BY <1>3, <1>4, <2>1
<1>7. ends > core'.epoch + 1
  <2> DEFINE delay == c.config.activationDelayEpochs
             ep == c.epoch
  <2>1. delay \in Nat \ {0} /\ dur > delay /\ ep \in Nat /\ core'.epoch = ep
        /\ ends = ep + dur + 1
    BY <1>3, <1>4, <1>5, ConfigAssumption DEF ConfigType
  <2> HIDE DEF delay, ep, ends
  <2> QED BY <2>1, <1>4
<1>8. /\ IsPositions(positions) /\ IsPositions(positions') /\ Len(positions') = n + 1
      /\ positions'[n + 1] = p /\ \A i \in 1 .. n : positions'[i] = positions[i]
      /\ n \in Nat
  <2>1. positions \in Seq(PositionType) /\ IsPositions(positions) /\ IsPositions(positions')
    BY PositionsFacts DEF IInv, PositionInv
  <2> QED BY <2>1, <1>2
<1> HIDE DEF net, ends, n
<1>9. /\ Len(DepositsOf(positions')) = n + 1 /\ Len(ds) = n /\ ds \in Seq(DepositType)
      /\ DepositsOf(positions')[n + 1] = d
      /\ \A i \in 1 .. n : DepositsOf(positions')[i] = ds[i]
  <2> DEFINE es == DepositsOf(positions')
  <2>1. n + 1 \in 1 .. n + 1 /\ \A i \in 1 .. n : i \in 1 .. n + 1
    BY <1>8
  <2>2. /\ Len(ds) = n /\ ds \in Seq(DepositType)
        /\ \A i \in 1 .. n : ds[i] = [owner |-> positions[i].owner,
               amount |-> positions[i].amount, unlockEpoch |-> positions[i].unlockEpoch]
    BY <1>8, DepositFacts DEF n
  <2>3. /\ Len(es) = n + 1
        /\ \A i \in 1 .. n + 1 : es[i] = [owner |-> positions'[i].owner,
               amount |-> positions'[i].amount, unlockEpoch |-> positions'[i].unlockEpoch]
    BY <1>8, DepositFacts
  <2> HIDE DEF es, ds
  <2>4. es[n + 1] = d
    BY <2>1, <2>3, <1>2, <1>8
  <2>5. \A i \in 1 .. n : es[i] = ds[i]
    BY <2>1, <2>2, <2>3, <1>8
  <2> QED BY <2>2, <2>3, <2>4, <2>5 DEF es
<1>10. DepositsOf(positions') = Append(ds, d)
  <2> DEFINE es == DepositsOf(positions')
  <2>1. DOMAIN es = 1 .. n + 1
    BY <1>8, DepositFacts
  <2>2. /\ DOMAIN Append(ds, d) = 1 .. n + 1 /\ Append(ds, d)[n + 1] = d
        /\ \A i \in 1 .. n : Append(ds, d)[i] = ds[i]
    BY <1>8, <1>9
  <2>3. \A i \in 1 .. n + 1 : i = n + 1 \/ i \in 1 .. n
    BY <1>8
  <2>4. es = [i \in 1 .. n + 1 |-> es[i]]
    BY <2>1, <1>8 DEF DepositsOf
  <2>5. Append(ds, d) = [i \in 1 .. n + 1 |-> Append(ds, d)[i]]
    BY <1>8, <1>9
  <2> HIDE DEF es, d, ds
  <2>6. \A i \in 1 .. n + 1 : es[i] = Append(ds, d)[i]
    BY <1>9, <2>2, <2>3 DEF es
  <2> QED BY <2>4, <2>5, <2>6 DEF es
<1>11. Custody!EpochsPass
  BY <1>5, EpochsPassed
<1>12. Custody!Deposit(owner, net, ends)
  BY <1>3, <1>6, <1>7, <1>10, <1>11 DEF Custody!Deposit
<1>13. d.amount = net /\ d.unlockEpoch = ends
  OBVIOUS
<1>14. /\ Len(DepositsOf(positions')) = Len(ds) + 1
       /\ DepositsOf(positions')[Len(ds) + 1] = d
  BY <1>9
<1> QED BY <1>12, <1>13, <1>14 DEF Custody!Next

LEMMA LockDeposits ==
  ASSUME IInv, IInv', NEW payer, NEW owner \in Owners, NEW amount \in Amounts,
         NEW dur \in Durations,
         Lock(payer, owner, amount, dur) \/ OnTransferReceived(payer, owner, amount, dur)
  PROVE  Custody!Next
<1>1. CASE Lock(payer, owner, amount, dur)
  <2>1. PICK c \in FreshCores : CreatePosition(c, payer, owner, amount, dur)
    BY <1>1 DEF Lock
  <2> QED BY <2>1, FreshFacts, CreateDeposits
<1>2. CASE OnTransferReceived(payer, owner, amount, dur)
  <2>1. CreatePosition(core, payer, owner, amount, dur)
    BY <1>2 DEF OnTransferReceived
  <2> QED BY <2>1, CoreIsFresh, CreateDeposits
<1> QED BY <1>1, <1>2

\* An extension is a Postpone.
LEMMA ExtendPostpones ==
  ASSUME IInv, IInv', NEW i \in Ids, NEW more \in Extensions, Extend(i, more)
  PROVE  Custody!Next
<1> DEFINE p == positions[i]
           old == p.unlockEpoch - p.createdEpoch - 1
           nu == p.unlockEpoch + more
           NW(c) == ComputeWeight(c.config, p.amount, old + more)
           ds == DepositsOf(positions)
           n == Len(positions)
<1>1. PICK c \in FreshCores :
          /\ c.epoch < p.unlockEpoch
          /\ NW(c) > ComputeWeight(c.config, p.amount, old)
          /\ nu <= EpochBound
          /\ ExtendInactive(c, i, nu, NW(c)) \/ ExtendActive(c, i, nu, NW(c))
  BY DEF Extend
<1>2. IsFresh(c) /\ c \in CoreType /\ more \in Nat /\ UNCHANGED totalLocked
  BY FreshFacts, FreshParts, EngineAssumption DEF Extend
<1> DEFINE nw == NW(c)
<1>3. Extension(c, i, nu, nw)
  BY <1>1, <1>2, ExtensionHolds
<1>4. core'.epoch = c.epoch
  <2>1. ASSUME NEW s \in CoreType, NEW x, NEW y, NEW z
        PROVE  /\ [s EXCEPT !.scheduledActivationWeight = x].epoch = s.epoch
               /\ [[s EXCEPT !.totalPendingNaraRewards = x, !.balance = y]
                      EXCEPT !.activeTotalWeight = z].epoch = s.epoch
    BY DEF CoreType
  <2> QED BY <1>1, <1>2 DEF ExtendInactive, ExtendActive, MoveDeactivation, DeliverNara, CoreType
<1>5. PICK q : /\ positions' = [positions EXCEPT ![i] = q]
               /\ q.unlockEpoch = nu /\ q.owner = p.owner /\ q.amount = p.amount
  <2>1. p \in PositionType
    BY PositionsFacts DEF IsPosition
  <2>2. ASSUME NEW w, NEW tw, NEW x, NEW y,
               positions' = [positions EXCEPT ![i] =
                   [@ EXCEPT !.weight = w, !.unlockEpoch = nu, !.tokenWeight = tw,
                             !.naraDebtRay = x, !.ethDebtRay = y]]
        PROVE  \E q : /\ positions' = [positions EXCEPT ![i] = q]
                      /\ q.unlockEpoch = nu /\ q.owner = p.owner /\ q.amount = p.amount
    <3> DEFINE q == [p EXCEPT !.weight = w, !.unlockEpoch = nu, !.tokenWeight = tw,
                              !.naraDebtRay = x, !.ethDebtRay = y]
    <3>1. positions' = [positions EXCEPT ![i] = q]
      BY <2>2
    <3> HIDE DEF nu
    <3>2. q.unlockEpoch = nu /\ q.owner = p.owner /\ q.amount = p.amount
      <4> HIDE DEF p
      <4> QED BY <2>1 DEF PositionType
    <3> HIDE DEF q
    <3> QED BY <3>1, <3>2
  <2>3. CASE ExtendInactive(c, i, nu, NW(c))
    <3> DEFINE w == NW(c)
    <3>1. positions' = [positions EXCEPT ![i] =
              [@ EXCEPT !.weight = w, !.unlockEpoch = nu, !.tokenWeight = w,
                        !.naraDebtRay = DEBT_UNINITIALISED, !.ethDebtRay = DEBT_UNINITIALISED]]
      BY <2>3 DEF ExtendInactive
    <3> QED BY <2>2, <3>1
  <2>4. CASE ExtendActive(c, i, nu, NW(c))
    <3> DEFINE w == NW(c)
               tw == IF TokenRewardsNotified THEN p.tokenWeight ELSE w
               x == MulDiv(w, c.naraIndexRay, RAY)
               y == MulDiv(w, c.ethIndexRay, RAY)
    <3>1. positions' = [positions EXCEPT ![i] =
              [@ EXCEPT !.weight = w, !.unlockEpoch = nu, !.tokenWeight = tw,
                        !.naraDebtRay = x, !.ethDebtRay = y]]
      BY <2>4 DEF ExtendActive
    <3> QED BY <2>2, <3>1
  <2> QED BY <1>1, <2>3, <2>4
<1>6. /\ IsPositions(positions) /\ IsPositions(positions') /\ Ids = 1 .. n
      /\ n \in Nat /\ DOMAIN positions = Ids
  BY PositionsFacts DEF IInv, PositionInv
<1>7. Len(positions') = n
  <2>1. DOMAIN positions' = 1 .. n
    BY <1>5, <1>6
  <2>2. DOMAIN positions' = 1 .. Len(positions') /\ Len(positions') \in Nat
    BY <1>6, PositionFacts
  <2> QED BY <2>1, <2>2, <1>6
<1>8. positions'[i] = q /\ \A j \in 1 .. n : j # i => positions'[j] = positions[j]
  BY <1>5, <1>6
<1> HIDE DEF NW, nu, p, n
<1>9. /\ p.amount # 0 /\ p.amount \in Nat /\ nu \in Epochs /\ nu > p.unlockEpoch
      /\ c.epoch < p.unlockEpoch
  BY <1>3, PositionsFacts, PositionParts DEF Extend, Extension, p
<1>10. /\ DOMAIN ds = 1 .. n /\ Len(ds) = n
       /\ ds[i] = [owner |-> p.owner, amount |-> p.amount, unlockEpoch |-> p.unlockEpoch]
       /\ DOMAIN DepositsOf(positions') = 1 .. n
       /\ DepositsOf(positions')[i] = [owner |-> p.owner, amount |-> p.amount,
                                       unlockEpoch |-> nu]
       /\ \A j \in 1 .. n : j # i => DepositsOf(positions')[j] = ds[j]
  <2> DEFINE es == DepositsOf(positions')
  <2>1. /\ Len(ds) = n /\ DOMAIN ds = 1 .. n
        /\ \A j \in 1 .. n : ds[j] = [owner |-> positions[j].owner,
               amount |-> positions[j].amount, unlockEpoch |-> positions[j].unlockEpoch]
    BY <1>6, DepositFacts DEF n
  <2>2. /\ DOMAIN es = 1 .. n
        /\ \A j \in 1 .. n : es[j] = [owner |-> positions'[j].owner,
               amount |-> positions'[j].amount, unlockEpoch |-> positions'[j].unlockEpoch]
    BY <1>6, <1>7, DepositFacts
  <2> HIDE DEF es, ds
  <2>3. i \in 1 .. n
    BY <1>6
  <2>4. es[i] = [owner |-> p.owner, amount |-> p.amount, unlockEpoch |-> nu]
    BY <2>2, <2>3, <1>5, <1>8
  <2>5. \A j \in 1 .. n : j # i => es[j] = ds[j]
    BY <2>1, <2>2, <1>8
  <2> QED BY <2>1, <2>2, <2>3, <2>4, <2>5 DEF es, p
<1>11. DepositsOf(positions') = [ds EXCEPT ![i].unlockEpoch = nu]
  <2> DEFINE es == DepositsOf(positions')
             fs == [ds EXCEPT ![i].unlockEpoch = nu]
  <2>1. es = [j \in 1 .. n |-> es[j]] /\ ds = [j \in 1 .. n |-> ds[j]]
    BY <1>10 DEF DepositsOf
  <2> HIDE DEF es, ds
  <2>2. i \in 1 .. n
    BY <1>6
  <2>3. fs[i] = [owner |-> p.owner, amount |-> p.amount, unlockEpoch |-> nu]
    BY <2>1, <2>2, <1>10
  <2>4. /\ fs = [j \in 1 .. n |-> fs[j]]
        /\ \A j \in 1 .. n : j # i => fs[j] = ds[j]
    BY <2>1
  <2> HIDE DEF fs
  <2>5. \A j \in 1 .. n : es[j] = fs[j]
    BY <2>3, <2>4, <1>10 DEF es
  <2>6. es = fs
    BY <2>1, <2>4, <2>5
  <2> QED BY <2>6 DEF es, fs
<1>12. Custody!EpochsPass
  BY <1>2, <1>4, EpochsPassed
<1>13. ds[i].amount = p.amount /\ ds[i].unlockEpoch = p.unlockEpoch
       /\ DepositsOf(positions')[i].unlockEpoch = nu
       /\ i \in 1 .. Len(ds) /\ i \in DOMAIN DepositsOf(positions')
  BY <1>10, <1>6
<1>14. Custody!Postpone(i, nu)
  <2>1. ds[i].amount > 0 /\ core'.epoch < ds[i].unlockEpoch /\ ds[i].unlockEpoch < nu
    <3>1. p.unlockEpoch \in Nat /\ nu \in Nat
      BY <1>9, PositionsFacts, PositionParts DEF Epochs, p
    <3> QED BY <1>4, <1>9, <1>13, <3>1
  <2> QED BY <2>1, <1>2, <1>11, <1>12 DEF Custody!Postpone
<1> QED BY <1>13, <1>14 DEF Custody!Next, Custody!DepositIds

\* An unlock is a Withdraw of its batch.
LEMMA UnlockWithdraws ==
  ASSUME IInv, IInv', NEW caller \in Owners, NEW ids \in SUBSET Ids, Unlock(caller, ids)
  PROVE  Custody!Next
<1> DEFINE principal == Principal(ids)
           ds == DepositsOf(positions)
           n == Len(positions)
<1>1. PICK c \in FreshCores :
          /\ \A i \in ids : Matured(c, i)
          /\ core' = [DeliverNara(c, SumOver(ids, NaraOwed(c))) EXCEPT !.balance = @ - principal]
          /\ totalLocked' = totalLocked - principal
          /\ positions' = [i \in Ids |-> IF i \in ids THEN [Accrued(c, i) EXCEPT !.amount = 0]
                                         ELSE positions[i]]
  BY DEF Unlock
<1>2. /\ \A i \in ids : positions[i].amount # 0 /\ positions[i].owner = caller
      /\ IsFresh(c) /\ c \in CoreType
  BY FreshFacts, FreshParts DEF Unlock, OwnedBy
<1>3. core'.epoch = c.epoch
  BY <1>1, <1>2 DEF DeliverNara, CoreType
<1>4. /\ IsPositions(positions) /\ IsPositions(positions') /\ Ids = 1 .. n
      /\ n \in Nat /\ DOMAIN positions = Ids /\ \A i \in Ids : positions[i] \in PositionType
  BY PositionsFacts DEF IInv, PositionInv, IsPosition
<1>5. Len(positions') = n
  <2>1. DOMAIN positions' = 1 .. n
    BY <1>1, <1>4
  <2>2. DOMAIN positions' = 1 .. Len(positions') /\ Len(positions') \in Nat
    BY <1>4, PositionFacts
  <2> QED BY <2>1, <2>2, <1>4
<1>6. \A i \in Ids : /\ positions'[i].owner = positions[i].owner
                     /\ positions'[i].amount = IF i \in ids THEN 0 ELSE positions[i].amount
                     /\ positions'[i].unlockEpoch = positions[i].unlockEpoch
  <2>1. SUFFICES ASSUME NEW i \in Ids, i \in ids
                 PROVE  LET q == [Accrued(c, i) EXCEPT !.amount = 0]
                        IN  /\ q.owner = positions[i].owner /\ q.amount = 0
                            /\ q.unlockEpoch = positions[i].unlockEpoch
    BY <1>1
  <2> QED BY <1>4 DEF Accrued, PositionType
<1> DEFINE es == DepositsOf(positions')
<1>7. /\ Len(ds) = n /\ DOMAIN ds = 1 .. n /\ DOMAIN es = 1 .. n
      /\ \A i \in 1 .. n :
            /\ ds[i] = [owner |-> positions[i].owner, amount |-> positions[i].amount,
                        unlockEpoch |-> positions[i].unlockEpoch]
            /\ ds[i].owner = positions[i].owner /\ ds[i].amount = positions[i].amount
            /\ ds[i].unlockEpoch = positions[i].unlockEpoch
            /\ es[i] = [owner |-> positions'[i].owner, amount |-> positions'[i].amount,
                        unlockEpoch |-> positions'[i].unlockEpoch]
  BY <1>4, <1>5, DepositFacts
<1>8. es = [i \in 1 .. n |-> IF i \in ids THEN [ds[i] EXCEPT !.amount = 0] ELSE ds[i]]
  <2>1. ASSUME NEW i \in 1 .. n
        PROVE  es[i] = IF i \in ids THEN [ds[i] EXCEPT !.amount = 0] ELSE ds[i]
    BY <1>4, <1>6, <1>7
  <2>2. es = [i \in 1 .. n |-> es[i]]
    BY <1>7 DEF DepositsOf
  <2> HIDE DEF es, ds
  <2> QED BY <2>1, <2>2
<1>9. principal = SumTo([i \in 1 .. Len(ds) |-> When(i \in ids, ds[i].amount)], Len(ds))
  <2> HIDE DEF ds
  <2>1. [i \in 1 .. n |-> When(i \in ids, ds[i].amount)]
            = [i \in 1 .. n |-> When(i \in ids, positions[i].amount)]
    BY <1>7
  <2>2. principal = SumTo([i \in 1 .. n |-> When(i \in ids, positions[i].amount)], n)
    BY <1>4 DEF Principal, SumOver
  <2> QED BY <2>1, <2>2, <1>7
<1>10. \A i \in ids : /\ ds[i].owner = caller /\ ds[i].amount > 0
                      /\ core'.epoch >= ds[i].unlockEpoch
  <2>1. SUFFICES ASSUME NEW i \in ids
                 PROVE  /\ ds[i].owner = caller /\ ds[i].amount > 0
                        /\ core'.epoch >= ds[i].unlockEpoch
    OBVIOUS
  <2>2. i \in Ids /\ i \in 1 .. n /\ positions[i].amount \in Nat
    BY <1>4, PositionsFacts, PositionParts
  <2>3. positions[i].amount # 0 /\ positions[i].owner = caller
        /\ core'.epoch >= positions[i].unlockEpoch
    BY <1>1, <1>2, <1>3 DEF Matured
  <2> QED BY <2>2, <2>3, <1>7
<1>11. Custody!EpochsPass
  BY <1>2, <1>3, EpochsPassed
<1> HIDE DEF principal, ds, n
<1>12. Custody!Withdraw(caller, ids)
  <2>1. \A f, m : Custody!SumTo(f, m) = SumTo(f, m)
    BY DEF Custody!SumTo, Custody!Prefix, SumTo, Prefix
  <2>2. \A b, x : Custody!When(b, x) = When(b, x)
    BY DEF Custody!When, When
  <2> QED BY <1>1, <1>7, <1>8, <1>9, <1>10, <1>11, <2>1, <2>2
          DEF Custody!Withdraw, Custody!DepositIds, ds
<1>13. ids \in SUBSET (1 .. Len(ds))
  BY <1>4, <1>7
<1> QED BY <1>12, <1>13 DEF Custody!Next, Custody!DepositIds, ds

--------------------------------------------------------------------------------
(* The theorem *)

LEMMA NextIsCustody ==
  ASSUME IInv, IInv', [Next]_vars
  PROVE  [Custody!Next]_(Custody!vars)
<1>1. CASE \/ Tick \/ \E c \in ProposedConfigs : ProposeConfig(c)
           \/ SetFee \/ WithdrawTreasuryEthFees \/ UNCHANGED vars
  <2>1. UNCHANGED <<core, totalLocked, positions>>
    BY <1>1 DEF Tick, ProposeConfig, SetFee, WithdrawTreasuryEthFees, vars
  <2> QED BY <2>1, StutterStep
<1>2. CASE \E payer \in Payers, owner \in Owners, a \in Amounts, d \in Durations :
              Lock(payer, owner, a, d) \/ OnTransferReceived(payer, owner, a, d)
  BY <1>2, LockDeposits
<1>3. CASE \E i \in Ids, d \in Extensions : Extend(i, d)
  BY <1>3, ExtendPostpones
<1>4. CASE \E caller \in Owners, ids \in SUBSET Ids : Unlock(caller, ids) \/ Claim(caller, ids)
  BY <1>4, UnlockWithdraws, ClaimSettles
<1>5. CASE \E i \in Ids : ClaimTokenRewards(i)
  BY <1>5, ClaimTokenSettles
<1>6. CASE \/ \E a \in EthRewards : NotifyEthRewards(a)
           \/ \E a \in TokenRewards : NotifyTokenRewards(a)
           \/ ExecuteConfig
  BY <1>6, FundingSettles
<1>7. CASE \/ \E a \in Deposits : DepositRewards(a)
           \/ \E a \in Donations : Donate(a)
           \/ SyncEmissionReserve \/ SetRewardReserve \/ CancelConfig
  BY <1>7, LedgerSettles
<1>8. CASE (\E n \in AdvanceSteps : AdvanceEpochs(n)) \/ Poke
  <2>1. PICK n \in AdvanceSteps \cup {MaxJitAdvance} : AdvanceBy(n)
    BY <1>8 DEF AdvanceEpochs, Poke
  <2>2. n \in Nat
    BY EngineAssumption
  <2> QED BY <2>1, <2>2, AdvanceSettles
<1> QED BY <1>1, <1>2, <1>3, <1>4, <1>5, <1>6, <1>7, <1>8 DEF Next

\* Principal is released to its owner, after its unlock epoch, at once and once,
\* whatever the rest of the engine does.
THEOREM EngineKeepsCustody == Spec => CustodyHeld
<1>1. ASSUME Init PROVE Custody!Init
  <2>1. positions = <<>> /\ core.epoch = 0 /\ totalLocked = 0
    BY <1>1 DEF Init
  <2>2. DepositsOf(positions) = <<>>
    BY <2>1 DEF DepositsOf
  <2> QED BY <2>1, <2>2 DEF Custody!Init
<1>2. IInv /\ IInv' /\ [Next]_vars => [Custody!Next]_(Custody!vars)
  BY NextIsCustody
<1> QED BY <1>1, <1>2, InductiveInvariant, PTL DEF Spec, CustodyHeld, Custody!Spec

--------------------------------------------------------------------------------
(* The rewards, for NARA and for ETH: one position against the indices of one       *)
(* asset.  A is the index at each epoch, e the settled epoch, p a position and d    *)
(* its debt in the asset.                                                           *)

Reach(A, e, p) == A[MinOf(e, p.unlockEpoch - 1)]
Charged(A, p, d) == IF d = DEBT_UNINITIALISED THEN OpeningDebt(p.weight, A, p) ELSE d
Started(e, p) == p.activationEpoch <= e

\* What p has earned and not been paid, times RAY, before any rounding.
Unpaid(A, e, p, d) ==
    IF p.amount = 0 \/ ~ Started(e, p) THEN 0
    ELSE p.weight * Reach(A, e, p) - RAY * Charged(A, p, d)

\* The two marks whose sums bound the funds: rounding takes less than one unit at the
\* opening debt and one at the last payment, and less than 1 / RAY of the weight in
\* every epoch.
LowMark(A, e, p, d) == IF Started(e, p) THEN Unpaid(A, e, p, d) - (RAY - 1) ELSE 0
HighMark(A, e, p, d) ==
    (IF p.amount = 0 THEN RAY - 1 ELSE Unpaid(A, e, p, d)) + p.weight * EpochsActive(e, p)

DebtFits(A, e, p, d) ==
    /\ d \in DebtType
    /\ d # DEBT_UNINITIALISED => /\ Started(e, p)
                                 /\ RAY * d <= p.weight * Reach(A, e, p)
ClosedLate(e, p) == p.amount = 0 => p.unlockEpoch <= e

\* The indices never fall from one epoch to the next, and the live one is the last.
Indices(A, live, e) ==
    /\ A \in [Epochs -> Nat] /\ e \in Epochs /\ A[e] = live
    /\ \A x, y \in Epochs : x <= y /\ y <= e => A[x] <= A[y]

--------------------------------------------------------------------------------
(* Arithmetic *)

LEMMA MulDivBounds ==
  ASSUME NEW x \in Nat, NEW y \in Nat
  PROVE  /\ MulDiv(x, y, RAY) \in Nat
         /\ RAY * MulDiv(x, y, RAY) <= x * y
         /\ x * y <= RAY * MulDiv(x, y, RAY) + RAY - 1
<1>1. RAY \in Nat \ {0}
  BY RayAssumption
<1> DEFINE k == x * y
<1>2. k \in Nat
  OBVIOUS
<1>3. MulDiv(x, y, RAY) = k \div RAY
  BY DEF MulDiv
<1> HIDE DEF k
<1>4. /\ k \div RAY \in Nat /\ RAY * (k \div RAY) <= k /\ k <= RAY * (k \div RAY) + RAY - 1
  BY <1>1, <1>2
<1> QED BY <1>3, <1>4 DEF k

LEMMA ProductIsNat == ASSUME NEW x \in Nat, NEW y \in Nat PROVE x * y \in Nat
OBVIOUS
LEMMA ProductIsMonotone ==
  ASSUME NEW w \in Nat, NEW x \in Nat, NEW y \in Nat, x <= y
  PROVE  w * x <= w * y
OBVIOUS
LEMMA ProductOfSum ==
  ASSUME NEW w \in Int, NEW x \in Int, NEW y \in Int
  PROVE  w * (x + y) = w * x + w * y
OBVIOUS
LEMMA NegatedProduct ==
  ASSUME NEW w \in Int, NEW x \in Int, NEW k, k = 0 - w
  PROVE  k * x = 0 - w * x /\ k \in Int /\ w * x \in Int
<1>1. k * x + w * x = (k + w) * x /\ (k + w) * x = 0
  <2>1. k \in Int /\ k + w = 0
    OBVIOUS
  <2>2. x * (k + w) = x * k + x * w
    BY <2>1, ProductOfSum
  <2> QED BY <2>1, <2>2
<1>2. k * x \in Int /\ w * x \in Int
  OBVIOUS
<1> QED BY <1>1, <1>2
LEMMA ProductOfDifference ==
  ASSUME NEW w \in Int, NEW x \in Int, NEW y \in Int
  PROVE  w * (x - y) = w * x - w * y
<1> DEFINE z == x - y
<1>1. z \in Int /\ x = y + z
  OBVIOUS
<1> HIDE DEF z
<1>2. w * x = w * y + w * z
  BY <1>1, ProductOfSum
<1>3. w * y \in Int /\ w * z \in Int
  BY <1>1
<1>4. w * z = w * x - w * y
  BY <1>2, <1>3
<1> QED BY <1>4 DEF z
\* A quotient that fits under a product fits before the multiplication.
LEMMA QuotientFits ==
  ASSUME NEW x \in Nat, NEW y \in Nat, NEW d \in Nat, RAY * d <= x * y
  PROVE  d <= MulDiv(x, y, RAY)
<1> DEFINE m == MulDiv(x, y, RAY)
<1>1. RAY \in Nat \ {0} /\ m \in Nat /\ x * y <= RAY * m + RAY - 1
  BY RayAssumption, MulDivBounds
<1> HIDE DEF m
<1> SUFFICES ASSUME d > m PROVE FALSE
  BY <1>1 DEF m
<1>2. RAY * (m + 1) <= RAY * d
  BY <1>1, ProductIsMonotone
<1>3. RAY * (m + 1) = RAY * m + RAY
  BY <1>1
<1>4. x * y \in Nat /\ RAY * m \in Nat /\ RAY * d \in Nat
  BY <1>1
<1> QED BY <1>1, <1>2, <1>3, <1>4

--------------------------------------------------------------------------------
(* One position *)

\* The epochs between which a position earns, as indices into A.
LEMMA ReachFacts ==
  ASSUME NEW A, NEW live, NEW e, Indices(A, live, e), NEW p, IsPosition(p)
  PROVE  /\ Reach(A, e, p) \in Nat /\ live \in Nat /\ e \in Nat
         /\ A[p.activationEpoch - 1] \in Nat
         /\ Started(e, p) => A[p.activationEpoch - 1] <= Reach(A, e, p)
         /\ e < p.unlockEpoch => Reach(A, e, p) = live
         /\ Reach(A, e, p) <= live
<1> DEFINE a == p.activationEpoch
           u == p.unlockEpoch
           m == MinOf(e, u - 1)
<1>1. /\ a \in Nat /\ a > 0 /\ u \in Nat /\ a < u /\ u <= EpochBound /\ EpochBound \in Nat
  BY PositionParts
<1>2. /\ A \in [Epochs -> Nat] /\ e \in Epochs /\ A[e] = live /\ e \in Nat /\ e <= EpochBound
      /\ \A x, y \in Epochs : x <= y /\ y <= e => A[x] <= A[y]
  BY EngineAssumption DEF Indices, Epochs
<1> HIDE DEF a, u
<1>3. /\ m \in Epochs /\ m <= e /\ a - 1 \in Epochs /\ (e < u => m = e)
      /\ a <= e => a - 1 <= m
      /\ m \in Nat /\ a - 1 \in Nat
  BY <1>1, <1>2 DEF MinOf, Epochs
<1>4. Reach(A, e, p) = A[m]
  BY DEF Reach, u
<1> HIDE DEF m
<1> DEFINE o == a - 1
<1>5. A[m] \in Nat /\ A[o] \in Nat /\ A[e] \in Nat /\ A[m] <= A[e]
  <2>1. o \in Epochs
    BY <1>3
  <2>2. e <= e
    BY <1>2
  <2> HIDE DEF o
  <2>3. A[m] \in Nat /\ A[o] \in Nat /\ A[e] \in Nat
    BY <1>2, <1>3, <2>1
  <2>4. A[m] <= A[e]
    BY <1>2, <1>3, <2>2
  <2> QED BY <2>3, <2>4
<1>6. a <= e => A[a - 1] <= A[m]
  BY <1>2, <1>3
<1> QED BY <1>2, <1>3, <1>4, <1>5, <1>6 DEF Started, a, u

\* A debt is charged at most once, and never more than what the position has earned.
LEMMA ChargeFacts ==
  ASSUME NEW A, NEW live, NEW e, Indices(A, live, e), NEW p, IsPosition(p),
         NEW d, DebtFits(A, e, p, d), Started(e, p)
  PROVE  /\ Charged(A, p, d) \in Nat
         /\ RAY * Charged(A, p, d) <= p.weight * Reach(A, e, p)
         /\ p.weight * Reach(A, e, p) \in Nat
<1> DEFINE r == Reach(A, e, p)
           o == A[p.activationEpoch - 1]
<1>1. r \in Nat /\ o \in Nat /\ o <= r /\ p.weight \in Nat
  BY ReachFacts, PositionParts
<1>2. CASE d = DEBT_UNINITIALISED
  <2>1. Charged(A, p, d) = MulDiv(p.weight, o, RAY)
    BY <1>2 DEF Charged, OpeningDebt
  <2> HIDE DEF o, r
  <2>2. RAY * MulDiv(p.weight, o, RAY) <= p.weight * o /\ MulDiv(p.weight, o, RAY) \in Nat
    BY <1>1, MulDivBounds
  <2>3. p.weight * o <= p.weight * r /\ p.weight * o \in Nat /\ p.weight * r \in Nat
    BY <1>1, ProductIsMonotone, ProductIsNat
  <2>4. RAY * MulDiv(p.weight, o, RAY) \in Nat
    BY <2>2, RayAssumption
  <2> QED BY <2>1, <2>2, <2>3, <2>4 DEF r
<1>3. CASE d # DEBT_UNINITIALISED
  <2>1. Charged(A, p, d) = d /\ d \in Nat
    BY <1>3 DEF Charged, DebtFits, DebtType
  <2> QED BY <2>1, <1>1, <1>3, ProductIsNat DEF DebtFits
<1> QED BY <1>2, <1>3

LEMMA MarkTypes ==
  ASSUME NEW A, NEW live, NEW e, Indices(A, live, e), NEW p, IsPosition(p),
         NEW d, DebtFits(A, e, p, d)
  PROVE  /\ Unpaid(A, e, p, d) \in Nat /\ LowMark(A, e, p, d) \in Int
         /\ HighMark(A, e, p, d) \in Int /\ EpochsActive(e, p) \in Nat
         /\ p.weight * EpochsActive(e, p) \in Nat
<1>1. Unpaid(A, e, p, d) \in Nat
  <2>1. CASE p.amount = 0 \/ ~ Started(e, p)
    BY <2>1 DEF Unpaid
  <2>2. CASE ~ (p.amount = 0 \/ ~ Started(e, p))
    <3>1. /\ Charged(A, p, d) \in Nat /\ p.weight * Reach(A, e, p) \in Nat
          /\ RAY * Charged(A, p, d) <= p.weight * Reach(A, e, p)
      BY <2>2, ChargeFacts
    <3>2. RAY * Charged(A, p, d) \in Nat
      BY <3>1, RayAssumption, ProductIsNat
    <3> QED BY <2>2, <3>1, <3>2 DEF Unpaid
  <2> QED BY <2>1, <2>2
<1>2. EpochsActive(e, p) \in Nat
  BY ReachFacts, PositionParts DEF EpochsActive, MinOf
<1>3. p.weight * EpochsActive(e, p) \in Nat
  BY <1>2, PositionParts, ProductIsNat
<1> QED BY <1>1, <1>2, <1>3, RayAssumption DEF LowMark, HighMark

\* One epoch more: an active position earns its weight times the rise of the index, and
\* the rounding of its opening debt at most.
LEMMA EpochMarks ==
  ASSUME NEW A, NEW live, NEW e, Indices(A, live, e), NEW p, IsPosition(p),
         NEW d, DebtFits(A, e, p, d), ClosedLate(e, p),
         NEW B, NEW rise \in Nat, Indices(B, live + rise, e + 1),
         \A x \in Epochs : x <= e => B[x] = A[x]
  PROVE  LET w == When(IsActive(p, e + 1), p.weight)
         IN  /\ DebtFits(B, e + 1, p, d) /\ ClosedLate(e + 1, p)
             /\ LowMark(B, e + 1, p, d) <= LowMark(A, e, p, d) + rise * w
             /\ HighMark(B, e + 1, p, d) >= HighMark(A, e, p, d) + (rise + 1) * w
<1> DEFINE a == p.activationEpoch
           u == p.unlockEpoch
           w == p.weight
           r == Reach(A, e, p)
           s == Reach(B, e + 1, p)
           x == Charged(A, p, d)
<1>1. /\ a \in Nat /\ a > 0 /\ u \in Nat /\ a < u /\ u <= EpochBound /\ EpochBound \in Nat
      /\ w \in Nat
  BY PositionParts
<1>2. /\ A \in [Epochs -> Nat] /\ B \in [Epochs -> Nat] /\ e \in Epochs /\ e \in Nat
      /\ e + 1 \in Epochs /\ A[e] = live /\ B[e + 1] = live + rise /\ live \in Nat
      /\ r \in Nat /\ s \in Nat
  BY ReachFacts DEF Indices
<1>0. /\ w = p.weight /\ a = p.activationEpoch /\ u = p.unlockEpoch
  OBVIOUS
<1> HIDE DEF a, u, w
<1>3. Charged(B, p, d) = x \/ ~ Started(e + 1, p)
  <2>1. SUFFICES ASSUME a <= e + 1 PROVE B[a - 1] = A[a - 1]
    BY DEF Charged, OpeningDebt, Started, a
  <2>2. a - 1 \in Epochs /\ a - 1 <= e
    BY <1>1, <1>2, <2>1 DEF Epochs
  <2> QED BY <2>2
<1>4. s = IF e + 1 < u THEN live + rise ELSE r
  <2>1. CASE e + 1 < u
    <3>1. MinOf(e + 1, u - 1) = e + 1
      BY <2>1, <1>1, <1>2 DEF MinOf
    <3> QED BY <2>1, <3>1, <1>2 DEF Reach, u
  <2>2. CASE ~ (e + 1 < u)
    <3>1. MinOf(e, u - 1) = u - 1 /\ MinOf(e + 1, u - 1) = u - 1
          /\ u - 1 <= e /\ u - 1 \in Epochs
      BY <2>2, <1>1, <1>2 DEF MinOf, Epochs
    <3> QED BY <2>2, <3>1 DEF Reach, u
  <2> QED BY <2>1, <2>2
<1>5. Started(e, p) => r <= s
  <2>1. r <= live
    BY ReachFacts
  <2> HIDE DEF r, s
  <2> QED BY <2>1, <1>2, <1>4
<1>6. DebtFits(B, e + 1, p, d)
  <2>1. SUFFICES ASSUME d # DEBT_UNINITIALISED PROVE Started(e + 1, p) /\ RAY * d <= w * s
    BY DEF DebtFits, w
  <2>2. Started(e, p) /\ RAY * d <= w * r /\ d \in Nat
    BY <2>1 DEF DebtFits, DebtType, w
  <2>3. w * r <= w * s /\ w * r \in Nat /\ w * s \in Nat /\ RAY * d \in Nat
    BY <1>1, <1>2, <1>5, <2>2, ProductIsMonotone, ProductIsNat, RayAssumption
  <2>4. Started(e + 1, p)
    BY <1>1, <1>2, <2>2 DEF Started, a
  <2> HIDE DEF r, s
  <2> QED BY <2>2, <2>3, <2>4
<1>7. ClosedLate(e + 1, p)
  BY <1>1, <1>2 DEF ClosedLate, u
<1> DEFINE act == When(IsActive(p, e + 1), w)
           E == EpochsActive(e, p)
           F == EpochsActive(e + 1, p)
<1>8. IsActive(p, e + 1) => F = E + 1
  BY <1>1, <1>2 DEF EpochsActive, MinOf, IsActive, a, u
<1>9. ~ IsActive(p, e + 1) => F = E
  BY <1>1, <1>2 DEF EpochsActive, MinOf, IsActive, a, u
<1>10. /\ Unpaid(A, e, p, d) \in Nat /\ Unpaid(B, e + 1, p, d) \in Nat /\ E \in Nat /\ F \in Nat
       /\ w * E \in Nat /\ w * F \in Nat /\ w * rise \in Nat
  <2>1. Unpaid(A, e, p, d) \in Nat /\ E \in Nat
    BY MarkTypes
  <2>2. Unpaid(B, e + 1, p, d) \in Nat /\ F \in Nat
    <3> DEFINE n == e + 1
               m == live + rise
    <3>1. Indices(B, m, n) /\ DebtFits(B, n, p, d)
      BY <1>6
    <3> HIDE DEF n, m
    <3>2. Unpaid(B, n, p, d) \in Nat /\ EpochsActive(n, p) \in Nat
      BY <3>1, MarkTypes
    <3> QED BY <3>2 DEF n
  <2> HIDE DEF E, F
  <2> QED BY <1>1, <2>1, <2>2, ProductIsNat
<1> HIDE DEF E, F
<1>11. CASE ~ IsActive(p, e + 1)
  <2>1. Unpaid(B, e + 1, p, d) = Unpaid(A, e, p, d) /\ (Started(e + 1, p) => Started(e, p))
    BY <1>1, <1>2, <1>3, <1>4, <1>11 DEF Unpaid, IsActive, Started, a, u, w
  <2>2. Started(e, p) => Started(e + 1, p)
    BY <1>1, <1>2 DEF Started, a
  <2>3. act = 0 /\ rise * act = 0 /\ (rise + 1) * act = 0 /\ w * F = w * E
    BY <1>9, <1>11 DEF When
  <2> QED BY <1>6, <1>7, <1>10, <2>1, <2>2, <2>3, RayAssumption DEF LowMark, HighMark, E, F, w
<1>12. CASE IsActive(p, e + 1)
  <2> HIDE DEF r, s
  <2>1. /\ p.amount # 0 /\ a <= e + 1 /\ e + 1 < u /\ s = live + rise /\ r = live
    BY <1>1, <1>2, <1>4, <1>12, ReachFacts DEF IsActive, ClosedLate, a, u, r
  <2>2. act = w /\ rise * act = w * rise /\ (rise + 1) * act = w * rise + w
        /\ w * F = w * E + w
    BY <1>1, <1>8, <1>10, <1>12 DEF When
  <2>3. Unpaid(B, e + 1, p, d) = w * s - RAY * x
    BY <1>3, <2>1 DEF Unpaid, Started, a, w, s
  <2>4. w * s = w * live + w * rise /\ w * live \in Nat
    BY <1>1, <1>2, <2>1, ProductOfSum, ProductIsNat
  <2>7. /\ LowMark(B, e + 1, p, d) = w * s - RAY * x - (RAY - 1)
        /\ HighMark(B, e + 1, p, d) = w * s - RAY * x + w * F
    BY <2>1, <2>3 DEF LowMark, HighMark, F, w, Started, a
  <2> DEFINE X == RAY * x
             Y == w * live
             Z == w * rise
             V == w * E
             gain == rise * act
             loss == (rise + 1) * act
  <2>8. /\ LowMark(B, e + 1, p, d) = (Y + Z) - X - (RAY - 1)
        /\ HighMark(B, e + 1, p, d) = (Y + Z) - X + (V + w)
        /\ Y \in Nat /\ Z \in Nat /\ V \in Nat
    BY <1>10, <2>2, <2>4, <2>7
  <2> SUFFICES /\ LowMark(B, e + 1, p, d) <= LowMark(A, e, p, d) + gain
               /\ HighMark(B, e + 1, p, d) >= HighMark(A, e, p, d) + loss
    BY <1>6, <1>7 DEF w
  <2>5. CASE a <= e
    <3>1. Unpaid(A, e, p, d) = w * live - RAY * x /\ Started(e, p) /\ Started(e + 1, p)
      BY <1>1, <1>2, <2>1, <2>5 DEF Unpaid, Started, a, w, r
    <3>2. x \in Nat
      BY <3>1, ChargeFacts
    <3>3. RAY * x \in Nat
      BY <3>2, RayAssumption, ProductIsNat
    <3> HIDE DEF x
    <3>4. /\ LowMark(A, e, p, d) = w * live - RAY * x - (RAY - 1)
          /\ HighMark(A, e, p, d) = w * live - RAY * x + w * E
      BY <2>1, <3>1 DEF LowMark, HighMark, E, w
    <3>5. gain = Z /\ loss = Z + w
      BY <2>2
    <3>6. /\ LowMark(A, e, p, d) = Y - X - (RAY - 1) /\ HighMark(A, e, p, d) = Y - X + V
          /\ X \in Nat
      BY <3>3, <3>4
    <3> HIDE DEF X, Y, Z, V, gain, loss
    <3> QED BY <1>1, <2>8, <3>5, <3>6, RayAssumption
  <2>6. CASE ~ (a <= e)
    <3>1. a - 1 = e /\ ~ Started(e, p) /\ Started(e + 1, p)
      BY <1>1, <1>2, <2>1, <2>6 DEF Started, a
    <3>2. d = DEBT_UNINITIALISED /\ Unpaid(A, e, p, d) = 0
      BY <3>1 DEF DebtFits, Unpaid
    <3>3. x = MulDiv(w, live, RAY)
      BY <1>2, <3>1, <3>2 DEF Charged, OpeningDebt, a, w
    <3>4. x \in Nat /\ RAY * x <= w * live /\ w * live <= RAY * x + RAY - 1
      BY <1>1, <1>2, <3>3, MulDivBounds
    <3>5. RAY * x \in Nat
      BY <3>4, RayAssumption, ProductIsNat
    <3> HIDE DEF x
    <3>6. LowMark(A, e, p, d) = 0 /\ HighMark(A, e, p, d) = w * E
      BY <1>10, <2>1, <3>1, <3>2 DEF LowMark, HighMark, E, w
    <3>7. gain = Z /\ loss = Z + w
      BY <2>2
    <3>8. /\ LowMark(A, e, p, d) = 0 /\ HighMark(A, e, p, d) = V
          /\ X \in Nat /\ X <= Y /\ Y <= X + RAY - 1
      BY <3>4, <3>5, <3>6
    <3> HIDE DEF X, Y, Z, V, gain, loss
    <3> QED BY <1>1, <2>8, <3>7, <3>8, RayAssumption
  <2> QED BY <2>5, <2>6
<1> QED BY <1>11, <1>12

\* What positionAccrual pays and charges: the payment is the rise of the debt, and when
\* the position has matured only a fraction stays behind.
LEMMA AccrualFacts ==
  ASSUME NEW A, NEW live, NEW e, Indices(A, live, e), NEW p, IsPosition(p),
         NEW d, DebtFits(A, e, p, d)
  PROVE  LET x == Accrual(A, e, p, d)
             r == p.weight * Reach(A, e, p)
         IN  /\ x.owed \in Nat /\ x.debt \in DebtType
             /\ HasClosedEpoch(e, p) =>
                    /\ Started(e, p) /\ x.debt \in Nat
                    /\ x.owed = x.debt - Charged(A, p, d)
                    /\ RAY * x.debt <= r
                    /\ p.unlockEpoch <= e => r <= RAY * x.debt + RAY - 1
             /\ ~ HasClosedEpoch(e, p) => /\ x.owed = 0 /\ x.debt = d
                                          /\ e < p.unlockEpoch
<1> DEFINE x == Accrual(A, e, p, d)
           last == LastPayableEpoch(e, p)
           m == MinOf(e, p.unlockEpoch - 1)
           w == p.weight
           r == w * Reach(A, e, p)
           k == Charged(A, p, d)
           gross == MulDiv(w, A[last], RAY)
<1>1. /\ A \in [Epochs -> Nat] /\ e \in Epochs /\ e \in Nat /\ e <= EpochBound
      /\ \A y, z \in Epochs : y <= z /\ z <= e => A[y] <= A[z]
  BY EngineAssumption DEF Indices, Epochs
<1>2. /\ p.activationEpoch \in Nat /\ p.unlockEpoch \in Nat /\ w \in Nat
      /\ p.activationEpoch < p.unlockEpoch
      /\ p.unlockEpoch <= EpochBound /\ EpochBound \in Nat
  BY PositionParts
<1>3. x.owed \in Nat /\ x.debt \in DebtType
  BY <1>1, AccrualType DEF Indices, DebtFits
<1>4. CASE ~ HasClosedEpoch(e, p)
  <2>1. x = [owed |-> 0, debt |-> d]
    BY <1>4 DEF Accrual
  <2>2. e < p.unlockEpoch
    BY <1>1, <1>2, <1>4 DEF HasClosedEpoch, LastPayableEpoch, MinOf
  <2> QED BY <1>3, <1>4, <2>1, <2>2
<1>5. CASE HasClosedEpoch(e, p)
  <2>1. /\ Started(e, p) /\ last \in Nat /\ last \in Epochs /\ last <= m /\ m <= e
        /\ m \in Epochs /\ m \in Nat /\ (p.unlockEpoch <= e => last = m)
    <3> DEFINE a == p.activationEpoch
               u == p.unlockEpoch
    <3>1. last = MinOf(e - 1, u - 1) /\ last >= a /\ m = MinOf(e, u - 1)
      BY <1>5 DEF HasClosedEpoch, LastPayableEpoch
    <3>2. a \in Nat /\ u \in Nat /\ a < u /\ u <= EpochBound
      BY <1>2
    <3> HIDE DEF a, u, last, m
    <3>3. /\ a <= e /\ last \in Nat /\ last \in Epochs /\ last <= m /\ m <= e
          /\ m \in Epochs /\ m \in Nat /\ (u <= e => last = m)
      BY <1>1, <3>1, <3>2, EngineAssumption DEF MinOf, Epochs
    <3> QED BY <3>3 DEF Started, a, u
  <2>2. Reach(A, e, p) = A[m]
    BY DEF Reach
  <2> HIDE DEF last, m, w
  <2>3. A[last] \in Nat /\ A[m] \in Nat /\ A[last] <= A[m]
    BY <1>1, <2>1
  <2>4. /\ gross \in Nat /\ RAY * gross <= w * A[last] /\ w * A[last] <= RAY * gross + RAY - 1
    BY <1>2, <2>3, MulDivBounds
  <2>5. w * A[last] <= w * A[m] /\ w * A[last] \in Nat /\ w * A[m] \in Nat
    BY <1>2, <2>3, ProductIsMonotone, ProductIsNat
  <2>6. r = w * A[m]
    BY <2>2
  <2>7. k \in Nat /\ RAY * k <= r
    BY <2>1, ChargeFacts DEF w
  <2>8. x = IF gross > k THEN [owed |-> gross - k, debt |-> gross] ELSE [owed |-> 0, debt |-> k]
    BY <1>5 DEF Accrual, Charged, w, last
  <2>9. RAY * gross \in Nat /\ RAY * k \in Nat
    BY <2>4, <2>7, RayAssumption, ProductIsNat
  <2>10. last = m => k <= gross
    <3>1. SUFFICES ASSUME last = m PROVE k <= gross
      OBVIOUS
    <3>2. RAY * k <= w * A[last]
      BY <2>6, <2>7, <3>1
    <3> HIDE DEF k
    <3> QED BY <1>2, <2>3, <2>7, <3>2, QuotientFits
  <2> DEFINE X == RAY * gross
             Y == w * A[last]
             Z == w * A[m]
  <2>11. /\ X \in Nat /\ Y \in Nat /\ Z \in Nat /\ X <= Y /\ Y <= X + RAY - 1 /\ Y <= Z
         /\ r = Z /\ (last = m => Y = Z)
    BY <2>4, <2>5, <2>6, <2>9
  <2> HIDE DEF gross, k, r, x, X, Y, Z
  <2>12. CASE gross > k
    <3>1. x.owed = gross - k /\ x.debt = gross /\ RAY * x.debt = X
      BY <2>8, <2>12 DEF X
    <3>2. X <= r /\ (p.unlockEpoch <= e => r <= X + RAY - 1)
      BY <2>1, <2>11, RayAssumption
    <3> QED BY <1>3, <1>5, <2>1, <2>4, <3>1, <3>2 DEF x, r, k, w
  <2>13. CASE ~ (gross > k)
    <3>1. x.owed = 0 /\ x.debt = k
      BY <2>8, <2>13
    <3>2. last = m => k = gross
      BY <2>4, <2>7, <2>10, <2>13
    <3>3. p.unlockEpoch <= e => r <= RAY * k + RAY - 1
      BY <2>1, <2>11, <3>2, RayAssumption DEF X
    <3> QED BY <1>3, <1>5, <2>1, <2>7, <3>1, <3>3 DEF x, r, k, w
  <2> QED BY <2>12, <2>13
<1> QED BY <1>4, <1>5

SameEarning(p, q) == /\ q.weight = p.weight /\ q.activationEpoch = p.activationEpoch
                     /\ q.unlockEpoch = p.unlockEpoch

\* A payment lowers both marks by as much as it pays; so does an unlock, which leaves
\* the fraction behind.
LEMMA PayMarks ==
  ASSUME NEW A, NEW live, NEW e, Indices(A, live, e), NEW p, IsPosition(p),
         NEW d, DebtFits(A, e, p, d), p.amount # 0,
         NEW q, SameEarning(p, q),
         q.amount = p.amount \/ (q.amount = 0 /\ p.unlockEpoch <= e)
  PROVE  LET x == Accrual(A, e, p, d)
         IN  /\ DebtFits(A, e, q, x.debt) /\ ClosedLate(e, q)
             /\ LowMark(A, e, q, x.debt) <= LowMark(A, e, p, d) - RAY * x.owed
             /\ HighMark(A, e, q, x.debt) >= HighMark(A, e, p, d) - RAY * x.owed
<1> DEFINE x == Accrual(A, e, p, d)
           w == p.weight
           r == w * Reach(A, e, p)
           k == Charged(A, p, d)
           V == w * EpochsActive(e, p)
<1>1. /\ x.owed \in Nat /\ x.debt \in DebtType
      /\ HasClosedEpoch(e, p) =>
             /\ Started(e, p) /\ x.debt \in Nat /\ x.owed = x.debt - k
             /\ RAY * x.debt <= r
             /\ p.unlockEpoch <= e => r <= RAY * x.debt + RAY - 1
      /\ ~ HasClosedEpoch(e, p) => x.owed = 0 /\ x.debt = d /\ e < p.unlockEpoch
  BY AccrualFacts
<1>2. /\ Reach(A, e, q) = Reach(A, e, p) /\ EpochsActive(e, q) = EpochsActive(e, p)
      /\ Started(e, q) <=> Started(e, p)
  BY DEF Reach, EpochsActive, Started, SameEarning
<1>3. /\ Unpaid(A, e, p, d) \in Nat /\ V \in Nat /\ LowMark(A, e, p, d) \in Int
      /\ HighMark(A, e, p, d) = Unpaid(A, e, p, d) + V /\ e \in Nat /\ p.unlockEpoch \in Nat
  BY MarkTypes, ReachFacts, PositionParts DEF HighMark
<1>4. ClosedLate(e, q)
  BY DEF ClosedLate, SameEarning
<1>5. CASE ~ HasClosedEpoch(e, p)
  <2>1. q.amount = p.amount /\ x.owed = 0 /\ x.debt = d /\ RAY * x.owed = 0
    BY <1>1, <1>3, <1>5, RayAssumption
  <2> HIDE DEF x
  <2>2. Charged(A, q, d) = k
    BY DEF Charged, OpeningDebt, SameEarning
  <2>3. Unpaid(A, e, q, d) = Unpaid(A, e, p, d)
    BY <1>2, <2>1, <2>2 DEF Unpaid, SameEarning
  <2>4. LowMark(A, e, q, d) = LowMark(A, e, p, d) /\ HighMark(A, e, q, d) = HighMark(A, e, p, d)
    BY <1>2, <2>1, <2>3 DEF LowMark, HighMark, SameEarning
  <2>5. DebtFits(A, e, q, d)
    BY <1>2 DEF DebtFits, SameEarning
  <2>6. LowMark(A, e, p, d) - 0 = LowMark(A, e, p, d) /\ HighMark(A, e, p, d) - 0 = HighMark(A, e, p, d)
        /\ HighMark(A, e, p, d) \in Int
    BY <1>3
  <2> QED BY <1>3, <1>4, <2>1, <2>4, <2>5, <2>6 DEF x
<1>6. CASE HasClosedEpoch(e, p)
  <2> DEFINE X == RAY * x.debt
             K == RAY * k
             P == RAY * x.owed
  <2>1. /\ Started(e, p) /\ x.debt \in Nat /\ x.owed = x.debt - k /\ X <= r
        /\ p.unlockEpoch <= e => r <= X + RAY - 1
    BY <1>1, <1>6
  <2>2. k \in Nat /\ r \in Nat /\ K <= r
    BY <2>1, ChargeFacts
  <2> HIDE DEF x, r, k
  <2>3. X \in Nat /\ K \in Nat /\ P = X - K
    <3>1. RAY \in Nat
      BY RayAssumption
    <3>2. x.debt = k + x.owed
      BY <2>1, <2>2, <1>1
    <3>3. X = K + P /\ K \in Nat /\ P \in Nat
      BY <1>1, <2>2, <3>1, <3>2, ProductOfSum, ProductIsNat
    <3> QED BY <3>3
  <2>4. Unpaid(A, e, p, d) = r - K
    BY <2>1 DEF Unpaid, r, k
  <2>5. Charged(A, q, x.debt) = x.debt
    BY <2>1 DEF Charged, DEBT_UNINITIALISED
  <2>6. DebtFits(A, e, q, x.debt)
    BY <1>1, <1>2, <2>1 DEF DebtFits, SameEarning, r
  <2>7. q.amount # 0 => Unpaid(A, e, q, x.debt) = r - X
    BY <1>2, <2>1, <2>5 DEF Unpaid, SameEarning, r
  <2>8. q.amount = 0 => Unpaid(A, e, q, x.debt) = 0
    BY DEF Unpaid
  <2>9. /\ LowMark(A, e, p, d) = r - K - (RAY - 1) /\ HighMark(A, e, p, d) = r - K + V
    BY <1>3, <2>1, <2>4 DEF LowMark
  <2>10. /\ LowMark(A, e, q, x.debt) = Unpaid(A, e, q, x.debt) - (RAY - 1)
         /\ HighMark(A, e, q, x.debt) =
                (IF q.amount = 0 THEN RAY - 1 ELSE Unpaid(A, e, q, x.debt)) + V
    BY <1>2, <2>1 DEF LowMark, HighMark, SameEarning
  <2> HIDE DEF X, K, P, V
  <2>11. CASE q.amount # 0
    <3>1. /\ LowMark(A, e, q, x.debt) <= LowMark(A, e, p, d) - P
          /\ HighMark(A, e, q, x.debt) >= HighMark(A, e, p, d) - P
      BY <1>3, <2>2, <2>3, <2>7, <2>9, <2>10, <2>11, RayAssumption
    <3> QED BY <1>4, <2>6, <3>1 DEF x, P
  <2>12. CASE q.amount = 0
    <3>1. r <= X + RAY - 1
      BY <2>1, <2>12
    <3>2. /\ LowMark(A, e, q, x.debt) <= LowMark(A, e, p, d) - P
          /\ HighMark(A, e, q, x.debt) >= HighMark(A, e, p, d) - P
      BY <1>3, <2>1, <2>2, <2>3, <2>8, <2>9, <2>10, <2>12, <3>1, RayAssumption
    <3> QED BY <1>4, <2>6, <3>2 DEF x, P
  <2> QED BY <2>11, <2>12
<1> QED BY <1>5, <1>6

\* What settleAndRebase pays in all: the whole of the earned weight, rounded down once.
LEMMA SettlementFacts ==
  ASSUME NEW A, NEW live, NEW e, Indices(A, live, e), NEW p, IsPosition(p),
         NEW d, DebtFits(A, e, p, d), Started(e, p), e < p.unlockEpoch
  PROVE  Settlement(A, live, e, p, d)
             = MulDiv(p.weight, live, RAY) - Charged(A, p, d)
<1> DEFINE x == Accrual(A, e, p, d)
           w == p.weight
           k == Charged(A, p, d)
           gross == MulDiv(w, live, RAY)
           debt == IF x.debt = DEBT_UNINITIALISED THEN OpeningDebt(w, A, p) ELSE x.debt
<1>1. /\ x.owed \in Nat /\ x.debt \in DebtType
      /\ HasClosedEpoch(e, p) => x.debt \in Nat /\ x.owed = x.debt - k
                                 /\ RAY * x.debt <= w * Reach(A, e, p)
      /\ ~ HasClosedEpoch(e, p) => x.owed = 0 /\ x.debt = d
  BY AccrualFacts
<1>2. Reach(A, e, p) = live /\ live \in Nat /\ w \in Nat
  BY ReachFacts, PositionParts
<1>3. k \in Nat /\ RAY * k <= w * live
  BY <1>2, ChargeFacts
<1>4. gross \in Nat
  BY <1>2, MulDivBounds
<1>5. Settlement(A, live, e, p, d) = x.owed + SaturatingSub(gross, debt)
  BY DEF Settlement
<1>6. debt \in Nat /\ RAY * debt <= w * live /\ x.owed = debt - k
  <2>1. CASE HasClosedEpoch(e, p)
    <3>1. x.debt # DEBT_UNINITIALISED
      BY <1>1, <2>1 DEF DEBT_UNINITIALISED
    <3> HIDE DEF x
    <3> QED BY <1>1, <1>2, <2>1, <3>1
  <2>2. CASE ~ HasClosedEpoch(e, p)
    <3>1. debt = k
      BY <1>1, <2>2 DEF Charged
    <3> HIDE DEF debt, k, x
    <3> QED BY <1>1, <1>3, <2>2, <3>1
  <2> QED BY <2>1, <2>2
<1> HIDE DEF debt, k, x, w
<1>7. debt <= gross
  BY <1>2, <1>6, QuotientFits DEF gross
<1> HIDE DEF gross
<1>8. Settlement(A, live, e, p, d) = gross - k
  BY <1>1, <1>3, <1>4, <1>5, <1>6, <1>7 DEF SaturatingSub
<1> QED BY <1>8 DEF gross, k, w

\* An extension of an active position lowers the marks by what it pays, up to a unit of
\* rounding and the weight that the elapsed epochs had and no longer have.
LEMMA RebaseMarks ==
  ASSUME NEW A, NEW live, NEW e, Indices(A, live, e), NEW p, IsPosition(p),
         NEW d, DebtFits(A, e, p, d), p.amount # 0, Started(e, p), e < p.unlockEpoch,
         NEW q, IsExtended(p, q), q.amount # 0
  PROVE  LET paid == Settlement(A, live, e, p, d)
             y == MulDiv(q.weight, live, RAY)
             gone == SaturatingSub(p.weight, q.weight) * (e - p.activationEpoch + 1)
         IN  /\ DebtFits(A, e, q, y) /\ ClosedLate(e, q) /\ paid \in Nat
             /\ LowMark(A, e, q, y) <= LowMark(A, e, p, d) - RAY * paid + RAY
             /\ HighMark(A, e, q, y) >= HighMark(A, e, p, d) - RAY * paid - (RAY - 1) - gone
<1> DEFINE paid == Settlement(A, live, e, p, d)
           w == p.weight
           v == q.weight
           y == MulDiv(v, live, RAY)
           g == MulDiv(w, live, RAY)
           k == Charged(A, p, d)
           n == e - p.activationEpoch + 1
           lost == SaturatingSub(w, v)
<1>1. /\ live \in Nat /\ w \in Nat /\ v \in Nat /\ v # 0 /\ Reach(A, e, p) = live
      /\ IsPosition(q) /\ q.activationEpoch = p.activationEpoch /\ e < q.unlockEpoch
      /\ e \in Nat /\ n \in Nat /\ p.unlockEpoch \in Nat /\ q.unlockEpoch \in Nat
  BY ReachFacts, PositionParts DEF IsExtended, Started
<1>2. Reach(A, e, q) = live
  BY <1>1, ReachFacts
<1>3. paid = g - k
  BY SettlementFacts
<1>4. k \in Nat /\ RAY * k <= w * live
  BY <1>1, ChargeFacts
<1>5. /\ g \in Nat /\ RAY * g <= w * live /\ w * live <= RAY * g + RAY - 1
      /\ y \in Nat /\ RAY * y <= v * live /\ v * live <= RAY * y + RAY - 1
  BY <1>1, MulDivBounds
<1>6. k <= g
  <2> HIDE DEF k, g, w
  <2> QED BY <1>1, <1>4, QuotientFits DEF g
<1>7. EpochsActive(e, p) = n /\ EpochsActive(e, q) = n
  BY <1>1, PositionParts DEF EpochsActive, MinOf, Started
<1>8. Started(e, q) /\ ClosedLate(e, q)
  BY <1>1 DEF Started, ClosedLate
<1>9. DebtFits(A, e, q, y)
  <2> HIDE DEF y
  <2> QED BY <1>2, <1>5, <1>8 DEF DebtFits, DebtType
<1>10. Charged(A, q, y) = y
  BY <1>5 DEF Charged, DEBT_UNINITIALISED
<1> DEFINE X == w * live
           Y == v * live
           G == RAY * g
           K == RAY * k
           Z == RAY * y
           P == RAY * paid
           M == w * n
           N == v * n
           L == lost * n
<1> HIDE DEF w, v, k, g, y, n, paid, lost
<1>11. /\ X \in Nat /\ Y \in Nat /\ G \in Nat /\ K \in Nat /\ Z \in Nat /\ M \in Nat /\ N \in Nat
       /\ G <= X /\ X <= G + RAY - 1 /\ K <= X /\ Z <= Y /\ Y <= Z + RAY - 1
  BY <1>1, <1>4, <1>5, RayAssumption, ProductIsNat
<1>12. P = G - K /\ paid \in Nat
  <2>1. paid \in Nat /\ g = paid + k
    BY <1>3, <1>4, <1>5, <1>6
  <2>2. RAY * g = RAY * paid + RAY * k
    BY <1>4, <2>1, RayAssumption, ProductOfSum
  <2>3. RAY * paid \in Nat
    BY <2>1, RayAssumption, ProductIsNat
  <2> QED BY <1>11, <2>1, <2>2, <2>3
<1>13. N >= M - L /\ L \in Nat
  <2>1. lost \in Nat /\ w <= v + lost
    BY <1>1 DEF lost, SaturatingSub
  <2>2. n * w <= n * (v + lost)
    BY <1>1, <2>1, ProductIsMonotone
  <2>3. n * (v + lost) = n * v + n * lost /\ n * w = M /\ n * v = N /\ n * lost = L
    BY <1>1, <2>1, ProductOfSum
  <2>4. L \in Nat
    BY <1>1, <2>1, ProductIsNat
  <2> QED BY <1>11, <2>2, <2>3, <2>4
<1>14. /\ LowMark(A, e, p, d) = X - K - (RAY - 1) /\ HighMark(A, e, p, d) = (X - K) + M
  BY <1>1, <1>7 DEF LowMark, HighMark, Unpaid, w, k
<1>15. /\ LowMark(A, e, q, y) = Y - Z - (RAY - 1) /\ HighMark(A, e, q, y) = (Y - Z) + N
  BY <1>2, <1>7, <1>8, <1>10 DEF LowMark, HighMark, Unpaid, v
<1> HIDE DEF X, Y, G, K, Z, P, M, N, L
<1>16. /\ LowMark(A, e, q, y) <= LowMark(A, e, p, d) - P + RAY
       /\ HighMark(A, e, q, y) >= HighMark(A, e, p, d) - P - (RAY - 1) - L
  BY <1>11, <1>12, <1>13, <1>14, <1>15, RayAssumption
<1> QED BY <1>8, <1>9, <1>12, <1>16 DEF y, v, paid, P, L, lost, n, w

\* A position that has not started has earned nothing.
LEMMA IdleMarks ==
  ASSUME NEW A, NEW e \in Nat, NEW p, IsPosition(p), p.amount # 0, e < p.activationEpoch
  PROVE  /\ DebtFits(A, e, p, DEBT_UNINITIALISED) /\ ClosedLate(e, p)
         /\ \A d : LowMark(A, e, p, d) = 0 /\ HighMark(A, e, p, d) = 0
<1>1. ~ Started(e, p) /\ p.weight \in Nat /\ EpochsActive(e, p) = 0
  BY PositionParts DEF Started, EpochsActive
<1>2. p.weight * 0 = 0
  BY <1>1
<1> QED BY <1>1, <1>2
        DEF LowMark, HighMark, Unpaid, DebtFits, ClosedLate, DebtType

--------------------------------------------------------------------------------
(* All positions.  D holds their debts, F the funds distributed and not yet claimed *)
(* and r the auxiliary record of the extensions of active positions.                *)

LowMarks(A, e, ps, D) == [i \in 1 .. Len(ps) |-> LowMark(A, e, ps[i], D[i])]
HighMarks(A, e, ps, D) == [i \in 1 .. Len(ps) |-> HighMark(A, e, ps[i], D[i])]

DebtsFit(A, e, ps, D) ==
    \A i \in 1 .. Len(ps) : DebtFits(A, e, ps[i], D[i]) /\ ClosedLate(e, ps[i])
Backed(A, e, ps, D, F, r) ==
    /\ SumTo(LowMarks(A, e, ps, D), Len(ps)) <= RAY * (F + r.count)
    /\ RAY * F <= SumTo(HighMarks(A, e, ps, D), Len(ps)) + (RAY - 1) * r.count + r.shed

\* One asset's part of the inductive invariant.
Sharing(A, live, e, ps, D, F, r) ==
    /\ Indices(A, live, e) /\ F \in Int /\ r \in RebasesType
    /\ DebtsFit(A, e, ps, D) /\ Backed(A, e, ps, D, F, r)

LEMMA MarkFamilies ==
  ASSUME NEW A, NEW live, NEW e, Indices(A, live, e), NEW ps, IsPositions(ps),
         NEW D, DebtsFit(A, e, ps, D)
  PROVE  /\ Len(ps) \in Nat /\ \A i \in 1 .. Len(ps) : IsPosition(ps[i])
         /\ IsFamily(LowMarks(A, e, ps, D), Len(ps))
         /\ IsFamily(HighMarks(A, e, ps, D), Len(ps))
<1>1. Len(ps) \in Nat /\ \A i \in 1 .. Len(ps) : IsPosition(ps[i])
  BY PositionFacts DEF IsPosition
<1>2. \A i \in 1 .. Len(ps) : /\ LowMark(A, e, ps[i], D[i]) \in Int
                              /\ HighMark(A, e, ps[i], D[i]) \in Int
  BY <1>1, MarkTypes DEF DebtsFit
<1> QED BY <1>1, <1>2 DEF IsFamily, LowMarks, HighMarks

\* How a sum follows the members of a family: f up to a multiple of h.
LEMMA SumFollows ==
  ASSUME NEW N, NEW f, NEW g, NEW h, IsFamily(f, N), IsFamily(g, N), IsFamily(h, N),
         NEW k \in Int
  PROVE  /\ (\A i \in 1 .. N : g[i] <= f[i] + k * h[i])
                => SumTo(g, N) <= SumTo(f, N) + k * SumTo(h, N)
         /\ (\A i \in 1 .. N : g[i] >= f[i] + k * h[i])
                => SumTo(g, N) >= SumTo(f, N) + k * SumTo(h, N)
<1> DEFINE kh == [i \in 1 .. N |-> k * h[i]]
           t == [i \in 1 .. N |-> f[i] + kh[i]]
<1>1. /\ N \in Nat
      /\ \A i \in 1 .. N : f[i] \in Int /\ g[i] \in Int /\ h[i] \in Int
  BY DEF IsFamily
<1>2. \A i \in 1 .. N : kh[i] = k * h[i] /\ t[i] = f[i] + kh[i] /\ t[i] = f[i] + k * h[i]
  OBVIOUS
<1> HIDE DEF kh, t
<1>3. IsFamily(kh, N) /\ SumTo(kh, N) = k * SumTo(h, N)
  BY <1>2, SumOfScaled
<1>4. IsFamily(t, N)
  BY <1>1, <1>2, <1>3 DEF IsFamily
<1>5. SumTo(t, N) = SumTo(f, N) + SumTo(kh, N)
  BY <1>2, <1>3, <1>4, SumOfSum
<1>6. (\A i \in 1 .. N : g[i] <= f[i] + k * h[i]) => SumTo(g, N) <= SumTo(t, N)
  BY <1>2, <1>4, SumIsMonotone
<1>7. (\A i \in 1 .. N : g[i] >= f[i] + k * h[i]) => SumTo(t, N) <= SumTo(g, N)
  <2>1. SUFFICES ASSUME \A i \in 1 .. N : g[i] >= f[i] + k * h[i]
                 PROVE  \A i \in 1 .. N : t[i] <= g[i]
    BY <1>4, SumIsMonotone
  <2>2. \A i \in 1 .. N : t[i] \in Int
    BY <1>4 DEF IsFamily
  <2> QED BY <1>1, <1>2, <2>1, <2>2
<1>8. SumTo(g, N) \in Int /\ SumTo(t, N) \in Int
  BY <1>4, SumIsInt
<1> QED BY <1>3, <1>5, <1>6, <1>7, <1>8

LEMMA IndicesRise ==
  ASSUME NEW A, NEW live, NEW e, Indices(A, live, e), e + 1 \in Epochs, NEW rise \in Nat,
         NEW B, B = Noted(A, e + 1, live + rise)
  PROVE  /\ Indices(B, live + rise, e + 1)
         /\ \A x \in Epochs : x <= e => B[x] = A[x]
<1> DEFINE n == e + 1
           top == live + rise
<1>1. /\ A \in [Epochs -> Nat] /\ e \in Epochs /\ A[e] = live /\ e \in Nat /\ n \in Epochs
      /\ n \in Nat /\ \A x \in Epochs : x \in Nat
      /\ \A x, y \in Epochs : x <= y /\ y <= e => A[x] <= A[y]
  BY EngineAssumption DEF Indices, Epochs
<1>2. live \in Nat /\ top \in Nat
  BY <1>1
<1>3. /\ B \in [Epochs -> Nat] /\ B[n] = top
      /\ \A x \in Epochs : x # n => B[x] = A[x]
  BY <1>1, <1>2 DEF Noted
<1>4. \A x \in Epochs : x <= e => B[x] = A[x]
  BY <1>1, <1>3
<1>5. ASSUME NEW x \in Epochs, NEW y \in Epochs, x <= y, y <= n
      PROVE  B[x] <= B[y]
  <2>1. A[x] \in Nat /\ A[y] \in Nat /\ x \in Nat /\ y \in Nat
    BY <1>1
  <2>2. CASE y <= e
    <3>1. x <= e
      BY <1>1, <1>5, <2>1, <2>2
    <3> QED BY <1>1, <1>4, <1>5, <2>2, <3>1
  <2>3. CASE ~ (y <= e)
    <3>1. y = n
      BY <1>1, <1>5, <2>1, <2>3
    <3>2. CASE x = n
      BY <1>2, <1>3, <3>1, <3>2
    <3>3. CASE x # n
      <4>1. x <= e
        BY <1>1, <1>5, <2>1, <3>1, <3>3
      <4>2. A[x] <= A[e] /\ B[x] = A[x]
        <5>1. e <= e
          BY <1>1
        <5> QED BY <1>1, <1>4, <4>1, <5>1
      <4> HIDE DEF n
      <4> QED BY <1>1, <1>2, <1>3, <2>1, <3>1, <4>2
    <3> QED BY <3>2, <3>3
  <2> QED BY <2>2, <2>3
<1> QED BY <1>1, <1>2, <1>3, <1>4, <1>5 DEF Indices

\* An epoch's distribution goes to the active weight: what the index gives each position
\* is what was distributed, rounded down by less than one RAY-th of a unit of weight.
LEMMA SharingOfEpoch ==
  ASSUME NEW A, NEW live, NEW e, NEW ps, IsPositions(ps), NEW D, NEW F, NEW r,
         Sharing(A, live, e, ps, D, F, r), e + 1 \in Epochs,
         NEW rise \in Nat, NEW B, B = Noted(A, e + 1, live + rise),
         NEW gained \in Nat,
         rise * ActiveWeight(ps, e + 1) <= RAY * gained,
         RAY * gained <= (rise + 1) * ActiveWeight(ps, e + 1)
  PROVE  Sharing(B, live + rise, e + 1, ps, D, F + gained, r)
<1> DEFINE n == Len(ps)
           next == e + 1
           top == live + rise
           w == [i \in DOMAIN ps |-> When(IsActive(ps[i], next), ps[i].weight)]
           W == ActiveWeight(ps, next)
           fl == LowMarks(A, e, ps, D)
           gl == LowMarks(B, next, ps, D)
           fh == HighMarks(A, e, ps, D)
           gh == HighMarks(B, next, ps, D)
<1>1. /\ Indices(A, live, e) /\ F \in Int /\ r.count \in Nat /\ r.shed \in Nat
      /\ DebtsFit(A, e, ps, D) /\ Backed(A, e, ps, D, F, r)
  BY DEF Sharing, RebasesType
<1>2. Indices(B, top, next) /\ \A x \in Epochs : x <= e => B[x] = A[x]
  <2> HIDE DEF next, top
  <2>1. Indices(B, live + rise, e + 1) /\ \A x \in Epochs : x <= e => B[x] = A[x]
    BY <1>1, IndicesRise
  <2> QED BY <2>1 DEF next, top
<1>3. n \in Nat /\ DOMAIN ps = 1 .. n /\ \A i \in 1 .. n : IsPosition(ps[i])
  BY PositionFacts DEF IsPosition
<1>4. \A i \in 1 .. n :
          /\ DebtFits(B, next, ps[i], D[i]) /\ ClosedLate(next, ps[i])
          /\ gl[i] <= fl[i] + rise * w[i] /\ gh[i] >= fh[i] + (rise + 1) * w[i]
  <2>1. SUFFICES ASSUME NEW i \in 1 .. n
                 PROVE  /\ DebtFits(B, next, ps[i], D[i]) /\ ClosedLate(next, ps[i])
                        /\ gl[i] <= fl[i] + rise * w[i] /\ gh[i] >= fh[i] + (rise + 1) * w[i]
    OBVIOUS
  <2>2. DebtFits(A, e, ps[i], D[i]) /\ ClosedLate(e, ps[i]) /\ IsPosition(ps[i])
    BY <1>1, <1>3 DEF DebtsFit
  <2> DEFINE v == When(IsActive(ps[i], next), ps[i].weight)
  <2>3. /\ DebtFits(B, next, ps[i], D[i]) /\ ClosedLate(next, ps[i])
        /\ LowMark(B, next, ps[i], D[i]) <= LowMark(A, e, ps[i], D[i]) + rise * v
        /\ HighMark(B, next, ps[i], D[i]) >= HighMark(A, e, ps[i], D[i]) + (rise + 1) * v
    BY <1>1, <1>2, <2>2, EpochMarks
  <2>4. /\ w[i] = v /\ gl[i] = LowMark(B, next, ps[i], D[i])
        /\ fl[i] = LowMark(A, e, ps[i], D[i]) /\ gh[i] = HighMark(B, next, ps[i], D[i])
        /\ fh[i] = HighMark(A, e, ps[i], D[i])
    BY <1>3 DEF LowMarks, HighMarks
  <2> HIDE DEF w, v, gl, fl, gh, fh
  <2> QED BY <2>3, <2>4
<1>5. DebtsFit(B, next, ps, D)
  BY <1>4 DEF DebtsFit
<1>6. IsFamily(fl, n) /\ IsFamily(gl, n) /\ IsFamily(fh, n) /\ IsFamily(gh, n)
  BY <1>1, <1>2, <1>5, MarkFamilies
<1>7. W = SumTo(w, n) /\ IsFamily(w, n)
  <2>1. \A i \in 1 .. n : w[i] \in Int
    BY <1>3, PositionParts DEF When
  <2> QED BY <1>3, <2>1 DEF ActiveWeight, IsFamily
<1> HIDE DEF n, next, top, w, W, fl, gl, fh, gh
<1>8. SumTo(gl, n) <= SumTo(fl, n) + rise * W /\ SumTo(gh, n) >= SumTo(fh, n) + (rise + 1) * W
  <2>1. rise \in Int /\ rise + 1 \in Int
    OBVIOUS
  <2>2. SumTo(gl, n) <= SumTo(fl, n) + rise * SumTo(w, n)
    BY <1>4, <1>6, <1>7, <2>1, SumFollows
  <2> DEFINE k == rise + 1
  <2>3. \A i \in 1 .. n : gh[i] >= fh[i] + k * w[i]
    BY <1>4
  <2> HIDE DEF k
  <2>4. SumTo(gh, n) >= SumTo(fh, n) + k * SumTo(w, n)
    BY <1>6, <1>7, <2>1, <2>3, SumFollows DEF k
  <2> QED BY <1>7, <2>2, <2>4 DEF k
<1>9. /\ SumTo(gl, n) \in Int /\ SumTo(fl, n) \in Int /\ SumTo(gh, n) \in Int
      /\ SumTo(fh, n) \in Int /\ W \in Int
  BY <1>6, <1>7, SumIsInt
<1>10. /\ SumTo(fl, n) <= RAY * (F + r.count)
       /\ RAY * F <= SumTo(fh, n) + (RAY - 1) * r.count + r.shed
  BY <1>1 DEF Backed, fl, fh, n
<1>11. rise * W <= RAY * gained /\ RAY * gained <= (rise + 1) * W
  BY DEF W, next
<1> DEFINE c == F + r.count
           X == RAY * gained
           Y == RAY * F
           Z == RAY * c
           low == rise * W
           high == (rise + 1) * W
           P == (RAY - 1) * r.count
<1>12. /\ X \in Int /\ Y \in Int /\ Z \in Int /\ low \in Int /\ high \in Int /\ P \in Int
       /\ RAY * (F + gained) = Y + X /\ RAY * (F + gained + r.count) = Z + X
  BY <1>1, <1>9, RayAssumption
<1> HIDE DEF c, X, Y, Z, low, high, P
<1>13. Backed(B, next, ps, D, F + gained, r)
  <2>1. SumTo(gl, n) <= Z + X
    BY <1>8, <1>9, <1>10, <1>11, <1>12 DEF c, X, Z, low
  <2>2. Y + X <= SumTo(gh, n) + P + r.shed
    BY <1>1, <1>8, <1>9, <1>10, <1>11, <1>12 DEF X, Y, high, P
  <2> QED BY <1>12, <2>1, <2>2 DEF Backed, gl, gh, n, P
<1> QED BY <1>1, <1>2, <1>5, <1>13 DEF Sharing, top, next

\* Payments to some positions lower the funds by as much as they lower the marks.
LEMMA SharingOfPayments ==
  ASSUME NEW A, NEW live, NEW e, NEW ps, IsPositions(ps), NEW D, NEW F, NEW r,
         Sharing(A, live, e, ps, D, F, r),
         NEW qs, IsPositions(qs), Len(qs) = Len(ps), NEW E, DebtsFit(A, e, qs, E),
         NEW paid, IsFamily(paid, Len(ps)),
         \A i \in 1 .. Len(ps) :
            /\ LowMark(A, e, qs[i], E[i]) <= LowMark(A, e, ps[i], D[i]) - RAY * paid[i]
            /\ HighMark(A, e, qs[i], E[i]) >= HighMark(A, e, ps[i], D[i]) - RAY * paid[i]
  PROVE  Sharing(A, live, e, qs, E, F - SumTo(paid, Len(ps)), r)
<1> DEFINE n == Len(ps)
           fl == LowMarks(A, e, ps, D)
           gl == LowMarks(A, e, qs, E)
           fh == HighMarks(A, e, ps, D)
           gh == HighMarks(A, e, qs, E)
           k == 0 - RAY
           S == SumTo(paid, n)
<1>1. /\ Indices(A, live, e) /\ F \in Int /\ r.count \in Nat /\ r.shed \in Nat
      /\ DebtsFit(A, e, ps, D) /\ Backed(A, e, ps, D, F, r)
  BY DEF Sharing, RebasesType
<1>2. IsFamily(fl, n) /\ IsFamily(gl, n) /\ IsFamily(fh, n) /\ IsFamily(gh, n) /\ n \in Nat
  BY <1>1, MarkFamilies
<1>3. RAY \in Nat /\ k \in Int
  BY RayAssumption
<1>4. \A i \in 1 .. n : gl[i] <= fl[i] + k * paid[i] /\ gh[i] >= fh[i] + k * paid[i]
  <2>1. SUFFICES ASSUME NEW i \in 1 .. n
                 PROVE  gl[i] <= fl[i] + k * paid[i] /\ gh[i] >= fh[i] + k * paid[i]
    OBVIOUS
  <2>2. /\ gl[i] = LowMark(A, e, qs[i], E[i]) /\ fl[i] = LowMark(A, e, ps[i], D[i])
        /\ gh[i] = HighMark(A, e, qs[i], E[i]) /\ fh[i] = HighMark(A, e, ps[i], D[i])
    BY DEF LowMarks, HighMarks
  <2>3. /\ gl[i] \in Int /\ fl[i] \in Int /\ gh[i] \in Int /\ fh[i] \in Int /\ paid[i] \in Int
    BY <1>2 DEF IsFamily
  <2>4. gl[i] <= fl[i] - RAY * paid[i] /\ gh[i] >= fh[i] - RAY * paid[i]
    BY <2>2
  <2> HIDE DEF gl, fl, gh, fh
  <2>5. k = 0 - RAY /\ RAY \in Int
    BY <1>3
  <2> HIDE DEF k
  <2>6. k * paid[i] = 0 - RAY * paid[i] /\ RAY * paid[i] \in Int
    BY <2>3, <2>5, NegatedProduct
  <2> DEFINE K == k * paid[i]
             X == RAY * paid[i]
  <2>7. K = 0 - X /\ X \in Int /\ gl[i] <= fl[i] - X /\ gh[i] >= fh[i] - X
    BY <2>4, <2>6
  <2> HIDE DEF K, X
  <2>8. gl[i] <= fl[i] + K /\ gh[i] >= fh[i] + K
    BY <2>3, <2>7
  <2> QED BY <2>8 DEF K
<1> HIDE DEF n, fl, gl, fh, gh, k, S
<1>5. IsFamily(paid, n)
  BY DEF n
<1>6. SumTo(gl, n) <= SumTo(fl, n) + k * S /\ SumTo(gh, n) >= SumTo(fh, n) + k * S
  BY <1>2, <1>3, <1>4, <1>5, SumFollows DEF S
<1>7. /\ SumTo(gl, n) \in Int /\ SumTo(fl, n) \in Int /\ SumTo(gh, n) \in Int
      /\ SumTo(fh, n) \in Int /\ S \in Int
  BY <1>2, <1>5, SumIsInt DEF S
<1>8. /\ SumTo(fl, n) <= RAY * (F + r.count)
      /\ RAY * F <= SumTo(fh, n) + (RAY - 1) * r.count + r.shed
  BY <1>1 DEF Backed, fl, fh, n
<1> DEFINE c == F + r.count
           X == RAY * S
           Y == RAY * F
           Z == RAY * c
           P == (RAY - 1) * r.count
           KS == k * S
<1>9. /\ X \in Int /\ Y \in Int /\ Z \in Int /\ P \in Int /\ KS = 0 - X
      /\ RAY * (F - S) = Y - X /\ RAY * (F - S + r.count) = Z - X
  <2>1. RAY \in Int /\ c \in Int /\ S \in Int /\ F \in Int /\ r.count \in Int
        /\ k = 0 - RAY /\ RAY - 1 \in Int /\ c - S = F - S + r.count
    BY <1>1, <1>3, <1>7 DEF k
  <2>2. P \in Int
    BY <2>1
  <2> HIDE DEF c
  <2>3. KS = 0 - X /\ X \in Int
    BY <2>1, NegatedProduct
  <2>4. RAY * (F - S) = Y - X /\ Y \in Int
    BY <2>1, ProductOfDifference
  <2>5. RAY * (c - S) = Z - X /\ Z \in Int
    BY <2>1, ProductOfDifference
  <2> HIDE DEF X, Y, Z, P, KS
  <2> QED BY <2>1, <2>2, <2>3, <2>4, <2>5
<1> HIDE DEF c, X, Y, Z, P, KS
<1>10. Backed(A, e, qs, E, F - S, r)
  <2>1. /\ SumTo(gl, n) <= SumTo(fl, n) + KS /\ SumTo(gh, n) >= SumTo(fh, n) + KS
        /\ SumTo(fl, n) <= Z /\ Y <= SumTo(fh, n) + P + r.shed
    BY <1>6, <1>8 DEF c, Y, Z, P, KS
  <2>2. SumTo(gl, n) <= Z - X
    BY <1>7, <1>9, <2>1
  <2>3. Y - X <= SumTo(gh, n) + P + r.shed
    <3> DEFINE u == SumTo(fh, n)
               w == SumTo(gh, n)
               d == r.shed
    <3>1. /\ d \in Int /\ Y \in Int /\ X \in Int /\ P \in Int /\ KS = 0 - X
          /\ u \in Int /\ w \in Int
      BY <1>1, <1>7, <1>9
    <3>2. w >= u + KS /\ Y <= u + P + d
      BY <2>1
    <3> HIDE DEF u, w, d
    <3>3. u - X <= w
      BY <3>1, <3>2
    <3>4. Y - X <= (u - X) + (P + d)
      BY <3>1, <3>2
    <3>5. Y - X <= w + P + d
      BY <3>1, <3>3, <3>4
    <3> QED BY <3>5 DEF w, d
  <2> QED BY <1>9, <2>2, <2>3 DEF Backed, gl, gh, n, P
<1> QED BY <1>1, <1>7, <1>10 DEF Sharing, S, n

\* What a position is worth depends on its amount, its times, its weight and its debt.
SameWorth(p, q) == q.amount = p.amount /\ SameEarning(p, q)

LEMMA SharingStands ==
  ASSUME NEW A, NEW live, NEW e, NEW ps, IsPositions(ps), NEW D, NEW F, NEW r,
         Sharing(A, live, e, ps, D, F, r),
         NEW qs, IsPositions(qs), Len(qs) = Len(ps),
         \A i \in 1 .. Len(ps) : SameWorth(ps[i], qs[i])
  PROVE  Sharing(A, live, e, qs, D, F, r)
<1>1. \A i \in 1 .. Len(ps) :
          /\ LowMark(A, e, qs[i], D[i]) = LowMark(A, e, ps[i], D[i])
          /\ HighMark(A, e, qs[i], D[i]) = HighMark(A, e, ps[i], D[i])
          /\ DebtFits(A, e, ps[i], D[i]) => DebtFits(A, e, qs[i], D[i])
          /\ ClosedLate(e, ps[i]) => ClosedLate(e, qs[i])
  BY DEF SameWorth, SameEarning, LowMark, HighMark, Unpaid, Started, Reach, Charged, OpeningDebt,
         EpochsActive, DebtFits, ClosedLate
<1>2. LowMarks(A, e, qs, D) = LowMarks(A, e, ps, D) /\ HighMarks(A, e, qs, D) = HighMarks(A, e, ps, D)
  BY <1>1 DEF LowMarks, HighMarks
<1>3. DebtsFit(A, e, qs, D)
  BY <1>1 DEF Sharing, DebtsFit
<1> QED BY <1>2, <1>3 DEF Sharing, Backed

LEMMA RebaseArithmetic ==
  ASSUME NEW gs \in Int, NEW fs \in Int, NEW hs \in Int, NEW ks \in Int, NEW a \in Int,
         NEW b \in Int, NEW u \in Int, NEW v \in Int, NEW ray \in Int, NEW shed \in Int,
         NEW gone \in Int, NEW X \in Int, NEW Y \in Int, NEW Z \in Int, NEW P \in Int,
         gs = fs + a - b, hs = ks + u - v, fs <= Z, a <= b - X + ray,
         Y <= ks + P + shed, u >= v - X - (ray - 1) - gone
  PROVE  gs <= Z - X + ray /\ Y - X <= hs + (P + (ray - 1)) + (shed + gone)
OBVIOUS

\* An extension of an active position, recorded in r.
LEMMA SharingOfRebase ==
  ASSUME NEW A, NEW live, NEW e, NEW ps, IsPositions(ps), NEW D, NEW F, NEW r,
         Sharing(A, live, e, ps, D, F, r),
         NEW qs, NEW i, DiffersAt(ps, qs, i), IsExtended(ps[i], qs[i]),
         ps[i].amount # 0, Started(e, ps[i]), e < ps[i].unlockEpoch,
         NEW E, \A j \in 1 .. Len(ps) : j # i => E[j] = D[j],
         E[i] = MulDiv(qs[i].weight, live, RAY),
         NEW s, s.count = r.count + 1,
         s.shed = r.shed + SaturatingSub(ps[i].weight, qs[i].weight)
                               * (e - ps[i].activationEpoch + 1),
         s \in RebasesType
  PROVE  Sharing(A, live, e, qs, E, F - Settlement(A, live, e, ps[i], D[i]), s)
<1> DEFINE n == Len(ps)
           p == ps[i]
           q == qs[i]
           d == D[i]
           y == MulDiv(q.weight, live, RAY)
           paid == Settlement(A, live, e, p, d)
           gone == SaturatingSub(p.weight, q.weight) * (e - p.activationEpoch + 1)
           fl == LowMarks(A, e, ps, D)
           gl == LowMarks(A, e, qs, E)
           fh == HighMarks(A, e, ps, D)
           gh == HighMarks(A, e, qs, E)
<1>1. /\ Indices(A, live, e) /\ F \in Int /\ r.count \in Nat /\ r.shed \in Nat
      /\ DebtsFit(A, e, ps, D) /\ Backed(A, e, ps, D, F, r)
  BY DEF Sharing, RebasesType
<1>2. /\ IsPositions(qs) /\ Len(qs) = n /\ i \in 1 .. n /\ \A j \in 1 .. n : j # i => qs[j] = ps[j]
  BY DEF DiffersAt
<1>3. /\ DebtFits(A, e, q, y) /\ ClosedLate(e, q) /\ paid \in Nat
      /\ LowMark(A, e, q, y) <= LowMark(A, e, p, d) - RAY * paid + RAY
      /\ HighMark(A, e, q, y) >= HighMark(A, e, p, d) - RAY * paid - (RAY - 1) - gone
  <2>1. DebtFits(A, e, p, d) /\ IsPosition(p) /\ q.amount # 0
    BY <1>1, <1>2 DEF DebtsFit, IsExtended
  <2>2. Started(e, p) /\ e < p.unlockEpoch /\ p.amount # 0 /\ IsExtended(p, q)
    OBVIOUS
  <2> HIDE DEF p, q, d
  <2> QED BY <1>1, <2>1, <2>2, RebaseMarks
<1>4. DebtsFit(A, e, qs, E)
  BY <1>1, <1>2, <1>3 DEF DebtsFit
<1>5. IsFamily(fl, n) /\ IsFamily(gl, n) /\ IsFamily(fh, n) /\ IsFamily(gh, n) /\ n \in Nat
  BY <1>1, <1>2, <1>4, MarkFamilies
<1>6. /\ \A j \in 1 .. n : j # i => gl[j] = fl[j] /\ gh[j] = fh[j]
      /\ gl[i] = LowMark(A, e, q, y) /\ fl[i] = LowMark(A, e, p, d)
      /\ gh[i] = HighMark(A, e, q, y) /\ fh[i] = HighMark(A, e, p, d)
  BY <1>2 DEF LowMarks, HighMarks
<1>7. /\ s.count = r.count + 1 /\ s.shed = r.shed + gone /\ s.shed \in Nat
  BY DEF RebasesType
<1> HIDE DEF n, p, q, d, y, paid, gone, fl, gl, fh, gh
<1>8. /\ SumTo(gl, n) = SumTo(fl, n) + gl[i] - fl[i]
      /\ SumTo(gh, n) = SumTo(fh, n) + gh[i] - fh[i]
  BY <1>2, <1>5, <1>6, SumOfUpdate
<1>9. /\ SumTo(gl, n) \in Int /\ SumTo(fl, n) \in Int /\ SumTo(gh, n) \in Int
      /\ SumTo(fh, n) \in Int /\ gl[i] \in Int /\ fl[i] \in Int /\ gh[i] \in Int /\ fh[i] \in Int
  BY <1>2, <1>5, SumIsInt DEF IsFamily
<1>10. /\ SumTo(fl, n) <= RAY * (F + r.count)
       /\ RAY * F <= SumTo(fh, n) + (RAY - 1) * r.count + r.shed
  BY <1>1 DEF Backed, fl, fh, n
<1> DEFINE c == F + r.count
           X == RAY * paid
           Y == RAY * F
           Z == RAY * c
           P == (RAY - 1) * r.count
           c2 == F - paid + s.count
           Y2 == RAY * (F - paid)
           Z2 == RAY * c2
           P2 == (RAY - 1) * s.count
<1>11. /\ X \in Int /\ Y \in Int /\ Z \in Int /\ P \in Int
       /\ Y2 = Y - X /\ Z2 = Z - X + RAY /\ P2 = P + (RAY - 1)
  <2>0. RAY \in Int /\ F \in Int /\ r.count \in Int /\ paid \in Int /\ s.count = r.count + 1
    BY <1>1, <1>3, <1>7, RayAssumption
  <2>1. RAY \in Int /\ c \in Int /\ F \in Int /\ r.count \in Int /\ paid \in Int
        /\ RAY - 1 \in Int /\ c2 = (c - paid) + 1 /\ c - paid \in Int /\ s.count = r.count + 1
    BY <2>0
  <2>2. P \in Int
    BY <2>1
  <2>3. P2 = P + (RAY - 1) * 1
    BY <2>1, ProductOfSum
  <2>6. (RAY - 1) * 1 = RAY - 1 /\ RAY * 1 = RAY
    BY <2>1
  <2> HIDE DEF c, c2, P, P2
  <2>4. Y2 = Y - X /\ X \in Int /\ Y \in Int
    BY <2>1, ProductOfDifference
  <2>5. Z2 = RAY * (c - paid) + RAY * 1 /\ RAY * (c - paid) = Z - X /\ Z \in Int
    BY <2>1, ProductOfSum, ProductOfDifference
  <2> HIDE DEF X, Y, Z, Y2, Z2
  <2> QED BY <2>1, <2>2, <2>3, <2>4, <2>5, <2>6
<1>12. /\ SumTo(fl, n) <= Z /\ Y <= SumTo(fh, n) + P + r.shed
       /\ gl[i] <= fl[i] - X + RAY /\ gh[i] >= fh[i] - X - (RAY - 1) - gone
  BY <1>3, <1>6, <1>10
<1>13. gone \in Nat
  <2>1. /\ p.weight \in Nat /\ q.weight \in Nat /\ p.activationEpoch \in Nat /\ e \in Nat
        /\ p.activationEpoch <= e
    <3>1. IsPosition(ps[i]) /\ IsPosition(qs[i])
      BY DEF IsExtended
    <3>2. e \in Nat
      BY <1>1, EngineAssumption DEF Indices, Epochs
    <3> QED BY <3>1, <3>2, PositionParts DEF Started, p, q
  <2>2. SaturatingSub(p.weight, q.weight) \in Nat /\ e - p.activationEpoch + 1 \in Nat
    BY <2>1 DEF SaturatingSub
  <2> QED BY <2>2, ProductIsNat DEF gone
<1> HIDE DEF c, X, Y, Z, P, c2, Y2, Z2, P2
<1>18. X \in Int /\ Y \in Int /\ Z \in Int /\ P \in Int /\ RAY \in Int /\ gone \in Int
       /\ r.shed \in Int
  BY <1>1, <1>11, <1>13, RayAssumption
<1> DEFINE gs == SumTo(gl, n)
           fs == SumTo(fl, n)
           hs == SumTo(gh, n)
           ks == SumTo(fh, n)
           ray == RAY
           shed == r.shed
           a == gl[i]
           b == fl[i]
           u == gh[i]
           v == fh[i]
<1>19. /\ gs = fs + a - b /\ hs = ks + u - v /\ fs <= Z /\ a <= b - X + ray
       /\ Y <= ks + P + shed /\ u >= v - X - (ray - 1) - gone
       /\ gs \in Int /\ fs \in Int /\ hs \in Int /\ ks \in Int
       /\ a \in Int /\ b \in Int /\ u \in Int /\ v \in Int /\ ray \in Int /\ shed \in Int
  BY <1>8, <1>9, <1>12, <1>18
<1> HIDE DEF gs, fs, hs, ks, ray, shed, a, b, u, v
<1>20. gs <= Z - X + ray /\ Y - X <= hs + (P + (ray - 1)) + (shed + gone)
  BY <1>18, <1>19, RebaseArithmetic
<1>14. SumTo(gl, n) <= Z2
  BY <1>11, <1>20 DEF gs, ray
<1>15. Y2 <= SumTo(gh, n) + P2 + s.shed
  BY <1>7, <1>11, <1>20 DEF hs, ray, shed
<1>16. Backed(A, e, qs, E, F - paid, s)
  BY <1>2, <1>14, <1>15 DEF Backed, gl, gh, Z2, c2, Y2, P2
<1>17. F - paid \in Int
  BY <1>1, <1>3
<1> QED BY <1>1, <1>4, <1>16, <1>17 DEF Sharing, paid, p, d

\* A new position has earned nothing.
LEMMA SharingOfCreate ==
  ASSUME NEW A, NEW live, NEW e, NEW ps, IsPositions(ps), NEW D, NEW F, NEW r,
         Sharing(A, live, e, ps, D, F, r),
         NEW p, IsPosition(p), p.amount # 0, e < p.activationEpoch,
         NEW qs, qs = Append(ps, p),
         NEW E, \A j \in 1 .. Len(ps) : E[j] = D[j], E[Len(ps) + 1] = DEBT_UNINITIALISED
  PROVE  Sharing(A, live, e, qs, E, F, r)
<1> DEFINE n == Len(ps)
           m == n + 1
           fl == LowMarks(A, e, ps, D)
           gl == LowMarks(A, e, qs, E)
           fh == HighMarks(A, e, ps, D)
           gh == HighMarks(A, e, qs, E)
<1>1. /\ Indices(A, live, e) /\ F \in Int /\ r \in RebasesType
      /\ DebtsFit(A, e, ps, D) /\ Backed(A, e, ps, D, F, r)
  BY DEF Sharing
<1>2. /\ IsPositions(qs) /\ Len(qs) = m /\ n \in Nat
      /\ \A j \in 1 .. n : qs[j] = ps[j] /\ qs[m] = p
  <2>1. ps \in Seq(PositionType) /\ p \in PositionType
    BY DEF IsPositions, IsPosition
  <2>2. IsPositions(Append(ps, p))
    BY AppendKeepsPositions
  <2> QED BY <2>1, <2>2
<1>3. qs[m] = p
  BY <1>2 DEF IsPositions, IsPosition
<1>4. /\ DebtFits(A, e, p, DEBT_UNINITIALISED) /\ ClosedLate(e, p)
      /\ LowMark(A, e, p, DEBT_UNINITIALISED) = 0 /\ HighMark(A, e, p, DEBT_UNINITIALISED) = 0
  <2>1. e \in Nat
    BY <1>1, EngineAssumption DEF Indices, Epochs
  <2> QED BY <2>1, IdleMarks
<1>5. \A j \in 1 .. m : j \in 1 .. n \/ j = m
  BY <1>2
<1>6. DebtsFit(A, e, qs, E)
  <2>1. SUFFICES ASSUME NEW j \in 1 .. m
                 PROVE  DebtFits(A, e, qs[j], E[j]) /\ ClosedLate(e, qs[j])
    BY <1>2 DEF DebtsFit
  <2>2. CASE j \in 1 .. n
    BY <1>1, <1>2, <2>2 DEF DebtsFit
  <2>3. CASE j = m
    BY <1>3, <1>4, <2>3
  <2> QED BY <1>5, <2>2, <2>3
<1>7. IsFamily(fl, n) /\ IsFamily(gl, m) /\ IsFamily(fh, n) /\ IsFamily(gh, m)
  BY <1>1, <1>2, <1>6, MarkFamilies
<1>8. /\ \A j \in 1 .. n : gl[j] = fl[j] /\ gh[j] = fh[j]
      /\ gl[m] = 0 /\ gh[m] = 0
  <2>1. m \in 1 .. m /\ \A j \in 1 .. n : j \in 1 .. m
    BY <1>2
  <2>2. /\ gl[m] = LowMark(A, e, qs[m], E[m]) /\ gh[m] = HighMark(A, e, qs[m], E[m])
        /\ \A j \in 1 .. n : /\ gl[j] = LowMark(A, e, qs[j], E[j])
                             /\ gh[j] = HighMark(A, e, qs[j], E[j])
    BY <1>2, <2>1 DEF LowMarks, HighMarks
  <2>3. \A j \in 1 .. n : /\ fl[j] = LowMark(A, e, ps[j], D[j])
                          /\ fh[j] = HighMark(A, e, ps[j], D[j])
    BY DEF LowMarks, HighMarks
  <2> HIDE DEF gl, gh, fl, fh, m
  <2> QED BY <1>2, <1>3, <1>4, <2>2, <2>3 DEF m
<1> HIDE DEF n, fl, gl, fh, gh
<1>9. SumTo(gl, m) = SumTo(fl, n) /\ SumTo(gh, m) = SumTo(fh, n)
  <2>1. SumTo(gl, n + 1) = SumTo(fl, n) + gl[n + 1] /\ SumTo(gh, n + 1) = SumTo(fh, n) + gh[n + 1]
    BY <1>7, <1>8, SumOfAppend
  <2>2. SumTo(fl, n) \in Int /\ SumTo(fh, n) \in Int
    BY <1>7, SumIsInt
  <2> QED BY <1>8, <2>1, <2>2
<1>10. Backed(A, e, qs, E, F, r)
  BY <1>1, <1>2, <1>9 DEF Backed, fl, gl, fh, gh, n
<1> QED BY <1>1, <1>6, <1>10 DEF Sharing

--------------------------------------------------------------------------------
(* Both assets of the engine *)

NaraDebts(ps) == [i \in 1 .. Len(ps) |-> ps[i].naraDebtRay]
EthDebts(ps) == [i \in 1 .. Len(ps) |-> ps[i].ethDebtRay]
\* The ETH that is neither a fee nor queued for the next epoch.
FreeEth(c, e) == e.balance - e.accumulatedTreasuryEthFees - c.pendingEthForNextEpoch

SharedNara(c, ps, claimed, r) ==
    Sharing(c.naraIndexAtEpoch, c.naraIndexRay, c.epoch, ps, NaraDebts(ps),
            c.totalNaraDripPaid - claimed, r)
SharedEth(c, ps, free, r) ==
    Sharing(c.ethIndexAtEpoch, c.ethIndexRay, c.epoch, ps, EthDebts(ps), free, r)

\* The second inductive invariant: what positions have earned and not been paid is what
\* was distributed and not claimed, up to the rounding of their marks.
RewardsInv == /\ SharedNara(core, positions, totalNaraDripClaimed, rebases)
              /\ SharedEth(core, positions, FreeEth(core, eth), rebases)

\* An epoch of the ledger.
LEMMA SharedByEpoch ==
  ASSUME NEW c, c \in CoreType, NEW d, NEW ps, IsPositions(ps), PaidOut(c, d, ps),
         NEW claimed \in Nat, NEW e, e \in EthType, NEW r,
         SharedNara(c, ps, claimed, r), SharedEth(c, ps, FreeEth(c, e), r)
  PROVE  SharedNara(d, ps, claimed, r) /\ SharedEth(d, ps, FreeEth(d, e), r)
<1> DEFINE n == c.epoch + 1
           W == ActiveWeight(ps, n)
<1>1. /\ n \in Epochs /\ d.epoch = n /\ EmitsNara(c, d, W) /\ EmitsEth(c, d, W)
      /\ d.naraIndexAtEpoch = Noted(c.naraIndexAtEpoch, n, d.naraIndexRay)
      /\ d.ethIndexAtEpoch = Noted(c.ethIndexAtEpoch, n, d.ethIndexRay)
  BY DEF PaidOut
<1>2. SharedNara(d, ps, claimed, r)
  <2>1. PICK gained \in Nat, rise \in Nat :
            /\ IsRise(rise, W, gained)
            /\ d.totalNaraDripPaid = c.totalNaraDripPaid + gained
            /\ d.naraIndexRay = c.naraIndexRay + rise
    BY <1>1 DEF EmitsNara
  <2> DEFINE A == c.naraIndexAtEpoch
             live == c.naraIndexRay
             F == c.totalNaraDripPaid - claimed
             B == d.naraIndexAtEpoch
             D == NaraDebts(ps)
             ep == c.epoch
  <2>2. Sharing(A, live, ep, ps, D, F, r)
    BY DEF SharedNara
  <2>3. ep + 1 \in Epochs /\ B = Noted(A, ep + 1, live + rise)
    BY <1>1, <2>1
  <2>4. rise * ActiveWeight(ps, ep + 1) <= RAY * gained
        /\ RAY * gained <= (rise + 1) * ActiveWeight(ps, ep + 1)
    BY <2>1 DEF IsRise
  <2>5. F + gained = d.totalNaraDripPaid - claimed
    BY <2>1 DEF CoreType
  <2> HIDE DEF A, live, F, B, D, ep
  <2>6. Sharing(B, live + rise, ep + 1, ps, D, F + gained, r)
    BY <2>2, <2>3, <2>4, SharingOfEpoch
  <2> QED BY <1>1, <2>1, <2>5, <2>6 DEF SharedNara, B, live, D, ep
<1>3. SharedEth(d, ps, FreeEth(d, e), r)
  <2>1. PICK gained \in Nat, rise \in Nat :
            /\ IsRise(rise, W, gained)
            /\ d.pendingEthForNextEpoch = c.pendingEthForNextEpoch - gained
            /\ d.ethIndexRay = c.ethIndexRay + rise
    BY <1>1 DEF EmitsEth
  <2> DEFINE A == c.ethIndexAtEpoch
             live == c.ethIndexRay
             F == FreeEth(c, e)
             B == d.ethIndexAtEpoch
             D == EthDebts(ps)
             ep == c.epoch
  <2>2. Sharing(A, live, ep, ps, D, F, r)
    BY DEF SharedEth
  <2>3. ep + 1 \in Epochs /\ B = Noted(A, ep + 1, live + rise)
    BY <1>1, <2>1
  <2>4. rise * ActiveWeight(ps, ep + 1) <= RAY * gained
        /\ RAY * gained <= (rise + 1) * ActiveWeight(ps, ep + 1)
    BY <2>1 DEF IsRise
  <2>5. F + gained = FreeEth(d, e)
    <3>1. /\ e.balance \in Nat /\ e.accumulatedTreasuryEthFees \in Nat
          /\ c.pendingEthForNextEpoch \in Nat
      BY DEF EthType, CoreType
    <3> QED BY <2>1, <3>1 DEF FreeEth
  <2> HIDE DEF A, live, F, B, D, ep
  <2>6. Sharing(B, live + rise, ep + 1, ps, D, F + gained, r)
    BY <2>2, <2>3, <2>4, SharingOfEpoch
  <2> QED BY <1>1, <2>1, <2>5, <2>6 DEF SharedEth, B, live, D, ep
<1> QED BY <1>2, <1>3

\* However many epochs a call settles.
LEMMA SharedByChain ==
  ASSUME NEW P, NEW n, NEW c, NEW d, NEW locked, NEW claimed \in Nat, NEW ps, IsPositions(ps),
         IsChain(P, n, c, d, locked, claimed, ps), NEW e, e \in EthType, NEW r,
         SharedNara(c, ps, claimed, r), SharedEth(c, ps, FreeEth(c, e), r)
  PROVE  SharedNara(d, ps, claimed, r) /\ SharedEth(d, ps, FreeEth(d, e), r)
<1> DEFINE Good(k) == SharedNara(P[k], ps, claimed, r) /\ SharedEth(P[k], ps, FreeEth(P[k], e), r)
           S == {k \in Nat : k <= n => Good(k)}
<1>1. /\ n \in Nat /\ P[0] = c /\ P[n] = d
      /\ \A k \in 0 .. n : P[k] \in CoreType
      /\ \A k \in 0 .. n : k > 0 => P[k] = P[k - 1] \/ PaidOut(P[k - 1], P[k], ps)
  BY DEF IsChain, LedgerInv
<1>2. 0 \in S
  BY <1>1
<1>3. ASSUME NEW k \in Nat, k \in S PROVE k + 1 \in S
  <2>1. SUFFICES ASSUME k + 1 <= n PROVE Good(k + 1)
    OBVIOUS
  <2>2. k \in 0 .. n /\ k + 1 \in 0 .. n /\ k + 1 > 0 /\ (k + 1) - 1 = k /\ k <= n
    BY <1>1, <2>1
  <2>3. Good(k)
    BY <1>3, <2>2
  <2>4. P[k] \in CoreType /\ (P[k + 1] = P[k] \/ PaidOut(P[k], P[k + 1], ps))
    BY <1>1, <2>2
  <2>5. CASE P[k + 1] = P[k]
    BY <2>3, <2>5
  <2>6. CASE PaidOut(P[k], P[k + 1], ps)
    <3> DEFINE x == P[k]
               y == P[k + 1]
    <3>1. /\ x \in CoreType /\ PaidOut(x, y, ps) /\ SharedNara(x, ps, claimed, r)
          /\ SharedEth(x, ps, FreeEth(x, e), r)
      BY <2>3, <2>4, <2>6
    <3> HIDE DEF x, y
    <3>2. SharedNara(y, ps, claimed, r) /\ SharedEth(y, ps, FreeEth(y, e), r)
      BY <3>1, SharedByEpoch
    <3> QED BY <3>2 DEF y
  <2> QED BY <2>4, <2>5, <2>6
<1> HIDE DEF S
<1>4. S \in SUBSET Nat
  BY DEF S
<1>5. S = Nat
  BY <1>2, <1>3, <1>4, NatSetInduction
<1>6. Good(n)
  BY <1>1, <1>5 DEF S
<1> QED BY <1>1, <1>6

\* A ledger that a function works on, with the rewards not yet moved.
IsShared(c) == /\ SharedNara(c, positions, totalNaraDripClaimed, rebases)
               /\ SharedEth(c, positions, FreeEth(c, eth), rebases)

LEMMA AdvancedShares ==
  ASSUME IInv, RewardsInv, NEW n \in Nat, NEW c, c \in Advanced(n)
  PROVE  IsShared(c)
<1>1. PICK draws \in [core.epoch + 1 .. MinOf(CurrentEpoch, core.epoch + n) -> Draws] :
          c = CatchUp(core, totalLocked, CurrentEpoch, draws, n)
  BY DEF Advanced
<1>2. /\ LedgerInv(core, totalLocked, positions, totalNaraDripClaimed)
      /\ totalLocked \in Nat /\ totalNaraDripClaimed \in Nat /\ IsPositions(positions)
      /\ CurrentEpoch \in Epochs
  BY ClockFacts DEF IInv, BooksInv, PositionInv
<1>3. PICK P : IsChain(P, n, core, c, totalLocked, totalNaraDripClaimed, positions)
  BY <1>1, <1>2, CatchUpChain
<1>4. eth \in EthType
  BY DEF IInv, FundsInv
<1> QED BY <1>2, <1>3, <1>4, SharedByChain DEF RewardsInv, IsShared

LEMMA FreshShares ==
  ASSUME IInv, RewardsInv, NEW c, c \in FreshCores
  PROVE  IsFresh(c) /\ IsShared(c)
<1>1. c \in Advanced(MaxJitAdvance) /\ MaxJitAdvance \in Nat
  BY EngineAssumption DEF FreshCores
<1> QED BY <1>1, AdvancedShares, FreshFacts

--------------------------------------------------------------------------------
(* Steps that pay nothing out of the rewards *)

\* d has the indices, the queue and the clock of c.
SameRewards(c, d) == SameIndices(c, d) /\ d.epoch = c.epoch

LEMMA RewardsStand ==
  ASSUME NEW c, IsShared(c), SameNara(c, core'), SameNotes(c, core'),
         core'.ethIndexRay = c.ethIndexRay, core'.epoch = c.epoch,
         FreeEth(core', eth') = FreeEth(c, eth),
         UNCHANGED <<positions, totalNaraDripClaimed, rebases>>
  PROVE  RewardsInv'
<1>1. SharedNara(core', positions, totalNaraDripClaimed, rebases)
  BY DEF IsShared, SharedNara, SameNara, SameNotes
<1>2. SharedEth(core', positions, FreeEth(core', eth'), rebases)
  BY DEF IsShared, SharedEth, SameNotes
<1> QED BY <1>1, <1>2 DEF RewardsInv

\* The ledger keeps its rewards, and nothing else that they depend on changes.
LEMMA LedgerAlone ==
  ASSUME NEW c, IsShared(c), SameRewards(c, core'),
         UNCHANGED <<positions, totalNaraDripClaimed, rebases, eth>>
  PROVE  RewardsInv'
<1>1. /\ SameNara(c, core') /\ SameNotes(c, core') /\ core'.ethIndexRay = c.ethIndexRay
      /\ core'.epoch = c.epoch /\ FreeEth(core', eth') = FreeEth(c, eth)
  BY DEF SameRewards, SameIndices, SameNara, SameNotes, FreeEth
<1> QED BY <1>1, RewardsStand

LEMMA CoreIsShared == ASSUME RewardsInv PROVE IsShared(core)
BY DEF RewardsInv, IsShared

\* Funding, wiring, staging and every step that leaves the ledger alone.
LEMMA FundingShares ==
  ASSUME IInv, RewardsInv,
         \/ Tick \/ (\E a : DepositRewards(a) \/ Donate(a)) \/ SyncEmissionReserve
         \/ SetRewardReserve \/ (\E k : ProposeConfig(k)) \/ CancelConfig \/ SetFee
         \/ UNCHANGED vars
  PROVE  RewardsInv'
<1>1. core \in CoreType
  BY BooksFacts
<1>2. SameRewards(core, core')
  BY <1>1 DEF SameRewards, SameIndices, CoreType, Tick, DepositRewards, Donate,
         SyncEmissionReserve, TopUp, SetRewardReserve, ProposeConfig, CancelConfig, SetFee, vars
<1>3. UNCHANGED <<positions, totalNaraDripClaimed, rebases, eth>>
  BY DEF OnlyCoreChanges, Tick, DepositRewards, Donate, SyncEmissionReserve,
         SetRewardReserve, ProposeConfig, CancelConfig, SetFee, vars
<1> QED BY <1>2, <1>3, CoreIsShared, LedgerAlone

LEMMA AdvanceSharesOut ==
  ASSUME IInv, RewardsInv, NEW n \in Nat, AdvanceBy(n)
  PROVE  RewardsInv'
<1>1. core' \in Advanced(n) /\ UNCHANGED <<positions, totalNaraDripClaimed, rebases, eth>>
  BY DEF AdvanceBy, OnlyCoreChanges
<1>2. IsShared(core')
  <2> DEFINE c == core'
  <2>1. c \in Advanced(n)
    BY <1>1
  <2> HIDE DEF c
  <2>2. IsShared(c)
    BY <2>1, AdvancedShares
  <2> QED BY <2>2 DEF c
<1> QED BY <1>1, <1>2 DEF IsShared, RewardsInv

\* A function that catches the ledger up and then only stages, or notifies a token.
LEMMA CaughtUpShares ==
  ASSUME IInv, RewardsInv, NEW c, c \in FreshCores, SameRewards(c, core'),
         UNCHANGED <<positions, totalNaraDripClaimed, rebases, eth>>
  PROVE  RewardsInv'
BY FreshShares, LedgerAlone

LEMMA ExecuteShares ==
  ASSUME IInv, RewardsInv, ExecuteConfig
  PROVE  RewardsInv'
<1>1. PICK c \in FreshCores :
          core' = [c EXCEPT !.stagedConfig = pendingConfig.config,
                            !.stagedConfigEpoch = StagedFor(c)]
  BY DEF ExecuteConfig
<1>2. c \in CoreType
  BY FreshShares, FreshParts
<1>3. SameRewards(c, core')
  BY <1>1, <1>2 DEF SameRewards, SameIndices, CoreType
<1>4. UNCHANGED <<positions, totalNaraDripClaimed, rebases, eth>>
  BY DEF ExecuteConfig
<1> QED BY <1>3, <1>4, CaughtUpShares

LEMMA NotifyTokenShares ==
  ASSUME IInv, RewardsInv, NEW a, NotifyTokenRewards(a)
  PROVE  RewardsInv'
<1>1. PICK c \in FreshCores : core' = c
  BY DEF NotifyTokenRewards
<1>2. SameRewards(c, core')
  BY <1>1 DEF SameRewards, SameIndices
<1>3. UNCHANGED <<positions, totalNaraDripClaimed, rebases, eth>>
  BY DEF NotifyTokenRewards
<1> QED BY <1>2, <1>3, CaughtUpShares

\* ETH that arrives is queued, and fees that leave were set apart.
LEMMA NotifyEthShares ==
  ASSUME IInv, RewardsInv, NEW a \in EthRewards, NotifyEthRewards(a)
  PROVE  RewardsInv'
<1>1. PICK c \in FreshCores : core' = [c EXCEPT !.pendingEthForNextEpoch = @ + a]
  BY DEF NotifyEthRewards
<1>2. c \in CoreType /\ c.pendingEthForNextEpoch \in Nat /\ IsShared(c) /\ a \in Nat
  BY FreshShares, FreshParts, EngineAssumption
<1>3. /\ SameNara(c, core') /\ SameNotes(c, core') /\ core'.ethIndexRay = c.ethIndexRay
      /\ core'.epoch = c.epoch
      /\ core'.pendingEthForNextEpoch = c.pendingEthForNextEpoch + a
  BY <1>1, <1>2 DEF SameNara, SameNotes, CoreType
<1>4. /\ eth \in EthType /\ eth' = [eth EXCEPT !.balance = @ + a, !.received = @ + a]
  BY DEF NotifyEthRewards, IInv, FundsInv
<1>5. FreeEth(core', eth') = FreeEth(c, eth)
  BY <1>2, <1>3, <1>4 DEF FreeEth, EthType
<1>6. UNCHANGED <<positions, totalNaraDripClaimed, rebases>>
  BY DEF NotifyEthRewards
<1> QED BY <1>2, <1>3, <1>5, <1>6, RewardsStand

LEMMA WithdrawShares ==
  ASSUME IInv, RewardsInv, WithdrawTreasuryEthFees
  PROVE  RewardsInv'
<1>1. UNCHANGED <<core, positions, totalNaraDripClaimed, rebases>>
  BY DEF WithdrawTreasuryEthFees
<1>2. /\ eth \in EthType /\ core.pendingEthForNextEpoch \in Nat
      /\ eth' = [eth EXCEPT !.balance = @ - eth.accumulatedTreasuryEthFees,
                            !.accumulatedTreasuryEthFees = 0]
  BY BooksFacts DEF WithdrawTreasuryEthFees, IInv, FundsInv, CoreType
<1>3. FreeEth(core', eth') = FreeEth(core, eth)
  BY <1>1, <1>2 DEF FreeEth, EthType
<1>4. SameNara(core, core') /\ SameNotes(core, core')
  BY <1>1 DEF SameNara, SameNotes
<1> QED BY <1>1, <1>3, <1>4, CoreIsShared, RewardsStand

--------------------------------------------------------------------------------
(* Steps that change positions *)

\* A claim of token rewards moves a debt of another kind.
LEMMA ClaimTokenShares ==
  ASSUME IInv, RewardsInv, NEW i \in Ids, ClaimTokenRewards(i)
  PROVE  RewardsInv'
<1>0. PICK c \in FreshCores :
         \E debt : core' = c /\ positions' = [positions EXCEPT ![i].tokenDebtRay = debt]
  BY DEF ClaimTokenRewards
<1>1. PICK debt : core' = c /\ positions' = [positions EXCEPT ![i].tokenDebtRay = debt]
  BY <1>0
<1>2. UNCHANGED <<totalNaraDripClaimed, rebases, eth>>
  BY DEF ClaimTokenRewards
<1>3. IsShared(c) /\ IsPositions(positions) /\ IsPositions(positions')
  <2>1. IInv'
    BY ClaimTokenStep
  <2>2. IsPositions(positions')
    BY <2>1 DEF IInv, PositionInv
  <2> QED BY <2>2, FreshShares, PositionsFacts
<1>4. /\ Len(positions') = Len(positions)
      /\ \A j \in 1 .. Len(positions) :
            /\ SameWorth(positions[j], positions'[j])
            /\ positions'[j].naraDebtRay = positions[j].naraDebtRay
            /\ positions'[j].ethDebtRay = positions[j].ethDebtRay
  <2>1. SUFFICES ASSUME NEW j \in 1 .. Len(positions)
                 PROVE  /\ SameWorth(positions[j], positions'[j])
                        /\ positions'[j].naraDebtRay = positions[j].naraDebtRay
                        /\ positions'[j].ethDebtRay = positions[j].ethDebtRay
    BY <1>1, PositionsFacts
  <2>2. positions[j] \in PositionType
    BY PositionsFacts DEF IsPosition
  <2>3. positions'[j] = IF j = i THEN [positions[j] EXCEPT !.tokenDebtRay = debt]
                        ELSE positions[j]
    BY <1>1, PositionsFacts
  <2> QED BY <2>2, <2>3 DEF SameWorth, SameEarning, PositionType
<1>5. NaraDebts(positions') = NaraDebts(positions) /\ EthDebts(positions') = EthDebts(positions)
  BY <1>4 DEF NaraDebts, EthDebts
<1>6. SharedNara(c, positions', totalNaraDripClaimed, rebases)
  BY <1>3, <1>4, <1>5, SharingStands DEF IsShared, SharedNara
<1>7. SharedEth(c, positions', FreeEth(c, eth), rebases)
  BY <1>3, <1>4, <1>5, SharingStands DEF IsShared, SharedEth
<1> QED BY <1>1, <1>2, <1>6, <1>7 DEF RewardsInv

\* A batch of positions is paid what it accrued, and some of it may close.
IsBatch(A, e, ps, D, ids, qs, E) ==
    /\ IsPositions(qs) /\ Len(qs) = Len(ps)
    /\ \A j \in 1 .. Len(ps) :
          /\ j \notin ids => qs[j] = ps[j] /\ E[j] = D[j]
          /\ j \in ids => /\ SameEarning(ps[j], qs[j]) /\ E[j] = Accrual(A, e, ps[j], D[j]).debt
                          /\ ps[j].amount # 0
                          /\ \/ qs[j].amount = ps[j].amount
                             \/ qs[j].amount = 0 /\ ps[j].unlockEpoch <= e

LEMMA SharingOfBatch ==
  ASSUME NEW A, NEW live, NEW e, NEW ps, IsPositions(ps), NEW D, NEW F, NEW r,
         Sharing(A, live, e, ps, D, F, r),
         NEW ids, NEW qs, NEW E, IsBatch(A, e, ps, D, ids, qs, E),
         NEW paid,
         \A j \in 1 .. Len(ps) : paid[j] = When(j \in ids, Accrual(A, e, ps[j], D[j]).owed)
  PROVE  Sharing(A, live, e, qs, E, F - SumTo(paid, Len(ps)), r)
<1> DEFINE n == Len(ps)
           Lo(j) == LowMark(A, e, ps[j], D[j])
           Hi(j) == HighMark(A, e, ps[j], D[j])
           X(j) == RAY * paid[j]
<1>1. /\ Indices(A, live, e) /\ DebtsFit(A, e, ps, D) /\ n \in Nat
      /\ \A j \in 1 .. n : IsPosition(ps[j]) /\ DebtFits(A, e, ps[j], D[j])
                           /\ ClosedLate(e, ps[j])
  BY PositionFacts DEF Sharing, DebtsFit, IsPosition
<1>2. IsPositions(qs) /\ Len(qs) = n
  BY DEF IsBatch
<1>3. \A j \in 1 .. n : Lo(j) \in Int /\ Hi(j) \in Int
  BY <1>1, MarkTypes
<1>4. ASSUME NEW j \in 1 .. n
      PROVE  /\ paid[j] \in Int
             /\ DebtFits(A, e, qs[j], E[j]) /\ ClosedLate(e, qs[j])
             /\ LowMark(A, e, qs[j], E[j]) <= Lo(j) - X(j)
             /\ HighMark(A, e, qs[j], E[j]) >= Hi(j) - X(j)
  <2>1. CASE j \notin ids
    <3>1. qs[j] = ps[j] /\ E[j] = D[j] /\ paid[j] = 0
      BY <2>1 DEF IsBatch, When
    <3>2. X(j) = 0
      BY <3>1, RayAssumption
    <3>3. Lo(j) \in Int /\ Hi(j) \in Int
      BY <1>3
    <3>4. LowMark(A, e, qs[j], E[j]) = Lo(j) /\ HighMark(A, e, qs[j], E[j]) = Hi(j)
      BY <3>1
    <3> HIDE DEF Lo, Hi, X
    <3>5. LowMark(A, e, qs[j], E[j]) <= Lo(j) - X(j) /\ HighMark(A, e, qs[j], E[j]) >= Hi(j) - X(j)
      BY <3>2, <3>3, <3>4
    <3> QED BY <1>1, <3>1, <3>5
  <2>2. CASE j \in ids
    <3> DEFINE p == ps[j]
               d == D[j]
               q == qs[j]
               x == Accrual(A, e, p, d)
    <3>1. /\ SameEarning(p, q) /\ E[j] = x.debt /\ p.amount # 0
          /\ q.amount = p.amount \/ (q.amount = 0 /\ p.unlockEpoch <= e)
      BY <2>2 DEF IsBatch
    <3>2. paid[j] = x.owed
      BY <2>2 DEF When
    <3>3. IsPosition(p) /\ DebtFits(A, e, p, d)
      BY <1>1
    <3>4. x.owed \in Nat
      BY <1>1, <3>3, AccrualFacts
    <3> HIDE DEF p, d, q
    <3>5. /\ DebtFits(A, e, q, x.debt) /\ ClosedLate(e, q)
          /\ LowMark(A, e, q, x.debt) <= LowMark(A, e, p, d) - RAY * x.owed
          /\ HighMark(A, e, q, x.debt) >= HighMark(A, e, p, d) - RAY * x.owed
      BY <1>1, <3>1, <3>3, PayMarks
    <3> QED BY <3>1, <3>2, <3>4, <3>5 DEF p, d, q
  <2> QED BY <2>1, <2>2
<1>5. DebtsFit(A, e, qs, E)
  BY <1>2, <1>4 DEF DebtsFit
<1>6. IsFamily(paid, n)
  BY <1>1, <1>4 DEF IsFamily
<1>7. \A j \in 1 .. n : /\ LowMark(A, e, qs[j], E[j]) <= LowMark(A, e, ps[j], D[j]) - RAY * paid[j]
                        /\ HighMark(A, e, qs[j], E[j]) >= HighMark(A, e, ps[j], D[j]) - RAY * paid[j]
  BY <1>4
<1> HIDE DEF Lo, Hi, X
<1> QED BY <1>2, <1>5, <1>6, <1>7, SharingOfPayments

\* What is sent and what is kept as a fee leave the free ETH together.
LEMMA DeliveredEth ==
  ASSUME IInv, NEW c, c \in CoreType, NEW e, e \in EthType, NEW ids, NEW owed,
         \A i \in Ids : owed[i] \in Nat
  PROVE  FreeEth(c, DeliverEth(e, ids, owed)) = FreeEth(c, e) - SumOver(ids, owed)
<1> DEFINE fee  == [i \in Ids |-> ClaimFee(owed[i])]
           feeSum == SumOver(ids, fee)
           all  == SumOver(ids, owed)
           net  == all - feeSum
           b    == e.balance - net
           x    == e.claimed + net
           y    == e.accumulatedTreasuryEthFees + feeSum
<1>1. \A i \in Ids : fee[i] \in Nat
  BY FeesFacts, ShareIsNoMore DEF ClaimFee
<1> HIDE DEF fee
<1>2. feeSum \in Nat /\ all \in Nat
  BY <1>1, SumOverIsNat
<1>3. DeliverEth(e, ids, owed) = [e EXCEPT !.balance = b, !.claimed = x,
                                           !.accumulatedTreasuryEthFees = y]
  BY DEF DeliverEth, fee
<1> HIDE DEF feeSum, all
<1>4. /\ DeliverEth(e, ids, owed).balance = b
      /\ DeliverEth(e, ids, owed).accumulatedTreasuryEthFees = y
  BY <1>3 DEF EthType
<1>5. e.balance \in Nat /\ e.accumulatedTreasuryEthFees \in Nat /\ c.pendingEthForNextEpoch \in Nat
  BY DEF EthType, CoreType
<1> QED BY <1>2, <1>4, <1>5 DEF FreeEth, all

LEMMA CollectedEth ==
  ASSUME NEW c, c \in CoreType, NEW e, e \in EthType, NEW required \in Nat
  PROVE  FreeEth(c, CollectFlatEthFee(e, required)) = FreeEth(c, e)
<1>1. /\ CollectFlatEthFee(e, required).balance = e.balance + required
      /\ CollectFlatEthFee(e, required).accumulatedTreasuryEthFees
             = e.accumulatedTreasuryEthFees + required
  BY DEF CollectFlatEthFee, EthType
<1>2. e.balance \in Nat /\ e.accumulatedTreasuryEthFees \in Nat /\ c.pendingEthForNextEpoch \in Nat
  BY DEF EthType, CoreType
<1> QED BY <1>1, <1>2 DEF FreeEth

\* d.pending and the fees are what FreeEth subtracts.
LEMMA SameFree ==
  ASSUME NEW c, NEW d, SameRewards(c, d), NEW e
  PROVE  FreeEth(d, e) = FreeEth(c, e)
BY DEF SameRewards, SameIndices, FreeEth

\* The positions of a batch, paid on ledger c in both assets.
IsPaidBatch(c, ids, qs) ==
    /\ IsPositions(qs) /\ Len(qs) = Len(positions)
    /\ \A j \in Ids :
          /\ j \notin ids => qs[j] = positions[j]
          /\ j \in ids => /\ SameEarning(positions[j], qs[j]) /\ positions[j].amount # 0
                          /\ qs[j].naraDebtRay = NaraAccrual(c, j).debt
                          /\ qs[j].ethDebtRay = EthAccrual(c, j).debt
                          /\ \/ qs[j].amount = positions[j].amount
                             \/ qs[j].amount = 0 /\ positions[j].unlockEpoch <= c.epoch

LEMMA PaymentShares ==
  ASSUME IInv, NEW c, IsFresh(c), IsShared(c), NEW ids, IsPaidBatch(c, ids, positions'),
         SameRewards(c, core'),
         totalNaraDripClaimed' = totalNaraDripClaimed + SumOver(ids, NaraOwed(c)),
         FreeEth(c, eth') = FreeEth(c, eth) - SumOver(ids, EthOwed(c)),
         UNCHANGED rebases
  PROVE  RewardsInv'
<1> DEFINE n == Len(positions)
           fn == [i \in Ids |-> When(i \in ids, NaraOwed(c)[i])]
           fe == [i \in Ids |-> When(i \in ids, EthOwed(c)[i])]
<1>1. Ids = 1 .. n /\ IsPositions(positions) /\ n \in Nat
  BY PositionsFacts
<1>2. /\ IsBatch(c.naraIndexAtEpoch, c.epoch, positions, NaraDebts(positions), ids,
                 positions', NaraDebts(positions'))
      /\ IsBatch(c.ethIndexAtEpoch, c.epoch, positions, EthDebts(positions), ids,
                 positions', EthDebts(positions'))
  BY <1>1 DEF IsPaidBatch, IsBatch, NaraDebts, EthDebts, NaraAccrual, EthAccrual
<1>3. \A j \in 1 .. n :
         /\ fn[j] = When(j \in ids, Accrual(c.naraIndexAtEpoch, c.epoch, positions[j],
                                            NaraDebts(positions)[j]).owed)
         /\ fe[j] = When(j \in ids, Accrual(c.ethIndexAtEpoch, c.epoch, positions[j],
                                            EthDebts(positions)[j]).owed)
  BY <1>1 DEF NaraOwed, EthOwed, NaraAccrual, EthAccrual, NaraDebts, EthDebts
<1>4. SumTo(fn, n) = SumOver(ids, NaraOwed(c)) /\ SumTo(fe, n) = SumOver(ids, EthOwed(c))
  BY DEF SumOver
<1> HIDE DEF fn, fe
<1>5. SharedNara(c, positions', totalNaraDripClaimed', rebases)
  <2> DEFINE F == c.totalNaraDripPaid - totalNaraDripClaimed
             S == SumTo(fn, n)
  <2>1. Sharing(c.naraIndexAtEpoch, c.naraIndexRay, c.epoch, positions', NaraDebts(positions'),
                F - S, rebases)
    <3> HIDE DEF F
    <3> QED BY <1>1, <1>2, <1>3, SharingOfBatch DEF IsShared, SharedNara, F
  <2>2. c.totalNaraDripPaid \in Nat /\ totalNaraDripClaimed \in Nat /\ S \in Nat
    <3>1. c \in CoreType
      BY FreshParts
    <3>2. S \in Nat
      BY <1>4, <3>1, OwedType, SumOverIsNat
    <3> QED BY <3>1, <3>2, BooksFacts DEF CoreType
  <2>3. F - S = c.totalNaraDripPaid - totalNaraDripClaimed'
    <3>1. totalNaraDripClaimed' = totalNaraDripClaimed + S
      BY <1>4
    <3> HIDE DEF S
    <3> QED BY <2>2, <3>1
  <2> QED BY <2>1, <2>3 DEF SharedNara
<1>6. SharedEth(c, positions', FreeEth(c, eth'), rebases)
  BY <1>1, <1>2, <1>3, <1>4, SharingOfBatch DEF IsShared, SharedEth
<1>7. FreeEth(core', eth') = FreeEth(c, eth')
  BY SameFree
<1> QED BY <1>5, <1>6, <1>7 DEF RewardsInv, SharedNara, SharedEth, SameRewards, SameIndices

\* The ledger after a payment, with or without principal.
LEMMA PaidLedger ==
  ASSUME NEW c, c \in CoreType, NEW d, NEW rewards, NEW principal,
         IsPaid(c, d, rewards, principal) \/ d = DeliverNara(c, rewards)
  PROVE  SameRewards(c, d)
BY DEF IsPaid, DeliverNara, CoreType, SameRewards, SameIndices

LEMMA ClaimShares ==
  ASSUME IInv, RewardsInv, NEW caller \in Owners, NEW ids \in SUBSET Ids, Claim(caller, ids)
  PROVE  RewardsInv'
<1> DEFINE Rewards(c) == SumOver(ids, NaraOwed(c))
<1>1. PICK c \in FreshCores :
          /\ core' = DeliverNara(c, Rewards(c))
          /\ totalNaraDripClaimed' = totalNaraDripClaimed + Rewards(c)
          /\ eth' = DeliverEth(eth, ids, EthOwed(c))
          /\ positions' = [i \in Ids |-> IF i \in ids THEN Accrued(c, i) ELSE positions[i]]
  BY DEF Claim
<1>2. /\ IsFresh(c) /\ IsShared(c) /\ c \in CoreType /\ UNCHANGED rebases
      /\ \A i \in ids : positions[i].amount # 0
  BY FreshShares, FreshParts DEF Claim, OwnedBy
<1>3. SameRewards(c, core')
  BY <1>1, <1>2, PaidLedger
<1>4. IsPaidBatch(c, ids, positions')
  <2>1. IsPositions(positions')
    BY ClaimStep DEF IInv, PositionInv
  <2>2. Len(positions') = Len(positions)
    BY <1>1, <2>1, PositionsFacts, PositionFacts
  <2>3. \A j \in Ids : j \in ids =>
            /\ SameEarning(positions[j], positions'[j])
            /\ positions'[j].naraDebtRay = NaraAccrual(c, j).debt
            /\ positions'[j].ethDebtRay = EthAccrual(c, j).debt
            /\ positions'[j].amount = positions[j].amount
    <3>1. SUFFICES ASSUME NEW j \in Ids, j \in ids
                   PROVE  /\ SameEarning(positions[j], positions'[j])
                          /\ positions'[j].naraDebtRay = NaraAccrual(c, j).debt
                          /\ positions'[j].ethDebtRay = EthAccrual(c, j).debt
                          /\ positions'[j].amount = positions[j].amount
      OBVIOUS
    <3>2. positions'[j] = Accrued(c, j) /\ positions[j] \in PositionType
      BY <1>1, <3>1, PositionsFacts DEF IsPosition
    <3> QED BY <3>2 DEF Accrued, PositionType, SameEarning
  <2> QED BY <1>1, <1>2, <2>1, <2>2, <2>3 DEF IsPaidBatch
<1>5. FreeEth(c, eth') = FreeEth(c, eth) - SumOver(ids, EthOwed(c))
  <2>1. eth \in EthType /\ \A i \in Ids : EthOwed(c)[i] \in Nat
    BY <1>2, OwedType DEF IInv, FundsInv
  <2> QED BY <1>1, <1>2, <2>1, DeliveredEth
<1> QED BY <1>1, <1>2, <1>3, <1>4, <1>5, PaymentShares

LEMMA UnlockShares ==
  ASSUME IInv, RewardsInv, NEW caller \in Owners, NEW ids \in SUBSET Ids, Unlock(caller, ids)
  PROVE  RewardsInv'
<1> DEFINE Rewards(c) == SumOver(ids, NaraOwed(c))
           fee == fees.unlockFeeWei * Cardinality(ids)
<1>1. PICK c \in FreshCores :
          /\ \A i \in ids : Matured(c, i)
          /\ core' = [DeliverNara(c, Rewards(c)) EXCEPT !.balance = @ - Principal(ids)]
          /\ totalNaraDripClaimed' = totalNaraDripClaimed + Rewards(c)
          /\ eth' = DeliverEth(CollectFlatEthFee(eth, fee), ids, EthOwed(c))
          /\ positions' = [i \in Ids |-> IF i \in ids THEN [Accrued(c, i) EXCEPT !.amount = 0]
                                         ELSE positions[i]]
  BY DEF Unlock
<1>2. /\ IsFresh(c) /\ IsShared(c) /\ c \in CoreType /\ UNCHANGED rebases
      /\ \A i \in ids : positions[i].amount # 0
  BY FreshShares, FreshParts DEF Unlock, OwnedBy
<1>3. SameRewards(c, core')
  BY <1>1, <1>2, PaidLedger DEF IsPaid
<1>4. IsPaidBatch(c, ids, positions')
  <2>1. IsPositions(positions')
    BY UnlockStep DEF IInv, PositionInv
  <2>2. Len(positions') = Len(positions)
    BY <1>1, <2>1, PositionsFacts, PositionFacts
  <2>3. \A j \in Ids : j \in ids =>
            /\ SameEarning(positions[j], positions'[j])
            /\ positions'[j].naraDebtRay = NaraAccrual(c, j).debt
            /\ positions'[j].ethDebtRay = EthAccrual(c, j).debt
            /\ positions'[j].amount = 0 /\ positions[j].unlockEpoch <= c.epoch
    <3>1. SUFFICES ASSUME NEW j \in Ids, j \in ids
                   PROVE  /\ SameEarning(positions[j], positions'[j])
                          /\ positions'[j].naraDebtRay = NaraAccrual(c, j).debt
                          /\ positions'[j].ethDebtRay = EthAccrual(c, j).debt
                          /\ positions'[j].amount = 0 /\ positions[j].unlockEpoch <= c.epoch
      OBVIOUS
    <3>2. positions'[j] = [Accrued(c, j) EXCEPT !.amount = 0] /\ positions[j] \in PositionType
      BY <1>1, <3>1, PositionsFacts DEF IsPosition
    <3>3. positions[j].unlockEpoch <= c.epoch
      <4>1. positions[j].unlockEpoch \in Nat /\ c.epoch \in Nat
        BY <1>2, PositionsFacts, PositionParts, FreshParts
      <4> QED BY <1>1, <3>1, <4>1 DEF Matured
    <3> QED BY <3>2, <3>3 DEF Accrued, PositionType, SameEarning
  <2> QED BY <1>1, <1>2, <2>1, <2>2, <2>3 DEF IsPaidBatch
<1>5. FreeEth(c, eth') = FreeEth(c, eth) - SumOver(ids, EthOwed(c))
  <2>1. eth \in EthType /\ \A i \in Ids : EthOwed(c)[i] \in Nat
    BY <1>2, OwedType DEF IInv, FundsInv
  <2>2. fee \in Nat
    <3>1. IsFiniteSet(Ids) /\ ids \in SUBSET Ids
      BY PositionsFacts, FS_Interval
    <3>2. Cardinality(ids) \in Nat
      BY <3>1, FS_Subset, FS_CardinalityType
    <3> QED BY <3>2, FeesFacts
  <2> HIDE DEF fee
  <2>3. CollectFlatEthFee(eth, fee) \in EthType
    BY <2>1, <2>2, CollectType
  <2> QED BY <1>1, <1>2, <2>1, <2>2, <2>3, DeliveredEth, CollectedEth
<1> QED BY <1>1, <1>2, <1>3, <1>4, <1>5, PaymentShares

\* A position extended before it is active starts over with nothing accrued.
LEMMA SharingOfIdleExtension ==
  ASSUME NEW A, NEW live, NEW e, NEW ps, IsPositions(ps), NEW D, NEW F, NEW r,
         Sharing(A, live, e, ps, D, F, r),
         NEW qs, NEW i, DiffersAt(ps, qs, i), IsExtended(ps[i], qs[i]),
         ps[i].amount # 0, e < ps[i].activationEpoch,
         NEW E, \A j \in 1 .. Len(ps) : j # i => E[j] = D[j], E[i] = DEBT_UNINITIALISED
  PROVE  Sharing(A, live, e, qs, E, F, r)
<1> DEFINE n == Len(ps)
           zeros == [j \in 1 .. n |-> 0]
<1>1. /\ Indices(A, live, e) /\ DebtsFit(A, e, ps, D) /\ n \in Nat /\ F \in Int
      /\ IsPositions(qs) /\ Len(qs) = n /\ i \in 1 .. n
      /\ \A j \in 1 .. n : IsPosition(ps[j]) /\ (j # i => qs[j] = ps[j])
  BY PositionFacts DEF Sharing, IsPosition, DiffersAt
<1>2. e \in Nat
  BY <1>1, EngineAssumption DEF Indices, Epochs
<1>3. /\ IsPosition(qs[i]) /\ qs[i].amount # 0 /\ e < qs[i].activationEpoch
  BY DEF IsExtended
<1>4. /\ DebtFits(A, e, qs[i], DEBT_UNINITIALISED) /\ ClosedLate(e, qs[i])
      /\ LowMark(A, e, ps[i], D[i]) = 0 /\ LowMark(A, e, qs[i], E[i]) = 0
      /\ HighMark(A, e, ps[i], D[i]) = 0 /\ HighMark(A, e, qs[i], E[i]) = 0
  <2> DEFINE p == ps[i]
             q == qs[i]
  <2>1. IsPosition(p) /\ p.amount # 0 /\ e < p.activationEpoch
    BY <1>1
  <2>2. IsPosition(q) /\ q.amount # 0 /\ e < q.activationEpoch
    BY <1>3
  <2> HIDE DEF p, q
  <2>3. \A d : LowMark(A, e, p, d) = 0 /\ HighMark(A, e, p, d) = 0
    BY <1>2, <2>1, IdleMarks
  <2>4. /\ DebtFits(A, e, q, DEBT_UNINITIALISED) /\ ClosedLate(e, q)
        /\ \A d : LowMark(A, e, q, d) = 0 /\ HighMark(A, e, q, d) = 0
    BY <1>2, <2>2, IdleMarks
  <2> QED BY <2>3, <2>4 DEF p, q
<1>5. DebtsFit(A, e, qs, E)
  <2>1. SUFFICES ASSUME NEW j \in 1 .. n
                 PROVE  DebtFits(A, e, qs[j], E[j]) /\ ClosedLate(e, qs[j])
    BY <1>1 DEF DebtsFit
  <2>2. CASE j = i
    BY <1>4, <2>2
  <2>3. CASE j # i
    BY <1>1, <2>3 DEF DebtsFit
  <2> QED BY <2>2, <2>3
<1>6. /\ LowMarks(A, e, qs, E) = LowMarks(A, e, ps, D)
      /\ HighMarks(A, e, qs, E) = HighMarks(A, e, ps, D)
  <2>1. \A j \in 1 .. n : /\ LowMark(A, e, qs[j], E[j]) = LowMark(A, e, ps[j], D[j])
                          /\ HighMark(A, e, qs[j], E[j]) = HighMark(A, e, ps[j], D[j])
    <3>1. SUFFICES ASSUME NEW j \in 1 .. n
                   PROVE  /\ LowMark(A, e, qs[j], E[j]) = LowMark(A, e, ps[j], D[j])
                          /\ HighMark(A, e, qs[j], E[j]) = HighMark(A, e, ps[j], D[j])
      OBVIOUS
    <3>2. CASE j = i
      BY <1>4, <3>2
    <3>3. CASE j # i
      BY <1>1, <3>3
    <3> QED BY <3>2, <3>3
  <2> QED BY <1>1, <2>1 DEF LowMarks, HighMarks
<1> QED BY <1>1, <1>5, <1>6 DEF Sharing, Backed

\* The debts of a sequence that differs in one position.
LEMMA DebtsDiffer ==
  ASSUME NEW ps, NEW qs, NEW i, DiffersAt(ps, qs, i)
  PROVE  /\ \A j \in 1 .. Len(ps) : j # i => /\ NaraDebts(qs)[j] = NaraDebts(ps)[j]
                                            /\ EthDebts(qs)[j] = EthDebts(ps)[j]
         /\ NaraDebts(qs)[i] = qs[i].naraDebtRay /\ EthDebts(qs)[i] = qs[i].ethDebtRay
         /\ NaraDebts(ps)[i] = ps[i].naraDebtRay /\ EthDebts(ps)[i] = ps[i].ethDebtRay
BY DEF DiffersAt, NaraDebts, EthDebts

LEMMA ExtendInactiveShares ==
  ASSUME IInv, NEW i \in Ids, NEW c, IsFresh(c), IsShared(c), NEW nu, NEW nw,
         Extension(c, i, nu, nw), positions[i].amount # 0,
         c.epoch < positions[i].activationEpoch, ExtendInactive(c, i, nu, nw),
         UNCHANGED <<now, totalLocked, ownerPositionCount, pendingConfig, fees, token>>
  PROVE  RewardsInv'
<1> DEFINE p == positions[i]
           none == DEBT_UNINITIALISED
           q == [p EXCEPT !.weight = nw, !.unlockEpoch = nu, !.tokenWeight = nw,
                          !.naraDebtRay = none, !.ethDebtRay = none]
<1>1. /\ IsExtendedEarly(c, core', p, nu, nw)
      /\ positions' = [positions EXCEPT ![i] = q]
      /\ UNCHANGED <<eth, totalNaraDripClaimed, rebases>>
  BY DEF ExtendInactive, IsExtendedEarly
<1>2. IsPosition(p) /\ none \in DebtType /\ c \in CoreType
  BY PositionsFacts, FreshParts DEF DebtType
<1>3. nw \in Nat \ {0} /\ nu \in Epochs /\ nu > p.unlockEpoch
  BY DEF Extension
<1>4. IsReshaped(p, q, nw, nu, nw, none, none) /\ q.naraDebtRay = none /\ q.ethDebtRay = none
  BY <1>2 DEF IsReshaped, IsPosition, PositionType
<1>5. SameRewards(c, core')
  BY <1>1, <1>2 DEF IsExtendedEarly, MoveDeactivation, CoreType, SameRewards, SameIndices
<1> HIDE DEF q, none, p
<1>6. /\ IsExtended(p, q) /\ q.owner = p.owner /\ q.countsOwnerCap = p.countsOwnerCap
  BY <1>2, <1>3, <1>4, ReshapedPosition
<1>7. DiffersAt(positions, positions', i) /\ positions'[i] = q
  <2>1. IsReplaced(positions, positions', i, q)
    BY <1>1 DEF IsReplaced
  <2> QED BY <1>6, <2>1, ExtendedPositions DEF p
<1> DEFINE DN == NaraDebts(positions)
           EN == NaraDebts(positions')
           DE == EthDebts(positions)
           EE == EthDebts(positions')
<1>8. /\ \A j \in 1 .. Len(positions) : j # i => EN[j] = DN[j] /\ EE[j] = DE[j]
      /\ EN[i] = DEBT_UNINITIALISED /\ EE[i] = DEBT_UNINITIALISED
  BY <1>4, <1>7, DebtsDiffer DEF none
<1>9. /\ IsPositions(positions) /\ IsExtended(positions[i], positions'[i])
  BY <1>6, <1>7, PositionsFacts DEF p
<1> HIDE DEF DN, EN, DE, EE
<1>10. SharedNara(c, positions', totalNaraDripClaimed, rebases)
  <2>1. Sharing(c.naraIndexAtEpoch, c.naraIndexRay, c.epoch, positions, DN,
                c.totalNaraDripPaid - totalNaraDripClaimed, rebases)
    BY DEF IsShared, SharedNara, DN
  <2> QED BY <1>7, <1>8, <1>9, <2>1, SharingOfIdleExtension DEF SharedNara, EN
<1>11. SharedEth(c, positions', FreeEth(c, eth), rebases)
  <2>1. Sharing(c.ethIndexAtEpoch, c.ethIndexRay, c.epoch, positions, DE,
                FreeEth(c, eth), rebases)
    BY DEF IsShared, SharedEth, DE
  <2> QED BY <1>7, <1>8, <1>9, <2>1, SharingOfIdleExtension DEF SharedEth, EE
<1>12. FreeEth(core', eth') = FreeEth(c, eth)
  BY <1>1, <1>5, SameFree
<1> QED BY <1>1, <1>5, <1>10, <1>11, <1>12
        DEF RewardsInv, SharedNara, SharedEth, SameRewards, SameIndices

LEMMA SumOverOne ==
  ASSUME IInv, NEW i \in Ids, NEW v \in Nat
  PROVE  SumOver({i}, [j \in Ids |-> v]) = v
<1> DEFINE f == [j \in Ids |-> When(j \in {i}, [k \in Ids |-> v][j])]
           n == Len(positions)
<1>1. Ids = 1 .. n /\ n \in Nat
  BY PositionsFacts
<1>2. /\ \A j \in 1 .. n : j # i => f[j] = 0
      /\ f[i] = v
  BY <1>1 DEF When
<1> HIDE DEF f
<1>3. SumTo(f, n) = f[i]
  BY <1>1, <1>2, SumOfOne
<1> QED BY <1>2, <1>3 DEF SumOver, f

LEMMA ExtendActiveShares ==
  ASSUME IInv, NEW i \in Ids, NEW c, IsFresh(c), IsShared(c), NEW nu, NEW nw,
         Extension(c, i, nu, nw), positions[i].amount # 0,
         c.epoch >= positions[i].activationEpoch, ExtendActive(c, i, nu, nw),
         UNCHANGED <<now, totalLocked, ownerPositionCount, pendingConfig, fees, token>>
  PROVE  RewardsInv'
<1> DEFINE p == positions[i]
           nara == Settlement(c.naraIndexAtEpoch, c.naraIndexRay, c.epoch, p, p.naraDebtRay)
           owed == Settlement(c.ethIndexAtEpoch, c.ethIndexRay, c.epoch, p, p.ethDebtRay)
           dues == [j \in Ids |-> owed]
           t == IF TokenRewardsNotified THEN p.tokenWeight ELSE nw
           x == MulDiv(nw, c.naraIndexRay, RAY)
           y == MulDiv(nw, c.ethIndexRay, RAY)
           q == [p EXCEPT !.weight = nw, !.unlockEpoch = nu, !.tokenWeight = t,
                          !.naraDebtRay = x, !.ethDebtRay = y]
<1>1. /\ IsExtendedLate(c, core', p, nu, nw, nara)
      /\ positions' = [positions EXCEPT ![i] = q]
      /\ eth' = DeliverEth(eth, {i}, dues)
      /\ totalNaraDripClaimed' = totalNaraDripClaimed + nara
      /\ rebases' = Rebased(c, p, nw)
  BY DEF ExtendActive, IsExtendedLate
<1>2. /\ c.naraIndexRay \in Nat /\ c.ethIndexRay \in Nat /\ c.epoch \in Nat /\ c \in CoreType
      /\ c.naraIndexAtEpoch \in [Epochs -> Nat] /\ c.ethIndexAtEpoch \in [Epochs -> Nat]
  BY FreshParts
<1>3. /\ IsPosition(p) /\ p.naraDebtRay \in DebtType /\ p.ethDebtRay \in DebtType
      /\ p.tokenWeight \in Nat \ {0}
  BY PositionsFacts, PositionParts
<1>4. nw \in Nat \ {0} /\ nu \in Epochs /\ nu > p.unlockEpoch
  BY DEF Extension
<1>5. nara \in Nat /\ owed \in Nat
  <2> HIDE DEF p
  <2> QED BY <1>2, <1>3, SettlementType
<1>6. x \in Nat /\ y \in Nat
  BY <1>2, <1>4, MulDivIsNat, RayAssumption
<1>7. t \in Nat \ {0} /\ x \in DebtType /\ y \in DebtType
  <2> HIDE DEF x, y
  <2> QED BY <1>3, <1>4, <1>6 DEF DebtType
<1>8. IsReshaped(p, q, nw, nu, t, x, y) /\ q.naraDebtRay = x /\ q.ethDebtRay = y
  BY <1>3 DEF IsReshaped, IsPosition, PositionType
<1>9. \A j \in Ids : dues[j] \in Nat
  BY <1>5
<1>10. SumOver({i}, dues) = owed
  BY <1>5, SumOverOne
<1>11. SameRewards(c, core')
  BY <1>1, <1>2 DEF IsExtendedLate, DeliverNara, MoveDeactivation, CoreType, SameRewards, SameIndices
<1>12. rebases' \in RebasesType
  BY ExtendActiveStep DEF IInv, FundsInv
<1> HIDE DEF nara, owed, dues, t, x, y, q, p
<1>13. /\ IsExtended(p, q) /\ q.owner = p.owner /\ q.countsOwnerCap = p.countsOwnerCap
       /\ q.weight = nw
  BY <1>3, <1>4, <1>7, <1>8, ReshapedPosition
<1>14. DiffersAt(positions, positions', i) /\ positions'[i] = q
  <2>1. IsReplaced(positions, positions', i, q)
    BY <1>1 DEF IsReplaced
  <2> QED BY <1>13, <2>1, ExtendedPositions DEF p
<1> DEFINE DN == NaraDebts(positions)
           EN == NaraDebts(positions')
           DE == EthDebts(positions)
           EE == EthDebts(positions')
<1>15. /\ \A j \in 1 .. Len(positions) : j # i => EN[j] = DN[j] /\ EE[j] = DE[j]
       /\ EN[i] = x /\ EE[i] = y /\ DN[i] = p.naraDebtRay /\ DE[i] = p.ethDebtRay
  BY <1>8, <1>14, DebtsDiffer DEF p
<1>16. /\ IsPositions(positions) /\ IsExtended(positions[i], positions'[i])
       /\ positions'[i].weight = nw
  BY <1>13, <1>14, PositionsFacts DEF p
<1>17. Started(c.epoch, positions[i]) /\ c.epoch < positions[i].unlockEpoch
  <2>1. positions[i].activationEpoch \in Nat
    BY PositionsFacts, PositionParts
  <2> QED BY <1>2, <2>1 DEF Started, Extension
<1> DEFINE s == rebases'
<1>18. /\ s.count = rebases.count + 1 /\ s \in RebasesType
       /\ s.shed = rebases.shed + SaturatingSub(positions[i].weight, positions'[i].weight)
                                    * (c.epoch - positions[i].activationEpoch + 1)
  BY <1>1, <1>12, <1>16 DEF Rebased, p
<1>19. nara = Settlement(c.naraIndexAtEpoch, c.naraIndexRay, c.epoch, positions[i], DN[i])
       /\ owed = Settlement(c.ethIndexAtEpoch, c.ethIndexRay, c.epoch, positions[i], DE[i])
       /\ EN[i] = MulDiv(positions'[i].weight, c.naraIndexRay, RAY)
       /\ EE[i] = MulDiv(positions'[i].weight, c.ethIndexRay, RAY)
  BY <1>15, <1>16 DEF nara, owed, x, y, p
<1> DEFINE ps == positions
           qs == positions'
           A == c.naraIndexAtEpoch
           B == c.ethIndexAtEpoch
           F == c.totalNaraDripPaid - totalNaraDripClaimed
           G == FreeEth(c, eth)
           r == rebases
<1>20. Sharing(A, c.naraIndexRay, c.epoch, ps, DN, F, r)
       /\ Sharing(B, c.ethIndexRay, c.epoch, ps, DE, G, r)
  BY DEF IsShared, SharedNara, SharedEth, DN, DE
<1>21. /\ IsPositions(ps) /\ DiffersAt(ps, qs, i) /\ IsExtended(ps[i], qs[i])
       /\ ps[i].amount # 0 /\ Started(c.epoch, ps[i]) /\ c.epoch < ps[i].unlockEpoch
       /\ \A j \in 1 .. Len(ps) : j # i => EN[j] = DN[j] /\ EE[j] = DE[j]
       /\ EN[i] = MulDiv(qs[i].weight, c.naraIndexRay, RAY)
       /\ EE[i] = MulDiv(qs[i].weight, c.ethIndexRay, RAY)
       /\ s.count = r.count + 1 /\ s \in RebasesType
       /\ s.shed = r.shed + SaturatingSub(ps[i].weight, qs[i].weight)
                                * (c.epoch - ps[i].activationEpoch + 1)
       /\ nara = Settlement(A, c.naraIndexRay, c.epoch, ps[i], DN[i])
       /\ owed = Settlement(B, c.ethIndexRay, c.epoch, ps[i], DE[i])
  BY <1>14, <1>15, <1>16, <1>17, <1>18, <1>19
<1>22. /\ F - nara = c.totalNaraDripPaid - totalNaraDripClaimed'
       /\ FreeEth(c, eth') = G - owed
  <2>1. c.totalNaraDripPaid \in Nat /\ totalNaraDripClaimed \in Nat
    BY <1>2, BooksFacts DEF CoreType
  <2>2. eth \in EthType
    BY DEF IInv, FundsInv
  <2>3. FreeEth(c, eth') = G - owed
    BY <1>1, <1>2, <1>9, <1>10, <2>2, DeliveredEth
  <2> QED BY <1>1, <1>5, <2>1, <2>3
<1>23. FreeEth(core', eth') = FreeEth(c, eth')
  BY <1>11, SameFree
<1> HIDE DEF DN, EN, DE, EE, s, ps, qs, A, B, F, G, r
<1>24. Sharing(A, c.naraIndexRay, c.epoch, qs, EN, F - nara, s)
  BY <1>20, <1>21, SharingOfRebase
<1>25. Sharing(B, c.ethIndexRay, c.epoch, qs, EE, G - owed, s)
  BY <1>20, <1>21, SharingOfRebase
<1> QED BY <1>11, <1>22, <1>23, <1>24, <1>25
        DEF RewardsInv, SharedNara, SharedEth, SameRewards, SameIndices, EN, EE, s, qs, A, B

LEMMA ExtendShares ==
  ASSUME IInv, RewardsInv, NEW i \in Ids, NEW more \in Extensions, Extend(i, more)
  PROVE  RewardsInv'
<1> DEFINE p == positions[i]
           old == p.unlockEpoch - p.createdEpoch - 1
           nu == p.unlockEpoch + more
           NW(c) == ComputeWeight(c.config, p.amount, old + more)
<1>1. PICK c \in FreshCores :
          /\ c.epoch < p.unlockEpoch
          /\ NW(c) > ComputeWeight(c.config, p.amount, old)
          /\ nu <= EpochBound
          /\ \/ c.epoch < p.activationEpoch /\ ExtendInactive(c, i, nu, NW(c))
             \/ c.epoch >= p.activationEpoch /\ ExtendActive(c, i, nu, NW(c))
  BY DEF Extend
<1>2. /\ UNCHANGED <<now, totalLocked, ownerPositionCount, pendingConfig, fees, token>>
      /\ positions[i].amount # 0
  BY DEF Extend
<1>3. IsFresh(c) /\ IsShared(c) /\ more \in Nat
  BY FreshShares, EngineAssumption
<1> DEFINE nw == NW(c)
<1>4. Extension(c, i, nu, nw)
  BY <1>1, <1>3, ExtensionHolds
<1> HIDE DEF NW, nu
<1> QED BY <1>1, <1>2, <1>3, <1>4, ExtendInactiveShares, ExtendActiveShares

LEMMA CreateShares ==
  ASSUME IInv, NEW c, IsFresh(c), IsShared(c), NEW payer, NEW owner \in Owners,
         NEW amount \in Amounts, NEW dur \in Durations,
         CreatePosition(c, payer, owner, amount, dur), IInv',
         UNCHANGED <<totalNaraDripClaimed, rebases>>, FreeEth(c, eth') = FreeEth(c, eth)
  PROVE  RewardsInv'
<1>1. PICK p : /\ positions' = Append(positions, p)
               /\ p.amount # 0 /\ p.naraDebtRay = DEBT_UNINITIALISED
               /\ p.ethDebtRay = DEBT_UNINITIALISED
               /\ p.activationEpoch = c.epoch + c.config.activationDelayEpochs + 1
  BY DEF CreatePosition
<1> DEFINE n == Len(positions)
<1>2. /\ IsPositions(positions) /\ IsPositions(positions') /\ n \in Nat
      /\ positions \in Seq(PositionType)
  BY PositionsFacts DEF IInv, PositionInv
<1>3. Len(positions') = n + 1 /\ positions'[n + 1] = p
      /\ \A j \in 1 .. n : positions'[j] = positions[j]
  BY <1>1, <1>2
<1>4. IsPosition(p)
  <2>1. n + 1 \in 1 .. Len(positions')
    BY <1>2, <1>3
  <2>2. IsPosition(positions'[n + 1])
    BY <1>2, <2>1, PositionFacts DEF IsPosition
  <2> QED BY <1>3, <2>2
<1>5. c.epoch < p.activationEpoch
  <2>1. c.epoch \in Nat /\ c.config.activationDelayEpochs \in Nat
    BY FreshParts, ConfigAssumption DEF ConfigType
  <2> QED BY <1>1, <2>1
<1>6. SameRewards(c, core')
  <2>1. c \in CoreType
    BY FreshParts
  <2> QED BY <2>1 DEF CreatePosition, CoreType, SameRewards, SameIndices
<1> DEFINE DN == NaraDebts(positions)
           EN == NaraDebts(positions')
           DE == EthDebts(positions)
           EE == EthDebts(positions')
<1>7. /\ \A j \in 1 .. n : EN[j] = DN[j] /\ EE[j] = DE[j]
      /\ EN[n + 1] = DEBT_UNINITIALISED /\ EE[n + 1] = DEBT_UNINITIALISED
  <2>1. n + 1 \in 1 .. n + 1 /\ \A j \in 1 .. n : j \in 1 .. n + 1
    BY <1>2
  <2> QED BY <1>1, <1>3, <2>1 DEF NaraDebts, EthDebts
<1> HIDE DEF DN, EN, DE, EE
<1>8. Sharing(c.naraIndexAtEpoch, c.naraIndexRay, c.epoch, positions', EN,
              c.totalNaraDripPaid - totalNaraDripClaimed, rebases)
  BY <1>1, <1>2, <1>4, <1>5, <1>7, SharingOfCreate DEF IsShared, SharedNara, DN
<1>9. Sharing(c.ethIndexAtEpoch, c.ethIndexRay, c.epoch, positions', EE,
              FreeEth(c, eth), rebases)
  BY <1>1, <1>2, <1>4, <1>5, <1>7, SharingOfCreate DEF IsShared, SharedEth, DE
<1>10. FreeEth(core', eth') = FreeEth(c, eth)
  BY <1>6, SameFree
<1> QED BY <1>6, <1>8, <1>9, <1>10
        DEF RewardsInv, SharedNara, SharedEth, SameRewards, SameIndices, EN, EE

LEMMA LockShares ==
  ASSUME IInv, RewardsInv, NEW payer, NEW owner \in Owners, NEW amount \in Amounts,
         NEW dur \in Durations,
         Lock(payer, owner, amount, dur) \/ OnTransferReceived(payer, owner, amount, dur)
  PROVE  RewardsInv'
<1>1. eth \in EthType /\ fees.lockFeeWei \in Nat /\ IInv'
  BY FeesFacts, LockStep DEF IInv, FundsInv
<1>2. CASE Lock(payer, owner, amount, dur)
  <2>1. PICK c \in FreshCores : CreatePosition(c, payer, owner, amount, dur)
    BY <1>2 DEF Lock
  <2>2. IsFresh(c) /\ IsShared(c) /\ c \in CoreType
    BY FreshShares, FreshParts
  <2>3. FreeEth(c, eth') = FreeEth(c, eth)
    BY <1>1, <1>2, <2>2, CollectedEth DEF Lock
  <2>4. UNCHANGED <<totalNaraDripClaimed, rebases>>
    BY <1>2 DEF Lock
  <2> QED BY <1>1, <2>1, <2>2, <2>3, <2>4, CreateShares
<1>3. CASE OnTransferReceived(payer, owner, amount, dur)
  <2>1. /\ CreatePosition(core, payer, owner, amount, dur)
        /\ UNCHANGED <<totalNaraDripClaimed, rebases>> /\ eth' = eth
    BY <1>3 DEF OnTransferReceived
  <2>2. FreeEth(core, eth') = FreeEth(core, eth)
    BY <2>1
  <2> QED BY <1>1, <2>1, <2>2, CoreIsFresh, CoreIsShared, CreateShares
<1> QED BY <1>2, <1>3

--------------------------------------------------------------------------------
(* The theorems *)

LEMMA InitShares ==
  ASSUME Init
  PROVE  RewardsInv
<1>1. /\ positions = <<>> /\ Len(positions) = 0 /\ totalNaraDripClaimed = 0
      /\ rebases = [count |-> 0, shed |-> 0]
      /\ core.naraIndexAtEpoch = EmptySchedule /\ core.ethIndexAtEpoch = EmptySchedule
      /\ core.naraIndexRay = 0 /\ core.ethIndexRay = 0 /\ core.epoch = 0
      /\ core.totalNaraDripPaid = 0 /\ core.pendingEthForNextEpoch = 0
      /\ eth.balance = 0 /\ eth.accumulatedTreasuryEthFees = 0
  BY DEF Init
<1>2. Indices(EmptySchedule, 0, 0)
  <2>1. 0 \in Epochs
    BY EngineAssumption DEF Epochs
  <2> QED BY <2>1 DEF Indices, EmptySchedule
<1>3. \A D : Sharing(EmptySchedule, 0, 0, positions, D, 0, rebases)
  <2>1. SUFFICES ASSUME NEW D PROVE Sharing(EmptySchedule, 0, 0, positions, D, 0, rebases)
    OBVIOUS
  <2>2. rebases \in RebasesType /\ rebases.count = 0 /\ rebases.shed = 0
    BY <1>1 DEF RebasesType
  <2>3. \A f : SumTo(f, 0) = 0
    BY SumOfZeros
  <2>4. RAY * (0 + 0) = 0 /\ RAY * 0 = 0 /\ (RAY - 1) * 0 = 0
    BY RayAssumption
  <2>5. Backed(EmptySchedule, 0, positions, D, 0, rebases)
    BY <1>1, <2>2, <2>3, <2>4 DEF Backed
  <2>6. DebtsFit(EmptySchedule, 0, positions, D)
    BY <1>1 DEF DebtsFit
  <2> QED BY <1>2, <2>2, <2>5, <2>6 DEF Sharing
<1>4. core.totalNaraDripPaid - totalNaraDripClaimed = 0 /\ FreeEth(core, eth) = 0
  BY <1>1 DEF FreeEth
<1> QED BY <1>1, <1>3, <1>4 DEF RewardsInv, SharedNara, SharedEth

\* Every function of the engine keeps it.
LEMMA NextShares ==
  ASSUME IInv, RewardsInv, [Next]_vars
  PROVE  RewardsInv'
<1>1. CASE \/ Tick \/ (\E a : DepositRewards(a) \/ Donate(a)) \/ SyncEmissionReserve
           \/ SetRewardReserve \/ (\E k : ProposeConfig(k)) \/ CancelConfig \/ SetFee
           \/ UNCHANGED vars
  BY <1>1, FundingShares
<1>2. CASE \E payer \in Payers, owner \in Owners, a \in Amounts, d \in Durations :
              Lock(payer, owner, a, d) \/ OnTransferReceived(payer, owner, a, d)
  BY <1>2, LockShares
<1>3. CASE \E i \in Ids, d \in Extensions : Extend(i, d)
  BY <1>3, ExtendShares
<1>4. CASE \E caller \in Owners, ids \in SUBSET Ids : Unlock(caller, ids) \/ Claim(caller, ids)
  BY <1>4, UnlockShares, ClaimShares
<1>5. CASE \E i \in Ids : ClaimTokenRewards(i)
  BY <1>5, ClaimTokenShares
<1>6. CASE \E a \in EthRewards : NotifyEthRewards(a)
  BY <1>6, NotifyEthShares
<1>7. CASE \E a \in TokenRewards : NotifyTokenRewards(a)
  BY <1>7, NotifyTokenShares
<1>8. CASE \E n \in AdvanceSteps : AdvanceEpochs(n)
  <2>1. PICK n \in AdvanceSteps : AdvanceBy(n)
    BY <1>8 DEF AdvanceEpochs
  <2>2. n \in Nat
    BY EngineAssumption
  <2> QED BY <2>1, <2>2, AdvanceSharesOut
<1>9. CASE Poke
  <2>1. MaxJitAdvance \in Nat
    BY EngineAssumption
  <2> QED BY <1>9, <2>1, AdvanceSharesOut DEF Poke
<1>10. CASE ExecuteConfig
  BY <1>10, ExecuteShares
<1>11. CASE WithdrawTreasuryEthFees
  BY <1>11, WithdrawShares
<1> QED BY <1>1, <1>2, <1>3, <1>4, <1>5, <1>6, <1>7, <1>8, <1>9, <1>10, <1>11 DEF Next

\* What positions have earned and not been paid is what was distributed and not claimed,
\* in NARA and in ETH, up to the rounding of each position.
THEOREM RewardsInvariant == Spec => [](IInv /\ RewardsInv)
<1>1. Init => IInv /\ RewardsInv
  BY InitHolds, InitShares
<1>2. IInv /\ RewardsInv /\ [Next]_vars => (IInv /\ RewardsInv)'
  BY NextKeeps, NextShares
<1> QED BY <1>1, <1>2, PTL DEF Spec

\* What a position could collect, and what rounding its epochs may have lost.
Worth(A, e, p, d) ==
    IF p.amount = 0 \/ e < p.activationEpoch THEN 0
    ELSE MulDiv(p.weight, Reach(A, e, p), RAY) - Charged(A, p, d)

LEMMA WorthBetweenMarks ==
  ASSUME NEW A, NEW live, NEW e, Indices(A, live, e), NEW p, IsPosition(p),
         NEW d, DebtFits(A, e, p, d)
  PROVE  /\ Worth(A, e, p, d) \in Int
         /\ RAY * Worth(A, e, p, d) - (RAY - 1) <= LowMark(A, e, p, d)
         /\ HighMark(A, e, p, d)
                <= RAY * Worth(A, e, p, d) + p.weight * EpochsActive(e, p) + (RAY - 1)
<1> DEFINE v == p.weight * EpochsActive(e, p)
           g == MulDiv(p.weight, Reach(A, e, p), RAY)
           k == Charged(A, p, d)
           r == p.weight * Reach(A, e, p)
<1>1. v \in Nat /\ RAY \in Nat \ {0}
  BY MarkTypes, RayAssumption
<1>2. e \in Nat /\ p.activationEpoch \in Nat
  BY PositionParts, EngineAssumption DEF Indices, Epochs
<1>3. CASE p.amount = 0 \/ ~ Started(e, p)
  <2>1. Worth(A, e, p, d) = 0 /\ Unpaid(A, e, p, d) = 0
    BY <1>2, <1>3 DEF Worth, Unpaid, Started
  <2>2. LowMark(A, e, p, d) \in {0, 0 - (RAY - 1)}
        /\ HighMark(A, e, p, d) \in {v, (RAY - 1) + v}
    BY <1>1, <2>1 DEF LowMark, HighMark
  <2>3. RAY * Worth(A, e, p, d) = 0
    BY <1>1, <2>1
  <2> HIDE DEF v
  <2> QED BY <1>1, <2>1, <2>2, <2>3 DEF v
<1>4. CASE p.amount # 0 /\ Started(e, p)
  <2>1. k \in Nat /\ RAY * k <= r /\ r \in Nat
    BY <1>4, ChargeFacts
  <2>2. g \in Nat /\ RAY * g <= r /\ r <= RAY * g + RAY - 1
    <3>1. p.weight \in Nat /\ Reach(A, e, p) \in Nat
      BY PositionParts, ReachFacts
    <3> QED BY <3>1, MulDivBounds
  <2>3. Worth(A, e, p, d) = g - k /\ Unpaid(A, e, p, d) = r - RAY * k
    BY <1>2, <1>4 DEF Worth, Unpaid, Started
  <2>4. /\ LowMark(A, e, p, d) = Unpaid(A, e, p, d) - (RAY - 1)
        /\ HighMark(A, e, p, d) = Unpaid(A, e, p, d) + v
    BY <1>4 DEF LowMark, HighMark
  <2> HIDE DEF g, k, r, v
  <2>5. RAY * (g - k) = RAY * g - RAY * k
    BY <1>1, <2>1, <2>2, ProductOfDifference
  <2> DEFINE X == RAY * g
             Y == RAY * k
  <2>6. X \in Int /\ Y \in Int /\ g - k \in Int
    BY <1>1, <2>1, <2>2
  <2>7. X <= r /\ r <= X + RAY - 1 /\ RAY * Worth(A, e, p, d) = X - Y
        /\ Unpaid(A, e, p, d) = r - Y
    BY <2>2, <2>3, <2>5
  <2> HIDE DEF X, Y
  <2> QED BY <1>1, <2>1, <2>3, <2>4, <2>6, <2>7 DEF v
<1> QED BY <1>3, <1>4

LEMMA RoundedDown ==
  ASSUME NEW x \in Int, NEW v \in Nat, RAY * x <= v
  PROVE  x <= v \div RAY
<1> DEFINE q == v \div RAY
<1>1. RAY \in Nat \ {0}
  BY RayAssumption
<1>2. q \in Nat /\ v <= RAY * q + RAY - 1
  BY <1>1
<1> HIDE DEF q
<1> SUFFICES ASSUME x > q PROVE FALSE
  BY <1>2 DEF q
<1>3. x \in Nat /\ q + 1 \in Nat /\ q + 1 <= x
  BY <1>2
<1>4. RAY * (q + 1) <= RAY * x
  BY <1>1, <1>3, ProductIsMonotone
<1>5. RAY * (q + 1) = RAY * q + RAY
  BY <1>1, <1>2
<1>6. RAY * q \in Nat /\ RAY * x \in Nat
  BY <1>1, <1>2, <1>3
<1> DEFINE X == RAY * x
           Y == RAY * q
           Z == RAY * (q + 1)
<1>7. Z <= X /\ Z = Y + RAY /\ X <= v /\ v <= Y + RAY - 1 /\ X \in Nat /\ Y \in Nat
  BY <1>2, <1>4, <1>5, <1>6
<1> HIDE DEF X, Y, Z
<1> QED BY <1>1, <1>7

\* The sharing of one asset, in whole units.
\* What positions could collect is the funds, up to a unit for each stretch and the dust.
IsRounded(C, v, n, F, r) ==
    LET S == n + r.count
        total == SumTo(C, n)
        dust == (SumTo(v, n) + r.shed) \div RAY
    IN  total \in Int /\ total <= F + S /\ F <= total + S + dust /\ dust \in Int

LEMMA SharingRounded ==
  ASSUME NEW A, NEW live, NEW e, NEW ps, IsPositions(ps), NEW D, NEW F, NEW r,
         Sharing(A, live, e, ps, D, F, r),
         NEW C, \A i \in 1 .. Len(ps) : C[i] = Worth(A, e, ps[i], D[i]),
         NEW v, \A i \in 1 .. Len(ps) : v[i] = ps[i].weight * EpochsActive(e, ps[i])
  PROVE  IsRounded(C, v, Len(ps), F, r)
<1> DEFINE n == Len(ps)
           fl == LowMarks(A, e, ps, D)
           fh == HighMarks(A, e, ps, D)
           one == [i \in 1 .. n |-> 1]
           rc == [i \in 1 .. n |-> RAY * C[i]]
           rv == [i \in 1 .. n |-> rc[i] + v[i]]
           x == RAY - 1
           y == 0 - x
           total == SumTo(C, n)
           V == SumTo(v, n)
           S == n + r.count
<1>1. /\ Indices(A, live, e) /\ F \in Int /\ r.count \in Nat /\ r.shed \in Nat
      /\ DebtsFit(A, e, ps, D) /\ Backed(A, e, ps, D, F, r)
  BY DEF Sharing, RebasesType
<1>2. /\ n \in Nat /\ \A i \in 1 .. n : IsPosition(ps[i]) /\ DebtFits(A, e, ps[i], D[i])
      /\ IsFamily(fl, n) /\ IsFamily(fh, n)
  BY <1>1, MarkFamilies DEF DebtsFit
<1>3. RAY \in Nat \ {0} /\ RAY \in Int /\ x \in Nat /\ y \in Int
  BY RayAssumption
<1>4. ASSUME NEW i \in 1 .. n
      PROVE  /\ C[i] \in Int /\ v[i] \in Nat /\ rc[i] \in Int /\ rc[i] = RAY * C[i]
             /\ rc[i] - x <= fl[i] /\ fh[i] <= rc[i] + v[i] + x
             /\ fl[i] \in Int /\ fh[i] \in Int
  <2> DEFINE p == ps[i]
             d == D[i]
  <2>1. IsPosition(p) /\ DebtFits(A, e, p, d)
    BY <1>2
  <2>2. fl[i] = LowMark(A, e, p, d) /\ fh[i] = HighMark(A, e, p, d)
        /\ C[i] = Worth(A, e, p, d) /\ v[i] = p.weight * EpochsActive(e, p) /\ rc[i] = RAY * C[i]
    BY DEF LowMarks, HighMarks
  <2> HIDE DEF p, d, rc, fl, fh
  <2>3. v[i] \in Nat
    BY <1>1, <2>1, <2>2, MarkTypes
  <2>4. /\ C[i] \in Int /\ RAY * C[i] - (RAY - 1) <= fl[i]
        /\ fh[i] <= RAY * C[i] + v[i] + (RAY - 1)
    BY <1>1, <2>1, <2>2, WorthBetweenMarks
  <2>5. RAY * C[i] \in Int
    BY <1>3, <2>4
  <2>6. fl[i] \in Int /\ fh[i] \in Int
    BY <1>2 DEF IsFamily
  <2> QED BY <2>2, <2>3, <2>4, <2>5, <2>6
<1>5. IsFamily(C, n) /\ IsFamily(v, n) /\ IsFamily(rc, n) /\ \A i \in 1 .. n : v[i] \in Nat
  BY <1>2, <1>4 DEF IsFamily
<1>6. IsFamily(one, n) /\ SumTo(one, n) = n * 1
  <2> DEFINE u == 1
  <2>1. u \in Int /\ \A i \in 1 .. n : one[i] = u
    OBVIOUS
  <2>2. n \in Nat
    BY <1>2
  <2> HIDE DEF one, n, u
  <2>3. IsFamily(one, n) /\ SumTo(one, n) = n * u
    BY <2>1, <2>2, SumOfConstant
  <2> QED BY <2>3 DEF u
<1>7. IsFamily(rv, n) /\ \A i \in 1 .. n : rv[i] = rc[i] + v[i]
  <2> HIDE DEF rc
  <2> QED BY <1>2, <1>4 DEF IsFamily
<1>8. /\ \A i \in 1 .. n : fl[i] >= rc[i] + y * one[i] /\ fh[i] <= rv[i] + x * one[i]
  <2>1. ASSUME NEW i \in 1 .. n PROVE fl[i] >= rc[i] + y * one[i] /\ fh[i] <= rv[i] + x * one[i]
    <3>1. one[i] = 1 /\ y * one[i] = y /\ x * one[i] = x /\ rv[i] = rc[i] + v[i]
      BY <1>3
    <3>2. y = 0 - x /\ x \in Nat /\ rc[i] \in Int /\ v[i] \in Nat
          /\ rc[i] - x <= fl[i] /\ fh[i] <= rc[i] + v[i] + x /\ fl[i] \in Int /\ fh[i] \in Int
      BY <1>3, <1>4
    <3> HIDE DEF x, y, rc, rv, fl, fh, one
    <3> QED BY <3>1, <3>2
  <2> QED BY <2>1
<1>9. \A i \in 1 .. n : rc[i] = RAY * C[i]
  OBVIOUS
<1>12. y = 0 - x /\ x = RAY - 1
  OBVIOUS
<1> HIDE DEF fl, fh, one, rc, rv, x, y
<1>10. SumTo(rc, n) = RAY * total
  BY <1>3, <1>5, <1>9, SumOfScaled
<1>11. /\ SumTo(fl, n) >= SumTo(rc, n) + y * SumTo(one, n)
       /\ SumTo(fh, n) <= SumTo(rv, n) + x * SumTo(one, n)
       /\ SumTo(rv, n) = SumTo(rc, n) + V
  <2>1. /\ IsFamily(fl, n) /\ IsFamily(fh, n) /\ IsFamily(rc, n) /\ IsFamily(rv, n)
        /\ IsFamily(one, n) /\ IsFamily(v, n) /\ x \in Int /\ y \in Int
        /\ \A i \in 1 .. n : fl[i] >= rc[i] + y * one[i]
        /\ \A i \in 1 .. n : fh[i] <= rv[i] + x * one[i]
        /\ \A i \in 1 .. n : rv[i] = rc[i] + v[i]
    BY <1>2, <1>3, <1>5, <1>6, <1>7, <1>8
  <2> HIDE DEF n
  <2>2. SumTo(fl, n) >= SumTo(rc, n) + y * SumTo(one, n)
    BY <2>1, SumFollows
  <2>3. SumTo(fh, n) <= SumTo(rv, n) + x * SumTo(one, n)
    BY <2>1, SumFollows
  <2>4. SumTo(rv, n) = SumTo(rc, n) + SumTo(v, n)
    BY <2>1, SumOfSum
  <2> QED BY <2>2, <2>3, <2>4
<1>13. total \in Int /\ V \in Nat /\ SumTo(fl, n) \in Int /\ SumTo(fh, n) \in Int
  BY <1>2, <1>5, SumIsInt, SumIsNat
<1>14. /\ SumTo(fl, n) <= RAY * (F + r.count)
       /\ RAY * F <= SumTo(fh, n) + x * r.count + r.shed
  BY <1>1, <1>12 DEF Backed, fl, fh
<1> HIDE DEF total, V, n
<1> DEFINE c == r.count
           T == RAY * total
           K == RAY * (F + c)
           Y == RAY * F
           P == x * c
           N == x * n
<1>15. /\ T \in Int /\ K \in Int /\ Y \in Int /\ P \in Int /\ N \in Int
       /\ y * n = 0 - N
       /\ x * S = N + P
  <2>1. n \in Int /\ c \in Int /\ x \in Int
    BY <1>1, <1>2, <1>3
  <2>2. y * n = 0 - x * n
    BY <1>12, <2>1, NegatedProduct
  <2>3. x * S = x * n + x * c
    BY <2>1, ProductOfSum
  <2>4. T \in Int /\ K \in Int /\ Y \in Int
    BY <1>1, <1>3, <1>13, <2>1
  <2>5. P \in Int /\ N \in Int
    BY <2>1
  <2> QED BY <2>2, <2>3, <2>4, <2>5
<1>16. /\ T - N <= K /\ Y <= T + V + N + P + r.shed
  <2>1. n * 1 = n
    BY <1>2
  <2>2. /\ SumTo(fl, n) >= T + y * n /\ SumTo(fh, n) <= (T + V) + N
        /\ SumTo(fl, n) <= K /\ Y <= SumTo(fh, n) + P + r.shed
    BY <1>6, <1>10, <1>11, <1>14, <2>1
  <2> DEFINE sl == SumTo(fl, n)
             sh == SumTo(fh, n)
             d == r.shed
  <2>3. /\ sl >= T + (0 - N) /\ sh <= (T + V) + N /\ sl <= K /\ Y <= sh + P + d
        /\ sl \in Int /\ sh \in Int /\ V \in Int /\ d \in Int
    BY <1>1, <1>13, <1>15, <2>2
  <2>4. T \in Int /\ K \in Int /\ Y \in Int /\ P \in Int /\ N \in Int
    BY <1>15
  <2> HIDE DEF T, K, Y, P, N, sl, sh, d
  <2>5. T - N <= K
    BY <2>3, <2>4
  <2>6. Y <= T + V + N + P + d
    BY <2>3, <2>4
  <2> QED BY <2>5, <2>6 DEF d
<1>17. total <= F + S
  <2> DEFINE w == total - (F + S)
             Z == RAY * w
  <2>1. w \in Int /\ S \in Nat /\ n \in Int
    BY <1>1, <1>2, <1>13
  <2>2. Z = T - K - RAY * n
    <3>1. w = (total - (F + c)) - n /\ total - (F + c) \in Int /\ F + c \in Int
      BY <1>1, <1>2, <1>13
    <3>2. RAY * ((total - (F + c)) - n) = RAY * (total - (F + c)) - RAY * n
      BY <1>3, <2>1, <3>1, ProductOfDifference
    <3>3. RAY * (total - (F + c)) = T - K
      BY <1>3, <1>13, <3>1, ProductOfDifference
    <3> QED BY <3>1, <3>2, <3>3
  <2>3. RAY * n = N + n
    <3>1. RAY = x + 1 /\ x \in Int /\ n \in Int
      BY <1>2, <1>3, <1>12
    <3>2. n * (x + 1) = n * x + n * 1
      BY <3>1, ProductOfSum
    <3>3. n * (x + 1) = RAY * n /\ n * x = N /\ n * 1 = n
      BY <3>1
    <3> QED BY <3>2, <3>3
  <2>5. Z <= 0
    <3> DEFINE rn == RAY * n
    <3>1. Z = T - K - rn /\ rn = N + n /\ T - N <= K /\ n \in Nat
      BY <1>2, <1>16, <2>2, <2>3
    <3> HIDE DEF Z, T, K, N, rn
    <3> QED BY <1>15, <3>1
  <2>6. w <= 0
    <3>1. SUFFICES ASSUME w > 0 PROVE FALSE
      BY <2>1
    <3>2. w \in Nat /\ 1 <= w
      BY <2>1, <3>1
    <3> HIDE DEF w
    <3>3. RAY * 1 <= RAY * w
      BY <1>3, <3>2, ProductIsMonotone
    <3>4. RAY * 1 = RAY
      BY <1>3
    <3> QED BY <1>3, <2>5, <3>3, <3>4, <3>2
  <2>7. total \in Int /\ F \in Int /\ S \in Int
    BY <1>1, <1>13, <2>1
  <2> HIDE DEF S
  <2> QED BY <2>6, <2>7 DEF w
<1>18. F <= total + S + (V + r.shed) \div RAY
  <2> DEFINE w == F - (total + S)
             W == V + r.shed
  <2>0. F \in Int /\ total \in Int /\ V \in Nat /\ r.shed \in Nat /\ S \in Nat
    BY <1>1, <1>2, <1>13
  <2>1. w \in Int /\ W \in Nat /\ S \in Nat /\ total + S \in Int
    <3> HIDE DEF total, V, S
    <3> QED BY <2>0
  <2>2. RAY * w = Y - T - RAY * S
    <3>1. RAY * w = Y - RAY * (total + S)
      BY <1>1, <1>3, <2>1, ProductOfDifference
    <3>2. RAY * (total + S) = T + RAY * S
      BY <1>3, <1>13, <2>1, ProductOfSum
    <3>3. RAY * S \in Int
      BY <1>3, <2>1
    <3> DEFINE a == RAY * (total + S)
               b == RAY * S
    <3>4. RAY * w = Y - a /\ a = T + b /\ b \in Int
      BY <3>1, <3>2, <3>3
    <3>5. Y - a = Y - T - b
      <4> HIDE DEF Y, T, a, b
      <4> QED BY <1>15, <3>4
    <3> QED BY <3>4, <3>5
  <2>3. RAY * S = x * S + S
    <3>1. RAY = x + 1 /\ x \in Int /\ S \in Int
      BY <1>3, <1>12, <2>1
    <3> HIDE DEF S
    <3>2. S * (x + 1) = S * x + S * 1
      BY <3>1, ProductOfSum
    <3>3. S * (x + 1) = RAY * S /\ S * x = x * S /\ S * 1 = S
      BY <3>1
    <3> QED BY <3>2, <3>3
  <2>4. RAY * w <= W
    <3> DEFINE rs == RAY * S
               rw == RAY * w
    <3>1. rw = Y - T - rs /\ rs = N + P + S /\ Y <= T + V + N + P + r.shed /\ S \in Nat
      BY <1>15, <1>16, <2>1, <2>2, <2>3
    <3>2. rw <= V + r.shed
      <4> DEFINE d == r.shed
      <4>1. rw = Y - T - rs /\ rs = N + P + S /\ Y <= T + V + N + P + d /\ S \in Nat
        BY <3>1
      <4>2. d \in Int /\ V \in Int
        BY <1>1, <1>13
      <4>3. Y \in Int /\ T \in Int /\ N \in Int /\ P \in Int
        BY <1>15
      <4> HIDE DEF Y, T, N, P, rs, rw, S, d
      <4>4. rw <= V + d
        BY <4>1, <4>2, <4>3
      <4> QED BY <4>4 DEF d
    <3> QED BY <3>2
  <2> HIDE DEF w, W
  <2>5. w <= W \div RAY
    BY <2>1, <2>4, RoundedDown
  <2>6. W \div RAY \in Int
    BY <1>3, <2>1
  <2> DEFINE dust == W \div RAY
  <2> HIDE DEF dust
  <2>7. w <= dust /\ dust \in Int
    BY <2>5, <2>6 DEF dust
  <2>8. F <= total + S + dust
    <3>1. total \in Int /\ F \in Int /\ S \in Int
      BY <1>1, <1>13, <2>1
    <3> HIDE DEF S
    <3> QED BY <2>7, <3>1 DEF w
  <2> QED BY <2>8 DEF dust, W
<1>19. (V + r.shed) \div RAY \in Int
  BY <1>1, <1>3, <1>13
<1> QED BY <1>13, <1>17, <1>18, <1>19 DEF total, V, n, S, IsRounded

\* The families the two properties sum over, as the lemmas above name them.
LEMMA SumsAtHand ==
  ASSUME IInv, RewardsInv
  PROVE  /\ Len(positions) \in Nat /\ Ids = 1 .. Len(positions)
         /\ \A i \in Ids :
               /\ Collectable(core.naraIndexAtEpoch, positions[i], positions[i].naraDebtRay)
                     = Worth(core.naraIndexAtEpoch, core.epoch, positions[i],
                             NaraDebts(positions)[i])
               /\ Collectable(core.ethIndexAtEpoch, positions[i], positions[i].ethDebtRay)
                     = Worth(core.ethIndexAtEpoch, core.epoch, positions[i],
                             EthDebts(positions)[i])
<1>1. IsPositions(positions)
  BY DEF IInv, PositionInv
<1>2. Len(positions) \in Nat
  BY <1>1, PositionFacts
<1> QED BY <1>2 DEF Ids, Collectable, Worth, EarnedIndex, Reach, Charged, NaraDebts, EthDebts

LEMMA NaraRewardsRounded ==
  ASSUME IInv, RewardsInv
  PROVE  NaraRewardsConserved
<1> DEFINE C == [i \in Ids |-> Collectable(core.naraIndexAtEpoch, positions[i],
                                           positions[i].naraDebtRay)]
           v == [i \in Ids |-> positions[i].weight * EpochsActive(core.epoch, positions[i])]
           D == NaraDebts(positions)
           F == core.totalNaraDripPaid - totalNaraDripClaimed
           n == Len(positions)
           total == SumTo(C, n)
           S == n + rebases.count
           dust == (SumTo(v, n) + rebases.shed) \div RAY
<1>1. IsPositions(positions) /\ n \in Nat /\ Ids = 1 .. n
  BY SumsAtHand DEF IInv, PositionInv
<1>2. Sharing(core.naraIndexAtEpoch, core.naraIndexRay, core.epoch, positions, D, F, rebases)
  BY DEF RewardsInv, SharedNara
<1>3. \A i \in 1 .. n : C[i] = Worth(core.naraIndexAtEpoch, core.epoch, positions[i], D[i])
  BY <1>1, SumsAtHand
<1>4. \A i \in 1 .. n : v[i] = positions[i].weight * EpochsActive(core.epoch, positions[i])
  BY <1>1
<1> HIDE DEF C, v, D, F
<1>5. total \in Int /\ total <= F + S /\ F <= total + S + dust /\ dust \in Int
  <2>1. IsRounded(C, v, n, F, rebases)
    BY <1>1, <1>2, <1>3, <1>4, SharingRounded
  <2> QED BY <2>1 DEF IsRounded
<1>6. /\ OutstandingNara = total /\ Stretches = S /\ IndexDust = dust
  BY DEF OutstandingNara, Stretches, IndexDust, SumPositions, C, v
<1>7. /\ core.totalNaraDripPaid \in Nat /\ totalNaraDripClaimed \in Nat
      /\ rebases.count \in Nat /\ F = core.totalNaraDripPaid - totalNaraDripClaimed
      /\ S \in Nat
  <2>1. /\ core.totalNaraDripPaid \in Nat /\ totalNaraDripClaimed \in Nat
        /\ rebases.count \in Nat /\ rebases.shed \in Nat
    BY DEF IInv, BooksInv, LedgerInv, Books, CoreType, FundsInv, RebasesType
  <2> QED BY <1>1, <2>1 DEF F
<1> HIDE DEF total, S, dust
<1> QED BY <1>5, <1>6, <1>7 DEF NaraRewardsConserved

\* Claims, extensions in an open epoch, unlocks and multi-epoch catch-ups pay out every
\* NARA of NARAEngine's drip once: what is claimed and still collectable is what was
\* distributed, up to the rounding of each stretch and of each index increment.
THEOREM NaraRewardsAreConserved == Spec => []NaraRewardsConserved
<1>1. IInv /\ RewardsInv => NaraRewardsConserved
  BY NaraRewardsRounded
<1> QED BY <1>1, RewardsInvariant, PTL

LEMMA EthRewardsRounded ==
  ASSUME IInv, RewardsInv
  PROVE  EthRewardsConserved
<1> DEFINE C == [i \in Ids |-> Collectable(core.ethIndexAtEpoch, positions[i],
                                           positions[i].ethDebtRay)]
           v == [i \in Ids |-> positions[i].weight * EpochsActive(core.epoch, positions[i])]
           D == EthDebts(positions)
           F == FreeEth(core, eth)
           n == Len(positions)
           total == SumTo(C, n)
           S == n + rebases.count
           dust == (SumTo(v, n) + rebases.shed) \div RAY
<1>1. IsPositions(positions) /\ n \in Nat /\ Ids = 1 .. n
  BY SumsAtHand DEF IInv, PositionInv
<1>2. Sharing(core.ethIndexAtEpoch, core.ethIndexRay, core.epoch, positions, D, F, rebases)
  BY DEF RewardsInv, SharedEth
<1>3. \A i \in 1 .. n : C[i] = Worth(core.ethIndexAtEpoch, core.epoch, positions[i], D[i])
  BY <1>1, SumsAtHand
<1>4. \A i \in 1 .. n : v[i] = positions[i].weight * EpochsActive(core.epoch, positions[i])
  BY <1>1
<1> HIDE DEF C, v, D, F
<1>5. total \in Int /\ total <= F + S /\ F <= total + S + dust /\ dust \in Int
  <2>1. IsRounded(C, v, n, F, rebases)
    BY <1>1, <1>2, <1>3, <1>4, SharingRounded
  <2> QED BY <2>1 DEF IsRounded
<1>6. /\ OutstandingEth = total /\ Stretches = S /\ IndexDust = dust
  BY DEF OutstandingEth, Stretches, IndexDust, SumPositions, C, v
<1>7. /\ eth.balance \in Nat /\ eth.accumulatedTreasuryEthFees \in Nat
      /\ core.pendingEthForNextEpoch \in Nat
      /\ rebases.count \in Nat /\ F = eth.balance - eth.accumulatedTreasuryEthFees - core.pendingEthForNextEpoch
      /\ S \in Nat
  <2>1. /\ eth.balance \in Nat /\ eth.accumulatedTreasuryEthFees \in Nat
        /\ core.pendingEthForNextEpoch \in Nat
        /\ rebases.count \in Nat /\ rebases.shed \in Nat
    BY DEF IInv, BooksInv, LedgerInv, Books, CoreType, FundsInv, RebasesType, EthType
  <2> QED BY <1>1, <2>1 DEF F, FreeEth
<1> HIDE DEF total, S, dust
<1> QED BY <1>5, <1>6, <1>7 DEF EthRewardsConserved

\* The same for ETH: beside the fees and the ETH queued for the next epoch, NARAEngine's
\* balance is what positions can still collect, up to the same rounding.
THEOREM EthRewardsAreConserved == Spec => []EthRewardsConserved
<1>1. IInv /\ RewardsInv => EthRewardsConserved
  BY EthRewardsRounded
<1> QED BY <1>1, RewardsInvariant, PTL

--------------------------------------------------------------------------------
(* Reward tokens.  Every position has a mark: RAY times what it has earned so far, less *)
(* what its claims took and, until the first of them, the index it opened with.  A      *)
(* notification raises the marks by at most what it brings, so that their sum never     *)
(* exceeds RAY times the tokens held.                                                   *)

\* The index up to which p has earned by now, and what its claims and its opening cost it,
\* rounded up: a claim rounds down what it pays, and the first one also what it charges.
TokenEarned(t, p) == TokenIndexAtOrBefore(t, p.unlockEpoch - 1)
TokenCost(t, p) ==
    IF p.tokenDebtRay = 0 THEN p.tokenWeight * TokenIndexAtOrBefore(t, p.activationEpoch - 1)
    ELSE RAY * p.tokenDebtRay + (RAY - 1)
TokenMark(t, p) == p.tokenWeight * TokenEarned(t, p) - TokenCost(t, p)
TokenMarks(t, ps) == [i \in 1 .. Len(ps) |-> TokenMark(t, ps[i])]

\* The checkpoints of t are those of epochs up to e, in order, and end at the live index.
CheckpointsGrow(t, e) ==
    LET marks == t.checkpoints
    IN  /\ \A k \in 1 .. Len(marks) : marks[k].epoch <= e /\ marks[k].indexRay <= t.indexRay
        /\ \A k \in 1 .. Len(marks) : \A j \in 1 .. k - 1 :
               marks[j].epoch < marks[k].epoch /\ marks[j].indexRay <= marks[k].indexRay
        /\ t.indexRay = IF marks = <<>> THEN 0 ELSE marks[Len(marks)].indexRay

\* A claimed position has started, and was paid for no more than it has earned.
TokenDebtFits(t, e, p) ==
    /\ p.tokenWeight <= p.weight
    /\ p.tokenDebtRay # 0 => /\ p.activationEpoch <= e
                             /\ RAY * p.tokenDebtRay <= p.tokenWeight * TokenEarned(t, p)

TokenShared(t, e, ps) ==
    /\ CheckpointsGrow(t, e)
    /\ \A i \in 1 .. Len(ps) : TokenDebtFits(t, e, ps[i])
    /\ SumTo(TokenMarks(t, ps), Len(ps)) <= RAY * t.balance

TokenInv == TokenShared(token, core.epoch, positions)

--------------------------------------------------------------------------------
(* The index at an epoch *)

\* The first n checkpoints are those of epochs up to x.
SplitsAt(marks, n, x) ==
    /\ \A k \in 1 .. n : marks[k].epoch <= x
    /\ \A k \in n + 1 .. Len(marks) : marks[k].epoch > x

LEMMA CheckpointFacts ==
  ASSUME NEW t, t \in TokenType
  PROVE  /\ t.checkpoints \in Seq([epoch : Epochs, indexRay : Nat])
         /\ Len(t.checkpoints) \in Nat /\ DOMAIN t.checkpoints = 1 .. Len(t.checkpoints)
         /\ t.indexRay \in Nat /\ t.balance \in Nat
         /\ \A k \in 1 .. Len(t.checkpoints) : /\ t.checkpoints[k].epoch \in Nat
                                               /\ t.checkpoints[k].indexRay \in Nat
<1> DEFINE E == [epoch : Epochs, indexRay : Nat]
<1>1. /\ t.checkpoints \in Seq(E) /\ t.indexRay \in Nat /\ t.balance \in Nat
  BY DEF TokenType
<1>2. \A x \in E : x.epoch \in Nat /\ x.indexRay \in Nat
  BY EngineAssumption DEF Epochs
<1> HIDE DEF E
<1>3. Len(t.checkpoints) \in Nat /\ DOMAIN t.checkpoints = 1 .. Len(t.checkpoints)
      /\ \A k \in 1 .. Len(t.checkpoints) : t.checkpoints[k] \in E
  BY <1>1
<1> QED BY <1>1, <1>2, <1>3 DEF E

LEMMA SplitExists ==
  ASSUME NEW t, t \in TokenType, NEW e, CheckpointsGrow(t, e), NEW x \in Int
  PROVE  \E n \in 0 .. Len(t.checkpoints) : SplitsAt(t.checkpoints, n, x)
<1> DEFINE marks == t.checkpoints
           N == Len(marks)
           S == {k \in 1 .. N : marks[k].epoch > x}
<1>1. /\ N \in Nat /\ \A k \in 1 .. N : marks[k].epoch \in Nat
      /\ \A k \in 1 .. N : \A j \in 1 .. k - 1 : marks[j].epoch < marks[k].epoch
  BY CheckpointFacts DEF CheckpointsGrow
<1>2. CASE S = {}
  <2>1. SplitsAt(marks, N, x)
    BY <1>1, <1>2 DEF SplitsAt
  <2> QED BY <1>1, <2>1
<1>3. CASE S # {}
  <2>1. S \in SUBSET Nat
    BY <1>1
  <2> HIDE DEF S
  <2>2. PICK m \in S : \A y \in S : m <= y
    BY <1>3, <2>1, LeastExists
  <2> USE DEF S
  <2> HIDE DEF marks, N
  <2>3. m \in 1 .. N /\ m - 1 \in 0 .. N /\ marks[m].epoch > x
    BY <1>1, <2>2
  <2>4. \A k \in 1 .. m - 1 : marks[k].epoch <= x
    <3>1. SUFFICES ASSUME NEW k \in 1 .. m - 1 PROVE marks[k].epoch <= x
      OBVIOUS
    <3>2. k \in 1 .. N /\ k < m
      BY <1>1, <2>3
    <3>3. k \notin S
      BY <2>2, <2>3, <3>2
    <3> QED BY <1>1, <3>2, <3>3
  <2>5. \A k \in m .. N : marks[k].epoch > x
    <3>1. SUFFICES ASSUME NEW k \in m .. N PROVE marks[k].epoch > x
      OBVIOUS
    <3>2. CASE k = m
      BY <2>3, <3>2
    <3>3. CASE k # m
      <4>1. k \in 1 .. N /\ m \in 1 .. k - 1
        BY <1>1, <2>3, <3>3
      <4> QED BY <1>1, <2>3, <4>1
    <3> QED BY <3>2, <3>3
  <2>6. m - 1 + 1 = m
    BY <2>3, <1>1
  <2>7. SplitsAt(marks, m - 1, x)
    BY <2>4, <2>5, <2>6 DEF SplitsAt, N
  <2> QED BY <2>3, <2>7 DEF marks, N
<1> QED BY <1>2, <1>3

LEMMA IndexOfSplit ==
  ASSUME NEW t, t \in TokenType, NEW x \in Int,
         NEW n \in 0 .. Len(t.checkpoints), SplitsAt(t.checkpoints, n, x)
  PROVE  TokenIndexAtOrBefore(t, x) = IF n = 0 THEN 0 ELSE t.checkpoints[n].indexRay
<1> DEFINE marks == t.checkpoints
           known == {k \in DOMAIN marks : marks[k].epoch <= x}
<1>1. /\ Len(marks) \in Nat /\ DOMAIN marks = 1 .. Len(marks)
      /\ \A k \in 1 .. Len(marks) : marks[k].epoch \in Nat
  BY CheckpointFacts
<1>2. known = 1 .. n
  <2>1. ASSUME NEW k \in 1 .. Len(marks) PROVE marks[k].epoch <= x <=> k \in 1 .. n
    <3>1. CASE k \in 1 .. n
      BY <3>1 DEF SplitsAt
    <3>2. CASE k \notin 1 .. n
      <4>1. k \in n + 1 .. Len(marks)
        BY <1>1, <3>2
      <4>2. marks[k].epoch > x /\ marks[k].epoch \in Nat
        BY <1>1, <4>1 DEF SplitsAt
      <4> QED BY <3>2, <4>2
    <3> QED BY <3>1, <3>2
  <2> QED BY <1>1, <2>1
<1>3. Cardinality(1 .. n) = n
  BY <1>1, FS_Interval
<1>4. 1 .. n = {} <=> n = 0
  BY <1>1
<1> HIDE DEF known
<1>5. TokenIndexAtOrBefore(t, x) =
          IF known = {} THEN 0 ELSE marks[Cardinality(known)].indexRay
  BY DEF TokenIndexAtOrBefore, known
<1> HIDE DEF marks
<1>6. CASE n = 0
  BY <1>2, <1>4, <1>5, <1>6
<1>7. CASE n # 0
  <2>1. known # {} /\ Cardinality(known) = n
    BY <1>2, <1>3, <1>4, <1>7
  <2> QED BY <1>5, <1>7, <2>1 DEF marks
<1> QED BY <1>6, <1>7

\* The index never falls, and from the last checkpoint on it is the live one.
LEMMA IndexFacts ==
  ASSUME NEW t, t \in TokenType, NEW e \in Nat, CheckpointsGrow(t, e), NEW x \in Int, NEW y \in Int
  PROVE  /\ TokenIndexAtOrBefore(t, x) \in Nat
         /\ x <= y => TokenIndexAtOrBefore(t, x) <= TokenIndexAtOrBefore(t, y)
         /\ TokenIndexAtOrBefore(t, x) <= t.indexRay
         /\ x >= e => TokenIndexAtOrBefore(t, x) = t.indexRay
<1> DEFINE marks == t.checkpoints
           N == Len(marks)
           At(n) == IF n = 0 THEN 0 ELSE marks[n].indexRay
<1>1. /\ N \in Nat /\ t.indexRay \in Nat
      /\ \A k \in 1 .. N : marks[k].epoch \in Nat /\ marks[k].indexRay \in Nat
      /\ marks \in Seq([epoch : Epochs, indexRay : Nat])
  BY CheckpointFacts
<1>2. /\ \A k \in 1 .. N : marks[k].epoch <= e /\ marks[k].indexRay <= t.indexRay
      /\ \A k \in 1 .. N : \A j \in 1 .. k - 1 : marks[j].indexRay <= marks[k].indexRay
      /\ t.indexRay = IF marks = <<>> THEN 0 ELSE marks[N].indexRay
  BY DEF CheckpointsGrow
<1>3. PICK n \in 0 .. N : SplitsAt(marks, n, x)
  BY SplitExists
<1>4. PICK m \in 0 .. N : SplitsAt(marks, m, y)
  BY SplitExists
<1>5. TokenIndexAtOrBefore(t, x) = At(n) /\ TokenIndexAtOrBefore(t, y) = At(m)
  BY <1>3, <1>4, IndexOfSplit
<1>6. marks = <<>> <=> N = 0
  BY <1>1
<1> HIDE DEF marks, N
<1>7. At(n) \in Nat /\ At(n) <= t.indexRay
  BY <1>1, <1>2
<1>8. x <= y => At(n) <= At(m)
  <2>1. SUFFICES ASSUME x <= y PROVE At(n) <= At(m)
    OBVIOUS
  <2>2. n <= m
    <3>1. SUFFICES ASSUME n > m PROVE FALSE
      BY <1>1
    <3>2. n \in 1 .. n /\ n \in m + 1 .. N /\ n \in 1 .. N
      BY <1>1, <3>1
    <3>3. marks[n].epoch <= x /\ marks[n].epoch > y
      BY <1>3, <1>4, <3>2 DEF SplitsAt, N
    <3> QED BY <1>1, <2>1, <3>2, <3>3
  <2>3. CASE n = 0 \/ n = m
    BY <1>1, <2>3
  <2>4. CASE n # 0 /\ n # m
    <3>1. m \in 1 .. N /\ n \in 1 .. m - 1 /\ m # 0
      BY <1>1, <2>2, <2>4
    <3> QED BY <1>2, <2>4, <3>1
  <2> QED BY <2>3, <2>4
<1>9. x >= e => At(n) = t.indexRay
  <2>1. SUFFICES ASSUME x >= e PROVE At(n) = t.indexRay
    OBVIOUS
  <2>2. n = N
    <3>1. SUFFICES ASSUME n # N PROVE FALSE
      OBVIOUS
    <3>2. N \in n + 1 .. N /\ N \in 1 .. N
      BY <1>1, <3>1
    <3>3. marks[N].epoch > x
      BY <1>3, <3>2 DEF SplitsAt, N
    <3> QED BY <1>1, <1>2, <2>1, <3>2, <3>3
  <2> QED BY <1>2, <1>6, <2>2
<1> HIDE DEF At
<1> QED BY <1>5, <1>7, <1>8, <1>9
\* m2 is marks up to its last entry, which is for epoch e, later than all it keeps.
IsWritten(marks, m2, e, index) ==
    LET M == Len(m2)
    IN  /\ M \in Nat \ {0} /\ m2[M].epoch = e /\ m2[M].indexRay = index
        /\ Len(marks) = M - 1 \/ Len(marks) = M
        /\ \A k \in 1 .. M - 1 : m2[k] = marks[k] /\ marks[k].epoch < e
        /\ Len(marks) = M => marks[M].epoch = e

LEMMA CheckpointWritten ==
  ASSUME NEW t, t \in TokenType, NEW e \in Epochs, CheckpointsGrow(t, e), NEW index \in Nat,
         NEW m2, m2 = WriteTokenIndexCheckpoint(t.checkpoints, e, index)
  PROVE  IsWritten(t.checkpoints, m2, e, index)
<1> DEFINE E == [epoch : Epochs, indexRay : Nat]
           marks == t.checkpoints
           N == Len(marks)
           entry == [epoch |-> e, indexRay |-> index]
<1>1. /\ N \in Nat /\ DOMAIN marks = 1 .. N /\ marks \in Seq(E)
      /\ \A k \in 1 .. N : marks[k].epoch \in Nat
  BY CheckpointFacts
<1>2. /\ \A k \in 1 .. N : marks[k].epoch <= e
      /\ \A k \in 1 .. N : \A j \in 1 .. k - 1 : marks[j].epoch < marks[k].epoch
  BY DEF CheckpointsGrow
<1>3. e \in Nat /\ entry \in E /\ entry.epoch = e /\ entry.indexRay = index
  BY EngineAssumption DEF Epochs
<1>4. m2 = IF N # 0 /\ marks[N].epoch = e THEN [marks EXCEPT ![N] = entry]
           ELSE Append(marks, entry)
  BY DEF WriteTokenIndexCheckpoint
<1>a. N = Len(marks)
  OBVIOUS
<1> HIDE DEF E, entry, marks, N
<1>5. CASE N # 0 /\ marks[N].epoch = e
  <2>1. N \in 1 .. N /\ m2 = [marks EXCEPT ![N] = entry]
    BY <1>1, <1>4, <1>5
  <2>2. m2 \in [1 .. N -> E]
    <3>1. marks \in [1 .. N -> E]
      BY <1>1
    <3> QED BY <2>1, <3>1, <1>3
  <2>3. Len(m2) = N
    <3>1. m2 \in Seq(E) /\ DOMAIN m2 = 1 .. N
      BY <1>1, <2>2, SeqDef
    <3>2. Len(m2) \in Nat /\ DOMAIN m2 = 1 .. Len(m2)
      BY <3>1, LenProperties
    <3> QED BY <3>1, <3>2, <1>1
  <2>4. m2[N] = entry
    BY <1>1, <2>1
  <2>5. \A k \in 1 .. N - 1 : m2[k] = marks[k] /\ marks[k].epoch < e
    BY <1>1, <1>2, <1>5, <2>1
  <2> QED BY <1>1, <1>3, <1>5, <2>3, <2>4, <2>5 DEF IsWritten, marks, N
<1>6. CASE ~ (N # 0 /\ marks[N].epoch = e)
  <2>1. m2 = Append(marks, entry)
    BY <1>4, <1>6
  <2>2. /\ Len(m2) = N + 1 /\ m2[N + 1] = entry /\ \A k \in 1 .. N : m2[k] = marks[k]
    BY <1>1, <1>3, <1>a, <2>1
  <2>3. \A k \in 1 .. N : marks[k].epoch < e
    <3>1. SUFFICES ASSUME NEW k \in 1 .. N PROVE marks[k].epoch < e
      OBVIOUS
    <3>2. N \in 1 .. N /\ N # 0
      BY <1>1
    <3>3. marks[N].epoch < e
      BY <1>1, <1>2, <1>3, <1>6, <3>2
    <3>4. CASE k = N
      BY <3>3, <3>4
    <3>5. CASE k # N
      <4>1. k \in 1 .. N - 1
        BY <1>1, <3>5
      <4> QED BY <1>1, <1>2, <1>3, <3>2, <3>3, <4>1
    <3> QED BY <3>4, <3>5
  <2>4. N + 1 - 1 = N /\ N # N + 1 /\ N + 1 \in Nat \ {0}
    BY <1>1
  <2> QED BY <1>3, <2>2, <2>3, <2>4 DEF IsWritten, marks, N
<1> QED BY <1>5, <1>6

\* A notification moves the index from its epoch on, and not before.
LEMMA IndexWritten ==
  ASSUME NEW t, t \in TokenType, NEW e \in Epochs, CheckpointsGrow(t, e), NEW u, u \in TokenType,
         u.indexRay >= t.indexRay, IsWritten(t.checkpoints, u.checkpoints, e, u.indexRay)
  PROVE  /\ CheckpointsGrow(u, e)
         /\ \A x \in Int : x < e => TokenIndexAtOrBefore(u, x) = TokenIndexAtOrBefore(t, x)
<1> DEFINE marks == t.checkpoints
           N == Len(marks)
           m2 == u.checkpoints
           M == Len(m2)
<1>1. /\ N \in Nat /\ \A k \in 1 .. N : marks[k].epoch \in Nat /\ marks[k].indexRay \in Nat
      /\ M \in Nat /\ \A k \in 1 .. M : m2[k].epoch \in Nat /\ m2[k].indexRay \in Nat
      /\ t.indexRay \in Nat /\ u.indexRay \in Nat /\ e \in Nat
      /\ m2 \in Seq([epoch : Epochs, indexRay : Nat])
  <2>1. e \in Nat
    BY EngineAssumption DEF Epochs
  <2> QED BY <2>1, CheckpointFacts
<1>2. /\ \A k \in 1 .. N : marks[k].epoch <= e /\ marks[k].indexRay <= t.indexRay
      /\ \A k \in 1 .. N : \A j \in 1 .. k - 1 :
             marks[j].epoch < marks[k].epoch /\ marks[j].indexRay <= marks[k].indexRay
  BY DEF CheckpointsGrow
<1>3. /\ M \in Nat \ {0} /\ m2[M].epoch = e /\ m2[M].indexRay = u.indexRay
      /\ N = M - 1 \/ N = M
      /\ \A k \in 1 .. M - 1 : m2[k] = marks[k] /\ marks[k].epoch < e
      /\ N = M => marks[M].epoch = e
  BY DEF IsWritten
<1>4. m2 # <<>>
  BY <1>1, <1>3
<1> HIDE DEF marks, m2, N, M
<1>5. \A k \in 1 .. M - 1 : k \in 1 .. N
  BY <1>1, <1>3
<1>6. \A k \in 1 .. M : m2[k].epoch <= e /\ m2[k].indexRay <= u.indexRay
  <2>1. SUFFICES ASSUME NEW k \in 1 .. M
                 PROVE  m2[k].epoch <= e /\ m2[k].indexRay <= u.indexRay
    OBVIOUS
  <2>2. CASE k = M
    BY <1>1, <1>3, <2>2
  <2>3. CASE k # M
    <3>0. k \in 1 .. M - 1
      BY <1>3, <2>3
    <3>1. k \in 1 .. M - 1 /\ k \in 1 .. N
      BY <1>5, <3>0
    <3>2. m2[k] = marks[k] /\ marks[k].epoch < e /\ marks[k].indexRay <= t.indexRay
      BY <1>2, <1>3, <3>1
    <3> DEFINE x == marks[k].epoch
               y == marks[k].indexRay
    <3>3. /\ x \in Nat /\ y \in Nat /\ e \in Nat /\ t.indexRay \in Nat /\ u.indexRay \in Nat
          /\ x < e /\ y <= t.indexRay /\ m2[k].epoch = x /\ m2[k].indexRay = y
      BY <1>1, <3>1, <3>2
    <3> HIDE DEF x, y
    <3> QED BY <3>3
  <2> QED BY <2>2, <2>3
<1>7. \A k \in 1 .. M : \A j \in 1 .. k - 1 :
          m2[j].epoch < m2[k].epoch /\ m2[j].indexRay <= m2[k].indexRay
  <2>1. SUFFICES ASSUME NEW k \in 1 .. M, NEW j \in 1 .. k - 1
                 PROVE  m2[j].epoch < m2[k].epoch /\ m2[j].indexRay <= m2[k].indexRay
    OBVIOUS
  <2>2. j \in 1 .. M - 1 /\ j \in 1 .. N /\ m2[j] = marks[j] /\ marks[j].epoch < e
    BY <1>1, <1>3, <1>5
  <2>3. CASE k = M
    <3>1. m2[k].epoch = e /\ m2[k].indexRay = u.indexRay /\ m2[j].epoch < e
      BY <1>3, <2>2, <2>3
    <3> DEFINE y == m2[j].indexRay
    <3>2. y <= t.indexRay /\ y \in Nat
      BY <1>1, <1>2, <2>2
    <3> HIDE DEF y
    <3>3. y <= u.indexRay
      BY <1>1, <3>2
    <3> QED BY <3>1, <3>3 DEF y
  <2>4. CASE k # M
    <3>1. k \in 1 .. M - 1 /\ k \in 1 .. N /\ m2[k] = marks[k]
      BY <1>1, <1>3, <1>5, <2>4
    <3> QED BY <1>2, <2>2, <3>1
  <2> QED BY <2>3, <2>4
<1>8. CheckpointsGrow(u, e)
  BY <1>3, <1>4, <1>6, <1>7 DEF CheckpointsGrow, m2, M
<1>9. ASSUME NEW x \in Int, x < e
      PROVE  TokenIndexAtOrBefore(u, x) = TokenIndexAtOrBefore(t, x)
  <2>1. PICK n \in 0 .. N : SplitsAt(marks, n, x)
    <3>1. \E n \in 0 .. Len(t.checkpoints) : SplitsAt(t.checkpoints, n, x)
      BY SplitExists
    <3> QED BY <3>1 DEF marks, N
  <2>2. /\ \A k \in 1 .. n : marks[k].epoch <= x
        /\ \A k \in n + 1 .. N : marks[k].epoch > x
    BY <2>1 DEF SplitsAt, N
  <2>3. n <= M - 1
    <3>1. SUFFICES ASSUME n > M - 1 PROVE FALSE
      BY <1>3
    <3>2. n = M /\ N = M /\ M \in 1 .. n
      BY <1>1, <1>3, <3>1
    <3>3. marks[M].epoch = e /\ marks[M].epoch <= x
      BY <1>3, <2>2, <3>2
    <3> QED BY <1>1, <1>9, <3>3
  <2>4. \A k \in 1 .. n : m2[k].epoch <= x
    <3>1. \A k \in 1 .. n : k \in 1 .. M - 1
      BY <1>1, <1>3, <2>3
    <3> QED BY <1>3, <2>2, <3>1
  <2>5. \A k \in n + 1 .. M : m2[k].epoch > x
    <3>1. SUFFICES ASSUME NEW k \in n + 1 .. M PROVE m2[k].epoch > x
      OBVIOUS
    <3>2. CASE k = M
      BY <1>1, <1>3, <1>9, <3>2
    <3>3. CASE k # M
      <4>1. k \in 1 .. M - 1 /\ k \in n + 1 .. N
        BY <1>1, <1>3, <1>5, <3>3
      <4> QED BY <1>3, <2>2, <4>1
    <3> QED BY <3>2, <3>3
  <2>6. n \in 0 .. M /\ SplitsAt(m2, n, x)
    BY <1>1, <1>3, <2>3, <2>4, <2>5 DEF SplitsAt, M
  <2>7. TokenIndexAtOrBefore(t, x) = IF n = 0 THEN 0 ELSE marks[n].indexRay
    BY <2>1, IndexOfSplit DEF marks, N
  <2>8. TokenIndexAtOrBefore(u, x) = IF n = 0 THEN 0 ELSE m2[n].indexRay
    BY <2>6, IndexOfSplit DEF m2, M
  <2>9. n # 0 => m2[n] = marks[n]
    <3>1. n # 0 => n \in 1 .. M - 1
      BY <1>3, <2>3
    <3> QED BY <1>3, <3>1
  <2> QED BY <2>7, <2>8, <2>9
<1> QED BY <1>8, <1>9
--------------------------------------------------------------------------------
(* What one position has earned in tokens *)

LEMMA TokenMarkFacts ==
  ASSUME NEW t, t \in TokenType, NEW e \in Nat, CheckpointsGrow(t, e), NEW p, IsPosition(p)
  PROVE  /\ TokenEarned(t, p) \in Nat /\ TokenCost(t, p) \in Int /\ TokenMark(t, p) \in Int
         /\ TokenIndexAtOrBefore(t, p.activationEpoch - 1) \in Nat
         /\ TokenIndexAtOrBefore(t, p.activationEpoch - 1) <= TokenEarned(t, p)
         /\ e < p.unlockEpoch => TokenEarned(t, p) = t.indexRay
         /\ e < p.activationEpoch =>
                TokenIndexAtOrBefore(t, p.activationEpoch - 1) = t.indexRay
<1> DEFINE S == TokenIndexAtOrBefore(t, p.activationEpoch - 1)
           U == TokenIndexAtOrBefore(t, p.unlockEpoch - 1)
           w == p.tokenWeight
           d == p.tokenDebtRay
<1>1. /\ p.activationEpoch - 1 \in Int /\ p.unlockEpoch - 1 \in Int /\ w \in Nat
      /\ d \in Nat /\ p.activationEpoch - 1 <= p.unlockEpoch - 1
      /\ p.activationEpoch \in Nat /\ p.unlockEpoch \in Nat /\ RAY \in Nat
  BY PositionParts, RayAssumption
<1>2. /\ S \in Nat /\ U \in Nat /\ S <= U
      /\ p.unlockEpoch - 1 >= e => U = t.indexRay
      /\ p.activationEpoch - 1 >= e => S = t.indexRay
  BY <1>1, IndexFacts
<1>3. TokenEarned(t, p) = U
  BY DEF TokenEarned
<1> HIDE DEF S, U, w, d
<1>4. w * S \in Int /\ w * U \in Int /\ RAY * d + (RAY - 1) \in Int
  BY <1>1, <1>2
<1>5. TokenCost(t, p) = IF d = 0 THEN w * S ELSE RAY * d + (RAY - 1)
  BY DEF TokenCost, w, d, S
<1>6. TokenMark(t, p) = w * U - TokenCost(t, p)
  BY <1>3 DEF TokenMark, w
<1>7. TokenCost(t, p) \in Int /\ TokenMark(t, p) \in Int
  BY <1>4, <1>5, <1>6
<1>8. e < p.unlockEpoch => U = t.indexRay
  BY <1>1, <1>2
<1>9. e < p.activationEpoch => S = t.indexRay
  BY <1>1, <1>2
<1> QED BY <1>2, <1>3, <1>7, <1>8, <1>9 DEF S

\* What a position may collect is the difference of two quotients that its mark bounds.
LEMMA TokenOwedParts ==
  ASSUME NEW t, t \in TokenType, NEW e \in Nat, CheckpointsGrow(t, e), NEW p, IsPosition(p),
         TokenDebtFits(t, e, p)
  PROVE  \E gross \in Nat, debt \in Nat :
            /\ TokenOwed(t, e, p).owed = IF gross > debt THEN gross - debt ELSE 0
            /\ gross > debt => TokenOwed(t, e, p).debt = gross
            /\ RAY * gross <= p.tokenWeight * TokenEarned(t, p)
            /\ TokenCost(t, p) <= RAY * debt + (RAY - 1)
            /\ TokenCost(t, p) <= p.tokenWeight * TokenEarned(t, p) + (RAY - 1)
<1> DEFINE S == TokenIndexAtOrBefore(t, p.activationEpoch - 1)
           U == TokenEarned(t, p)
           w == p.tokenWeight
           d == p.tokenDebtRay
           gross == MulDiv(w, U, RAY)
           debt == IF d = 0 /\ S # 0 THEN MulDiv(w, S, RAY) ELSE d
<1>1. /\ S \in Nat /\ U \in Nat /\ S <= U
      /\ e < p.unlockEpoch => U = t.indexRay
  BY TokenMarkFacts
<1>2. w \in Nat /\ d \in Nat /\ RAY \in Nat \ {0} /\ p.unlockEpoch \in Nat
  BY PositionParts, RayAssumption
<1>3. TokenOwed(t, e, p) = IF gross > debt THEN [owed |-> gross - debt, debt |-> gross]
                           ELSE [owed |-> 0, debt |-> d]
  <2>1. TokenRewardEndIndex(t, e, p) = U
    BY <1>1, <1>2 DEF TokenRewardEndIndex, TokenEarned
  <2> HIDE DEF U, S
  <2>2. TokenOwed(t, e, p) = TokenAccrual(d, w, U, S)
    BY <2>1 DEF TokenOwed, S
  <2> QED BY <2>2 DEF TokenAccrual
<1>4. TokenCost(t, p) = IF d = 0 THEN w * S ELSE RAY * d + (RAY - 1)
  BY DEF TokenCost
<1>5. d # 0 => RAY * d <= w * U
  BY DEF TokenDebtFits
<1> HIDE DEF S, U, w, d
<1>6. w * S \in Nat /\ w * U \in Nat /\ RAY * d \in Nat /\ w * S <= w * U
  BY <1>1, <1>2, ProductIsNat, ProductIsMonotone
<1>7. gross \in Nat /\ RAY * gross <= w * U
  BY <1>1, <1>2, MulDivBounds
<1>8. debt \in Nat /\ TokenCost(t, p) <= RAY * debt + (RAY - 1)
  <2>1. CASE d # 0
    BY <1>2, <1>4, <1>6, <2>1
  <2>2. CASE d = 0 /\ S = 0
    <3>1. w * S = 0 /\ debt = 0 /\ RAY * 0 = 0
      BY <1>2, <2>2
    <3> QED BY <1>2, <1>4, <2>2, <3>1
  <2>3. CASE d = 0 /\ S # 0
    <3>1. debt = MulDiv(w, S, RAY) /\ TokenCost(t, p) = w * S
      BY <1>4, <2>3
    <3> HIDE DEF debt
    <3>2. MulDiv(w, S, RAY) \in Nat /\ w * S <= RAY * MulDiv(w, S, RAY) + RAY - 1
      BY <1>1, <1>2, MulDivBounds
    <3> DEFINE Z == RAY * debt
    <3>3. Z \in Nat /\ w * S <= Z + RAY - 1
      BY <1>2, <3>1, <3>2, ProductIsNat
    <3> DEFINE V == w * S
    <3>4. V \in Nat /\ V <= Z + RAY - 1 /\ TokenCost(t, p) = V
      BY <1>6, <3>1, <3>3
    <3> HIDE DEF Z, V
    <3>5. TokenCost(t, p) <= Z + (RAY - 1)
      BY <1>2, <3>3, <3>4
    <3> QED BY <3>1, <3>2, <3>5 DEF Z
  <2> QED BY <2>1, <2>2, <2>3
<1>9. TokenCost(t, p) <= w * U + (RAY - 1)
  <2> DEFINE X == w * U
             Y == w * S
             Q == RAY * d
  <2>1. X \in Nat /\ Y \in Nat /\ Q \in Nat /\ Y <= X /\ (d # 0 => Q <= X)
        /\ TokenCost(t, p) = IF d = 0 THEN Y ELSE Q + (RAY - 1)
    BY <1>4, <1>5, <1>6
  <2> HIDE DEF X, Y, Q
  <2>2. TokenCost(t, p) <= X + (RAY - 1)
    BY <1>2, <2>1
  <2> QED BY <2>2 DEF X
<1> HIDE DEF gross, debt
<1>10. /\ TokenOwed(t, e, p).owed = IF gross > debt THEN gross - debt ELSE 0
       /\ gross > debt => TokenOwed(t, e, p).debt = gross
  BY <1>3
<1>11. p.tokenWeight = w /\ TokenEarned(t, p) = U
  BY DEF w, U
<1> QED BY <1>7, <1>8, <1>9, <1>10, <1>11

\* It is within the mark, up to a unit of rounding.
LEMMA TokenOwedWithinMark ==
  ASSUME NEW t, t \in TokenType, NEW e \in Nat, CheckpointsGrow(t, e), NEW p, IsPosition(p),
         TokenDebtFits(t, e, p)
  PROVE  /\ 0 <= TokenMark(t, p) + (RAY - 1)
         /\ RAY * TokenOwed(t, e, p).owed <= TokenMark(t, p) + (RAY - 1)
<1> DEFINE X == p.tokenWeight * TokenEarned(t, p)
           cost == TokenCost(t, p)
           owed == TokenOwed(t, e, p).owed
<1>1. PICK gross \in Nat, debt \in Nat :
            /\ owed = IF gross > debt THEN gross - debt ELSE 0
            /\ RAY * gross <= X
            /\ cost <= RAY * debt + (RAY - 1)
            /\ cost <= X + (RAY - 1)
  BY TokenOwedParts
<1>2. /\ TokenEarned(t, p) \in Nat /\ cost \in Int /\ p.tokenWeight \in Nat
      /\ RAY \in Nat \ {0} /\ TokenMark(t, p) = X - cost
  BY TokenMarkFacts, PositionParts, RayAssumption DEF TokenMark
<1>3. X \in Nat
  BY <1>2, ProductIsNat
<1> DEFINE G == RAY * gross
           D == RAY * debt
<1>4. G \in Nat /\ D \in Nat /\ G <= X /\ cost <= D + (RAY - 1)
  <2> HIDE DEF X, cost
  <2> QED BY <1>1, <1>2, ProductIsNat
<1> HIDE DEF X, cost, owed
<1>5. RAY * owed = IF gross > debt THEN G - D ELSE 0
  <2>1. CASE gross > debt
    BY <1>1, <1>2, <2>1, ProductOfDifference
  <2>2. CASE ~ (gross > debt)
    BY <1>1, <1>2, <2>2
  <2> QED BY <2>1, <2>2
<1> HIDE DEF G, D
<1>6. RAY * owed <= X - cost + (RAY - 1)
  BY <1>1, <1>2, <1>3, <1>4, <1>5
<1>7. 0 <= X - cost + (RAY - 1)
  BY <1>1, <1>2, <1>3
<1> QED BY <1>2, <1>6, <1>7 DEF owed

SameTokenStake(p, q) ==
    /\ q.tokenWeight = p.tokenWeight /\ q.weight = p.weight
    /\ q.activationEpoch = p.activationEpoch /\ q.unlockEpoch = p.unlockEpoch

\* A claim takes from the mark what it pays.
LEMMA TokenMarkPaid ==
  ASSUME NEW t, t \in TokenType, NEW e \in Nat, CheckpointsGrow(t, e), NEW p, IsPosition(p),
         TokenDebtFits(t, e, p), p.activationEpoch <= e, TokenOwed(t, e, p).owed > 0,
         NEW q, IsPosition(q), SameTokenStake(p, q), q.tokenDebtRay = TokenOwed(t, e, p).debt
  PROVE  /\ TokenDebtFits(t, e, q)
         /\ TokenMark(t, q) <= TokenMark(t, p) - RAY * TokenOwed(t, e, p).owed
<1> DEFINE X == p.tokenWeight * TokenEarned(t, p)
           cost == TokenCost(t, p)
           owed == TokenOwed(t, e, p).owed
<1>1. PICK gross \in Nat, debt \in Nat :
            /\ owed = IF gross > debt THEN gross - debt ELSE 0
            /\ gross > debt => TokenOwed(t, e, p).debt = gross
            /\ RAY * gross <= X
            /\ cost <= RAY * debt + (RAY - 1)
  BY TokenOwedParts
<1>2. /\ TokenEarned(t, p) \in Nat /\ cost \in Int /\ p.tokenWeight \in Nat
      /\ RAY \in Nat \ {0} /\ TokenMark(t, p) = X - cost
  BY TokenMarkFacts, PositionParts, RayAssumption DEF TokenMark
<1>3. X \in Nat /\ gross > debt /\ q.tokenDebtRay = gross /\ gross # 0
  BY <1>1, <1>2, ProductIsNat
<1>4. /\ TokenEarned(t, q) = TokenEarned(t, p) /\ q.tokenWeight = p.tokenWeight
      /\ q.weight = p.weight /\ q.activationEpoch = p.activationEpoch
  BY DEF SameTokenStake, TokenEarned
<1>5. TokenMark(t, q) = X - (RAY * gross + (RAY - 1))
  BY <1>3, <1>4 DEF TokenMark, TokenCost
<1>6. TokenDebtFits(t, e, q)
  BY <1>1, <1>3, <1>4 DEF TokenDebtFits
<1> DEFINE G == RAY * gross
           D == RAY * debt
<1>7. G \in Nat /\ D \in Nat /\ cost <= D + (RAY - 1)
  <2> HIDE DEF X, cost
  <2> QED BY <1>1, <1>2, ProductIsNat
<1> HIDE DEF X, cost, owed
<1>8. RAY * owed = G - D
  BY <1>1, <1>2, <1>3, ProductOfDifference
<1>9. TokenMark(t, q) = X - (G + (RAY - 1))
  BY <1>5
<1> HIDE DEF G, D
<1>10. TokenMark(t, q) <= X - cost - RAY * owed
  BY <1>2, <1>3, <1>7, <1>8, <1>9
<1> QED BY <1>2, <1>6, <1>10 DEF owed

\* A notification raises the marks of active positions, by their weight at most.
LEMMA TokenMarkNotified ==
  ASSUME NEW t, t \in TokenType, NEW e \in Epochs, CheckpointsGrow(t, e), NEW u, u \in TokenType,
         u.indexRay >= t.indexRay, IsWritten(t.checkpoints, u.checkpoints, e, u.indexRay),
         NEW p, IsPosition(p), TokenDebtFits(t, e, p)
  PROVE  /\ TokenDebtFits(u, e, p)
         /\ TokenMark(u, p) <= TokenMark(t, p)
                + (u.indexRay - t.indexRay) * When(IsActive(p, e), p.weight)
<1> DEFINE rise == u.indexRay - t.indexRay
           S(r) == TokenIndexAtOrBefore(r, p.activationEpoch - 1)
           U(r) == TokenEarned(r, p)
           w == p.tokenWeight
           d == p.tokenDebtRay
           Q == RAY * d
<1>1. /\ e \in Nat /\ rise \in Nat /\ t.indexRay \in Nat /\ u.indexRay \in Nat
  <2>1. e \in Nat
    BY EngineAssumption DEF Epochs
  <2> QED BY <2>1 DEF TokenType
<1>2. /\ CheckpointsGrow(u, e)
      /\ \A x \in Int : x < e => TokenIndexAtOrBefore(u, x) = TokenIndexAtOrBefore(t, x)
  BY IndexWritten
<1>3. /\ w \in Nat /\ d \in Nat /\ RAY \in Nat \ {0} /\ Q \in Nat /\ p.weight \in Nat
      /\ p.activationEpoch \in Nat /\ p.unlockEpoch \in Nat
      /\ p.activationEpoch < p.unlockEpoch
      /\ p.activationEpoch - 1 \in Int /\ p.unlockEpoch - 1 \in Int
  BY PositionParts, RayAssumption
<1>4. \A r \in {t, u} :
        /\ S(r) \in Nat /\ U(r) \in Nat /\ TokenMark(r, p) \in Int
        /\ e < p.unlockEpoch => U(r) = r.indexRay
        /\ e < p.activationEpoch => S(r) = r.indexRay
  BY <1>1, <1>2, TokenMarkFacts
<1>5. e >= p.unlockEpoch => U(u) = U(t)
  BY <1>1, <1>2, <1>3 DEF TokenEarned
<1>6. e >= p.activationEpoch => S(u) = S(t)
  BY <1>1, <1>2, <1>3
<1>7. \A r : TokenMark(r, p) = w * U(r) - (IF d = 0 THEN w * S(r) ELSE Q + (RAY - 1))
  BY DEF TokenMark, TokenCost
<1>8. /\ w <= p.weight
      /\ d # 0 => p.activationEpoch <= e /\ Q <= w * U(t)
  BY DEF TokenDebtFits
<1>9. TokenDebtFits(u, e, p) <=> /\ w <= p.weight
                                 /\ d # 0 => p.activationEpoch <= e /\ Q <= w * U(u)
  BY DEF TokenDebtFits
<1>10. IsActive(p, e) <=> p.activationEpoch <= e /\ e < p.unlockEpoch
  BY DEF IsActive
<1> DEFINE gain == rise * When(IsActive(p, e), p.weight)
<1> HIDE DEF S, U, w, d, Q
<1>11. U(t) <= U(u)
  BY <1>1, <1>3, <1>4, <1>5 DEF rise
<1>12. w * U(t) \in Nat /\ w * U(u) \in Nat /\ w * S(t) \in Nat /\ w * S(u) \in Nat
       /\ w * U(t) <= w * U(u)
  BY <1>3, <1>4, <1>11, ProductIsNat, ProductIsMonotone
<1>13. TokenDebtFits(u, e, p)
  BY <1>3, <1>8, <1>9, <1>12
<1>14. CASE e < p.activationEpoch
  <2>1. d = 0 /\ U(t) = S(t) /\ U(u) = S(u) /\ gain = 0
    BY <1>1, <1>3, <1>4, <1>8, <1>10, <1>14 DEF When
  <2>2. TokenMark(t, p) = 0 /\ TokenMark(u, p) = 0
    BY <1>7, <1>12, <2>1
  <2> QED BY <1>13, <2>1, <2>2 DEF gain, rise
<1>15. CASE e >= p.unlockEpoch
  <2>1. U(u) = U(t) /\ S(u) = S(t) /\ gain = 0
    BY <1>1, <1>3, <1>5, <1>6, <1>10, <1>15 DEF When
  <2>2. TokenMark(u, p) = TokenMark(t, p)
    BY <1>7, <2>1
  <2> QED BY <1>4, <1>13, <2>1, <2>2 DEF gain, rise
<1>16. CASE p.activationEpoch <= e /\ e < p.unlockEpoch
  <2>1. S(u) = S(t) /\ U(t) = t.indexRay /\ U(u) = t.indexRay + rise /\ gain = rise * p.weight
    BY <1>1, <1>3, <1>4, <1>6, <1>10, <1>16 DEF When, rise
  <2> HIDE DEF rise, gain
  <2>2. w * U(u) = w * U(t) + w * rise
    BY <1>1, <1>3, <2>1, ProductOfSum
  <2>3. w * rise \in Nat /\ w * rise <= gain /\ gain \in Nat
    <3>1. rise * w <= rise * p.weight /\ rise * w = w * rise
      BY <1>1, <1>3, <1>8, ProductIsMonotone
    <3> QED BY <1>1, <1>3, <2>1, <3>1, ProductIsNat
  <2> DEFINE A == w * U(u)
             B == w * U(t)
             C == w * rise
             K == IF d = 0 THEN w * S(t) ELSE Q + (RAY - 1)
  <2>4. TokenMark(u, p) = A - K /\ TokenMark(t, p) = B - K
    BY <1>7, <2>1
  <2>5. A = B + C /\ B \in Nat /\ C \in Nat /\ C <= gain /\ K \in Int
    BY <1>3, <1>12, <2>2, <2>3
  <2> HIDE DEF A, B, C, K
  <2>6. TokenMark(u, p) <= TokenMark(t, p) + gain
    BY <2>3, <2>4, <2>5
  <2> QED BY <1>13, <2>6 DEF gain, rise
<1> QED BY <1>1, <1>3, <1>14, <1>15, <1>16
--------------------------------------------------------------------------------
(* What all positions have earned in tokens *)

LEMMA TokenMarksFamily ==
  ASSUME NEW t, t \in TokenType, NEW e \in Nat, CheckpointsGrow(t, e), NEW ps, IsPositions(ps)
  PROVE  /\ IsFamily(TokenMarks(t, ps), Len(ps)) /\ Len(ps) \in Nat
         /\ \A i \in 1 .. Len(ps) : /\ TokenMarks(t, ps)[i] = TokenMark(t, ps[i])
                                    /\ IsPosition(ps[i])
<1>1. Len(ps) \in Nat /\ \A i \in 1 .. Len(ps) : IsPosition(ps[i])
  BY PositionFacts DEF IsPosition
<1>2. \A i \in 1 .. Len(ps) : TokenMark(t, ps[i]) \in Int
  BY <1>1, TokenMarkFacts
<1> QED BY <1>1, <1>2 DEF IsFamily, TokenMarks

\* Epochs that pass change nothing about tokens.
LEMMA TokenSharedLater ==
  ASSUME NEW t, t \in TokenType, NEW d \in Nat, NEW e \in Nat, d <= e,
         NEW ps, IsPositions(ps), TokenShared(t, d, ps)
  PROVE  TokenShared(t, e, ps)
<1>1. \A k \in 1 .. Len(t.checkpoints) : t.checkpoints[k].epoch \in Nat
  BY CheckpointFacts
<1>2. CheckpointsGrow(t, e)
  BY <1>1 DEF CheckpointsGrow, TokenShared
<1>3. \A i \in 1 .. Len(ps) : TokenDebtFits(t, e, ps[i])
  <2>1. SUFFICES ASSUME NEW i \in 1 .. Len(ps) PROVE TokenDebtFits(t, e, ps[i])
    OBVIOUS
  <2>2. ps[i].activationEpoch \in Nat /\ TokenDebtFits(t, d, ps[i])
    BY PositionFacts DEF TokenShared
  <2> QED BY <2>2 DEF TokenDebtFits
<1> QED BY <1>2, <1>3 DEF TokenShared

\* Nor do steps that leave stakes and token debts alone.
SameTokenStakes(ps, qs) ==
    /\ Len(qs) = Len(ps)
    /\ \A j \in 1 .. Len(ps) : /\ SameTokenStake(ps[j], qs[j])
                               /\ qs[j].tokenDebtRay = ps[j].tokenDebtRay

LEMMA TokenSharedStands ==
  ASSUME NEW t, NEW e, NEW ps, TokenShared(t, e, ps), NEW qs, SameTokenStakes(ps, qs)
  PROVE  TokenShared(t, e, qs)
<1>1. \A j \in 1 .. Len(ps) : TokenMark(t, qs[j]) = TokenMark(t, ps[j])
  BY DEF SameTokenStakes, SameTokenStake, TokenMark, TokenEarned, TokenCost
<1>2. \A j \in 1 .. Len(ps) : TokenDebtFits(t, e, qs[j])
  BY DEF TokenShared, SameTokenStakes, SameTokenStake, TokenDebtFits, TokenEarned
<1>3. Len(qs) = Len(ps)
  BY DEF SameTokenStakes
<1>4. TokenMarks(t, qs) = TokenMarks(t, ps)
  BY <1>1, <1>3 DEF TokenMarks
<1> QED BY <1>2, <1>3, <1>4 DEF TokenShared

\* A notification gives the active weight no more than it brings.
LEMMA TokenSharedNotified ==
  ASSUME NEW t, t \in TokenType, NEW e \in Epochs, NEW ps, IsPositions(ps), TokenShared(t, e, ps),
         NEW u, u \in TokenType, NEW a \in Nat, NEW W \in Nat \ {0}, W = ActiveWeight(ps, e),
         u.indexRay = t.indexRay + MulDiv(a, RAY, W), u.balance = t.balance + a,
         IsWritten(t.checkpoints, u.checkpoints, e, u.indexRay)
  PROVE  TokenShared(u, e, ps)
<1> DEFINE n == Len(ps)
           rise == MulDiv(a, RAY, W)
           f == TokenMarks(t, ps)
           g == TokenMarks(u, ps)
           aw == [i \in DOMAIN ps |-> When(IsActive(ps[i], e), ps[i].weight)]
           k == [i \in 1 .. n |-> rise * aw[i]]
           h == [i \in 1 .. n |-> f[i] + k[i]]
<1>1. e \in Nat /\ t.indexRay \in Nat /\ u.indexRay \in Nat /\ t.balance \in Nat
      /\ u.balance \in Nat /\ RAY \in Nat \ {0}
  <2>1. e \in Nat
    BY EngineAssumption DEF Epochs
  <2> QED BY <2>1, RayAssumption DEF TokenType
<1>2. rise \in Nat /\ W * rise <= a * RAY
  <2> DEFINE x == a * RAY
  <2>1. x \in Nat
    BY <1>1, ProductIsNat
  <2>2. rise = x \div W
    BY DEF MulDiv
  <2> HIDE DEF x, rise
  <2>3. x \div W \in Nat /\ W * (x \div W) <= x
    BY <2>1
  <2> QED BY <2>2, <2>3 DEF x
<1>3. u.indexRay - t.indexRay = rise /\ u.indexRay >= t.indexRay
  <2> HIDE DEF rise
  <2>1. u.indexRay = t.indexRay + rise
    BY DEF rise
  <2> QED BY <1>1, <1>2, <2>1
<1>4. /\ CheckpointsGrow(t, e) /\ SumTo(f, n) <= RAY * t.balance
      /\ \A i \in 1 .. n : TokenDebtFits(t, e, ps[i])
  BY DEF TokenShared
<1>5. CheckpointsGrow(u, e)
  BY <1>3, <1>4, IndexWritten
<1>6. /\ IsFamily(f, n) /\ IsFamily(g, n) /\ n \in Nat /\ DOMAIN ps = 1 .. n
      /\ \A i \in 1 .. n : /\ f[i] = TokenMark(t, ps[i]) /\ g[i] = TokenMark(u, ps[i])
                           /\ IsPosition(ps[i]) /\ ps[i].weight \in Nat
  BY <1>1, <1>4, <1>5, TokenMarksFamily, PositionFacts
<1>7. \A i \in 1 .. n : /\ TokenDebtFits(u, e, ps[i])
                        /\ TokenMark(u, ps[i]) <= TokenMark(t, ps[i]) + rise * aw[i]
  <2>1. SUFFICES ASSUME NEW i \in 1 .. n
                 PROVE  /\ TokenDebtFits(u, e, ps[i])
                        /\ TokenMark(u, ps[i]) <= TokenMark(t, ps[i]) + rise * aw[i]
    OBVIOUS
  <2>2. aw[i] = When(IsActive(ps[i], e), ps[i].weight)
    BY <1>6
  <2> HIDE DEF rise, aw
  <2>3. IsPosition(ps[i]) /\ TokenDebtFits(t, e, ps[i])
    BY <1>4, <1>6
  <2>4. /\ TokenDebtFits(u, e, ps[i])
        /\ TokenMark(u, ps[i]) <= TokenMark(t, ps[i])
               + (u.indexRay - t.indexRay) * When(IsActive(ps[i], e), ps[i].weight)
    BY <1>3, <1>4, <2>3, TokenMarkNotified
  <2> QED BY <1>3, <2>2, <2>4
<1>8. IsFamily(aw, n) /\ W = SumTo(aw, n)
  <2>1. \A i \in 1 .. n : aw[i] \in Int
    BY <1>6 DEF When
  <2> QED BY <1>6, <2>1 DEF IsFamily, ActiveWeight
<1>9. \A i \in 1 .. n : k[i] = rise * aw[i]
  OBVIOUS
<1> HIDE DEF aw, rise, f, g, k
<1>10. IsFamily(k, n) /\ SumTo(k, n) = rise * W
  BY <1>2, <1>8, <1>9, SumOfScaled
<1>11. IsFamily(h, n) /\ SumTo(h, n) = SumTo(f, n) + SumTo(k, n)
  <2>1. \A i \in 1 .. n : h[i] = f[i] + k[i]
    OBVIOUS
  <2>2. IsFamily(h, n)
    BY <1>6, <1>10, <2>1 DEF IsFamily
  <2> HIDE DEF h
  <2> QED BY <1>6, <1>10, <2>1, <2>2, SumOfSum
<1>12. \A i \in 1 .. n : g[i] <= h[i]
  BY <1>6, <1>7, <1>9
<1> HIDE DEF h
<1>13. SumTo(g, n) <= SumTo(h, n)
  BY <1>6, <1>11, <1>12, SumIsMonotone
<1>14. SumTo(g, n) <= RAY * u.balance
  <2> DEFINE A == RAY * t.balance
             B == RAY * a
             C == rise * W
  <2>1. RAY * u.balance = A + B
    <3>1. t.balance \in Int /\ a \in Int /\ RAY \in Int /\ u.balance = t.balance + a
      BY <1>1
    <3> QED BY <3>1, ProductOfSum
  <2>2. C <= B /\ C \in Int /\ B \in Int /\ A \in Int
    <3>1. W * rise = rise * W /\ a * RAY = RAY * a
      BY <1>1, <1>2
    <3> QED BY <1>1, <1>2, <3>1, ProductIsNat
  <2>3. SumTo(h, n) = SumTo(f, n) + C /\ SumTo(f, n) <= A
    <3>1. SumTo(f, n) <= A
      BY <1>4
    <3>2. SumTo(k, n) = C
      BY <1>10
    <3> HIDE DEF A, C
    <3> QED BY <1>11, <3>1, <3>2
  <2>4. SumTo(f, n) \in Int /\ SumTo(g, n) \in Int /\ SumTo(h, n) \in Int
    BY <1>6, <1>11, SumIsInt
  <2> HIDE DEF A, B, C
  <2> QED BY <1>13, <2>1, <2>2, <2>3, <2>4
<1> QED BY <1>5, <1>7, <1>14 DEF TokenShared, g

\* One position has another stake or debt, and every mark but its own stands.
LEMMA TokenSharedAt ==
  ASSUME NEW t, t \in TokenType, NEW e \in Nat, NEW ps, IsPositions(ps), TokenShared(t, e, ps),
         NEW i, NEW qs, DiffersAt(ps, qs, i), TokenDebtFits(t, e, qs[i]),
         NEW u, u \in TokenType, u.indexRay = t.indexRay, u.checkpoints = t.checkpoints,
         TokenMark(t, qs[i]) - TokenMark(t, ps[i]) <= RAY * u.balance - RAY * t.balance
  PROVE  TokenShared(u, e, qs)
<1> DEFINE n == Len(ps)
           f == TokenMarks(t, ps)
           g == TokenMarks(t, qs)
<1>1. /\ IsPositions(qs) /\ Len(qs) = n /\ i \in 1 .. n
      /\ \A j \in 1 .. n : j # i => qs[j] = ps[j]
  BY DEF DiffersAt
<1>2. /\ CheckpointsGrow(t, e) /\ SumTo(f, n) <= RAY * t.balance
      /\ \A j \in 1 .. n : TokenDebtFits(t, e, ps[j])
  BY DEF TokenShared
<1>3. /\ IsFamily(f, n) /\ IsFamily(g, n)
      /\ \A j \in 1 .. n : f[j] = TokenMark(t, ps[j]) /\ g[j] = TokenMark(t, qs[j])
  BY <1>1, <1>2, TokenMarksFamily
<1>4. \A x : TokenIndexAtOrBefore(u, x) = TokenIndexAtOrBefore(t, x)
  BY DEF TokenIndexAtOrBefore
<1>5. TokenMarks(u, qs) = g
  BY <1>4 DEF TokenMarks, TokenMark, TokenEarned, TokenCost
<1>6. CheckpointsGrow(u, e) /\ \A j \in 1 .. n : TokenDebtFits(u, e, qs[j])
  <2>1. \A j \in 1 .. n : TokenDebtFits(t, e, qs[j])
    BY <1>1, <1>2
  <2>2. CheckpointsGrow(u, e)
    BY <1>2 DEF CheckpointsGrow
  <2> QED BY <1>4, <2>1, <2>2 DEF TokenDebtFits, TokenEarned
<1> HIDE DEF f, g
<1>7. SumTo(g, n) = SumTo(f, n) + g[i] - f[i]
  <2>1. \A j \in 1 .. n : j # i => g[j] = f[j]
    BY <1>1, <1>3
  <2> QED BY <1>1, <1>3, <2>1, SumOfUpdate
<1>8. SumTo(g, n) <= RAY * u.balance
  <2> DEFINE A == RAY * t.balance
             B == RAY * u.balance
  <2>1. A \in Int /\ B \in Int
    BY RayAssumption DEF TokenType
  <2>2. SumTo(f, n) \in Int /\ f[i] \in Int /\ g[i] \in Int /\ g[i] - f[i] <= B - A
        /\ SumTo(f, n) <= A
    BY <1>1, <1>2, <1>3, SumIsInt DEF IsFamily
  <2> HIDE DEF A, B
  <2>3. SumTo(g, n) <= B
    BY <1>7, <2>1, <2>2
  <2> QED BY <2>3 DEF B
<1> QED BY <1>1, <1>5, <1>6, <1>8 DEF TokenShared

\* A position that has not started has earned nothing yet.
LEMMA TokenMarkIdle ==
  ASSUME NEW t, t \in TokenType, NEW e \in Nat, CheckpointsGrow(t, e), NEW p, IsPosition(p),
         e < p.activationEpoch, p.tokenDebtRay = 0
  PROVE  TokenMark(t, p) = 0
<1> DEFINE S == TokenIndexAtOrBefore(t, p.activationEpoch - 1)
<1>1. p.activationEpoch < p.unlockEpoch /\ p.activationEpoch \in Nat /\ p.unlockEpoch \in Nat
      /\ p.tokenWeight \in Nat
  BY PositionParts
<1>2. TokenEarned(t, p) = t.indexRay /\ S = t.indexRay /\ t.indexRay \in Nat
  <2>1. e < p.unlockEpoch /\ t.indexRay \in Nat
    BY <1>1 DEF TokenType
  <2> QED BY <2>1, TokenMarkFacts
<1>3. TokenMark(t, p) = p.tokenWeight * t.indexRay - p.tokenWeight * t.indexRay
  BY <1>2 DEF TokenMark, TokenCost
<1>4. p.tokenWeight * t.indexRay \in Int
  BY <1>1, <1>2
<1> QED BY <1>3, <1>4

LEMMA SumWithZero ==
  ASSUME NEW f, NEW g, NEW n, NEW m, IsFamily(f, n), IsFamily(g, m), m = n + 1,
         \A j \in 1 .. n : g[j] = f[j], g[m] = 0, NEW x \in Int, SumTo(f, n) <= x
  PROVE  SumTo(g, m) <= x
<1>1. SumTo(g, n + 1) = SumTo(f, n) + g[n + 1]
  BY SumOfAppend
<1>2. SumTo(f, n) \in Int
  BY SumIsInt
<1>3. SumTo(g, m) = SumTo(f, n)
  BY <1>1, <1>2
<1> QED BY <1>2, <1>3

LEMMA TokenSharedCreated ==
  ASSUME NEW t, t \in TokenType, NEW e \in Nat, NEW ps, IsPositions(ps), TokenShared(t, e, ps),
         NEW p, IsPosition(p), NEW qs, IsPositions(qs), Len(qs) = Len(ps) + 1,
         \A j \in 1 .. Len(ps) : qs[j] = ps[j], qs[Len(ps) + 1] = p,
         e < p.activationEpoch, p.tokenDebtRay = 0, p.tokenWeight = p.weight
  PROVE  TokenShared(t, e, qs)
<1> DEFINE n == Len(ps)
           f == TokenMarks(t, ps)
           g == TokenMarks(t, qs)
<1>1. /\ CheckpointsGrow(t, e) /\ SumTo(f, n) <= RAY * t.balance
      /\ \A j \in 1 .. n : TokenDebtFits(t, e, ps[j])
  BY DEF TokenShared
<1>2. /\ IsFamily(f, n) /\ n \in Nat
      /\ \A j \in 1 .. n : f[j] = TokenMark(t, ps[j])
  BY <1>1, TokenMarksFamily
<1>3. /\ IsFamily(g, n + 1) /\ \A j \in 1 .. n + 1 : g[j] = TokenMark(t, qs[j])
  BY <1>1, TokenMarksFamily
<1>4. n + 1 \in 1 .. n + 1 /\ \A j \in 1 .. n : j \in 1 .. n + 1
  BY <1>2
<1>5. TokenMark(t, p) = 0
  BY <1>1, TokenMarkIdle
<1>6. g[n + 1] = 0 /\ \A j \in 1 .. n : g[j] = f[j]
  BY <1>2, <1>3, <1>4, <1>5
<1>7. TokenDebtFits(t, e, p)
  BY PositionParts DEF TokenDebtFits
<1>8. \A j \in 1 .. n + 1 : TokenDebtFits(t, e, qs[j])
  <2>1. SUFFICES ASSUME NEW j \in 1 .. n + 1 PROVE TokenDebtFits(t, e, qs[j])
    OBVIOUS
  <2>2. j = n + 1 \/ j \in 1 .. n
    BY <1>2
  <2> QED BY <1>1, <1>7, <2>2
<1>9. SumTo(g, n + 1) <= RAY * t.balance
  <2> DEFINE x == RAY * t.balance
             m == n + 1
  <2>1. x \in Int /\ m = n + 1
    BY RayAssumption DEF TokenType
  <2>2. SumTo(f, n) <= x /\ IsFamily(f, n) /\ IsFamily(g, m)
        /\ g[m] = 0 /\ \A j \in 1 .. n : g[j] = f[j]
    BY <1>1, <1>2, <1>3, <1>6
  <2> HIDE DEF x, m, f, g, n
  <2>3. SumTo(g, m) <= x
    BY <2>1, <2>2, SumWithZero
  <2> QED BY <2>3 DEF x, m
<1> QED BY <1>1, <1>8, <1>9 DEF TokenShared

\* An extension leaves the mark where it is: the weight of a position that has started is
\* frozen once there is an index to multiply it with.
LEMMA TokenSharedExtended ==
  ASSUME NEW t, t \in TokenType, NEW e \in Nat, NEW ps, IsPositions(ps), TokenShared(t, e, ps),
         NEW i, NEW qs, DiffersAt(ps, qs, i), IsExtended(ps[i], qs[i]),
         e < ps[i].unlockEpoch, qs[i].tokenDebtRay = ps[i].tokenDebtRay,
         qs[i].tokenWeight <= qs[i].weight,
         \/ e < ps[i].activationEpoch
         \/ t.checkpoints = <<>>
         \/ qs[i].tokenWeight = ps[i].tokenWeight
  PROVE  TokenShared(t, e, qs)
<1> DEFINE p == ps[i]
           q == qs[i]
           S(r) == TokenIndexAtOrBefore(t, r.activationEpoch - 1)
           x == t.indexRay
<1>1. /\ IsPosition(p) /\ IsPosition(q) /\ q.activationEpoch = p.activationEpoch
      /\ q.unlockEpoch > p.unlockEpoch /\ i \in 1 .. Len(ps)
  BY DEF IsExtended, DiffersAt
<1>2. CheckpointsGrow(t, e) /\ TokenDebtFits(t, e, p)
  BY <1>1 DEF TokenShared
<1>3. /\ p.unlockEpoch \in Nat /\ q.unlockEpoch \in Nat /\ p.activationEpoch \in Nat
      /\ p.tokenWeight \in Nat /\ q.tokenWeight \in Nat /\ x \in Nat
      /\ p.tokenDebtRay \in Nat /\ RAY \in Nat \ {0}
  BY <1>1, PositionParts, RayAssumption DEF TokenType
<1>4. /\ TokenEarned(t, p) = x /\ TokenEarned(t, q) = x /\ S(p) \in Nat /\ S(p) <= x
      /\ S(q) = S(p)
  <2>1. e < p.unlockEpoch /\ e < q.unlockEpoch
    BY <1>1, <1>3
  <2>2. S(q) = S(p)
    BY <1>1
  <2> HIDE DEF p, q, x
  <2>3. TokenEarned(t, p) = t.indexRay /\ S(p) \in Nat /\ S(p) <= TokenEarned(t, p)
    BY <1>1, <1>2, <2>1, TokenMarkFacts
  <2>4. TokenEarned(t, q) = t.indexRay
    BY <1>1, <1>2, <2>1, TokenMarkFacts
  <2> QED BY <2>2, <2>3, <2>4 DEF x
<1>5. /\ TokenDebtFits(t, e, q) /\ TokenMark(t, q) = TokenMark(t, p)
      /\ TokenMark(t, p) \in Int
  <2>1. TokenMark(t, p) \in Int
    BY <1>1, <1>2, TokenMarkFacts
  <2>2. CASE q.tokenWeight = p.tokenWeight
    <3>1. TokenMark(t, q) = TokenMark(t, p)
      BY <1>1, <1>4, <2>2 DEF TokenMark, TokenCost
    <3>2. TokenDebtFits(t, e, q)
      BY <1>1, <1>2, <1>4, <2>2 DEF TokenDebtFits
    <3> QED BY <2>1, <3>1, <3>2
  <2>3. CASE e < p.activationEpoch
    <3>1. p.tokenDebtRay = 0
      BY <1>2, <1>3, <2>3 DEF TokenDebtFits
    <3>2. TokenMark(t, p) = 0 /\ TokenMark(t, q) = 0
      BY <1>1, <1>2, <2>3, <3>1, TokenMarkIdle
    <3>3. TokenDebtFits(t, e, q)
      BY <3>1 DEF TokenDebtFits
    <3> QED BY <3>2, <3>3
  <2>4. CASE t.checkpoints = <<>>
    <3>1. x = 0
      BY <1>2, <2>4 DEF CheckpointsGrow
    <3>2. S(p) = 0 /\ S(q) = 0
      BY <1>3, <1>4, <3>1
    <3>3. p.tokenDebtRay = 0
      <4>1. p.tokenDebtRay # 0 => RAY * p.tokenDebtRay <= p.tokenWeight * 0
        BY <1>2, <1>4, <3>1 DEF TokenDebtFits
      <4>2. p.tokenWeight * 0 = 0
        BY <1>3
      <4>3. p.tokenDebtRay # 0 => RAY * p.tokenDebtRay > 0
        BY <1>3
      <4> HIDE DEF p
      <4>4. RAY * p.tokenDebtRay \in Nat
        BY <1>3, ProductIsNat
      <4> QED BY <1>3, <4>1, <4>2, <4>3, <4>4
    <3>4. \A r \in {p, q} : TokenMark(t, r) = r.tokenWeight * 0 - r.tokenWeight * 0
      BY <1>4, <3>1, <3>2, <3>3 DEF TokenMark, TokenCost
    <3>5. TokenMark(t, p) = 0 /\ TokenMark(t, q) = 0
      BY <1>3, <3>4
    <3>6. TokenDebtFits(t, e, q)
      BY <3>3 DEF TokenDebtFits
    <3> QED BY <3>5, <3>6
  <2> QED BY <2>2, <2>3, <2>4
<1>6. TokenMark(t, q) - TokenMark(t, p) <= RAY * t.balance - RAY * t.balance
  <2>1. RAY * t.balance \in Int
    BY <1>3 DEF TokenType
  <2> QED BY <1>5, <2>1
<1> QED BY <1>5, <1>6, TokenSharedAt
--------------------------------------------------------------------------------
(* Steps *)

\* Custody already says that no step takes the settled epoch back.
LEMMA EpochNeverFalls ==
  ASSUME IInv, IInv', [Next]_vars
  PROVE  core.epoch \in Nat /\ core'.epoch \in Nat /\ core'.epoch >= core.epoch
<1>1. core.epoch \in Nat
  BY ClockFacts
<1>2. CASE UNCHANGED vars
  BY <1>1, <1>2 DEF vars
<1>3. CASE Next
  <2>1. [Custody!Next]_(Custody!vars)
    BY NextIsCustody
  <2>2. CASE Custody!Next
    <3>1. Custody!EpochsPass
      BY <2>2 DEF Custody!Next, Custody!Settle, Custody!Deposit, Custody!Postpone,
                  Custody!Withdraw
    <3> QED BY <1>1, <3>1 DEF Custody!EpochsPass
  <2>3. CASE UNCHANGED Custody!vars
    BY <1>1, <2>3 DEF Custody!vars
  <2> QED BY <2>1, <2>2, <2>3
<1> QED BY <1>2, <1>3

\* The invariant at the epoch that a step has caught up to, before the step itself.
LEMMA TokensCaughtUp ==
  ASSUME IInv, IInv', TokenInv, [Next]_vars
  PROVE  /\ TokenShared(token, core'.epoch, positions)
         /\ token \in TokenType /\ token' \in TokenType
         /\ IsPositions(positions) /\ IsPositions(positions')
         /\ core'.epoch \in Nat /\ core'.epoch \in Epochs
<1>1. core.epoch \in Nat /\ core'.epoch \in Nat /\ core'.epoch >= core.epoch
  BY EpochNeverFalls
<1>2. token \in TokenType /\ token' \in TokenType
      /\ IsPositions(positions) /\ IsPositions(positions')
  BY DEF IInv, FundsInv, PositionInv
<1>3. core'.epoch \in Epochs
  BY DEF IInv, BooksInv, LedgerInv, CoreType
<1>4. TokenShared(token, core.epoch, positions)
  BY DEF TokenInv
<1> DEFINE d == core.epoch
           e == core'.epoch
<1>5. d \in Nat /\ e \in Nat /\ d <= e /\ TokenShared(token, d, positions)
  BY <1>1, <1>4
<1> HIDE DEF d, e
<1>6. TokenShared(token, e, positions)
  BY <1>2, <1>5, TokenSharedLater
<1> QED BY <1>1, <1>2, <1>3, <1>6 DEF e

LEMMA TokensStand ==
  ASSUME IInv, IInv', TokenInv, [Next]_vars, UNCHANGED token,
         SameTokenStakes(positions, positions')
  PROVE  TokenInv'
<1>1. TokenShared(token, core'.epoch, positions')
  BY TokensCaughtUp, TokenSharedStands
<1> QED BY <1>1 DEF TokenInv

\* Every step but those on positions and on tokens.
LEMMA TokensAlone ==
  ASSUME IInv, IInv', TokenInv, [Next]_vars, UNCHANGED <<token, positions>>
  PROVE  TokenInv'
<1>1. SameTokenStakes(positions, positions')
  BY DEF SameTokenStakes, SameTokenStake
<1> QED BY <1>1, TokensStand

LEMMA PaymentKeepsTokens ==
  ASSUME IInv, IInv', TokenInv, [Next]_vars, NEW caller \in Owners, NEW ids \in SUBSET Ids,
         Claim(caller, ids) \/ Unlock(caller, ids)
  PROVE  TokenInv'
<1>1. UNCHANGED token
  BY DEF Claim, Unlock
<1>2. PICK c : \/ positions' = [i \in Ids |-> IF i \in ids THEN Accrued(c, i) ELSE positions[i]]
               \/ positions' = [i \in Ids |-> IF i \in ids
                                              THEN [Accrued(c, i) EXCEPT !.amount = 0]
                                              ELSE positions[i]]
  <2>1. CASE Claim(caller, ids)
    BY <2>1 DEF Claim
  <2>2. CASE Unlock(caller, ids)
    BY <2>2 DEF Unlock
  <2> QED BY <2>1, <2>2
<1>3. /\ Ids = 1 .. Len(positions) /\ Len(positions) \in Nat
      /\ \A i \in Ids : positions[i] \in PositionType
  BY PositionsFacts DEF IsPosition
<1>4. Len(positions') = Len(positions)
  <2>1. IsPositions(positions') /\ DOMAIN positions' = 1 .. Len(positions)
    BY <1>2, <1>3 DEF IInv, PositionInv
  <2>2. DOMAIN positions' = 1 .. Len(positions') /\ Len(positions') \in Nat
    BY <2>1, PositionFacts
  <2> QED BY <2>1, <2>2, <1>3
<1>5. \A j \in Ids : /\ SameTokenStake(positions[j], positions'[j])
                     /\ positions'[j].tokenDebtRay = positions[j].tokenDebtRay
  <2>1. SUFFICES ASSUME NEW j \in Ids
                 PROVE  /\ SameTokenStake(positions[j], positions'[j])
                        /\ positions'[j].tokenDebtRay = positions[j].tokenDebtRay
    OBVIOUS
  <2>2. \/ positions'[j] = positions[j] \/ positions'[j] = Accrued(c, j)
        \/ positions'[j] = [Accrued(c, j) EXCEPT !.amount = 0]
    BY <1>2
  <2>3. positions[j] \in PositionType
    BY <1>3
  <2> QED BY <2>2, <2>3 DEF Accrued, PositionType, SameTokenStake
<1>6. SameTokenStakes(positions, positions')
  BY <1>3, <1>4, <1>5 DEF SameTokenStakes
<1> QED BY <1>1, <1>6, TokensStand

LEMMA NotifyKeepsTokens ==
  ASSUME IInv, IInv', TokenInv, [Next]_vars, NEW a \in TokenRewards, NotifyTokenRewards(a)
  PROVE  TokenInv'
<1> DEFINE e == core'.epoch
           W == core'.activeTotalWeight
           index == token.indexRay + MulDiv(a, RAY, W)
           k == WriteTokenIndexCheckpoint(token.checkpoints, e, index)
<1>1. /\ W > 0 /\ UNCHANGED positions
      /\ token' = [indexRay |-> index, balance |-> token.balance + a,
                   notified |-> token.notified + a, checkpoints |-> k]
  BY DEF NotifyTokenRewards
<1>2. /\ TokenShared(token, e, positions) /\ token \in TokenType /\ token' \in TokenType
      /\ IsPositions(positions) /\ e \in Epochs /\ CheckpointsGrow(token, e)
  BY TokensCaughtUp DEF TokenShared
<1>3. W \in Nat \ {0} /\ W = ActiveWeight(positions, e) /\ a \in Nat
  <2>1. W = ActiveWeight(positions', e) /\ W \in Nat
    BY DEF IInv, BooksInv, LedgerInv, WeightsExact, CoreType
  <2> QED BY <1>1, <2>1, EngineAssumption
<1>4. token'.indexRay = index /\ token'.checkpoints = k /\ token'.balance = token.balance + a
      /\ index \in Nat
  BY <1>1, <1>2 DEF TokenType
<1>5. token'.indexRay = token.indexRay + MulDiv(a, RAY, W)
  BY <1>4
<1> HIDE DEF index
<1>6. IsWritten(token.checkpoints, k, e, index)
  <2> HIDE DEF e, k
  <2>1. k = WriteTokenIndexCheckpoint(token.checkpoints, e, index)
    BY DEF k
  <2> QED BY <1>2, <1>4, <2>1, CheckpointWritten
<1> DEFINE t == token
           u == token'
           ps == positions
<1>7. /\ u.indexRay = t.indexRay + MulDiv(a, RAY, W) /\ u.balance = t.balance + a
      /\ IsWritten(t.checkpoints, u.checkpoints, e, u.indexRay)
  BY <1>4, <1>5, <1>6
<1>8. TokenShared(t, e, ps) /\ t \in TokenType /\ u \in TokenType /\ IsPositions(ps)
      /\ W = ActiveWeight(ps, e)
  BY <1>2, <1>3
<1> HIDE DEF e, W, k, t, u, ps
<1>9. TokenShared(u, e, ps)
  BY <1>2, <1>3, <1>7, <1>8, TokenSharedNotified
<1> QED BY <1>1, <1>9 DEF TokenInv, u, e, ps

LEMMA ClaimKeepsTokens ==
  ASSUME IInv, IInv', TokenInv, [Next]_vars, NEW i \in Ids, ClaimTokenRewards(i)
  PROVE  TokenInv'
<1> DEFINE e == core'.epoch
           p == positions[i]
           due == TokenOwed(token, e, p)
           q == [p EXCEPT !.tokenDebtRay = due.debt]
<1>1. /\ e >= p.activationEpoch /\ due.owed > 0 /\ due.owed <= token.balance
      /\ positions' = [positions EXCEPT ![i] = q]
      /\ token' = [token EXCEPT !.balance = @ - due.owed]
  BY DEF ClaimTokenRewards
<1>2. /\ TokenShared(token, e, positions) /\ token \in TokenType /\ token' \in TokenType
      /\ IsPositions(positions) /\ IsPositions(positions') /\ e \in Nat
      /\ CheckpointsGrow(token, e)
  BY TokensCaughtUp DEF TokenShared
<1>3. IsPosition(p) /\ TokenDebtFits(token, e, p) /\ i \in 1 .. Len(positions)
      /\ p.activationEpoch \in Nat /\ Len(positions) \in Nat
      /\ DOMAIN positions = 1 .. Len(positions)
  BY <1>2, PositionsFacts, PositionParts DEF TokenShared
<1>4. due.owed \in Nat /\ due.debt \in Nat
  BY <1>2, <1>3, TokenOwedType
<1>5. /\ SameTokenStake(p, q) /\ q.tokenDebtRay = due.debt
  BY <1>3 DEF SameTokenStake, IsPosition, PositionType
<1> HIDE DEF due, q, e, p
<1>6. positions'[i] = q /\ DiffersAt(positions, positions', i) /\ IsPosition(q)
  <2>1. positions'[i] = q /\ \A j \in 1 .. Len(positions) : j # i => positions'[j] = positions[j]
    BY <1>1, <1>3
  <2>2. Len(positions') = Len(positions)
    <3>1. DOMAIN positions' = 1 .. Len(positions)
      BY <1>1, <1>3
    <3>2. DOMAIN positions' = 1 .. Len(positions') /\ Len(positions') \in Nat
      BY <1>2, PositionFacts
    <3> QED BY <3>1, <3>2, <1>3
  <2>3. IsPosition(positions'[i])
    BY <1>2, <1>3, <2>2, PositionFacts DEF IsPosition
  <2> QED BY <1>2, <1>3, <2>1, <2>2, <2>3 DEF DiffersAt
<1>7. /\ TokenDebtFits(token, e, q)
      /\ TokenMark(token, q) <= TokenMark(token, p) - RAY * due.owed
      /\ TokenMark(token, q) \in Int /\ TokenMark(token, p) \in Int
  <2>1. p.activationEpoch <= e /\ TokenOwed(token, e, p).owed > 0
        /\ q.tokenDebtRay = TokenOwed(token, e, p).debt
    BY <1>1, <1>2, <1>3, <1>5 DEF due
  <2>2. TokenDebtFits(token, e, q)
        /\ TokenMark(token, q) <= TokenMark(token, p) - RAY * TokenOwed(token, e, p).owed
    BY <1>2, <1>3, <1>5, <1>6, <2>1, TokenMarkPaid
  <2> QED BY <1>2, <1>3, <1>6, <2>2, TokenMarkFacts DEF due
<1>8. /\ token'.indexRay = token.indexRay /\ token'.checkpoints = token.checkpoints
      /\ token'.balance = token.balance - due.owed /\ token.balance \in Nat
  BY <1>1, <1>2 DEF TokenType
<1>9. TokenMark(token, q) - TokenMark(token, p) <= RAY * token'.balance - RAY * token.balance
  <2>1. RAY * token'.balance = RAY * token.balance - RAY * due.owed
    <3> DEFINE x == token.balance
               y == due.owed
    <3>1. x \in Int /\ y \in Int /\ RAY \in Int /\ token'.balance = x - y
      BY <1>4, <1>8, RayAssumption
    <3> HIDE DEF x, y
    <3>2. RAY * (x - y) = RAY * x - RAY * y
      BY <3>1, ProductOfDifference
    <3> QED BY <3>1, <3>2 DEF x, y
  <2> DEFINE A == RAY * token.balance
             B == RAY * due.owed
  <2>2. A \in Int /\ B \in Int /\ RAY * token'.balance = A - B
        /\ TokenMark(token, q) <= TokenMark(token, p) - B
    BY <1>4, <1>7, <1>8, <2>1, RayAssumption
  <2> HIDE DEF A, B
  <2>3. TokenMark(token, q) - TokenMark(token, p) <= (A - B) - A
    BY <1>7, <2>2
  <2> QED BY <2>2, <2>3 DEF A
<1> DEFINE t == token
           u == token'
           qs == positions'
<1>10. /\ TokenDebtFits(t, e, qs[i]) /\ DiffersAt(positions, qs, i)
       /\ u.indexRay = t.indexRay /\ u.checkpoints = t.checkpoints
       /\ TokenMark(t, qs[i]) - TokenMark(t, positions[i]) <= RAY * u.balance - RAY * t.balance
       /\ t \in TokenType /\ u \in TokenType /\ TokenShared(t, e, positions)
  BY <1>2, <1>6, <1>7, <1>8, <1>9 DEF p
<1> HIDE DEF t, u, qs
<1>11. TokenShared(u, e, qs)
  BY <1>2, <1>10, TokenSharedAt
<1> QED BY <1>11 DEF TokenInv, u, e, qs
\* What extend makes of the position: its tokens are weighed anew unless it has started
\* and there was a distribution.
IsReweighed(e, p, q) ==
    /\ q.amount = p.amount /\ q.activationEpoch = p.activationEpoch
    /\ q.unlockEpoch > p.unlockEpoch /\ e < p.unlockEpoch
    /\ q.tokenDebtRay = p.tokenDebtRay
    /\ \/ /\ e < p.activationEpoch \/ token.checkpoints = <<>>
          /\ q.tokenWeight = q.weight
       \/ q.tokenWeight = p.tokenWeight /\ q.weight >= p.weight

LEMMA ExtensionReweighs ==
  ASSUME IInv, NEW i \in Ids, NEW more \in Extensions, Extend(i, more)
  PROVE  \E q : /\ IsReplaced(positions, positions', i, q)
                /\ IsReweighed(core'.epoch, positions[i], q)
<1> DEFINE p == positions[i]
           old == p.unlockEpoch - p.createdEpoch - 1
           nu == p.unlockEpoch + more
           NW(c) == ComputeWeight(c.config, p.amount, old + more)
<1>1. PICK c \in FreshCores :
          /\ c.epoch < p.unlockEpoch
          /\ NW(c) > ComputeWeight(c.config, p.amount, old)
          /\ nu <= EpochBound
          /\ \/ c.epoch < p.activationEpoch /\ ExtendInactive(c, i, nu, NW(c))
             \/ c.epoch >= p.activationEpoch /\ ExtendActive(c, i, nu, NW(c))
  BY DEF Extend
<1>2. IsFresh(c) /\ more \in Nat /\ c \in CoreType
  BY FreshFacts, FreshParts, EngineAssumption
<1> DEFINE nw == NW(c)
<1>3. nw \in Nat \ {0} /\ nu > p.unlockEpoch
  <2>1. Extension(c, i, nu, nw)
    BY <1>1, <1>2, ExtensionHolds
  <2> QED BY <2>1 DEF Extension
<1>4. /\ p \in PositionType /\ p.weight \in Nat
  BY PositionsFacts, PositionParts DEF IsPosition
<1> HIDE DEF NW, nu, nw
<1>5. CASE c.epoch < p.activationEpoch /\ ExtendInactive(c, i, nu, nw)
  <2> DEFINE none == DEBT_UNINITIALISED
             q == [p EXCEPT !.weight = nw, !.unlockEpoch = nu, !.tokenWeight = nw,
                            !.naraDebtRay = none, !.ethDebtRay = none]
  <2>1. positions' = [positions EXCEPT ![i] = q] /\ IsExtendedEarly(c, core', p, nu, nw)
    BY <1>5 DEF ExtendInactive, IsExtendedEarly
  <2>2. core'.epoch = c.epoch
    BY <1>2, <2>1 DEF IsExtendedEarly, MoveDeactivation, CoreType
  <2>3. /\ q.amount = p.amount /\ q.activationEpoch = p.activationEpoch
        /\ q.unlockEpoch = nu /\ q.tokenDebtRay = p.tokenDebtRay
        /\ q.tokenWeight = nw /\ q.weight = nw
    BY <1>4 DEF PositionType
  <2> HIDE DEF q
  <2>4. IsReplaced(positions, positions', i, q)
    BY <2>1 DEF IsReplaced
  <2>5. IsReweighed(core'.epoch, p, q)
    BY <1>1, <1>3, <1>5, <2>2, <2>3 DEF IsReweighed
  <2> QED BY <2>4, <2>5
<1>6. CASE c.epoch >= p.activationEpoch /\ ExtendActive(c, i, nu, nw)
  <2> DEFINE nara == Settlement(c.naraIndexAtEpoch, c.naraIndexRay, c.epoch, p, p.naraDebtRay)
             t == IF TokenRewardsNotified THEN p.tokenWeight ELSE nw
             x == MulDiv(nw, c.naraIndexRay, RAY)
             y == MulDiv(nw, c.ethIndexRay, RAY)
             q == [p EXCEPT !.weight = nw, !.unlockEpoch = nu, !.tokenWeight = t,
                            !.naraDebtRay = x, !.ethDebtRay = y]
  <2>1. /\ positions' = [positions EXCEPT ![i] = q] /\ IsExtendedLate(c, core', p, nu, nw, nara)
        /\ nw < p.weight => ~ TokenRewardsNotified
    BY <1>6 DEF ExtendActive, IsExtendedLate
  <2>2. core'.epoch = c.epoch
    <3> HIDE DEF nara
    <3> QED BY <1>2, <2>1 DEF IsExtendedLate, DeliverNara, MoveDeactivation, CoreType
  <2> HIDE DEF x, y
  <2>3. /\ q.amount = p.amount /\ q.activationEpoch = p.activationEpoch
        /\ q.unlockEpoch = nu /\ q.tokenDebtRay = p.tokenDebtRay
        /\ q.tokenWeight = t /\ q.weight = nw
    <3> HIDE DEF t
    <3> QED BY <1>4 DEF PositionType
  <2> HIDE DEF q
  <2>4. IsReplaced(positions, positions', i, q)
    BY <2>1 DEF IsReplaced
  <2>5. IsReweighed(core'.epoch, p, q)
    <3>1. CASE TokenRewardsNotified
      BY <1>1, <1>3, <1>4, <2>1, <2>2, <2>3, <3>1 DEF IsReweighed
    <3>2. CASE ~ TokenRewardsNotified
      BY <1>1, <1>3, <2>2, <2>3, <3>2 DEF IsReweighed, TokenRewardsNotified
    <3> QED BY <3>1, <3>2
  <2> QED BY <2>4, <2>5
<1> QED BY <1>1, <1>5, <1>6 DEF nw

LEMMA ExtendKeepsTokens ==
  ASSUME IInv, IInv', TokenInv, [Next]_vars, NEW i \in Ids, NEW more \in Extensions,
         Extend(i, more)
  PROVE  TokenInv'
<1> DEFINE e == core'.epoch
           p == positions[i]
           t == token
           qs == positions'
<1>1. PICK q : IsReplaced(positions, positions', i, q) /\ IsReweighed(e, p, q)
  BY ExtensionReweighs
<1>2. /\ TokenShared(t, e, positions) /\ t \in TokenType /\ token' = token
      /\ IsPositions(positions) /\ IsPositions(qs) /\ e \in Nat
  BY TokensCaughtUp DEF Extend
<1>3. IsPosition(p) /\ TokenDebtFits(t, e, p) /\ i \in 1 .. Len(positions)
      /\ Len(positions) \in Nat /\ DOMAIN positions = 1 .. Len(positions)
  BY <1>2, PositionsFacts DEF TokenShared
<1>4. qs[i] = q /\ DiffersAt(positions, qs, i) /\ IsPosition(q)
  <2>1. qs[i] = q /\ \A j \in 1 .. Len(positions) : j # i => qs[j] = positions[j]
    BY <1>1, <1>3 DEF IsReplaced
  <2>2. Len(qs) = Len(positions)
    <3>1. DOMAIN qs = 1 .. Len(positions)
      BY <1>1, <1>3 DEF IsReplaced
    <3>2. DOMAIN qs = 1 .. Len(qs) /\ Len(qs) \in Nat
      BY <1>2, PositionFacts
    <3> QED BY <3>1, <3>2, <1>3
  <2>3. IsPosition(qs[i])
    BY <1>2, <1>3, <2>2, PositionFacts DEF IsPosition
  <2> QED BY <1>2, <1>3, <2>1, <2>2, <2>3 DEF DiffersAt
<1> HIDE DEF e, p, t, qs
<1>5. /\ IsExtended(p, q) /\ e < p.unlockEpoch /\ q.tokenDebtRay = p.tokenDebtRay
      /\ q.tokenWeight <= q.weight
      /\ \/ e < p.activationEpoch
         \/ t.checkpoints = <<>>
         \/ q.tokenWeight = p.tokenWeight
  <2>1. /\ q.weight \in Nat /\ p.weight \in Nat /\ q.tokenWeight \in Nat /\ p.tokenWeight \in Nat
        /\ p.tokenWeight <= p.weight
    BY <1>3, <1>4, PositionParts DEF TokenDebtFits
  <2> QED BY <1>1, <1>3, <1>4, <2>1 DEF IsReweighed, IsExtended, t
<1>6. TokenShared(t, e, qs)
  BY <1>2, <1>4, <1>5, TokenSharedExtended DEF p
<1> QED BY <1>2, <1>6 DEF TokenInv, t, e, qs

LEMMA LockKeepsTokens ==
  ASSUME IInv, IInv', TokenInv, [Next]_vars, NEW payer, NEW owner, NEW amount, NEW dur,
         Lock(payer, owner, amount, dur) \/ OnTransferReceived(payer, owner, amount, dur)
  PROVE  TokenInv'
<1> DEFINE t == token
           e == core'.epoch
           qs == positions'
           n == Len(positions)
<1>1. PICK c : IsFresh(c) /\ CreatePosition(c, payer, owner, amount, dur) /\ token' = token
  BY FreshFacts, CoreIsFresh DEF Lock, OnTransferReceived
<1>2. PICK p : /\ positions' = Append(positions, p)
               /\ p.tokenWeight = p.weight /\ p.tokenDebtRay = 0
               /\ p.activationEpoch = c.epoch + c.config.activationDelayEpochs + 1
  BY <1>1 DEF CreatePosition
<1>3. e = c.epoch
  <2>1. c \in CoreType
    BY <1>1, FreshParts
  <2> QED BY <1>1, <2>1 DEF CreatePosition, CoreType
<1>4. e < p.activationEpoch
  <2>1. c.epoch \in Nat /\ c.config.activationDelayEpochs \in Nat
    BY <1>1, FreshParts, ConfigAssumption DEF ConfigType
  <2> QED BY <1>2, <1>3, <2>1
<1>5. /\ TokenShared(t, e, positions) /\ t \in TokenType /\ e \in Nat
      /\ IsPositions(positions) /\ IsPositions(qs) /\ n \in Nat
      /\ positions \in Seq(PositionType)
  BY TokensCaughtUp, PositionsFacts
<1>6. /\ Len(qs) = n + 1 /\ qs[n + 1] = p /\ \A j \in 1 .. n : qs[j] = positions[j]
  BY <1>2, <1>5
<1>7. IsPosition(p)
  <2>1. n + 1 \in 1 .. Len(qs)
    BY <1>5, <1>6
  <2>2. IsPosition(qs[n + 1])
    BY <1>5, <2>1, PositionFacts DEF IsPosition
  <2> QED BY <1>6, <2>2
<1> HIDE DEF t, e, qs
<1>8. TokenShared(t, e, qs)
  BY <1>2, <1>4, <1>5, <1>6, <1>7, TokenSharedCreated
<1> QED BY <1>1, <1>8 DEF TokenInv, t, e, qs

LEMMA InitTokens ==
  ASSUME Init
  PROVE  TokenInv
<1>1. /\ positions = <<>> /\ Len(positions) = 0 /\ token.checkpoints = <<>>
      /\ token.indexRay = 0 /\ token.balance = 0 /\ Len(token.checkpoints) = 0
  BY DEF Init
<1>2. CheckpointsGrow(token, core.epoch)
  BY <1>1 DEF CheckpointsGrow
<1>3. SumTo(TokenMarks(token, positions), 0) = 0
  BY SumOfZeros
<1>4. RAY * token.balance = 0
  BY <1>1, RayAssumption
<1>5. SumTo(TokenMarks(token, positions), Len(positions)) <= RAY * token.balance
  BY <1>1, <1>3, <1>4
<1> QED BY <1>1, <1>2, <1>5 DEF TokenInv, TokenShared

LEMMA NextKeepsTokens ==
  ASSUME IInv, IInv', TokenInv, [Next]_vars
  PROVE  TokenInv'
<1>1. CASE \/ Tick \/ SyncEmissionReserve \/ SetRewardReserve \/ ExecuteConfig \/ CancelConfig
           \/ SetFee \/ WithdrawTreasuryEthFees \/ Poke \/ UNCHANGED vars
           \/ \E a : NotifyEthRewards(a) \/ DepositRewards(a) \/ Donate(a) \/ AdvanceEpochs(a)
                     \/ ProposeConfig(a)
  <2>1. UNCHANGED <<token, positions>>
    BY <1>1 DEF Tick, SyncEmissionReserve, SetRewardReserve, ExecuteConfig, CancelConfig, SetFee,
         WithdrawTreasuryEthFees, Poke, AdvanceBy, OnlyCoreChanges, NotifyEthRewards,
         DepositRewards, Donate, AdvanceEpochs, ProposeConfig, vars
  <2> QED BY <2>1, TokensAlone
<1>2. CASE \E payer \in Payers, owner \in Owners, a \in Amounts, d \in Durations :
              Lock(payer, owner, a, d) \/ OnTransferReceived(payer, owner, a, d)
  BY <1>2, LockKeepsTokens
<1>3. CASE \E i \in Ids, d \in Extensions : Extend(i, d)
  BY <1>3, ExtendKeepsTokens
<1>4. CASE \E caller \in Owners, ids \in SUBSET Ids : Unlock(caller, ids) \/ Claim(caller, ids)
  BY <1>4, PaymentKeepsTokens
<1>5. CASE \E i \in Ids : ClaimTokenRewards(i)
  BY <1>5, ClaimKeepsTokens
<1>6. CASE \E a \in TokenRewards : NotifyTokenRewards(a)
  BY <1>6, NotifyKeepsTokens
<1> QED BY <1>1, <1>2, <1>3, <1>4, <1>5, <1>6 DEF Next

\* What positions can still collect of a reward token is no more than the engine holds of it,
\* and a unit of rounding for each.
LEMMA TokensRounded ==
  ASSUME IInv, TokenInv
  PROVE  TokenRewardsFunded
<1> DEFINE n == Len(positions)
           t == token
           e == core.epoch
           f == TokenMarks(t, positions)
           Due(i) == When(e >= positions[i].activationEpoch, TokenOwed(t, e, positions[i]).owed)
           g == [i \in Ids |-> Due(i)]
           scaled == [i \in 1 .. n |-> RAY * g[i]]
           ones == [i \in 1 .. n |-> RAY - 1]
           h == [i \in 1 .. n |-> f[i] + ones[i]]
<1>1. /\ e \in Nat /\ t \in TokenType /\ IsPositions(positions) /\ Ids = 1 .. n /\ n \in Nat
      /\ t.balance \in Nat /\ RAY \in Nat \ {0}
  BY ClockFacts, PositionsFacts, RayAssumption DEF IInv, FundsInv, TokenType
<1>2. /\ CheckpointsGrow(t, e) /\ SumTo(f, n) <= RAY * t.balance
      /\ \A i \in 1 .. n : TokenDebtFits(t, e, positions[i])
  BY DEF TokenInv, TokenShared
<1>3. /\ IsFamily(f, n) /\ \A i \in 1 .. n : /\ f[i] = TokenMark(t, positions[i])
                                             /\ IsPosition(positions[i])
  BY <1>1, <1>2, TokenMarksFamily
<1>4. TokenRewardsFunded <=> SumTo(g, n) <= t.balance + n
  BY DEF TokenRewardsFunded, SumPositions
<1>5. \A i \in 1 .. n : g[i] \in Nat /\ RAY * g[i] <= f[i] + (RAY - 1)
  <2>1. SUFFICES ASSUME NEW i \in 1 .. n PROVE g[i] \in Nat /\ RAY * g[i] <= f[i] + (RAY - 1)
    OBVIOUS
  <2> DEFINE owed == TokenOwed(t, e, positions[i]).owed
  <2>2. owed \in Nat
    BY <1>1, <1>3, TokenOwedType
  <2>3. 0 <= f[i] + (RAY - 1) /\ RAY * owed <= f[i] + (RAY - 1)
    BY <1>1, <1>2, <1>3, TokenOwedWithinMark
  <2>4. g[i] = When(e >= positions[i].activationEpoch, owed)
    BY <1>1
  <2>5. RAY * 0 = 0
    BY <1>1
  <2> HIDE DEF owed, g, f, e, t
  <2> QED BY <2>2, <2>3, <2>4, <2>5 DEF When
<1>6. \A i \in 1 .. n : ones[i] = RAY - 1 /\ h[i] = f[i] + ones[i] /\ scaled[i] = RAY * g[i]
  OBVIOUS
<1> HIDE DEF f, g, h, ones, scaled, t, e
<1>7. IsFamily(ones, n) /\ SumTo(ones, n) = n * (RAY - 1)
  <2>1. RAY - 1 \in Int /\ \A i \in 1 .. n : ones[i] = RAY - 1
    BY <1>1, <1>6
  <2> HIDE DEF n
  <2> QED BY <1>1, <2>1, SumOfConstant
<1>8. IsFamily(g, n) /\ IsFamily(scaled, n) /\ SumTo(scaled, n) = RAY * SumTo(g, n)
  <2>1. IsFamily(g, n)
    BY <1>1, <1>5 DEF IsFamily
  <2>2. RAY \in Int
    BY <1>1
  <2> QED BY <1>6, <2>1, <2>2, SumOfScaled
<1>9. IsFamily(h, n) /\ SumTo(h, n) = SumTo(f, n) + n * (RAY - 1)
  <2>1. IsFamily(h, n)
    BY <1>3, <1>6, <1>7 DEF IsFamily
  <2>2. SumTo(h, n) = SumTo(f, n) + SumTo(ones, n)
    BY <1>3, <1>6, <1>7, <2>1, SumOfSum
  <2> QED BY <1>7, <2>1, <2>2
<1>10. SumTo(scaled, n) <= SumTo(h, n)
  <2>1. \A i \in 1 .. n : scaled[i] <= h[i]
    BY <1>5, <1>6
  <2> QED BY <1>8, <1>9, <2>1, SumIsMonotone
<1>11. RAY * SumTo(g, n) <= RAY * (t.balance + n)
  <2> DEFINE A == RAY * t.balance
             B == RAY * n
             C == n * (RAY - 1)
             G == RAY * SumTo(g, n)
  <2>1. RAY * (t.balance + n) = A + B
    BY <1>1, ProductOfSum
  <2>2. C = B - n
    BY <1>1, ProductOfDifference
  <2>3. A \in Int /\ B \in Int /\ SumTo(f, n) \in Int
    BY <1>1, <1>3, SumIsInt
  <2>4. SumTo(f, n) <= A /\ G <= SumTo(f, n) + C
    BY <1>2, <1>8, <1>9, <1>10 DEF f
  <2>5. G \in Int
    BY <1>1, <1>8, SumIsInt
  <2> HIDE DEF A, B, C, G
  <2>6. G <= A + B
    BY <1>1, <2>2, <2>3, <2>4, <2>5
  <2> QED BY <2>1, <2>6 DEF G
<1>12. SumTo(g, n) <= t.balance + n
  <2> DEFINE x == SumTo(g, n)
             y == t.balance + n
  <2>1. x \in Int /\ y \in Int /\ RAY * x <= RAY * y
    BY <1>1, <1>8, <1>11, SumIsInt
  <2> HIDE DEF x, y
  <2>2. x <= y
    <3>1. SUFFICES ASSUME x >= y + 1 PROVE FALSE
      BY <2>1
    <3>2. RAY * (x - y) = RAY * x - RAY * y
      BY <1>1, <2>1, ProductOfDifference
    <3>3. RAY * (x - y) >= RAY
      <4> DEFINE z == x - y
      <4>1. z \in Nat \ {0}
        BY <2>1, <3>1
      <4> HIDE DEF z
      <4>2. RAY * z >= RAY
        BY <1>1, <4>1
      <4> QED BY <4>2 DEF z
    <3> DEFINE X == RAY * x
               Y == RAY * y
    <3>4. X \in Int /\ Y \in Int /\ X <= Y /\ X - Y >= RAY
      BY <1>1, <2>1, <3>2, <3>3
    <3> HIDE DEF X, Y
    <3> QED BY <1>1, <3>4
  <2> QED BY <2>2 DEF x, y
<1> QED BY <1>4, <1>12

\* The engine holds the reward tokens that positions, closed ones included, may collect.
THEOREM TokenRewardsAreFunded == Spec => []TokenRewardsFunded
<1>1. Init => TokenInv
  BY InitTokens
<1>2. IInv /\ IInv' /\ TokenInv /\ [Next]_vars => TokenInv'
  BY NextKeepsTokens
<1>3. IInv /\ TokenInv => TokenRewardsFunded
  BY TokensRounded
<1> QED BY <1>1, <1>2, <1>3, InductiveInvariant, PTL DEF Spec

--------------------------------------------------------------------------------
(* The engine with its keeper.  A transaction of the maintainer settles the backlog that *)
(* a run saw, up to a batch, whatever the engine settled since.                          *)

\* What every property of the engine follows from.
EngineInv == IInv /\ RewardsInv /\ TokenInv

\* A run asks for as many epochs as were behind when it looked.
KeeperOK ==
    /\ job \in [at : {"idle", "check", "plan", "send", "wait", "read", "report"},
                backlog : Nat, batches : Int]
    /\ txs \in Seq(Nat)

LEMMA SettlingKeepsEngine ==
  ASSUME EngineInv, NEW n \in Nat, AdvanceEpochs(n)
  PROVE  EngineInv'
<1>1. /\ IInv /\ RewardsInv /\ TokenInv /\ AdvanceBy(n)
      /\ core' \in Advanced(n) /\ UNCHANGED <<token, positions>>
  BY DEF EngineInv, AdvanceEpochs, AdvanceBy, OnlyCoreChanges
<1>2. IInv' /\ RewardsInv'
  BY <1>1, AdvanceStep, AdvanceSharesOut
<1>3. core.epoch <= core'.epoch
  BY <1>1, AdvancedFacts DEF IsLater
<1>4. TokenInv'
  <2> DEFINE d == core.epoch
             e == core'.epoch
  <2>1. d \in Nat /\ e \in Nat /\ e \in Epochs
    BY <1>1, <1>2, LedgerEpoch DEF IInv, BooksInv, LedgerInv, CoreType, Epochs
  <2>2. token \in TokenType /\ IsPositions(positions)
    BY <1>1 DEF IInv, FundsInv, PositionInv
  <2>3. TokenShared(token, d, positions) /\ d <= e
    BY <1>1, <1>3 DEF TokenInv
  <2> HIDE DEF d, e
  <2>4. TokenShared(token, e, positions)
    BY <2>1, <2>2, <2>3, TokenSharedLater
  <2> QED BY <1>1, <2>4 DEF TokenInv, e
<1> QED BY <1>2, <1>4 DEF EngineInv

LEMMA BacklogIsNat ==
  ASSUME IInv
  PROVE  CurrentEpoch - core.epoch \in Nat
<1>1. CurrentEpoch \in Nat /\ core.epoch \in Nat /\ core.epoch <= CurrentEpoch
  BY ClockFacts DEF IInv, ClockInv
<1> QED BY <1>1

\* What the workflow does to the engine settles epochs or is a step of its users.
LEMMA KeeperActsOnEngine ==
  ASSUME KeeperOK, [KeeperNext]_allVars
  PROVE  [Next]_vars \/ \E n \in Nat : AdvanceEpochs(n)
<1>1. CASE Include
  <2>1. txs # <<>> /\ (AdvanceEpochs(Head(txs)) \/ UNCHANGED vars)
    BY <1>1 DEF Include
  <2>2. Head(txs) \in Nat
    BY <2>1 DEF KeeperOK
  <2> QED BY <2>1, <2>2
<1>2. CASE (IF kept = "anyone" THEN Next ELSE Quiet) /\ UNCHANGED keeperVars
  <2>1. Quiet => Next
    BY DEF Quiet, Next
  <2> QED BY <1>2, <2>1
<1>3. CASE (Keeper /\ ~ Include) \/ UNCHANGED allVars
  <2>1. UNCHANGED vars
    BY <1>3 DEF Keeper, JobStep, Schedule, WatchdogLooks, WatchdogDispatches, BeginRun, Check,
         Plan, Send, NextBatch, Report, TimeOut, RunFails, LoseTransaction, OnlyJob, allVars
  <2> QED BY <2>1
<1> QED BY <1>1, <1>2, <1>3 DEF KeeperNext

LEMMA KeeperKeepsEngine ==
  ASSUME EngineInv, KeeperOK, [KeeperNext]_allVars
  PROVE  EngineInv'
<1>1. CASE [Next]_vars
  BY <1>1, NextKeeps, NextShares, NextKeepsTokens DEF EngineInv
<1>2. CASE \E n \in Nat : AdvanceEpochs(n)
  BY <1>2, SettlingKeepsEngine
<1> QED BY <1>1, <1>2, KeeperActsOnEngine

LEMMA KeeperKeepsCustody ==
  ASSUME EngineInv, EngineInv', KeeperOK, [KeeperNext]_allVars
  PROVE  [Custody!Next]_(Custody!vars)
<1>1. CASE [Next]_vars
  BY <1>1, NextIsCustody DEF EngineInv
<1>2. CASE \E n \in Nat : AdvanceEpochs(n)
  BY <1>2, AdvanceSettles DEF EngineInv, AdvanceEpochs
<1> QED BY <1>1, <1>2, KeeperActsOnEngine

\* A run never counts a negative backlog, and never sends for one.
LEMMA KeeperStays ==
  ASSUME EngineInv, EngineInv', KeeperOK, [KeeperNext]_allVars
  PROVE  KeeperOK'
<1> DEFINE Places == {"idle", "check", "plan", "send", "wait", "read", "report"}
           JobType == [at : Places, backlog : Nat, batches : Int]
<1>1. /\ job \in JobType /\ txs \in Seq(Nat) /\ Idle \in JobType
      /\ CurrentEpoch - core.epoch \in Nat
  BY BacklogIsNat DEF EngineInv, KeeperOK, Idle
<1>2. /\ \A place \in Places : [job EXCEPT !.at = place] \in JobType
      /\ \A place \in Places, n \in Nat : [job EXCEPT !.at = place, !.backlog = n] \in JobType
      /\ [Idle EXCEPT !.at = "check"] \in JobType
      /\ {"idle", "check", "plan", "send", "wait", "read", "report"} \subseteq Places
  BY <1>1
<1>0. (job' \in JobType /\ txs' \in Seq(Nat)) => KeeperOK'
  BY DEF KeeperOK
<1> HIDE DEF JobType, Places
<1>3. CASE Include
  <2>1. /\ txs # <<>> /\ txs' = Tail(txs)
        /\ \/ job' = job
           \/ job' = Idle
           \/ /\ AdvanceEpochs(Head(txs))
              /\ job' = [at |-> "read", backlog |-> CurrentEpoch - core'.epoch,
                         batches |-> job.batches + 1]
    BY <1>3 DEF Include, GoesOn, Ends
  <2>2. Tail(txs) \in Seq(Nat)
    BY <1>1, <2>1
  <2>3. ASSUME AdvanceEpochs(Head(txs)) PROVE CurrentEpoch - core'.epoch \in Nat
    <3>1. now' = now
      BY <2>3 DEF AdvanceEpochs, AdvanceBy, OnlyCoreChanges
    <3>2. core'.epoch <= CurrentEpoch' /\ core'.epoch \in Nat
      BY LedgerEpoch DEF EngineInv, IInv, ClockInv, BooksInv
    <3>3. CurrentEpoch' = CurrentEpoch /\ CurrentEpoch \in Nat
      BY <3>1, ClockFacts DEF EngineInv, CurrentEpoch
    <3> QED BY <3>2, <3>3
  <2>4. ASSUME AdvanceEpochs(Head(txs))
        PROVE  [at |-> "read", backlog |-> CurrentEpoch - core'.epoch,
                batches |-> job.batches + 1] \in JobType
    <3>1. job.batches + 1 \in Int /\ "read" \in Places
      BY <1>1 DEF JobType, Places
    <3> QED BY <2>3, <2>4, <3>1 DEF JobType
  <2>5. job' \in JobType
    BY <1>1, <2>1, <2>4
  <2> QED BY <1>0, <2>1, <2>2, <2>5
<1>4. CASE Send
  <2>1. /\ job' = [job EXCEPT !.at = "wait"] \/ job' = Idle
        /\ txs' = txs \/ txs' = Append(txs, MinOf(job.backlog, BatchSize))
    BY <1>4 DEF Send, GoesOn, Ends
  <2>2. MinOf(job.backlog, BatchSize) \in Nat
    BY <1>1, KeeperAssumption DEF MinOf, JobType
  <2>3. txs' \in Seq(Nat)
    <3> DEFINE asked == MinOf(job.backlog, BatchSize)
    <3>1. asked \in Nat /\ (txs' = txs \/ txs' = Append(txs, asked))
      BY <2>1, <2>2
    <3> HIDE DEF asked
    <3> QED BY <1>1, <3>1
  <2>4. job' \in JobType
    BY <1>1, <1>2, <2>1
  <2> QED BY <1>0, <2>3, <2>4
<1>5. CASE Schedule \/ WatchdogLooks \/ WatchdogDispatches \/ UNCHANGED keeperVars
  <2>1. job' = job /\ txs' = txs
    BY <1>5 DEF Schedule, WatchdogLooks, WatchdogDispatches, keeperVars
  <2> QED BY <1>0, <1>1, <2>1
<1>6. CASE BeginRun \/ Check \/ NextBatch \/ Report \/ TimeOut \/ RunFails
  <2>1. /\ txs' = txs
        /\ \/ job' = Idle
           \/ job' = [Idle EXCEPT !.at = "check"]
           \/ job' = [job EXCEPT !.at = "plan"]
           \/ job' = [job EXCEPT !.at = "report"]
           \/ job' = [job EXCEPT !.at = "send"]
    BY <1>6 DEF BeginRun, Check, NextBatch, Report, TimeOut, RunFails, OnlyJob, GoesOn, Ends
  <2>2. job' \in JobType
    BY <1>1, <1>2, <2>1
  <2> QED BY <1>0, <1>1, <2>1, <2>2
<1>7. CASE Plan
  <2>1. /\ txs' = txs
        /\ \/ job' = Idle
           \/ job' = [job EXCEPT !.at = "report", !.backlog = CurrentEpoch - core.epoch]
           \/ job' = [job EXCEPT !.at = "send", !.backlog = CurrentEpoch - core.epoch]
    BY <1>7 DEF Plan, OnlyJob, GoesOn, Ends, Backlog
  <2>2. job' \in JobType
    <3> DEFINE behind == CurrentEpoch - core.epoch
    <3>1. /\ behind \in Nat
          /\ \/ job' = Idle
             \/ job' = [job EXCEPT !.at = "report", !.backlog = behind]
             \/ job' = [job EXCEPT !.at = "send", !.backlog = behind]
      BY <1>1, <2>1
    <3> HIDE DEF behind
    <3>2. "report" \in Places /\ "send" \in Places
      BY <1>2
    <3> QED BY <1>1, <1>2, <3>1, <3>2
  <2> QED BY <1>0, <1>1, <2>1, <2>2
<1>8. CASE LoseTransaction
  <2>1. txs # <<>> /\ txs' = Tail(txs) /\ job' = job
    BY <1>8 DEF LoseTransaction
  <2>2. txs' \in Seq(Nat)
    BY <1>1, <2>1
  <2> QED BY <1>0, <1>1, <2>1, <2>2
<1> QED BY <1>3, <1>4, <1>5, <1>6, <1>7, <1>8 DEF KeeperNext, Keeper, JobStep, allVars

\* What the invariants of the engine say of it.
LEMMA EngineInvSays ==
  ASSUME EngineInv
  PROVE  /\ TypeOK /\ PrincipalConserved /\ WeightAggregatesExact
         /\ StagedConfigOnTime /\ OwnerCountExact /\ NaraBooksBalance
         /\ NaraRewardsConserved /\ EthRewardsConserved /\ TokenRewardsFunded
<1>1. IInv /\ RewardsInv /\ TokenInv
  BY DEF EngineInv
<1>2. TypeOK
  BY <1>1, PositionsFacts DEF IInv, ClockInv, BooksInv, LedgerInv, ConfigInv, FundsInv, RebasesType,
         OwnerInv, FeesType, EthType, TokenType, TypeOK
<1>3. PrincipalConserved /\ OwnerCountExact
  BY <1>1 DEF IInv, PositionInv, OwnerInv
<1>4. WeightAggregatesExact
  BY <1>1 DEF IInv, BooksInv, LedgerInv, WeightsExact, ActiveWeightExact, SchedulesExact,
              WeightAggregatesExact
<1>5. StagedConfigOnTime
  BY <1>1 DEF IInv, BooksInv, LedgerInv, Staged, ConfigInv, StagedConfigOnTime
<1>6. NaraBooksBalance
  <2>1. Books(core, totalLocked, totalNaraDripClaimed) /\ core.reserve.balance \in Nat
        /\ core.balance \in Nat /\ Supply \in Nat
    BY <1>1, BooksFacts
  <2> QED BY <2>1 DEF Books, NaraBooksBalance, Circulating
<1>7. NaraRewardsConserved /\ EthRewardsConserved
  BY <1>1, NaraRewardsRounded, EthRewardsRounded
<1>8. TokenRewardsFunded
  BY <1>1, TokensRounded
<1> QED BY <1>2, <1>3, <1>4, <1>5, <1>6, <1>7, <1>8

LEMMA KeeperStarts ==
  ASSUME KeeperInit
  PROVE  EngineInv /\ KeeperOK
<1>1. Init /\ job = Idle /\ txs = <<>>
  BY DEF KeeperInit
<1>2. EngineInv
  BY <1>1, InitHolds, InitShares, InitTokens DEF EngineInv
<1> QED BY <1>1, <1>2 DEF KeeperOK, Idle

THEOREM KeeperInvariant == KeeperSpec => [](EngineInv /\ KeeperOK)
<1>1. KeeperInit => EngineInv /\ KeeperOK
  BY KeeperStarts
<1>2. EngineInv /\ KeeperOK /\ [KeeperNext]_allVars => (EngineInv /\ KeeperOK)'
  BY KeeperKeepsEngine, KeeperStays
<1> QED BY <1>1, <1>2, PTL DEF KeeperSpec

\* With the workflow and its watchdog in the place of users who call poke, whatever runs
\* fail, overlap with rivals or lose their transactions, the engine keeps its promises:
\* aggregates, books and rewards of NARAEngine, at any batch size and limit.
THEOREM EngineHoldsWhileKept ==
  KeeperSpec => [](/\ TypeOK /\ PrincipalConserved /\ WeightAggregatesExact
                   /\ StagedConfigOnTime /\ OwnerCountExact /\ NaraBooksBalance
                   /\ NaraRewardsConserved /\ EthRewardsConserved /\ TokenRewardsFunded)
<1>1. EngineInv => /\ TypeOK /\ PrincipalConserved /\ WeightAggregatesExact
                   /\ StagedConfigOnTime /\ OwnerCountExact /\ NaraBooksBalance
                   /\ NaraRewardsConserved /\ EthRewardsConserved /\ TokenRewardsFunded
  BY EngineInvSays
<1> QED BY <1>1, KeeperInvariant, PTL

\* And it implements PrincipalCustody, batches of any size included.
THEOREM CustodyHoldsWhileKept == KeeperSpec => CustodyHeld
<1>1. KeeperInit => Custody!Init
  <2> SUFFICES ASSUME KeeperInit PROVE Custody!Init
    OBVIOUS
  <2>1. positions = <<>> /\ core.epoch = 0 /\ totalLocked = 0
    BY DEF KeeperInit, Init
  <2>2. DepositsOf(positions) = <<>>
    BY <2>1 DEF DepositsOf
  <2> QED BY <2>1, <2>2 DEF Custody!Init
<1>2. EngineInv /\ EngineInv' /\ KeeperOK /\ [KeeperNext]_allVars => [Custody!Next]_(Custody!vars)
  BY KeeperKeepsCustody
<1> QED BY <1>1, <1>2, KeeperInvariant, PTL DEF KeeperSpec, CustodyHeld, Custody!Spec
================================================================================
