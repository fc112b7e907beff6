------------------------------ MODULE GrowthProofs ------------------------------
(* For every curve, depth, delay and number of compounders: a block pays the fee of its
   flow, genesis base goes to one distributor, the maintainer's transactions pay what it
   has verified, or are not reported, and the totals of three contracts agree.       *)
EXTENDS GrowthProperties, PrefixSumProofs

Delayed(T) == SUBSET [target : T, eta : Nat]

FlowType == [block : Nat, amount : Nat, charged : Nat, depth : Nat, curve : FeeCurve]

VaultType ==
    [hook : BOOLEAN,
     compounder : Compounders \cup {None}, pendingCompounder : Delayed(Compounders),
     compounderFrozen : BOOLEAN,
     distributor : Distributors \cup {None}, pendingDistributor : Delayed(Distributors),
     distributorFrozen : BOOLEAN,
     routeMode : RouteModes, keeperAllowed : BOOLEAN,
     keeperBountyBps : Nat, minCompoundBase : Nat, splitGenesisShareBps : Nat]

BooksType == [fees : [Currencies -> Nat], compounded : [Currencies -> Int],
              bountyPaid : Int, routedToGenesis : Int]

CompounderType ==
    [bank : [Currencies -> Int], added : [Currencies -> Int], totalLiquidityAdded : Int,
     positionTokenId : Nat, recovery : Delayed([kind : RecoveryKinds, to : Recipients])]

TxType == [deadline : Nat, minLiquidity : Int, position : Nat, total : Int, raced : BOOLEAN]

--------------------------------------------------------------------------------
(* The inductive invariant, by contract                                              *)

\* Every curve that may come to be used is valid.
HookOK ==
    /\ now \in Nat
    /\ curves \in [Sides -> FeeCurve]
    /\ pendingCurves \in [Sides -> Delayed(FeeCurve)]
    /\ protocolDepth \in [Sides -> Nat]
    /\ pendingDepth \in [Sides -> Delayed(Nat)]
    /\ flow \in [Sides -> FlowType]
    /\ \A side \in Sides :
          /\ ValidCurve(curves[side]) /\ ValidCurve(flow[side].curve)
          /\ \A p \in pendingCurves[side] : ValidCurve(p.target)
    /\ FeeFollowsCurve

\* A genesis route implies a distributor that can no longer change.
VaultOK ==
    /\ vault \in VaultType
    /\ books \in BooksType
    /\ balance \in [Currencies -> Int]
    /\ received \in [Distributors -> Int]
    /\ vault.compounderFrozen => vault.compounder # None
    /\ vault.distributorFrozen => vault.distributor # None
    /\ vault.routeMode \in GenesisModes => vault.distributorFrozen
    /\ OneDistributorPaid

\* No recovery leads to the compounder it takes from.
CompoundersOK ==
    /\ compounders \in [Compounders -> CompounderType] /\ nextTokenId \in Nat
    /\ \A k \in Compounders : \A p \in compounders[k].recovery : p.target.to # k

V4 == compounders[V4_COMPOUNDER]
NoRecoveryBefore(t) == \A p \in V4.recovery : p.eta >= t

\* Until its deadline, a transaction finds what the job has read. The compounder it pays
\* is frozen; one that is not the maintainer's has left the maintainer's as it was read.
TxOK(tx) ==
    /\ tx \in TxType
    /\ tx.deadline <= now + DeadlineWindow
    /\ vault.compounderFrozen
    /\ vault.compounder # V4_COMPOUNDER => tx.raced /\ V4.totalLiquidityAdded = tx.total
    /\ now <= tx.deadline =>
          /\ NoRecoveryBefore(tx.deadline + 1)
          /\ tx.position # 0 => V4.positionTokenId = tx.position

\* What the answers so far are worth, whatever has changed since.
Reading ==
    /\ job \in [step : {"reading"}, started : Nat, answered : SUBSET BindingReads,
               right : SUBSET BindingReads, frozenThen : BOOLEAN]
    /\ job.started <= now /\ job.right \subseteq job.answered
    /\ "compounderFrozen" \in job.right => vault.compounderFrozen
    /\ job.frozenThen /\ "compounder" \in job.right =>
          vault.compounderFrozen /\ vault.compounder = V4_COMPOUNDER
    /\ "pendingRecovery" \in job.right => NoRecoveryBefore(job.started + RECOVERY_DELAY)

\* No recovery can be executed before the run and its transaction are over.
Checked ==
    /\ job \in [step : {"checked"}, started : Nat, frozen : BOOLEAN, frozenThen : BOOLEAN]
    /\ job.started <= now
    /\ NoRecoveryBefore(job.started + RECOVERY_DELAY)
    /\ job.frozen => vault.compounderFrozen
    /\ job.frozen /\ job.frozenThen => vault.compounder = V4_COMPOUNDER

\* The transaction is made up, but the freeze is only looked at after the simulation.
Made ==
    /\ job \in [step : {"ready"}, started : Nat, frozen : BOOLEAN, tx : TxType]
    /\ job.frozen => TxOK(job.tx)

Prepared ==
    /\ job \in [step : {"simulated", "sent"}, started : Nat, tx : TxType]
    /\ TxOK(job.tx)

\* What was paid is the compounder in force: it was frozen before.
Included ==
    /\ job \in [step : {"included", "reported"}, started : Nat, tx : TxType, paid : Compounders]
    /\ TxOK(job.tx)
    /\ job.paid = vault.compounder
    /\ ReportsTruly

JobOK == job = IdleJob \/ Reading \/ Checked \/ Made \/ Prepared \/ Included

MaintainerOK == JobOK /\ \A tx \in txs : TxOK(tx)

IInv == HookOK /\ VaultOK /\ CompoundersOK /\ MaintainerOK

\* The steps of the maintainer that leave every contract as it is.
OffChain ==
    \/ StartRun
    \/ \E read \in BindingReads : Answer(read)
    \/ CheckBindings
    \/ Snapshot
    \/ \E price \in Prices : Simulate(price)
    \/ Send
    \/ \E tx \in txs : Lose(tx)
    \/ Report
    \/ EndJob

LEMMA OffChainRests ==
  ASSUME OffChain
  PROVE  UNCHANGED <<now, hookVars, vaultVars, compounderVars, donated>>
BY DEF OffChain, StartRun, Answer, CheckBindings, Snapshot, Simulate, Send, Lose, Report, EndJob

LEMMA NextSteps ==
  ASSUME [Next]_vars
  PROVE  \/ HookGovernance \/ VaultGovernance \/ Recovery \/ Donation \/ Tick \/ OffChain
         \/ \E side \in Sides, amount \in SwapAmounts : Swap(side, amount)
         \/ \E amount \in Amounts, price \in Prices : Compound(amount, price)
         \/ \E price \in Prices : ProcessGenesisSplitAll(price)
         \/ \E tx \in txs, price \in Prices : Land(tx, price)
         \/ UNCHANGED vars
BY DEF Next, Maintainer, OffChain

\* Bindings, routes and permissions are the owner's.
LEMMA OnlyGovernanceBinds ==
  ASSUME [Next]_vars, ~VaultGovernance
  PROVE  UNCHANGED vault
<1>1. CASE Recovery \/ Donation \/ OffChain
  BY <1>1, OffChainRests DEF Recovery, RecoverTo, Donation, Donate, vaultVars
<1>2. CASE ~(Recovery \/ Donation \/ OffChain)
  BY <1>2, NextSteps DEF HookGovernance, Swap, Compound, ProcessGenesisSplitAll, CompoundUnchecked,
     Land, Tick, vars, vaultVars
<1> QED BY <1>1, <1>2

\* What a recovery moves is an amount of each currency.
LEMMA RecoveredIsInt ==
  ASSUME CompoundersOK, NEW k \in Compounders, NEW p
  PROVE  Recovered(k, p) \in [Currencies -> Int]
BY DEF CompoundersOK, CompounderType, Recovered, Currencies

--------------------------------------------------------------------------------
(* The piecewise fee                                                                 *)

\* Rounding down keeps the order of two amounts.
LEMMA DivMonotone ==
  ASSUME NEW a \in Nat, NEW b \in Nat, a <= b, NEW d \in Nat \ {0}
  PROVE  a \div d \in Nat /\ b \div d \in Nat /\ a \div d <= b \div d
OBVIOUS

\* So does a fee on an amount.
LEMMA ShareMonotone ==
  ASSUME NEW a \in Nat, NEW b \in Nat, a <= b, NEW fee \in Nat
  PROVE  /\ (a * fee) \div BPS \in Nat /\ (b * fee) \div BPS \in Nat
         /\ (a * fee) \div BPS <= (b * fee) \div BPS
<1>1. a * fee \in Nat /\ b * fee \in Nat /\ a * fee <= b * fee
  <2>1. (b - a) * fee \in Nat /\ (b - a) * fee = b * fee - a * fee
    OBVIOUS
  <2>2. a * fee \in Nat /\ b * fee \in Nat
    OBVIOUS
  <2> QED BY <2>1, <2>2
<1>2. BPS \in Nat \ {0}
  BY BpsAssumption
<1> HIDE BpsAssumption
<1> QED BY <1>1, <1>2, DivMonotone

\* What a larger flow pays in a tier is not less.
LEMMA TierMonotone ==
  ASSUME NEW a \in Nat, NEW b \in Nat, a <= b, NEW from \in Nat, NEW fee \in Nat,
         NEW s \in Nat, NEW t \in Nat, (from <= s /\ s = t) \/ (s = a /\ t = b)
  PROVE  /\ TierShare(a, from, s, fee) \in Nat /\ TierShare(b, from, t, fee) \in Nat
         /\ TierShare(a, from, s, fee) <= TierShare(b, from, t, fee)
<1> DEFINE x == Least(a, s) - Least(a, from)
           y == Least(b, t) - Least(b, from)
<1>1. x \in Nat /\ y \in Nat /\ x <= y
  BY DEF Least
<1> HIDE DEF x, y
<1>2. /\ (x * fee) \div BPS \in Nat /\ (y * fee) \div BPS \in Nat
      /\ (x * fee) \div BPS <= (y * fee) \div BPS
  BY <1>1, ShareMonotone
<1> QED BY <1>2 DEF TierShare, x, y

\* A larger flow of the same block never owes less: no tier, boundary or rounding makes
\* the next swap of a block cheaper than nothing.
LEMMA FeeMonotone ==
  ASSUME NEW c \in FeeCurve, ValidCurve(c), NEW depth \in Nat,
         NEW a \in Nat, NEW b \in Nat, a <= b
  PROVE  /\ CumulativeFee(c, a, depth) \in Nat /\ CumulativeFee(c, b, depth) \in Nat
         /\ CumulativeFee(c, a, depth) <= CumulativeFee(c, b, depth)
<1> DEFINE mediumAt == (depth * c.mediumPressureBps) \div BPS
           highAt == (depth * c.highPressureBps) \div BPS
           extremeAt == (depth * c.extremePressureBps) \div BPS
           T1(x) == TierShare(x, 0, mediumAt, c.baseFeeBps)
           T2(x) == TierShare(x, mediumAt, highAt, c.mediumFeeBps)
           T3(x) == TierShare(x, highAt, extremeAt, c.highFeeBps)
           T4(x) == TierShare(x, extremeAt, x, c.extremeFeeBps)
<1>1. /\ c.mediumPressureBps \in Nat /\ c.highPressureBps \in Nat /\ c.extremePressureBps \in Nat
      /\ c.mediumPressureBps <= c.highPressureBps /\ c.highPressureBps <= c.extremePressureBps
      /\ c.baseFeeBps \in Nat /\ c.mediumFeeBps \in Nat /\ c.highFeeBps \in Nat
      /\ c.extremeFeeBps \in Nat
  BY DEF FeeCurve, ValidCurve
<1>2. CASE depth = 0
  <2>1. /\ (a * c.extremeFeeBps) \div BPS \in Nat /\ (b * c.extremeFeeBps) \div BPS \in Nat
        /\ (a * c.extremeFeeBps) \div BPS <= (b * c.extremeFeeBps) \div BPS
    BY <1>1, ShareMonotone
  <2> QED BY <1>2, <2>1 DEF CumulativeFee
<1>3. CASE depth # 0
  <2>1. /\ mediumAt \in Nat /\ highAt \in Nat /\ extremeAt \in Nat
        /\ mediumAt <= highAt /\ highAt <= extremeAt
    <3>1. \A p, r \in Nat : p <= r => /\ (depth * p) \div BPS \in Nat /\ (depth * r) \div BPS \in Nat
                                      /\ (depth * p) \div BPS <= (depth * r) \div BPS
      <4> TAKE p, r \in Nat
      <4>1. depth * p = p * depth /\ depth * r = r * depth
        OBVIOUS
      <4>2. p <= r => /\ (p * depth) \div BPS \in Nat /\ (r * depth) \div BPS \in Nat
                      /\ (p * depth) \div BPS <= (r * depth) \div BPS
        BY ShareMonotone
      <4> QED BY <4>1, <4>2
    <3> QED BY <1>1, <3>1
  <2>2. ASSUME NEW x
        PROVE  CumulativeFee(c, x, depth) = T1(x) + T2(x) + T3(x) + T4(x)
    BY <1>3, Zenon DEF CumulativeFee
  <2> HIDE DEF mediumAt, highAt, extremeAt
  <2>3. T1(a) \in Nat /\ T1(b) \in Nat /\ T1(a) <= T1(b)
    <3> DEFINE zero == 0
    <3>1. zero \in Nat /\ zero <= mediumAt
      BY <2>1
    <3> HIDE DEF zero
    <3>2. /\ TierShare(a, zero, mediumAt, c.baseFeeBps) \in Nat
          /\ TierShare(b, zero, mediumAt, c.baseFeeBps) \in Nat
          /\ TierShare(a, zero, mediumAt, c.baseFeeBps) <= TierShare(b, zero, mediumAt, c.baseFeeBps)
      BY <1>1, <2>1, <3>1, TierMonotone
    <3> QED BY <3>2 DEF zero
  <2>4. T2(a) \in Nat /\ T2(b) \in Nat /\ T2(a) <= T2(b)
    BY <1>1, <2>1, TierMonotone
  <2>5. T3(a) \in Nat /\ T3(b) \in Nat /\ T3(a) <= T3(b)
    BY <1>1, <2>1, TierMonotone
  <2>6. T4(a) \in Nat /\ T4(b) \in Nat /\ T4(a) <= T4(b)
    BY <1>1, <2>1, TierMonotone
  <2> HIDE DEF T1, T2, T3, T4
  <2> QED BY <2>2, <2>3, <2>4, <2>5, <2>6
<1> QED BY <1>2, <1>3

\* Nothing has flowed, nothing is owed.
LEMMA NoFlowNoFee ==
  ASSUME NEW c \in FeeCurve, ValidCurve(c)
  PROVE  CumulativeFee(c, 0, 0) = 0
<1>1. c.extremeFeeBps \in Nat /\ BPS \in Nat \ {0}
  BY BpsAssumption DEF FeeCurve
<1> QED BY <1>1 DEF CumulativeFee

--------------------------------------------------------------------------------
(* The hook                                                                          *)

\* A flow that has paid its fee and takes one more swap has paid its fee again, whether
\* the swap is the first of its block or not.
LEMMA SwapPaysTheDifference ==
  ASSUME HookOK, NEW side \in Sides, NEW amountIn \in Nat
  PROVE  LET f == BlockFlow(side)
             due == CumulativeFee(f.curve, f.amount + amountIn, f.depth)
         IN  /\ f \in FlowType /\ ValidCurve(f.curve)
             /\ due \in Nat /\ FeeAmount(side, amountIn) \in Nat
             /\ f.charged + FeeAmount(side, amountIn) = due
<1> DEFINE f == BlockFlow(side)
           due == CumulativeFee(f.curve, f.amount + amountIn, f.depth)
           old == flow[side]
           fresh == [block |-> now, amount |-> 0, charged |-> 0,
                     depth |-> protocolDepth[side], curve |-> curves[side]]
<1>1. /\ old \in FlowType /\ ValidCurve(old.curve)
      /\ old.charged = CumulativeFee(old.curve, old.amount, old.depth)
  BY DEF HookOK, FeeFollowsCurve
<1>2. fresh \in FlowType /\ ValidCurve(fresh.curve) /\ fresh.charged = 0
  BY DEF HookOK, FlowType
<1>3. f = old \/ f = fresh
  BY DEF BlockFlow
<1> HIDE DEF f, old, fresh
<1>4. /\ f \in FlowType /\ ValidCurve(f.curve)
      /\ f.charged = CumulativeFee(f.curve, f.amount, f.depth) \/ f.charged = 0
  BY <1>1, <1>2, <1>3
<1>5. /\ f.curve \in FeeCurve /\ f.amount \in Nat /\ f.depth \in Nat /\ f.charged \in Nat
      /\ f.amount + amountIn \in Nat /\ f.amount <= f.amount + amountIn
  BY <1>4 DEF FlowType
<1>6. due \in Nat /\ CumulativeFee(f.curve, f.amount, f.depth) <= due
  BY <1>4, <1>5, FeeMonotone
<1> HIDE DEF due
<1>7. FeeAmount(side, amountIn) = IF due > f.charged THEN due - f.charged ELSE 0
  BY DEF FeeAmount, f, due
<1>8. FeeAmount(side, amountIn) \in Nat /\ f.charged + FeeAmount(side, amountIn) = due
  BY <1>4, <1>5, <1>6, <1>7
<1> QED BY <1>4, <1>6, <1>8 DEF f, due

\* The hook's part of a swap.
LEMMA SwapKeepsHook ==
  ASSUME HookOK, NEW side \in Sides, NEW amountIn \in Nat, RecordBlockFlow(side, amountIn),
         UNCHANGED <<now, curves, pendingCurves, protocolDepth, pendingDepth>>
  PROVE  HookOK'
<1> DEFINE f == BlockFlow(side)
           due == CumulativeFee(f.curve, f.amount + amountIn, f.depth)
           fee == FeeAmount(side, amountIn)
           new == [f EXCEPT !.amount = f.amount + amountIn, !.charged = f.charged + fee]
<1>1. /\ f \in FlowType /\ ValidCurve(f.curve) /\ due \in Nat /\ fee \in Nat
      /\ f.charged + fee = due
  BY SwapPaysTheDifference
<1>2. flow' = [flow EXCEPT ![side] = new]
  BY DEF RecordBlockFlow
<1> HIDE DEF f, fee, due
<1>3. /\ new \in FlowType /\ new.curve = f.curve /\ new.depth = f.depth
      /\ new.amount = f.amount + amountIn /\ new.charged = due
  <2> DEFINE x == f.amount + amountIn
             y == f.charged + fee
  <2>1. x \in Nat /\ y \in Nat /\ y = due
    BY <1>1 DEF FlowType
  <2> HIDE DEF x, y
  <2> DEFINE r == [f EXCEPT !.amount = x, !.charged = y]
  <2>3. r \in FlowType /\ r.curve = f.curve /\ r.depth = f.depth /\ r.amount = x /\ r.charged = y
    BY <1>1, <2>1 DEF FlowType
  <2> QED BY <2>1, <2>3 DEF x, y
<1> HIDE DEF new
<1>4. /\ ValidCurve(new.curve)
      /\ new.charged = CumulativeFee(new.curve, new.amount, new.depth)
  BY <1>1, <1>3 DEF due
<1>5. /\ flow'[side] = new /\ \A other \in Sides \ {side} : flow'[other] = flow[other]
      /\ flow' \in [Sides -> FlowType]
  BY <1>2, <1>3 DEF HookOK
<1>6. FeeFollowsCurve'
  BY <1>4, <1>5 DEF HookOK, FeeFollowsCurve
<1>7. \A any \in Sides : ValidCurve(flow'[any].curve)
  BY <1>4, <1>5 DEF HookOK
<1> QED BY <1>5, <1>6, <1>7 DEF HookOK

\* Governance lets only valid curves in, and leaves the flow of the block alone.
LEMMA HookGovernanceKeeps ==
  ASSUME HookOK, HookGovernance
  PROVE  HookOK'
<1> USE DEF HookOK, FeeFollowsCurve, Delayed
<1>0. now' = now
  BY DEF HookGovernance
<1>1. CASE RegisterPool(vault.hook)
  BY <1>0, <1>1 DEF RegisterPool
<1>2. ASSUME NEW side \in Sides, NEW c \in Curves[side], SetFeeCurve(side, c)
      PROVE  HookOK'
  <2>1. c \in FeeCurve /\ ValidCurve(c) /\ now + FEE_UPDATE_DELAY \in Nat
    BY <1>2, SystemAssumption, HookAssumption DEF SetFeeCurve
  <2>2. CASE poolRegistered
    BY <1>0, <1>2, <2>1, <2>2 DEF SetFeeCurve, Staged
  <2>3. CASE ~poolRegistered
    BY <1>0, <1>2, <2>1, <2>3 DEF SetFeeCurve
  <2> QED BY <2>2, <2>3
<1>3. ASSUME NEW side \in Sides, ExecuteFeeCurve(side)
      PROVE  HookOK'
  BY <1>0, <1>3 DEF ExecuteFeeCurve, Ready
<1>4. ASSUME NEW side \in Sides, CancelFeeCurve(side)
      PROVE  HookOK'
  BY <1>0, <1>4 DEF CancelFeeCurve
<1>5. ASSUME NEW side \in Sides, NEW d \in Depths[side], SetProtocolDepth(side, d)
      PROVE  HookOK'
  <2>1. d \in Nat /\ now + FEE_UPDATE_DELAY \in Nat
    BY SystemAssumption, HookAssumption
  <2>2. CASE poolRegistered
    BY <1>0, <1>5, <2>1, <2>2 DEF SetProtocolDepth, Staged
  <2>3. CASE ~poolRegistered
    BY <1>0, <1>5, <2>1, <2>3 DEF SetProtocolDepth
  <2> QED BY <2>2, <2>3
<1>6. ASSUME NEW side \in Sides, ExecuteProtocolDepth(side)
      PROVE  HookOK'
  BY <1>0, <1>6 DEF ExecuteProtocolDepth, Ready
<1>7. ASSUME NEW side \in Sides, CancelProtocolDepth(side)
      PROVE  HookOK'
  BY <1>0, <1>7 DEF CancelProtocolDepth
<1> QED BY <1>1, <1>2, <1>3, <1>4, <1>5, <1>6, <1>7 DEF HookGovernance

\* Everything else leaves the hook alone, or makes its clock go on.
LEMMA HookStep ==
  ASSUME HookOK, [Next]_vars
  PROVE  HookOK'
<1>1. ASSUME UNCHANGED hookVars, now' \in Nat
      PROVE  HookOK'
  BY <1>1 DEF hookVars, HookOK, FeeFollowsCurve
<1>2. now \in Nat /\ now + 1 \in Nat
  BY DEF HookOK
<1>3. CASE HookGovernance
  BY <1>3, HookGovernanceKeeps
<1>4. CASE \E side \in Sides, amount \in SwapAmounts : Swap(side, amount)
  BY <1>4, SwapKeepsHook, SystemAssumption DEF Swap
<1>5. CASE VaultGovernance \/ Recovery \/ Donation
  BY <1>1, <1>2, <1>5 DEF VaultGovernance, Recovery, Donation
<1>6. CASE \/ \E amount \in Amounts, price \in Prices : Compound(amount, price)
           \/ \E price \in Prices : ProcessGenesisSplitAll(price)
  BY <1>1, <1>2, <1>6 DEF Compound, ProcessGenesisSplitAll
<1>7. CASE OffChain \/ \E tx \in txs, price \in Prices : Land(tx, price)
  BY <1>1, <1>2, <1>7, OffChainRests DEF Land
<1>8. CASE Tick
  BY <1>1, <1>2, <1>8 DEF Tick, NewBlock
<1>9. CASE UNCHANGED vars
  BY <1>1, <1>2, <1>9 DEF vars
<1> QED BY <1>3, <1>4, <1>5, <1>6, <1>7, <1>8, <1>9, NextSteps

--------------------------------------------------------------------------------
(* The vault                                                                         *)

PurseType == [books : BooksType, balance : [Currencies -> Int], received : [Distributors -> Int]]

\* A purse that paid at most the distributor in force, for good.
PaidOne(p) == \A d \in Distributors :
                 p.received[d] > 0 => vault.distributor = d /\ vault.distributorFrozen

PurseOK(p) == p \in PurseType /\ PaidOne(p)

\* The vault's own purse is one, and whatever purse it becomes keeps its part.
LEMMA PurseKeeps ==
  ASSUME VaultOK
  PROVE  /\ PurseOK(Purse)
         /\ \A p : PurseOK(p) /\ BecomePurse(p) /\ UNCHANGED vault => VaultOK'
<1>1. PurseOK(Purse)
  BY DEF Purse, PurseOK, PurseType, PaidOne, VaultOK, OneDistributorPaid
<1>2. ASSUME NEW p, PurseOK(p), BecomePurse(p), UNCHANGED vault
      PROVE  VaultOK'
  BY <1>2 DEF PurseOK, PurseType, PaidOne, BecomePurse, VaultOK, OneDistributorPaid
<1> QED BY <1>1, <1>2

\* A fee goes into the books and the balance of its currency.
LEMMA FeeKeepsPurse ==
  ASSUME NEW p, PurseOK(p), NEW c \in Currencies, NEW amount \in Nat
  PROVE  /\ PurseOK(WithFee(p, c, amount))
         /\ WithFee(p, c, amount).books.fees = [p.books.fees EXCEPT ![c] = @ + amount]
<1> DEFINE fees == [p.books.fees EXCEPT ![c] = @ + amount]
           books2 == [p.books EXCEPT !.fees = fees]
           balance2 == [p.balance EXCEPT ![c] = @ + amount]
           q == [p EXCEPT !.books = books2, !.balance = balance2]
<1>0. p \in PurseType /\ p.books \in BooksType
  BY DEF PurseOK, PurseType
<1>1. fees \in [Currencies -> Nat]
  BY <1>0 DEF BooksType
<1>2. balance2 \in [Currencies -> Int]
  BY DEF PurseOK, PurseType
<1>3. WithFee(p, c, amount) = q
  BY <1>0 DEF WithFee, PurseType, BooksType
<1> HIDE DEF fees, balance2
<1>4. books2 \in BooksType /\ books2.fees = fees
  BY <1>0, <1>1 DEF BooksType
<1> HIDE DEF books2
<1>5. q \in PurseType /\ q.received = p.received /\ q.books = books2
  BY <1>0, <1>2, <1>4 DEF PurseType
<1> HIDE DEF q
<1>6. PurseOK(q)
  BY <1>5 DEF PurseOK, PaidOne
<1> QED BY <1>3, <1>4, <1>5, <1>6 DEF fees

\* The genesis share goes to the distributor in force.
LEMMA RouteKeepsPurse ==
  ASSUME VaultOK, NEW p, PurseOK(p), vault.routeMode \in GenesisModes, NEW amount \in Int
  PROVE  /\ PurseOK(RoutedToGenesis(p, amount))
         /\ RoutedToGenesis(p, amount).books.fees = p.books.fees
<1> DEFINE d == vault.distributor
           routed == p.books.routedToGenesis + amount
           books2 == [p.books EXCEPT !.routedToGenesis = routed]
           balance2 == [p.balance EXCEPT !["base"] = @ - amount]
           received2 == [p.received EXCEPT ![d] = @ + amount]
           q == [p EXCEPT !.books = books2, !.balance = balance2, !.received = received2]
<1>0. p \in PurseType /\ p.books \in BooksType /\ PaidOne(p)
  BY DEF PurseOK, PurseType
<1>1. d \in Distributors /\ vault.distributorFrozen
  BY DEF VaultOK, VaultType
<1>2. routed \in Int /\ balance2 \in [Currencies -> Int]
  BY <1>0 DEF PurseType, BooksType, Currencies
<1>3. received2 \in [Distributors -> Int] /\ \A e \in Distributors \ {d} : received2[e] = p.received[e]
  BY <1>0, <1>1 DEF PurseType
<1>4. RoutedToGenesis(p, amount) = q
  BY <1>0 DEF RoutedToGenesis, PurseType, BooksType
<1> HIDE DEF d, routed, balance2, received2
<1>5. books2 \in BooksType /\ books2.fees = p.books.fees
  BY <1>0, <1>2 DEF BooksType
<1> HIDE DEF books2
<1>6. q \in PurseType /\ q.received = received2 /\ q.books = books2
  BY <1>0, <1>2, <1>3, <1>5 DEF PurseType
<1> HIDE DEF q
<1>7. PurseOK(q)
  BY <1>0, <1>1, <1>3, <1>6 DEF PurseOK, PaidOne, d
<1> QED BY <1>4, <1>5, <1>6, <1>7

\* Compounding pays no distributor and records no fee.
LEMMA CompoundKeepsPurse ==
  ASSUME VaultOK, NEW p, PurseOK(p), NEW amount \in [Currencies -> Int]
  PROVE  /\ PurseOK(Compounded(p, amount))
         /\ Compounded(p, amount).books.fees = p.books.fees
         /\ ForCompound(amount) \in [Currencies -> Int]
<1> DEFINE bounty == Bounty(amount["base"])
           paid == p.books.bountyPaid + bounty
           compounded == [c \in Currencies |-> p.books.compounded[c] + amount[c]
                                               - (IF c = "base" THEN bounty ELSE 0)]
           books2 == [p.books EXCEPT !.bountyPaid = paid, !.compounded = compounded]
           balance2 == [c \in Currencies |-> p.balance[c] - amount[c]]
           q == [p EXCEPT !.books = books2, !.balance = balance2]
<1>0. p \in PurseType /\ p.books \in BooksType /\ PaidOne(p)
  BY DEF PurseOK, PurseType
<1>1. bounty \in Int
  <2>1. amount["base"] \in Int /\ vault.keeperBountyBps \in Nat /\ BPS \in Nat \ {0}
    BY BpsAssumption DEF VaultOK, VaultType, Currencies
  <2>2. amount["base"] * vault.keeperBountyBps \in Int
    BY <2>1
  <2> QED BY <2>1, <2>2 DEF Bounty
<1>2. ForCompound(amount) \in [Currencies -> Int]
  BY <1>1 DEF ForCompound, Currencies
<1>3. Compounded(p, amount) = q
  BY <1>0 DEF Compounded, PurseType, BooksType
<1> HIDE DEF bounty
<1>4. paid \in Int /\ compounded \in [Currencies -> Int] /\ balance2 \in [Currencies -> Int]
  BY <1>0, <1>1 DEF PurseType, BooksType
<1> HIDE DEF paid, compounded, balance2
<1>5. books2 \in BooksType /\ books2.fees = p.books.fees
  BY <1>0, <1>4 DEF BooksType
<1> HIDE DEF books2
<1>6. q \in PurseType /\ q.received = p.received /\ q.books = books2
  BY <1>0, <1>4, <1>5 DEF PurseType
<1> HIDE DEF q
<1>7. PurseOK(q)
  BY <1>0, <1>6 DEF PurseOK, PaidOne
<1> QED BY <1>2, <1>3, <1>5, <1>6, <1>7

\* Governance of the vault: a first target is set while no distributor is frozen, a
\* frozen one stays, and only a frozen one is given a genesis route.
LEMMA VaultGovernanceKeeps ==
  ASSUME HookOK, VaultOK, VaultGovernance
  PROVE  VaultOK' /\ books'.fees = books.fees
<1> USE VaultAssumption
<1>0. now + TARGET_UPDATE_DELAY \in Nat
  BY DEF HookOK
<1>1. ASSUME UNCHANGED <<books, balance, received>>, vault' \in VaultType,
             vault'.compounderFrozen => vault'.compounder # None,
             vault.distributorFrozen => /\ vault'.distributor = vault.distributor
                                        /\ vault'.distributorFrozen,
             vault'.distributorFrozen => vault'.distributor # None,
             vault'.routeMode \in GenesisModes => vault'.distributorFrozen
      PROVE  VaultOK' /\ books'.fees = books.fees
  BY <1>1 DEF VaultOK, OneDistributorPaid
<1> DEFINE Plain == /\ UNCHANGED <<books, balance, received>> /\ vault' \in VaultType
                    /\ vault'.compounderFrozen => vault'.compounder # None
                    /\ vault.distributorFrozen => /\ vault'.distributor = vault.distributor
                                                  /\ vault'.distributorFrozen
                    /\ vault'.distributorFrozen => vault'.distributor # None
                    /\ vault'.routeMode \in GenesisModes => vault'.distributorFrozen
<1>2. CASE SetHook
  <2>1. Plain
    BY <1>2 DEF SetHook, VaultOK, VaultType
  <2> QED BY <1>1, <2>1
<1>3. CASE CompounderGovernance
  <2> USE DEF VaultOK, VaultType, Delayed
  <2>1. CASE \E k \in Compounders : SetCompounder(k)
    <3>1. Plain
      BY <2>1 DEF SetCompounder
    <3> QED BY <1>1, <3>1
  <2>2. CASE \E k \in Compounders : ProposeCompounder(k)
    <3>1. Plain
      BY <1>0, <2>2 DEF ProposeCompounder, Staged
    <3> QED BY <1>1, <3>1
  <2>3. CASE CancelCompounderProposal
    <3>1. Plain
      BY <2>3 DEF CancelCompounderProposal
    <3> QED BY <1>1, <3>1
  <2>4. CASE ExecuteCompounder
    <3>1. Plain
      BY <2>4 DEF ExecuteCompounder, Ready
    <3> QED BY <1>1, <3>1
  <2>5. CASE FreezeCompounder
    <3>1. Plain
      BY <2>5 DEF FreezeCompounder
    <3> QED BY <1>1, <3>1
  <2> QED BY <1>3, <2>1, <2>2, <2>3, <2>4, <2>5 DEF CompounderGovernance
<1>4. CASE DistributorGovernance
  <2> USE DEF VaultOK, VaultType, Delayed
  <2>1. CASE \E d \in Distributors : SetGenesisRewardDistributor(d)
    <3>1. Plain
      BY <2>1 DEF SetGenesisRewardDistributor
    <3> QED BY <1>1, <3>1
  <2>2. CASE \E d \in Distributors : ProposeGenesisRewardDistributor(d)
    <3>1. Plain
      BY <1>0, <2>2 DEF ProposeGenesisRewardDistributor, Staged
    <3> QED BY <1>1, <3>1
  <2>3. CASE CancelGenesisRewardDistributorProposal
    <3>1. Plain
      BY <2>3 DEF CancelGenesisRewardDistributorProposal
    <3> QED BY <1>1, <3>1
  <2>4. CASE ExecuteGenesisRewardDistributor
    <3>1. Plain
      BY <2>4 DEF ExecuteGenesisRewardDistributor, Ready
    <3> QED BY <1>1, <3>1
  <2>5. CASE FreezeGenesisRewardDistributor
    <3>1. Plain
      BY <2>5 DEF FreezeGenesisRewardDistributor
    <3> QED BY <1>1, <3>1
  <2> QED BY <1>4, <2>1, <2>2, <2>3, <2>4, <2>5 DEF DistributorGovernance
<1>5. CASE \E allowed \in BOOLEAN : SetCompoundKeeper(allowed)
  <2>1. Plain
    BY <1>5 DEF SetCompoundKeeper, VaultOK, VaultType
  <2> QED BY <1>1, <2>1
<1>6. CASE \E mode \in Modes : SetRouteMode(mode)
  <2>1. PICK mode \in Modes : SetRouteMode(mode)
    BY <1>6
  <2>2. mode \in RouteModes
    BY SystemAssumption
  <2>3. Plain
    BY <2>1, <2>2 DEF SetRouteMode, VaultOK, VaultType
  <2> QED BY <1>1, <2>3
<1>7. CASE \E b \in Bounties : SetKeeperBounty(b.bps, b.minCompoundBase)
  <2>1. PICK b \in Bounties : SetKeeperBounty(b.bps, b.minCompoundBase)
    BY <1>7
  <2>2. b.bps \in Nat /\ b.minCompoundBase \in Nat
    BY SystemAssumption
  <2>3. Plain
    BY <2>1, <2>2 DEF SetKeeperBounty, VaultOK, VaultType
  <2> QED BY <1>1, <2>3
<1>8. CASE \E share \in Shares : SetSplitGenesisShare(share)
  <2>1. PICK share \in Shares : SetSplitGenesisShare(share)
    BY <1>8
  <2>2. share \in Nat
    BY <2>1, BpsAssumption DEF SetSplitGenesisShare
  <2>3. Plain
    BY <2>1, <2>2 DEF SetSplitGenesisShare, VaultOK, VaultType
  <2> QED BY <1>1, <2>3
<1>9. CASE \E amount \in Distributable : RouteBaseToGenesis(amount)
  <2>1. PICK amount \in Distributable : RouteBaseToGenesis(amount)
    BY <1>9
  <2>2. amount \in Int /\ vault.routeMode \in GenesisModes
    BY <2>1 DEF RouteBaseToGenesis, GenesisModes, VaultOK, Currencies
  <2>3. PurseOK(RoutedToGenesis(Purse, amount))
        /\ RoutedToGenesis(Purse, amount).books.fees = books.fees
    BY <2>2, PurseKeeps, RouteKeepsPurse DEF Purse
  <2> QED BY <2>1, <2>3, PurseKeeps DEF RouteBaseToGenesis, BecomePurse
<1> QED BY <1>2, <1>3, <1>4, <1>5, <1>6, <1>7, <1>8, <1>9 DEF VaultGovernance

\* A compound, whoever asks for it, whatever else left the purse before.
LEMMA CompoundUncheckedKeeps ==
  ASSUME VaultOK, NEW p, PurseOK(p), NEW amount \in [Currencies -> Int], NEW minLiquidity,
         NEW price, CompoundUnchecked(p, amount, minLiquidity, price), p.books.fees = books.fees
  PROVE  VaultOK' /\ vault' = vault /\ books'.fees = books.fees
<1>1. PurseOK(Compounded(p, amount)) /\ Compounded(p, amount).books.fees = p.books.fees
  BY CompoundKeepsPurse
<1> QED BY <1>1, PurseKeeps DEF CompoundUnchecked, BecomePurse

\* The vault's own purse, or what the genesis share has left of it.
FromPurse(p) ==
    \/ p = Purse
    \/ vault.routeMode \in GenesisModes /\ \E routed \in Int : p = RoutedToGenesis(Purse, routed)

\* What the split route hands to compounding is a purse like any other.
LEMMA SplitPurse ==
  ASSUME VaultOK, vault.routeMode = "GenesisSplit"
  PROVE  LET toGenesis == (balance["base"] * vault.splitGenesisShareBps) \div BPS
             p == IF toGenesis = 0 THEN Purse ELSE RoutedToGenesis(Purse, toGenesis)
         IN  /\ PurseOK(p) /\ p.balance \in [Currencies -> Int] /\ p.books.fees = books.fees
             /\ FromPurse(p)
<1> DEFINE toGenesis == (balance["base"] * vault.splitGenesisShareBps) \div BPS
           p == IF toGenesis = 0 THEN Purse ELSE RoutedToGenesis(Purse, toGenesis)
<1>1. toGenesis \in Int
  <2>1. balance["base"] \in Int /\ vault.splitGenesisShareBps \in Nat /\ BPS \in Nat \ {0}
    BY BpsAssumption DEF VaultOK, VaultType, Currencies
  <2>2. balance["base"] * vault.splitGenesisShareBps \in Int
    BY <2>1
  <2> QED BY <2>1, <2>2
<1> HIDE DEF toGenesis
<1>2. PurseOK(Purse) /\ Purse.books.fees = books.fees
  BY PurseKeeps DEF Purse
<1>3. PurseOK(RoutedToGenesis(Purse, toGenesis))
      /\ RoutedToGenesis(Purse, toGenesis).books.fees = books.fees
  BY <1>1, <1>2, RouteKeepsPurse DEF GenesisModes
<1>4. PurseOK(p) /\ p.books.fees = books.fees
  BY <1>2, <1>3
<1>5. p.balance \in [Currencies -> Int]
  BY <1>4 DEF PurseOK, PurseType
<1>6. FromPurse(p)
  BY <1>1 DEF FromPurse, GenesisModes
<1> QED BY <1>4, <1>5, <1>6 DEF toGenesis

\* The three ways in which liquidity is added.
LEMMA CompoundCalls ==
  ASSUME VaultOK,
         \/ \E amount \in Amounts, price \in Prices : Compound(amount, price)
         \/ \E price \in Prices : ProcessGenesisSplitAll(price)
         \/ \E tx \in txs, price \in Prices : Land(tx, price)
  PROVE  \E p, amount, minLiquidity, price :
            /\ amount \in [Currencies -> Int] /\ price \in Prices
            /\ PurseOK(p) /\ p.books.fees = books.fees /\ FromPurse(p)
            /\ CompoundUnchecked(p, amount, minLiquidity, price)
            /\ UNCHANGED <<now, hookVars, donated>>
<1>1. PurseOK(Purse) /\ Purse.books.fees = books.fees /\ balance \in [Currencies -> Int]
      /\ FromPurse(Purse)
  BY PurseKeeps DEF Purse, VaultOK, FromPurse
<1>2. CASE \E amount \in Amounts, price \in Prices : Compound(amount, price)
  <2>1. PICK amount \in Amounts, price \in Prices : Compound(amount, price)
    BY <1>2
  <2>2. amount \in [Currencies -> Int]
    BY DEF Amounts
  <2> QED BY <1>1, <2>1, <2>2 DEF Compound
<1>3. CASE \E price \in Prices : ProcessGenesisSplitAll(price)
  <2>1. PICK price \in Prices : ProcessGenesisSplitAll(price)
    BY <1>3
  <2> DEFINE toGenesis == (balance["base"] * vault.splitGenesisShareBps) \div BPS
             p == IF toGenesis = 0 THEN Purse ELSE RoutedToGenesis(Purse, toGenesis)
  <2>2. /\ PurseOK(p) /\ p.balance \in [Currencies -> Int] /\ p.books.fees = books.fees
        /\ FromPurse(p)
    BY <2>1, SplitPurse DEF ProcessGenesisSplitAll
  <2>3. CompoundUnchecked(p, p.balance, 1, price) /\ UNCHANGED <<now, hookVars, donated>>
    BY <2>1, Zenon DEF ProcessGenesisSplitAll
  <2> HIDE DEF p
  <2> QED BY <2>2, <2>3
<1>4. CASE \E tx \in txs, price \in Prices : Land(tx, price)
  <2>1. PICK tx \in txs, price \in Prices : Land(tx, price)
    BY <1>4
  <2> QED BY <1>1, <2>1 DEF Land
<1> QED BY <1>2, <1>3, <1>4

\* The vault keeps its promises in every step, and its record of fees only grows.
LEMMA VaultStep ==
  ASSUME HookOK, VaultOK, CompoundersOK, [Next]_vars
  PROVE  VaultOK' /\ \A c \in Currencies : books'.fees[c] >= books.fees[c]
<1> DEFINE Grows == \A c \in Currencies : books'.fees[c] >= books.fees[c]
<1>1. books'.fees = books.fees => Grows
  BY DEF VaultOK, BooksType
<1>2. UNCHANGED vaultVars => VaultOK' /\ Grows
  BY <1>1 DEF vaultVars, VaultOK, OneDistributorPaid
<1>3. CASE HookGovernance \/ Tick \/ OffChain \/ UNCHANGED vars
  BY <1>2, <1>3, OffChainRests DEF HookGovernance, Tick, vars
<1>4. CASE VaultGovernance
  BY <1>1, <1>4, VaultGovernanceKeeps
<1>5. CASE \E side \in Sides, amount \in SwapAmounts : Swap(side, amount)
  <2>1. PICK side \in Sides, amount \in SwapAmounts : Swap(side, amount)
    BY <1>5
  <2> DEFINE fee == FeeAmount(side, amount)
             c == InputCurrency(side)
             p == WithFee(Purse, c, fee)
  <2>2. fee \in Nat
    BY SystemAssumption, SwapPaysTheDifference
  <2>3. c \in Currencies
    BY DEF InputCurrency, Currencies
  <2>4. BecomePurse(p) /\ UNCHANGED vault
    BY <2>1 DEF Swap
  <2> HIDE DEF fee, c
  <2>5. PurseOK(p) /\ p.books.fees = [books.fees EXCEPT ![c] = @ + fee]
    <3>1. Purse.books.fees = books.fees
      BY DEF Purse
    <3>2. PurseOK(Purse)
      BY PurseKeeps
    <3> QED BY <2>2, <2>3, <3>1, <3>2, FeeKeepsPurse
  <2> HIDE DEF p
  <2>6. VaultOK'
    BY <2>4, <2>5, PurseKeeps
  <2>7. books'.fees = [books.fees EXCEPT ![c] = @ + fee]
    BY <2>4, <2>5 DEF BecomePurse
  <2>8. Grows
    BY <2>2, <2>3, <2>7 DEF VaultOK, BooksType
  <2> QED BY <2>6, <2>8
<1>6. CASE \/ \E amount \in Amounts, price \in Prices : Compound(amount, price)
           \/ \E price \in Prices : ProcessGenesisSplitAll(price)
           \/ \E tx \in txs, price \in Prices : Land(tx, price)
  <2>1. PICK p, amount, minLiquidity, price :
            /\ amount \in [Currencies -> Int] /\ price \in Prices
            /\ PurseOK(p) /\ p.books.fees = books.fees /\ FromPurse(p)
            /\ CompoundUnchecked(p, amount, minLiquidity, price)
    BY <1>6, CompoundCalls, Zenon
  <2> QED BY <1>1, <2>1, CompoundUncheckedKeeps
<1>7. ASSUME NEW more \in [Currencies -> Int], UNCHANGED <<vault, books, received>>,
             balance' = [c \in Currencies |-> balance[c] + more[c]]
      PROVE  VaultOK' /\ Grows
  BY <1>1, <1>7 DEF VaultOK, OneDistributorPaid
<1>8. CASE Donation
  <2>1. PICK c \in Currencies, amount \in Donations : UNCHANGED vaultVars \/ Donate(c, amount)
    BY <1>8 DEF Donation
  <2> DEFINE more == [e \in Currencies |-> IF e = c THEN amount ELSE 0]
  <2>2. CASE Donate(c, amount)
    <3>1. amount \in Int /\ balance \in [Currencies -> Int]
      BY SystemAssumption DEF VaultOK
    <3>2. more \in [Currencies -> Int]
      BY <3>1
    <3>3. balance' = [balance EXCEPT ![c] = @ + amount]
      BY <2>2 DEF Donate
    <3>4. \A e \in Currencies : balance'[e] = balance[e] + more[e]
      BY <3>1, <3>3
    <3> HIDE DEF more
    <3>5. balance' = [e \in Currencies |-> balance[e] + more[e]]
      BY <3>1, <3>3, <3>4
    <3> QED BY <1>7, <2>2, <3>2, <3>5 DEF Donate
  <2> QED BY <1>2, <2>1, <2>2
<1>9. CASE Recovery
  <2>1. PICK k \in Compounders : UNCHANGED vaultVars \/ \E p \in compounders[k].recovery : RecoverTo(k, p)
    BY <1>9 DEF Recovery
  <2>2. CASE \E p \in compounders[k].recovery : RecoverTo(k, p)
    <3>1. PICK p : RecoverTo(k, p)
      BY <2>2
    <3> DEFINE back == [c \in Currencies |-> IF p.target.to = Vault THEN Recovered(k, p)[c] ELSE 0]
    <3>2. back \in [Currencies -> Int]
      BY RecoveredIsInt
    <3> QED BY <1>7, <3>1, <3>2 DEF RecoverTo
  <2> QED BY <1>2, <2>1, <2>2
<1> QED BY <1>3, <1>4, <1>5, <1>6, <1>8, <1>9, NextSteps

--------------------------------------------------------------------------------
(* The compounder                                                                    *)

\* Adding liquidity neither touches an announced recovery nor moves a position there is.
LEMMA AfterCompoundKeeps ==
  ASSUME CompoundersOK, NEW k \in Compounders, NEW pulled \in [Currencies -> Int],
         NEW price \in Prices
  PROVE  LET new == AfterCompound(k, pulled, Limit, price)
         IN  /\ new \in CompounderType
             /\ new.recovery = compounders[k].recovery
             /\ compounders[k].positionTokenId # 0
                => new.positionTokenId = compounders[k].positionTokenId
<1> DEFINE state == compounders[k]
           held == [c \in {"token", "base"} |-> state.bank[c] + pulled[c]]
           liquidity == LiquidityFor(held, Limit, price)
           used == [c \in {"token", "base"} |-> liquidity * price[c]]
           bank == [c \in {"token", "base"} |-> held[c] - used[c]]
           added == [c \in {"token", "base"} |-> state.added[c] + used[c]]
           total == state.totalLiquidityAdded + liquidity
           id == IF state.positionTokenId = 0 THEN nextTokenId ELSE state.positionTokenId
           banked == [state EXCEPT !.bank = held]
           grown == [state EXCEPT !.bank = bank, !.added = added, !.totalLiquidityAdded = total,
                                  !.positionTokenId = id]
<1>1. state \in CompounderType /\ nextTokenId \in Nat /\ Limit \in [Currencies -> Nat]
      /\ price \in [Currencies -> Nat \ {0}]
  BY SystemAssumption DEF CompoundersOK
<1>2. held \in [Currencies -> Int]
  BY <1>1 DEF CompounderType, Currencies
<1>3. AfterCompound(k, pulled, Limit, price) = IF liquidity = 0 THEN banked ELSE grown
  BY <1>1, Zenon DEF AfterCompound, CompounderType
<1> HIDE DEF held
<1>4. liquidity \in Int
  <2> DEFINE units(c) == Smaller(held[c], Limit[c]) \div price[c]
  <2>1. \A c \in Currencies : units(c) \in Int
    <3> TAKE c \in Currencies
    <3>1. Smaller(held[c], Limit[c]) \in Int /\ price[c] \in Nat \ {0}
      BY <1>1, <1>2 DEF Smaller
    <3> QED BY <3>1
  <2>2. liquidity = Smaller(units("token"), units("base"))
    BY DEF LiquidityFor
  <2> HIDE DEF units, liquidity
  <2> QED BY <2>1, <2>2 DEF Smaller, Currencies
<1> HIDE DEF liquidity
<1>5. used \in [Currencies -> Int]
  <2>1. \A c \in Currencies : liquidity * price[c] \in Int
    BY <1>1, <1>4
  <2> QED BY <2>1 DEF Currencies
<1> HIDE DEF used
<1>6. /\ bank \in [Currencies -> Int] /\ added \in [Currencies -> Int] /\ total \in Int /\ id \in Nat
      /\ state.positionTokenId # 0 => id = state.positionTokenId
  BY <1>1, <1>2, <1>4, <1>5 DEF CompounderType, Currencies
<1> HIDE DEF bank, added, total, id, state
<1>7. /\ banked \in CompounderType /\ banked.recovery = state.recovery
      /\ banked.positionTokenId = state.positionTokenId
  BY <1>1, <1>2 DEF CompounderType
<1>8. /\ grown \in CompounderType /\ grown.recovery = state.recovery
      /\ grown.positionTokenId = id
  BY <1>1, <1>6 DEF CompounderType
<1> HIDE DEF banked, grown
<1> QED BY <1>3, <1>6, <1>7, <1>8 DEF state

\* What is sent to a bank changes nothing else.
LEMMA WithBankKeeps ==
  ASSUME NEW state \in CompounderType, NEW amounts \in [Currencies -> Int]
  PROVE  LET new == WithBank(state, amounts)
         IN  /\ new \in CompounderType
             /\ new.recovery = state.recovery /\ new.added = state.added
             /\ new.positionTokenId = state.positionTokenId
             /\ new.totalLiquidityAdded = state.totalLiquidityAdded
             /\ \A c \in Currencies : new.bank[c] = state.bank[c] + amounts[c]
<1> DEFINE bank == [c \in {"token", "base"} |-> state.bank[c] + amounts[c]]
<1>1. WithBank(state, amounts) = [state EXCEPT !.bank = bank]
  BY DEF WithBank, CompounderType
<1>2. bank \in [Currencies -> Int] /\ \A c \in Currencies : bank[c] = state.bank[c] + amounts[c]
  BY DEF CompounderType, Currencies
<1> HIDE DEF bank
<1> QED BY <1>1, <1>2 DEF CompounderType

\* What a recovery leaves behind.
LEMMA LeftKeeps ==
  ASSUME CompoundersOK, NEW k \in Compounders, NEW p
  PROVE  LET new == Left(k, p)
         IN  /\ new \in CompounderType
             /\ new.recovery = {} /\ new.added = compounders[k].added
             /\ new.totalLiquidityAdded = compounders[k].totalLiquidityAdded
             /\ \A c \in Currencies : new.bank[c] = compounders[k].bank[c] - Recovered(k, p)[c]
<1> DEFINE state == compounders[k]
           moved == Recovered(k, p)
           bank == [c \in {"token", "base"} |-> state.bank[c] - moved[c]]
           id == IF TakesPosition(k, p) THEN 0 ELSE state.positionTokenId
<1>1. state \in CompounderType /\ moved \in [Currencies -> Int]
  BY RecoveredIsInt DEF CompoundersOK
<1>2. Left(k, p) = [state EXCEPT !.recovery = {}, !.positionTokenId = id, !.bank = bank]
  BY <1>1 DEF Left, CompounderType
<1> HIDE DEF moved
<1>3. /\ bank \in [Currencies -> Int] /\ id \in Nat
      /\ \A c \in Currencies : bank[c] = state.bank[c] - moved[c]
  BY <1>1 DEF CompounderType, Currencies
<1>4. {} \in Delayed([kind : RecoveryKinds, to : Recipients])
  BY DEF Delayed
<1> HIDE DEF bank, id
<1> QED BY <1>1, <1>2, <1>3, <1>4 DEF CompounderType, moved

\* What a step may do to the maintainer's compounder: announce a recovery for later, and
\* change the position there is only by one that was announced long enough ago. Liquidity
\* goes to the compounder the vault is bound to.
OnlyAnnounced ==
    /\ \A p \in V4'.recovery : p \in V4.recovery \/ p.eta = now + RECOVERY_DELAY
    /\ \/ V4.positionTokenId # 0 => V4'.positionTokenId = V4.positionTokenId
       \/ \E p \in V4.recovery : now >= p.eta
    /\ vault.compounder # V4_COMPOUNDER => V4'.totalLiquidityAdded = V4.totalLiquidityAdded

\* Liquidity is added without any announcement.
LEMMA CompoundIntoKeeps ==
  ASSUME CompoundersOK, NEW pulled \in [Currencies -> Int], NEW price \in Prices,
         vault.compounder \in Compounders, CompoundInto(vault.compounder, pulled, Limit, price)
  PROVE  CompoundersOK' /\ OnlyAnnounced
<1> DEFINE k == vault.compounder
           new == AfterCompound(k, pulled, Limit, price)
<1>1. /\ new \in CompounderType /\ new.recovery = compounders[k].recovery
      /\ compounders[k].positionTokenId # 0 => new.positionTokenId = compounders[k].positionTokenId
  BY AfterCompoundKeeps
<1>2. compounders' = [compounders EXCEPT ![k] = new] /\ nextTokenId' \in {nextTokenId, nextTokenId + 1}
  BY DEF CompoundInto
<1> HIDE DEF new
<1> QED BY <1>1, <1>2, SystemAssumption DEF CompoundersOK, OnlyAnnounced, V4

\* Anyone may send tokens to a compounder.
LEMMA GiveKeeps ==
  ASSUME CompoundersOK, NEW k \in Compounders, NEW amounts \in [Currencies -> Int],
         Give(k, amounts)
  PROVE  CompoundersOK' /\ OnlyAnnounced
<1> DEFINE new == WithBank(compounders[k], amounts)
<1>1. compounders' = [compounders EXCEPT ![k] = new] /\ nextTokenId' = nextTokenId
  BY DEF Give, CompoundersOK
<1>2. /\ new \in CompounderType /\ new.recovery = compounders[k].recovery
      /\ new.positionTokenId = compounders[k].positionTokenId
      /\ new.totalLiquidityAdded = compounders[k].totalLiquidityAdded
  BY WithBankKeeps DEF CompoundersOK
<1> HIDE DEF new
<1> QED BY <1>1, <1>2, SystemAssumption DEF CompoundersOK, OnlyAnnounced, V4

\* A recovery is announced or withdrawn.
LEMMA AnnouncementKeeps ==
  ASSUME HookOK, CompoundersOK, NEW k \in Compounders,
         \/ \E kind \in RecoveryKinds, to \in Recipients : ProposeRecovery(k, kind, to)
         \/ CancelRecovery(k)
  PROVE  /\ CompoundersOK' /\ OnlyAnnounced
         /\ \A c \in Currencies : Held(c)' = Held(c)
         /\ UNCHANGED <<removed, given>>
<1> DEFINE state == compounders[k]
<1>0. /\ now + RECOVERY_DELAY \in Nat /\ V4_COMPOUNDER \in Compounders
      /\ \A j \in Compounders : compounders[j] \in CompounderType
  BY SystemAssumption, CompounderAssumption DEF HookOK, CompoundersOK
<1>1. PICK staged \in Delayed([kind : RecoveryKinds, to : Recipients]) :
        /\ \A p \in staged : p.eta = now + RECOVERY_DELAY /\ p.target.to # k
        /\ compounders' = [compounders EXCEPT ![k] = [state EXCEPT !.recovery = staged]]
        /\ UNCHANGED <<nextTokenId, removed, given>>
  <2>1. CASE \E kind \in RecoveryKinds, to \in Recipients : ProposeRecovery(k, kind, to)
    <3>1. PICK kind \in RecoveryKinds, to \in Recipients : ProposeRecovery(k, kind, to)
      BY <2>1
    <3> DEFINE target == [kind |-> kind, to |-> to]
               set == {[target |-> target, eta |-> now + RECOVERY_DELAY]}
    <3>2. target \in [kind : RecoveryKinds, to : Recipients] /\ target.to # k
      BY <3>1 DEF ProposeRecovery
    <3>3. /\ compounders' = [compounders EXCEPT ![k] = [state EXCEPT !.recovery = set]]
          /\ UNCHANGED <<nextTokenId, removed, given>>
      BY <1>0, <3>1 DEF ProposeRecovery, Staged, CompoundersOK, CompounderType
    <3> HIDE DEF target
    <3>4. /\ set \in Delayed([kind : RecoveryKinds, to : Recipients])
          /\ \A p \in set : p.eta = now + RECOVERY_DELAY /\ p.target.to # k
      BY <1>0, <3>2 DEF Delayed
    <3> QED BY <3>3, <3>4
  <2>2. CASE CancelRecovery(k)
    <3>1. /\ compounders' = [compounders EXCEPT ![k] = [state EXCEPT !.recovery = {}]]
          /\ UNCHANGED <<nextTokenId, removed, given>>
      BY <1>0, <2>2 DEF CancelRecovery, CompoundersOK, CompounderType
    <3>2. {} \in Delayed([kind : RecoveryKinds, to : Recipients])
      BY DEF Delayed
    <3> QED BY <3>1, <3>2
  <2> QED BY <2>1, <2>2
<1> DEFINE new == [state EXCEPT !.recovery = staged]
<1>2. /\ new \in CompounderType /\ new.recovery = staged
      /\ new.positionTokenId = state.positionTokenId
      /\ new.totalLiquidityAdded = state.totalLiquidityAdded
      /\ new.bank = state.bank /\ new.added = state.added
  BY <1>0, <1>1 DEF CompounderType
<1>3. compounders' = [compounders EXCEPT ![k] = new]
  BY <1>1
<1> HIDE DEF new
<1>4. CompoundersOK' /\ OnlyAnnounced
  BY <1>0, <1>1, <1>2, <1>3 DEF CompoundersOK, OnlyAnnounced, V4
<1>5. \A c \in Currencies : Held(c)' = Held(c)
  <2> TAKE c \in Currencies
  <2>1. \A j \in Compounders : /\ compounders'[j].bank = compounders[j].bank
                               /\ compounders'[j].added = compounders[j].added
    BY <1>2, <1>3 DEF CompoundersOK
  <2>2. [j \in Compounders |-> compounders'[j].bank[c] + compounders'[j].added[c]]
        = [j \in Compounders |-> compounders[j].bank[c] + compounders[j].added[c]]
    BY <2>1
  <2> QED BY <2>2 DEF Held
<1> QED BY <1>1, <1>4, <1>5

\* A recovery is executed when its time has come, wherever it leads.
LEMMA ExecutionKeeps ==
  ASSUME CompoundersOK, NEW k \in Compounders, NEW p, ExecuteRecovery(k, p)
  PROVE  CompoundersOK' /\ OnlyAnnounced
<1> DEFINE moved == Recovered(k, p)
           left == Left(k, p)
<1>1. moved \in [Currencies -> Int]
  BY RecoveredIsInt
<1>2. /\ left \in CompounderType /\ left.recovery = {}
      /\ left.totalLiquidityAdded = compounders[k].totalLiquidityAdded
  BY LeftKeeps
<1>3. \A j \in Compounders :
         /\ WithBank(compounders[j], moved) \in CompounderType
         /\ WithBank(compounders[j], moved).recovery = compounders[j].recovery
         /\ WithBank(compounders[j], moved).positionTokenId = compounders[j].positionTokenId
         /\ WithBank(compounders[j], moved).totalLiquidityAdded = compounders[j].totalLiquidityAdded
  BY <1>1, WithBankKeeps DEF CompoundersOK
<1>4. /\ compounders' = [j \in Compounders |-> IF j = k THEN left
                              ELSE IF j = p.target.to THEN WithBank(compounders[j], moved)
                              ELSE compounders[j]]
      /\ nextTokenId' = nextTokenId
      /\ p \in compounders[k].recovery /\ now >= p.eta
  BY DEF ExecuteRecovery, Ready
<1> HIDE DEF moved, left
<1>5. CompoundersOK'
  BY <1>2, <1>3, <1>4 DEF CompoundersOK
<1>6. V4_COMPOUNDER \in Compounders
  BY SystemAssumption
<1>7. CASE k = V4_COMPOUNDER
  BY <1>2, <1>4, <1>5, <1>6, <1>7 DEF OnlyAnnounced, V4
<1>8. CASE k # V4_COMPOUNDER
  BY <1>3, <1>4, <1>5, <1>6, <1>8 DEF OnlyAnnounced, V4
<1> QED BY <1>7, <1>8

\* The compounders in every step.
LEMMA CompoundersStep ==
  ASSUME HookOK, VaultOK, CompoundersOK, [Next]_vars
  PROVE  CompoundersOK' /\ OnlyAnnounced
<1>1. UNCHANGED compounderVars => CompoundersOK' /\ OnlyAnnounced
  BY DEF compounderVars, CompoundersOK, OnlyAnnounced, V4
<1>2. CASE HookGovernance \/ VaultGovernance \/ Tick \/ OffChain \/ UNCHANGED vars
  BY <1>1, <1>2, OffChainRests DEF HookGovernance, VaultGovernance, Tick, vars
<1>3. CASE Recovery
  <2>1. PICK k \in Compounders :
           \/ \E kind \in RecoveryKinds, to \in Recipients : ProposeRecovery(k, kind, to)
           \/ CancelRecovery(k)
           \/ \E p \in compounders[k].recovery : RecoverTo(k, p)
    BY <1>3 DEF Recovery
  <2> QED BY <2>1, AnnouncementKeeps, ExecutionKeeps DEF RecoverTo
<1>4. CASE \E side \in Sides, amount \in SwapAmounts : Swap(side, amount)
  BY <1>1, <1>4 DEF Swap
<1>5. CASE \/ \E amount \in Amounts, price \in Prices : Compound(amount, price)
           \/ \E price \in Prices : ProcessGenesisSplitAll(price)
           \/ \E tx \in txs, price \in Prices : Land(tx, price)
  <2>1. PICK p, amount, minLiquidity, price :
            /\ amount \in [Currencies -> Int] /\ price \in Prices
            /\ PurseOK(p) /\ p.books.fees = books.fees /\ FromPurse(p)
            /\ CompoundUnchecked(p, amount, minLiquidity, price)
    BY <1>5, CompoundCalls, Zenon
  <2>2. ForCompound(amount) \in [Currencies -> Int]
    BY <2>1, CompoundKeepsPurse
  <2>3. vault.compounder \in Compounders
    BY <2>1 DEF CompoundUnchecked, MayCompound, VaultOK, VaultType
  <2>4. CompoundInto(vault.compounder, ForCompound(amount), Limit, price)
    BY <2>1 DEF CompoundUnchecked
  <2> QED BY <2>1, <2>2, <2>3, <2>4, CompoundIntoKeeps
<1>6. CASE Donation
  <2>1. PICK c \in Currencies, amount \in Donations :
           \/ UNCHANGED compounderVars
           \/ \E k \in Compounders :
                 Give(k, [e \in Currencies |-> IF e = c THEN amount ELSE 0])
    BY <1>6 DEF Donation
  <2>2. [e \in Currencies |-> IF e = c THEN amount ELSE 0] \in [Currencies -> Int]
    BY SystemAssumption
  <2> QED BY <1>1, <2>1, <2>2, GiveKeeps
<1> QED BY <1>2, <1>3, <1>4, <1>5, <1>6, NextSteps

--------------------------------------------------------------------------------
(* The maintainer                                                                    *)

\* A frozen compounder is for good, whoever acts.
LEMMA FrozenStays ==
  ASSUME VaultOK, vault.compounderFrozen, [Next]_vars
  PROVE  vault'.compounderFrozen /\ vault'.compounder = vault.compounder
<1> USE VaultAssumption
<1> DEFINE Stays == vault'.compounderFrozen /\ vault'.compounder = vault.compounder
<1>1. UNCHANGED vault => Stays
  OBVIOUS
<1>2. CASE VaultGovernance
  <2>1. CASE CompounderGovernance
    BY <2>1, SystemAssumption DEF CompounderGovernance, SetCompounder, ProposeCompounder,
       CancelCompounderProposal, ExecuteCompounder, FreezeCompounder, VaultOK, VaultType
  <2>2. CASE DistributorGovernance
    BY <2>2 DEF DistributorGovernance, SetGenesisRewardDistributor,
       ProposeGenesisRewardDistributor, CancelGenesisRewardDistributorProposal,
       ExecuteGenesisRewardDistributor, FreezeGenesisRewardDistributor, VaultOK, VaultType
  <2>3. CASE \/ SetHook
             \/ \E allowed \in BOOLEAN : SetCompoundKeeper(allowed)
             \/ \E mode \in Modes : SetRouteMode(mode)
             \/ \E b \in Bounties : SetKeeperBounty(b.bps, b.minCompoundBase)
             \/ \E share \in Shares : SetSplitGenesisShare(share)
             \/ \E amount \in Distributable : RouteBaseToGenesis(amount)
    BY <2>3 DEF SetHook, SetCompoundKeeper, SetRouteMode, SetKeeperBounty, SetSplitGenesisShare,
       RouteBaseToGenesis, VaultOK, VaultType
  <2> QED BY <1>2, <2>1, <2>2, <2>3 DEF VaultGovernance
<1>3. CASE ~VaultGovernance
  BY <1>1, <1>3, OnlyGovernanceBinds
<1> QED BY <1>2, <1>3

\* Time never goes back.
LEMMA ClockAdvances ==
  ASSUME HookOK, [Next]_vars
  PROVE  now \in Nat /\ now' \in Nat /\ now <= now'
<1>1. now \in Nat
  BY DEF HookOK
<1>2. now' = now \/ now' = now + 1
  BY NextSteps, OffChainRests DEF HookGovernance, VaultGovernance, Recovery, Swap, Compound,
     ProcessGenesisSplitAll, Donation, Land, Tick, NewBlock, vars
<1> QED BY <1>1, <1>2

\* A recovery that is announced from now on comes too late for a date before its delay.
LEMMA NoRecoveryStays ==
  ASSUME HookOK, VaultOK, CompoundersOK, [Next]_vars,
         NEW t \in Nat, t <= now + RECOVERY_DELAY, NoRecoveryBefore(t)
  PROVE  NoRecoveryBefore(t)'
<1>1. OnlyAnnounced
  BY CompoundersStep
<1>2. SUFFICES ASSUME NEW p \in V4'.recovery PROVE p.eta >= t
  BY DEF NoRecoveryBefore
<1>3. CASE p \in V4.recovery
  BY <1>3 DEF NoRecoveryBefore
<1>4. CASE p.eta = now + RECOVERY_DELAY
  BY <1>4, CompounderAssumption DEF HookOK
<1> QED BY <1>1, <1>3, <1>4 DEF OnlyAnnounced

\* A recovery that is announced while a transaction is in flight comes too late for it.
LEMMA TxStays ==
  ASSUME HookOK, VaultOK, CompoundersOK, [Next]_vars, NEW tx, TxOK(tx)
  PROVE  TxOK(tx)'
<1>1. now \in Nat /\ now' \in Nat /\ now <= now'
  BY ClockAdvances
<1>2. OnlyAnnounced
  BY CompoundersStep
<1>3. vault'.compounderFrozen /\ vault'.compounder = vault.compounder
  BY FrozenStays DEF TxOK
<1>4. /\ DeadlineWindow \in Nat /\ JobTimeout \in Nat /\ RECOVERY_DELAY \in Nat
      /\ DeadlineWindow < RECOVERY_DELAY /\ tx.deadline \in Nat /\ tx.deadline <= now + DeadlineWindow
  BY SystemAssumption, CompounderAssumption DEF TxOK, TxType
<1>5. \A p \in V4.recovery : p.eta \in Nat
  BY SystemAssumption DEF CompoundersOK, CompounderType, Delayed, V4
<1>6. ASSUME now' <= tx.deadline
      PROVE  NoRecoveryBefore(tx.deadline + 1)' /\ (tx.position # 0 => V4'.positionTokenId = tx.position)
  <2>1. /\ NoRecoveryBefore(tx.deadline + 1)
        /\ tx.position # 0 => V4.positionTokenId = tx.position
    BY <1>1, <1>4, <1>6 DEF TxOK
  <2>2. ~\E p \in V4.recovery : now >= p.eta
    BY <1>1, <1>4, <1>5, <1>6, <2>1 DEF NoRecoveryBefore
  <2>3. tx.deadline + 1 \in Nat /\ tx.deadline + 1 <= now + RECOVERY_DELAY
    BY <1>1, <1>4
  <2>4. NoRecoveryBefore(tx.deadline + 1)'
    BY <2>1, <2>3, NoRecoveryStays
  <2>5. tx.position # 0 => V4'.positionTokenId = tx.position
    BY <1>2, <2>1, <2>2 DEF OnlyAnnounced
  <2> QED BY <2>4, <2>5
<1>7. tx.deadline <= now' + DeadlineWindow
  BY <1>1, <1>4
<1>8. vault'.compounder # V4_COMPOUNDER => tx.raced /\ V4'.totalLiquidityAdded = tx.total
  BY <1>2, <1>3 DEF OnlyAnnounced, TxOK
<1> QED BY <1>3, <1>6, <1>7, <1>8 DEF TxOK

\* What a run has read and checked stays good while it lasts.
LEMMA RunStays ==
  ASSUME HookOK, VaultOK, CompoundersOK, [Next]_vars, Reading \/ Checked, job' = job
  PROVE  (Reading \/ Checked)'
<1>1. now \in Nat /\ now' \in Nat /\ now <= now'
  BY ClockAdvances
<1>2. vault.compounderFrozen => vault'.compounderFrozen /\ vault'.compounder = vault.compounder
  BY FrozenStays
<1>3. /\ job.started \in Nat /\ job.started <= now /\ job.started <= now'
      /\ RECOVERY_DELAY \in Nat
  BY <1>1, CompounderAssumption DEF Reading, Checked
<1>4. PICK t \in Nat : t = job.started + RECOVERY_DELAY /\ t <= now + RECOVERY_DELAY
  BY <1>1, <1>3
<1>5. NoRecoveryBefore(t) => NoRecoveryBefore(t)'
  BY <1>4, NoRecoveryStays
<1>6. NoRecoveryBefore(t)' <=> \A p \in V4'.recovery : p.eta >= job.started + RECOVERY_DELAY
  BY <1>4 DEF NoRecoveryBefore
<1>7. CASE Reading
  <2>1. "pendingRecovery" \in job.right => \A p \in V4'.recovery : p.eta >= job.started + RECOVERY_DELAY
    BY <1>4, <1>5, <1>6, <1>7 DEF Reading
  <2> QED BY <1>2, <1>3, <1>7, <2>1 DEF Reading, NoRecoveryBefore
<1>8. CASE Checked
  <2>1. \A p \in V4'.recovery : p.eta >= job.started + RECOVERY_DELAY
    BY <1>4, <1>5, <1>6, <1>8 DEF Checked
  <2> QED BY <1>2, <1>3, <1>8, <2>1 DEF Checked, NoRecoveryBefore
<1> QED BY <1>7, <1>8

\* An answer tells what holds when it is given.
LEMMA AnswerKeeps ==
  ASSUME HookOK, VaultOK, CompoundersOK, Reading, NEW read \in BindingReads, Answer(read)
  PROVE  Reading'
<1> DEFINE right == job.right \cup {r \in {read} : AsExpected(r)}
           then == IF read = "compounder" THEN vault.compounderFrozen ELSE job.frozenThen
<1>1. /\ job' = [job EXCEPT !.answered = @ \cup {read}, !.right = right, !.frozenThen = then]
      /\ UNCHANGED <<now, vault, compounders>>
  BY DEF Answer, vaultVars, compounderVars, Reading
<1>2. /\ right \in SUBSET BindingReads /\ then \in BOOLEAN
      /\ \A r \in right : r \in job.right \/ (r = read /\ AsExpected(r))
  BY DEF Reading, VaultOK, VaultType
<1>3. then /\ "compounder" \in right => vault.compounderFrozen /\ vault.compounder = V4_COMPOUNDER
  <2>1. CASE read = "compounder"
    <3>1. SUFFICES ASSUME then, "compounder" \in right, ~AsExpected("compounder") PROVE vault.compounderFrozen /\ vault.compounder = V4_COMPOUNDER
      BY <2>1 DEF AsExpected
    <3>2. "compounder" \in job.right
      BY <1>2, <3>1
    <3>3. "compounder" \in job.answered
      BY <3>2 DEF Reading
    <3> QED BY <2>1, <3>3 DEF Answer
  <2>2. CASE read # "compounder"
    BY <1>2, <2>2 DEF Reading
  <2> QED BY <2>1, <2>2
<1>4. /\ "compounderFrozen" \in right => vault.compounderFrozen
      /\ "pendingRecovery" \in right => NoRecoveryBefore(job.started + RECOVERY_DELAY)
  BY <1>2 DEF AsExpected, Reading, NoRecoveryBefore, V4
<1> HIDE DEF right, then
<1>5. /\ job' \in [step : {"reading"}, started : Nat, answered : SUBSET BindingReads,
                   right : SUBSET BindingReads, frozenThen : BOOLEAN]
      /\ job'.started = job.started /\ job'.right = right /\ job'.frozenThen = then
      /\ job'.answered = job.answered \cup {read}
  BY <1>1, <1>2 DEF Reading
<1>6. right \subseteq job'.answered
  BY <1>2, <1>5 DEF Reading
<1> QED BY <1>1, <1>3, <1>4, <1>5, <1>6 DEF Reading, NoRecoveryBefore, V4

\* A transaction that is made up within the job's time ends before any recovery.
LEMMA SnapshotKeeps ==
  ASSUME HookOK, VaultOK, CompoundersOK, Checked, Snapshot
  PROVE  Made'
<1> DEFINE tx == [deadline |-> now + DeadlineWindow, minLiquidity |-> 1,
                  position |-> V4.positionTokenId, total |-> V4.totalLiquidityAdded,
                  raced |-> job.frozen /\ ~job.frozenThen]
<1>1. /\ job' = [step |-> "ready", started |-> job.started, frozen |-> job.frozen, tx |-> tx]
      /\ UNCHANGED <<now, vault, compounders>> /\ now <= job.started + JobTimeout
      /\ job.started \in Nat /\ now \in Nat /\ job.frozen \in BOOLEAN /\ job.frozenThen \in BOOLEAN
  BY DEF Snapshot, InTime, vaultVars, compounderVars, V4, Checked, HookOK
<1>2. /\ V4.positionTokenId \in Nat /\ V4.totalLiquidityAdded \in Int
      /\ DeadlineWindow \in Nat /\ JobTimeout \in Nat
      /\ RECOVERY_DELAY \in Nat /\ RECOVERY_DELAY > JobTimeout + DeadlineWindow
      /\ \A p \in V4.recovery : p.eta \in Nat /\ p.eta >= job.started + RECOVERY_DELAY
  BY SystemAssumption, CompounderAssumption
  DEF CompoundersOK, CompounderType, Delayed, V4, Checked, NoRecoveryBefore
<1>3. PICK t : t = tx
  OBVIOUS
<1>4. (job.frozen /\ ~job.frozenThen) \in BOOLEAN
  OBVIOUS
<1>5. /\ t \in TxType /\ t.deadline = now + DeadlineWindow /\ t.position = V4.positionTokenId
      /\ t.total = V4.totalLiquidityAdded /\ t.raced = (job.frozen /\ ~job.frozenThen)
  BY <1>1, <1>2, <1>3, <1>4 DEF TxType
<1>6. /\ job' \in [step : {"ready"}, started : Nat, frozen : BOOLEAN, tx : TxType]
      /\ job'.tx = t /\ job'.frozen = job.frozen
  BY <1>1, <1>3, <1>5
<1> HIDE DEF tx
<1>7. \A p \in V4.recovery : p.eta >= t.deadline + 1
  BY <1>1, <1>2, <1>5
<1>8. ASSUME job.frozen
      PROVE  TxOK(t)'
  <2>1. vault.compounderFrozen /\ (job.frozenThen => vault.compounder = V4_COMPOUNDER)
    BY <1>8 DEF Checked
  <2>2. vault.compounder # V4_COMPOUNDER => t.raced
    BY <1>5, <1>8, <2>1
  <2>3. V4' = V4 /\ vault' = vault /\ now' = now
    BY <1>1 DEF V4
  <2>4. t.deadline <= now + DeadlineWindow
    BY <1>1, <1>2, <1>5
  <2> QED BY <1>5, <1>7, <2>1, <2>2, <2>3, <2>4 DEF TxOK, NoRecoveryBefore
<1> QED BY <1>6, <1>8 DEF Made

\* The simulation only sets the bound on what may be added.
LEMMA SimulateKeeps ==
  ASSUME HookOK, VaultOK, CompoundersOK, Made, NEW price \in Prices, Simulate(price)
  PROVE  Prepared'
<1> DEFINE bound == LiquidityMinimum(Simulated(price))
           tx == [job.tx EXCEPT !.minLiquidity = bound]
<1>1. /\ job' = [step |-> "simulated", started |-> job.started, tx |-> tx]
      /\ UNCHANGED <<now, vault, compounders>> /\ job.frozen /\ job.started \in Nat
      /\ vault.compounder \in Compounders
  BY DEF Simulate, CompoundAllReturns, MayCompound, VaultOK, VaultType, vaultVars, compounderVars,
     Made
<1>2. bound \in Int
  <2> DEFINE pulled == ForCompound(balance)
             new == AfterCompound(vault.compounder, pulled, Limit, price)
             x == Simulated(price)
  <2>1. pulled \in [Currencies -> Int]
    BY PurseKeeps, CompoundKeepsPurse DEF VaultOK
  <2> HIDE DEF pulled
  <2>2. new \in CompounderType /\ compounders[vault.compounder] \in CompounderType
    BY <1>1, <2>1, AfterCompoundKeeps DEF CompoundersOK
  <2>3. x = new.totalLiquidityAdded - compounders[vault.compounder].totalLiquidityAdded
    BY DEF Simulated, LiquidityAdded, pulled
  <2> HIDE DEF new, x
  <2>4. x \in Int
    BY <2>2, <2>3 DEF CompounderType
  <2>5. x * GuardBps \in Int /\ BPS \in Nat \ {0}
    BY <2>4, SystemAssumption, BpsAssumption
  <2>6. LiquidityMinimum(x) \in Int
    <3> DEFINE y == x * GuardBps
    <3>1. y \in Int
      BY <2>5
    <3> HIDE DEF y
    <3>2. y \div BPS \in Int
      BY <2>5, <3>1
    <3> QED BY <3>2 DEF LiquidityMinimum, y
  <2> QED BY <2>6 DEF x
<1>3. job.tx \in TxType /\ TxOK(job.tx)
  BY <1>1 DEF Made
<1>4. PICK t : t = tx
  OBVIOUS
<1> HIDE DEF bound
<1>5. /\ t \in TxType /\ t.deadline = job.tx.deadline /\ t.position = job.tx.position
      /\ t.total = job.tx.total /\ t.raced = job.tx.raced
  BY <1>2, <1>3, <1>4 DEF TxType
<1>6. job' \in [step : {"simulated", "sent"}, started : Nat, tx : TxType] /\ job'.tx = t
  BY <1>1, <1>4, <1>5
<1> HIDE DEF tx
<1>7. TxOK(t)'
  BY <1>1, <1>3, <1>5 DEF TxOK, NoRecoveryBefore, V4
<1> QED BY <1>6, <1>7 DEF Prepared

\* The receipt of a transaction names the compounder in force.
LEMMA LandKeeps ==
  ASSUME IInv, [Next]_vars, NEW tx \in txs, NEW price \in Prices, Land(tx, price),
         job.step = "sent" /\ job.tx = tx
  PROVE  Included'
<1>1. job' = [step |-> "included", started |-> job.started, tx |-> tx, paid |-> vault.compounder]
      /\ vault' = vault /\ vault.compounder \in Compounders
  BY DEF Land, CompoundUnchecked, MayCompound, IInv, VaultOK, VaultType
<1>2. Prepared
  BY DEF IInv, MaintainerOK, JobOK, IdleJob, Reading, Checked, Made, Included
<1>3. TxOK(tx) /\ TxOK(tx)'
  BY <1>2, TxStays DEF IInv, Prepared
<1>4. /\ job' \in [step : {"included", "reported"}, started : Nat, tx : TxType, paid : Compounders]
      /\ job'.tx = tx /\ job'.paid = vault.compounder /\ job'.step = "included"
  BY <1>1, <1>2 DEF Prepared
<1> QED BY <1>1, <1>3, <1>4 DEF Included, ReportsTruly

\* Only the liquidity of the verified compounder can have grown since it was read.
LEMMA ReportKeeps ==
  ASSUME HookOK, CompoundersOK, Included, Report
  PROVE  Included'
<1>1. /\ job' = [job EXCEPT !.step = "reported"] /\ UNCHANGED <<now, vault, compounders>>
      /\ V4.totalLiquidityAdded > job.tx.total
  BY DEF Report, vaultVars, compounderVars, V4
<1>2. vault.compounder = V4_COMPOUNDER
  BY <1>1 DEF Included, TxOK, TxType
<1>3. /\ job' \in [step : {"included", "reported"}, started : Nat, tx : TxType, paid : Compounders]
      /\ job'.tx = job.tx /\ job'.paid = job.paid
  BY <1>1 DEF Included
<1>4. TxOK(job.tx)'
  BY <1>1, <1>3 DEF Included, TxOK, NoRecoveryBefore, V4
<1> QED BY <1>1, <1>2, <1>3, <1>4 DEF Included, ReportsTruly

\* The job and its transactions in every step.
LEMMA MaintainerStep ==
  ASSUME IInv, [Next]_vars
  PROVE  MaintainerOK'
<1> USE DEF IInv, MaintainerOK
<1>1. \A tx : TxOK(tx) => TxOK(tx)'
  BY TxStays
<1>2. job' = job => JobOK'
  <2> SUFFICES ASSUME job' = job PROVE JobOK'
    OBVIOUS
  <2>1. CASE job = IdleJob
    BY <2>1 DEF JobOK, IdleJob
  <2>2. CASE Reading \/ Checked
    BY <2>2, RunStays DEF JobOK
  <2>3. CASE Made
    BY <1>1, <2>3 DEF Made, JobOK
  <2>4. CASE Prepared
    BY <1>1, <2>4 DEF Prepared, JobOK
  <2>5. CASE Included
    <3>1. vault'.compounder = vault.compounder
      BY <2>5, FrozenStays DEF Included, TxOK
    <3>2. TxOK(job.tx)'
      BY <1>1, <2>5 DEF Included
    <3> QED BY <2>5, <3>1, <3>2 DEF Included, ReportsTruly, JobOK
  <2> QED BY <2>1, <2>2, <2>3, <2>4, <2>5 DEF JobOK
<1>3. ASSUME job' = job, txs' \subseteq txs
      PROVE  MaintainerOK'
  BY <1>1, <1>2, <1>3
<1>4. CASE HookGovernance \/ VaultGovernance \/ Recovery \/ Donation \/ Tick \/ UNCHANGED vars
  BY <1>3, <1>4 DEF HookGovernance, VaultGovernance, Recovery, Donation, Tick, vars
<1>5. CASE \/ \E side \in Sides, amount \in SwapAmounts : Swap(side, amount)
           \/ \E amount \in Amounts, price \in Prices : Compound(amount, price)
           \/ \E price \in Prices : ProcessGenesisSplitAll(price)
  <2>1. job' = job
    BY <1>5 DEF Swap, Compound, ProcessGenesisSplitAll
  <2>2. txs' = txs
    BY <1>5 DEF Swap, Compound, ProcessGenesisSplitAll
  <2> QED BY <1>3, <2>1, <2>2
<1>6. CASE \E tx \in txs, price \in Prices : Land(tx, price)
  <2>1. PICK tx \in txs, price \in Prices : Land(tx, price)
    BY <1>6
  <2>2. txs' \subseteq txs
    BY <2>1 DEF Land
  <2>3. CASE job.step = "sent" /\ job.tx = tx
    BY <1>1, <2>1, <2>2, <2>3, LandKeeps DEF JobOK
  <2>4. CASE ~(job.step = "sent" /\ job.tx = tx)
    <3>1. job' = job
      BY <2>1, <2>4 DEF Land
    <3> QED BY <1>3, <2>2, <3>1
  <2> QED BY <2>3, <2>4
<1>7. ASSUME JobOK', txs' = txs
      PROVE  MaintainerOK'
  BY <1>1, <1>7
<1>8. CASE StartRun
  <2>1. /\ job' = [step |-> "reading", started |-> now, answered |-> {}, right |-> {},
                   frozenThen |-> FALSE]
        /\ UNCHANGED <<now, txs>> /\ now \in Nat
    BY <1>8 DEF StartRun, HookOK
  <2>2. Reading'
    BY <2>1 DEF Reading
  <2> QED BY <1>7, <2>1, <2>2 DEF JobOK
<1>9. CASE \E read \in BindingReads : Answer(read)
  <2>1. PICK read \in BindingReads : Answer(read)
    BY <1>9
  <2>2. Reading
    BY <2>1 DEF Answer, JobOK, IdleJob, Checked, Made, Prepared, Included
  <2>3. Reading' /\ txs' = txs
    BY <2>1, <2>2, AnswerKeeps DEF Answer
  <2> QED BY <1>7, <2>3 DEF JobOK
<1>10. CASE CheckBindings
  <2>1. Reading
    BY <1>10 DEF CheckBindings, JobOK, IdleJob, Checked, Made, Prepared, Included
  <2>2. /\ job' = [step |-> "checked", started |-> job.started,
                   frozen |-> "compounderFrozen" \in job.right, frozenThen |-> job.frozenThen]
        /\ {"compounder", "pendingRecovery"} \subseteq job.right
        /\ UNCHANGED <<now, vault, compounders, txs>>
    BY <1>10 DEF CheckBindings, BindingReads, vaultVars, compounderVars
  <2>3. /\ job' \in [step : {"checked"}, started : Nat, frozen : BOOLEAN, frozenThen : BOOLEAN]
        /\ job'.started = job.started /\ job'.frozenThen = job.frozenThen
        /\ job'.frozen = ("compounderFrozen" \in job.right)
    BY <2>1, <2>2 DEF Reading
  <2>4. Checked'
    BY <2>1, <2>2, <2>3 DEF Reading, Checked, NoRecoveryBefore, V4
  <2> QED BY <1>7, <2>2, <2>4 DEF JobOK
<1>11. CASE Snapshot
  <2>1. Checked
    BY <1>11 DEF Snapshot, JobOK, IdleJob, Reading, Made, Prepared, Included
  <2>2. Made' /\ txs' = txs
    BY <1>11, <2>1, SnapshotKeeps DEF Snapshot
  <2> QED BY <1>7, <2>2 DEF JobOK
<1>12. CASE \E price \in Prices : Simulate(price)
  <2>1. PICK price \in Prices : Simulate(price)
    BY <1>12
  <2>2. Made
    BY <2>1 DEF Simulate, JobOK, IdleJob, Reading, Checked, Prepared, Included
  <2>3. Prepared' /\ txs' = txs
    BY <2>1, <2>2, SimulateKeeps DEF Simulate
  <2> QED BY <1>7, <2>3 DEF JobOK
<1>13. CASE Send
  <2>1. /\ txs' = txs \cup {job.tx} /\ job' = [job EXCEPT !.step = "sent"]
        /\ job.step = "simulated"
    BY <1>13 DEF Send
  <2>2. Prepared
    BY <2>1 DEF JobOK, IdleJob, Reading, Checked, Made, Included
  <2>3. job' \in [step : {"simulated", "sent"}, started : Nat, tx : TxType] /\ job'.tx = job.tx
    BY <2>1, <2>2 DEF Prepared
  <2>4. Prepared'
    BY <1>1, <2>2, <2>3 DEF Prepared
  <2> QED BY <1>1, <2>1, <2>2, <2>4 DEF JobOK, Prepared
<1>14. CASE \E tx \in txs : Lose(tx)
  <2>1. job' = job /\ txs' \subseteq txs
    BY <1>14 DEF Lose
  <2> QED BY <1>3, <2>1
<1>15. CASE Report
  <2>1. Included
    BY <1>15 DEF Report, JobOK, IdleJob, Reading, Checked, Made, Prepared
  <2>2. Included' /\ txs' = txs
    BY <1>15, <2>1, ReportKeeps DEF Report
  <2> QED BY <1>7, <2>2 DEF JobOK
<1>16. CASE EndJob
  <2>1. job' = IdleJob /\ txs' = txs
    BY <1>16 DEF EndJob
  <2> QED BY <1>7, <2>1 DEF JobOK, IdleJob
<1> QED BY <1>4, <1>5, <1>6, <1>8, <1>9, <1>10, <1>11, <1>12, <1>13, <1>14, <1>15, <1>16, NextSteps
        DEF OffChain

--------------------------------------------------------------------------------
(* The theorems                                                                      *)

\* Nothing has flowed, nothing is bound and nothing is sent at deployment.
LEMMA InitHolds ==
  ASSUME Init
  PROVE  IInv
<1>1. HookOK
  <2> USE HookAssumption DEF Init, HookInit, Delayed
  <2>1. \A side \in Sides : /\ flow[side] \in FlowType /\ ValidCurve(flow[side].curve)
                            /\ flow[side].amount = 0 /\ flow[side].charged = 0
                            /\ flow[side].depth = 0 /\ flow[side].curve \in FeeCurve
    BY DEF FlowType
  <2>2. FeeFollowsCurve
    BY <2>1, NoFlowNoFee DEF FeeFollowsCurve
  <2> QED BY <2>1, <2>2 DEF HookOK
<1>2. VaultOK
  BY DEF Init, VaultInit, VaultOK, VaultType, BooksType, Delayed, RouteModes, GenesisModes,
     OneDistributorPaid
<1>3. CompoundersOK
  BY DEF Init, CompounderInit, CompoundersOK, CompounderType, Delayed, Currencies
<1>4. MaintainerOK
  BY DEF Init, MaintainerOK, JobOK
<1> QED BY <1>1, <1>2, <1>3, <1>4 DEF IInv

\* The invariant holds in every reachable state.
THEOREM GrowthInvariant == Spec => []IInv
<1>1. Init => IInv
  BY InitHolds
<1>2. IInv /\ [Next]_vars => IInv'
  <2> SUFFICES ASSUME IInv, [Next]_vars PROVE IInv'
    OBVIOUS
  <2>1. HookOK'
    BY HookStep DEF IInv
  <2>2. VaultOK'
    BY VaultStep DEF IInv
  <2>3. CompoundersOK'
    BY CompoundersStep DEF IInv
  <2>4. MaintainerOK'
    BY MaintainerStep
  <2> QED BY <2>1, <2>2, <2>3, <2>4 DEF IInv
<1> QED BY <1>1, <1>2, PTL DEF Spec

\* However a block's flow is cut into swaps, it pays the piecewise fee of the whole.
THEOREM FeeFollowsTheCurve == Spec => []FeeFollowsCurve
<1>1. IInv => FeeFollowsCurve
  BY DEF IInv, HookOK
<1> QED BY <1>1, GrowthInvariant, PTL

\* Base promised to genesis positions goes to a single, frozen distributor.
THEOREM OneDistributorIsPaid == Spec => []OneDistributorPaid
<1>1. IInv => OneDistributorPaid
  BY DEF IInv, VaultOK
<1> QED BY <1>1, GrowthInvariant, PTL

\* Whenever the maintainer's transaction is included, it pays the compounder that was
\* verified and finds the position that was read, unless the compounder was frozen between
\* two answers; and no run reports what another compounder was paid: for every recovery
\* delay longer than a run of the job and its transaction.
THEOREM MaintainerCompoundsVerifiedPosition == Spec => CompoundsVerifiedPosition
<1>1. IInv /\ [Next]_vars => LandsOnVerified
  <2> SUFFICES ASSUME IInv, [Next]_vars, NEW tx \in txs \ txs', compounders' # compounders
      PROVE  /\ vault.compounder = V4_COMPOUNDER \/ tx.raced
             /\ tx.position # 0 => compounders'[V4_COMPOUNDER].positionTokenId = tx.position
    BY DEF LandsOnVerified
  <2>1. \E price \in Prices : Land(tx, price)
    <3>1. ~OffChain
      BY OffChainRests DEF compounderVars
    <3>2. ~UNCHANGED txs
      OBVIOUS
    <3>3. \E other \in txs, price \in Prices : Land(other, price)
      BY <3>1, <3>2, NextSteps DEF HookGovernance, VaultGovernance, Recovery, Donation, Tick, Swap,
         Compound, ProcessGenesisSplitAll, vars
    <3> QED BY <3>3 DEF Land
  <2>2. /\ now <= tx.deadline /\ now' = now
        /\ TxOK(tx) /\ TxOK(tx)'
    BY <2>1, TxStays DEF Land, IInv, MaintainerOK
  <2>3. vault.compounder = V4_COMPOUNDER \/ tx.raced
    BY <2>2 DEF TxOK
  <2>4. tx.position # 0 => V4'.positionTokenId = tx.position
    BY <2>2 DEF TxOK
  <2> QED BY <2>3, <2>4 DEF V4
<1>2. IInv => ReportsTruly
  <2>1. CASE Included
    BY <2>1 DEF Included
  <2>2. CASE ~Included
    <3>1. ASSUME IInv PROVE job.step # "reported"
      BY <2>2, <3>1 DEF IInv, MaintainerOK, JobOK, IdleJob, Reading, Checked, Made, Prepared
    <3> QED BY <3>1 DEF ReportsTruly
  <2> QED BY <2>1, <2>2
<1> QED BY <1>1, <1>2, GrowthInvariant, PTL DEF Spec, CompoundsVerifiedPosition

--------------------------------------------------------------------------------
(* Every delayed change implements Timelock                                          *)

VaultLocksStep == /\ [CompounderLock!Next]_(CompounderLock!vars)
                  /\ [DistributorLock!Next]_(DistributorLock!vars)
HookLockStep(side) == /\ [CurveLock(side)!Next]_(CurveLock(side)!vars)
                      /\ [DepthLock(side)!Next]_(DepthLock(side)!vars)

NoFees == \A c \in Currencies : books.fees[c] = 0

\* A fee closes the bootstrap of both vault locks; anything else about money is no step.
LEMMA MoneyAnnounced ==
  ASSUME VaultOK, UNCHANGED <<now, vault>>, VaultOK',
         \A c \in Currencies : books'.fees[c] >= books.fees[c]
  PROVE  VaultLocksStep
<1>1. NoFees' => NoFees
  <2>1. \A c \in Currencies : books.fees[c] \in Nat /\ books'.fees[c] \in Nat
    BY DEF VaultOK, BooksType
  <2> QED BY <2>1 DEF NoFees
<1>2. CASE NoFees' <=> NoFees
  BY <1>2 DEF NoFees, VaultLocksStep, CompounderLock!vars, DistributorLock!vars
<1>3. CASE NoFees /\ ~NoFees'
  <2>1. \/ CompounderLock!Close
        \/ UNCHANGED CompounderLock!vars
    BY <1>3 DEF NoFees, CompounderLock!Close, CompounderLock!vars
  <2>2. \/ DistributorLock!Close
        \/ UNCHANGED DistributorLock!vars
    BY <1>3 DEF NoFees, DistributorLock!Close, DistributorLock!vars
  <2> QED BY <2>1, <2>2 DEF VaultLocksStep, CompounderLock!Next, DistributorLock!Next
<1> QED BY <1>1, <1>2, <1>3 DEF NoFees

\* Every action of the compounder's governance is one of the steps a timelock may take.
LEMMA CompounderGovernanceAnnounced ==
  ASSUME VaultOK, CompounderGovernance, now' = now
  PROVE  VaultLocksStep
<1> USE VaultAssumption DEF VaultOK, VaultType, Delayed
<1> DEFINE rest == UNCHANGED <<books, vault.distributor, vault.pendingDistributor,
                               vault.distributorFrozen>>
<1>1. rest => [DistributorLock!Next]_(DistributorLock!vars)
  BY DEF DistributorLock!vars
<1>2. ASSUME NEW k \in Compounders, SetCompounder(k)
      PROVE  VaultLocksStep
  <2>1. /\ rest /\ vault.compounder = None /\ NoFees /\ ~vault.compounderFrozen
        /\ UNCHANGED <<vault.pendingCompounder, vault.compounderFrozen>>
    BY <1>2 DEF SetCompounder, Untouched, NoFees
  <2>2. CompounderLock!Bootstrap
    BY <2>1 DEF CompounderLock!Bootstrap, NoFees
  <2> QED BY <1>1, <2>1, <2>2 DEF VaultLocksStep, CompounderLock!Next
<1>3. ASSUME NEW k \in Compounders, ProposeCompounder(k)
      PROVE  VaultLocksStep
  <2>1. /\ rest /\ ~vault.compounderFrozen
        /\ vault'.pendingCompounder = {[target |-> k, eta |-> now + TARGET_UPDATE_DELAY]}
        /\ UNCHANGED <<vault.compounder, vault.compounderFrozen>>
    BY <1>3 DEF ProposeCompounder, Staged
  <2>2. CompounderLock!Propose
    BY <2>1 DEF CompounderLock!Propose
  <2> QED BY <1>1, <2>1, <2>2 DEF VaultLocksStep, CompounderLock!Next
<1>4. CASE CancelCompounderProposal
  <2>1. /\ rest /\ vault.pendingCompounder # {} /\ vault'.pendingCompounder = {}
        /\ UNCHANGED <<vault.compounder, vault.compounderFrozen>>
    BY <1>4 DEF CancelCompounderProposal
  <2>2. CompounderLock!Cancel
    BY <2>1 DEF CompounderLock!Cancel
  <2> QED BY <1>1, <2>1, <2>2 DEF VaultLocksStep, CompounderLock!Next
<1>5. CASE ExecuteCompounder
  <2>1. PICK p \in Ready(vault.pendingCompounder) :
           /\ rest /\ ~vault.compounderFrozen
           /\ vault'.compounder = p.target /\ vault'.pendingCompounder = {}
           /\ UNCHANGED vault.compounderFrozen
    BY <1>5 DEF ExecuteCompounder
  <2>2. p \in vault.pendingCompounder /\ now >= p.eta /\ p.target # None
    BY <2>1 DEF Ready
  <2>3. CompounderLock!Execute
    BY <2>1, <2>2 DEF CompounderLock!Execute
  <2> QED BY <1>1, <2>1, <2>3 DEF VaultLocksStep, CompounderLock!Next
<1>6. CASE FreezeCompounder
  <2>1. /\ rest /\ vault.pendingCompounder = {} /\ vault'.compounderFrozen
        /\ UNCHANGED <<vault.compounder, vault.pendingCompounder>>
    BY <1>6 DEF FreezeCompounder
  <2>2. vault'.compounderFrozen = TRUE
    BY <1>6 DEF FreezeCompounder
  <2>3. CompounderLock!Lock
    BY <2>1, <2>2 DEF CompounderLock!Lock
  <2> QED BY <1>1, <2>1, <2>3 DEF VaultLocksStep, CompounderLock!Next
<1> QED BY <1>2, <1>3, <1>4, <1>5, <1>6 DEF CompounderGovernance

\* The same for the distributor's.
LEMMA DistributorGovernanceAnnounced ==
  ASSUME VaultOK, DistributorGovernance, now' = now
  PROVE  VaultLocksStep
<1> USE VaultAssumption DEF VaultOK, VaultType, Delayed
<1> DEFINE rest == UNCHANGED <<books, vault.compounder, vault.pendingCompounder,
                               vault.compounderFrozen>>
<1>1. rest => [CompounderLock!Next]_(CompounderLock!vars)
  BY DEF CompounderLock!vars
<1>2. ASSUME NEW d \in Distributors, SetGenesisRewardDistributor(d)
      PROVE  VaultLocksStep
  <2>1. /\ rest /\ vault.distributor = None /\ NoFees /\ ~vault.distributorFrozen
        /\ UNCHANGED <<vault.pendingDistributor, vault.distributorFrozen>>
    BY <1>2 DEF SetGenesisRewardDistributor, Untouched, NoFees
  <2>2. DistributorLock!Bootstrap
    BY <2>1 DEF DistributorLock!Bootstrap, NoFees
  <2> QED BY <1>1, <2>1, <2>2 DEF VaultLocksStep, DistributorLock!Next
<1>3. ASSUME NEW d \in Distributors, ProposeGenesisRewardDistributor(d)
      PROVE  VaultLocksStep
  <2>1. /\ rest /\ ~vault.distributorFrozen
        /\ vault'.pendingDistributor = {[target |-> d, eta |-> now + TARGET_UPDATE_DELAY]}
        /\ UNCHANGED <<vault.distributor, vault.distributorFrozen>>
    BY <1>3 DEF ProposeGenesisRewardDistributor, Staged
  <2>2. DistributorLock!Propose
    BY <2>1 DEF DistributorLock!Propose
  <2> QED BY <1>1, <2>1, <2>2 DEF VaultLocksStep, DistributorLock!Next
<1>4. CASE CancelGenesisRewardDistributorProposal
  <2>1. /\ rest /\ vault.pendingDistributor # {} /\ vault'.pendingDistributor = {}
        /\ UNCHANGED <<vault.distributor, vault.distributorFrozen>>
    BY <1>4 DEF CancelGenesisRewardDistributorProposal
  <2>2. DistributorLock!Cancel
    BY <2>1 DEF DistributorLock!Cancel
  <2> QED BY <1>1, <2>1, <2>2 DEF VaultLocksStep, DistributorLock!Next
<1>5. CASE ExecuteGenesisRewardDistributor
  <2>1. PICK p \in Ready(vault.pendingDistributor) :
           /\ rest /\ ~vault.distributorFrozen
           /\ vault'.distributor = p.target /\ vault'.pendingDistributor = {}
           /\ UNCHANGED vault.distributorFrozen
    BY <1>5 DEF ExecuteGenesisRewardDistributor
  <2>2. p \in vault.pendingDistributor /\ now >= p.eta /\ p.target # None
    BY <2>1 DEF Ready
  <2>3. DistributorLock!Execute
    BY <2>1, <2>2 DEF DistributorLock!Execute
  <2> QED BY <1>1, <2>1, <2>3 DEF VaultLocksStep, DistributorLock!Next
<1>6. CASE FreezeGenesisRewardDistributor
  <2>1. /\ rest /\ vault.pendingDistributor = {} /\ vault'.distributorFrozen = TRUE
        /\ UNCHANGED <<vault.distributor, vault.pendingDistributor>>
    BY <1>6 DEF FreezeGenesisRewardDistributor
  <2>2. DistributorLock!Lock
    BY <2>1 DEF DistributorLock!Lock
  <2> QED BY <1>1, <2>1, <2>2 DEF VaultLocksStep, DistributorLock!Next
<1> QED BY <1>2, <1>3, <1>4, <1>5, <1>6 DEF DistributorGovernance

\* The rest of the vault's governance is no step of a lock.
LEMMA VaultGovernanceAnnounced ==
  ASSUME HookOK, VaultOK, VaultGovernance
  PROVE  VaultLocksStep
<1>0. now' = now /\ VaultOK' /\ books'.fees = books.fees
  BY VaultGovernanceKeeps DEF VaultGovernance
<1>1. CASE CompounderGovernance
  BY <1>0, <1>1, CompounderGovernanceAnnounced
<1>2. CASE DistributorGovernance
  BY <1>0, <1>2, DistributorGovernanceAnnounced
<1>3. CASE \/ SetHook
           \/ \E allowed \in BOOLEAN : SetCompoundKeeper(allowed)
           \/ \E mode \in Modes : SetRouteMode(mode)
           \/ \E b \in Bounties : SetKeeperBounty(b.bps, b.minCompoundBase)
           \/ \E share \in Shares : SetSplitGenesisShare(share)
           \/ \E amount \in Distributable : RouteBaseToGenesis(amount)
  <2>1. UNCHANGED <<vault.compounder, vault.pendingCompounder, vault.compounderFrozen,
                    vault.distributor, vault.pendingDistributor, vault.distributorFrozen>>
    BY <1>3 DEF SetHook, SetCompoundKeeper, SetRouteMode, SetKeeperBounty, SetSplitGenesisShare,
       RouteBaseToGenesis, VaultOK, VaultType
  <2> QED BY <1>0, <2>1 DEF VaultLocksStep, CompounderLock!vars, DistributorLock!vars
<1> QED BY <1>1, <1>2, <1>3 DEF VaultGovernance

\* Every action of the hook's governance is one of the steps a timelock may take: at once
\* until the pool is registered, after an announcement from then on.
LEMMA HookGovernanceAnnounced ==
  ASSUME HookOK, HookGovernance, NEW side \in Sides
  PROVE  HookLockStep(side)
<1> USE DEF HookOK
<1> DEFINE curveRests == UNCHANGED <<poolRegistered, curves, pendingCurves>>
           depthRests == UNCHANGED <<poolRegistered, protocolDepth, pendingDepth>>
<1>0. now' = now
  BY DEF HookGovernance
<1>1. curveRests => [CurveLock(side)!Next]_(CurveLock(side)!vars)
  BY <1>0 DEF CurveLock!vars
<1>2. depthRests => [DepthLock(side)!Next]_(DepthLock(side)!vars)
  BY <1>0 DEF DepthLock!vars
<1>3. CASE RegisterPool(vault.hook)
  <2>1. /\ poolRegistered = FALSE /\ poolRegistered' = TRUE
        /\ UNCHANGED <<curves, pendingCurves, protocolDepth, pendingDepth>>
    BY <1>3 DEF RegisterPool
  <2>2. CurveLock(side)!Close /\ DepthLock(side)!Close
    BY <1>0, <2>1 DEF CurveLock!Close, DepthLock!Close
  <2> QED BY <2>2 DEF HookLockStep, CurveLock!Next, DepthLock!Next
<1>4. ASSUME NEW any \in Sides, NEW c, SetFeeCurve(any, c)
      PROVE  HookLockStep(side)
  <2>1. depthRests /\ UNCHANGED poolRegistered
    BY <1>4 DEF SetFeeCurve
  <2>2. CASE poolRegistered
    <3>1. /\ pendingCurves' = [pendingCurves EXCEPT ![any] =
                                 {[target |-> c, eta |-> now + FEE_UPDATE_DELAY]}]
          /\ curves' = curves
      BY <1>4, <2>2 DEF SetFeeCurve, Staged
    <3>2. CASE side = any
      <4>1. CurveLock(side)!Propose
        <5>1. PICK p : p = [target |-> c, eta |-> now + FEE_UPDATE_DELAY]
          OBVIOUS
        <5>2. pendingCurves[side]' = {p} /\ p.eta = now + FEE_UPDATE_DELAY
          BY <3>1, <3>2, <5>1
        <5>3. UNCHANGED <<now, curves[side], ~poolRegistered, FALSE>>
          BY <1>0, <2>1, <3>1
        <5> QED BY <5>2, <5>3 DEF CurveLock!Propose
      <4> QED BY <1>2, <2>1, <4>1 DEF HookLockStep, CurveLock!Next
    <3>3. CASE side # any
      BY <1>0, <1>2, <2>1, <3>1, <3>3 DEF HookLockStep, CurveLock!vars
    <3> QED BY <3>2, <3>3
  <2>3. CASE ~poolRegistered
    <3>1. curves' = [curves EXCEPT ![any] = c] /\ pendingCurves' = pendingCurves
      BY <1>4, <2>3 DEF SetFeeCurve
    <3>2. CurveLock(side)!Bootstrap
      <4>1. ~poolRegistered /\ (~poolRegistered)' \in BOOLEAN
        BY <2>3, Zenon
      <4>2. UNCHANGED <<now, pendingCurves[side], FALSE>>
        BY <1>0, <3>1
      <4> QED BY <4>1, <4>2, Zenon DEF CurveLock!Bootstrap
    <3> QED BY <1>2, <2>1, <3>2 DEF HookLockStep, CurveLock!Next
  <2> QED BY <2>2, <2>3
<1>5. ASSUME NEW any \in Sides, ExecuteFeeCurve(any)
      PROVE  HookLockStep(side)
  <2>1. depthRests
    BY <1>5 DEF ExecuteFeeCurve
  <2>2. PICK p \in pendingCurves[any] :
           /\ now >= p.eta /\ curves' = [curves EXCEPT ![any] = p.target]
           /\ pendingCurves' = [pendingCurves EXCEPT ![any] = {}]
    BY <1>5 DEF ExecuteFeeCurve, Ready
  <2>3. CASE side = any
    <3>1. CurveLock(side)!Execute
      BY <1>0, <2>1, <2>2, <2>3 DEF CurveLock!Execute
    <3> QED BY <1>2, <2>1, <3>1 DEF HookLockStep, CurveLock!Next
  <2>4. CASE side # any
    BY <1>0, <1>2, <2>1, <2>2, <2>4 DEF HookLockStep, CurveLock!vars
  <2> QED BY <2>3, <2>4
<1>6. ASSUME NEW any \in Sides, CancelFeeCurve(any)
      PROVE  HookLockStep(side)
  <2>1. /\ depthRests /\ curves' = curves /\ pendingCurves[any] # {}
        /\ pendingCurves' = [pendingCurves EXCEPT ![any] = {}]
    BY <1>6 DEF CancelFeeCurve
  <2>2. CASE side = any
    <3>1. CurveLock(side)!Cancel
      BY <1>0, <2>1, <2>2 DEF CurveLock!Cancel
    <3> QED BY <1>2, <2>1, <3>1 DEF HookLockStep, CurveLock!Next
  <2>3. CASE side # any
    BY <1>0, <1>2, <2>1, <2>3 DEF HookLockStep, CurveLock!vars
  <2> QED BY <2>2, <2>3
<1>7. ASSUME NEW any \in Sides, NEW d, SetProtocolDepth(any, d)
      PROVE  HookLockStep(side)
  <2>1. curveRests /\ UNCHANGED poolRegistered
    BY <1>7 DEF SetProtocolDepth
  <2>2. CASE poolRegistered
    <3>1. /\ pendingDepth' = [pendingDepth EXCEPT ![any] =
                                {[target |-> d, eta |-> now + FEE_UPDATE_DELAY]}]
          /\ protocolDepth' = protocolDepth
      BY <1>7, <2>2 DEF SetProtocolDepth, Staged
    <3>2. CASE side = any
      <4>1. DepthLock(side)!Propose
        <5>1. PICK p : p = [target |-> d, eta |-> now + FEE_UPDATE_DELAY]
          OBVIOUS
        <5>2. pendingDepth[side]' = {p} /\ p.eta = now + FEE_UPDATE_DELAY
          BY <3>1, <3>2, <5>1
        <5>3. UNCHANGED <<now, protocolDepth[side], ~poolRegistered, FALSE>>
          BY <1>0, <2>1, <3>1
        <5> QED BY <5>2, <5>3 DEF DepthLock!Propose
      <4> QED BY <1>1, <2>1, <4>1 DEF HookLockStep, DepthLock!Next
    <3>3. CASE side # any
      BY <1>0, <1>1, <2>1, <3>1, <3>3 DEF HookLockStep, DepthLock!vars
    <3> QED BY <3>2, <3>3
  <2>3. CASE ~poolRegistered
    <3>1. protocolDepth' = [protocolDepth EXCEPT ![any] = d] /\ pendingDepth' = pendingDepth
      BY <1>7, <2>3 DEF SetProtocolDepth
    <3>2. DepthLock(side)!Bootstrap
      <4>1. ~poolRegistered /\ (~poolRegistered)' \in BOOLEAN
        BY <2>3, Zenon
      <4>2. UNCHANGED <<now, pendingDepth[side], FALSE>>
        BY <1>0, <3>1
      <4> QED BY <4>1, <4>2, Zenon DEF DepthLock!Bootstrap
    <3> QED BY <1>1, <2>1, <3>2 DEF HookLockStep, DepthLock!Next
  <2> QED BY <2>2, <2>3
<1>8. ASSUME NEW any \in Sides, ExecuteProtocolDepth(any)
      PROVE  HookLockStep(side)
  <2>1. curveRests
    BY <1>8 DEF ExecuteProtocolDepth
  <2>2. PICK p \in pendingDepth[any] :
           /\ now >= p.eta /\ protocolDepth' = [protocolDepth EXCEPT ![any] = p.target]
           /\ pendingDepth' = [pendingDepth EXCEPT ![any] = {}]
    BY <1>8 DEF ExecuteProtocolDepth, Ready
  <2>3. CASE side = any
    <3>1. DepthLock(side)!Execute
      BY <1>0, <2>1, <2>2, <2>3 DEF DepthLock!Execute
    <3> QED BY <1>1, <2>1, <3>1 DEF HookLockStep, DepthLock!Next
  <2>4. CASE side # any
    BY <1>0, <1>1, <2>1, <2>2, <2>4 DEF HookLockStep, DepthLock!vars
  <2> QED BY <2>3, <2>4
<1>9. ASSUME NEW any \in Sides, CancelProtocolDepth(any)
      PROVE  HookLockStep(side)
  <2>1. /\ curveRests /\ protocolDepth' = protocolDepth /\ pendingDepth[any] # {}
        /\ pendingDepth' = [pendingDepth EXCEPT ![any] = {}]
    BY <1>9 DEF CancelProtocolDepth
  <2>2. CASE side = any
    <3>1. DepthLock(side)!Cancel
      BY <1>0, <2>1, <2>2 DEF DepthLock!Cancel
    <3> QED BY <1>1, <2>1, <3>1 DEF HookLockStep, DepthLock!Next
  <2>3. CASE side # any
    BY <1>0, <1>1, <2>1, <2>3 DEF HookLockStep, DepthLock!vars
  <2> QED BY <2>2, <2>3
<1> QED BY <1>3, <1>4, <1>5, <1>6, <1>7, <1>8, <1>9 DEF HookGovernance

\* Time alone is a step of every lock.
LEMMA TickAnnounced ==
  ASSUME HookOK, Tick, NEW side \in Sides
  PROVE  VaultLocksStep /\ HookLockStep(side)
<1>1. /\ now' > now
      /\ UNCHANGED <<vault, books.fees, poolRegistered, curves, pendingCurves,
                     protocolDepth, pendingDepth>>
  BY DEF HookOK, Tick, NewBlock, vaultVars, hookVars
<1>2. CompounderLock!Tick /\ DistributorLock!Tick
  BY <1>1 DEF CompounderLock!Tick, DistributorLock!Tick
<1>3. CurveLock(side)!Tick /\ DepthLock(side)!Tick
  BY <1>1 DEF CurveLock!Tick, DepthLock!Tick
<1> QED BY <1>2, <1>3 DEF VaultLocksStep, HookLockStep, CompounderLock!Next,
           DistributorLock!Next, CurveLock!Next, DepthLock!Next

\* Whoever acts, the vault's locks take a step of theirs or none.
LEMMA VaultLocksAnnounced ==
  ASSUME HookOK, VaultOK, CompoundersOK, [Next]_vars, ~Tick
  PROVE  VaultLocksStep
<1>1. CASE VaultGovernance
  BY <1>1, VaultGovernanceAnnounced
<1>2. CASE ~VaultGovernance
  <2>1. UNCHANGED vault
    BY <1>2, OnlyGovernanceBinds
  <2>2. now' = now
    BY <1>2, NextSteps, OffChainRests DEF HookGovernance, Recovery, Swap, Compound,
       ProcessGenesisSplitAll, Donation, Land, vars
  <2> QED BY <2>1, <2>2, VaultStep, MoneyAnnounced
<1> QED BY <1>1, <1>2

\* Whoever acts, the hook's locks take a step of theirs or none.
LEMMA HookLocksAnnounced ==
  ASSUME HookOK, [Next]_vars, ~Tick, NEW side \in Sides
  PROVE  HookLockStep(side)
<1>1. CASE HookGovernance
  BY <1>1, HookGovernanceAnnounced
<1>2. CASE ~HookGovernance
  <2>1. UNCHANGED <<now, poolRegistered, curves, pendingCurves, protocolDepth, pendingDepth>>
    BY <1>2, NextSteps, OffChainRests DEF VaultGovernance, Recovery, Swap, Compound,
       ProcessGenesisSplitAll, Donation, Land, vars, hookVars
  <2> QED BY <2>1 DEF HookLockStep, CurveLock!vars, DepthLock!vars
<1> QED BY <1>1, <1>2

\* Curves, depths, the compounder and the distributor, of any number of contracts and
\* with any delays, change only to what was announced for the whole delay: the system
\* implements each of the six timelocks.
THEOREM GrowthImplementsTimelock == Spec => ChangesAnnounced
<1>1. ASSUME Init
      PROVE  /\ CompounderLock!Init /\ DistributorLock!Init
             /\ \A side \in Sides : CurveLock(side)!Init /\ DepthLock(side)!Init
  <2>1. CompounderLock!Init /\ DistributorLock!Init
    BY <1>1 DEF Init, VaultInit, CompounderLock!Init, DistributorLock!Init
  <2>2. \A side \in Sides : CurveLock(side)!Init /\ DepthLock(side)!Init
    BY <1>1, Zenon DEF Init, HookInit, CurveLock!Init, DepthLock!Init
  <2> QED BY <2>1, <2>2
<1>2. IInv /\ [Next]_vars => Announced
  <2> SUFFICES ASSUME IInv, [Next]_vars PROVE Announced
    OBVIOUS
  <2>1. VaultLocksStep
    <3>1. "buy" \in Sides
      BY DEF Sides
    <3> QED BY <3>1, TickAnnounced, VaultLocksAnnounced DEF IInv
  <2>2. \A side \in Sides : HookLockStep(side)
    BY TickAnnounced, HookLocksAnnounced DEF IInv
  <2> QED BY <2>1, <2>2 DEF Announced, VaultLocksStep, HookLockStep
<1> QED BY <1>1, <1>2, GrowthInvariant, PTL DEF Spec, ChangesAnnounced
--------------------------------------------------------------------------------
(* The books of the vault, the compounders and the distributors                      *)

\* A purse whose totals agree, when so much was sent to the vault.
Agrees(p, sent) ==
    /\ p.books.fees["token"] + sent["token"] = p.balance["token"] + p.books.compounded["token"]
    /\ p.books.fees["base"] + sent["base"] = p.balance["base"] + p.books.compounded["base"]
                                              + p.books.bountyPaid + p.books.routedToGenesis
    /\ p.books.routedToGenesis = SumOf(Distributors, p.received)

\* A fee is recorded and held.
LEMMA FeeAgrees ==
  ASSUME NEW p, PurseOK(p), NEW sent \in [Currencies -> Int], Agrees(p, sent),
         NEW c \in Currencies, NEW amount \in Nat
  PROVE  /\ Agrees(WithFee(p, c, amount), sent)
         /\ WithFee(p, c, amount).books.compounded = p.books.compounded
<1> DEFINE fees == [p.books.fees EXCEPT ![c] = @ + amount]
           books2 == [p.books EXCEPT !.fees = fees]
           balance2 == [p.balance EXCEPT ![c] = @ + amount]
           q == [p EXCEPT !.books = books2, !.balance = balance2]
<1>0. p \in PurseType /\ p.books \in BooksType
  BY DEF PurseOK, PurseType
<1>1. /\ fees \in [Currencies -> Int] /\ balance2 \in [Currencies -> Int]
      /\ \A e \in Currencies : fees[e] - p.books.fees[e] = balance2[e] - p.balance[e]
  BY <1>0 DEF BooksType, PurseType
<1>2. WithFee(p, c, amount) = q
  BY <1>0 DEF WithFee, PurseType, BooksType
<1> HIDE DEF fees, balance2
<1>3. /\ books2.fees = fees /\ books2.compounded = p.books.compounded
      /\ books2.bountyPaid = p.books.bountyPaid
      /\ books2.routedToGenesis = p.books.routedToGenesis
  BY <1>0 DEF BooksType
<1> HIDE DEF books2
<1>4. q.books = books2 /\ q.balance = balance2 /\ q.received = p.received
  BY <1>0 DEF PurseType
<1> HIDE DEF q
<1>5. Agrees(q, sent)
  BY <1>0, <1>1, <1>3, <1>4 DEF Agrees, PurseType, BooksType, Currencies
<1> QED BY <1>2, <1>3, <1>4, <1>5

\* What is routed leaves the balance and reaches a distributor.
LEMMA RouteAgrees ==
  ASSUME VaultOK, NEW p, PurseOK(p), NEW sent \in [Currencies -> Int], Agrees(p, sent),
         vault.routeMode \in GenesisModes, NEW amount \in Int
  PROVE  /\ Agrees(RoutedToGenesis(p, amount), sent)
         /\ RoutedToGenesis(p, amount).books.compounded = p.books.compounded
<1> DEFINE d == vault.distributor
           routed == p.books.routedToGenesis + amount
           books2 == [p.books EXCEPT !.routedToGenesis = routed]
           balance2 == [p.balance EXCEPT !["base"] = @ - amount]
           received2 == [p.received EXCEPT ![d] = @ + amount]
           q == [p EXCEPT !.books = books2, !.balance = balance2, !.received = received2]
<1>0. p \in PurseType /\ p.books \in BooksType
  BY DEF PurseOK, PurseType
<1>1. d \in Distributors
  BY DEF VaultOK, VaultType
<1>2. /\ routed = p.books.routedToGenesis + amount
      /\ balance2["base"] = p.balance["base"] - amount /\ balance2["token"] = p.balance["token"]
      /\ p.received \in [Distributors -> Int] /\ received2 \in [Distributors -> Int]
      /\ received2[d] = p.received[d] + amount
      /\ \A e \in Distributors : e # d => received2[e] = p.received[e]
  BY <1>0, <1>1 DEF PurseType, BooksType, Currencies
<1>3. RoutedToGenesis(p, amount) = q
  BY <1>0 DEF RoutedToGenesis, PurseType, BooksType
<1> HIDE DEF d, routed, balance2, received2
<1>4. SumOf(Distributors, received2) = SumOf(Distributors, p.received) + amount
  <2>1. \A e \in Distributors : p.received[e] \in Int
    BY <1>2
  <2>2. \A e \in Distributors : received2[e] \in Int
    BY <1>2
  <2>3. IsFiniteSet(Distributors)
    BY VaultAssumption
  <2>4. SumOf(Distributors, received2)
          = SumOf(Distributors, p.received) + received2[d] - p.received[d]
    BY <1>1, <1>2, <2>1, <2>2, <2>3, SetSumOfUpdate
  <2>5. SumOf(Distributors, p.received) \in Int
    BY <2>1, <2>3, SetSumIsInt
  <2> QED BY <1>1, <1>2, <2>1, <2>4, <2>5
<1>5. /\ books2.fees = p.books.fees /\ books2.compounded = p.books.compounded
      /\ books2.bountyPaid = p.books.bountyPaid /\ books2.routedToGenesis = routed
  BY <1>0 DEF BooksType
<1> HIDE DEF books2
<1>6. q.books = books2 /\ q.balance = balance2 /\ q.received = received2
  BY <1>0 DEF PurseType
<1> HIDE DEF q
<1>7. Agrees(q, sent)
  BY <1>0, <1>2, <1>4, <1>5, <1>6 DEF Agrees, PurseType, BooksType, Currencies
<1> QED BY <1>3, <1>5, <1>6, <1>7

\* What is compounded leaves the balance, bounty and compounder together.
LEMMA CompoundAgrees ==
  ASSUME VaultOK, NEW p, PurseOK(p), NEW sent \in [Currencies -> Int], Agrees(p, sent),
         NEW amount \in [Currencies -> Int]
  PROVE  /\ Agrees(Compounded(p, amount), sent)
         /\ \A c \in Currencies : Compounded(p, amount).books.compounded[c]
                                    = p.books.compounded[c] + ForCompound(amount)[c]
<1> DEFINE bounty == Bounty(amount["base"])
           paid == p.books.bountyPaid + bounty
           compounded == [c \in Currencies |-> p.books.compounded[c] + amount[c]
                                               - (IF c = "base" THEN bounty ELSE 0)]
           books2 == [p.books EXCEPT !.bountyPaid = paid, !.compounded = compounded]
           balance2 == [c \in Currencies |-> p.balance[c] - amount[c]]
           q == [p EXCEPT !.books = books2, !.balance = balance2]
<1>0. p \in PurseType /\ p.books \in BooksType
  BY DEF PurseOK, PurseType
<1>1. bounty \in Int
  <2>1. amount["base"] \in Int /\ vault.keeperBountyBps \in Nat /\ BPS \in Nat \ {0}
    BY BpsAssumption DEF VaultOK, VaultType, Currencies
  <2>2. amount["base"] * vault.keeperBountyBps \in Int
    BY <2>1
  <2> QED BY <2>1, <2>2 DEF Bounty
<1>2. ForCompound(amount) = [amount EXCEPT !["base"] = @ - bounty]
  BY DEF ForCompound
<1>3. Compounded(p, amount) = q
  BY <1>0 DEF Compounded, PurseType, BooksType
<1> HIDE DEF bounty
<1>4. /\ ForCompound(amount)["base"] = amount["base"] - bounty
      /\ ForCompound(amount)["token"] = amount["token"]
      /\ amount["base"] \in Int /\ amount["token"] \in Int
  BY <1>2 DEF Currencies
<1>5. /\ paid = p.books.bountyPaid + bounty
      /\ compounded["token"] = p.books.compounded["token"] + amount["token"]
      /\ compounded["base"] = p.books.compounded["base"] + amount["base"] - bounty
      /\ balance2["token"] = p.balance["token"] - amount["token"]
      /\ balance2["base"] = p.balance["base"] - amount["base"]
  BY <1>0, <1>1, <1>4 DEF PurseType, BooksType, Currencies
<1> HIDE DEF paid, compounded, balance2
<1>6. /\ books2.fees = p.books.fees /\ books2.compounded = compounded
      /\ books2.bountyPaid = paid /\ books2.routedToGenesis = p.books.routedToGenesis
  BY <1>0 DEF BooksType
<1> HIDE DEF books2
<1>7. q.books = books2 /\ q.balance = balance2 /\ q.received = p.received
  BY <1>0 DEF PurseType
<1> HIDE DEF q
<1>8. Agrees(q, sent)
  BY <1>0, <1>1, <1>4, <1>5, <1>6, <1>7 DEF Agrees, PurseType, BooksType, Currencies
<1>9. \A c \in Currencies : q.books.compounded[c] = p.books.compounded[c] + ForCompound(amount)[c]
  BY <1>0, <1>1, <1>4, <1>5, <1>6, <1>7 DEF BooksType, Currencies
<1> QED BY <1>3, <1>8, <1>9

\* The purse that is compounded from agrees, and nothing was compounded on the way to it.
LEMMA FromPurseAgrees ==
  ASSUME VaultOK, NEW sent \in [Currencies -> Int], Agrees(Purse, sent),
         NEW p, FromPurse(p)
  PROVE  Agrees(p, sent) /\ p.books.compounded = books.compounded
<1>1. PurseOK(Purse) /\ Purse.books.compounded = books.compounded
  BY PurseKeeps DEF Purse
<1> QED BY <1>1, RouteAgrees DEF FromPurse

\* What a compounder has of a currency, banked and pooled.
HeldBy(state, c) == state.bank[c] + state.added[c]

\* What compounders hold of a currency together, when they are as cs says.
HeldIn(cs, c) == SumOf(Compounders, [k \in Compounders |-> HeldBy(cs[k], c)])

LEMMA HeldNow ==
  ASSUME NEW c \in Currencies
  PROVE  Held(c) = HeldIn(compounders, c) /\ Held(c)' = HeldIn(compounders', c)
BY DEF Held, HeldIn, HeldBy

\* When one compounder changes, what all of them hold changes by as much.
LEMMA HeldChanges ==
  ASSUME NEW cs \in [Compounders -> CompounderType], NEW k \in Compounders,
         NEW new \in CompounderType, NEW c \in Currencies
  PROVE  /\ HeldIn(cs, c) \in Int
         /\ HeldIn([cs EXCEPT ![k] = new], c) = HeldIn(cs, c) + HeldBy(new, c) - HeldBy(cs[k], c)
<1> DEFINE then == [cs EXCEPT ![k] = new]
           f == [j \in Compounders |-> HeldBy(cs[j], c)]
           g == [j \in Compounders |-> HeldBy(then[j], c)]
<1>1. HeldIn(cs, c) = SumOf(Compounders, f) /\ HeldIn(then, c) = SumOf(Compounders, g)
  BY DEF HeldIn
<1>2. \A j \in Compounders : f[j] \in Int
  BY DEF HeldBy, CompounderType
<1>3. /\ \A j \in Compounders : j # k => g[j] = f[j]
      /\ g[k] = HeldBy(new, c) /\ f[k] = HeldBy(cs[k], c)
  OBVIOUS
<1>4. HeldBy(new, c) \in Int
  BY DEF HeldBy, CompounderType
<1> HIDE DEF f, g
<1>5. \A j \in Compounders : g[j] \in Int
  BY <1>2, <1>3, <1>4
<1>6. IsFiniteSet(Compounders)
  BY CompounderAssumption
<1>7. SumOf(Compounders, g) = SumOf(Compounders, f) + g[k] - f[k]
  BY <1>2, <1>3, <1>5, <1>6, SetSumOfUpdate
<1>8. SumOf(Compounders, f) \in Int
  BY <1>2, <1>6, SetSumIsInt
<1> QED BY <1>1, <1>3, <1>7, <1>8

\* Whatever part of it becomes liquidity, a compounder has what it had and what it pulled.
LEMMA CompounderKeepsWhatItPulls ==
  ASSUME CompoundersOK, NEW k \in Compounders, NEW pulled \in [Currencies -> Int],
         NEW price \in Prices, NEW c \in Currencies
  PROVE  HeldBy(AfterCompound(k, pulled, Limit, price), c) = HeldBy(compounders[k], c) + pulled[c]
<1> DEFINE state == compounders[k]
           held == [e \in {"token", "base"} |-> state.bank[e] + pulled[e]]
           liquidity == LiquidityFor(held, Limit, price)
           used == [e \in {"token", "base"} |-> liquidity * price[e]]
           bank == [e \in {"token", "base"} |-> held[e] - used[e]]
           added == [e \in {"token", "base"} |-> state.added[e] + used[e]]
           total == state.totalLiquidityAdded + liquidity
           id == IF state.positionTokenId = 0 THEN nextTokenId ELSE state.positionTokenId
           banked == [state EXCEPT !.bank = held]
           grown == [state EXCEPT !.bank = bank, !.added = added, !.totalLiquidityAdded = total,
                                  !.positionTokenId = id]
<1>1. state \in CompounderType /\ Limit \in [Currencies -> Nat]
      /\ price \in [Currencies -> Nat \ {0}] /\ c \in {"token", "base"}
  BY SystemAssumption DEF CompoundersOK, Currencies
<1>2. held \in [Currencies -> Int] /\ held[c] = state.bank[c] + pulled[c]
  BY <1>1 DEF CompounderType, Currencies
<1>3. AfterCompound(k, pulled, Limit, price) = IF liquidity = 0 THEN banked ELSE grown
  BY <1>1, Zenon DEF AfterCompound, CompounderType
<1> HIDE DEF held
<1>4. liquidity \in Int
  <2> DEFINE units(e) == Smaller(held[e], Limit[e]) \div price[e]
  <2>1. \A e \in Currencies : units(e) \in Int
    <3> TAKE e \in Currencies
    <3>1. Smaller(held[e], Limit[e]) \in Int /\ price[e] \in Nat \ {0}
      BY <1>1, <1>2 DEF Smaller
    <3> QED BY <3>1
  <2>2. liquidity = Smaller(units("token"), units("base"))
    BY DEF LiquidityFor
  <2> HIDE DEF units, liquidity
  <2> QED BY <2>1, <2>2 DEF Smaller, Currencies
<1> HIDE DEF liquidity
<1>5. used[c] \in Int
  BY <1>1, <1>4
<1> HIDE DEF used
<1>6. bank[c] = held[c] - used[c] /\ added[c] = state.added[c] + used[c]
  BY <1>1
<1> HIDE DEF bank, added, total, id, state
<1>7. /\ banked.bank = held /\ banked.added = state.added
      /\ grown.bank = bank /\ grown.added = added
  BY <1>1 DEF CompounderType
<1> HIDE DEF banked, grown
<1>8. state.bank[c] \in Int /\ state.added[c] \in Int /\ pulled[c] \in Int /\ held[c] \in Int
  BY <1>1, <1>2 DEF CompounderType
<1>9. CASE liquidity = 0
  BY <1>2, <1>3, <1>7, <1>8, <1>9 DEF HeldBy, state
<1>10. CASE liquidity # 0
  <2>1. HeldBy(AfterCompound(k, pulled, Limit, price), c) = bank[c] + added[c]
    BY <1>3, <1>7, <1>10 DEF HeldBy
  <2> QED BY <1>2, <1>5, <1>6, <1>8, <2>1 DEF HeldBy, state
<1> QED BY <1>9, <1>10

\* What was compounded or sent is with the compounders, or was taken out by a recovery.
BanksAgree(compounded) ==
    \A c \in Currencies : compounded[c] + given[c] = Held(c) + removed.bank[c]

\* What a recovery takes out of a bank has left, and has come again if it leads to one.
LEMMA ExecutionAgrees ==
  ASSUME CompoundersOK, NEW k \in Compounders, NEW p \in compounders[k].recovery,
         ExecuteRecovery(k, p), removed.bank \in [Currencies -> Int], given \in [Currencies -> Int]
  PROVE  /\ removed'.bank \in [Currencies -> Int] /\ given' \in [Currencies -> Int]
         /\ \A c \in Currencies : Held(c)' + removed'.bank[c] - given'[c]
                                    = Held(c) + removed.bank[c] - given[c]
<1> DEFINE moved == Recovered(k, p)
           left == Left(k, p)
           to == p.target.to
           more == WithBank(compounders[to], moved)
           once == [compounders EXCEPT ![k] = left]
           twice == [once EXCEPT ![to] = more]
<1>1. moved \in [Currencies -> Int]
  BY RecoveredIsInt
<1>2. /\ compounders \in [Compounders -> CompounderType] /\ compounders[k] \in CompounderType
      /\ to # k
  BY DEF CompoundersOK
<1>3. /\ left \in CompounderType /\ left.added = compounders[k].added
      /\ \A c \in Currencies : left.bank[c] = compounders[k].bank[c] - moved[c]
  BY LeftKeeps
<1>4. to \in Compounders =>
         /\ more \in CompounderType /\ more.added = compounders[to].added
         /\ \A c \in Currencies : more.bank[c] = compounders[to].bank[c] + moved[c]
  BY <1>1, <1>2, WithBankKeeps
<1>5. /\ compounders' = [j \in Compounders |-> IF j = k THEN left
                              ELSE IF j = to THEN WithBank(compounders[j], moved)
                              ELSE compounders[j]]
      /\ removed'.bank = [c \in {"token", "base"} |-> removed.bank[c] + moved[c]]
      /\ given' = [c \in {"token", "base"} |->
                      given[c] + (IF to \in Compounders THEN moved[c] ELSE 0)]
  BY DEF ExecuteRecovery
<1>6. compounders' = IF to \in Compounders THEN twice ELSE once
  BY <1>2, <1>5
<1> HIDE DEF moved, left, to, more
<1>7. once \in [Compounders -> CompounderType] /\ (to # k => once[to] = compounders[to])
  BY <1>2, <1>3
<1>8. /\ removed'.bank \in [Currencies -> Int] /\ given' \in [Currencies -> Int]
      /\ \A c \in Currencies : removed'.bank[c] = removed.bank[c] + moved[c]
      /\ \A c \in Currencies : given'[c] = given[c] + (IF to \in Compounders THEN moved[c] ELSE 0)
  BY <1>1, <1>5 DEF Currencies
<1>9. ASSUME NEW c \in Currencies
      PROVE  Held(c)' + removed'.bank[c] - given'[c] = Held(c) + removed.bank[c] - given[c]
  <2>1. /\ HeldBy(left, c) = HeldBy(compounders[k], c) - moved[c]
        /\ HeldBy(compounders[k], c) \in Int /\ moved[c] \in Int
    BY <1>1, <1>2, <1>3 DEF HeldBy, CompounderType
  <2>2. /\ HeldIn(compounders, c) \in Int
        /\ HeldIn(once, c) = HeldIn(compounders, c) + HeldBy(left, c) - HeldBy(compounders[k], c)
    BY <1>2, <1>3, HeldChanges
  <2>3. HeldIn(once, c) = Held(c) - moved[c] /\ Held(c) \in Int
    BY <2>1, <2>2, HeldNow
  <2>4. removed.bank[c] \in Int /\ given[c] \in Int
    OBVIOUS
  <2>5. CASE to \in Compounders
    <3>1. /\ HeldBy(more, c) = HeldBy(compounders[to], c) + moved[c]
          /\ HeldBy(compounders[to], c) \in Int
      BY <1>2, <1>4, <2>1, <2>5 DEF HeldBy, CompounderType
    <3>2. HeldIn(twice, c) = HeldIn(once, c) + HeldBy(more, c) - HeldBy(once[to], c)
      BY <1>4, <1>7, <2>5, HeldChanges
    <3>3. HeldBy(once[to], c) = HeldBy(compounders[to], c)
      BY <1>2, <1>7
    <3>4. Held(c)' = HeldIn(twice, c)
      BY <1>6, <2>5, HeldNow
    <3> HIDE DEF once, twice
    <3>5. Held(c)' = Held(c)
      BY <2>1, <2>3, <3>1, <3>2, <3>3, <3>4
    <3> QED BY <1>8, <2>1, <2>3, <2>4, <2>5, <3>5
  <2>6. CASE to \notin Compounders
    <3>1. Held(c)' = HeldIn(once, c)
      BY <1>6, <2>6, HeldNow
    <3> HIDE DEF once
    <3> QED BY <1>8, <2>1, <2>3, <2>4, <2>6, <3>1
  <2> QED BY <2>5, <2>6
<1> QED BY <1>8, <1>9

\* A transfer to a compounder is banked.
LEMMA GiveAgrees ==
  ASSUME CompoundersOK, NEW k \in Compounders, NEW amounts \in [Currencies -> Int],
         Give(k, amounts), given \in [Currencies -> Int]
  PROVE  /\ given' \in [Currencies -> Int] /\ removed' = removed
         /\ \A c \in Currencies : /\ given'[c] = given[c] + amounts[c]
                                  /\ Held(c) \in Int /\ Held(c)' = Held(c) + amounts[c]
<1> DEFINE new == WithBank(compounders[k], amounts)
<1>1. compounders \in [Compounders -> CompounderType] /\ compounders[k] \in CompounderType
  BY DEF CompoundersOK
<1>2. /\ compounders' = [compounders EXCEPT ![k] = new] /\ removed' = removed
      /\ given' = [c \in Currencies |-> given[c] + amounts[c]]
  BY <1>1 DEF Give, Currencies
<1>3. /\ new \in CompounderType /\ new.added = compounders[k].added
      /\ \A c \in Currencies : new.bank[c] = compounders[k].bank[c] + amounts[c]
  BY <1>1, WithBankKeeps
<1> HIDE DEF new
<1>4. ASSUME NEW c \in Currencies
      PROVE  Held(c) \in Int /\ Held(c)' = Held(c) + amounts[c]
  <2>1. /\ HeldBy(new, c) = HeldBy(compounders[k], c) + amounts[c]
        /\ HeldBy(compounders[k], c) \in Int /\ amounts[c] \in Int
    BY <1>1, <1>3 DEF HeldBy, CompounderType
  <2>2. /\ HeldIn(compounders, c) \in Int
        /\ HeldIn(compounders', c) = HeldIn(compounders, c) + HeldBy(new, c) - HeldBy(compounders[k], c)
    BY <1>1, <1>2, <1>3, HeldChanges
  <2> QED BY <2>1, <2>2, HeldNow
<1> QED BY <1>2, <1>4

\* The books agree, and what they are made of are amounts: with IInv, inductive.
BooksInv ==
    /\ donated \in [Currencies -> Int]
    /\ removed.bank \in [Currencies -> Int]
    /\ given \in [Currencies -> Int]
    /\ Agrees(Purse, donated)
    /\ BanksAgree(books.compounded)

\* It says what BooksBalance says.
LEMMA BooksInvIsBalance ==
  ASSUME BooksInv
  PROVE  BooksBalance
BY DEF BooksInv, BooksBalance, Agrees, BanksAgree, Purse, Arrived

\* Without a step of a compounder, compounders hold what they held.
LEMMA BanksRest ==
  ASSUME BooksInv, UNCHANGED <<compounders, removed, given, books.compounded>>
  PROVE  /\ BanksAgree(books.compounded)'
         /\ removed'.bank \in [Currencies -> Int] /\ given' \in [Currencies -> Int]
<1>1. \A c \in Currencies : Held(c)' = Held(c)
  BY DEF Held
<1> QED BY <1>1 DEF BooksInv, BanksAgree

\* The purse a call leaves is the vault's purse after it.
LEMMA PurseAfter ==
  ASSUME NEW p, BecomePurse(p), Agrees(p, donated), donated' = donated,
         donated \in [Currencies -> Int]
  PROVE  Agrees(Purse, donated)' /\ donated' \in [Currencies -> Int]
BY DEF BecomePurse, Agrees, Purse

\* What a compound takes out of the purse is what the compounder in force has gained.
LEMMA CompoundKeepsBooks ==
  ASSUME VaultOK, CompoundersOK, BooksInv,
         NEW p, PurseOK(p), FromPurse(p), NEW amount \in [Currencies -> Int],
         NEW minLiquidity, NEW price \in Prices, CompoundUnchecked(p, amount, minLiquidity, price),
         donated' = donated
  PROVE  BooksInv'
<1> DEFINE k == vault.compounder
           q == Compounded(p, amount)
           pulled == ForCompound(amount)
           new == AfterCompound(k, pulled, Limit, price)
<1>1. k \in Compounders
  BY DEF CompoundUnchecked, MayCompound, VaultOK, VaultType
<1>2. pulled \in [Currencies -> Int]
  BY CompoundKeepsPurse
<1>3. donated \in [Currencies -> Int] /\ Agrees(Purse, donated) /\ removed.bank \in [Currencies -> Int]
      /\ books.compounded \in [Currencies -> Int] /\ given \in [Currencies -> Int]
  BY DEF BooksInv, VaultOK, BooksType
<1>4. Agrees(p, donated) /\ p.books.compounded = books.compounded
  BY <1>3, FromPurseAgrees
<1>5. /\ Agrees(q, donated)
      /\ \A c \in Currencies : q.books.compounded[c] = p.books.compounded[c] + pulled[c]
  BY <1>3, <1>4, CompoundAgrees
<1>6. /\ BecomePurse(q) /\ removed' = removed /\ given' = given
      /\ compounders' = [compounders EXCEPT ![k] = new]
  BY DEF CompoundUnchecked, CompoundInto
<1>7. new \in CompounderType
  BY <1>1, <1>2, AfterCompoundKeeps
<1>8. compounders \in [Compounders -> CompounderType] /\ compounders[k] \in CompounderType
  BY <1>1 DEF CompoundersOK
<1>9. Agrees(Purse, donated)' /\ donated' \in [Currencies -> Int]
  BY <1>3, <1>5, <1>6, PurseAfter
<1>10. books'.compounded = q.books.compounded
  BY <1>6 DEF BecomePurse
<1>11. ASSUME NEW c \in Currencies
       PROVE  books'.compounded[c] + given'[c] = Held(c)' + removed'.bank[c]
  <2>1. HeldBy(new, c) = HeldBy(compounders[k], c) + pulled[c]
    BY <1>1, <1>2, CompounderKeepsWhatItPulls
  <2>2. HeldBy(compounders[k], c) \in Int /\ HeldBy(new, c) \in Int /\ pulled[c] \in Int
    BY <1>2, <1>7, <1>8 DEF HeldBy, CompounderType
  <2> HIDE DEF new, pulled, k, q
  <2>3. Held(c) \in Int /\ Held(c)' = Held(c) + HeldBy(new, c) - HeldBy(compounders[k], c)
    BY <1>1, <1>6, <1>7, <1>8, HeldChanges, HeldNow
  <2>4. books.compounded[c] + given[c] = Held(c) + removed.bank[c]
    BY DEF BooksInv, BanksAgree
  <2>5. books'.compounded[c] = books.compounded[c] + pulled[c]
    BY <1>4, <1>5, <1>10
  <2>6. /\ removed'.bank[c] = removed.bank[c] /\ removed.bank[c] \in Int
        /\ given'[c] = given[c] /\ given[c] \in Int /\ books.compounded[c] \in Int
    BY <1>3, <1>6
  <2> QED BY <2>1, <2>2, <2>3, <2>4, <2>5, <2>6
<1> QED BY <1>3, <1>6, <1>9, <1>11 DEF BooksInv, BanksAgree

\* The books keep agreeing in every step.
LEMMA BooksStep ==
  ASSUME IInv, BooksInv, [Next]_vars
  PROVE  BooksInv'
<1> USE DEF IInv
<1>1. donated \in [Currencies -> Int] /\ Agrees(Purse, donated)
      /\ removed.bank \in [Currencies -> Int] /\ given \in [Currencies -> Int]
  BY DEF BooksInv
<1>2. ASSUME UNCHANGED <<vaultVars, compounderVars, donated>>
      PROVE  BooksInv'
  <2>1. BecomePurse(Purse) /\ UNCHANGED <<compounders, removed, given, books.compounded>>
    BY <1>2 DEF BecomePurse, Purse, vaultVars, compounderVars
  <2> QED BY <1>1, <1>2, <2>1, PurseAfter, BanksRest DEF BooksInv
<1>3. CASE HookGovernance \/ Tick \/ OffChain \/ UNCHANGED vars
  BY <1>2, <1>3, OffChainRests DEF HookGovernance, Tick, vars
<1>4. CASE VaultGovernance
  <2>1. UNCHANGED <<compounders, removed, given, donated>>
    BY <1>4 DEF VaultGovernance, compounderVars
  <2>2. CASE \E amount \in Distributable : RouteBaseToGenesis(amount)
    <3>1. PICK amount \in Distributable : RouteBaseToGenesis(amount)
      BY <2>2
    <3>2. amount \in Int /\ vault.routeMode \in GenesisModes
      BY <3>1 DEF RouteBaseToGenesis, GenesisModes, VaultOK, Currencies
    <3> DEFINE p == RoutedToGenesis(Purse, amount)
    <3>3. Agrees(p, donated) /\ p.books.compounded = books.compounded
      BY <1>1, <3>2, FromPurseAgrees DEF FromPurse
    <3>4. BecomePurse(p)
      BY <3>1 DEF RouteBaseToGenesis
    <3> HIDE DEF p
    <3>5. books'.compounded = books.compounded
      BY <3>3, <3>4 DEF BecomePurse
    <3> QED BY <1>1, <2>1, <3>3, <3>4, <3>5, PurseAfter, BanksRest DEF BooksInv
  <2>3. CASE ~ \E amount \in Distributable : RouteBaseToGenesis(amount)
    <3>1. UNCHANGED <<books, balance, received>>
      BY <1>4, <2>3 DEF VaultGovernance, SetHook, CompounderGovernance, DistributorGovernance,
         SetCompoundKeeper, SetRouteMode, SetKeeperBounty, SetSplitGenesisShare, SetCompounder,
         ProposeCompounder, CancelCompounderProposal, ExecuteCompounder, FreezeCompounder,
         SetGenesisRewardDistributor, ProposeGenesisRewardDistributor,
         CancelGenesisRewardDistributorProposal, ExecuteGenesisRewardDistributor,
         FreezeGenesisRewardDistributor
    <3>2. BecomePurse(Purse) /\ UNCHANGED <<compounders, removed, given, books.compounded>>
      BY <2>1, <3>1 DEF BecomePurse, Purse
    <3> QED BY <1>1, <2>1, <3>2, PurseAfter, BanksRest DEF BooksInv
  <2> QED BY <2>2, <2>3
<1>5. ASSUME NEW more \in [Currencies -> Int], UNCHANGED <<books, received>>,
             balance' = [c \in Currencies |-> balance[c] + more[c]],
             donated' = [c \in Currencies |-> donated[c] + more[c]]
      PROVE  Agrees(Purse, donated)' /\ donated' \in [Currencies -> Int]
  <2>1. balance \in [Currencies -> Int] /\ books \in BooksType
    BY DEF VaultOK
  <2> QED BY <1>1, <1>5, <2>1 DEF Agrees, Purse, Currencies, BooksType
<1>6. CASE \E side \in Sides, amount \in SwapAmounts : Swap(side, amount)
  <2>1. PICK side \in Sides, amount \in SwapAmounts : Swap(side, amount)
    BY <1>6
  <2> DEFINE fee == FeeAmount(side, amount)
             c == InputCurrency(side)
             p == WithFee(Purse, c, fee)
  <2>2. fee \in Nat
    BY SystemAssumption, SwapPaysTheDifference
  <2>3. c \in Currencies
    BY DEF InputCurrency, Currencies
  <2>4. BecomePurse(p) /\ UNCHANGED <<compounders, removed, given, donated>>
    BY <2>1 DEF Swap, compounderVars
  <2> HIDE DEF fee, c
  <2>5. PurseOK(Purse) /\ Purse.books.compounded = books.compounded
    BY PurseKeeps DEF Purse
  <2>6. Agrees(p, donated) /\ p.books.compounded = books.compounded
    BY <1>1, <2>2, <2>3, <2>5, FeeAgrees
  <2> HIDE DEF p
  <2>7. books'.compounded = books.compounded
    BY <2>4, <2>6 DEF BecomePurse
  <2> QED BY <1>1, <2>4, <2>6, <2>7, PurseAfter, BanksRest DEF BooksInv
<1>7. CASE \/ \E amount \in Amounts, price \in Prices : Compound(amount, price)
           \/ \E price \in Prices : ProcessGenesisSplitAll(price)
           \/ \E tx \in txs, price \in Prices : Land(tx, price)
  <2>1. PICK p, amount, minLiquidity, price :
            /\ amount \in [Currencies -> Int] /\ price \in Prices
            /\ PurseOK(p) /\ p.books.fees = books.fees /\ FromPurse(p)
            /\ CompoundUnchecked(p, amount, minLiquidity, price)
            /\ UNCHANGED <<now, hookVars, donated>>
    BY <1>7, CompoundCalls, Zenon
  <2> QED BY <2>1, CompoundKeepsBooks
<1>8. CASE Donation
  <2>1. PICK c \in Currencies, amount \in Donations :
           \/ /\ Donate(c, amount) /\ donated' = [donated EXCEPT ![c] = @ + amount]
              /\ UNCHANGED compounderVars
           \/ /\ \E k \in Compounders :
                    Give(k, [e \in Currencies |-> IF e = c THEN amount ELSE 0])
              /\ UNCHANGED <<vaultVars, donated>>
    BY <1>8 DEF Donation
  <2> DEFINE amounts == [e \in Currencies |-> IF e = c THEN amount ELSE 0]
  <2>2. amount \in Int /\ amounts \in [Currencies -> Int]
    BY SystemAssumption
  <2>3. CASE Donate(c, amount) /\ donated' = [donated EXCEPT ![c] = @ + amount]
             /\ UNCHANGED compounderVars
    <3>1. UNCHANGED <<compounders, removed, given, books, received>>
      BY <2>3 DEF Donate, compounderVars
    <3>2. balance \in [Currencies -> Int]
      BY DEF VaultOK
    <3>3. balance' = [balance EXCEPT ![c] = @ + amount] /\ donated' = [donated EXCEPT ![c] = @ + amount]
      BY <2>3 DEF Donate
    <3>4. \A e \in Currencies : /\ balance'[e] = balance[e] + amounts[e]
                                /\ donated'[e] = donated[e] + amounts[e]
      BY <1>1, <2>2, <3>2, <3>3
    <3> HIDE DEF amounts
    <3>5. /\ balance' = [e \in Currencies |-> balance[e] + amounts[e]]
          /\ donated' = [e \in Currencies |-> donated[e] + amounts[e]]
      BY <1>1, <3>2, <3>3, <3>4
    <3>6. Agrees(Purse, donated)' /\ donated' \in [Currencies -> Int]
      BY <1>5, <2>2, <3>1, <3>5
    <3> QED BY <3>1, <3>6, BanksRest DEF BooksInv
  <2>4. CASE (\E k \in Compounders : Give(k, amounts)) /\ UNCHANGED <<vaultVars, donated>>
    <3>1. PICK k \in Compounders : Give(k, amounts)
      BY <2>4
    <3>2. BecomePurse(Purse) /\ books' = books /\ donated' = donated
      BY <2>4 DEF BecomePurse, Purse, vaultVars
    <3>3. Agrees(Purse, donated)' /\ donated' \in [Currencies -> Int]
      BY <1>1, <3>2, PurseAfter
    <3> HIDE DEF amounts
    <3>4. /\ given' \in [Currencies -> Int] /\ removed' = removed
          /\ \A e \in Currencies : /\ given'[e] = given[e] + amounts[e]
                                   /\ Held(e) \in Int /\ Held(e)' = Held(e) + amounts[e]
      BY <1>1, <2>2, <3>1, GiveAgrees
    <3>5. BanksAgree(books.compounded)'
      <4>1. \A e \in Currencies : /\ books.compounded[e] \in Int /\ given[e] \in Int
                                  /\ amounts[e] \in Int /\ removed.bank[e] \in Int
                                  /\ books.compounded[e] + given[e] = Held(e) + removed.bank[e]
        BY <1>1, <2>2 DEF BooksInv, BanksAgree, VaultOK, BooksType
      <4>2. ASSUME NEW e \in Currencies
            PROVE  books'.compounded[e] + given'[e] = Held(e)' + removed'.bank[e]
        <5>1. /\ books'.compounded[e] = books.compounded[e] /\ removed'.bank[e] = removed.bank[e]
              /\ given'[e] = given[e] + amounts[e]
              /\ Held(e) \in Int /\ Held(e)' = Held(e) + amounts[e]
          BY <3>2, <3>4
        <5> DEFINE h == Held(e)
                   then == Held(e)'
        <5>2. /\ books.compounded[e] \in Int /\ given[e] \in Int /\ amounts[e] \in Int
              /\ removed.bank[e] \in Int /\ books.compounded[e] + given[e] = h + removed.bank[e]
          BY <4>1
        <5>3. h \in Int /\ then = h + amounts[e]
          BY <5>1
        <5> HIDE DEF h, then
        <5>4. books'.compounded[e] + given'[e] = then + removed'.bank[e]
          BY <5>1, <5>2, <5>3
        <5> QED BY <5>4 DEF then
      <4> QED BY <4>2 DEF BanksAgree
    <3> QED BY <1>1, <3>3, <3>4, <3>5 DEF BooksInv
  <2> QED BY <2>1, <2>3, <2>4
<1>9. CASE Recovery
  <2>1. PICK k \in Compounders :
           \/ /\ \/ \E kind \in RecoveryKinds, to \in Recipients : ProposeRecovery(k, kind, to)
                 \/ CancelRecovery(k)
              /\ UNCHANGED <<vaultVars, donated>>
           \/ \E p \in compounders[k].recovery : RecoverTo(k, p)
    BY <1>9, Zenon DEF Recovery
  <2>2. CASE /\ \/ \E kind \in RecoveryKinds, to \in Recipients : ProposeRecovery(k, kind, to)
                \/ CancelRecovery(k)
             /\ UNCHANGED <<vaultVars, donated>>
    <3>1. (\A c \in Currencies : Held(c)' = Held(c)) /\ UNCHANGED <<removed, given>>
      BY <2>2, AnnouncementKeeps
    <3>2. BecomePurse(Purse) /\ books' = books /\ donated' = donated
      BY <2>2 DEF BecomePurse, Purse, vaultVars
    <3>3. Agrees(Purse, donated)' /\ donated' \in [Currencies -> Int]
      BY <1>1, <3>2, PurseAfter
    <3>4. BanksAgree(books.compounded)'
      BY <3>1, <3>2 DEF BooksInv, BanksAgree
    <3> QED BY <1>1, <3>1, <3>3, <3>4 DEF BooksInv
  <2>3. CASE \E p \in compounders[k].recovery : RecoverTo(k, p)
    <3>1. PICK p \in compounders[k].recovery : RecoverTo(k, p)
      BY <2>3
    <3> DEFINE back == [c \in Currencies |-> IF p.target.to = Vault THEN Recovered(k, p)[c] ELSE 0]
    <3>2. back \in [Currencies -> Int]
      BY RecoveredIsInt
    <3>3. /\ UNCHANGED <<books, received>> /\ ExecuteRecovery(k, p)
          /\ balance' = [c \in Currencies |-> balance[c] + back[c]]
          /\ donated' = [c \in Currencies |-> donated[c] + back[c]]
      BY <3>1 DEF RecoverTo
    <3> HIDE DEF back
    <3>4. Agrees(Purse, donated)' /\ donated' \in [Currencies -> Int]
      BY <1>5, <3>2, <3>3
    <3>5. /\ removed'.bank \in [Currencies -> Int] /\ given' \in [Currencies -> Int]
          /\ \A c \in Currencies : Held(c)' + removed'.bank[c] - given'[c]
                                     = Held(c) + removed.bank[c] - given[c]
      BY <1>1, <3>3, ExecutionAgrees
    <3>6. \A c \in Currencies : Held(c) \in Int /\ Held(c)' \in Int
      BY CompoundersStep, HeldNow, HeldChanges DEF CompoundersOK
    <3>7. BanksAgree(books.compounded)'
      <4>1. \A c \in Currencies : /\ books.compounded[c] \in Int /\ given[c] \in Int
                                  /\ given'[c] \in Int /\ removed.bank[c] \in Int
                                  /\ removed'.bank[c] \in Int
                                  /\ books.compounded[c] + given[c] = Held(c) + removed.bank[c]
        BY <1>1, <3>5 DEF BooksInv, BanksAgree, VaultOK, BooksType
      <4>2. ASSUME NEW c \in Currencies
            PROVE  books.compounded[c] + given'[c] = Held(c)' + removed'.bank[c]
        <5> DEFINE h == Held(c)
                   then == Held(c)'
        <5>1. then + removed'.bank[c] - given'[c] = h + removed.bank[c] - given[c]
          BY <3>5
        <5>2. h \in Int /\ then \in Int
          BY <3>6
        <5>3. /\ books.compounded[c] \in Int /\ given[c] \in Int /\ given'[c] \in Int
              /\ removed.bank[c] \in Int /\ removed'.bank[c] \in Int
              /\ books.compounded[c] + given[c] = h + removed.bank[c]
          BY <4>1
        <5> HIDE DEF h, then
        <5>4. books.compounded[c] + given'[c] = then + removed'.bank[c]
          BY <5>1, <5>2, <5>3
        <5> QED BY <5>4 DEF then
      <4> QED BY <3>3, <4>2 DEF BanksAgree
    <3> QED BY <3>4, <3>5, <3>7 DEF BooksInv
  <2> QED BY <2>1, <2>2, <2>3
<1> QED BY <1>3, <1>4, <1>6, <1>7, <1>8, <1>9, NextSteps

\* Every token that came to the vault is held, compounded, paid as a bounty or routed, and
\* every token that came to a compounder, in whatever way, is banked, pooled or recovered:
\* for any number of compounders and distributors, whatever fails or is sent unasked in
\* between, and wherever recoveries lead, to another compounder or back to the vault.
THEOREM BooksAlwaysBalance == Spec => []BooksBalance
<1>1. Init => BooksInv
  <2> SUFFICES ASSUME Init PROVE BooksInv
    OBVIOUS
  <2> USE DEF Init, VaultInit, CompounderInit, Currencies
  <2>1. SumOf(Distributors, received) = 0
    BY VaultAssumption, SetSumOfZeros
  <2>2. \A c \in Currencies : Held(c) = 0 /\ given[c] = 0
    <3> TAKE c \in Currencies
    <3> DEFINE f == [k \in Compounders |-> compounders[k].bank[c] + compounders[k].added[c]]
    <3>1. \A k \in Compounders : f[k] = 0
      OBVIOUS
    <3>2. Held(c) = SumOf(Compounders, f)
      BY DEF Held
    <3> HIDE DEF f
    <3> QED BY <3>1, <3>2, CompounderAssumption, SetSumOfZeros
  <2>3. Agrees(Purse, donated)
    BY <2>1 DEF Agrees, Purse
  <2>4. BanksAgree(books.compounded)
    BY <2>2 DEF BanksAgree
  <2> QED BY <2>3, <2>4 DEF BooksInv
<1>2. IInv /\ BooksInv /\ [Next]_vars => BooksInv'
  BY BooksStep
<1>3. BooksInv => BooksBalance
  BY BooksInvIsBalance
<1> QED BY <1>1, <1>2, <1>3, GrowthInvariant, PTL DEF Spec
================================================================================
