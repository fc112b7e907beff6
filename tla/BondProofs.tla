------------------------------ MODULE BondProofs ------------------------------
(* For every number of markets, every terms and every quote: what leaves the bond vault
   stays within the announced budget, signed quotes are honoured or die, and a
   depository's ETH is accounted for.                                                 *)
EXTENDS BondProperties, PrefixSumProofs, TLAPS

Delayed(T) == SUBSET [target : T, eta : Nat]

VaultType ==
    [nara : BOOLEAN, market : Markets \cup {None}, previousMarket : Markets \cup {None},
     pendingMarket : Delayed(Markets), activeReleaseCap : Nat, pendingCap : Delayed(Nat),
     totalReleased : Nat, totalReturned : Nat]

DepotType ==
    [terms : Terms, termsActivatedAt : Nat, pendingTerms : Delayed(Terms),
     treasury : Treasuries, pendingTreasury : Delayed(Treasuries), paused : BOOLEAN,
     totalBondedEth : Nat, pendingRewardEth : Nat, pendingTreasuryEth : Nat,
     quoteNonces : [Buyers -> Nat]]

QuoteType ==
    [market : Depositories, buyer : Buyers, ethIn : Nat, minPayout : Nat, maxPayout : Nat,
     deadline : Nat, nonce : Nat, termsActivatedAt : Nat, sheet : Terms]

BondType == [quote : QuoteType, at : Nat, sheet : Terms, payout : Nat, gross : Nat, locked : Int]

--------------------------------------------------------------------------------
(* The inductive invariant, by the part of the state it is about                     *)

\* What is out, the cap in force and a cap that is announced stay in this order.
VaultOK ==
    /\ now \in Nat /\ inventory \in Nat
    /\ vault \in VaultType
    /\ parked \in [Markets -> Nat]
    /\ NetReleased <= vault.activeReleaseCap
    /\ vault.activeReleaseCap <= InitialAllocation
    /\ \A p \in vault.pendingCap : p.target <= InitialAllocation

\* Announced terms come into force later than those in force did, so that the time of
\* activation tells two sheets apart.
DepotOK ==
    /\ depot \in [Depositories -> DepotType]
    /\ \A m \in Depositories :
          /\ depot[m].termsActivatedAt <= now
          /\ \A p \in depot[m].pendingTerms : depot[m].termsActivatedAt < p.eta

EthOK ==
    /\ eth \in [Depositories -> Nat]
    /\ sent \in [Depositories -> [engine : Nat, treasury : Nat]]
    /\ EthAccounted

\* A quote for the activation in force is about the terms in force.
QuotesOK ==
    /\ quotes \subseteq QuoteType
    /\ \A q \in quotes :
          /\ q.termsActivatedAt <= depot[q.market].termsActivatedAt
          /\ q.termsActivatedAt = depot[q.market].termsActivatedAt
             => q.sheet = Sheet(depot[q.market].terms)

\* A bond has used up the nonce of its quote.
BondsOK ==
    /\ lockFee \in [bps : 0 .. BPS - 1, wei : Nat]
    /\ bonds \in Seq(BondType)
    /\ \A i \in DOMAIN bonds :
          bonds[i].quote.nonce < depot[bonds[i].quote.market].quoteNonces[bonds[i].quote.buyer]
    /\ QuotesHonoured

SoldOK == Sold = vault.totalReleased

IInv == VaultOK /\ DepotOK /\ EthOK /\ QuotesOK /\ BondsOK /\ SoldOK

--------------------------------------------------------------------------------
(* The vault                                                                         *)

\* Governance moves no NARA, and keeps the three amounts in order: a cap is compared
\* with what is out at the time it comes into force.
LEMMA VaultGovernanceKeeps ==
  ASSUME VaultOK, VaultGovernance
  PROVE  VaultOK' /\ vault'.totalReleased = vault.totalReleased
<1> USE BondVaultAssumption, DepositoryAssumption DEF VaultOK, VaultType, Delayed, OnlyVault,
        OnlyVaultMoves, NetReleased
<1>1. CASE SetNara
  BY <1>1 DEF SetNara, VaultGovernance
<1>2. CASE \E m \in Markets : ProposeMarket(m)
  BY <1>2 DEF ProposeMarket, Announced, VaultGovernance
<1>3. CASE ExecuteMarketChange
  BY <1>3 DEF ExecuteMarketChange, Ready, VaultGovernance
<1>4. CASE CancelMarketChange
  BY <1>4 DEF CancelMarketChange, VaultGovernance
<1>5. CASE ClearPreviousMarket
  BY <1>5 DEF ClearPreviousMarket, VaultGovernance
<1>6. CASE ForceClearPreviousMarket
  BY <1>6 DEF ForceClearPreviousMarket, VaultGovernance
<1>7. CASE \E cap \in Caps : ProposeReleaseCap(cap)
  BY <1>7 DEF ProposeReleaseCap, Announced, VaultGovernance
<1>8. CASE ExecuteReleaseCapChange
  BY <1>8 DEF ExecuteReleaseCapChange, CapAllowed, Ready, VaultGovernance
<1>9. CASE CancelReleaseCapChange
  BY <1>9 DEF CancelReleaseCapChange, VaultGovernance
<1> QED BY <1>1, <1>2, <1>3, <1>4, <1>5, <1>6, <1>7, <1>8, <1>9 DEF VaultGovernance

\* Gifts only add.
LEMMA DonationKeeps ==
  ASSUME VaultOK, Donation
  PROVE  VaultOK' /\ vault' = vault
<1> USE BondVaultAssumption, DepositoryAssumption DEF VaultOK, NetReleased, OnlyVaultMoves
<1>1. PICK amount \in Gifts : FundVault(amount) \/ \E m \in Markets : SendToMarket(m, amount)
  BY DEF Donation
<1>2. now' = now
  BY DEF Donation
<1>3. CASE FundVault(amount)
  BY <1>1, <1>2, <1>3 DEF FundVault
<1>4. CASE \E m \in Markets : SendToMarket(m, amount)
  BY <1>1, <1>2, <1>4 DEF SendToMarket
<1> QED BY <1>1, <1>3, <1>4

\* What comes back makes room under the cap.
LEMMA ReturnKeeps ==
  ASSUME VaultOK, ReturnExcessToVault
  PROVE  VaultOK' /\ vault'.totalReleased = vault.totalReleased
<1> USE DEF VaultOK, VaultType, Delayed, NetReleased, OnlyVaultMoves
<1>1. PICK m \in Markets : ReturnUnsold(m)
  BY DEF ReturnExcessToVault
<1>2. now' = now
  BY DEF ReturnExcessToVault
<1>3. parked[m] \in Nat
  BY <1>1
<1> QED BY <1>1, <1>2, <1>3 DEF ReturnUnsold

\* A market pulls no more than the cap leaves.
LEMMA PullKeeps ==
  ASSUME VaultOK, NEW m, NEW amount \in Nat, PullAndSpend(m, amount), now' = now
  PROVE  VaultOK' /\ vault'.totalReleased = vault.totalReleased + amount
<1>1. amount <= vault.activeReleaseCap - NetReleased /\ amount <= inventory
  BY DEF PullAndSpend, CanPull, AvailableToPull, BondInventory, VaultOK, VaultType, NetReleased
<1> QED BY <1>1 DEF PullAndSpend, VaultOK, VaultType, Delayed, NetReleased

--------------------------------------------------------------------------------
(* A depository                                                                      *)

\* What governance may make of a depository: it leaves ETH and nonces alone, and new terms
\* come with a new time of activation.
Governed(old, new) ==
    /\ new.quoteNonces = old.quoteNonces
    /\ new.totalBondedEth = old.totalBondedEth
    /\ new.pendingRewardEth = old.pendingRewardEth
    /\ new.pendingTreasuryEth = old.pendingTreasuryEth
    /\ \/ /\ new.termsActivatedAt = old.termsActivatedAt
          /\ Sheet(new.terms) = Sheet(old.terms)
       \/ new.termsActivatedAt > old.termsActivatedAt

\* A record that is sound in itself.
Sound(d) == /\ d \in DepotType
            /\ d.termsActivatedAt <= now
            /\ \A p \in d.pendingTerms : d.termsActivatedAt < p.eta

\* A sound record put in the place of one depository's leaves the others as they were.
LEMMA OneDepotChanges ==
  ASSUME DepotOK, now' = now, NEW m \in Depositories, NEW d, Sound(d),
         depot' = [depot EXCEPT ![m] = d]
  PROVE  DepotOK' /\ depot'[m] = d /\ \A n \in Depositories \ {m} : depot'[n] = depot[n]
BY DEF DepotOK, Sound

\* Capacity may be added or used up without a change of sheet.
LEMMA CapacityIsNoTerm ==
  ASSUME NEW t \in Terms, NEW c \in Nat
  PROVE  LET new == [t EXCEPT !.remainingCapacityNara = c]
         IN  new \in Terms /\ Sheet(new) = Sheet(t)
<1> DEFINE new == [t EXCEPT !.remainingCapacityNara = c]
<1>1. new \in Terms
  BY DEF Terms
<1>2. Sheet(new) = Sheet(t)
  BY <1>1 DEF Sheet, Terms
<1> QED BY <1>1, <1>2

\* Whoever governs a depository touches neither its ETH nor its nonces, and never puts
\* other terms under an activation that quotes may already name.
LEMMA DepotGovernanceKeeps ==
  ASSUME VaultOK, DepotOK, NEW m \in Depositories, DepotGovernance(m)
  PROVE  /\ DepotOK' /\ OnlyDepot
         /\ \A n \in Depositories : Governed(depot[n], depot'[n])
<1> DEFINE d == depot[m]
<1>0. /\ now \in Nat /\ AvailableToPull \in Nat /\ AdminDelay \in Nat \ {0}
      /\ Sound(d) /\ d.termsActivatedAt \in Nat
  BY DepositoryAssumption
  DEF VaultOK, AvailableToPull, BondInventory, NetReleased, VaultType, DepotOK, Sound, DepotType
<1>1. SUFFICES \E new : /\ depot' = [depot EXCEPT ![m] = new] /\ OnlyDepot
                        /\ Sound(new) /\ Governed(d, new)
  <2>1. \A n \in Depositories \ {m} : depot[n].termsActivatedAt \in Nat /\ Governed(depot[n], depot[n])
    BY DEF DepotOK, DepotType, Governed
  <2> QED BY <1>1, <2>1, OneDepotChanges DEF OnlyDepot
<1> USE DEF Sound, DepotType, Delayed, Governed
<1>2. CASE \E paused \in BOOLEAN : SetPaused(m, paused)
  <2>1. PICK paused \in BOOLEAN : SetPaused(m, paused)
    BY <1>2
  <2> DEFINE new == [d EXCEPT !.paused = paused]
  <2>2. depot' = [depot EXCEPT ![m] = new] /\ OnlyDepot
    BY <2>1 DEF SetPaused
  <2>3. Sound(new) /\ Governed(d, new)
    BY <1>0
  <2> QED BY <2>2, <2>3
<1>3. CASE \E to \in Treasuries : ProposeTreasury(m, to)
  <2>1. PICK to \in Treasuries : ProposeTreasury(m, to)
    BY <1>3
  <2> DEFINE new == [d EXCEPT !.pendingTreasury = Announced(to, AdminDelay)]
  <2>2. depot' = [depot EXCEPT ![m] = new] /\ OnlyDepot
    BY <2>1 DEF ProposeTreasury
  <2>3. Sound(new) /\ Governed(d, new)
    BY <1>0 DEF Announced
  <2> QED BY <2>2, <2>3
<1>4. CASE ExecuteTreasury(m)
  <2>1. PICK p \in Ready(d.pendingTreasury) :
            depot' = [depot EXCEPT ![m].treasury = p.target, ![m].pendingTreasury = {}]
    BY <1>4 DEF ExecuteTreasury
  <2> DEFINE new == [d EXCEPT !.treasury = p.target, !.pendingTreasury = {}]
  <2>2. depot' = [depot EXCEPT ![m] = new] /\ OnlyDepot
    BY <1>4, <2>1 DEF ExecuteTreasury, DepotOK
  <2>3. Sound(new) /\ Governed(d, new)
    BY <1>0, <2>1 DEF Ready
  <2> QED BY <2>2, <2>3
<1>5. CASE CancelTreasury(m)
  <2> DEFINE new == [d EXCEPT !.pendingTreasury = {}]
  <2>2. depot' = [depot EXCEPT ![m] = new] /\ OnlyDepot
    BY <1>5 DEF CancelTreasury
  <2>3. Sound(new) /\ Governed(d, new)
    BY <1>0
  <2> QED BY <2>2, <2>3
<1>6. CASE \E t \in Sheets : ProposeTerms(m, t)
  <2>1. PICK t \in Sheets : ProposeTerms(m, t)
    BY <1>6
  <2> DEFINE new == [d EXCEPT !.pendingTerms = Announced(t, AdminDelay)]
  <2>2. depot' = [depot EXCEPT ![m] = new] /\ OnlyDepot
    BY <2>1 DEF ProposeTerms
  <2>3. t \in Terms
    BY DepositoryAssumption DEF ValidTerms
  <2>4. Sound(new) /\ Governed(d, new)
    BY <1>0, <2>3 DEF Announced
  <2> QED BY <2>2, <2>4
<1>7. CASE ExecuteTerms(m)
  <2>1. PICK p \in Ready(d.pendingTerms) :
            depot' = [depot EXCEPT ![m].terms = p.target, ![m].pendingTerms = {},
                                   ![m].termsActivatedAt = now]
    BY <1>7 DEF ExecuteTerms
  <2> DEFINE new == [d EXCEPT !.terms = p.target, !.pendingTerms = {}, !.termsActivatedAt = now]
  <2>2. depot' = [depot EXCEPT ![m] = new] /\ OnlyDepot
    BY <1>7, <2>1 DEF ExecuteTerms, DepotOK
  <2>3. d.termsActivatedAt < p.eta /\ p.eta <= now /\ p \in d.pendingTerms
    BY <1>0, <2>1 DEF Ready
  <2>4. p.target \in Terms /\ p.eta \in Nat
    BY <1>0, <2>3
  <2>5. new \in DepotType
    BY <1>0, <2>4
  <2>6. /\ new.termsActivatedAt = now /\ new.pendingTerms = {}
        /\ new.quoteNonces = d.quoteNonces /\ new.totalBondedEth = d.totalBondedEth
        /\ new.pendingRewardEth = d.pendingRewardEth
        /\ new.pendingTreasuryEth = d.pendingTreasuryEth
    BY <1>0
  <2>7. Sound(new) /\ Governed(d, new)
    BY <1>0, <2>3, <2>4, <2>5, <2>6
  <2> QED BY <2>2, <2>7
<1>8. CASE CancelTerms(m)
  <2> DEFINE new == [d EXCEPT !.pendingTerms = {}]
  <2>2. depot' = [depot EXCEPT ![m] = new] /\ OnlyDepot
    BY <1>8 DEF CancelTerms
  <2>3. Sound(new) /\ Governed(d, new)
    BY <1>0
  <2> QED BY <2>2, <2>3
<1>9. CASE \E amount \in Capacities : AddCapacity(m, amount)
  <2>1. PICK amount \in Capacities : AddCapacity(m, amount)
    BY <1>9
  <2> DEFINE new == [d EXCEPT !.terms.remainingCapacityNara = @ + amount]
  <2>2. depot' = [depot EXCEPT ![m] = new] /\ OnlyDepot
    BY <2>1 DEF AddCapacity
  <2>3. amount \in Nat
    BY DepositoryAssumption
  <2>4. /\ d.terms \in Terms /\ d.terms.remainingCapacityNara + amount \in Nat
        /\ new.terms = [d.terms EXCEPT !.remainingCapacityNara = @ + amount]
    BY <1>0, <2>3 DEF Terms
  <2>5. new.terms \in Terms /\ Sheet(new.terms) = Sheet(d.terms)
    BY <2>3, <2>4, CapacityIsNoTerm
  <2> DEFINE terms == [d.terms EXCEPT !.remainingCapacityNara = @ + amount]
  <2>6. new = [d EXCEPT !.terms = terms] /\ terms \in Terms /\ Sheet(terms) = Sheet(d.terms)
    BY <1>0, <2>4, <2>5
  <2> HIDE DEF terms
  <2>7. Sound(new) /\ Governed(d, new)
    BY <1>0, <2>6
  <2> QED BY <2>2, <2>7
<1> QED BY <1>2, <1>3, <1>4, <1>5, <1>6, <1>7, <1>8, <1>9 DEF DepotGovernance
--------------------------------------------------------------------------------
(* A purchase                                                                        *)

\* A share of an amount is a natural number and no more than the amount.
LEMMA ShareWithin ==
  ASSUME NEW a \in Nat, NEW b \in Nat, NEW d \in Nat \ {0}, b <= d
  PROVE  (a * b) \div d \in Nat /\ (a * b) \div d <= a
<1>1. a * b \in Nat
  OBVIOUS
<1>2. a * b <= a * d
  OBVIOUS
<1> QED BY <1>1, <1>2

\* Rounding the gross up and the fee down leaves the buyer her whole payout.
LEMMA GrossUpCovers ==
  ASSUME NEW n \in Nat, NEW b \in Nat \ {0}, NEW f \in 0 .. b - 1
  PROVE  LET g == (n * b + (b - f) - 1) \div (b - f)
         IN  g \in Nat /\ g - (g * f) \div b \in Int /\ n <= g - (g * f) \div b
<1> DEFINE d == b - f
           x == n * b + d - 1
           g == x \div d
           h == (g * f) \div b
<1>1. d \in Nat \ {0} /\ n * b \in Nat /\ x \in Nat
  OBVIOUS
<1>2. g \in Nat /\ x < (g + 1) * d
  BY <1>1
<1>3. g * d \in Nat /\ (g + 1) * d = g * d + d
  BY <1>1, <1>2
<1>4. n * b <= g * d
  BY <1>1, <1>2, <1>3
<1>5. g * f \in Nat /\ g * f = g * b - g * d /\ g * b \in Nat
  <2> HIDE DEF g
  <2> QED BY <1>2
<1>6. h \in Nat /\ h * b <= g * f
  BY <1>2, <1>5
<1>7. h * b <= (g - n) * b
  <2> HIDE DEF g, h, d
  <2>1. h * b \in Nat /\ (g - n) * b = g * b - n * b
    BY <1>1, <1>2, <1>6
  <2> QED BY <1>1, <1>3, <1>4, <1>5, <1>6, <2>1
<1>8. h <= g - n
  <2> HIDE DEF g, h
  <2>1. h - (g - n) \in Int /\ (h - (g - n)) * b <= 0
    BY <1>2, <1>6, <1>7
  <2> QED BY <1>2, <1>6, <2>1
<1> QED BY <1>2, <1>6, <1>8

\* The amounts of a purchase are amounts.
LEMMA PurchaseAmounts ==
  ASSUME DepotOK, BondsOK, NEW q \in QuoteType, NEW notified, NEW accepted,
         Buy(q, notified, accepted)
  PROVE  LET t == depot[q.market].terms
             paid == q.ethIn - lockFee.wei
             payout == Payout(paid, t)
             gross == GrossUp(payout)
             reward == (paid * t.rewardSplitWad) \div WAD
         IN  /\ t \in Terms /\ q.market \in Depositories
             /\ paid \in Nat /\ payout \in Nat /\ gross \in Nat
             /\ reward \in Nat /\ paid - reward \in Nat
             /\ Locked(gross) \in Int /\ payout <= Locked(gross)
             /\ t.remainingCapacityNara - gross \in Nat
<1> DEFINE t == depot[q.market].terms
           paid == q.ethIn - lockFee.wei
           payout == Payout(paid, t)
           gross == GrossUp(payout)
           reward == (paid * t.rewardSplitWad) \div WAD
<1>1. q.market \in Depositories /\ q.ethIn \in Nat /\ t \in Terms
  BY DEF QuoteType, DepotOK, DepotType
<1>2. t.rewardSplitWad \in 0 .. WAD /\ t.naraPerEthWad \in Nat /\ t.remainingCapacityNara \in Nat
  BY <1>1 DEF Terms
<1>3. WAD \in Nat \ {0} /\ BPS \in Nat \ {0} /\ lockFee.bps \in 0 .. BPS - 1 /\ lockFee.wei \in Nat
  BY DepositoryAssumption DEF BondsOK
<1>4. paid \in Nat
  <2>1. q.ethIn > lockFee.wei
    BY DEF Buy
  <2> QED BY <1>1, <1>3, <2>1
<1>5. payout \in Nat
  <2>1. paid * t.naraPerEthWad \in Nat
    BY <1>2, <1>4
  <2> QED BY <2>1, <1>3 DEF Payout
<1>6. gross \in Nat /\ Locked(gross) \in Int /\ payout <= Locked(gross)
  BY <1>3, <1>5, GrossUpCovers DEF GrossUp, Locked
<1>7. reward \in Nat /\ paid - reward \in Nat
  <2> DEFINE split == t.rewardSplitWad
  <2>0. split \in Nat /\ split <= WAD /\ reward = (paid * split) \div WAD
    BY <1>2, <1>3
  <2> HIDE DEF paid, split, reward
  <2>1. reward \in Nat /\ reward <= paid
    BY <1>3, <1>4, <2>0, ShareWithin
  <2> QED BY <1>4, <2>1
<1>8. gross <= t.remainingCapacityNara
  BY DEF Buy
<1> HIDE DEF t, paid, payout, gross, reward
<1>9. t.remainingCapacityNara - gross \in Nat
  BY <1>2, <1>6, <1>8
<1> QED BY <1>1, <1>4, <1>5, <1>6, <1>7, <1>9 DEF t, paid, payout, gross, reward

\* A purchase takes its gross out of the budget, ends up in the books of its depository,
\* and uses up its quote.
LEMMA BuyKeeps ==
  ASSUME IInv, NEW q \in quotes, NEW notified \in BOOLEAN, NEW accepted \in BOOLEAN,
         Buy(q, notified, accepted)
  PROVE  IInv'
<1> DEFINE m == q.market
           d == depot[m]
           t == d.terms
           paid == q.ethIn - lockFee.wei
           payout == Payout(paid, t)
           gross == GrossUp(payout)
           reward == (paid * t.rewardSplitWad) \div WAD
           rest == paid - reward
           terms == [t EXCEPT !.remainingCapacityNara = @ - gross]
           nonces == [d.quoteNonces EXCEPT ![q.buyer] = @ + 1]
           routed == Routed(d, reward, rest, notified, accepted)
           new == [routed EXCEPT !.terms = terms, !.quoteNonces = nonces]
           keptReward == IF notified THEN 0 ELSE reward
           keptRest == IF accepted THEN 0 ELSE rest
           bond == [quote |-> q, at |-> now, sheet |-> Sheet(t), payout |-> payout,
                    gross |-> gross, locked |-> Locked(gross)]
<1>1. /\ q \in QuoteType /\ m \in Depositories /\ t \in Terms
      /\ payout \in Nat /\ gross \in Nat /\ reward \in Nat /\ rest \in Nat
      /\ Locked(gross) \in Int /\ payout <= Locked(gross)
      /\ t.remainingCapacityNara - gross \in Nat
  BY PurchaseAmounts DEF IInv, QuotesOK
<1>2. /\ PullAndSpend(m, gross)
      /\ sent' = [sent EXCEPT ![m].engine = IF notified THEN @ + reward ELSE @,
                              ![m].treasury = IF accepted THEN @ + rest ELSE @]
      /\ eth' = [eth EXCEPT ![m] = @ + keptReward + keptRest]
      /\ bonds' = Append(bonds, bond)
      /\ UNCHANGED <<now, lockFee, quotes>>
  BY DEF Buy
<1>3. /\ QuoteValid(m, q) /\ q.minPayout <= payout /\ payout <= q.maxPayout
  BY DEF Buy
<1>4. /\ d \in DepotType /\ d.termsActivatedAt <= now
      /\ \A p \in d.pendingTerms : d.termsActivatedAt < p.eta
      /\ q.buyer \in Buyers
  BY <1>1 DEF IInv, DepotOK, QuoteType
<1>5. terms \in Terms /\ Sheet(terms) = Sheet(t)
  BY <1>1, CapacityIsNoTerm
<1>6. nonces \in [Buyers -> Nat]
  BY <1>4 DEF DepotType
<1>61. /\ routed \in DepotType /\ routed.terms = d.terms /\ routed.quoteNonces = d.quoteNonces
       /\ routed.termsActivatedAt = d.termsActivatedAt /\ routed.pendingTerms = d.pendingTerms
       /\ routed.totalBondedEth = d.totalBondedEth + reward + rest
       /\ routed.pendingRewardEth = d.pendingRewardEth + keptReward
       /\ routed.pendingTreasuryEth = d.pendingTreasuryEth + keptRest
  <2> DEFINE r == IF notified THEN d.pendingRewardEth ELSE d.pendingRewardEth + reward
             s == IF accepted THEN d.pendingTreasuryEth ELSE d.pendingTreasuryEth + rest
             b == d.totalBondedEth + reward + rest
             made == [d EXCEPT !.totalBondedEth = b, !.pendingRewardEth = r,
                               !.pendingTreasuryEth = s]
  <2>1. d.totalBondedEth \in Nat /\ d.pendingRewardEth \in Nat /\ d.pendingTreasuryEth \in Nat
    BY <1>4 DEF DepotType
  <2>2. /\ r \in Nat /\ r = d.pendingRewardEth + keptReward
        /\ s \in Nat /\ s = d.pendingTreasuryEth + keptRest
        /\ b \in Nat
    <3> HIDE DEF d, paid, payout, gross, reward, rest
    <3> QED BY <1>1, <2>1
  <2>3. routed = made
    <3> HIDE DEF d, paid, payout, gross, reward, rest
    <3> QED BY DEF Routed
  <2> HIDE DEF r, s, b, d, routed, paid, payout, gross, reward, rest, keptReward, keptRest
  <2>4. /\ made \in DepotType /\ made.terms = t /\ made.quoteNonces = d.quoteNonces
        /\ made.termsActivatedAt = d.termsActivatedAt /\ made.pendingTerms = d.pendingTerms
        /\ made.totalBondedEth = b /\ made.pendingRewardEth = r /\ made.pendingTreasuryEth = s
    BY <1>4, <2>2 DEF DepotType
  <2> QED BY <2>2, <2>3, <2>4 DEF b
<1>7. depot' = [depot EXCEPT ![m] = new]
  <2>1. depot' = [depot EXCEPT ![m] = [routed EXCEPT !.terms.remainingCapacityNara = @ - gross,
                                                     !.quoteNonces[q.buyer] = @ + 1]]
    BY Zenon DEF Buy
  <2> HIDE DEF paid, payout, gross, reward, rest, terms, nonces
  <2>2. routed.terms = t /\ routed.quoteNonces = d.quoteNonces
    BY <1>61
  <2> HIDE DEF routed
  <2>3. [routed EXCEPT !.terms.remainingCapacityNara = @ - gross,
                       !.quoteNonces[q.buyer] = @ + 1] = new
    BY <2>2 DEF terms, nonces
  <2> QED BY <2>1, <2>3
<1> HIDE DEF paid, payout, gross, reward, rest, terms, nonces
<1>71. /\ new \in DepotType /\ new.terms = terms /\ new.quoteNonces = nonces
      /\ new.termsActivatedAt = d.termsActivatedAt /\ new.pendingTerms = d.pendingTerms
      /\ new.totalBondedEth = d.totalBondedEth + reward + rest
      /\ new.pendingRewardEth = d.pendingRewardEth + keptReward
      /\ new.pendingTreasuryEth = d.pendingTreasuryEth + keptRest
  <2> HIDE DEF routed, keptReward, keptRest
  <2> QED BY <1>5, <1>6, <1>61 DEF DepotType
<1>72. keptReward \in Nat /\ keptRest \in Nat
  BY <1>1
<1> HIDE DEF new, routed, keptReward, keptRest
<1>8. DepotOK' /\ depot'[m] = new /\ \A n \in Depositories \ {m} : depot'[n] = depot[n]
  BY <1>1, <1>2, <1>4, <1>7, <1>71, OneDepotChanges DEF IInv, Sound
<1>9. VaultOK' /\ vault'.totalReleased = vault.totalReleased + gross
  BY <1>1, <1>2, PullKeeps DEF IInv
<1>10. EthOK'
  <2>1. /\ eth[m] \in Nat /\ sent[m] \in [engine : Nat, treasury : Nat]
        /\ eth[m] = d.pendingRewardEth + d.pendingTreasuryEth
        /\ d.totalBondedEth = sent[m].engine + sent[m].treasury + eth[m]
        /\ d.pendingRewardEth \in Nat /\ d.pendingTreasuryEth \in Nat /\ d.totalBondedEth \in Nat
    BY <1>1, <1>4 DEF IInv, EthOK, EthAccounted, DepotType
  <2>2. /\ eth'[m] = eth[m] + keptReward + keptRest
        /\ eth' \in [Depositories -> Nat]
        /\ \A n \in Depositories \ {m} : eth'[n] = eth[n]
    <3> DEFINE e == eth[m] + keptReward + keptRest
    <3>1. e \in Nat /\ eth' = [eth EXCEPT ![m] = e]
      <4>1. eth' = [eth EXCEPT ![m] = @ + keptReward + keptRest]
        BY <1>2
      <4>2. e \in Nat
        BY <1>72, <2>1
      <4> QED BY <4>1, <4>2
    <3> HIDE DEF e
    <3>2. /\ eth'[m] = e /\ eth' \in [Depositories -> Nat]
          /\ \A n \in Depositories \ {m} : eth'[n] = eth[n]
      BY <1>1, <3>1 DEF IInv, EthOK
    <3> QED BY <3>2 DEF e
  <2>3. /\ sent'[m].engine = sent[m].engine + (reward - keptReward)
        /\ sent'[m].treasury = sent[m].treasury + (rest - keptRest)
        /\ sent' \in [Depositories -> [engine : Nat, treasury : Nat]]
        /\ \A n \in Depositories \ {m} : sent'[n] = sent[n]
    <3> DEFINE e == IF notified THEN sent[m].engine + reward ELSE sent[m].engine
               r == IF accepted THEN sent[m].treasury + rest ELSE sent[m].treasury
    <3>1. /\ e \in Nat /\ e = sent[m].engine + (reward - keptReward)
          /\ r \in Nat /\ r = sent[m].treasury + (rest - keptRest)
      BY <1>1, <2>1 DEF keptReward, keptRest
    <3>2. sent' = [sent EXCEPT ![m].engine = e, ![m].treasury = r]
      BY <1>2, <2>1, <1>1 DEF IInv, EthOK
    <3> HIDE DEF e, r
    <3> QED BY <1>1, <2>1, <3>1, <3>2 DEF IInv, EthOK
  <2>4. EthAccounted'
    BY <1>1, <1>71, <1>72, <1>8, <2>1, <2>2, <2>3 DEF IInv, EthOK, EthAccounted
  <2> QED BY <2>2, <2>3, <2>4 DEF EthOK
<1>11. QuotesOK'
  <2>1. \A n \in Depositories : /\ depot'[n].termsActivatedAt = depot[n].termsActivatedAt
                               /\ Sheet(depot'[n].terms) = Sheet(depot[n].terms)
    BY <1>5, <1>71, <1>8
  <2>2. \A p \in quotes : p.market \in Depositories
    BY DEF IInv, QuotesOK, QuoteType
  <2> QED BY <1>2, <2>1, <2>2 DEF IInv, QuotesOK
<1>12. /\ q.sheet = Sheet(t) /\ now <= q.deadline /\ q.nonce = d.quoteNonces[q.buyer]
  BY <1>3 DEF QuoteValid, IInv, QuotesOK
<1>13. bond \in BondType /\ bonds \in Seq(BondType)
  <2>1. Sheet(t) \in Terms
    BY <1>1 DEF Sheet, Terms
  <2> QED BY <1>1, <2>1 DEF BondType, IInv, BondsOK, VaultOK
<1>14. /\ Len(bonds') = Len(bonds) + 1 /\ bonds'[Len(bonds) + 1] = bond
       /\ bonds' \in Seq(BondType)
       /\ \A i \in 1 .. Len(bonds) : bonds'[i] = bonds[i] /\ bonds[i] \in BondType
       /\ Len(bonds) \in Nat
  BY <1>2, <1>13
<1>15. /\ nonces[q.buyer] = q.nonce + 1 /\ q.nonce \in Nat
       /\ \A b \in Buyers : /\ d.quoteNonces[b] <= nonces[b]
                            /\ d.quoteNonces[b] \in Nat /\ nonces[b] \in Nat
  BY <1>1, <1>4, <1>6, <1>12 DEF DepotType, QuoteType, nonces
<1>16. \A i \in 1 .. Len(bonds) :
          LET p == bonds[i].quote
          IN  /\ p.nonce \in Nat /\ p.market \in Depositories /\ p.buyer \in Buyers
              /\ p.nonce < depot[p.market].quoteNonces[p.buyer]
  <2> SUFFICES ASSUME NEW i \in 1 .. Len(bonds)
      PROVE LET p == bonds[i].quote
            IN  /\ p.nonce \in Nat /\ p.market \in Depositories /\ p.buyer \in Buyers
                /\ p.nonce < depot[p.market].quoteNonces[p.buyer]
    OBVIOUS
  <2>1. bonds[i].quote \in QuoteType
    BY <1>14 DEF BondType
  <2>2. i \in DOMAIN bonds
    BY <1>13
  <2> QED BY <2>1, <2>2 DEF IInv, BondsOK, QuoteType
<1>17. \A i \in 1 .. Len(bonds) : bonds[i].quote # q
  BY <1>12, <1>15, <1>16
<1>18. \A i \in 1 .. Len(bonds) + 1 :
          bonds'[i].quote.nonce < depot'[bonds'[i].quote.market].quoteNonces[bonds'[i].quote.buyer]
  <2> SUFFICES ASSUME NEW i \in 1 .. Len(bonds) + 1
      PROVE bonds'[i].quote.nonce < depot'[bonds'[i].quote.market].quoteNonces[bonds'[i].quote.buyer]
    OBVIOUS
  <2>1. CASE i = Len(bonds) + 1
    BY <1>71, <1>8, <1>14, <1>15, <2>1
  <2>2. CASE i \in 1 .. Len(bonds)
    <3>1. CASE bonds[i].quote.market = m
      <4> DEFINE p == bonds[i].quote
      <4>1. p.nonce \in Nat /\ p.buyer \in Buyers /\ p.nonce < d.quoteNonces[p.buyer]
        BY <1>16, <2>2, <3>1
      <4>2. bonds'[i].quote = p /\ depot'[p.market].quoteNonces = nonces
        BY <1>71, <1>8, <1>14, <2>2, <3>1
      <4> HIDE DEF p
      <4>3. p.nonce < nonces[p.buyer]
        BY <1>15, <4>1
      <4> QED BY <4>2, <4>3 DEF p
    <3>2. CASE bonds[i].quote.market # m
      BY <1>8, <1>14, <1>16, <2>2, <3>2
    <3> QED BY <3>1, <3>2
  <2> QED BY <1>14, <2>1, <2>2
<1>19. QuotesHonoured'
  <2>1. \A i, j \in 1 .. Len(bonds) + 1 : i # j => bonds'[i].quote # bonds'[j].quote
    <3> DEFINE k == Len(bonds) + 1
    <3>1. \A i, j \in 1 .. Len(bonds) : i # j => bonds[i].quote # bonds[j].quote
      BY <1>14 DEF IInv, BondsOK, QuotesHonoured
    <3>2. /\ \A i \in 1 .. Len(bonds) : bonds'[i].quote = bonds[i].quote
          /\ \A i \in 1 .. Len(bonds) : bonds[i].quote # q
          /\ bonds'[k].quote = q
      BY <1>14, <1>17
    <3>3. \A i \in 1 .. k : i \in 1 .. Len(bonds) \/ i = k
      BY <1>14
    <3> HIDE DEF k
    <3> QED BY <3>1, <3>2, <3>3 DEF k
  <2>2. /\ bond.at <= bond.quote.deadline /\ bond.payout \in bond.quote.minPayout .. bond.quote.maxPayout
        /\ bond.locked >= bond.payout /\ bond.sheet = bond.quote.sheet
    BY <1>1, <1>3, <1>12 DEF QuoteType
  <2>3. \A i \in 1 .. Len(bonds) + 1 :
            /\ bonds'[i].at <= bonds'[i].quote.deadline
            /\ bonds'[i].payout \in bonds'[i].quote.minPayout .. bonds'[i].quote.maxPayout
            /\ bonds'[i].locked >= bonds'[i].payout
            /\ bonds'[i].sheet = bonds'[i].quote.sheet
    <3> HIDE DEF bond
    <3> QED BY <1>14, <2>2 DEF IInv, BondsOK, QuotesHonoured
  <2> QED BY <1>14, <2>1, <2>3 DEF QuotesHonoured
<1>20. BondsOK'
  <2>1. lockFee' = lockFee /\ lockFee \in [bps : 0 .. BPS - 1, wei : Nat]
    BY <1>2 DEF IInv, BondsOK
  <2>2. bonds' \in Seq(BondType) /\ DOMAIN bonds' = 1 .. Len(bonds) + 1
    BY <1>14
  <2> QED BY <1>18, <1>19, <2>1, <2>2 DEF BondsOK
<1>21. SoldOK'
  <2> DEFINE f == Gross
             g == Gross'
             n == Len(bonds)
  <2>1. IsFamily(f, n) /\ IsFamily(g, n + 1) /\ g[n + 1] = gross
        /\ \A i \in 1 .. n : g[i] = f[i]
    <3>1. DOMAIN bonds = 1 .. n /\ DOMAIN bonds' = 1 .. n + 1
      BY <1>13, <1>14
    <3>2. f = [i \in 1 .. n |-> bonds[i].gross] /\ g = [i \in 1 .. n + 1 |-> bonds'[i].gross]
      BY <3>1 DEF Gross
    <3> HIDE DEF f, g, bond
    <3>3. \A i \in 1 .. n : bonds[i].gross \in Nat
      BY <1>14 DEF BondType
    <3>4. bond.gross = gross
      BY DEF bond
    <3> HIDE DEF gross
    <3>5. n \in Nat /\ bonds'[n + 1] = bond /\ gross \in Nat
          /\ \A i \in 1 .. n : bonds'[i] = bonds[i]
      BY <1>1, <1>14
    <3>6. \A i \in 1 .. n : f[i] = bonds[i].gross /\ g[i] = bonds[i].gross
      BY <3>2, <3>5
    <3>7. g[n + 1] = gross
      BY <3>2, <3>4, <3>5
    <3>8. \A i \in 1 .. n + 1 : i \in 1 .. n \/ i = n + 1
      BY <3>5
    <3>9. IsFamily(f, n)
      BY <3>3, <3>5, <3>6 DEF IsFamily
    <3>10. IsFamily(g, n + 1)
      BY <3>3, <3>5, <3>6, <3>7, <3>8 DEF IsFamily
    <3> QED BY <3>6, <3>7, <3>9, <3>10
  <2> HIDE DEF f, g
  <2>2. SumTo(g, n + 1) = SumTo(f, n) + g[n + 1]
    BY <2>1, SumOfAppend
  <2>3. Sold' = Sold + gross
    BY <1>14, <2>1, <2>2 DEF Sold, f, g
  <2> QED BY <1>9, <2>3 DEF IInv, SoldOK
<1> QED BY <1>8, <1>9, <1>10, <1>11, <1>20, <1>21 DEF IInv

--------------------------------------------------------------------------------
(* The other actions                                                                 *)

\* Where the depositories stand still, only the vault has to be looked at.
LEMMA VaultStep ==
  ASSUME IInv, VaultOK', vault'.totalReleased = vault.totalReleased, OnlyVaultMoves
  PROVE  IInv'
<1> USE DEF IInv, OnlyVaultMoves, depotVars
<1>1. DepotOK'
  BY DEF DepotOK
<1>2. EthOK'
  BY DEF EthOK, EthAccounted
<1>3. QuotesOK' /\ BondsOK' /\ SoldOK'
  BY DEF QuotesOK, BondsOK, QuotesHonoured, SoldOK, Sold, Gross
<1> QED BY <1>1, <1>2, <1>3

\* Every bond is of a depository.
LEMMA BondsAreForDepositories ==
  ASSUME BondsOK
  PROVE  \A i \in DOMAIN bonds : bonds[i].quote.market \in Depositories
<1> SUFFICES ASSUME NEW i \in DOMAIN bonds PROVE bonds[i].quote.market \in Depositories
  OBVIOUS
<1>1. bonds \in Seq(BondType)
  BY DEF BondsOK
<1>2. bonds[i] \in BondType
  BY <1>1
<1> QED BY <1>2 DEF BondType, QuoteType

\* Governance of a depository: quotes for an earlier activation stay for an earlier one.
LEMMA DepotGovernanceStep ==
  ASSUME IInv, NEW m \in Depositories, DepotGovernance(m)
  PROVE  IInv'
<1>1. DepotOK' /\ OnlyDepot /\ \A n \in Depositories : Governed(depot[n], depot'[n])
  BY DepotGovernanceKeeps DEF IInv
<1> USE <1>1 DEF IInv, OnlyDepot, vaultVars
<1>2. VaultOK' /\ SoldOK'
  BY DEF VaultOK, NetReleased, SoldOK, Sold, Gross
<1>3. EthOK'
  BY DEF EthOK, EthAccounted, Governed
<1>4. QuotesOK'
  <2> SUFFICES ASSUME NEW q \in quotes
      PROVE  /\ q.termsActivatedAt <= depot'[q.market].termsActivatedAt
             /\ q.termsActivatedAt = depot'[q.market].termsActivatedAt
                => q.sheet = Sheet(depot'[q.market].terms)
    BY DEF QuotesOK
  <2> DEFINE old == depot[q.market]
             new == depot'[q.market]
  <2>1. /\ q.market \in Depositories /\ q.termsActivatedAt \in Nat
        /\ q.termsActivatedAt <= old.termsActivatedAt
        /\ q.termsActivatedAt = old.termsActivatedAt => q.sheet = Sheet(old.terms)
    BY DEF QuotesOK, QuoteType
  <2>2. old.termsActivatedAt \in Nat /\ new.termsActivatedAt \in Nat
    BY <2>1 DEF DepotOK, DepotType
  <2>3. Governed(old, new)
    BY <2>1
  <2> QED BY <2>1, <2>2, <2>3 DEF Governed
<1>5. BondsOK'
  <2>1. \A i \in DOMAIN bonds : bonds[i].quote.market \in Depositories
    BY BondsAreForDepositories
  <2>2. \A n \in Depositories : depot'[n].quoteNonces = depot[n].quoteNonces
    BY DEF Governed
  <2> QED BY <2>1, <2>2 DEF BondsOK, QuotesHonoured
<1> QED BY <1>1, <1>2, <1>3, <1>4, <1>5

\* Queued ETH that is sent moves from one side of the account to the other.
LEMMA FlushKeeps ==
  ASSUME IInv, NEW m \in Depositories,
         FlushRewardEth(m) \/ FlushTreasuryEth(m) \/ RescueRewardEth(m)
  PROVE  IInv'
<1> DEFINE d == depot[m]
           e == sent[m].engine
           r == sent[m].treasury
<1>1. /\ d \in DepotType /\ d.pendingRewardEth \in Nat /\ d.pendingTreasuryEth \in Nat
      /\ d.totalBondedEth \in Nat /\ eth[m] \in Nat
      /\ sent[m] \in [engine : Nat, treasury : Nat] /\ e \in Nat /\ r \in Nat
      /\ eth[m] = d.pendingRewardEth + d.pendingTreasuryEth
      /\ d.totalBondedEth = e + r + eth[m]
  BY DEF IInv, DepotOK, DepotType, EthOK, EthAccounted
<1>2. UNCHANGED <<now, vaultVars, lockFee, quotes, bonds>>
  BY DEF FlushRewardEth, FlushTreasuryEth, RescueRewardEth, EthLeaves
<1>3. PICK rewardLeft \in Nat, restLeft \in Nat, money \in [engine : Nat, treasury : Nat] :
         /\ depot' = [depot EXCEPT ![m] = [d EXCEPT !.pendingRewardEth = rewardLeft,
                                                    !.pendingTreasuryEth = restLeft]]
         /\ eth' = [eth EXCEPT ![m] = rewardLeft + restLeft]
         /\ sent' = [sent EXCEPT ![m] = money]
         /\ d.totalBondedEth = money.engine + money.treasury + rewardLeft + restLeft
  <2> DEFINE waiting == d.pendingRewardEth
             owed == d.pendingTreasuryEth
  <2>1. CASE FlushRewardEth(m)
    <3>1. /\ depot' = [depot EXCEPT ![m] = [d EXCEPT !.pendingRewardEth = 0,
                                                     !.pendingTreasuryEth = owed]]
          /\ eth' = [eth EXCEPT ![m] = 0 + owed]
          /\ sent' = [sent EXCEPT ![m] = [engine |-> e + waiting, treasury |-> r]]
      <4>1. /\ depot' = [depot EXCEPT ![m] = [d EXCEPT !.pendingRewardEth = 0]]
            /\ eth' = [eth EXCEPT ![m] = @ - waiting]
            /\ sent' = [sent EXCEPT ![m] = [sent[m] EXCEPT !.engine = @ + waiting]]
        BY <2>1 DEF FlushRewardEth, EthLeaves, IInv, DepotOK
      <4>2. waiting \in Nat /\ owed \in Nat /\ eth[m] - waiting = 0 + owed
        BY <1>1
      <4>3. [sent[m] EXCEPT !.engine = @ + waiting] = [engine |-> e + waiting, treasury |-> r]
        <5> HIDE DEF d, waiting, owed
        <5> QED BY <1>1
      <4> HIDE DEF d
      <4>4. [d EXCEPT !.pendingRewardEth = 0]
            = [d EXCEPT !.pendingRewardEth = 0, !.pendingTreasuryEth = owed]
        BY <1>1 DEF DepotType
      <4>5. eth' = [eth EXCEPT ![m] = 0 + owed]
        BY <4>1, <4>2 DEF IInv, EthOK
      <4> HIDE DEF waiting, owed, e, r
      <4> QED BY <4>1, <4>3, <4>4, <4>5
    <3>2. d.totalBondedEth = (e + waiting) + r + 0 + owed
      BY <1>1
    <3> HIDE DEF d, e, r, owed, waiting
    <3>3. [engine |-> e + waiting, treasury |-> r] \in [engine : Nat, treasury : Nat]
      BY <1>1 DEF owed, waiting
    <3> QED BY <1>1, <3>1, <3>2, <3>3 DEF owed
  <2>2. CASE FlushTreasuryEth(m)
    <3>1. /\ depot' = [depot EXCEPT ![m] = [d EXCEPT !.pendingRewardEth = waiting,
                                                     !.pendingTreasuryEth = 0]]
          /\ eth' = [eth EXCEPT ![m] = waiting + 0]
          /\ sent' = [sent EXCEPT ![m] = [engine |-> e, treasury |-> r + owed]]
      <4>1. /\ depot' = [depot EXCEPT ![m] = [d EXCEPT !.pendingTreasuryEth = 0]]
            /\ eth' = [eth EXCEPT ![m] = @ - owed]
            /\ sent' = [sent EXCEPT ![m] = [sent[m] EXCEPT !.treasury = @ + owed]]
        BY <2>2 DEF FlushTreasuryEth, EthLeaves, IInv, DepotOK
      <4>2. waiting \in Nat /\ owed \in Nat /\ eth[m] - owed = waiting + 0
        BY <1>1
      <4>3. [sent[m] EXCEPT !.treasury = @ + owed] = [engine |-> e, treasury |-> r + owed]
        <5> HIDE DEF d, waiting, owed
        <5> QED BY <1>1
      <4> HIDE DEF d
      <4>4. [d EXCEPT !.pendingTreasuryEth = 0]
            = [d EXCEPT !.pendingRewardEth = waiting, !.pendingTreasuryEth = 0]
        BY <1>1 DEF DepotType
      <4>5. eth' = [eth EXCEPT ![m] = waiting + 0]
        BY <4>1, <4>2 DEF IInv, EthOK
      <4> HIDE DEF waiting, owed, e, r
      <4> QED BY <4>1, <4>3, <4>4, <4>5
    <3>2. d.totalBondedEth = e + (r + owed) + waiting + 0
      BY <1>1
    <3> HIDE DEF d, e, r, owed, waiting
    <3>3. [engine |-> e, treasury |-> r + owed] \in [engine : Nat, treasury : Nat]
      BY <1>1 DEF owed, waiting
    <3> QED BY <1>1, <3>1, <3>2, <3>3 DEF waiting
  <2>3. CASE RescueRewardEth(m)
    <3>1. /\ depot' = [depot EXCEPT ![m] = [d EXCEPT !.pendingRewardEth = 0,
                                                     !.pendingTreasuryEth = owed]]
          /\ eth' = [eth EXCEPT ![m] = 0 + owed]
          /\ sent' = [sent EXCEPT ![m] = [engine |-> e, treasury |-> r + waiting]]
      <4>1. /\ depot' = [depot EXCEPT ![m] = [d EXCEPT !.pendingRewardEth = 0]]
            /\ eth' = [eth EXCEPT ![m] = @ - waiting]
            /\ sent' = [sent EXCEPT ![m] = [sent[m] EXCEPT !.treasury = @ + waiting]]
        BY <2>3 DEF RescueRewardEth, EthLeaves, IInv, DepotOK
      <4>2. waiting \in Nat /\ owed \in Nat /\ eth[m] - waiting = 0 + owed
        BY <1>1
      <4>3. [sent[m] EXCEPT !.treasury = @ + waiting] = [engine |-> e, treasury |-> r + waiting]
        <5> HIDE DEF d, waiting, owed
        <5> QED BY <1>1
      <4> HIDE DEF d
      <4>4. [d EXCEPT !.pendingRewardEth = 0]
            = [d EXCEPT !.pendingRewardEth = 0, !.pendingTreasuryEth = owed]
        BY <1>1 DEF DepotType
      <4>5. eth' = [eth EXCEPT ![m] = 0 + owed]
        BY <4>1, <4>2 DEF IInv, EthOK
      <4> HIDE DEF waiting, owed, e, r
      <4> QED BY <4>1, <4>3, <4>4, <4>5
    <3>2. d.totalBondedEth = e + (r + waiting) + 0 + owed
      BY <1>1
    <3> HIDE DEF d, e, r, owed, waiting
    <3>3. [engine |-> e, treasury |-> r + waiting] \in [engine : Nat, treasury : Nat]
      BY <1>1 DEF owed, waiting
    <3> QED BY <1>1, <3>1, <3>2, <3>3 DEF owed
  <2> QED BY <2>1, <2>2, <2>3
<1> DEFINE new == [d EXCEPT !.pendingRewardEth = rewardLeft, !.pendingTreasuryEth = restLeft]
<1>4. /\ new \in DepotType /\ new.terms = d.terms /\ new.quoteNonces = d.quoteNonces
      /\ new.termsActivatedAt = d.termsActivatedAt /\ new.pendingTerms = d.pendingTerms
      /\ new.totalBondedEth = d.totalBondedEth
      /\ new.pendingRewardEth = rewardLeft /\ new.pendingTreasuryEth = restLeft
  <2> HIDE DEF d
  <2> QED BY <1>1 DEF DepotType
<1>5. Sound(new)
  <2>1. d.termsActivatedAt <= now /\ \A p \in d.pendingTerms : d.termsActivatedAt < p.eta
    BY DEF IInv, DepotOK
  <2> HIDE DEF d, new
  <2> QED BY <1>4, <2>1 DEF Sound
<1>6. depot' = [depot EXCEPT ![m] = new]
  BY <1>3
<1> HIDE DEF new
<1>7. DepotOK' /\ depot'[m] = new /\ \A n \in Depositories \ {m} : depot'[n] = depot[n]
  BY <1>2, <1>5, <1>6, OneDepotChanges DEF IInv
<1>8. EthOK'
  <2>1. eth'[m] = rewardLeft + restLeft /\ eth' \in [Depositories -> Nat]
        /\ \A n \in Depositories \ {m} : eth'[n] = eth[n]
    BY <1>3 DEF IInv, EthOK
  <2>2. sent'[m] = money /\ sent' \in [Depositories -> [engine : Nat, treasury : Nat]]
        /\ \A n \in Depositories \ {m} : sent'[n] = sent[n]
    BY <1>3 DEF IInv, EthOK
  <2>3. EthAccounted'
    BY <1>1, <1>3, <1>4, <1>7, <2>1, <2>2 DEF IInv, EthOK, EthAccounted
  <2> QED BY <2>1, <2>2, <2>3 DEF EthOK
<1>9. \A n \in Depositories : /\ depot'[n].termsActivatedAt = depot[n].termsActivatedAt
                              /\ depot'[n].terms = depot[n].terms
                              /\ depot'[n].quoteNonces = depot[n].quoteNonces
  BY <1>4, <1>7
<1>10. QuotesOK'
  <2>1. \A q \in quotes : q.market \in Depositories
    BY DEF IInv, QuotesOK, QuoteType
  <2> QED BY <1>2, <1>9, <2>1 DEF IInv, QuotesOK
<1>11. BondsOK'
  <2>1. \A i \in DOMAIN bonds : bonds[i].quote.market \in Depositories
    BY BondsAreForDepositories DEF IInv
  <2> QED BY <1>2, <1>9, <2>1 DEF IInv, BondsOK, QuotesHonoured
<1>12. VaultOK' /\ SoldOK'
  BY <1>2 DEF IInv, vaultVars, VaultOK, NetReleased, SoldOK, Sold, Gross
<1> QED BY <1>7, <1>8, <1>10, <1>11, <1>12 DEF IInv

\* The signer signs what is in force.
LEMMA SignKeeps ==
  ASSUME IInv, NEW m \in Depositories, NEW b \in Buyers, NEW ethIn \in Deposits,
         NEW bounds \in PayoutBounds, NEW w \in Windows, Sign(m, b, ethIn, bounds, w)
  PROVE  IInv'
<1> DEFINE q == [market |-> m, buyer |-> b, ethIn |-> ethIn,
                 minPayout |-> bounds[1], maxPayout |-> bounds[2], deadline |-> now + w,
                 nonce |-> depot[m].quoteNonces[b], termsActivatedAt |-> depot[m].termsActivatedAt,
                 sheet |-> Sheet(depot[m].terms)]
<1>1. quotes' = quotes \cup {q} /\ UNCHANGED <<now, vaultVars, depot, eth, sent, lockFee, bonds>>
  BY DEF Sign
<1>2. /\ depot[m].quoteNonces[b] \in Nat /\ depot[m].termsActivatedAt \in Nat
      /\ depot[m].terms \in Terms
  BY DEF IInv, DepotOK, DepotType
<1>3. Sheet(depot[m].terms) \in Terms
  BY <1>2 DEF Sheet, Terms
<1>4. ethIn \in Nat /\ w \in Nat /\ bounds[1] \in Nat /\ bounds[2] \in Nat /\ now \in Nat
  BY DepositoryAssumption DEF IInv, VaultOK
<1>5. q \in QuoteType
  BY <1>2, <1>3, <1>4 DEF QuoteType
<1>6. q.termsActivatedAt = depot[q.market].termsActivatedAt /\ q.sheet = Sheet(depot[q.market].terms)
  OBVIOUS
<1> HIDE DEF q
<1>7. q.termsActivatedAt <= depot[q.market].termsActivatedAt
  BY <1>5, <1>6 DEF QuoteType
<1>8. QuotesOK'
  BY <1>1, <1>5, <1>6, <1>7 DEF IInv, QuotesOK
<1>9. VaultOK' /\ DepotOK' /\ EthOK' /\ BondsOK' /\ SoldOK'
  BY <1>1 DEF IInv, vaultVars, VaultOK, NetReleased, DepotOK, EthOK, EthAccounted, BondsOK,
     QuotesHonoured, SoldOK, Sold, Gross
<1> QED BY <1>8, <1>9 DEF IInv

\* The lock fee counts when a bond is made; those that are made stay as they are.
LEMMA SetLockFeeKeeps ==
  ASSUME IInv, NEW f \in LockFees, SetLockFee(f)
  PROVE  IInv'
BY DepositoryAssumption
DEF SetLockFee, IInv, vaultVars, VaultOK, NetReleased, DepotOK, EthOK, EthAccounted, QuotesOK,
    BondsOK, QuotesHonoured, SoldOK, Sold, Gross

\* Time only makes activations older.
LEMMA TickKeeps ==
  ASSUME IInv, Tick
  PROVE  IInv'
<1>1. now \in Nat /\ now' = now + 1 /\ UNCHANGED <<vaultVars, depotVars>>
  BY DEF Tick, IInv, VaultOK
<1>2. DepotOK'
  <2>1. \A m \in Depositories : depot[m].termsActivatedAt \in Nat
    BY DEF IInv, DepotOK, DepotType
  <2> QED BY <1>1, <2>1 DEF depotVars, IInv, DepotOK
<1>3. VaultOK' /\ EthOK' /\ QuotesOK' /\ BondsOK' /\ SoldOK'
  BY <1>1 DEF vaultVars, depotVars, IInv, VaultOK, NetReleased, EthOK, EthAccounted, QuotesOK,
     BondsOK, QuotesHonoured, SoldOK, Sold, Gross
<1> QED BY <1>2, <1>3 DEF IInv

--------------------------------------------------------------------------------
(* The theorems                                                                      *)

\* Nothing is released, quoted or bonded at deployment.
LEMMA InitHolds ==
  ASSUME Init
  PROVE  IInv
<1> USE BondVaultAssumption, DepositoryAssumption DEF Init, VaultInit
<1>1. VaultOK
  BY DEF VaultOK, VaultType, Delayed, NetReleased
<1>2. DepotOK
  BY DEF DepotOK, DepotType, Delayed, ValidTerms
<1>3. EthOK
  BY DEF EthOK, EthAccounted
<1>4. QuotesOK
  BY DEF QuotesOK
<1>5. BondsOK
  BY DEF BondsOK, QuotesHonoured
<1>6. SoldOK
  <2>1. Len(bonds) = 0
    OBVIOUS
  <2>2. SumTo(Gross, 0) = 0
    BY SumOfZeros
  <2> QED BY <2>1, <2>2 DEF SoldOK, Sold
<1> QED BY <1>1, <1>2, <1>3, <1>4, <1>5, <1>6 DEF IInv

\* The invariant holds in every reachable state.
THEOREM BondInvariant == Spec => []IInv
<1>1. Init => IInv
  BY InitHolds
<1>2. IInv /\ [Next]_vars => IInv'
  <2> SUFFICES ASSUME IInv, [Next]_vars PROVE IInv'
    OBVIOUS
  <2>1. CASE VaultGovernance
    BY <2>1, VaultGovernanceKeeps, VaultStep DEF IInv, VaultGovernance
  <2>2. CASE Donation
    BY <2>2, DonationKeeps, VaultStep DEF IInv, Donation
  <2>3. CASE ReturnExcessToVault
    BY <2>3, ReturnKeeps, VaultStep DEF IInv, ReturnExcessToVault
  <2>4. CASE \E m \in Depositories : DepotGovernance(m)
    BY <2>4, DepotGovernanceStep
  <2>5. CASE \E m \in Depositories :
                FlushRewardEth(m) \/ FlushTreasuryEth(m) \/ RescueRewardEth(m)
    BY <2>5, FlushKeeps
  <2>6. CASE \E m \in Depositories, b \in Buyers, ethIn \in Deposits,
                bounds \in PayoutBounds, w \in Windows : Sign(m, b, ethIn, bounds, w)
    BY <2>6, SignKeeps
  <2>7. CASE \E q \in quotes, notified, accepted \in BOOLEAN : Buy(q, notified, accepted)
    BY <2>7, BuyKeeps, Zenon
  <2>8. CASE \E f \in LockFees : SetLockFee(f)
    BY <2>8, SetLockFeeKeeps
  <2>9. CASE Tick
    BY <2>9, TickKeeps
  <2>10. CASE UNCHANGED vars
    BY <2>10 DEF vars, vaultVars, depotVars, IInv, VaultOK, NetReleased, DepotOK, EthOK,
       EthAccounted, QuotesOK, BondsOK, QuotesHonoured, SoldOK, Sold, Gross
  <2> QED BY <2>1, <2>2, <2>3, <2>4, <2>5, <2>6, <2>7, <2>8, <2>9, <2>10, Zenon DEF Next
<1> QED BY <1>1, <1>2, PTL DEF Spec

\* What is out stays within the cap in force and the lifetime allocation, and is sold.
THEOREM BudgetIsHeld == Spec => []BudgetHeld
<1>1. IInv => BudgetHeld
  BY DEF IInv, VaultOK, SoldOK, BudgetHeld
<1> QED BY <1>1, BondInvariant, PTL

\* Whatever the terms, fees and times: a quote buys once, in time, at the price signed.
THEOREM QuotesAreHonoured == Spec => []QuotesHonoured
<1>1. IInv => QuotesHonoured
  BY DEF IInv, BondsOK
<1> QED BY <1>1, BondInvariant, PTL

\* Every wei bonded is with its receiver or is owed to it by name.
THEOREM EthIsAccounted == Spec => []EthAccounted
<1>1. IInv => EthAccounted
  BY DEF IInv, EthOK
<1> QED BY <1>1, BondInvariant, PTL

--------------------------------------------------------------------------------
(* The bond vault and every depository implement Timelock, four times over: for any
   number of markets, a change of market, cap, terms or treasury is what was announced. *)

\* A lock is left alone by a step that leaves what it reads alone.
VaultLocksRest == UNCHANGED <<now, vault.market, vault.pendingMarket,
                              vault.activeReleaseCap, vault.pendingCap>>
DepotLocksRest(m) == UNCHANGED <<now, Sheet(depot[m].terms), depot[m].pendingTerms,
                                 depot[m].treasury, depot[m].pendingTreasury>>

VaultStepAnnounced == /\ [MarketLock!Next]_(MarketLock!vars)
                      /\ [CapLock!Next]_(CapLock!vars)
DepotStepAnnounced(m) == /\ [TermsLock(m)!Next]_(TermsLock(m)!vars)
                         /\ [TreasuryLock(m)!Next]_(TreasuryLock(m)!vars)

\* Nothing an announced change depends on moved: no step of any lock.
LEMMA VaultRests ==
  ASSUME VaultLocksRest
  PROVE  VaultStepAnnounced
BY DEF VaultLocksRest, VaultStepAnnounced, MarketLock!vars, CapLock!vars

\* The same for the locks of a depository.
LEMMA DepotRests ==
  ASSUME NEW m \in Depositories, DepotLocksRest(m)
  PROVE  DepotStepAnnounced(m)
BY DEF DepotLocksRest, DepotStepAnnounced, TermsLock!vars, TreasuryLock!vars

\* Every action of the vault's governance is one of the steps a timelock may take.
LEMMA VaultGovernanceAnnounced ==
  ASSUME VaultOK, VaultGovernance
  PROVE  VaultStepAnnounced
<1> DEFINE marketRests == UNCHANGED <<vault.market, vault.pendingMarket>>
           capRests == UNCHANGED <<vault.activeReleaseCap, vault.pendingCap>>
<1> USE DEF VaultOK, VaultType, OnlyVault, OnlyVaultMoves
<1>0. now' = now
  BY DEF VaultGovernance
<1>1. marketRests => [MarketLock!Next]_(MarketLock!vars)
  BY <1>0 DEF MarketLock!vars
<1>2. capRests => [CapLock!Next]_(CapLock!vars)
  BY <1>0 DEF CapLock!vars
<1>3. CASE SetNara \/ ClearPreviousMarket \/ ForceClearPreviousMarket
  <2>1. marketRests /\ capRests
    BY <1>3 DEF SetNara, ClearPreviousMarket, ForceClearPreviousMarket
  <2> QED BY <1>1, <1>2, <2>1 DEF VaultStepAnnounced
<1>4. CASE \E m \in Markets : ProposeMarket(m)
  <2>1. PICK m \in Markets : ProposeMarket(m)
    BY <1>4
  <2>2. /\ vault'.pendingMarket = {[target |-> m, eta |-> now + ActionDelay]}
        /\ vault'.market = vault.market /\ capRests
    BY <2>1 DEF ProposeMarket, Announced
  <2>3. MarketLock!Propose
    BY <1>0, <2>2 DEF MarketLock!Propose
  <2> QED BY <1>2, <2>2, <2>3 DEF VaultStepAnnounced, MarketLock!Next
<1>5. CASE ExecuteMarketChange
  <2>1. PICK p \in Ready(vault.pendingMarket) :
            /\ vault'.market = p.target /\ vault'.pendingMarket = {}
            /\ capRests
    BY <1>5 DEF ExecuteMarketChange
  <2>2. MarketLock!Execute
    BY <1>0, <2>1 DEF MarketLock!Execute, Ready
  <2> QED BY <1>2, <2>1, <2>2 DEF VaultStepAnnounced, MarketLock!Next
<1>6. CASE CancelMarketChange
  <2>1. /\ vault.pendingMarket # {} /\ vault'.pendingMarket = {}
        /\ vault'.market = vault.market /\ capRests
    BY <1>6 DEF CancelMarketChange
  <2>2. MarketLock!Cancel
    BY <1>0, <2>1 DEF MarketLock!Cancel
  <2> QED BY <1>2, <2>1, <2>2 DEF VaultStepAnnounced, MarketLock!Next
<1>7. CASE \E cap \in Caps : ProposeReleaseCap(cap)
  <2>1. PICK cap \in Caps : ProposeReleaseCap(cap)
    BY <1>7
  <2>2. /\ vault'.pendingCap = {[target |-> cap, eta |-> now + ActionDelay]}
        /\ vault'.activeReleaseCap = vault.activeReleaseCap /\ marketRests
    BY <2>1 DEF ProposeReleaseCap, Announced
  <2>3. CapLock!Propose
    BY <1>0, <2>2 DEF CapLock!Propose
  <2> QED BY <1>1, <2>2, <2>3 DEF VaultStepAnnounced, CapLock!Next
<1>8. CASE ExecuteReleaseCapChange
  <2>1. PICK p \in Ready(vault.pendingCap) :
            /\ vault'.activeReleaseCap = p.target /\ vault'.pendingCap = {}
            /\ marketRests
    BY <1>8 DEF ExecuteReleaseCapChange
  <2>2. CapLock!Execute
    BY <1>0, <2>1 DEF CapLock!Execute, Ready
  <2> QED BY <1>1, <2>1, <2>2 DEF VaultStepAnnounced, CapLock!Next
<1>9. CASE CancelReleaseCapChange
  <2>1. /\ vault.pendingCap # {} /\ vault'.pendingCap = {}
        /\ vault'.activeReleaseCap = vault.activeReleaseCap /\ marketRests
    BY <1>9 DEF CancelReleaseCapChange
  <2>2. CapLock!Cancel
    BY <1>0, <2>1 DEF CapLock!Cancel
  <2> QED BY <1>1, <2>1, <2>2 DEF VaultStepAnnounced, CapLock!Next
<1> QED BY <1>3, <1>4, <1>5, <1>6, <1>7, <1>8, <1>9 DEF VaultGovernance

\* The announced sheets of a depository, as its timelock reads them.
Announcement(d) == {[p EXCEPT !.target = Sheet(@)] : p \in d.pendingTerms}

\* Every action of a depository's governance is one of the steps a timelock may take:
\* a change of capacity is none, since capacity is not part of the sheet.
LEMMA DepotGovernanceAnnounced ==
  ASSUME DepotOK, NEW m \in Depositories, DepotGovernance(m)
  PROVE  DepotStepAnnounced(m)
<1> DEFINE d == depot[m]
           new == depot'[m]
           termsRest == Sheet(new.terms) = Sheet(d.terms) /\ new.pendingTerms = d.pendingTerms
           treasuryRests == new.treasury = d.treasury /\ new.pendingTreasury = d.pendingTreasury
<1>0. d \in DepotType /\ depot \in [Depositories -> DepotType]
  BY DEF DepotOK
<1> USE DEF DepotType
<1>01. now' = now
  BY DEF DepotGovernance, SetPaused, ProposeTreasury, ExecuteTreasury, CancelTreasury,
     ProposeTerms, ExecuteTerms, CancelTerms, AddCapacity, OnlyDepot
<1>1. termsRest => [TermsLock(m)!Next]_(TermsLock(m)!vars)
  BY <1>01 DEF TermsLock!vars
<1>2. treasuryRests => [TreasuryLock(m)!Next]_(TreasuryLock(m)!vars)
  BY <1>01 DEF TreasuryLock!vars
<1>3. CASE \E paused \in BOOLEAN : SetPaused(m, paused)
  <2>1. termsRest /\ treasuryRests
    BY <1>0, <1>3 DEF SetPaused
  <2> QED BY <1>1, <1>2, <2>1 DEF DepotStepAnnounced
<1>4. CASE \E to \in Treasuries : ProposeTreasury(m, to)
  <2>1. PICK to \in Treasuries : ProposeTreasury(m, to)
    BY <1>4
  <2>2. /\ new.pendingTreasury = {[target |-> to, eta |-> now + AdminDelay]}
        /\ new.treasury = d.treasury /\ termsRest
    BY <1>0, <2>1 DEF ProposeTreasury, Announced
  <2>3. TreasuryLock(m)!Propose
    BY <1>01, <2>2 DEF TreasuryLock!Propose
  <2> QED BY <1>1, <2>2, <2>3 DEF DepotStepAnnounced, TreasuryLock!Next
<1>5. CASE ExecuteTreasury(m)
  <2>1. PICK p \in Ready(d.pendingTreasury) :
            new.treasury = p.target /\ new.pendingTreasury = {} /\ termsRest
    BY <1>0, <1>5 DEF ExecuteTreasury
  <2>2. TreasuryLock(m)!Execute
    BY <1>01, <2>1 DEF TreasuryLock!Execute, Ready
  <2> QED BY <1>1, <2>1, <2>2 DEF DepotStepAnnounced, TreasuryLock!Next
<1>6. CASE CancelTreasury(m)
  <2>1. /\ d.pendingTreasury # {} /\ new.pendingTreasury = {}
        /\ new.treasury = d.treasury /\ termsRest
    BY <1>0, <1>6 DEF CancelTreasury
  <2>2. TreasuryLock(m)!Cancel
    BY <1>01, <2>1 DEF TreasuryLock!Cancel
  <2> QED BY <1>1, <2>1, <2>2 DEF DepotStepAnnounced, TreasuryLock!Next
<1>7. CASE \E t \in Sheets : ProposeTerms(m, t)
  <2>1. PICK t \in Sheets : ProposeTerms(m, t)
    BY <1>7
  <2>2. /\ new.pendingTerms = {[target |-> t, eta |-> now + AdminDelay]}
        /\ new.terms = d.terms /\ treasuryRests
    BY <1>0, <2>1 DEF ProposeTerms, Announced
  <2> DEFINE p == [target |-> Sheet(t), eta |-> now + AdminDelay]
  <2>3. Announcement(new) = {p} /\ p.eta = now + AdminDelay
    <3>1. [[target |-> t, eta |-> now + AdminDelay] EXCEPT !.target = Sheet(@)] = p
      OBVIOUS
    <3> QED BY <2>2, <3>1 DEF Announcement
  <2>4. TermsLock(m)!Propose
    <3> HIDE DEF p
    <3> QED BY <1>01, <2>2, <2>3 DEF TermsLock!Propose, Announcement
  <2> QED BY <1>2, <2>2, <2>4 DEF DepotStepAnnounced, TermsLock!Next
<1>8. CASE ExecuteTerms(m)
  <2>1. PICK p \in Ready(d.pendingTerms) :
            new.terms = p.target /\ new.pendingTerms = {} /\ treasuryRests
    BY <1>0, <1>8 DEF ExecuteTerms
  <2> DEFINE seen == [p EXCEPT !.target = Sheet(@)]
  <2>2. seen \in Announcement(d) /\ seen.eta = p.eta /\ seen.target = Sheet(p.target)
    <3>1. p \in d.pendingTerms /\ p \in [target : Terms, eta : Nat]
      BY <1>0, <2>1 DEF Ready, Delayed
    <3> QED BY <3>1 DEF Announcement
  <2>3. now >= p.eta /\ Announcement(new) = {}
    BY <2>1 DEF Ready, Announcement
  <2>4. TermsLock(m)!Execute
    <3> HIDE DEF seen
    <3> QED BY <1>01, <2>1, <2>2, <2>3 DEF TermsLock!Execute, Announcement
  <2> QED BY <1>2, <2>1, <2>4 DEF DepotStepAnnounced, TermsLock!Next
<1>9. CASE CancelTerms(m)
  <2>1. /\ d.pendingTerms # {} /\ new.pendingTerms = {}
        /\ new.terms = d.terms /\ treasuryRests
    BY <1>0, <1>9 DEF CancelTerms
  <2>2. Announcement(d) # {} /\ Announcement(new) = {}
    BY <2>1 DEF Announcement
  <2>3. TermsLock(m)!Cancel
    BY <1>01, <2>1, <2>2 DEF TermsLock!Cancel, Announcement
  <2> QED BY <1>2, <2>1, <2>3 DEF DepotStepAnnounced, TermsLock!Next
<1>10. CASE \E amount \in Capacities : AddCapacity(m, amount)
  <2>1. PICK amount \in Capacities : AddCapacity(m, amount)
    BY <1>10
  <2> DEFINE more == d.terms.remainingCapacityNara + amount
             terms == [d.terms EXCEPT !.remainingCapacityNara = more]
  <2>2. d.terms \in Terms /\ more \in Nat
    BY <1>0, DepositoryAssumption DEF Terms
  <2>3. Sheet(terms) = Sheet(d.terms)
    <3> HIDE DEF more
    <3> QED BY <2>2, CapacityIsNoTerm
  <2>4. new.terms = terms /\ new.pendingTerms = d.pendingTerms /\ treasuryRests
    BY <1>0, <2>1 DEF AddCapacity
  <2> HIDE DEF terms
  <2>5. termsRest /\ treasuryRests
    BY <2>3, <2>4
  <2> QED BY <1>1, <1>2, <2>5 DEF DepotStepAnnounced
<1> QED BY <1>3, <1>4, <1>5, <1>6, <1>7, <1>8, <1>9, <1>10 DEF DepotGovernance

\* One depository's governance leaves the others' locks alone.
LEMMA OtherDepotRests ==
  ASSUME DepotOK, NEW m \in Depositories, NEW n \in Depositories \ {m}, DepotGovernance(m)
  PROVE  DepotLocksRest(n)
BY DEF DepotOK, DepotLocksRest, DepotGovernance, SetPaused, ProposeTreasury, ExecuteTreasury,
   CancelTreasury, ProposeTerms, ExecuteTerms, CancelTerms, AddCapacity, OnlyDepot

\* A purchase uses up capacity and nonces, which no lock is about.
LEMMA BuyRests ==
  ASSUME IInv, NEW q \in quotes, NEW notified \in BOOLEAN, NEW accepted \in BOOLEAN,
         Buy(q, notified, accepted)
  PROVE  VaultLocksRest /\ \A n \in Depositories : DepotLocksRest(n)
<1> DEFINE m == q.market
           d == depot[m]
           paid == q.ethIn - lockFee.wei
           gross == GrossUp(Payout(paid, d.terms))
           reward == (paid * d.terms.rewardSplitWad) \div WAD
           rest == paid - reward
           left == d.terms.remainingCapacityNara - gross
           terms == [d.terms EXCEPT !.remainingCapacityNara = left]
           nonces == [d.quoteNonces EXCEPT ![q.buyer] = @ + 1]
           rewardEth == IF notified THEN d.pendingRewardEth ELSE d.pendingRewardEth + reward
           restEth == IF accepted THEN d.pendingTreasuryEth ELSE d.pendingTreasuryEth + rest
           bonded == d.totalBondedEth + reward + rest
           new == [d EXCEPT !.totalBondedEth = bonded, !.pendingRewardEth = rewardEth,
                            !.pendingTreasuryEth = restEth, !.terms = terms,
                            !.quoteNonces = nonces]
<1>1. /\ q \in QuoteType /\ m \in Depositories /\ d.terms \in Terms /\ left \in Nat
      /\ d \in DepotType
  BY PurchaseAmounts DEF IInv, QuotesOK, DepotOK, DepotType
<1>2. Sheet(terms) = Sheet(d.terms)
  <2> HIDE DEF left
  <2> QED BY <1>1, CapacityIsNoTerm
<1>3. depot' = [depot EXCEPT ![m] = [Routed(d, reward, rest, notified, accepted) EXCEPT
                   !.terms.remainingCapacityNara = @ - gross, !.quoteNonces[q.buyer] = @ + 1]]
  BY Zenon DEF Buy
<1> DEFINE routed == [d EXCEPT !.totalBondedEth = bonded, !.pendingRewardEth = rewardEth,
                               !.pendingTreasuryEth = restEth]
<1>4. Routed(d, reward, rest, notified, accepted) = routed
  <2> HIDE DEF d, reward, rest
  <2> QED BY DEF Routed
<1>5. [routed EXCEPT !.terms.remainingCapacityNara = @ - gross, !.quoteNonces[q.buyer] = @ + 1] = new
  <2> HIDE DEF d, bonded, rewardEth, restEth, gross
  <2> QED BY <1>1 DEF DepotType
<1>6. /\ new.terms = terms /\ new.pendingTerms = d.pendingTerms
      /\ new.treasury = d.treasury /\ new.pendingTreasury = d.pendingTreasury
  <2> HIDE DEF d, bonded, rewardEth, restEth, terms, nonces
  <2> QED BY <1>1 DEF DepotType
<1>7. depot' = [depot EXCEPT ![m] = new]
  <2> HIDE DEF new, routed, d, reward, rest, gross
  <2> QED BY <1>3, <1>4, <1>5
<1> HIDE DEF new, terms
<1>8. depot'[m] = new /\ \A n \in Depositories \ {m} : depot'[n] = depot[n]
  BY <1>1, <1>7 DEF IInv, DepotOK
<1>9. now' = now
  BY DEF Buy
<1>10. \A n \in Depositories : DepotLocksRest(n)
  BY <1>2, <1>6, <1>8, <1>9 DEF DepotLocksRest
<1>11. PullAndSpend(m, gross)
  BY DEF Buy
<1>12. VaultLocksRest
  <2> HIDE DEF gross
  <2> QED BY <1>9, <1>11 DEF IInv, VaultOK, VaultType, PullAndSpend, VaultLocksRest
<1> QED BY <1>10, <1>12

\* Queued ETH leaves without touching a lock.
LEMMA FlushRests ==
  ASSUME IInv, NEW m \in Depositories,
         FlushRewardEth(m) \/ FlushTreasuryEth(m) \/ RescueRewardEth(m)
  PROVE  VaultLocksRest /\ \A n \in Depositories : DepotLocksRest(n)
<1>1. UNCHANGED <<now, vaultVars>>
  BY DEF FlushRewardEth, FlushTreasuryEth, RescueRewardEth, EthLeaves
<1>2. \A n \in Depositories : DepotLocksRest(n)
  BY <1>1 DEF FlushRewardEth, FlushTreasuryEth, RescueRewardEth, DepotLocksRest, IInv, DepotOK,
     DepotType
<1> QED BY <1>1, <1>2 DEF VaultLocksRest, vaultVars

\* NARA that comes back or is given does not touch a lock.
LEMMA NaraMovesRest ==
  ASSUME IInv, Donation \/ ReturnExcessToVault
  PROVE  VaultLocksRest /\ \A n \in Depositories : DepotLocksRest(n)
<1>1. UNCHANGED <<now, depotVars>>
  BY DEF Donation, ReturnExcessToVault, OnlyVaultMoves
<1>2. VaultLocksRest
  BY <1>1 DEF Donation, ReturnExcessToVault, FundVault, SendToMarket, ReturnUnsold, VaultLocksRest,
     IInv, VaultOK, VaultType
<1> QED BY <1>1, <1>2 DEF depotVars, DepotLocksRest

\* Time passes for all locks at once.
LEMMA TickAnnounced ==
  ASSUME IInv, Tick
  PROVE  VaultStepAnnounced /\ \A m \in Depositories : DepotStepAnnounced(m)
<1>1. now' > now /\ UNCHANGED <<vaultVars, depotVars>>
  BY DEF Tick, IInv, VaultOK
<1>2. MarketLock!Tick /\ CapLock!Tick
  BY <1>1 DEF MarketLock!Tick, CapLock!Tick, vaultVars
<1>3. \A m \in Depositories : TermsLock(m)!Tick /\ TreasuryLock(m)!Tick
  BY <1>1 DEF TermsLock!Tick, TreasuryLock!Tick, depotVars
<1> QED BY <1>2, <1>3 DEF VaultStepAnnounced, DepotStepAnnounced, MarketLock!Next, CapLock!Next,
   TermsLock!Next, TreasuryLock!Next

\* A step that leaves all that the locks read alone is a stutter of every lock.
LEMMA AllRest ==
  ASSUME VaultLocksRest, \A n \in Depositories : DepotLocksRest(n)
  PROVE  VaultStepAnnounced /\ \A n \in Depositories : DepotStepAnnounced(n)
BY VaultRests, DepotRests

\* Every step of the bond market is, for each of its locks, a step of a timelock or none.
LEMMA StepAnnounced ==
  ASSUME IInv, [Next]_vars
  PROVE  VaultStepAnnounced /\ \A n \in Depositories : DepotStepAnnounced(n)
<1>1. CASE VaultGovernance
  <2>1. \A n \in Depositories : DepotLocksRest(n)
    BY <1>1 DEF VaultGovernance, OnlyVaultMoves, depotVars, DepotLocksRest
  <2> QED BY <1>1, <2>1, VaultGovernanceAnnounced, DepotRests DEF IInv
<1>2. CASE Donation \/ ReturnExcessToVault
  BY <1>2, NaraMovesRest, AllRest
<1>3. CASE \E m \in Depositories : DepotGovernance(m)
  <2>1. PICK m \in Depositories : DepotGovernance(m)
    BY <1>3
  <2>2. OnlyDepot
    BY <2>1, DepotGovernanceKeeps DEF IInv
  <2>3. VaultLocksRest
    BY <2>2 DEF OnlyDepot, vaultVars, VaultLocksRest
  <2>4. \A n \in Depositories \ {m} : DepotStepAnnounced(n)
    BY <2>1, OtherDepotRests, DepotRests DEF IInv
  <2>5. DepotStepAnnounced(m)
    BY <2>1, DepotGovernanceAnnounced DEF IInv
  <2> QED BY <2>3, <2>4, <2>5, VaultRests
<1>4. CASE \E m \in Depositories :
              FlushRewardEth(m) \/ FlushTreasuryEth(m) \/ RescueRewardEth(m)
  BY <1>4, FlushRests, AllRest
<1>5. CASE \E m \in Depositories, b \in Buyers, ethIn \in Deposits,
              bounds \in PayoutBounds, w \in Windows : Sign(m, b, ethIn, bounds, w)
  <2>1. UNCHANGED <<now, vaultVars, depot>>
    BY <1>5 DEF Sign
  <2> QED BY <2>1, AllRest DEF vaultVars, VaultLocksRest, DepotLocksRest
<1>6. CASE \E q \in quotes, notified, accepted \in BOOLEAN : Buy(q, notified, accepted)
  <2>1. PICK q \in quotes, notified \in BOOLEAN, accepted \in BOOLEAN : Buy(q, notified, accepted)
    BY <1>6, Zenon
  <2>2. VaultLocksRest /\ \A n \in Depositories : DepotLocksRest(n)
    BY <2>1, BuyRests, Zenon
  <2> QED BY <2>2, AllRest
<1>7. CASE \E f \in LockFees : SetLockFee(f)
  <2>1. UNCHANGED <<now, vaultVars, depot>>
    BY <1>7 DEF SetLockFee
  <2> QED BY <2>1, AllRest DEF vaultVars, VaultLocksRest, DepotLocksRest
<1>8. CASE Tick
  BY <1>8, TickAnnounced
<1>9. CASE UNCHANGED vars
  <2>1. UNCHANGED <<now, vaultVars, depot>>
    BY <1>9 DEF vars, depotVars
  <2> QED BY <2>1, AllRest DEF vaultVars, VaultLocksRest, DepotLocksRest
<1> QED BY <1>1, <1>2, <1>3, <1>4, <1>5, <1>6, <1>7, <1>8, <1>9, Zenon DEF Next

\* The market, the cap, the terms and the treasury of any number of depositories change
\* only to what was announced for the whole delay: the system implements each timelock.
THEOREM BondsImplementTimelock == Spec => BondChangesAnnounced
<1>1. ASSUME Init
      PROVE  /\ MarketLock!Init /\ CapLock!Init
             /\ \A m \in Depositories : TermsLock(m)!Init /\ TreasuryLock(m)!Init
  <2>1. MarketLock!Init /\ CapLock!Init
    BY <1>1 DEF Init, VaultInit, MarketLock!Init, CapLock!Init
  <2>2. \A m \in Depositories : TermsLock(m)!Init /\ TreasuryLock(m)!Init
    BY <1>1 DEF Init, TermsLock!Init, TreasuryLock!Init
  <2> QED BY <2>1, <2>2
<1>2. IInv /\ [Next]_vars => BondStepAnnounced
  BY StepAnnounced DEF VaultStepAnnounced, DepotStepAnnounced, BondStepAnnounced
<1> QED BY <1>1, <1>2, BondInvariant, PTL DEF Spec, BondChangesAnnounced
================================================================================
