---------------------------- MODULE MCTreasurySales ----------------------------
(* The two ways in which the treasury sells NARA, for TLC: bonds from the bond vault, and
   range orders held by the range manager. They share no state, so an execution is about
   one of them; a search about bonds is split by topic.                               *)
EXTENDS BondProperties, RangeOrders

CONSTANTS m1, m2

VARIABLE sale

Sheet1(rate, split, capacity) ==
    [naraPerEthWad |-> rate, rewardSplitWad |-> split, minDepositWei |-> 1,
     maxPayoutNara |-> 4, remainingCapacityNara |-> capacity, active |-> TRUE]

\* WAD = 2: one unit of ETH buys one unit of NARA, or one and a half.
MCInitialTerms == Sheet1(2, 1, 0)
MCSheets == {Sheet1(3, 1, 3), [Sheet1(2, 1, 0) EXCEPT !.active = FALSE]}
MCPayoutBounds == {<<1, 4>>, <<2, 2>>}
MCLockFees == {[bps |-> 1, wei |-> 0], [bps |-> 0, wei |-> 1]}

--------------------------------------------------------------------------------
\* What a topic leaves out rests. The token is set and the stock is sent at once.
Set      == now > 0 => vault.nara
Sealed   == parked[m1] = 0 /\ parked[m2] = 0 /\ inventory + vault.totalReleased \in {0, 4}
Opened   == /\ vault.previousMarket = None
            /\ \A p \in vault.pendingMarket : p = [target |-> m1, eta |-> 1]
            /\ \A p \in vault.pendingCap : p = [target |-> 4, eta |-> 1]
            /\ \/ vault.market = m1 /\ vault.activeReleaseCap = 4
               \/ now <= 1 /\ quotes = {} /\ depot[m1].pendingTreasury = {}
FeesRest == lockFee = [bps |-> 0, wei |-> 0]
TermsRest == depot[m1].pendingTerms = {} /\ depot[m1].terms.active
             /\ depot[m1].terms.naraPerEthWad = InitialTerms.naraPerEthWad
TreasuryRests == depot[m1].treasury = InitialTreasury /\ depot[m1].pendingTreasury = {}
EthRests == eth[m1] = 0

\* A quote used at the time it was signed.
AtOnce(q) == \/ q.deadline = now
             \/ \E i \in DOMAIN bonds : bonds[i].quote = q /\ bonds[i].at = q.deadline

AboutVault == /\ FeesRest /\ TermsRest /\ TreasuryRests /\ EthRests
              /\ \A q \in quotes : q.minPayout = 1 /\ AtOnce(q)
              /\ depot[m1].paused => bonds = <<>> /\ quotes = {}
              /\ depot[m1].terms.remainingCapacityNara \in {0, 2, 4}
              /\ parked[m2] = 0
AboutTerms == /\ \A q \in quotes : q.minPayout = 1
              /\ Sealed /\ Opened /\ TreasuryRests /\ EthRests /\ FeesRest
AboutEth   == /\ Sealed /\ Opened /\ TermsRest
              /\ \A q \in quotes : AtOnce(q)

OneTopic == Set /\ (AboutVault \/ AboutTerms \/ AboutEth)

--------------------------------------------------------------------------------
MCRanges == {[lower |-> 1, upper |-> 2], [lower |-> 1, upper |-> 3]}

saleVars == <<vars, orderVars, sale>>

SaleInit == Init /\ OrdersInit /\ sale \in {"bonds", "orders"} /\ (sale = "bonds" => price = 1)
SaleNext == \/ sale = "bonds" /\ Next /\ UNCHANGED <<sale, orderVars>>
            \/ sale = "orders" /\ OrdersNext /\ UNCHANGED <<sale, vars>>
SaleSpec == SaleInit /\ [][SaleNext]_saleVars
================================================================================
