---------------------------- MODULE BondDepository ----------------------------
(* NARABondDepositoryV4NFT.sol on its vault: a buyer with a signed quote pays ETH, NARA is
   pulled from the vault and locked for her in a new position, and the ETH goes to the
   engine's rewards and to the treasury, or waits when either refuses it. The vault serves
   one market at a time; a market that is no depository just holds NARA. The engine and the position NFT are
   what this module says of them: a lock fee and an answer.                            *)
EXTENDS BondVault, Sequences, FiniteSets

CONSTANTS
    Depositories,       \* the markets with this code
    Buyers, Treasuries,
    BPS, WAD,
    AdminDelay,         \* adminDelay
    MIN_PRICE_DELAY, MAX_TERMS_AGE,
    InitialTerms, InitialTreasury,
    \* Inputs and bounds
    Sheets,             \* terms that may be proposed
    Gifts, Capacities, Caps, Deposits, PayoutBounds, Windows, LockFees,
    MaxNow, MaxNara, MaxQuotes, MaxBonds

Terms == [naraPerEthWad : Nat,          \* with the discount of the sheet already in it
          rewardSplitWad : 0 .. WAD, minDepositWei : Nat, maxPayoutNara : Nat,
          remainingCapacityNara : Nat, active : BOOLEAN]

\* _validateTerms; the lock duration and the genesis data are not modelled.
ValidTerms(t) == t \in Terms /\ t.naraPerEthWad > 0 /\ t.minDepositWei > 0 /\ t.maxPayoutNara > 0

ASSUME DepositoryAssumption ==
    /\ Depositories \subseteq Markets
    /\ BPS \in Nat \ {0} /\ WAD \in Nat \ {0}
    /\ MIN_PRICE_DELAY \in Nat \ {0} /\ MAX_TERMS_AGE \in Nat
    /\ AdminDelay \in MIN_PRICE_DELAY .. MAX_TERMS_AGE - MIN_PRICE_DELAY
    /\ ValidTerms(InitialTerms) /\ InitialTerms.remainingCapacityNara = 0
    /\ InitialTreasury \in Treasuries
    /\ \A s \in Sheets : ValidTerms(s)
    /\ LockFees \subseteq [bps : 0 .. BPS - 1, wei : Nat]
    /\ Gifts \subseteq Nat /\ Capacities \subseteq Nat /\ Caps \subseteq Nat
    /\ Deposits \subseteq Nat /\ PayoutBounds \subseteq Nat \X Nat /\ Windows \subseteq Nat
    /\ MaxNow \in Nat /\ MaxNara \in Nat /\ MaxQuotes \in Nat /\ MaxBonds \in Nat

VARIABLES
    depot,      \* the storage of each depository
    eth,        \* the ETH each of them holds
    sent,       \* the ETH that left each of them, by receiver
    lockFee,    \* the engine's lockFeeBps and lockFeeWei
    quotes,     \* everything the price signer ever signed
    bonds       \* the bonds minted, in order

depotVars == <<depot, eth, sent, lockFee, quotes, bonds>>
vars == <<now, vaultVars, depotVars>>

Init ==
    /\ now = 0
    /\ VaultInit
    /\ depot = [m \in Depositories |->
          [terms |-> InitialTerms, termsActivatedAt |-> now, pendingTerms |-> {},
           treasury |-> InitialTreasury, pendingTreasury |-> {}, paused |-> FALSE,
           totalBondedEth |-> 0, pendingRewardEth |-> 0, pendingTreasuryEth |-> 0,
           quoteNonces |-> [b \in Buyers |-> 0]]]
    /\ eth = [m \in Depositories |-> 0]
    /\ sent = [m \in Depositories |-> [engine |-> 0, treasury |-> 0]]
    /\ lockFee = [bps |-> 0, wei |-> 0]
    /\ quotes = {}
    /\ bonds = <<>>

OnlyDepot == UNCHANGED <<now, vaultVars, eth, sent, lockFee, quotes, bonds>>

--------------------------------------------------------------------------------
(* Governance of a depository                                                        *)

\* pause, unpause.
SetPaused(m, paused) ==
    /\ depot[m].paused # paused
    /\ depot' = [depot EXCEPT ![m].paused = paused]
    /\ OnlyDepot

ProposeTreasury(m, to) ==
    /\ depot[m].pendingTreasury = {}
    /\ depot' = [depot EXCEPT ![m].pendingTreasury = Announced(to, AdminDelay)]
    /\ OnlyDepot

ExecuteTreasury(m) ==
    /\ \E p \in Ready(depot[m].pendingTreasury) :
          depot' = [depot EXCEPT ![m].treasury = p.target, ![m].pendingTreasury = {}]
    /\ OnlyDepot

CancelTreasury(m) ==
    /\ depot[m].pendingTreasury # {}
    /\ depot' = [depot EXCEPT ![m].pendingTreasury = {}]
    /\ OnlyDepot

\* Mutant: a second proposal takes the place of the first and inherits its date.
ProposeTerms_Replaces(m, t) ==
    /\ depot' = [depot EXCEPT ![m].pendingTerms =
                    IF @ = {} THEN Announced(t, AdminDelay)
                    ELSE {[p EXCEPT !.target = t] : p \in @}]
    /\ OnlyDepot

ProposeTerms(m, t) ==
    /\ depot[m].pendingTerms = {}
    /\ depot' = [depot EXCEPT ![m].pendingTerms = Announced(t, AdminDelay)]
    /\ OnlyDepot

\* Mutant: new terms come into force under the date of the old ones.
ExecuteTerms_DateKept(m) ==
    /\ depot[m].paused
    /\ \E p \in Ready(depot[m].pendingTerms) :
          /\ p.target.remainingCapacityNara <= AvailableToPull
          /\ depot' = [depot EXCEPT ![m].terms = p.target, ![m].pendingTerms = {}]
    /\ OnlyDepot

ExecuteTerms(m) ==
    /\ depot[m].paused
    /\ \E p \in Ready(depot[m].pendingTerms) :
          /\ p.target.remainingCapacityNara <= AvailableToPull
          /\ depot' = [depot EXCEPT ![m].terms = p.target, ![m].pendingTerms = {},
                                    ![m].termsActivatedAt = now]
    /\ OnlyDepot

CancelTerms(m) ==
    /\ depot[m].pendingTerms # {}
    /\ depot' = [depot EXCEPT ![m].pendingTerms = {}]
    /\ OnlyDepot

TermsFresh(m) == now <= depot[m].termsActivatedAt + MAX_TERMS_AGE

AddCapacity(m, amount) ==
    /\ depot[m].paused /\ TermsFresh(m) /\ amount > 0
    /\ depot[m].terms.remainingCapacityNara + amount <= AvailableToPull
    /\ depot' = [depot EXCEPT ![m].terms.remainingCapacityNara = @ + amount]
    /\ OnlyDepot

--------------------------------------------------------------------------------
(* Purchases                                                                         *)

\* What a quote is about: the terms a purchase does not use up.
Sheet(t) == [t EXCEPT !.remainingCapacityNara = 0]

\* The price signer signs what it reads: a nonce, an activation, a payment, two bounds.
Sign(m, b, ethIn, bounds, window) ==
    /\ quotes' = quotes \cup
          {[market |-> m, buyer |-> b, ethIn |-> ethIn,
            minPayout |-> bounds[1], maxPayout |-> bounds[2], deadline |-> now + window,
            nonce |-> depot[m].quoteNonces[b], termsActivatedAt |-> depot[m].termsActivatedAt,
            sheet |-> Sheet(depot[m].terms)]}
    /\ UNCHANGED <<now, vaultVars, depot, eth, sent, lockFee, bonds>>

\* _consumeQuote recomputes the digest: what was signed must be what is true now.
QuoteValid(m, q) ==
    /\ q.market = m
    /\ q.minPayout > 0 /\ q.minPayout <= q.maxPayout
    /\ now <= q.deadline
    /\ q.nonce = depot[m].quoteNonces[q.buyer]
    /\ q.termsActivatedAt = depot[m].termsActivatedAt

Payout(bondEthIn, t) == (bondEthIn * t.naraPerEthWad) \div WAD

\* _grossUpForLockFee rounds up, the engine's fee is rounded down.
GrossUp(netAmount) == (netAmount * BPS + (BPS - lockFee.bps) - 1) \div (BPS - lockFee.bps)
Locked(gross) == gross - (gross * lockFee.bps) \div BPS

\* Mutant: what is queued takes the place of what was queued before.
Routed_Overwritten(d, rewardEth, treasuryEth, notified, accepted) ==
    [d EXCEPT !.totalBondedEth = @ + rewardEth + treasuryEth,
              !.pendingRewardEth = IF notified THEN @ ELSE rewardEth,
              !.pendingTreasuryEth = IF accepted THEN @ ELSE treasuryEth]

\* notifyEthRewards and the treasury may refuse: what they refuse is queued.
Routed(d, rewardEth, treasuryEth, notified, accepted) ==
    [d EXCEPT !.totalBondedEth = @ + rewardEth + treasuryEth,
              !.pendingRewardEth = IF notified THEN @ ELSE @ + rewardEth,
              !.pendingTreasuryEth = IF accepted THEN @ ELSE @ + treasuryEth]

\* buyBondWithQuote, buyBondForWithQuote: _consumeQuote and _createBond.
Buy(q, notified, accepted) ==
    LET m == q.market
        t == depot[m].terms
        bondEthIn == q.ethIn - lockFee.wei
        payout == Payout(bondEthIn, t)
        gross == GrossUp(payout)
        rewardEth == (bondEthIn * t.rewardSplitWad) \div WAD
        treasuryEth == bondEthIn - rewardEth
    IN  /\ ~depot[m].paused /\ QuoteValid(m, q)
        /\ t.active /\ TermsFresh(m)
        /\ q.ethIn > lockFee.wei /\ bondEthIn >= t.minDepositWei
        /\ q.minPayout <= payout /\ payout <= q.maxPayout /\ payout <= t.maxPayoutNara
        /\ gross <= t.remainingCapacityNara
        /\ PullAndSpend(m, gross)
        /\ depot' = [depot EXCEPT ![m] =
              [Routed(depot[m], rewardEth, treasuryEth, notified, accepted) EXCEPT
                  !.terms.remainingCapacityNara = @ - gross,
                  !.quoteNonces[q.buyer] = @ + 1]]
        /\ sent' = [sent EXCEPT ![m].engine = IF notified THEN @ + rewardEth ELSE @,
                                ![m].treasury = IF accepted THEN @ + treasuryEth ELSE @]
        /\ eth' = [eth EXCEPT ![m] = @ + (IF notified THEN 0 ELSE rewardEth)
                                       + (IF accepted THEN 0 ELSE treasuryEth)]
        /\ bonds' = Append(bonds, [quote |-> q, at |-> now, sheet |-> Sheet(t),
                                   payout |-> payout, gross |-> gross, locked |-> Locked(gross)])
        /\ UNCHANGED <<now, lockFee, quotes>>

--------------------------------------------------------------------------------
(* ETH that waits                                                                    *)

EthLeaves(m, to, amount) ==
    /\ eth' = [eth EXCEPT ![m] = @ - amount]
    /\ sent' = [sent EXCEPT ![m][to] = @ + amount]
    /\ UNCHANGED <<now, vaultVars, lockFee, quotes, bonds>>

\* A flush that is refused again leaves everything as it was.
FlushRewardEth(m) ==
    /\ depot[m].pendingRewardEth > 0
    /\ depot' = [depot EXCEPT ![m].pendingRewardEth = 0]
    /\ EthLeaves(m, "engine", depot[m].pendingRewardEth)

FlushTreasuryEth(m) ==
    /\ depot[m].pendingTreasuryEth > 0
    /\ depot' = [depot EXCEPT ![m].pendingTreasuryEth = 0]
    /\ EthLeaves(m, "treasury", depot[m].pendingTreasuryEth)

\* Rewards the engine goes on refusing may be sent to the treasury, and nowhere else.
RescueRewardEth(m) ==
    /\ depot[m].pendingRewardEth > 0
    /\ depot' = [depot EXCEPT ![m].pendingRewardEth = 0]
    /\ EthLeaves(m, "treasury", depot[m].pendingRewardEth)

--------------------------------------------------------------------------------
OnlyVaultMoves == UNCHANGED <<now, depotVars>>

VaultGovernance ==
    /\ \/ SetNara
       \/ \E m \in Markets : ProposeMarket(m)
       \/ ExecuteMarketChange
       \/ CancelMarketChange
       \/ ClearPreviousMarket
       \/ ForceClearPreviousMarket
       \/ \E cap \in Caps : ProposeReleaseCap(cap)
       \/ ExecuteReleaseCapChange
       \/ CancelReleaseCapChange
    /\ OnlyVaultMoves

AllNara == inventory + vault.totalReleased + vault.totalReturned
Donation ==
    /\ \E amount \in Gifts : AllNara + amount <= MaxNara /\
          (FundVault(amount) \/ \E m \in Markets : parked[m] = 0 /\ SendToMarket(m, amount))
    /\ OnlyVaultMoves

ReturnExcessToVault == (\E m \in Markets : ReturnUnsold(m)) /\ OnlyVaultMoves

DepotGovernance(m) ==
    \/ \E paused \in BOOLEAN : SetPaused(m, paused)
    \/ \E to \in Treasuries : ProposeTreasury(m, to)
    \/ ExecuteTreasury(m)
    \/ CancelTreasury(m)
    \/ \E t \in Sheets : ProposeTerms(m, t)
    \/ ExecuteTerms(m)
    \/ CancelTerms(m)
    \/ \E amount \in Capacities : AddCapacity(m, amount)

\* setLockFee and setLockEthFee of the engine.
SetLockFee(f) == /\ f # lockFee
                 /\ lockFee' = f
                 /\ UNCHANGED <<now, vaultVars, depot, eth, sent, quotes, bonds>>

Tick == /\ now < MaxNow
        /\ now' = now + 1
        /\ UNCHANGED <<vaultVars, depotVars>>

Next ==
    \/ VaultGovernance
    \/ Donation
    \/ ReturnExcessToVault
    \/ \E m \in Depositories : \/ DepotGovernance(m)
                               \/ FlushRewardEth(m) \/ FlushTreasuryEth(m) \/ RescueRewardEth(m)
    \/ \E m \in Depositories, b \in Buyers, ethIn \in Deposits, bounds \in PayoutBounds, w \in Windows :
          Cardinality(quotes) < MaxQuotes /\ Sign(m, b, ethIn, bounds, w)
    \/ \E q \in quotes, notified, accepted \in BOOLEAN : Len(bonds) < MaxBonds /\ Buy(q, notified, accepted)
    \/ \E f \in LockFees : SetLockFee(f)
    \/ Tick

Spec == Init /\ [][Next]_vars
================================================================================
