----------------------------- MODULE BondProperties -----------------------------
(* What the bond market promises to the treasury, to buyers and to holders.          *)
EXTENDS BondDepository, PrefixSum

Gross == [i \in DOMAIN bonds |-> bonds[i].gross]
Sold == SumTo(Gross, Len(bonds))

\* Never more of the lifetime allocation is out than the cap in force allows, however
\* releases, returns, market changes and cap changes announced earlier are mixed
\* (executeReleaseCapChange compares again); and NARA leaves the vault only into
\* positions: everything sold is released, everything returned was first sent to a market.
BudgetHeld ==
    /\ NetReleased <= vault.activeReleaseCap
    /\ vault.activeReleaseCap <= InitialAllocation
    /\ Sold = vault.totalReleased

\* A signed quote buys at most one bond, before its deadline, for a payout within its
\* bounds, all of which is locked for the buyer whatever the lock fee has become since;
\* and the price is that of the very terms the signer looked at: quotes die with them.
QuotesHonoured ==
    /\ \A i, j \in DOMAIN bonds : i # j => bonds[i].quote # bonds[j].quote
    /\ \A i \in DOMAIN bonds :
          LET q == bonds[i].quote
          IN  /\ bonds[i].at <= q.deadline
              /\ bonds[i].payout \in q.minPayout .. q.maxPayout
              /\ bonds[i].locked >= bonds[i].payout
              /\ bonds[i].sheet = q.sheet

\* The ETH a depository holds is exactly what it still owes to the engine and to the
\* treasury, and with what it has sent adds up to everything ever bonded, whichever
\* receiver refused, was retried, was changed, or had its share rescued.
EthAccounted ==
    \A m \in Depositories :
        /\ eth[m] = depot[m].pendingRewardEth + depot[m].pendingTreasuryEth
        /\ depot[m].totalBondedEth = sent[m].engine + sent[m].treasury + eth[m]

--------------------------------------------------------------------------------
(* The delayed changes of vault and depository are the same timelock as the growth
   contracts', with nothing open and nothing locked.                                 *)

MarketLock == INSTANCE Timelock WITH
    Delay <- ActionDelay, value <- vault.market, pending <- vault.pendingMarket,
    open <- FALSE, locked <- FALSE

CapLock == INSTANCE Timelock WITH
    Delay <- ActionDelay, value <- vault.activeReleaseCap, pending <- vault.pendingCap,
    open <- FALSE, locked <- FALSE

TermsLock(m) == INSTANCE Timelock WITH
    Delay <- AdminDelay, value <- Sheet(depot[m].terms),
    pending <- {[p EXCEPT !.target = Sheet(@)] : p \in depot[m].pendingTerms},
    open <- FALSE, locked <- FALSE

TreasuryLock(m) == INSTANCE Timelock WITH
    Delay <- AdminDelay, value <- depot[m].treasury, pending <- depot[m].pendingTreasury,
    open <- FALSE, locked <- FALSE

BondStepAnnounced ==
    /\ [MarketLock!Next]_(MarketLock!vars)
    /\ [CapLock!Next]_(CapLock!vars)
    /\ \A m \in Depositories : /\ [TermsLock(m)!Next]_(TermsLock(m)!vars)
                          /\ [TreasuryLock(m)!Next]_(TreasuryLock(m)!vars)

\* The market, the cap, the terms but for their capacity, and the treasury change only to
\* what was announced, unchanged, for the whole delay: each implements Timelock.
BondChangesAnnounced ==
    /\ MarketLock!Init /\ CapLock!Init
    /\ \A m \in Depositories : TermsLock(m)!Init /\ TreasuryLock(m)!Init
    /\ [][BondStepAnnounced]_vars
================================================================================
