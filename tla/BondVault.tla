------------------------------- MODULE BondVault -------------------------------
(* NARABondVaultV4.sol: the NARA that bonds are sold from. A market may pull from it up
   to a release cap that is announced in advance and never exceeds the lifetime
   allocation; what a market gives back frees its share of the cap again.             *)
EXTENDS Naturals

CONSTANTS
    Markets,            \* depositories that can be made the vault's market
    None,
    ActionDelay,        \* actionDelay
    InitialAllocation   \* initialBondAllocation, at most MAX_BOND_ALLOCATION

ASSUME BondVaultAssumption ==
    /\ None \notin Markets
    /\ ActionDelay \in Nat \ {0}
    /\ InitialAllocation \in Nat \ {0}

VARIABLES
    now,        \* block.timestamp
    vault,      \* the vault's storage
    inventory,  \* its NARA
    parked      \* the NARA of each market

vaultVars == <<vault, inventory, parked>>

\* PendingAddressChange, PendingUintChange: empty, or one announced target.
Announced(target, delay) == {[target |-> target, eta |-> now + delay]}
Ready(pending) == {p \in pending : now >= p.eta}

VaultInit ==
    /\ vault = [nara |-> FALSE, market |-> None, previousMarket |-> None, pendingMarket |-> {},
                activeReleaseCap |-> 0, pendingCap |-> {}, totalReleased |-> 0, totalReturned |-> 0]
    /\ inventory = 0
    /\ parked = [m \in Markets |-> 0]

OnlyVault == UNCHANGED <<inventory, parked>>

--------------------------------------------------------------------------------
\* More may come back than was ever released: the difference is not below zero.
NetReleased == IF vault.totalReleased > vault.totalReturned
               THEN vault.totalReleased - vault.totalReturned ELSE 0

BondInventory == IF vault.nara THEN inventory ELSE 0

AvailableToPull ==
    LET remainingCap == IF vault.activeReleaseCap > NetReleased
                        THEN vault.activeReleaseCap - NetReleased ELSE 0
    IN  IF BondInventory < remainingCap THEN BondInventory ELSE remainingCap

CapAllowed(cap) == NetReleased <= cap /\ cap <= NetReleased + BondInventory

--------------------------------------------------------------------------------
SetNara == /\ ~vault.nara
           /\ vault' = [vault EXCEPT !.nara = TRUE]
           /\ OnlyVault

ProposeMarket(m) ==
    /\ vault.pendingMarket = {} /\ m # vault.market
    /\ vault' = [vault EXCEPT !.pendingMarket = Announced(m, ActionDelay)]
    /\ OnlyVault

\* One market at a time may be on its way out.
ExecuteMarketChange ==
    /\ vault.previousMarket = None
    /\ \E p \in Ready(vault.pendingMarket) :
          vault' = [vault EXCEPT !.market = p.target, !.previousMarket = vault.market,
                                 !.pendingMarket = {}]
    /\ OnlyVault

CancelMarketChange ==
    /\ vault.pendingMarket # {}
    /\ vault' = [vault EXCEPT !.pendingMarket = {}]
    /\ OnlyVault

ClearPreviousMarket ==
    /\ vault.previousMarket # None /\ vault.nara
    /\ parked[vault.previousMarket] = 0
    /\ vault' = [vault EXCEPT !.previousMarket = None]
    /\ OnlyVault

\* What the old market still holds stays there, and stays counted against the cap.
ForceClearPreviousMarket ==
    /\ vault.previousMarket # None /\ vault.nara
    /\ vault' = [vault EXCEPT !.previousMarket = None]
    /\ OnlyVault

ProposeReleaseCap(cap) ==
    /\ vault.pendingCap = {} /\ cap # vault.activeReleaseCap
    /\ cap <= InitialAllocation /\ CapAllowed(cap)
    /\ vault' = [vault EXCEPT !.pendingCap = Announced(cap, ActionDelay)]
    /\ OnlyVault

\* Mutant: a cap that was fine when it was proposed comes into force unexamined.
ExecuteReleaseCapChange_Unexamined ==
    /\ \E p \in Ready(vault.pendingCap) :
          vault' = [vault EXCEPT !.activeReleaseCap = p.target, !.pendingCap = {}]
    /\ OnlyVault

\* Releases went on since the proposal: both ends are compared again.
ExecuteReleaseCapChange ==
    /\ \E p \in Ready(vault.pendingCap) :
          /\ CapAllowed(p.target)
          /\ vault' = [vault EXCEPT !.activeReleaseCap = p.target, !.pendingCap = {}]
    /\ OnlyVault

CancelReleaseCapChange ==
    /\ vault.pendingCap # {}
    /\ vault' = [vault EXCEPT !.pendingCap = {}]
    /\ OnlyVault

--------------------------------------------------------------------------------
CanPull(m, amount) == /\ m = vault.market /\ vault.nara
                      /\ 0 < amount /\ amount <= AvailableToPull

\* pullToMarket inside a purchase: the market passes the NARA on in the same transaction.
PullAndSpend(m, amount) ==
    /\ CanPull(m, amount)
    /\ vault' = [vault EXCEPT !.totalReleased = @ + amount]
    /\ inventory' = inventory - amount
    /\ UNCHANGED parked

\* returnUnsold by the market or the one before it, of everything that it holds
\* (returnExcessToVault).
ReturnUnsold(m) ==
    /\ m \in {vault.market, vault.previousMarket} /\ vault.nara
    /\ parked[m] > 0
    /\ vault' = [vault EXCEPT !.totalReturned = @ + parked[m]]
    /\ inventory' = inventory + parked[m]
    /\ parked' = [parked EXCEPT ![m] = 0]

\* Anyone may send NARA to the vault or to a market; the treasury funds the vault so.
FundVault(amount) ==
    /\ inventory' = inventory + amount
    /\ UNCHANGED <<vault, parked>>

SendToMarket(m, amount) ==
    /\ parked' = [parked EXCEPT ![m] = @ + amount]
    /\ UNCHANGED <<vault, inventory>>
================================================================================
