------------------------------- MODULE GrowthVault -------------------------------
(* NARALiquidityGrowthVault: it holds the skimmed fees until a keeper compounds them
   into protocol-owned liquidity or routes base to the genesis distributor. The
   Engine and Split routes are refused by setRouteMode, so that setEngine,
   setSplitEngineShare, routeToEngine and processSplitAll never move anything.       *)
EXTENDS GrowthClock

CONSTANTS
    TARGET_UPDATE_DELAY,   \* the delay of a change of compounder or distributor
    MAX_KEEPER_BOUNTY_BPS,
    Distributors           \* genesis distributors of the base token

VARIABLES
    vault,      \* the vault's configuration
    books,      \* its lifetime totals
    balance,    \* the tokens it holds, by currency
    received    \* base that each genesis distributor was sent

vaultVars == <<vault, books, balance, received>>

Currencies == {"token", "base"}
RouteModes == {"Liquidity", "Engine", "Split", "Genesis", "GenesisSplit"}
GenesisModes == {"Genesis", "GenesisSplit"}

ASSUME VaultAssumption == /\ TARGET_UPDATE_DELAY \in Nat \ {0}
                          /\ MAX_KEEPER_BOUNTY_BPS \in 0 .. BPS
                          /\ None \notin Compounders \cup Distributors
                          /\ IsFiniteSet(Distributors)

VaultInit ==
    /\ vault = [hook |-> FALSE,
                compounder |-> None, pendingCompounder |-> {}, compounderFrozen |-> FALSE,
                distributor |-> None, pendingDistributor |-> {}, distributorFrozen |-> FALSE,
                routeMode |-> "Liquidity", keeperAllowed |-> FALSE,
                keeperBountyBps |-> 0, minCompoundBase |-> 0, splitGenesisShareBps |-> 0]
    /\ books = [fees |-> [c \in Currencies |-> 0], compounded |-> [c \in Currencies |-> 0],
                bountyPaid |-> 0, routedToGenesis |-> 0]
    /\ balance = [c \in Currencies |-> 0]
    /\ received = [d \in Distributors |-> 0]

--------------------------------------------------------------------------------

\* setHook: once.
SetHook == /\ ~vault.hook
           /\ vault' = [vault EXCEPT !.hook = TRUE]
           /\ UNCHANGED <<books, balance, received>>

\* Nothing was recorded and nothing is held: a first target may be set at once.
Untouched == \A c \in Currencies : books.fees[c] = 0 /\ balance[c] = 0

SetCompounder(target) ==
    /\ vault.compounder = None /\ Untouched /\ vault.hook
    /\ vault' = [vault EXCEPT !.compounder = target]
    /\ UNCHANGED <<books, balance, received>>

\* Mutant: a second proposal inherits the delay that has run for the first.
ProposeCompounder_EtaKept(target) ==
    /\ ~vault.compounderFrozen /\ vault.hook
    /\ vault' = [vault EXCEPT !.pendingCompounder =
          IF @ = {} THEN Staged(target, TARGET_UPDATE_DELAY)
          ELSE {[p EXCEPT !.target = target] : p \in @}]
    /\ UNCHANGED <<books, balance, received>>

ProposeCompounder(target) ==
    /\ ~vault.compounderFrozen /\ vault.hook
    /\ vault' = [vault EXCEPT !.pendingCompounder = Staged(target, TARGET_UPDATE_DELAY)]
    /\ UNCHANGED <<books, balance, received>>

CancelCompounderProposal ==
    /\ vault.pendingCompounder # {}
    /\ vault' = [vault EXCEPT !.pendingCompounder = {}]
    /\ UNCHANGED <<books, balance, received>>

ExecuteCompounder ==
    /\ ~vault.compounderFrozen
    /\ \E p \in Ready(vault.pendingCompounder) :
          vault' = [vault EXCEPT !.compounder = p.target, !.pendingCompounder = {}]
    /\ UNCHANGED <<books, balance, received>>

FreezeCompounder ==
    /\ vault.compounder # None
    /\ vault.pendingCompounder = {}
    /\ vault' = [vault EXCEPT !.compounderFrozen = TRUE]
    /\ UNCHANGED <<books, balance, received>>

SetGenesisRewardDistributor(target) ==
    /\ vault.distributor = None /\ Untouched
    /\ vault' = [vault EXCEPT !.distributor = target]
    /\ UNCHANGED <<books, balance, received>>

ProposeGenesisRewardDistributor(target) ==
    /\ ~vault.distributorFrozen
    /\ vault' = [vault EXCEPT !.pendingDistributor = Staged(target, TARGET_UPDATE_DELAY)]
    /\ UNCHANGED <<books, balance, received>>

CancelGenesisRewardDistributorProposal ==
    /\ vault.pendingDistributor # {}
    /\ vault' = [vault EXCEPT !.pendingDistributor = {}]
    /\ UNCHANGED <<books, balance, received>>

ExecuteGenesisRewardDistributor ==
    /\ ~vault.distributorFrozen
    /\ \E p \in Ready(vault.pendingDistributor) :
          vault' = [vault EXCEPT !.distributor = p.target, !.pendingDistributor = {}]
    /\ UNCHANGED <<books, balance, received>>

FreezeGenesisRewardDistributor ==
    /\ vault.distributor # None
    /\ vault.pendingDistributor = {}
    /\ vault' = [vault EXCEPT !.distributorFrozen = TRUE]
    /\ UNCHANGED <<books, balance, received>>

SetCompoundKeeper(allowed) ==
    /\ vault' = [vault EXCEPT !.keeperAllowed = allowed]
    /\ UNCHANGED <<books, balance, received>>

\* Mutant: any distributor will do, frozen or not.
SetRouteMode_NotFrozen(mode) ==
    /\ mode \notin {"Engine", "Split"}
    /\ mode \in GenesisModes => vault.distributor # None
    /\ mode = "GenesisSplit" => vault.splitGenesisShareBps \in 1 .. BPS - 1
    /\ vault' = [vault EXCEPT !.routeMode = mode]
    /\ UNCHANGED <<books, balance, received>>

SetRouteMode(mode) ==
    /\ mode \notin {"Engine", "Split"}
    /\ mode \in GenesisModes => vault.distributor # None /\ vault.distributorFrozen
    /\ mode = "GenesisSplit" => vault.splitGenesisShareBps \in 1 .. BPS - 1
    /\ vault' = [vault EXCEPT !.routeMode = mode]
    /\ UNCHANGED <<books, balance, received>>

SetKeeperBounty(bountyBps, minCompoundBase) ==
    /\ bountyBps <= MAX_KEEPER_BOUNTY_BPS
    /\ vault' = [vault EXCEPT !.keeperBountyBps = bountyBps, !.minCompoundBase = minCompoundBase]
    /\ UNCHANGED <<books, balance, received>>

SetSplitGenesisShare(share) ==
    /\ share \in 1 .. BPS - 1
    /\ vault' = [vault EXCEPT !.splitGenesisShareBps = share]
    /\ UNCHANGED <<books, balance, received>>

--------------------------------------------------------------------------------
(* What moves funds, as functions of the vault's purse (its books and balances).    *)

Purse == [books |-> books, balance |-> balance, received |-> received]

\* The hook's take() and recordPoolFee(), one transaction: both or neither.
WithFee(p, currency, amount) ==
    [p EXCEPT !.books.fees[currency] = @ + amount, !.balance[currency] = @ + amount]

\* _routeBaseToGenesisUnchecked: the distributor pulls exactly what was approved.
RoutedToGenesis(p, amount) ==
    [p EXCEPT !.books.routedToGenesis = @ + amount,
              !.balance["base"] = @ - amount,
              !.received[vault.distributor] = @ + amount]

Bounty(baseAmount) == (baseAmount * vault.keeperBountyBps) \div BPS

\* Mutant: the bounty is counted among what was compounded.
Compounded_BountyToo(p, amount) ==
    [p EXCEPT !.balance = [c \in Currencies |-> @[c] - amount[c]],
              !.books.bountyPaid = @ + Bounty(amount["base"]),
              !.books.compounded = [c \in Currencies |-> @[c] + amount[c]]]

\* _compoundUnchecked: the bounty leaves first, the compounder pulls the rest.
Compounded(p, amount) ==
    LET bounty == Bounty(amount["base"])
    IN  [p EXCEPT !.balance = [c \in Currencies |-> @[c] - amount[c]],
                  !.books.bountyPaid = @ + bounty,
                  !.books.compounded = [c \in Currencies |->
                      @[c] + amount[c] - (IF c = "base" THEN bounty ELSE 0)]]

\* Its own refusals; the compounder's are in LiquidityCompounder.
MayCompound(p, amount) ==
    /\ vault.compounder # None
    /\ \E c \in Currencies : amount[c] # 0
    /\ \A c \in Currencies : amount[c] <= p.balance[c]
    /\ amount["base"] # 0 => amount["base"] - Bounty(amount["base"]) >= vault.minCompoundBase

BecomePurse(p) == /\ books' = p.books
                  /\ balance' = p.balance
                  /\ received' = p.received

\* routeBaseToGenesis, routeAllBaseToGenesis. The distributor refuses without weight.
RouteBaseToGenesis(amount) ==
    /\ vault.routeMode = "Genesis"
    /\ amount \in 1 .. balance["base"]
    /\ BecomePurse(RoutedToGenesis(Purse, amount))
    /\ UNCHANGED vault

\* A plain transfer to the vault: held and spent, but never recorded as a fee.
Donate(currency, amount) ==
    /\ balance' = [balance EXCEPT ![currency] = @ + amount]
    /\ UNCHANGED <<vault, books, received>>
================================================================================
