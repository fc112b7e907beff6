--------------------------- MODULE FractionalPosition ---------------------------
(* composability/NARAFractionalPositionV4.sol and its factory: one position NFT    *)
(* held by a contract of its own, whose fractions share the position's rewards by  *)
(* an index and, once it is unlocked, its principal.  A contract's storage is one  *)
(* record f, with what it holds of each asset.  Genesis positions cannot be bound, *)
(* so every NFT here is a plain one; any user may be an approved operator of it.   *)
EXTENDS Integers, Sequences

CONSTANTS
    RAY,
    Nfts,                       \* token ids of positions that are not genesis positions
    Holders, NoOne,             \* users; nobody owns a burnt token
    FractionCounts,             \* arguments of bind, 1 to 1e12 on chain
    Principals,                 \* what a position may hold
    Answers,                    \* which calls of a harvest may succeed together
    MaxContracts, MaxRewards    \* bounds: contracts deployed, units of reward

RewardAssets == {"nara", "usdc", "eth"}
\* The two calls by which the position is harvested; each is tried and may fail.
Calls == {"claimRewards", "claimTokenRewards"}
Contracts == 1 .. MaxContracts

VARIABLES
    ownerOf,            \* of each NFT: a user, a contract, or NoOne once burnt
    principal,          \* of each position
    matured,            \* NFTs whose position may be unlocked
    earned,             \* what a claim for the position would bring
    fractionalOf,       \* the factory's registry; 0 where there is none
    fractionals,        \* the contracts deployed, allFractionals
    redeemed,           \* auxiliary: [fractions, paid] of each claim of principal, per contract
    rewards             \* auxiliary: units of reward that ever came

vars == <<ownerOf, principal, matured, earned, fractionalOf, fractionals, redeemed, rewards>>
nft  == <<ownerOf, principal, matured, earned>>

Nothing == [a \in RewardAssets |-> 0]

\* The constructor and setExpectedBinding, both called by the factory.
Deployed(t, binder) ==
    [expectedTokenId |-> t, expectedBinder |-> binder, bound |-> FALSE, fractionCount |-> 0,
     balanceOf |-> [u \in Holders |-> 0], indexRay |-> Nothing,
     debtRayOf |-> [a \in RewardAssets |-> [u \in Holders |-> 0]],
     accruedOf |-> [a \in RewardAssets |-> [u \in Holders |-> 0]], held |-> Nothing,
     unlocked |-> FALSE, principalReturned |-> 0, principalPaid |-> 0,
     principalFractionsClaimed |-> 0, principalClaimed |-> {}]

Init ==
    /\ ownerOf \in [Nfts -> Holders]
    /\ principal \in [Nfts -> Principals]
    /\ matured = {}
    /\ earned = [t \in Nfts |-> Nothing]
    /\ fractionalOf = [t \in Nfts |-> 0]
    /\ fractionals = <<>>
    /\ redeemed = [c \in Contracts |-> <<>>]
    /\ rewards = 0

--------------------------------------------------------------------------------
(* Rewards *)

\* _pendingNara, _pendingUsdc and _pendingEth, on top of what has accrued
Claimable(f, a, u) ==
    LET current == f.balanceOf[u] * f.indexRay[a]
        debt    == f.debtRayOf[a][u]
    IN  f.accruedOf[a][u] + (IF current > debt THEN (current - debt) \div RAY ELSE 0)

\* _accrueAll and _updateDebt for some users, once balances have changed to new ones: the
\* accrual goes by the old balance and the debt restarts from the new one.
Rebalanced(f, users, balances) ==
    [f EXCEPT !.accruedOf = [a \in RewardAssets |-> [u \in Holders |->
                  IF u \in users THEN Claimable(f, a, u) ELSE @[a][u]]],
              !.debtRayOf = [a \in RewardAssets |-> [u \in Holders |->
                  IF u \in users THEN balances[u] * f.indexRay[a] ELSE @[a][u]]],
              !.balanceOf = balances]

\* What comes in is indexed over all fractions ever minted.
Indexed(f, gains) ==
    [f EXCEPT !.held = [a \in RewardAssets |-> @[a] + gains[a]],
              !.indexRay = [a \in RewardAssets |-> @[a] + (gains[a] * RAY) \div f.fractionCount]]

\* What the calls that succeed bring; a call that fails leaves it with the position.
Gains(t, answers) ==
    [a \in RewardAssets |->
        IF (IF a = "usdc" THEN "claimTokenRewards" ELSE "claimRewards") \in answers
        THEN earned[t][a] ELSE 0]

Left(t, answers) == [a \in RewardAssets |-> earned[t][a] - Gains(t, answers)[a]]

--------------------------------------------------------------------------------
(* The factory, and binding the NFT *)

\* create: a contract that never bound its token may be replaced.
Create(u, t) ==
    /\ fractionalOf[t] # 0 => ~ fractionals[fractionalOf[t]].bound
    /\ ownerOf[t] \in Holders
    /\ Len(fractionals) < MaxContracts
    /\ fractionals' = Append(fractionals, Deployed(t, u))
    /\ fractionalOf' = [fractionalOf EXCEPT ![t] = Len(fractionals) + 1]
    /\ UNCHANGED <<nft, redeemed, rewards>>

\* Mutant: any contract deployed for the token will do.
Canonical_Any(c) == TRUE

\* A contract that was replaced can no longer bind.
Canonical(c) == fractionalOf[fractionals[c].expectedTokenId] = c

\* bind, by the expected binder, who must by now own the token.
Bind(c, fractions) ==
    LET f == fractionals[c]
        u == f.expectedBinder
    IN  /\ ~ f.bound /\ Canonical(c)
        /\ ownerOf[f.expectedTokenId] = u
        /\ ownerOf' = [ownerOf EXCEPT ![f.expectedTokenId] = c]
        /\ fractionals' = [fractionals EXCEPT ![c] =
               [f EXCEPT !.bound = TRUE, !.fractionCount = fractions,
                         !.balanceOf[u] = fractions]]
        /\ UNCHANGED <<principal, matured, earned, fractionalOf, redeemed, rewards>>

--------------------------------------------------------------------------------
(* Fractions *)

\* transfer and transferFrom between two users; one to oneself changes nothing.
TransferFractions(c, u, v, n, answers) ==
    LET f == fractionals[c]
        t == f.expectedTokenId
        harvested == IF f.unlocked THEN f ELSE Indexed(f, Gains(t, answers))
    IN  /\ f.bound /\ u # v /\ n <= f.balanceOf[u]
        /\ fractionals' = [fractionals EXCEPT ![c] =
               Rebalanced(harvested, {u, v},
                          [f.balanceOf EXCEPT ![u] = @ - n, ![v] = @ + n])]
        /\ earned' = IF f.unlocked THEN earned ELSE [earned EXCEPT ![t] = Left(t, answers)]
        /\ UNCHANGED <<ownerOf, principal, matured, fractionalOf, redeemed, rewards>>

\* harvest, open to anyone
Harvest(c, answers) ==
    LET f == fractionals[c]
        t == f.expectedTokenId
    IN  /\ f.bound /\ ~ f.unlocked
        /\ fractionals' = [fractionals EXCEPT ![c] = Indexed(f, Gains(t, answers))]
        /\ earned' = [earned EXCEPT ![t] = Left(t, answers)]
        /\ UNCHANGED <<ownerOf, principal, matured, fractionalOf, redeemed, rewards>>

\* claimRewards pays the two tokens, claimEth the ETH.
Claim(c, u, assets) ==
    LET f == Rebalanced(fractionals[c], {u}, fractionals[c].balanceOf)
    IN  /\ f.bound
        /\ fractionals' = [fractionals EXCEPT ![c] =
               [f EXCEPT !.held = [a \in RewardAssets |->
                             @[a] - (IF a \in assets THEN f.accruedOf[a][u] ELSE 0)],
                         !.accruedOf = [a \in RewardAssets |->
                             IF a \in assets THEN [f.accruedOf[a] EXCEPT ![u] = 0] ELSE @[a]]]]
        /\ UNCHANGED <<nft, fractionalOf, redeemed, rewards>>

\* receive: ETH that is not the proceeds of a claim is a reward like any other.
ReceiveEth(c) ==
    /\ fractionals[c].bound /\ rewards < MaxRewards
    /\ fractionals' = [fractionals EXCEPT ![c] = Indexed(@, [Nothing EXCEPT !["eth"] = 1])]
    /\ rewards' = rewards + 1
    /\ UNCHANGED <<nft, fractionalOf, redeemed>>

--------------------------------------------------------------------------------
(* The principal *)

\* Mutant: the balance is read before the final harvest.
Returned_HarvestToo(t, answers) == principal[t] + earned[t]["nara"]

\* What unlockTo sends, measured after the final harvest: the principal, and NARA that the
\* harvest failed to fetch.
Returned(t, answers) == principal[t] + Left(t, answers)["nara"]

\* unlockPosition, open to anyone.  Token rewards that the harvest failed to fetch stay
\* with the closed position, which the contract has no function to claim from.
UnlockPosition(c, answers) ==
    LET f == fractionals[c]
        t == f.expectedTokenId
        harvested == Indexed(f, Gains(t, answers))
        unlocked  == Indexed(harvested, [Nothing EXCEPT !["eth"] = Left(t, answers)["eth"]])
    IN  /\ f.bound /\ ~ f.unlocked /\ t \in matured
        /\ fractionals' = [fractionals EXCEPT ![c] =
               [unlocked EXCEPT !.unlocked = TRUE, !.principalReturned = Returned(t, answers),
                                !.held["nara"] = @ + principal[t] + Left(t, answers)["nara"]]]
        /\ ownerOf' = [ownerOf EXCEPT ![t] = NoOne]
        /\ principal' = [principal EXCEPT ![t] = 0]
        /\ earned' = [earned EXCEPT ![t] = [Nothing EXCEPT !["usdc"] = Left(t, answers)["usdc"]]]
        /\ UNCHANGED <<matured, fractionalOf, redeemed, rewards>>

\* Mutant: what remains is divided by all fractions.
PrincipalShare_OfAll(f, bal) ==
    ((f.principalReturned - f.principalPaid) * bal) \div f.fractionCount

\* The share of what remains among the fractions that remain.
PrincipalShare(f, bal) ==
    LET remainingFractions == f.fractionCount - f.principalFractionsClaimed
        remainingPrincipal == f.principalReturned - f.principalPaid
    IN  IF bal >= remainingFractions THEN remainingPrincipal
        ELSE (remainingPrincipal * bal) \div remainingFractions

\* claimPrincipal: once for each user, for all fractions the user holds.
ClaimPrincipal(c, u) ==
    LET f == fractionals[c]
        bal == f.balanceOf[u]
        naraOut == PrincipalShare(f, bal)
    IN  /\ f.unlocked /\ u \notin f.principalClaimed /\ bal # 0
        /\ fractionals' = [fractionals EXCEPT ![c] =
               [Rebalanced(f, {u}, [f.balanceOf EXCEPT ![u] = 0]) EXCEPT
                   !.principalClaimed = @ \cup {u},
                   !.principalFractionsClaimed = @ + bal,
                   !.principalPaid = @ + naraOut, !.held["nara"] = @ - naraOut]]
        /\ redeemed' = [redeemed EXCEPT ![c] = Append(@, [fractions |-> bal, paid |-> naraOut])]
        /\ UNCHANGED <<nft, fractionalOf, rewards>>

--------------------------------------------------------------------------------
(* The NFT and the engine *)

TransferNft(t, u) ==
    /\ ownerOf[t] \in Holders \ {u}
    /\ ownerOf' = [ownerOf EXCEPT ![t] = u]
    /\ UNCHANGED <<principal, matured, earned, fractionalOf, fractionals, redeemed, rewards>>

Earn(t, a) ==
    /\ ownerOf[t] # NoOne /\ rewards < MaxRewards
    /\ earned' = [earned EXCEPT ![t][a] = @ + 1]
    /\ rewards' = rewards + 1
    /\ UNCHANGED <<ownerOf, principal, matured, fractionalOf, fractionals, redeemed>>

Mature(t) ==
    /\ t \notin matured /\ matured' = matured \cup {t}
    /\ UNCHANGED <<ownerOf, principal, earned, fractionalOf, fractionals, redeemed, rewards>>

Next ==
    \/ \E t \in Nfts, u \in Holders : Create(u, t) \/ TransferNft(t, u)
    \/ \E t \in Nfts, a \in RewardAssets : Earn(t, a)
    \/ \E t \in Nfts : Mature(t)
    \/ \E c \in DOMAIN fractionals :
          \/ \E n \in FractionCounts : Bind(c, n)
          \/ \E u, v \in Holders, answers \in Answers :
                \E n \in 0 .. fractionals[c].balanceOf[u] : TransferFractions(c, u, v, n, answers)
          \/ \E answers \in Answers : Harvest(c, answers) \/ UnlockPosition(c, answers)
          \/ \E u \in Holders : \/ Claim(c, u, {"nara", "usdc"}) \/ Claim(c, u, {"eth"})
                                \/ ClaimPrincipal(c, u)
          \/ ReceiveEth(c)
================================================================================
