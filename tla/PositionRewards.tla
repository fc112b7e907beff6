---------------------------- MODULE PositionRewards ----------------------------
(* The two ways in which the rewards of position NFTs are shared: by the genesis        *)
(* distributor, and by the fractions of a wrapped position.  A genesis position cannot  *)
(* be wrapped, so they share no state, and an execution is about one of them.  What     *)
(* the genesis rewards promise is in GenesisProperties; here is what fractions do.      *)
EXTENDS GenesisProperties, Sequences

CONSTANTS Nfts, Holders, FractionCounts, Principals, Answers, MaxContracts, MaxRewards

VARIABLES subject, wrappedOwnerOf, principal, wrappedMatured, earned, fractionalOf,
          fractionals, redeemed, rewards

Wrapped == INSTANCE FractionalPosition WITH ownerOf <- wrappedOwnerOf, matured <- wrappedMatured

RewardAssets == {"nara", "usdc", "eth"}

\* No contract is a user.
ASSUME FractionalAssumption ==
    /\ FractionCounts \subseteq Nat \ {0} /\ Principals \subseteq Nat
    /\ Answers \subseteq SUBSET {"claimRewards", "claimTokenRewards"}
    /\ IsFiniteSet(Holders) /\ NoOne \notin Holders
    /\ Holders \cap (1 .. MaxContracts) = {} /\ NoOne \notin 1 .. MaxContracts
    /\ MaxContracts \in Nat /\ MaxRewards \in Nat

wrappedVars == <<wrappedOwnerOf, principal, wrappedMatured, earned, fractionalOf,
                 fractionals, redeemed, rewards>>
rewardVars == <<vars, subject, wrappedVars>>

RewardsInit == Init /\ Wrapped!Init /\ subject \in {"genesis", "fractions"}
RewardsNext == \/ subject = "genesis" /\ Next /\ UNCHANGED <<subject, wrappedVars>>
               \/ subject = "fractions" /\ Wrapped!Next /\ UNCHANGED <<subject, vars>>
RewardsSpec == RewardsInit /\ [][RewardsNext]_rewardVars

--------------------------------------------------------------------------------

Bound == {c \in DOMAIN fractionals : fractionals[c].bound}

\* NARA rewards and principal share one balance: whatever is harvested, transferred,
\* claimed and redeemed, and whichever harvest fails, the contract holds all that anybody
\* can still claim of each asset, and fractions are neither created nor lost.
FractionsBacked ==
    \A c \in Bound :
        LET f == fractionals[c]
        IN  /\ \A a \in RewardAssets :
                  SumOf(Holders, [u \in Holders |-> Wrapped!Claimable(f, a, u)])
                      + (IF a = "nara" THEN f.principalReturned - f.principalPaid ELSE 0)
                  <= f.held[a]
            /\ SumOf(Holders, f.balanceOf) + f.principalFractionsClaimed = f.fractionCount

\* Whoever redeems, in whatever order and however fractions moved in between, is paid the
\* rounded-down share of the principal, plus at most one unit for each earlier claim; when
\* every fraction is redeemed nothing of the principal is left.
PrincipalSharedOut ==
    \A c \in Bound :
        LET f == fractionals[c]
            due(i) == redeemed[c][i].fractions * f.principalReturned
        IN  /\ \A i \in DOMAIN redeemed[c] :
                  /\ due(i) < (redeemed[c][i].paid + 1) * f.fractionCount
                  /\ redeemed[c][i].paid * f.fractionCount <= due(i) + (i - 1) * f.fractionCount
            /\ f.principalFractionsClaimed = f.fractionCount => f.principalPaid = f.principalReturned

\* However often wrappers are created and replaced and the NFT is sold in between, fractions
\* exist only of the wrapper the registry names, and it holds the NFT until the unlock.
WrapperHoldsToken ==
    \A c \in Bound :
        LET f == fractionals[c]
        IN  /\ fractionalOf[f.expectedTokenId] = c
            /\ wrappedOwnerOf[f.expectedTokenId] = IF f.unlocked THEN NoOne ELSE c
================================================================================
