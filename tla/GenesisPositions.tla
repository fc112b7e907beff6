---------------------------- MODULE GenesisPositions ----------------------------
(* The position NFT (NARAPositionNFTV4.sol) with its genesis metadata, composed    *)
(* with the genesis reward distributor it notifies.  One engine position and one   *)
(* account exist per token, so all three go by the token's id.  The engine is      *)
(* present as far as the NFT asks it: whether a position has matured.              *)
EXTENDS GenesisDistributor, PrefixSum

CONSTANTS
    BPS,                        \* denominator of the reward multiplier
    MaxTokens,                  \* bound: tokens ever minted
    Amounts, Multipliers,       \* of the genesis positions minted
    Rewards,                    \* amounts notified
    MaxReceived,                \* bound: received per asset
    MaxAllocations              \* bound: notify calls that move an index

VARIABLES
    nextTokenId,
    ownerOf,                    \* the ERC-721 owner; NoOne before the mint and after the burn
    matured,                    \* tokens whose engine position may be unlocked
    genesisMetadataOf,
    totalGenesisRewardWeight,
    closedRewardOwnerOfPosition,
    genesisRewardDistributor,   \* whether the NFT has been bound to the distributor
    distributor,
    closeNotifyFailed,          \* tokens of the GenesisCloseNotifyFailed events
    allocations                 \* auxiliary: notify calls that moved an index

vars == <<nextTokenId, ownerOf, matured, genesisMetadataOf, totalGenesisRewardWeight,
          closedRewardOwnerOfPosition, genesisRewardDistributor, distributor,
          closeNotifyFailed, allocations>>

nft == <<nextTokenId, ownerOf, matured, genesisMetadataOf, totalGenesisRewardWeight,
         closedRewardOwnerOfPosition, genesisRewardDistributor, closeNotifyFailed>>

ASSUME GenesisAssumption ==
    /\ RAY \in Nat \ {0} /\ BPS \in Nat \ {0} /\ MaxTokens \in Nat
    /\ Tokens = 1 .. MaxTokens
    /\ Amounts \subseteq Nat /\ Multipliers \subseteq Nat \ {0} /\ Rewards \subseteq Nat
    /\ NoOne \notin Owners

NoMetadata == [isGenesis |-> FALSE, isEternal |-> FALSE, rewardWeight |-> 0]

Live(t) == ownerOf[t] # NoOne

\* _currentNftRewardWeight: the distributor reads it back from the NFT.
CurrentRewardWeight(t) ==
    IF genesisMetadataOf[t].isGenesis THEN genesisMetadataOf[t].rewardWeight ELSE 0

\* _rewardOwner, and ownerOf where a burnt token has none.
RewardOwner(t) ==
    IF distributor.closedOwnerOf[t] # NoOne THEN distributor.closedOwnerOf[t] ELSE ownerOf[t]

Init ==
    /\ nextTokenId = 1
    /\ ownerOf = [t \in Tokens |-> NoOne]
    /\ matured = {}
    /\ genesisMetadataOf = [t \in Tokens |-> NoMetadata]
    /\ totalGenesisRewardWeight = 0
    /\ closedRewardOwnerOfPosition = [t \in Tokens |-> NoOne]
    /\ genesisRewardDistributor = FALSE
    /\ distributor = Empty
    /\ closeNotifyFailed = {}
    /\ allocations = [a \in Assets |-> 0]

--------------------------------------------------------------------------------
(* The NFT *)

SetGenesisRewardDistributor ==
    /\ ~ genesisRewardDistributor
    /\ genesisRewardDistributor' = TRUE
    /\ UNCHANGED <<nextTokenId, ownerOf, matured, genesisMetadataOf, totalGenesisRewardWeight,
                   closedRewardOwnerOfPosition, distributor, closeNotifyFailed, allocations>>

Minted(owner) ==
    /\ nextTokenId \in Tokens
    /\ nextTokenId' = nextTokenId + 1
    /\ ownerOf' = [ownerOf EXCEPT ![nextTokenId] = owner]
    /\ UNCHANGED <<matured, closedRewardOwnerOfPosition, genesisRewardDistributor,
                   closeNotifyFailed, allocations>>

\* mintAndLock, mintAndLockFor, mintAndLockWithPermit
MintAndLock(owner) ==
    /\ Minted(owner)
    /\ UNCHANGED <<genesisMetadataOf, totalGenesisRewardWeight, distributor>>

\* _recordGenesisMetadata: the weight is registered with the distributor, in the same
\* transaction, before the token exists.
RecordGenesisMetadata(t, amount, multiplier, eternal) ==
    LET rewardWeight == (amount * multiplier) \div BPS
    IN  /\ genesisMetadataOf' = [genesisMetadataOf EXCEPT ![t] =
               [isGenesis |-> TRUE, isEternal |-> eternal, rewardWeight |-> rewardWeight]]
        /\ totalGenesisRewardWeight' = totalGenesisRewardWeight + rewardWeight
        /\ distributor' = SyncToWeight(distributor, t, rewardWeight)

MintGenesisAndLockFor(owner, amount, multiplier, eternal) ==
    /\ genesisRewardDistributor
    /\ Minted(owner)
    /\ RecordGenesisMetadata(nextTokenId, amount, multiplier, eternal)

\* An ERC-721 transfer: the account, the position and every reward go with the token.
Transfer(t, to) ==
    /\ Live(t) /\ to # ownerOf[t]
    /\ ownerOf' = [ownerOf EXCEPT ![t] = to]
    /\ UNCHANGED <<nextTokenId, matured, genesisMetadataOf, totalGenesisRewardWeight,
                   closedRewardOwnerOfPosition, genesisRewardDistributor, distributor,
                   closeNotifyFailed, allocations>>

\* The engine reaches the position's unlock epoch.
Mature(t) ==
    /\ Live(t) /\ t \notin matured
    /\ matured' = matured \cup {t}
    /\ UNCHANGED <<nextTokenId, ownerOf, genesisMetadataOf, totalGenesisRewardWeight,
                   closedRewardOwnerOfPosition, genesisRewardDistributor, distributor,
                   closeNotifyFailed, allocations>>

\* _clearGenesisMetadata calls the distributor under a try: the call may revert (the
\* distributor is entered already, or too little gas is left), and then only an event
\* says so.
Cleared(d, t, notified) ==
    IF genesisMetadataOf[t].isGenesis /\ notified THEN PositionClosed(d, t, ownerOf[t]) ELSE d

\* _tryClaimGenesisRewardTo and _tryClaimGenesisTokenTo: by now the metadata is gone, so
\* the sync inside a claim that goes through brings the tracked weight to zero.
TryClaimed(d, t, claims) ==
    IF claims = {} THEN d ELSE Paid(SyncToWeight(d, t, 0), t, claims)

\* The rest of _unlockTo and _burnEternalGenesisTo.  The receiver or the reward token may
\* make a claim fail; with missing funds it must.
Close(t) ==
    \E notified \in BOOLEAN, claims \in SUBSET Assets :
        LET d == Cleared(distributor, t, notified)
        IN  /\ claims # {} => genesisRewardDistributor
            /\ CanPay(SyncToWeight(d, t, 0), t, claims)
            /\ distributor' = TryClaimed(d, t, claims)
            /\ genesisMetadataOf' = [genesisMetadataOf EXCEPT ![t] = NoMetadata]
            /\ totalGenesisRewardWeight' =
                   totalGenesisRewardWeight - genesisMetadataOf[t].rewardWeight
            /\ closeNotifyFailed' = closeNotifyFailed \cup
                   {x \in {t} : genesisMetadataOf[x].isGenesis /\ ~ notified}
            /\ closedRewardOwnerOfPosition' =
                   [closedRewardOwnerOfPosition EXCEPT ![t] = ownerOf[t]]
            /\ ownerOf' = [ownerOf EXCEPT ![t] = NoOne]
            /\ UNCHANGED <<nextTokenId, matured, genesisRewardDistributor, allocations>>

\* unlock and unlockTo
Unlock(t) == Live(t) /\ ~ genesisMetadataOf[t].isEternal /\ t \in matured /\ Close(t)

\* burnEternalGenesis and burnEternalGenesisTo
BurnEternalGenesis(t) ==
    /\ Live(t) /\ genesisMetadataOf[t].isGenesis /\ genesisMetadataOf[t].isEternal
    /\ t \in matured /\ Close(t)

--------------------------------------------------------------------------------
(* The distributor *)

\* notifyEthRewards and notifyTokenRewards; an amount of zero is allocateQueuedEth and
\* allocateQueuedToken.
NotifyRewards(a, received) ==
    /\ distributor.totalReceived[a] + received <= MaxReceived
    /\ received + distributor.pendingUndistributed[a] # 0
    /\ distributor' = Notify(distributor, a, received)
    /\ IF distributor.trackedGenesisRewardWeight = 0 THEN UNCHANGED allocations
       ELSE /\ allocations[a] < MaxAllocations
            /\ allocations' = [allocations EXCEPT ![a] = @ + 1]
    /\ UNCHANGED nft

\* syncGenesisRewardWeight, open to anyone
SyncGenesisRewardWeight(t) ==
    /\ distributor' = SyncToWeight(distributor, t, CurrentRewardWeight(t))
    /\ distributor' # distributor
    /\ UNCHANGED <<nft, allocations>>

\* claim and claimToken by the reward owner, claimGenesisEth and claimGenesisToken through
\* the NFT.
Claim(a, t) ==
    LET synced == SyncToWeight(distributor, t, CurrentRewardWeight(t))
    IN  /\ RewardOwner(t) # NoOne
        /\ synced.accruedOf[a][t] # 0 /\ CanPay(synced, t, {a})
        /\ distributor' = Paid(synced, t, {a})
        /\ UNCHANGED <<nft, allocations>>

Next ==
    \/ SetGenesisRewardDistributor
    \/ \E o \in Owners : MintAndLock(o)
    \/ \E o \in Owners, amount \in Amounts, multiplier \in Multipliers, eternal \in BOOLEAN :
          MintGenesisAndLockFor(o, amount, multiplier, eternal)
    \/ \E t \in Tokens, o \in Owners : Transfer(t, o)
    \/ \E t \in Tokens : Mature(t) \/ Unlock(t) \/ BurnEternalGenesis(t)
    \/ \E a \in Assets, received \in Rewards \cup {0} : NotifyRewards(a, received)
    \/ \E t \in Tokens : SyncGenesisRewardWeight(t)
    \/ \E a \in Assets, t \in Tokens : Claim(a, t)

Spec == Init /\ [][Next]_vars
================================================================================
