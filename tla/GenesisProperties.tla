--------------------------- MODULE GenesisProperties ---------------------------
(* What must hold of the genesis rewards of NARAPositionNFTV4.sol and              *)
(* NARAGenesisRewardDistributorV4.sol.                                             *)
EXTENDS GenesisPositions

SumTokens(f) == SumTo(f, MaxTokens)

\* Both totals are sums of what they total, and the distributor shares rewards by the
\* NFT's own weights, whoever closes, sells or re-syncs in between; only a token whose
\* close notification failed may be tracked with a weight it no longer has.
WeightsAgree ==
    /\ distributor.trackedGenesisRewardWeight = SumTokens(distributor.trackedRewardWeightOf)
    /\ totalGenesisRewardWeight =
           SumTokens([t \in Tokens |-> genesisMetadataOf[t].rewardWeight])
    /\ \A t \in Tokens : \/ distributor.trackedRewardWeightOf[t] = CurrentRewardWeight(t)
                         \/ t \in closeNotifyFailed

Credited(a) ==
    distributor.totalClaimed[a] + SumTokens([t \in Tokens |-> Claimable(distributor, a, t)])

\* What was received is allocated or still waits, and what was paid or can be claimed
\* exceeds what was allocated by less than one unit for each notify call.
RewardsBacked ==
    \A a \in Assets :
        /\ distributor.totalReceived[a] =
               distributor.totalAllocated[a] + distributor.pendingUndistributed[a]
        /\ Credited(a) <= distributor.totalAllocated[a] + allocations[a]
        /\ Funds(distributor, a) >= 0

\* Every reward that can be claimed has someone who may claim it, after any sequence of
\* sales and closes, unless the distributor never heard of the close.
RewardsHaveAnOwner ==
    \A a \in Assets, t \in Tokens :
        Claimable(distributor, a, t) # 0 => RewardOwner(t) # NoOne \/ t \in closeNotifyFailed

\* Minting, selling, closing, re-syncing and claiming never create, destroy or move a
\* reward between tokens, and a weight that grows takes no share of what was indexed
\* before; only a notify call credits, and it credits what it allocates up to one unit of
\* rounding per token.
CreditedOnce ==
    [][\A a \in Assets :
          LET grown == Credited(a)' - Credited(a)
              given == distributor'.totalAllocated[a] - distributor.totalAllocated[a]
          IN  IF allocations' = allocations
              THEN /\ grown = 0
                   /\ \A t \in Tokens :
                         Claimable(distributor', a, t) <= Claimable(distributor, a, t)
              ELSE given - MaxTokens <= grown /\ grown <= given + MaxTokens]_vars

\* The claim of a test, "carries reward-index rounding remainder forward": what waits for
\* the next notify call is not claimable as well, so claims and queue fit in the funds.
RemainderCarriedOnce ==
    \A a \in Assets :
        Credited(a) + distributor.pendingUndistributed[a] <= distributor.totalReceived[a]
================================================================================
