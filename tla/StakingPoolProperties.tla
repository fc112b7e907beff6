------------------------- MODULE StakingPoolProperties -------------------------
(* What must hold of NARAStakingPoolV4.sol.                                        *)
EXTENDS StakingPool

\* Type correctness: nothing unsigned goes below zero.
TypeOK ==
    /\ epoch \in 0 .. MaxEpoch /\ nextTokenId \in 1 .. MaxTokens + 1
    /\ pool \in PoolType
    /\ redemptions \in Seq(Redemption)
    /\ depositsPaused \in BOOLEAN /\ emergencyShutdown \in BOOLEAN

IsOpen(i) == ~ redemptions[i].claimed
OwedOf(i) == redemptions[i].naraOwed

\* The books of the queue: what is reserved is what open redemptions are owed, the locked
\* principal is that of the positions held, liquid NARA is really there, and locking,
\* unlocking and paying never leave a redemption without NARA behind it, nor anything
\* unsigned below zero.
QueueBacked ==
    /\ TypeOK
    /\ pool.reservedForRedemptions =
           SumTo([i \in DOMAIN redemptions |-> When(IsOpen(i), OwedOf(i))], Len(redemptions))
    /\ pool.lockedPrincipal = SumTo([t \in Tokens |-> pool.position[t].amount], MaxTokens)
    /\ pool.liquidNara = pool.naraBalance
    /\ pool.reservedForRedemptions <= pool.lockedPrincipal + pool.liquidNara

\* The array of tokens and the index into it, through any order of locks and unlocks, hold
\* exactly the positions that are open, each once: none is lost to harvests or unlocks.
PositionsIndexed ==
    /\ \A i \in DOMAIN pool.underlyingTokenIds : pool.tokenIndex[pool.underlyingTokenIds[i]] = i
    /\ \A t \in Tokens : pool.tokenIndex[t] # 0 <=> pool.position[t].amount # 0
    /\ HeldTokens(pool) = {t \in Tokens : pool.tokenIndex[t] # 0}

\* A ready epoch is kept, whatever others queue, claim, lock and unlock later: from now on,
\* at any epoch, the liquid NARA and the positions due by then cover every redemption that
\* is ready by then.
ReadyMeansPayable ==
    \A e \in epoch .. MaxEpoch :
        SumTo([i \in DOMAIN redemptions |->
                  When(IsOpen(i) /\ redemptions[i].readyEpoch <= e, OwedOf(i))],
              Len(redemptions)) <= FundsBy(pool, e)

\* USDC and ETH: what holders can claim, with what still waits, is in the contract, through
\* transfers, mints and burns; receivers claim nothing that was earned before they held.
RewardsBacked ==
    \A a \in Assets :
        /\ SumOf(Holders, [u \in Holders |-> Claimable(pool, a, u)]) + pool.undistributed[a]
               <= pool.held[a]
        /\ pool.totalSupply = SumOf(Holders, pool.balanceOf)

\* No deposit, redemption, claim, harvest, unlock or transfer lowers the value of a share:
\* nobody enters or leaves at the expense of those who stay.  Opening a position is the
\* exception, because the engine takes its fee.
ShareValueKept ==
    [][pool'.lockedPrincipal <= pool.lockedPrincipal =>
          TotalNaraValue(pool) * pool'.totalSupply <= TotalNaraValue(pool') * pool.totalSupply]_vars

\* Every redemption is paid in the end, although others compete for the same NARA and the
\* locker locks again, in an emergency too.
RedemptionsPaid ==
    \A i \in 1 .. MaxRedemptions :
        (i \in DOMAIN redemptions) ~> (i \in DOMAIN redemptions /\ ~ IsOpen(i))
================================================================================
