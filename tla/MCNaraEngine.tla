------------------------------ MODULE MCNaraEngine ------------------------------
(* Instances of the engine for TLC: constants that the .cfg files choose from.     *)
EXTENDS NaraEngineProperties

Config(maxLock, delay, linear, quadratic) ==
    [maxLockEpochs |-> maxLock, activationDelayEpochs |-> delay,
     durationLinearWad |-> linear, durationQuadraticWad |-> quadratic]

\* With WAD = 2, 2 NARA weigh 4 or 6 for 2 or 3 epochs under Steep, 2 or 3 under
\* Shallow: an extension under Shallow can lower a weight set under Steep.
Steep   == Config(3, 1, 4, 0)
Shallow == Config(3, 1, 1, 0)
Curves  == {Steep, Shallow}
OneCurve == {Steep}

\* 1 NARA weighs 1 for 2 or 3 epochs and 2 for 4; a position of 3 epochs is active for
\* two, so that an extension can find one of them closed and one open.
Plain == Config(4, 1, 3, 0)
PlainOnly == {Plain}

\* 1 NARA weighs 1 for 2 epochs and 2 for 3.
Short == Config(3, 1, 3, 0)
ShortOnly == {Short}

FundedReserve == [wired |-> FALSE, balance |-> 6, allocation |-> 5, totalReleased |-> 0]
WiredReserve  == [wired |-> TRUE, balance |-> 6, allocation |-> 5, totalReleased |-> 0]
RoundingReserve == [wired |-> TRUE, balance |-> 2, allocation |-> 2, totalReleased |-> 0]

NoFees == /\ fees.claimFeeBps = 0 /\ fees.lockFeeBps = 0
          /\ fees.lockFeeWei = 0 /\ fees.unlockFeeWei = 0

\* Before the first position, either a reserve is wired, and ETH and fees are left out;
\* or an ETH fee is set, and all NARA but principal is left out.
NaraOrEth ==
    \/ now = 0 /\ positions = <<>>
    \/ core.reserve.wired /\ eth.received = 0 /\ NoFees
    \/ /\ ~core.reserve.wired /\ core.balance = totalLocked
       /\ ~NoFees /\ fees.lockFeeBps = 0
================================================================================
