------------------------------- MODULE NaraModel -------------------------------
(* contracts/v4/libraries/NARAEngineModelLib.sol: the weight curve.  WAD is 1e18  *)
(* on chain; any positive value gives the same formula with coarser fractions.    *)
EXTENDS Integers

CONSTANT WAD
ASSUME WadAssumption == WAD \in Nat \ {0}

\* The fields of EngineConfig that a position depends on.
IsValidConfig(c) ==
    /\ c.maxLockEpochs # 0
    /\ c.activationDelayEpochs # 0
    /\ c.activationDelayEpochs < c.maxLockEpochs

\* Weight grows with the share of the longest lock, linearly and quadratically.
ComputeWeight(c, amount, dur) ==
    LET r  == (dur * WAD) \div c.maxLockEpochs
        r2 == (r * r) \div WAD
        m  == WAD + (c.durationLinearWad * r) \div WAD
                  + (c.durationQuadraticWad * r2) \div WAD
    IN  (amount * m) \div WAD
================================================================================
