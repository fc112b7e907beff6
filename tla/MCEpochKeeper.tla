----------------------------- MODULE MCEpochKeeper -----------------------------
(* An instance of the epoch keeper for TLC. *)
EXTENDS EpochKeeper

Steep == [maxLockEpochs |-> 3, activationDelayEpochs |-> 1,
          durationLinearWad |-> 4, durationQuadraticWad |-> 0]
OneCurve == {Steep}
FundedReserve == [wired |-> FALSE, balance |-> 6, allocation |-> 5, totalReleased |-> 0]
================================================================================
