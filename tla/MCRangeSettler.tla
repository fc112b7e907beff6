---------------------------- MODULE MCRangeSettler ----------------------------
(* Two orders wait on one range, one on each side of the price. *)
EXTENDS RangeSettlerProperties

MCRange == [lower |-> 1, upper |-> 2]
MCRanges == {MCRange}
MCInitialManager == Created(Created(NewManager, "SellNara", MCRange), "SellNara", MCRange)
================================================================================
