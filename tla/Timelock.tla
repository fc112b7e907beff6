------------------------------- MODULE Timelock -------------------------------
(* What every delayed change of the growth contracts promises. A value is set at
   once only while it is open (before the pool trades, before the first fee); from
   then on it changes only to a target that was announced, unchanged, for the whole
   delay, and a locked value never changes again. The announcement is the pending
   set, empty or a single [target, eta].                                            *)
EXTENDS Naturals

CONSTANT Delay

VARIABLES now, value, pending, open, locked

vars == <<now, value, pending, open, locked>>

Init == /\ pending = {}
        /\ open \in BOOLEAN
        /\ locked = FALSE

\* Set while nobody depends on the value yet.
Bootstrap == /\ open /\ ~locked
             /\ open' \in BOOLEAN
             /\ UNCHANGED <<now, pending, locked>>

\* The first use closes the bootstrap for good.
Close == /\ open
         /\ open' = FALSE
         /\ UNCHANGED <<now, value, pending, locked>>

\* A proposal replaces the one before it and starts the whole delay again.
Propose == /\ ~locked
           /\ \E p \in pending' : pending' = {p} /\ p.eta = now + Delay
           /\ UNCHANGED <<now, value, open, locked>>

Cancel == /\ pending # {}
          /\ pending' = {}
          /\ UNCHANGED <<now, value, open, locked>>

Execute == /\ ~locked
           /\ \E p \in pending : now >= p.eta /\ value' = p.target
           /\ pending' = {}
           /\ open' = (open /\ open')
           /\ UNCHANGED <<now, locked>>

Lock == /\ pending = {}
        /\ locked' = TRUE
        /\ UNCHANGED <<now, value, pending, open>>

Tick == /\ now' > now
        /\ UNCHANGED <<value, pending, open, locked>>

Next == Bootstrap \/ Close \/ Propose \/ Cancel \/ Execute \/ Lock \/ Tick

Spec == Init /\ [][Next]_vars
================================================================================
