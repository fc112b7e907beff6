---------------------------- MODULE PrincipalCustody ----------------------------
(* What the engine promises about principal, whatever rewards, weights, fees and   *)
(* configuration do: NARA that enters a position stays there, for its owner, until *)
(* the position's unlock epoch; the unlock epoch only ever moves later, and only   *)
(* while it has not come; the principal leaves at once and leaves once.            *)
EXTENDS Integers, Sequences, PrefixSum

CONSTANT Owners

VARIABLES epoch, deposits, held

vars == <<epoch, deposits, held>>
DepositIds == 1 .. Len(deposits)

Init == epoch = 0 /\ deposits = <<>> /\ held = 0

\* A transaction may settle any number of epochs before it acts.
EpochsPass == epoch' \in Nat /\ epoch' >= epoch

Settle == EpochsPass /\ UNCHANGED <<deposits, held>>

Deposit(owner, amount, unlockEpoch) ==
    /\ EpochsPass
    /\ amount > 0 /\ unlockEpoch > epoch' + 1
    /\ deposits' = Append(deposits, [owner |-> owner, amount |-> amount,
                                     unlockEpoch |-> unlockEpoch])
    /\ held' = held + amount

Postpone(i, unlockEpoch) ==
    /\ EpochsPass
    /\ deposits[i].amount > 0
    /\ epoch' < deposits[i].unlockEpoch /\ deposits[i].unlockEpoch < unlockEpoch
    /\ deposits' = [deposits EXCEPT ![i].unlockEpoch = unlockEpoch]
    /\ UNCHANGED held

Withdraw(owner, ids) ==
    /\ EpochsPass
    /\ \A i \in ids : /\ deposits[i].owner = owner /\ deposits[i].amount > 0
                      /\ epoch' >= deposits[i].unlockEpoch
    /\ deposits' = [i \in DepositIds |->
                        IF i \in ids THEN [deposits[i] EXCEPT !.amount = 0] ELSE deposits[i]]
    /\ held' = held - SumTo([i \in DepositIds |-> When(i \in ids, deposits[i].amount)],
                            Len(deposits))

\* The unlock epoch and the amount of a step are read off the state it leads to.
Next ==
    \/ Settle
    \/ \E owner \in Owners :
          /\ Len(deposits') = Len(deposits) + 1
          /\ LET d == deposits'[Len(deposits) + 1] IN Deposit(owner, d.amount, d.unlockEpoch)
    \/ \E i \in DepositIds : i \in DOMAIN deposits' /\ Postpone(i, deposits'[i].unlockEpoch)
    \/ \E owner \in Owners, ids \in SUBSET DepositIds : Withdraw(owner, ids)

Spec == Init /\ [][Next]_vars
================================================================================
