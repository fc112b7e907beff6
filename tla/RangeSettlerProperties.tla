------------------------ MODULE RangeSettlerProperties ------------------------
(* What the settler and the range manager promise together. *)
EXTENDS RangeSettler

\* Types, and what a pass in progress relies on: the journal it works with is still there.
TypeOK ==
    /\ chain \in Seq(Block) /\ head \in [Providers -> DOMAIN chain]
    /\ mempool \subseteq gossiped /\ gossiped \subseteq ToSet(sent)
    /\ journal \in Tx \cup {None, Torn} /\ aged \in BOOLEAN
    /\ records \subseteq [tx : Tx, block : Nat] /\ tornRecords \subseteq Tx
    /\ sent \in Seq(Tx) /\ reorged \in BOOLEAN /\ faults \in Nat
    /\ pass.at \in Steps
    /\ pass.at \in {"check", "nonce", "save"} => journal = None
    /\ pass.at \in Steps \ {"idle", "check", "nonce", "save"} => journal \in ToSet(sent)

\* "No new settlement can therefore be signed at or below a nonce this wallet already
\* signed" (runbook, line 128): nextWriteNonce, after reconcilePending cleared the journal.
NoncesRise ==
    \A i, j \in DOMAIN sent : i < j => sent[i].nonce < sent[j].nonce

\* A settlement that took effect is on record or still in the journal to be recorded,
\* whatever crashed in between: record comes before clearAfterConfirmedReceipt.  A pass that
\* works with a journal works with the one on disk (TypeOK).
NothingUnrecorded ==
    /\ TypeOK
    /\ \A h \in DOMAIN chain :
           chain[h].tx # None /\ chain[h].ok =>
               \/ journal = chain[h].tx
               \/ [tx |-> chain[h].tx, block |-> h] \in records

\* What is on record happened, in that block: the receipt was deep enough to stay.
RecordsStand ==
    \A r \in records :
        r.block \in DOMAIN chain /\ chain[r.block].tx = r.tx /\ chain[r.block].ok

\* The settler stops for good only with an alert: a journal or record that cannot be read,
\* a transaction past the drop age, or one that vanished and can no longer succeed.
Paged ==
    \/ journal = Torn \/ aged
    \/ tornRecords # {}
    \/ /\ journal # None
       /\ journal \notin mempool /\ \A h \in DOMAIN chain : chain[h].tx # journal
       /\ ~ CanSettleMany(Tip.m, Tip.price, journal.ids)

\* An order that stays crossed is settled, by the settler or somebody else, or the
\* operator is paged (the alerts of index.ts and the errors the watcher reports).
CrossedOrdersSettled ==
    \A id \in OrderIds :
        []<>(\/ ~ (id \in DOMAIN Tip.m.orders /\ Settleable(Tip, id))
             \/ Paged)
================================================================================
