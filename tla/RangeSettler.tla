------------------------------ MODULE RangeSettler ------------------------------
(* services/v4-treasury-range-settler: a process that settles crossed orders of the  *)
(* range manager with its own key.  It reads a chain that grows and may reorganise   *)
(* through providers that lag, keeps one signed transaction in a journal before it   *)
(* broadcasts it, and may crash at any point.                                        *)
EXTENDS RangeManager

CONSTANTS
    Providers, Primary,     \* RPC endpoints, and the one that broadcasts
    CONFIRMATIONS,
    MaxSettlementBatch,     \* SETTLER_MAX_SETTLEMENT_BATCH
    InitialManager, InitialPrice,
    None, Torn,             \* no journal, and one a crash left unreadable
    MaxReorgDepth,
    ReorgsBetweenReads,     \* whether a reorganisation may hit a receipt in use
    MaxHeight, MaxTxs, MaxFaults \* bounds

Tx == [id : 1 .. MaxTxs, nonce : Nat, ids : Seq(OrderIds)]

ASSUME SettlerAssumption ==
    /\ Primary \in Providers /\ CONFIRMATIONS \in Nat \ {0}
    /\ MaxSettlementBatch \in 1 .. MAX_SETTLE_BATCH
    /\ Consistent(InitialManager) /\ InitialPrice \in Prices
    /\ None \notin Tx /\ Torn \notin Tx /\ None # Torn
    /\ MaxReorgDepth \in Nat /\ ReorgsBetweenReads \in BOOLEAN
    /\ MaxHeight \in Nat /\ MaxTxs \in Nat /\ MaxFaults \in Nat

VARIABLES
    chain,                  \* canonical blocks, each with the state after it
    head,                   \* the height each provider has reached
    gossiped,               \* transactions that ever reached the network
    mempool,                \* those that wait to be mined
    reorged,                \* whether the reorganisation has happened
    pass,                   \* what the running sweep holds in memory
    journal,                \* the pending file: None, Torn or a transaction
    aged,                   \* whether it is older than SETTLER_PENDING_DROP_AFTER_MS
    records,                \* the reconciliation directory: transactions and their blocks
    tornRecords,            \* records a crash left unreadable
    sent,                   \* the transactions the journal ever held, in order
    faults                  \* how many faults there have been

chainVars == <<chain, head, gossiped, mempool, reorged>>
diskVars  == <<journal, aged, records, tornRecords, sent>>
vars == <<chainVars, pass, diskVars, faults>>

Block == [m : Manager, price : Prices, nonce : Nat, tx : Tx \cup {None}, ok : BOOLEAN]
Steps == {"idle", "check", "nonce", "save", "broadcast",
          "receipt", "confirm", "verify", "clear", "absent", "resend"}
Idle  == [at |-> "idle", ids |-> <<>>, nonce |-> 0, block |-> 0, ok |-> FALSE]

Init ==
    /\ chain = <<[m |-> InitialManager, price |-> InitialPrice, nonce |-> 0,
                  tx |-> None, ok |-> FALSE]>>
    /\ head = [p \in Providers |-> 1]
    /\ gossiped = {} /\ mempool = {} /\ reorged = FALSE
    /\ pass = Idle
    /\ journal = None /\ aged = FALSE /\ records = {} /\ tornRecords = {} /\ sent = <<>>
    /\ faults = 0

Height == Len(chain)
Tip == Last(chain)

Fault == faults < MaxFaults /\ faults' = faults + 1

--------------------------------------------------------------------------------
(* The chain *)

\* A block with one transaction that is not the settler's.
Extended(m, price) ==
    /\ Height < MaxHeight
    /\ chain' = Append(chain, [Tip EXCEPT !.m = m, !.price = price, !.tx = None, !.ok = FALSE])
    /\ UNCHANGED <<head, gossiped, mempool, reorged, pass, diskVars, faults>>

Trade(price) == price # Tip.price /\ Extended(Tip.m, price)

Cancel(id) == CanCancel(Tip.m, id) /\ Extended(Cancelled(Tip.m, id), Tip.price)

\* Settlement is open to anyone: the second instance, or a passer-by.
SettledByOther(id) ==
    /\ CanSettleMany(Tip.m, Tip.price, <<id>>)
    /\ Extended(SettledMany(Tip.m, <<id>>), Tip.price)

\* Blocks go on, as far as receipts need confirmations.
EmptyBlock ==
    /\ \E h \in DOMAIN chain : chain[h].tx # None /\ Height < h + CONFIRMATIONS - 1
    /\ chain' = Append(chain, [Tip EXCEPT !.tx = None, !.ok = FALSE])
    /\ UNCHANGED <<head, gossiped, mempool, reorged, pass, diskVars, faults>>

\* settleMany of the settler: it may have become impossible, and then reverts.
Mine(tx) ==
    /\ tx \in mempool /\ tx.nonce = Tip.nonce
    /\ LET ok == CanSettleMany(Tip.m, Tip.price, tx.ids)
       IN  chain' = Append(chain, [Tip EXCEPT !.m = IF ok THEN SettledMany(@, tx.ids) ELSE @,
                                              !.nonce = @ + 1, !.tx = tx, !.ok = ok])
    /\ mempool' = {t \in mempool : t.nonce > tx.nonce}
    /\ UNCHANGED <<head, gossiped, reorged, pass, diskVars, faults>>

\* A waiting transaction is forgotten by the network.
Forget(tx) ==
    /\ tx \in mempool /\ Fault
    /\ mempool' = mempool \ {tx}
    /\ UNCHANGED <<chain, head, gossiped, reorged, pass, diskVars>>

\* Some node still held it: delivered late, forgotten, or undone by a reorganisation.
Resurface(tx) ==
    /\ tx \in gossiped \ mempool /\ tx.nonce >= Tip.nonce
    /\ mempool' = mempool \cup {tx}
    /\ UNCHANGED <<chain, head, gossiped, reorged, pass, diskVars, faults>>

\* The last d blocks are replaced, once: a second time could reach deeper than the depth.
Reorganise(d) ==
    /\ ~ reorged /\ reorged' = TRUE
    /\ d < Height
    /\ ReorgsBetweenReads \/ pass.at \notin {"confirm", "verify", "clear"}
    /\ chain' = SubSeq(chain, 1, Height - d)
    /\ head' = [p \in Providers |-> IF head[p] > Height - d THEN Height - d ELSE head[p]]
    /\ UNCHANGED <<gossiped, mempool, pass, diskVars, faults>>

CatchUp(p) ==
    /\ head[p] < Height
    /\ head' = [head EXCEPT ![p] = Height]
    /\ UNCHANGED <<chain, gossiped, mempool, reorged, pass, diskVars, faults>>

--------------------------------------------------------------------------------
(* What the settler reads *)

CommonHeight == Min({head[p] : p \in Providers})
Common == chain[CommonHeight]
View(p) == chain[head[p]]

Settleable(b, id) == IsSettleable(b.m, b.price, id)

\* Which of ids can be settled in block b, in their order.
Sifted(b, ids) ==
    LET kept[k \in 0 .. Len(ids)] ==
            IF k = 0 THEN <<>>
            ELSE IF Settleable(b, ids[k]) THEN Append(kept[k - 1], ids[k]) ELSE kept[k - 1]
    IN  kept
Eligible(b, ids) == Sifted(b, ids)[Len(ids)]

MinedAt(p, tx) == {h \in 1 .. head[p] : chain[h].tx = tx}

\* receiptConsensus: agreed, absent, or else partial.
ReceiptAgreed(tx) == \A p \in Providers : MinedAt(p, tx) # {}
ReceiptAbsent(tx) == \A p \in Providers : MinedAt(p, tx) = {}
BlockOf(tx) == CHOOSE h \in DOMAIN chain : chain[h].tx = tx

\* getTransaction of every provider answers, and the answers agree.
KnownToAll(tx) == ReceiptAgreed(tx) \/ (ReceiptAbsent(tx) /\ tx \in mempool)

\* The latest and pending transaction counts of all providers agree on this nonce.
NonceFree(nonce) ==
    /\ \A p \in Providers : View(p).nonce = nonce
    /\ \A t \in mempool : t.nonce # nonce

\* terminalOutcome at the latest blocks: the providers agree, and some order is active.
StillActive(ids) ==
    /\ \A p \in Providers, k \in DOMAIN ids :
          View(p).m.orders[ids[k]].status = View(Primary).m.orders[ids[k]].status
    /\ \E k \in DOMAIN ids : View(Primary).m.orders[ids[k]].status = "Active"

--------------------------------------------------------------------------------
(* A pass of the settler.  Between two steps the chain and the providers go on. *)

Goes(next) ==
    /\ pass' = next
    /\ UNCHANGED <<chainVars, faults>>

\* runSweepPass and the start of executeLocked: the journal comes before new work.
StartPass ==
    LET ids == Eligible(Common, Common.m.active)
    IN  /\ pass.at = "idle" /\ journal # Torn
        /\ journal # None \/ ids # <<>>
        /\ Goes([Idle EXCEPT !.at = IF journal # None THEN "receipt" ELSE "check",
                             !.ids = IF journal # None THEN <<>> ELSE ids])
        /\ UNCHANGED diskVars

\* A second sweep, at a newer block; terminalOutcome only words the result.
Check ==
    LET batch == SubSeq(pass.ids, 1, Min({Len(pass.ids), MaxSettlementBatch}))
        eligible == Eligible(Common, batch)
    IN  /\ pass.at = "check"
        /\ Goes(IF eligible = <<>> THEN Idle ELSE [Idle EXCEPT !.at = "nonce", !.ids = eligible])
        /\ UNCHANGED diskVars

\* estimateGas at the primary's head, then nextWriteNonce.
ChooseNonce ==
    /\ pass.at = "nonce"
    /\ Goes(IF /\ CanSettleMany(View(Primary).m, View(Primary).price, pass.ids)
               /\ NonceFree(View(Primary).nonce)
            THEN [pass EXCEPT !.at = "save", !.nonce = View(Primary).nonce]
            ELSE Idle)
    /\ UNCHANGED diskVars

\* Sign, and write the journal durably; an existing file is never replaced.
SaveJournal ==
    /\ pass.at = "save" /\ journal = None /\ Len(sent) < MaxTxs
    /\ journal' = [id |-> Len(sent) + 1, nonce |-> pass.nonce, ids |-> pass.ids]
    /\ sent' = Append(sent, journal')
    /\ aged' = FALSE
    /\ Goes([Idle EXCEPT !.at = "broadcast"])
    /\ UNCHANGED <<records, tornRecords>>

\* The node refuses a nonce that is used up.
Broadcast ==
    /\ pass.at \in {"broadcast", "resend"}
    /\ gossiped' = gossiped \cup {journal}
    /\ mempool' = IF journal.nonce < Tip.nonce THEN mempool ELSE mempool \cup {journal}
    /\ pass' = Idle
    /\ UNCHANGED <<chain, head, reorged, diskVars, faults>>

\* reconcilePending: receiptConsensus.  A partial one means pending.
ReadReceipt ==
    /\ pass.at = "receipt"
    /\ Goes(CASE ReceiptAgreed(journal) ->
                   [Idle EXCEPT !.at = "confirm", !.block = BlockOf(journal),
                                !.ok = chain[BlockOf(journal)].ok]
              [] ReceiptAbsent(journal) -> [Idle EXCEPT !.at = "absent"]
              [] OTHER -> Idle)
    /\ UNCHANGED diskVars

\* Mutant: mined is enough.
Confirmed_AtOnce(block) == CommonHeight >= block

\* receiptConfirmed, of the block read before.
Confirmed(block) == CommonHeight >= block + CONFIRMATIONS - 1

Confirm ==
    /\ pass.at = "confirm"
    /\ Goes(IF Confirmed(pass.block) THEN [pass EXCEPT !.at = "verify"] ELSE Idle)
    /\ UNCHANGED diskVars

\* Status 1: reconcileReceipt reads the receipt again and the evidence goes to disk.
RecordSettlement ==
    LET b == BlockOf(journal)
    IN  /\ pass.at = "verify" /\ pass.ok
        /\ IF /\ ReceiptAgreed(journal) /\ chain[b].ok
              /\ journal \notin tornRecords
              /\ \A r \in records : r.tx = journal => r.block = b
           THEN /\ records' = records \cup {[tx |-> journal, block |-> b]}
                /\ Goes([pass EXCEPT !.at = "clear"])
           ELSE UNCHANGED records /\ Goes(Idle)
        /\ UNCHANGED <<journal, aged, tornRecords, sent>>

\* Status 0: the receipt read before decides, once every provider has its block.
AcceptRevert ==
    /\ pass.at = "verify" /\ ~ pass.ok
    /\ Goes(IF KnownToAll(journal) /\ CommonHeight >= pass.block
            THEN [pass EXCEPT !.at = "clear"] ELSE Idle)
    /\ UNCHANGED diskVars

Cleared == pass' = Idle

\* clearAfterConfirmedReceipt.
Clear ==
    /\ pass.at = "clear"
    /\ journal' = None /\ aged' = FALSE
    /\ Cleared
    /\ UNCHANGED <<records, tornRecords, sent, chainVars, faults>>

\* Mutant: the nonce is taken for the number of the transactions before it and it.
Dropped_NonceUsed(tx) ==
    /\ \A p \in Providers : MinedAt(p, tx) = {}
    /\ tx \notin mempool
    /\ NonceFree(tx.nonce + 1)

\* absentTransactionDisposition: nobody knows the transaction and its nonce is free.
Dropped(tx) ==
    /\ \A p \in Providers : MinedAt(p, tx) = {}
    /\ tx \notin mempool
    /\ NonceFree(tx.nonce)

\* Mutant: once its orders are terminal the transaction is not waited for any more.
LineageKept_UntilTerminal == IF StillActive(journal.ids) THEN journal ELSE None

\* Neither a drop nor a terminal race deletes the signed nonce.
LineageKept == journal

\* Resent only young, with an order left, and when the exact call would still succeed.
CheckAbsent ==
    /\ pass.at = "absent"
    /\ Goes(IF /\ StillActive(journal.ids) /\ Dropped(journal) /\ ~ aged
               /\ CanSettleMany(Common.m, Common.price, journal.ids)
            THEN [Idle EXCEPT !.at = "resend"] ELSE Idle)
    /\ journal' = LineageKept
    /\ UNCHANGED <<aged, records, tornRecords, sent>>

--------------------------------------------------------------------------------
(* Time and faults *)

Age ==
    /\ journal \notin {None, Torn} /\ ~ aged
    /\ aged' = TRUE
    /\ UNCHANGED <<chainVars, pass, journal, records, tornRecords, sent, faults>>

\* An RPC error, a deadline that ends the process, or a crash; the supervisor restarts it.
Abort ==
    /\ pass.at # "idle" /\ Fault
    /\ pass' = Idle
    /\ UNCHANGED <<chainVars, diskVars>>

\* The broadcast reached the network, later than the settler waited.
LateBroadcast ==
    /\ pass.at \in {"broadcast", "resend"} /\ Fault
    /\ gossiped' = gossiped \cup {journal}
    /\ pass' = Idle
    /\ UNCHANGED <<chain, head, mempool, reorged, diskVars>>

\* A crash while a file is written leaves it unreadable.
TornSave ==
    /\ pass.at = "save" /\ journal = None /\ Fault
    /\ journal' = Torn
    /\ pass' = Idle
    /\ UNCHANGED <<chainVars, aged, records, tornRecords, sent>>

TornRecord ==
    /\ pass.at = "verify" /\ pass.ok /\ ReceiptAgreed(journal) /\ chain[BlockOf(journal)].ok
    /\ \A r \in records : r.tx # journal
    /\ journal \notin tornRecords /\ Fault
    /\ tornRecords' = tornRecords \cup {journal}
    /\ pass' = Idle
    /\ UNCHANGED <<chainVars, journal, aged, records, sent>>

--------------------------------------------------------------------------------

Outside ==
    \/ \E price \in Prices : Trade(price)
    \/ \E id \in DOMAIN Tip.m.orders : Cancel(id)
    \/ \E id \in DOMAIN Tip.m.orders : SettledByOther(id)

MineOne == \E tx \in mempool : Mine(tx)

Settler ==
    \/ StartPass
    \/ Check
    \/ ChooseNonce
    \/ SaveJournal
    \/ Broadcast
    \/ ReadReceipt
    \/ Confirm
    \/ RecordSettlement
    \/ AcceptRevert
    \/ Clear
    \/ CheckAbsent

Next ==
    \/ Outside
    \/ MineOne
    \/ EmptyBlock
    \/ \E tx \in mempool : Forget(tx)
    \/ \E tx \in gossiped : Resurface(tx)
    \/ \E d \in 1 .. MaxReorgDepth : Reorganise(d)
    \/ \E p \in Providers : CatchUp(p)
    \/ Settler
    \/ Age
    \/ Abort
    \/ LateBroadcast
    \/ TornSave
    \/ TornRecord

\* Sweeps are triggered by timers, the chain and the providers go on.
Fairness ==
    /\ WF_vars(Settler)
    /\ WF_vars(MineOne) /\ WF_vars(EmptyBlock)
    /\ \A p \in Providers : WF_vars(CatchUp(p))

Spec == Init /\ [][Next]_vars /\ Fairness
================================================================================
