------------------------------- MODULE AnchorTick -------------------------------
(***************************************************************************)
(* The hourly anchor tick.  It gathers the ownership proofs that are not   *)
(* under a root yet, records a batch for them, sends the batch's root to   *)
(* the registry contract, stamps the proofs once the transaction is deep   *)
(* enough, and scans the registry for writes that are not its own.         *)
(*                                                                         *)
(* Ticks overlap and die.  Every database call and every answer of the     *)
(* chain that a tick acts on is an action; a slot works on one row at a    *)
(* time, as the loops of a tick do, and may wait between any two calls, so *)
(* that a row read early in a tick and used late in it is covered.         *)
(*                                                                         *)
(* The chain is external: a sequence of what the registry saw, whose first *)
(* `final` entries have the configured number of confirmations and stay.   *)
(* Two assumptions about it are built in: a transaction that the node does *)
(* not know ten minutes after it was submitted is never mined, and a       *)
(* reverted transaction is not undone by a reorganisation.                 *)
(***************************************************************************)
EXTENDS Naturals, Sequences, FiniteSets

CONSTANTS
    Proofs,    \* ids of ownership_proofs rows
    Txs,       \* transactions the writer may sign (bound)
    NoTx,      \* no transaction; also: somebody else's transaction
    Ticks,     \* ticks, or loops of ticks, in flight together
    Modes,     \* config.mode of the instance: one of these
    MaxBatch,  \* bound: batches, and days that close
    MaxFaults  \* bound: lost transactions, reorganisations, foreign writes

ASSUME NoTxAssumption == NoTx \notin Txs
ASSUME FiniteTxsAssumption == IsFiniteSet(Txs)
ASSUME ModesAssumption == Modes \subseteq {"daily_batch", "per_event"}
ASSUME BoundsAssumption == MaxBatch \in Nat /\ MaxFaults \in Nat

VARIABLES
    mode,    \* config.mode
    today,   \* the UTC day
    proofs,  \* ownership_proofs: created_at, anchor_batch_id, anchored_tx_hash
    batches, \* anchor_batches
    txs,     \* transactions signed by the writer key
    chain,   \* what the registry saw, oldest first
    final,   \* how much of it is deep enough
    cursor,  \* anchor_chain_state.last_scanned_block
    alerts,  \* anchor_alerts about an entry of the chain
    ticks,   \* slot -> what it is doing and what it has read
    faults   \* history: faults so far

node == <<txs, chain, final>>
vars == <<mode, today, proofs, batches, node, cursor, alerts, ticks, faults>>

Batches == 1..MaxBatch
Days == 1..(MaxBatch + 1)

Proof == [day : {0} \cup Days, batch : {0} \cup Batches, stamp : Txs \cup {NoTx}]

(* `leaves` is the Merkle root: the proofs it was computed from.           *)
Batch ==
    [status : {"none", "pending", "submitted", "confirmed"},
     tx     : Txs \cup {NoTx},
     sent   : SUBSET Txs,
     leaves : SUBSET Proofs]

(* signed: not yet broadcast; flying: broadcast, the node has not answered *)
(* or has not got it yet; dead: it will never be mined.                    *)
Tx ==
    [state : {"free", "signed", "flying", "known", "mined", "dead"},
     root  : {0} \cup Batches,
     nonce : Nat]

(* An event of the registry, or a transaction of ours that reverted.  `tx` *)
(* is NoTx for somebody else's transaction.                                *)
Entry ==
    [kind  : {"root", "reverted", "writer_ours", "writer_other"},
     tx    : Txs \cup {NoTx},
     value : {0} \cup Batches]

(* `from` and `to` are days in the batch step, `to` an entry in the scan.   *)
TickSlot ==
    [pc   : {"idle", "stamp", "requeue", "days", "record", "sign", "claim", "broadcast", "alert"},
     batch : {0} \cup Batches,
     tx    : Txs \cup {NoTx},
     sent  : SUBSET Txs,
     from  : Nat,
     to    : Nat,
     rows  : SUBSET Proofs,
     unmatched : SUBSET (Nat \ {0})]

IdleTick ==
    [pc |-> "idle", batch |-> 0, tx |-> NoTx, sent |-> {}, from |-> 0, to |-> 0,
     rows |-> {}, unmatched |-> {}]

TypeOK ==
    /\ mode \in Modes
    /\ today \in Days
    /\ proofs \in [Proofs -> Proof]
    /\ batches \in [Batches -> Batch]
    /\ \A b \in Batches : batches[b].status \in {"submitted", "confirmed"} => batches[b].tx # NoTx
    /\ txs \in [Txs -> Tx]
    /\ chain \in Seq(Entry)
    /\ final \in 0..Len(chain)
    /\ cursor \in 0..final
    /\ alerts \subseteq 1..final
    /\ ticks \in [Ticks -> TickSlot]
    /\ faults \in 0..MaxFaults

UnusedTx == [state |-> "free", root |-> 0, nonce |-> 0]
NewBatch == [status |-> "none", tx |-> NoTx, sent |-> {}, leaves |-> {}]

Init ==
    /\ mode \in Modes
    /\ today = 1
    /\ proofs = [p \in Proofs |-> [day |-> 0, batch |-> 0, stamp |-> NoTx]]
    /\ batches = [b \in Batches |-> NewBatch]
    /\ txs = [t \in Txs |-> UnusedTx]
    /\ chain = <<>>
    /\ final = 0
    /\ cursor = 0
    /\ alerts = {}
    /\ ticks = [k \in Ticks |-> IdleTick]
    /\ faults = 0

-----------------------------------------------------------------------------
Recorded == {b \in Batches : batches[b].status # "none"}

(* The registry's writer, in a history c of it, is our key.                *)
WriterIsOurs(c) ==
    \A i \in 1..Len(c) : c[i].kind = "writer_other" =>
       \E j \in (i + 1)..Len(c) : c[j].kind = "writer_ours"

(* Transactions of ours that are in c: the account's next nonce there.     *)
Mined(c) == {t \in Txs : \E i \in 1..Len(c) : c[i].tx = t}
NonceIn(c) == Cardinality(Mined(c))

(* The nonce the node proposes for a new transaction.                      *)
PendingNonce(n) ==
    LET taken == {txs[t].nonce : t \in {u \in Txs : txs[u].state = "known"}}
    IN  /\ n >= NonceIn(chain)
        /\ n \notin taken
        /\ \A lower \in NonceIn(chain)..n : lower < n => lower \in taken

Slot(k, fields) == ticks' = [ticks EXCEPT ![k] = fields]
Finish(k) == Slot(k, IdleTick)

-----------------------------------------------------------------------------
(* Time and the application. *)

(* A claim or a transfer writes an ownership proof.                        *)
MintProof(p) ==
    /\ proofs[p].day = 0
    /\ proofs' = [proofs EXCEPT ![p].day = today]
    /\ UNCHANGED <<mode, today, batches, node, cursor, alerts, ticks, faults>>

NextDay ==
    /\ today < MaxBatch + 1
    /\ today' = today + 1
    /\ UNCHANGED <<mode, proofs, batches, node, cursor, alerts, ticks, faults>>

-----------------------------------------------------------------------------
(* The chain. *)

(* A transaction is mined in the order of its nonce; others with its nonce *)
(* can no longer be.                                                       *)
Mine(t) ==
    /\ txs[t].state = "known"
    /\ txs[t].nonce = NonceIn(chain)
    /\ chain' = Append(chain,
          [kind |-> IF WriterIsOurs(chain) THEN "root" ELSE "reverted",
           tx |-> t, value |-> txs[t].root])
    /\ txs' = [u \in Txs |->
          IF u = t THEN [txs[u] EXCEPT !.state = "mined"]
          ELSE IF txs[u].state = "known" /\ txs[u].nonce = txs[t].nonce
               THEN [txs[u] EXCEPT !.state = "dead"]
               ELSE txs[u]]
    /\ UNCHANGED <<mode, today, proofs, batches, final, cursor, alerts, ticks, faults>>

(* A broadcast reaches the node after all.                                 *)
Arrive(t) ==
    /\ txs[t].state = "flying"
    /\ txs' = [txs EXCEPT ![t].state = IF txs[t].nonce < NonceIn(chain) THEN "dead" ELSE "known"]
    /\ UNCHANGED <<mode, today, proofs, batches, chain, final, cursor, alerts, ticks, faults>>

(* A broadcast never arrives, or the node drops what it knew.              *)
Drop(t) ==
    /\ txs[t].state \in {"flying", "known"}
    /\ faults < MaxFaults
    /\ faults' = faults + 1
    /\ txs' = [txs EXCEPT ![t].state = "dead"]
    /\ UNCHANGED <<mode, today, proofs, batches, chain, final, cursor, alerts, ticks>>

(* An entry gets its confirmations.                                        *)
Finalise ==
    /\ final < Len(chain)
    /\ final' = final + 1
    /\ UNCHANGED <<mode, today, proofs, batches, txs, chain, cursor, alerts, ticks, faults>>

(* What is not deep enough is undone; our transactions wait again.         *)
Reorganise ==
    LET kept == SubSeq(chain, 1, final)
    IN  /\ final < Len(chain)
        /\ faults < MaxFaults
        /\ \A i \in (final + 1)..Len(chain) : chain[i].kind # "reverted"
        /\ chain' = kept
        /\ txs' = [t \in Txs |->
              IF t \in Mined(chain) \ Mined(kept) THEN [txs[t] EXCEPT !.state = "known"] ELSE txs[t]]
        /\ faults' = faults + 1
        /\ UNCHANGED <<mode, today, proofs, batches, final, cursor, alerts, ticks>>

(* Somebody else writes to the registry, one of our roots again or junk.   *)
ForeignWrite(value) ==
    /\ faults < MaxFaults
    /\ chain' = Append(chain, [kind |-> "root", tx |-> NoTx, value |-> value])
    /\ faults' = faults + 1
    /\ UNCHANGED <<mode, today, proofs, batches, txs, final, cursor, alerts, ticks>>

(* The registry's owner replaces the writer, or puts ours back.            *)
SetWriter ==
    /\ WriterIsOurs(chain) => faults < MaxFaults
    /\ chain' = Append(chain,
          [kind |-> IF WriterIsOurs(chain) THEN "writer_other" ELSE "writer_ours",
           tx |-> NoTx, value |-> 0])
    /\ faults' = IF WriterIsOurs(chain) THEN faults + 1 ELSE faults
    /\ UNCHANGED <<mode, today, proofs, batches, txs, final, cursor, alerts, ticks>>

-----------------------------------------------------------------------------
(* Confirm: look up the receipt of a submitted batch. *)

(* Mutant of ReceiptSays: a receipt counts as soon as there is one.        *)
ReceiptSaysAnyDepth(t) ==
    IF \E i \in 1..Len(chain) : chain[i].tx = t /\ chain[i].kind = "root" THEN "stamp"
    ELSE IF txs[t].state = "dead" \/ \E i \in 1..Len(chain) : chain[i].tx = t THEN "requeue"
    ELSE "wait"

(* What confirmOne makes of the chain's answers.                           *)
ReceiptSays(t) ==
    IF \E i \in 1..final : chain[i].tx = t /\ chain[i].kind = "root" THEN "stamp"
    ELSE IF \/ txs[t].state = "dead"
            \/ \E i \in 1..Len(chain) : chain[i].tx = t /\ chain[i].kind = "reverted"
         THEN "requeue"
    ELSE "wait"

(* One row of the confirm step.  It was read before the chain was asked;   *)
(* if it changed in between, the write below finds that out.               *)
ConfirmOne(k, b) ==
    /\ ticks[k].pc = "idle"
    /\ batches[b].status = "submitted"
    /\ ReceiptSays(batches[b].tx) # "wait"
    /\ Slot(k, [IdleTick EXCEPT !.pc = ReceiptSays(batches[b].tx), !.batch = b, !.tx = batches[b].tx])
    /\ UNCHANGED <<mode, today, proofs, batches, node, cursor, alerts, faults>>

(* UPDATE anchor_batches SET status = 'confirmed' ... AND tx_hash =, with  *)
(* the stamps of its proofs.                                               *)
confirm_anchor_batch(k) ==
    LET b == ticks[k].batch
        t == ticks[k].tx
    IN  /\ ticks[k].pc = "stamp"
        /\ IF batches[b].status = "submitted" /\ batches[b].tx = t
           THEN /\ batches' = [batches EXCEPT ![b].status = "confirmed"]
                /\ proofs' = [p \in Proofs |->
                      IF proofs[p].batch = b THEN [proofs[p] EXCEPT !.stamp = t] ELSE proofs[p]]
           ELSE UNCHANGED <<batches, proofs>>
        /\ Finish(k)
        /\ UNCHANGED <<mode, today, node, cursor, alerts, faults>>

(* A reverted or dropped transaction: its batch, if it still waits for     *)
(* that transaction, is due again.                                         *)
BackToPending(k) ==
    LET b == ticks[k].batch
    IN  /\ ticks[k].pc = "requeue"
        /\ IF batches[b].status = "submitted" /\ batches[b].tx = ticks[k].tx
           THEN batches' = [batches EXCEPT ![b].status = "pending"]
           ELSE UNCHANGED batches
        /\ Finish(k)
        /\ UNCHANGED <<mode, today, proofs, node, cursor, alerts, faults>>

-----------------------------------------------------------------------------
(* Batch: put the proofs that are under no root under one. *)

LastDay ==
    IF Recorded = {} THEN 0 ELSE CHOOSE d \in Recorded : \A other \in Recorded : other <= d

(* daysToClose: from the day after the newest root up to yesterday; with   *)
(* no root yet, yesterday.                                                 *)
DaysToClose(k) ==
    LET next == IF LastDay = 0 THEN today - 1 ELSE LastDay + 1
    IN  /\ ticks[k].pc = "idle"
        /\ mode = "daily_batch"
        /\ next \in 1..(today - 1)
        /\ Slot(k, [IdleTick EXCEPT !.pc = "days", !.from = next, !.to = today - 1])
        /\ UNCHANGED <<mode, today, proofs, batches, node, cursor, alerts, faults>>

(* Mutant of Unbatched: a day takes the proofs of that day only.           *)
UnbatchedOfDay(lastDay) == {p \in Proofs : proofs[p].day = lastDay /\ proofs[p].batch = 0}

Unbatched(lastDay) == {p \in Proofs : proofs[p].day \in 1..lastDay /\ proofs[p].batch = 0}

ReadProofs(k) ==
    /\ \/ /\ ticks[k].pc = "days"
          /\ Slot(k, [ticks[k] EXCEPT !.pc = "record", !.rows = Unbatched(ticks[k].from)])
       \/ /\ ticks[k].pc = "idle"
          /\ mode = "per_event"
          /\ Unbatched(today) # {}
          /\ Slot(k, [IdleTick EXCEPT !.pc = "record", !.rows = Unbatched(today)])
    /\ UNCHANGED <<mode, today, proofs, batches, node, cursor, alerts, faults>>

(* INSERT the batch and mark its proofs.                                   *)
Insert(b, P) ==
    /\ batches' = [batches EXCEPT ![b] = [NewBatch EXCEPT !.status = "pending", !.leaves = P]]
    /\ proofs' = [p \in Proofs |->
          IF p \in P /\ proofs[p].batch = 0 THEN [proofs[p] EXCEPT !.batch = b] ELSE proofs[p]]

(* Mutant of TakesAll: the number of marked proofs is not compared.        *)
TakesAny(P) == P \subseteq Proofs

(* v_updated = v_expected: no proof of P went under another root.          *)
TakesAll(P) == \A p \in P : proofs[p].batch = 0

(* record_anchor_batch for a day.  A day that has its batch keeps it; a    *)
(* conflict rolls the insertion back and ends the step.                    *)
RecordDay(k) ==
    LET d == ticks[k].from
        P == ticks[k].rows
        onward == IF d = ticks[k].to THEN IdleTick
                  ELSE [IdleTick EXCEPT !.pc = "days", !.from = d + 1, !.to = ticks[k].to]
    IN  /\ ticks[k].pc = "record"
        /\ mode = "daily_batch"
        /\ IF d \in Recorded THEN UNCHANGED <<batches, proofs>> /\ Slot(k, onward)
           ELSE IF TakesAll(P) THEN Insert(d, P) /\ Slot(k, onward)
           ELSE UNCHANGED <<batches, proofs>> /\ Finish(k)
        /\ UNCHANGED <<mode, today, node, cursor, alerts, faults>>

(* record_anchor_batch for one of the proofs read.                         *)
RecordEvent(k, p) ==
    LET rest == ticks[k].rows \ {p}
        b == Cardinality(Recorded) + 1
    IN  /\ ticks[k].pc = "record"
        /\ mode = "per_event"
        /\ p \in ticks[k].rows
        /\ b \in Batches
        /\ IF TakesAll({p})
           THEN /\ Insert(b, {p})
                /\ Slot(k, IF rest = {} THEN IdleTick ELSE [ticks[k] EXCEPT !.rows = rest])
           ELSE UNCHANGED <<batches, proofs>> /\ Finish(k)
        /\ UNCHANGED <<mode, today, node, cursor, alerts, faults>>

-----------------------------------------------------------------------------
(* Send: sign, record the hash, broadcast. *)

(* The registry's writer is ours and a batch is due.  A writer replaced    *)
(* after the check makes the transaction revert.                           *)
SendReads(k, b) ==
    /\ ticks[k].pc = "idle"
    /\ WriterIsOurs(chain)
    /\ batches[b].status = "pending"
    /\ Slot(k, [IdleTick EXCEPT !.pc = "sign", !.batch = b, !.sent = batches[b].sent])
    /\ UNCHANGED <<mode, today, proofs, batches, node, cursor, alerts, faults>>

SignAnchor(k, t) ==
    /\ ticks[k].pc = "sign"
    /\ txs[t].state = "free"
    /\ \E n \in 0..Cardinality(Txs) :
          /\ PendingNonce(n)
          /\ txs' = [txs EXCEPT ![t] =
                [state |-> "signed", root |-> ticks[k].batch, nonce |-> n]]
    /\ Slot(k, [ticks[k] EXCEPT !.pc = "claim", !.tx = t])
    /\ UNCHANGED <<mode, today, proofs, batches, chain, final, cursor, alerts, faults>>

(* Record before broadcast: the batch is submitted under this hash, or     *)
(* another tick took it and the signed transaction is discarded.  The list *)
(* of hashes is the one read with the row, and this one.                   *)
ClaimBatch(k) ==
    LET b == ticks[k].batch
        t == ticks[k].tx
    IN  /\ ticks[k].pc = "claim"
        /\ IF batches[b].status = "pending"
           THEN /\ batches' = [batches EXCEPT
                      ![b].status = "submitted", ![b].tx = t, ![b].sent = ticks[k].sent \cup {t}]
                /\ Slot(k, [ticks[k] EXCEPT !.pc = "broadcast"])
                /\ UNCHANGED txs
           ELSE /\ Finish(k)
                /\ txs' = [txs EXCEPT ![t] = UnusedTx]
                /\ UNCHANGED batches
        /\ UNCHANGED <<mode, today, proofs, chain, final, cursor, alerts, faults>>

(* Mutant of Broadcast: an error puts the batch back at once.              *)
BroadcastOrRequeue(k) ==
    LET t == ticks[k].tx
    IN  /\ ticks[k].pc = "broadcast"
        /\ \/ /\ txs' = [txs EXCEPT ![t].state = "known"]
              /\ UNCHANGED batches
           \/ /\ txs' = [txs EXCEPT ![t].state = "flying"]
              /\ batches' = [batches EXCEPT ![ticks[k].batch].status = "pending"]
        /\ Finish(k)
        /\ UNCHANGED <<mode, today, proofs, chain, final, cursor, alerts, faults>>

(* The node takes the transaction, or the call fails and nobody knows: the *)
(* batch stays submitted either way.                                       *)
Broadcast(k) ==
    LET t == ticks[k].tx
    IN  /\ ticks[k].pc = "broadcast"
        /\ \E state \in {"known", "flying"} :
              /\ state = "known" => txs[t].nonce >= NonceIn(chain)
              /\ txs' = [txs EXCEPT ![t].state = state]
        /\ Finish(k)
        /\ UNCHANGED <<mode, today, proofs, batches, chain, final, cursor, alerts, faults>>

-----------------------------------------------------------------------------
(* Reconcile: every registry event since the last scan must be ours. *)

(* A replaced writer or a write by a transaction we never signed for that  *)
(* root.                                                                   *)
NeedsAlert(e) ==
    \/ e.kind = "writer_other"
    \/ e.kind = "root" /\ (e.value \notin Recorded \/ e.tx \notin batches[e.value].sent)

Scan(k, from, to) ==
    Slot(k, [IdleTick EXCEPT !.pc = "alert", !.to = to,
       !.unmatched = {i \in from..to : NeedsAlert(chain[i])}])

(* The events of a chunk, compared with the batches.  Entries this deep do *)
(* not change, so it does not matter when the cursor was read.             *)
CheckEvents(k, to) ==
    /\ ticks[k].pc = "idle"
    /\ to \in (cursor + 1)..final
    /\ Scan(k, cursor + 1, to)
    /\ UNCHANGED <<mode, today, proofs, batches, node, cursor, alerts, faults>>

record_anchor_alert(k, i) ==
    /\ ticks[k].pc = "alert"
    /\ i \in ticks[k].unmatched
    /\ \A j \in ticks[k].unmatched : i <= j
    /\ alerts' = alerts \cup {i}
    /\ Slot(k, [ticks[k] EXCEPT !.unmatched = @ \ {i}])
    /\ UNCHANGED <<mode, today, proofs, batches, node, cursor, faults>>

(* Mutant of SaveCursor: an alert that was not recorded is only logged.    *)
SaveCursorAnyway(k) ==
    /\ ticks[k].pc = "alert"
    /\ cursor' = ticks[k].to
    /\ \/ Finish(k)
       \/ \E to \in (ticks[k].to + 1)..final : Scan(k, ticks[k].to + 1, to)
    /\ UNCHANGED <<mode, today, proofs, batches, node, alerts, faults>>

(* The cursor moves once every alert of the chunk is stored, and wherever  *)
(* another tick has put it meanwhile.  The next chunk starts after its own.*)
SaveCursor(k) ==
    /\ ticks[k].pc = "alert"
    /\ ticks[k].unmatched = {}
    /\ cursor' = ticks[k].to
    /\ \/ Finish(k)
       \/ \E to \in (ticks[k].to + 1)..final : Scan(k, ticks[k].to + 1, to)
    /\ UNCHANGED <<mode, today, proofs, batches, node, alerts, faults>>

(* A call fails or the process dies.  A transaction that was signed but    *)
(* not recorded is forgotten, one recorded but not sent is never mined.    *)
Abort(k) ==
    /\ ticks[k].pc # "idle"
    /\ ticks[k].pc = "broadcast" => faults < MaxFaults
    /\ txs' = CASE ticks[k].pc = "claim" -> [txs EXCEPT ![ticks[k].tx] = UnusedTx]
                [] ticks[k].pc = "broadcast" -> [txs EXCEPT ![ticks[k].tx].state = "dead"]
                [] OTHER -> txs
    /\ faults' = IF ticks[k].pc = "broadcast" THEN faults + 1 ELSE faults
    /\ Finish(k)
    /\ UNCHANGED <<mode, today, proofs, batches, chain, final, cursor, alerts>>

-----------------------------------------------------------------------------
Confirm(k) ==
    \/ \E b \in Batches : ConfirmOne(k, b)
    \/ confirm_anchor_batch(k)
    \/ BackToPending(k)

Gather(k) ==
    \/ DaysToClose(k)
    \/ ReadProofs(k)
    \/ RecordDay(k)
    \/ \E p \in Proofs : RecordEvent(k, p)

Send(k) ==
    \/ \E b \in Batches : SendReads(k, b)
    \/ \E t \in Txs : SignAnchor(k, t)
    \/ ClaimBatch(k)
    \/ Broadcast(k)

Reconcile(k) ==
    \/ \E to \in 1..Len(chain) : CheckEvents(k, to)
    \/ \E i \in 1..Len(chain) : record_anchor_alert(k, i)
    \/ SaveCursor(k)

Chain ==
    \/ \E t \in Txs : Mine(t) \/ Arrive(t) \/ Drop(t)
    \/ Finalise
    \/ Reorganise
    \/ \E value \in {0} \cup Recorded : ForeignWrite(value)
    \/ SetWriter

Next ==
    \/ \E p \in Proofs : MintProof(p)
    \/ NextDay
    \/ Chain
    \/ \E k \in Ticks : Confirm(k) \/ Gather(k) \/ Send(k) \/ Reconcile(k) \/ Abort(k)

Spec == Init /\ [][Next]_vars

(* What a tick that has started goes on to do.                             *)
GoesOn(k) ==
    \/ confirm_anchor_batch(k) \/ BackToPending(k)
    \/ RecordDay(k) \/ \E p \in Proofs : RecordEvent(k, p)
    \/ ticks[k].pc = "days" /\ ReadProofs(k)
    \/ \E t \in Txs : SignAnchor(k, t)
    \/ ClaimBatch(k) \/ Broadcast(k)
    \/ \E i \in 1..Len(chain) : record_anchor_alert(k, i)
    \/ SaveCursor(k)

(* pg_cron starts a tick every hour, a tick runs each of its steps over    *)
(* all the rows it reads, and a started loop ends.  The node answers, mines*)
(* what it knows and the chain grows.                                      *)
Fairness ==
    /\ \A k \in Ticks :
          /\ WF_vars(GoesOn(k))
          /\ SF_vars(DaysToClose(k) \/ (ticks[k].pc = "idle" /\ ReadProofs(k)))
          /\ \A b \in Batches : SF_vars(ConfirmOne(k, b)) /\ SF_vars(SendReads(k, b))
    /\ WF_vars(\E t \in Txs : Mine(t))
    /\ WF_vars(\E t \in Txs : Arrive(t))
    /\ WF_vars(Finalise)
    /\ WF_vars(NextDay)

-----------------------------------------------------------------------------
(* The leaves a root was computed from are the proofs marked with its      *)
(* batch, whatever other ticks batched meanwhile: every stored Merkle path *)
(* belongs to the root it is stored with.                                  *)
LeavesAgree ==
    \A b \in Batches : batches[b].leaves = {p \in Proofs : proofs[p].batch = b}

(* A proof that says it was anchored names the transaction that wrote the  *)
(* root of its own batch, and that write can no longer be undone.          *)
StampIsTrue ==
    \A p \in Proofs : proofs[p].stamp # NoTx =>
       \E i \in 1..final :
          /\ chain[i].kind = "root"
          /\ chain[i].tx = proofs[p].stamp
          /\ chain[i].value = proofs[p].batch

(* The forged-write check never accuses our own transactions, however      *)
(* often a batch was resent and by however many ticks.                     *)
OwnWritesAreRecognised ==
    \A i \in alerts : chain[i].tx = NoTx

(* No entry that the scan has passed escaped it: a write we did not make   *)
(* and a replaced writer have an alert.                                    *)
ForgedWritesAreAlerted ==
    \A i \in 1..cursor :
       chain[i].kind = "writer_other" \/ (chain[i].kind = "root" /\ chain[i].tx = NoTx) => i \in alerts

(* Ticks, resending and all, implement AnchorLedger: a root is written     *)
(* once, by a transaction of ours, after its leaves are fixed and before   *)
(* they are stamped.                                                       *)
Writes(b) == {i \in 1..final : chain[i].kind = "root" /\ chain[i].tx # NoTx /\ chain[i].value = b}

Ledger == INSTANCE AnchorLedger WITH
    queued <- Recorded,
    leaves <- [b \in Batches |-> batches[b].leaves],
    written <- [b \in Batches |-> Cardinality(Writes(b))],
    stamped <- {b \in Batches : batches[b].status = "confirmed"}

ImplementsLedger == Ledger!Spec

(* A recorded root is confirmed at last, though its transactions may get   *)
(* lost, be replaced, revert or be undone: nothing waits for a transaction *)
(* that can no longer come.                                                *)
RootsAreConfirmed ==
    \A b \in Batches : (batches[b].status # "none") ~> (batches[b].status = "confirmed")

(* Every proof is anchored at last, those of days that closed while no     *)
(* tick ran included.                                                      *)
ProofsAreAnchored ==
    \A p \in Proofs :
       (proofs[p].day \in 1..MaxBatch /\ proofs[p].day < today) ~> (proofs[p].stamp # NoTx)

(* The alerts are exactly those there should be, of what was scanned.      *)
AlertsAreRight == OwnWritesAreRecognised /\ ForgedWritesAreAlerted

(* Rows have their shape, a batch under way has its transaction, and the   *)
(* leaves of a root are the proofs marked with it.                         *)
Inv == TypeOK /\ LeavesAgree

(* Anchoring comes to its end for every root and for every proof.          *)
AnchoringEnds == RootsAreConfirmed /\ ProofsAreAnchored
=============================================================================
