---------------------------- MODULE AnchorTick_proofs ----------------------------
(***************************************************************************)
(* Proofs about AnchorTick, for any number of ownership proofs, ticks in   *)
(* flight, transactions and batches, either mode, and whatever the chain   *)
(* loses, undoes or lets others write.                                     *)
(***************************************************************************)
EXTENDS AnchorTick, FiniteSetTheorems, TLAPS

(* The parts of TypeOK.                                                    *)
RowsTyped ==
    /\ mode \in Modes
    /\ today \in Days
    /\ proofs \in [Proofs -> Proof]
    /\ batches \in [Batches -> Batch]
    /\ faults \in 0..MaxFaults

NodeTyped ==
    /\ txs \in [Txs -> Tx]
    /\ chain \in Seq(Entry)
    /\ final \in 0..Len(chain)

ScanTyped ==
    /\ cursor \in 0..final
    /\ alerts \subseteq 1..final

(* A root of ours in a history of the registry, and a reverted attempt.    *)
Root(i, t) == chain[i].kind = "root" /\ chain[i].tx = t
Written(t) == \E i \in 1..Len(chain) : Root(i, t)
Reverted(t) == \E i \in 1..Len(chain) : chain[i].kind = "reverted" /\ chain[i].tx = t
Final(t) == \E i \in 1..final : Root(i, t)

(* The transaction can write its root, or has; and the contrary.           *)
Sending(t) == \E k \in Ticks : ticks[k].pc = "broadcast" /\ ticks[k].tx = t
Live(t) == txs[t].state \in {"flying", "known"} \/ Written(t) \/ Sending(t)
Gone(t) == txs[t].state = "dead" \/ Reverted(t)

(* A batch that was sent knows its last transaction, which was signed for  *)
(* it; in per-event mode the batches are numbered without a gap.           *)
BatchOK(b) ==
    /\ batches[b].status = "none" => batches[b].tx = NoTx
    /\ batches[b].status \in {"submitted", "confirmed"} => batches[b].tx # NoTx
    /\ batches[b].tx # NoTx =>
          /\ batches[b].tx \in batches[b].sent
          /\ txs[batches[b].tx].root = b
          /\ txs[batches[b].tx].state # "free"

BatchesOK ==
    /\ \A b \in Batches : BatchOK(b)
    /\ mode = "per_event" => \E n \in 0..MaxBatch : Recorded = 1..n

(* An ownership proof is a leaf of the batch it is marked with.            *)
ProofOK(p) ==
    /\ proofs[p].batch # 0 => batches[proofs[p].batch].status # "none"
    /\ proofs[p].stamp # NoTx =>
          \E i \in 1..final : Root(i, proofs[p].stamp) /\ chain[i].value = proofs[p].batch

ProofsOK == LeavesAgree /\ \A p \in Proofs : ProofOK(p)

(* An entry of ours is what its transaction did, and it did it once.       *)
EntryOK(i) ==
    chain[i].tx # NoTx =>
       /\ chain[i].kind \in {"root", "reverted"}
       /\ txs[chain[i].tx].state = "mined"
       /\ chain[i].value = txs[chain[i].tx].root
       /\ \A j \in 1..Len(chain) : chain[j].tx = chain[i].tx => j = i

ChainOK == \A i \in 1..Len(chain) : EntryOK(i)

(* At most one transaction of a batch can write its root, or has: the one  *)
(* that its row names.                                                     *)
LiveOK ==
    \A t \in Txs : Live(t) =>
       LET b == txs[t].root
       IN  b \in Batches /\ batches[b].status \in {"submitted", "confirmed"} /\ batches[b].tx = t

(* What a slot has read and may still rely on.                             *)
Forged(i) == chain[i].kind = "writer_other" \/ (chain[i].kind = "root" /\ chain[i].tx = NoTx)

SlotOK(s) ==
    /\ s.pc \in {"stamp", "requeue", "sign", "claim", "broadcast"} => s.batch \in Batches
    /\ s.pc \in {"stamp", "requeue", "claim", "broadcast"} => s.tx \in Txs
    /\ s.pc = "stamp" => Final(s.tx) /\ txs[s.tx].root = s.batch
    /\ s.pc = "requeue" => Gone(s.tx)
    /\ s.pc \in {"claim", "broadcast"} => txs[s.tx].state = "signed" /\ txs[s.tx].root = s.batch
    /\ s.pc = "claim" => \A b \in Batches : batches[b].tx # s.tx
    /\ s.pc \in {"days", "record"} /\ mode = "daily_batch" =>
          1 <= s.from /\ s.from <= s.to /\ s.to <= MaxBatch
    /\ s.pc = "alert" =>
          /\ s.to \in 0..final
          /\ \A i \in s.unmatched : i \in 1..s.to /\ chain[i].tx = NoTx
          /\ \A i \in 1..s.to : Forged(i) => i \in alerts \cup s.unmatched

(* A signed transaction is in the hands of one slot.                       *)
Holds(k) == ticks[k].pc \in {"claim", "broadcast"}

TicksOK ==
    /\ ticks \in [Ticks -> TickSlot]
    /\ \A k \in Ticks : SlotOK(ticks[k])
    /\ \A k, l \in Ticks : Holds(k) /\ Holds(l) /\ ticks[k].tx = ticks[l].tx => k = l

(* The inductive invariant.                                                *)
IInv ==
    /\ RowsTyped /\ NodeTyped /\ ScanTyped
    /\ BatchesOK
    /\ ProofsOK
    /\ ChainOK
    /\ LiveOK
    /\ TicksOK
    /\ AlertsAreRight

LEMMA InitIInv == Init => IInv
<1> SUFFICES ASSUME Init PROVE IInv
  OBVIOUS
<1>1. RowsTyped /\ NodeTyped /\ ScanTyped
  <2>1. /\ [day |-> 0, batch |-> 0, stamp |-> NoTx] \in Proof
        /\ NewBatch \in Batch /\ UnusedTx \in Tx
    BY DEF Proof, NewBatch, Batch, UnusedTx, Tx
  <2>. QED
    BY <2>1, BoundsAssumption DEF Init, RowsTyped, NodeTyped, ScanTyped, Days
<1>2. \A b \in Batches : batches[b].status = "none" /\ batches[b].tx = NoTx /\ batches[b].leaves = {}
  BY DEF Init, NewBatch
<1>3. BatchesOK
  <2>1. Recorded = 1..0
    BY <1>2 DEF Recorded
  <2>. QED
    BY <1>2, <2>1, BoundsAssumption DEF BatchesOK, BatchOK
<1>4. ProofsOK
  <2>1. \A p \in Proofs : proofs[p].batch = 0 /\ proofs[p].stamp = NoTx
    BY DEF Init
  <2>. QED
    BY <1>2, <2>1 DEF ProofsOK, ProofOK, LeavesAgree, Batches
<1>5. \A t : ~Written(t) /\ ~Reverted(t)
  BY DEF Init, Written, Reverted
<1>6. ChainOK /\ AlertsAreRight
  BY DEF Init, ChainOK, AlertsAreRight, OwnWritesAreRecognised, ForgedWritesAreAlerted
<1>7. IdleTick \in TickSlot /\ IdleTick.pc = "idle"
  BY DEF IdleTick, TickSlot
<1>8. TicksOK
  BY <1>7 DEF Init, TicksOK, SlotOK, Holds
<1>9. LiveOK
  <2>1. \A t \in Txs : txs[t].state = "free" /\ ~Sending(t)
    BY <1>7 DEF Init, UnusedTx, Sending
  <2>. QED
    BY <1>5, <2>1 DEF LiveOK, Live
<1>. QED
  BY <1>1, <1>3, <1>4, <1>6, <1>8, <1>9 DEF IInv

-----------------------------------------------------------------------------
(* What follows from the invariant.                                        *)

LEMMA TypesFollow == IInv => TypeOK
BY DEF IInv, RowsTyped, NodeTyped, ScanTyped, BatchesOK, BatchOK, TicksOK, TypeOK

(* An entry of ours has its transaction, which cannot write another.       *)
LEMMA OwnEntry ==
    ASSUME IInv, NEW i \in 1..Len(chain), chain[i].tx # NoTx
    PROVE  /\ chain[i].tx \in Txs /\ txs[chain[i].tx].state = "mined"
           /\ chain[i].kind \in {"root", "reverted"} /\ chain[i].value = txs[chain[i].tx].root
           /\ \A j \in 1..Len(chain) : chain[j].tx = chain[i].tx => j = i
<1>1. chain[i] \in Entry
  BY DEF IInv, NodeTyped
<1>. QED
  BY <1>1 DEF Entry, IInv, ChainOK, EntryOK

LEMMA GoneIsNotLive ==
    ASSUME IInv, NEW t \in Txs, Gone(t) PROVE ~Live(t)
<1>0. t # NoTx
  BY NoTxAssumption
<1>1. ~Sending(t) \/ txs[t].state = "signed"
  BY DEF Sending, IInv, TicksOK, SlotOK
<1>2. CASE txs[t].state = "dead"
  <2>1. ~Written(t)
    BY <1>0, <1>2, OwnEntry DEF Written, Root
  <2>. QED
    BY <1>1, <1>2, <2>1 DEF Live
<1>3. CASE Reverted(t)
  <2>1. PICK i \in 1..Len(chain) : chain[i].kind = "reverted" /\ chain[i].tx = t
    BY <1>3 DEF Reverted
  <2>2. txs[t].state = "mined" /\ \A j \in 1..Len(chain) : chain[j].tx = t => j = i
    BY <1>0, <2>1, OwnEntry
  <2>. QED
    BY <1>1, <2>1, <2>2 DEF Live, Written, Root
<1>. QED
  BY <1>2, <1>3 DEF Gone

(* A final root of ours is the root of the batch that names it.            *)
LEMMA OwnRoot ==
    ASSUME IInv, NEW i \in 1..Len(chain), chain[i].kind = "root", chain[i].tx # NoTx
    PROVE  LET b == chain[i].value
           IN  /\ b \in Batches /\ batches[b].status \in {"submitted", "confirmed"}
               /\ batches[b].tx = chain[i].tx /\ chain[i].tx \in batches[b].sent
<1>1. chain[i].tx \in Txs /\ chain[i].value = txs[chain[i].tx].root
  BY OwnEntry
<1>2. Live(chain[i].tx)
  BY DEF Live, Written, Root
<1>. QED
  BY <1>1, <1>2 DEF IInv, LiveOK, BatchesOK, BatchOK

-----------------------------------------------------------------------------
(* What no step takes back.                                                *)
Kept ==
    /\ mode' = mode /\ alerts \subseteq alerts'
    /\ final <= final' /\ \A i \in 1..final : chain'[i] = chain[i]
    /\ \A t \in Txs :
          /\ txs[t].state \notin {"free", "signed"} =>
                txs'[t].state \notin {"free", "signed"} /\ txs'[t].root = txs[t].root
          /\ Gone(t) => Gone(t)'

(* What a slot holds signed is left alone.                                 *)
HeldSame(s) ==
    /\ s.pc \in {"claim", "broadcast"} => txs'[s.tx] = txs[s.tx]
    /\ s.pc = "claim" => \A b \in Batches : batches'[b].tx # s.tx

LEMMA SlotStays ==
    ASSUME IInv, NodeTyped', Kept, NEW s, SlotOK(s), HeldSame(s) PROVE SlotOK(s)'
<1>1. s.pc = "stamp" => Final(s.tx)' /\ txs'[s.tx].root = s.batch
  <2> SUFFICES ASSUME s.pc = "stamp" PROVE Final(s.tx)' /\ txs'[s.tx].root = s.batch
    OBVIOUS
  <2>1. s.tx \in Txs /\ s.tx # NoTx /\ txs[s.tx].root = s.batch
    BY NoTxAssumption DEF SlotOK
  <2>2. PICK i \in 1..final : Root(i, s.tx)
    BY DEF SlotOK, Final
  <2>3. i \in 1..Len(chain) /\ i \in 1..final' /\ chain'[i] = chain[i]
    BY <2>2 DEF IInv, NodeTyped, Kept
  <2>4. txs[s.tx].state = "mined"
    BY <2>1, <2>2, <2>3, OwnEntry DEF Root
  <2>5. Final(s.tx)'
    BY <2>2, <2>3 DEF Root, Final
  <2>. QED
    BY <2>1, <2>4, <2>5 DEF Kept
<1>2. s.pc = "alert" =>
         /\ s.to \in 0..final'
         /\ \A i \in s.unmatched : i \in 1..s.to /\ chain'[i].tx = NoTx
         /\ \A i \in 1..s.to : Forged(i)' => i \in alerts' \cup s.unmatched
  <2> SUFFICES ASSUME s.pc = "alert"
               PROVE  /\ s.to \in 0..final'
                      /\ \A i \in s.unmatched : i \in 1..s.to /\ chain'[i].tx = NoTx
                      /\ \A i \in 1..s.to : Forged(i)' => i \in alerts' \cup s.unmatched
    OBVIOUS
  <2>1. s.to \in 0..final /\ final \in Nat /\ final' \in Nat
    BY DEF SlotOK, IInv, NodeTyped
  <2>2. \A i \in 1..s.to : chain'[i] = chain[i]
    BY <2>1 DEF Kept
  <2>. QED
    BY <2>1, <2>2 DEF SlotOK, Kept, Forged
<1>3. s.pc = "requeue" => Gone(s.tx)'
  BY DEF SlotOK, Kept
<1>. QED
  BY <1>1, <1>2, <1>3 DEF SlotOK, HeldSame, Kept

LEMMA SameTicks ==
    ASSUME IInv, NodeTyped', Kept, UNCHANGED ticks, \A l \in Ticks : HeldSame(ticks[l])
    PROVE  TicksOK'
<1>1. ASSUME NEW l \in Ticks, NEW s, s = ticks[l] PROVE SlotOK(s)'
  BY <1>1, SlotStays DEF IInv, TicksOK
<1>2. \A l \in Ticks : SlotOK(ticks[l])'
  BY <1>1 DEF SlotOK
<1>. QED
  BY <1>2 DEF IInv, TicksOK, Holds

(* One slot changes; if it holds a signed transaction, no other does.      *)
LEMMA TicksStep ==
    ASSUME IInv, NodeTyped', Kept, NEW k \in Ticks, NEW slot \in TickSlot,
           ticks' = [ticks EXCEPT ![k] = slot], SlotOK(slot)',
           \A l \in Ticks \ {k} : HeldSame(ticks[l]),
           slot.pc \in {"claim", "broadcast"} =>
              \A l \in Ticks \ {k} : Holds(l) => ticks[l].tx # slot.tx
    PROVE  TicksOK'
<1>1. /\ ticks' \in [Ticks -> TickSlot] /\ ticks'[k] = slot
      /\ \A l \in Ticks \ {k} : ticks'[l] = ticks[l]
  BY DEF IInv, TicksOK
<1>2. ASSUME NEW l \in Ticks \ {k}, NEW s, s = ticks[l] PROVE SlotOK(s)'
  BY <1>2, SlotStays DEF IInv, TicksOK
<1>3. \A l \in Ticks : SlotOK(ticks[l])'
  BY <1>1, <1>2 DEF SlotOK
<1>4. \A l, m \in Ticks : Holds(l)' /\ Holds(m)' /\ ticks'[l].tx = ticks'[m].tx => l = m
  BY <1>1 DEF IInv, TicksOK, Holds
<1>. QED
  BY <1>1, <1>3, <1>4 DEF TicksOK

LEMMA SameScan ==
    ASSUME IInv, NodeTyped', Kept, UNCHANGED <<cursor, alerts>>
    PROVE  ScanTyped' /\ AlertsAreRight'
<1>1. final \in Nat /\ final' \in Nat /\ final <= final' /\ cursor \in 0..final /\ alerts \subseteq 1..final
  BY DEF IInv, NodeTyped, ScanTyped, Kept
<1>2. \A i \in 1..final : chain'[i] = chain[i]
  BY DEF Kept
<1>3. OwnWritesAreRecognised'
  BY <1>1, <1>2 DEF IInv, AlertsAreRight, OwnWritesAreRecognised
<1>4. ForgedWritesAreAlerted'
  BY <1>1, <1>2 DEF IInv, AlertsAreRight, ForgedWritesAreAlerted
<1>. QED
  BY <1>1, <1>3, <1>4 DEF ScanTyped, AlertsAreRight

LEMMA SameProofs ==
    ASSUME IInv, NodeTyped', Kept, UNCHANGED proofs,
           \A b \in Batches :
              /\ batches'[b].leaves = batches[b].leaves
              /\ batches[b].status # "none" => batches'[b].status # "none"
    PROVE  ProofsOK'
<1>1. final \in Nat /\ final' \in Nat /\ final <= final'
  BY DEF IInv, NodeTyped, Kept
<1>2. LeavesAgree'
  BY DEF IInv, ProofsOK, LeavesAgree
<1>3. ASSUME NEW p \in Proofs PROVE ProofOK(p)'
  <2>1. proofs[p].batch \in {0} \cup Batches
    BY DEF IInv, RowsTyped, Proof
  <2>2. proofs[p].batch # 0 => batches'[proofs[p].batch].status # "none"
    BY <2>1 DEF IInv, ProofsOK, ProofOK
  <2>3. ASSUME proofs[p].stamp # NoTx
        PROVE  \E i \in 1..final' : Root(i, proofs[p].stamp)' /\ chain'[i].value = proofs[p].batch
    <3>1. PICK i \in 1..final : Root(i, proofs[p].stamp) /\ chain[i].value = proofs[p].batch
      BY <2>3 DEF IInv, ProofsOK, ProofOK
    <3>2. i \in 1..final' /\ chain'[i] = chain[i]
      BY <1>1, <3>1 DEF Kept
    <3>. QED
      BY <3>1, <3>2 DEF Root
  <2>. QED
    BY <2>2, <2>3 DEF ProofOK, Root
<1>. QED
  BY <1>2, <1>3 DEF ProofsOK

(* The batches stay as they are, and so does what they say of the chain.   *)
LEMMA SameBatches ==
    ASSUME IInv, Kept, UNCHANGED batches,
           \A b \in Batches : batches[b].tx # NoTx =>
              /\ txs'[batches[b].tx].root = txs[batches[b].tx].root
              /\ txs'[batches[b].tx].state # "free"
    PROVE  BatchesOK'
<1>1. \A b \in Batches : BatchOK(b)'
  BY DEF IInv, BatchesOK, BatchOK
<1>2. Recorded' = Recorded
  BY DEF Recorded
<1>. QED
  BY <1>1, <1>2 DEF IInv, BatchesOK, Kept

LEMMA SameLive ==
    ASSUME IInv, UNCHANGED batches,
           \A t \in Txs : Live(t)' => Live(t) /\ txs'[t].root = txs[t].root
    PROVE  LiveOK'
BY DEF IInv, LiveOK

-----------------------------------------------------------------------------
(* Time, the application and the chain: no slot moves.                     *)

LEMMA WorldKeeps ==
    ASSUME IInv, NodeTyped', Kept, ChainOK',
           UNCHANGED <<mode, proofs, batches, cursor, alerts, ticks>>,
           today' \in Days, faults' \in 0..MaxFaults,
           \A t \in Txs :
              /\ txs'[t].root = txs[t].root
              /\ txs[t].state # "free" => txs'[t].state # "free"
              /\ txs[t].state = "signed" => txs'[t] = txs[t]
              /\ Live(t)' => Live(t)
    PROVE  IInv'
<1>1. \A b \in Batches : batches[b].tx \in Txs \cup {NoTx}
  BY DEF IInv, RowsTyped, Batch
<1>2. BatchesOK'
  BY <1>1, SameBatches DEF IInv, BatchesOK, BatchOK
<1>3. LiveOK'
  BY SameLive
<1>4. ASSUME NEW l \in Ticks PROVE HeldSame(ticks[l])
  <2>1. SlotOK(ticks[l])
    BY DEF IInv, TicksOK
  <2>. QED
    BY <2>1 DEF SlotOK, HeldSame
<1>5. TicksOK'
  BY <1>4, SameTicks
<1>6. RowsTyped'
  BY DEF IInv, RowsTyped
<1>. QED
  BY <1>2, <1>3, <1>5, <1>6, SameScan, SameProofs DEF IInv

(* Transactions that are not mined move; the chain may get deeper.         *)
LEMMA SameChain ==
    ASSUME IInv, UNCHANGED chain,
           \A t \in Txs : txs[t].state = "mined" => txs'[t] = txs[t]
    PROVE  ChainOK' /\ \A t : Written(t)' = Written(t) /\ Reverted(t)' = Reverted(t)
<1>1. \A i \in 1..Len(chain) : EntryOK(i)'
  BY OwnEntry DEF EntryOK
<1>. QED
  BY <1>1 DEF ChainOK, Written, Reverted, Root

LEMMA SameWorld ==
    ASSUME IInv, UNCHANGED <<mode, node, alerts>>
    PROVE  NodeTyped' /\ Kept /\ ChainOK' /\ \A t : Gone(t)' = Gone(t)
<1>1. ChainOK' /\ \A t : Reverted(t)' = Reverted(t)
  BY SameChain DEF node
<1>2. \A t : Gone(t)' = Gone(t)
  BY <1>1 DEF Gone, node
<1>3. NodeTyped' /\ final \in Nat
  BY DEF IInv, NodeTyped, node
<1>. QED
  BY <1>1, <1>2, <1>3 DEF Kept, node

LEMMA NextDayKeeps == ASSUME IInv, NextDay PROVE IInv'
<1>1. /\ today' \in Days
      /\ UNCHANGED <<mode, proofs, batches, node, cursor, alerts, ticks, faults>>
  BY BoundsAssumption DEF NextDay, IInv, RowsTyped, Days
<1>2. \A t \in Txs : Live(t)' => Live(t)
  BY <1>1, SameChain DEF Live, Sending, node
<1>. QED
  BY <1>1, <1>2, SameWorld, WorldKeeps DEF IInv, RowsTyped, node

LEMMA MintProofKeeps == ASSUME IInv, NEW p \in Proofs, MintProof(p) PROVE IInv'
<1>1. /\ proofs' = [proofs EXCEPT ![p].day = today]
      /\ UNCHANGED <<mode, today, batches, node, cursor, alerts, ticks, faults>>
  BY DEF MintProof
<1>2. NodeTyped' /\ Kept /\ ChainOK' /\ \A t : Gone(t)' = Gone(t)
  BY <1>1, SameWorld
<1>3. /\ proofs' \in [Proofs -> Proof]
      /\ \A o \in Proofs : proofs'[o].batch = proofs[o].batch /\ proofs'[o].stamp = proofs[o].stamp
  BY <1>1 DEF IInv, RowsTyped, Proof, Days
<1>4. ProofsOK'
  BY <1>1, <1>3 DEF IInv, ProofsOK, ProofOK, LeavesAgree, Root, node
<1>5. BatchesOK' /\ LiveOK'
  <2>1. \A t \in Txs : Live(t)' => Live(t)
    BY <1>1, SameChain DEF Live, Sending, node
  <2>. QED
    BY <1>1, <1>2, <2>1, SameBatches, SameLive DEF IInv, BatchesOK, BatchOK, node
<1>6. TicksOK'
  <2>1. ASSUME NEW l \in Ticks PROVE HeldSame(ticks[l])
    BY <1>1 DEF IInv, TicksOK, SlotOK, HeldSame, node
  <2>. QED
    BY <1>1, <1>2, <2>1, SameTicks
<1>. QED
  BY <1>1, <1>2, <1>3, <1>4, <1>5, <1>6, SameScan DEF IInv, RowsTyped

LEMMA InFlightKeeps ==
    ASSUME IInv, NEW t \in Txs, txs[t].state \in {"flying", "known"},
           NEW state \in {"known", "dead"}, txs' = [txs EXCEPT ![t].state = state],
           faults' \in 0..MaxFaults,
           UNCHANGED <<mode, today, proofs, batches, chain, final, cursor, alerts, ticks>>
    PROVE  IInv'
<1>1. /\ txs' \in [Txs -> Tx] /\ txs'[t].state = state /\ txs'[t].root = txs[t].root
      /\ \A u \in Txs \ {t} : txs'[u] = txs[u]
  BY DEF IInv, NodeTyped, Tx
<1>2. ChainOK' /\ \A u : Written(u)' = Written(u) /\ Reverted(u)' = Reverted(u)
  BY <1>1, SameChain
<1>3. NodeTyped' /\ final \in Nat
  BY <1>1 DEF IInv, NodeTyped
<1>4. Kept
  BY <1>1, <1>2, <1>3 DEF Kept, Gone
<1>5. \A u \in Txs : Live(u)' => Live(u)
  BY <1>1, <1>2 DEF Live, Sending
<1>. QED
  BY <1>1, <1>2, <1>3, <1>4, <1>5, WorldKeeps DEF IInv, RowsTyped

LEMMA ArriveKeeps == ASSUME IInv, NEW t \in Txs, Arrive(t) PROVE IInv'
<1>1. PICK state \in {"known", "dead"} : txs' = [txs EXCEPT ![t].state = state]
  BY DEF Arrive
<1>. QED
  BY <1>1, InFlightKeeps DEF Arrive, IInv, RowsTyped

LEMMA DropKeeps == ASSUME IInv, NEW t \in Txs, Drop(t) PROVE IInv'
<1>1. faults' \in 0..MaxFaults
  BY BoundsAssumption DEF Drop, IInv, RowsTyped
<1>. QED
  BY <1>1, InFlightKeeps DEF Drop

LEMMA FinaliseKeeps == ASSUME IInv, Finalise PROVE IInv'
<1>1. /\ UNCHANGED <<mode, today, proofs, batches, txs, chain, cursor, alerts, ticks, faults>>
      /\ final' \in 0..Len(chain) /\ final <= final'
  BY DEF Finalise, IInv, NodeTyped
<1>2. ChainOK' /\ \A u : Written(u)' = Written(u) /\ Reverted(u)' = Reverted(u)
  BY <1>1, SameChain
<1>3. NodeTyped'
  BY <1>1 DEF IInv, NodeTyped
<1>4. Kept /\ \A u \in Txs : Live(u)' => Live(u)
  BY <1>1, <1>2 DEF Kept, Gone, Live, Sending
<1>. QED
  BY <1>1, <1>2, <1>3, <1>4, WorldKeeps DEF IInv, RowsTyped

(* The registry sees one more thing.                                       *)
LEMMA ChainGrows ==
    ASSUME IInv, NEW e \in Entry, chain' = Append(chain, e), UNCHANGED final
    PROVE  /\ chain' \in Seq(Entry) /\ final' \in 0..Len(chain')
           /\ Len(chain') = Len(chain) + 1 /\ chain'[Len(chain) + 1] = e
           /\ \A i \in 1..Len(chain) : chain'[i] = chain[i]
           /\ \A i \in 1..final : chain'[i] = chain[i]
           /\ \A t : Reverted(t) => Reverted(t)'
           /\ \A t : Written(t)' => Written(t) \/ (e.kind = "root" /\ e.tx = t)
<1>1. /\ chain' \in Seq(Entry) /\ final' \in 0..Len(chain')
      /\ Len(chain') = Len(chain) + 1 /\ chain'[Len(chain) + 1] = e
      /\ \A i \in 1..Len(chain) : chain'[i] = chain[i]
      /\ \A i \in 1..final : chain'[i] = chain[i]
      /\ Len(chain) \in Nat
  BY DEF IInv, NodeTyped
<1>2. ASSUME NEW t, Reverted(t) PROVE Reverted(t)'
  BY <1>1, <1>2 DEF Reverted
<1>3. ASSUME NEW t, Written(t)' PROVE Written(t) \/ (e.kind = "root" /\ e.tx = t)
  <2>1. PICK i \in 1..Len(chain') : chain'[i].kind = "root" /\ chain'[i].tx = t
    BY <1>3 DEF Written, Root
  <2>2. i \in 1..Len(chain) \/ i = Len(chain) + 1
    BY <1>1
  <2>. QED
    BY <1>1, <2>1, <2>2 DEF Written, Root
<1>. QED
  BY <1>1, <1>2, <1>3

(* Somebody else's transaction.                                            *)
LEMMA ForeignKeeps ==
    ASSUME IInv, NEW e \in Entry, e.tx = NoTx, chain' = Append(chain, e),
           faults' \in 0..MaxFaults,
           UNCHANGED <<mode, today, proofs, batches, txs, final, cursor, alerts, ticks>>
    PROVE  IInv'
<1>1. /\ chain' \in Seq(Entry) /\ final' \in 0..Len(chain')
      /\ Len(chain') = Len(chain) + 1 /\ chain'[Len(chain) + 1] = e
      /\ \A i \in 1..Len(chain) : chain'[i] = chain[i]
      /\ \A i \in 1..final : chain'[i] = chain[i]
      /\ \A t : Reverted(t) => Reverted(t)'
      /\ \A t : Written(t)' => Written(t) \/ (e.kind = "root" /\ e.tx = t)
  BY ChainGrows
<1>2. Len(chain) \in Nat /\ final \in Nat
  BY DEF IInv, NodeTyped
<1>3. ChainOK'
  <2>1. ASSUME NEW i \in 1..Len(chain'), chain'[i].tx # NoTx PROVE EntryOK(i)'
    <3>1. i \in 1..Len(chain) /\ chain'[i] = chain[i]
      BY <1>1, <1>2, <2>1
    <3>2. ASSUME NEW j \in 1..Len(chain'), chain'[j].tx = chain'[i].tx PROVE j = i
      <4>1. j \in 1..Len(chain) /\ chain'[j] = chain[j]
        BY <1>1, <1>2, <2>1, <3>2
      <4>. QED
        BY <2>1, <3>1, <3>2, <4>1, OwnEntry
    <3>. QED
      BY <2>1, <3>1, <3>2, OwnEntry DEF EntryOK
  <2>. QED
    BY <2>1 DEF ChainOK, EntryOK
<1>4. NodeTyped' /\ Kept
  BY <1>1, <1>2 DEF IInv, NodeTyped, Kept, Gone
<1>5. \A t \in Txs : Live(t)' => Live(t)
  BY <1>1, NoTxAssumption DEF Live, Sending
<1>. QED
  BY <1>3, <1>4, <1>5, WorldKeeps DEF IInv, RowsTyped

LEMMA ForeignWriteKeeps ==
    ASSUME IInv, NEW value \in {0} \cup Recorded, ForeignWrite(value) PROVE IInv'
<1>1. [kind |-> "root", tx |-> NoTx, value |-> value] \in Entry
  BY DEF Entry, Recorded
<1>2. faults' \in 0..MaxFaults
  BY BoundsAssumption DEF ForeignWrite, IInv, RowsTyped
<1>. QED
  BY <1>1, <1>2, ForeignKeeps DEF ForeignWrite

LEMMA SetWriterKeeps == ASSUME IInv, SetWriter PROVE IInv'
<1>1. PICK kind \in {"writer_other", "writer_ours"} :
         chain' = Append(chain, [kind |-> kind, tx |-> NoTx, value |-> 0])
  BY DEF SetWriter
<1>2. [kind |-> kind, tx |-> NoTx, value |-> 0] \in Entry
  BY DEF Entry
<1>3. faults' \in 0..MaxFaults
  BY BoundsAssumption DEF SetWriter, IInv, RowsTyped
<1>. QED
  BY <1>1, <1>2, <1>3, ForeignKeeps DEF SetWriter

(* A transaction that was known is mined: it writes its root or reverts.   *)
LEMMA MineKeeps == ASSUME IInv, NEW t \in Txs, Mine(t) PROVE IInv'
<1>0. PICK e \in Entry :
         /\ e.kind \in {"root", "reverted"} /\ e.tx = t /\ e.value = txs[t].root
         /\ chain' = Append(chain, e)
  <2> DEFINE entry == [kind |-> IF WriterIsOurs(chain) THEN "root" ELSE "reverted",
                       tx |-> t, value |-> txs[t].root]
  <2>1. entry \in Entry /\ entry.kind \in {"root", "reverted"}
    BY DEF IInv, NodeTyped, Tx, Entry
  <2>. QED
    BY <2>1 DEF Mine
<1>1. /\ txs[t].state = "known" /\ t # NoTx
      /\ UNCHANGED <<mode, today, proofs, batches, final, cursor, alerts, ticks, faults>>
  BY NoTxAssumption DEF Mine
<1>2. /\ txs' \in [Txs -> Tx] /\ txs'[t].state = "mined"
      /\ \A u \in Txs : txs'[u].root = txs[u].root
      /\ \A u \in Txs \ {t} : txs'[u] = txs[u] \/ (txs[u].state = "known" /\ txs'[u].state = "dead")
  BY DEF Mine, IInv, NodeTyped, Tx
<1>3. /\ chain' \in Seq(Entry) /\ final' \in 0..Len(chain')
      /\ Len(chain') = Len(chain) + 1 /\ chain'[Len(chain) + 1] = e
      /\ \A i \in 1..Len(chain) : chain'[i] = chain[i]
      /\ \A i \in 1..final : chain'[i] = chain[i]
      /\ \A u : Reverted(u) => Reverted(u)'
      /\ \A u : Written(u)' => Written(u) \/ (e.kind = "root" /\ e.tx = u)
  BY <1>0, <1>1, ChainGrows
<1>4. Len(chain) \in Nat /\ final \in Nat
  BY DEF IInv, NodeTyped
<1>5. \A i \in 1..Len(chain) : chain[i].tx # t
  BY <1>1, OwnEntry
<1>6. ChainOK'
  <2>1. ASSUME NEW i \in 1..Len(chain'), chain'[i].tx # NoTx PROVE EntryOK(i)'
    <3>1. CASE i = Len(chain) + 1
      <4>1. \A j \in 1..Len(chain') : chain'[j].tx = t => j = i
        BY <1>3, <1>4, <1>5, <3>1
      <4>. QED
        BY <1>0, <1>2, <1>3, <3>1, <4>1 DEF EntryOK
    <3>2. CASE i \in 1..Len(chain)
      <4>1. /\ chain'[i] = chain[i] /\ chain[i].tx # t
            /\ chain[i].tx \in Txs /\ txs[chain[i].tx].state = "mined"
        BY <1>3, <1>5, <2>1, <3>2, OwnEntry
      <4>2. txs'[chain[i].tx] = txs[chain[i].tx]
        BY <1>2, <4>1
      <4>3. ASSUME NEW j \in 1..Len(chain'), chain'[j].tx = chain'[i].tx PROVE j = i
        <5>1. j \in 1..Len(chain) /\ chain'[j] = chain[j]
          BY <1>0, <1>3, <1>4, <4>1, <4>3
        <5>. QED
          BY <2>1, <3>2, <4>1, <4>3, <5>1, OwnEntry
      <4>. QED
        BY <2>1, <3>2, <4>1, <4>2, <4>3, OwnEntry DEF EntryOK
    <3>. QED
      BY <1>3, <1>4, <3>1, <3>2
  <2>. QED
    BY <2>1 DEF ChainOK, EntryOK
<1>7. NodeTyped'
  BY <1>2, <1>3 DEF NodeTyped
<1>8. Kept
  <2>1. \A u \in Txs : Gone(u) => Gone(u)'
    BY <1>1, <1>2, <1>3 DEF Gone
  <2>. QED
    BY <1>1, <1>2, <1>3, <1>4, <2>1 DEF Kept
<1>9. \A u \in Txs : Live(u)' => Live(u)
  BY <1>0, <1>1, <1>2, <1>3 DEF Live, Sending
<1>10. \A u \in Txs : txs[u].state = "signed" => txs'[u] = txs[u]
  BY <1>1, <1>2
<1>. QED
  BY <1>1, <1>2, <1>6, <1>7, <1>8, <1>9, <1>10, WorldKeeps DEF IInv, RowsTyped

(* What is undone was not final; its transactions can be mined again.      *)
LEMMA ReorganiseKeeps == ASSUME IInv, Reorganise PROVE IInv'
<1>1. /\ faults' \in 0..MaxFaults
      /\ UNCHANGED <<mode, today, proofs, batches, final, cursor, alerts, ticks>>
      /\ chain' = SubSeq(chain, 1, final)
      /\ \A i \in (final + 1)..Len(chain) : chain[i].kind # "reverted"
  BY BoundsAssumption DEF Reorganise, IInv, RowsTyped
<1>2. /\ Len(chain) \in Nat /\ final \in Nat /\ final <= Len(chain)
      /\ chain' \in Seq(Entry) /\ Len(chain') = final
      /\ \A i \in 1..final : chain'[i] = chain[i]
  BY <1>1 DEF IInv, NodeTyped
<1>3. \A u \in Txs : u \in Mined(chain) => txs[u].state = "mined"
  BY OwnEntry, NoTxAssumption DEF Mined
<1>4. /\ txs' \in [Txs -> Tx]
      /\ \A u \in Txs : txs'[u].root = txs[u].root
      /\ \A u \in Txs :
            \/ txs'[u] = txs[u]
            \/ txs'[u].state = "known" /\ u \in Mined(chain) /\ u \notin Mined(chain')
  BY <1>1 DEF Reorganise, IInv, NodeTyped, Tx
<1>5. \A i \in 1..final : chain[i].tx \in Txs => txs'[chain[i].tx] = txs[chain[i].tx]
  BY <1>2, <1>4 DEF Mined
<1>6. ChainOK'
  <2>1. ASSUME NEW i \in 1..Len(chain'), chain'[i].tx # NoTx PROVE EntryOK(i)'
    <3>1. i \in 1..Len(chain) /\ i \in 1..final /\ chain'[i] = chain[i]
      BY <1>2
    <3>2. \A j \in 1..Len(chain') : chain'[j].tx = chain'[i].tx => j = i
      BY <1>2, <2>1, <3>1, OwnEntry
    <3>. QED
      BY <1>5, <2>1, <3>1, <3>2, OwnEntry DEF EntryOK
  <2>. QED
    BY <2>1 DEF ChainOK, EntryOK
<1>7. NodeTyped'
  BY <1>1, <1>2, <1>4 DEF NodeTyped
<1>8. \A u \in Txs : Reverted(u) => Reverted(u)'
  BY <1>1, <1>2 DEF Reverted
<1>9. Kept
  <2>1. \A u \in Txs : Gone(u) => Gone(u)'
    BY <1>3, <1>4, <1>8 DEF Gone
  <2>2. \A u \in Txs : txs[u].state \notin {"free", "signed"} => txs'[u].state \notin {"free", "signed"}
    BY <1>4
  <2>. QED
    BY <1>1, <1>2, <1>4, <2>1, <2>2 DEF Kept
<1>10. ASSUME NEW u \in Txs, Live(u)' PROVE Live(u)
  <2>1. Written(u)' => Written(u)
    BY <1>2 DEF Written, Root
  <2>2. Sending(u)' => Sending(u)
    BY <1>1 DEF Sending
  <2>3. ASSUME u \in Mined(chain), u \notin Mined(chain') PROVE Written(u)
    <3>1. PICK i \in 1..Len(chain) : chain[i].tx = u
      BY <2>3 DEF Mined
    <3>2. i \in (final + 1)..Len(chain)
      BY <1>2, <2>3, <3>1 DEF Mined
    <3>. QED
      BY <1>1, <3>1, <3>2, OwnEntry, NoTxAssumption DEF Written, Root
  <2>. QED
    BY <1>4, <1>10, <2>1, <2>2, <2>3 DEF Live
<1>11. \A u \in Txs : /\ txs[u].state # "free" => txs'[u].state # "free"
                      /\ txs[u].state = "signed" => txs'[u] = txs[u]
  BY <1>3, <1>4
<1>. QED
  BY <1>1, <1>4, <1>6, <1>7, <1>9, <1>10, <1>11, WorldKeeps DEF IInv, RowsTyped

-----------------------------------------------------------------------------
(* Steps of a tick that change what it holds and at most the scan.         *)

LEMMA QuietKeeps ==
    ASSUME IInv, NEW k \in Ticks, NEW slot \in TickSlot,
           ticks' = [ticks EXCEPT ![k] = slot], SlotOK(slot)',
           slot.pc \notin {"claim", "broadcast"},
           UNCHANGED <<mode, today, proofs, batches, node, faults>>,
           ScanTyped', AlertsAreRight', alerts \subseteq alerts'
    PROVE  IInv'
<1>1. ChainOK' /\ \A t : Written(t)' = Written(t) /\ Reverted(t)' = Reverted(t)
  BY SameChain DEF node
<1>2. NodeTyped'
  BY DEF IInv, NodeTyped, node
<1>3. Kept
  <2>1. \A t \in Txs : Gone(t) => Gone(t)'
    BY <1>1 DEF Gone, node
  <2>. QED
    BY <2>1 DEF Kept, node, IInv, NodeTyped
<1>4. BatchesOK'
  BY <1>3, SameBatches DEF IInv, BatchesOK, BatchOK, node
<1>5. LiveOK'
  <2>1. \A t : Sending(t)' => Sending(t)
    BY DEF Sending, IInv, TicksOK
  <2>. QED
    BY <1>1, <2>1, SameLive DEF Live, node
<1>6. TicksOK'
  <2>1. ASSUME NEW l \in Ticks PROVE HeldSame(ticks[l])
    BY DEF IInv, TicksOK, SlotOK, HeldSame, node
  <2>. QED
    BY <1>2, <1>3, <2>1, TicksStep
<1>7. ProofsOK' /\ RowsTyped'
  BY <1>2, <1>3, SameProofs DEF IInv, RowsTyped
<1>. QED
  BY <1>1, <1>2, <1>4, <1>5, <1>6, <1>7 DEF IInv

(* The slot alone.                                                         *)
LEMMA SlotOnlyKeeps ==
    ASSUME IInv, NEW k \in Ticks, NEW slot \in TickSlot,
           ticks' = [ticks EXCEPT ![k] = slot], SlotOK(slot)',
           slot.pc \notin {"claim", "broadcast"},
           UNCHANGED <<mode, today, proofs, batches, node, cursor, alerts, faults>>
    PROVE  IInv'
<1>1. NodeTyped' /\ Kept
  BY SameWorld
<1>2. ScanTyped' /\ AlertsAreRight'
  BY <1>1, SameScan
<1>. QED
  BY <1>2, QuietKeeps

LEMMA IdleSlot ==
    /\ IdleTick \in TickSlot /\ IdleTick.pc = "idle"
    /\ SlotOK(IdleTick) /\ SlotOK(IdleTick)'
<1>1. IdleTick \in TickSlot /\ IdleTick.pc = "idle"
  BY DEF IdleTick, TickSlot
<1>. QED
  BY <1>1 DEF SlotOK

LEMMA FinishKeeps ==
    ASSUME IInv, NEW k \in Ticks, Finish(k),
           UNCHANGED <<mode, today, proofs, batches, node, cursor, alerts, faults>>
    PROVE  IInv'
BY IdleSlot, SlotOnlyKeeps DEF Finish, Slot

(* A slot starts on a row, with what the chain says of it now.             *)
LEMMA ConfirmOneKeeps ==
    ASSUME IInv, NEW k \in Ticks, NEW b \in Batches, ConfirmOne(k, b) PROVE IInv'
<1>1. PICK t, pc : t = batches[b].tx /\ pc = ReceiptSays(t)
  OBVIOUS
<1>2. /\ batches[b].status = "submitted" /\ pc # "wait"
      /\ ticks' = [ticks EXCEPT ![k] = [IdleTick EXCEPT !.pc = pc, !.batch = b, !.tx = t]]
      /\ UNCHANGED <<mode, today, proofs, batches, node, cursor, alerts, faults>>
  BY <1>1 DEF ConfirmOne, Slot
<1>3. t \in Txs /\ t # NoTx /\ txs[t].root = b
  BY <1>1, <1>2 DEF IInv, RowsTyped, Batch, BatchesOK, BatchOK
<1>4. \/ pc = "stamp" /\ Final(t)
      \/ pc = "requeue" /\ Gone(t)
  BY <1>1, <1>2 DEF ReceiptSays, Final, Root, Gone, Reverted
<1>5. PICK slot : slot = [IdleTick EXCEPT !.pc = pc, !.batch = b, !.tx = t]
  OBVIOUS
<1>6. slot \in TickSlot /\ slot.pc = pc /\ slot.batch = b /\ slot.tx = t
  BY <1>3, <1>4, <1>5 DEF IdleTick, TickSlot
<1>7. SlotOK(slot)
  BY <1>3, <1>4, <1>6 DEF SlotOK
<1>8. NodeTyped' /\ Kept
  BY <1>2, SameWorld
<1>9. SlotOK(slot)'
  <2>1. HeldSame(slot)
    BY <1>4, <1>6 DEF HeldSame
  <2>. QED
    BY <1>7, <1>8, <2>1, SlotStays
<1>. QED
  BY <1>2, <1>4, <1>5, <1>6, <1>9, SlotOnlyKeeps

LEMMA DaysToCloseKeeps == ASSUME IInv, NEW k \in Ticks, DaysToClose(k) PROVE IInv'
<1>1. PICK from \in 1..(today - 1) :
         ticks' = [ticks EXCEPT ![k] = [IdleTick EXCEPT !.pc = "days", !.from = from, !.to = today - 1]]
  BY DEF DaysToClose, Slot
<1>2. PICK slot : slot = [IdleTick EXCEPT !.pc = "days", !.from = from, !.to = today - 1]
  OBVIOUS
<1>3. today \in 1..(MaxBatch + 1) /\ MaxBatch \in Nat
  BY BoundsAssumption DEF IInv, RowsTyped, Days
<1>4. slot \in TickSlot /\ slot.pc = "days" /\ slot.from = from /\ slot.to = today - 1
  <2>1. from \in Nat /\ today - 1 \in Nat
    BY <1>3
  <2>. QED
    BY <1>2, <2>1 DEF IdleTick, TickSlot
<1>5. SlotOK(slot)'
  BY <1>3, <1>4 DEF SlotOK
<1>. QED
  BY <1>1, <1>2, <1>4, <1>5, SlotOnlyKeeps DEF DaysToClose

LEMMA ReadProofsKeeps == ASSUME IInv, NEW k \in Ticks, ReadProofs(k) PROVE IInv'
<1>1. \A d : Unbatched(d) \in SUBSET Proofs
  BY DEF Unbatched
<1>2. ticks[k] \in TickSlot /\ SlotOK(ticks[k])
  BY DEF IInv, TicksOK
<1>3. CASE /\ ticks[k].pc = "days"
           /\ Slot(k, [ticks[k] EXCEPT !.pc = "record", !.rows = Unbatched(ticks[k].from)])
  <2>1. PICK slot : slot = [ticks[k] EXCEPT !.pc = "record", !.rows = Unbatched(ticks[k].from)]
    OBVIOUS
  <2>2. /\ slot \in TickSlot /\ slot.pc = "record"
        /\ slot.from = ticks[k].from /\ slot.to = ticks[k].to
    BY <1>1, <1>2, <2>1 DEF TickSlot
  <2>3. mode' = mode
    BY DEF ReadProofs
  <2>4. SlotOK(slot)'
    BY <1>2, <1>3, <2>2, <2>3 DEF SlotOK
  <2>. QED
    BY <1>3, <2>1, <2>2, <2>4, SlotOnlyKeeps DEF ReadProofs, Slot
<1>4. CASE /\ mode = "per_event"
           /\ Slot(k, [IdleTick EXCEPT !.pc = "record", !.rows = Unbatched(today)])
  <2>1. PICK slot : slot = [IdleTick EXCEPT !.pc = "record", !.rows = Unbatched(today)]
    OBVIOUS
  <2>2. slot \in TickSlot /\ slot.pc = "record"
    BY <1>1, <2>1 DEF IdleTick, TickSlot
  <2>3. SlotOK(slot)'
    BY <1>4, <2>2 DEF SlotOK, ReadProofs
  <2>. QED
    BY <1>4, <2>1, <2>2, <2>3, SlotOnlyKeeps DEF ReadProofs, Slot
<1>. QED
  BY <1>3, <1>4 DEF ReadProofs

LEMMA SendReadsKeeps ==
    ASSUME IInv, NEW k \in Ticks, NEW b \in Batches, SendReads(k, b) PROVE IInv'
<1>1. PICK slot : slot = [IdleTick EXCEPT !.pc = "sign", !.batch = b, !.sent = batches[b].sent]
  OBVIOUS
<1>2. batches[b].sent \subseteq Txs
  BY DEF IInv, RowsTyped, Batch
<1>3. slot \in TickSlot /\ slot.pc = "sign" /\ slot.batch = b
  BY <1>1, <1>2 DEF IdleTick, TickSlot
<1>4. SlotOK(slot)'
  BY <1>3 DEF SlotOK
<1>. QED
  BY <1>1, <1>3, <1>4, SlotOnlyKeeps DEF SendReads, Slot

-----------------------------------------------------------------------------
(* The scan.                                                               *)

(* What is not ours needs an alert, and nothing of ours does.              *)
LEMMA NeedsAlertIsRight ==
    ASSUME IInv, NEW i \in 1..Len(chain)
    PROVE  /\ NeedsAlert(chain[i]) => chain[i].tx = NoTx
           /\ Forged(i) => NeedsAlert(chain[i])
<1>1. chain[i] \in Entry
  BY DEF IInv, NodeTyped
<1>2. ASSUME NeedsAlert(chain[i]), chain[i].tx # NoTx PROVE FALSE
  <2>1. chain[i].kind = "root"
    BY <1>2, OwnEntry DEF NeedsAlert
  <2>. QED
    BY <1>2, <2>1, OwnRoot DEF NeedsAlert, Recorded
<1>3. Forged(i) => NeedsAlert(chain[i])
  <2>1. ASSUME chain[i].value \in Recorded PROVE NoTx \notin batches[chain[i].value].sent
    BY <2>1, NoTxAssumption DEF Recorded, IInv, RowsTyped, Batch
  <2>. QED
    BY <2>1 DEF Forged, NeedsAlert
<1>. QED
  BY <1>2, <1>3

(* A slot that scans from where everything before has its alert.           *)
ScanSlot(from, to) ==
    [IdleTick EXCEPT !.pc = "alert", !.to = to,
       !.unmatched = {i \in from..to : NeedsAlert(chain[i])}]

LEMMA ScanSlotOK ==
    ASSUME IInv, NEW from \in Nat \ {0}, NEW to \in from..final,
           \A i \in 1..(from - 1) : Forged(i) => i \in alerts
    PROVE  ScanSlot(from, to) \in TickSlot /\ SlotOK(ScanSlot(from, to))
<1>1. PICK slot : slot = ScanSlot(from, to)
  OBVIOUS
<1>2. to \in 1..final /\ final \in Nat /\ final <= Len(chain) /\ Len(chain) \in Nat
  BY DEF IInv, NodeTyped
<1>3. /\ slot \in TickSlot /\ slot.pc = "alert" /\ slot.to = to
      /\ slot.unmatched = {i \in from..to : NeedsAlert(chain[i])}
  <2>1. PICK found \in SUBSET (Nat \ {0}) : found = {i \in from..to : NeedsAlert(chain[i])}
    <3>1. {i \in from..to : NeedsAlert(chain[i])} \subseteq Nat \ {0}
      BY <1>2
    <3>. QED
      BY <3>1
  <2>2. slot = [IdleTick EXCEPT !.pc = "alert", !.to = to, !.unmatched = found]
    BY <1>1, <2>1 DEF ScanSlot
  <2>3. to \in Nat
    BY <1>2
  <2>4. /\ slot \in TickSlot /\ slot.pc = "alert" /\ slot.to = to
        /\ slot.unmatched = found
    BY <2>2, <2>3 DEF IdleTick, TickSlot
  <2>. QED
    BY <2>1, <2>4
<1>4. \A i \in slot.unmatched : i \in 1..to /\ chain[i].tx = NoTx
  BY <1>2, <1>3, NeedsAlertIsRight
<1>5. ASSUME NEW i \in 1..to, Forged(i) PROVE i \in alerts \cup slot.unmatched
  <2>1. i \in 1..(from - 1) \/ i \in from..to
    BY <1>2
  <2>2. i \in 1..Len(chain)
    BY <1>2
  <2>. QED
    BY <1>3, <1>5, <2>1, <2>2, NeedsAlertIsRight
<1>6. SlotOK(slot)
  BY <1>2, <1>3, <1>4, <1>5 DEF SlotOK
<1>. QED
  BY <1>1, <1>3, <1>6

LEMMA CheckEventsKeeps ==
    ASSUME IInv, NEW k \in Ticks, NEW to, CheckEvents(k, to) PROVE IInv'
<1>1. PICK slot : slot = ScanSlot(cursor + 1, to)
  OBVIOUS
<1>2. /\ to \in (cursor + 1)..final
      /\ ticks' = [ticks EXCEPT ![k] = slot]
      /\ UNCHANGED <<mode, today, proofs, batches, node, cursor, alerts, faults>>
  BY <1>1 DEF CheckEvents, Scan, Slot, ScanSlot
<1>3. cursor \in Nat /\ cursor + 1 \in Nat \ {0} /\ (cursor + 1) - 1 = cursor
  BY DEF IInv, ScanTyped
<1>4. \A i \in 1..cursor : Forged(i) => i \in alerts
  BY DEF IInv, AlertsAreRight, ForgedWritesAreAlerted, Forged
<1>5. slot \in TickSlot /\ SlotOK(slot)
  BY <1>1, <1>2, <1>3, <1>4, ScanSlotOK
<1>6. slot.pc = "alert"
  BY <1>1 DEF ScanSlot, IdleTick
<1>7. SlotOK(slot)'
  <2>1. NodeTyped' /\ Kept /\ HeldSame(slot)
    BY <1>2, <1>6, SameWorld DEF HeldSame
  <2>. QED
    BY <1>5, <2>1, SlotStays
<1>. QED
  BY <1>2, <1>5, <1>6, <1>7, SlotOnlyKeeps

LEMMA RecordAlertKeeps ==
    ASSUME IInv, NEW k \in Ticks, NEW i, record_anchor_alert(k, i) PROVE IInv'
<1>1. PICK slot : slot = [ticks[k] EXCEPT !.unmatched = @ \ {i}]
  OBVIOUS
<1>2. /\ ticks[k].pc = "alert" /\ i \in ticks[k].unmatched /\ alerts' = alerts \cup {i}
      /\ ticks' = [ticks EXCEPT ![k] = slot]
      /\ UNCHANGED <<mode, today, proofs, batches, node, cursor, faults>>
  BY <1>1 DEF record_anchor_alert, Slot
<1>3. ticks[k] \in TickSlot /\ SlotOK(ticks[k])
  BY DEF IInv, TicksOK
<1>4. /\ slot \in TickSlot /\ slot.pc = "alert" /\ slot.to = ticks[k].to
      /\ slot.unmatched = ticks[k].unmatched \ {i}
  BY <1>1, <1>2, <1>3 DEF TickSlot
<1>5. i \in 1..final /\ chain[i].tx = NoTx /\ final \in Nat
  BY <1>2, <1>3 DEF SlotOK, IInv, NodeTyped
<1>6. SlotOK(slot)'
  BY <1>2, <1>3, <1>4 DEF SlotOK, Forged, node
<1>7. ScanTyped' /\ AlertsAreRight'
  BY <1>2, <1>5 DEF IInv, ScanTyped, AlertsAreRight, OwnWritesAreRecognised, ForgedWritesAreAlerted,
     node
<1>. QED
  BY <1>2, <1>4, <1>6, <1>7, QuietKeeps

(* The cursor passes what has its alerts, wherever it stood.               *)
LEMMA SaveCursorKeeps == ASSUME IInv, NEW k \in Ticks, SaveCursor(k) PROVE IInv'
<1>1. /\ ticks[k].pc = "alert" /\ ticks[k].unmatched = {} /\ cursor' = ticks[k].to
      /\ UNCHANGED <<mode, today, proofs, batches, node, alerts, faults>>
  BY DEF SaveCursor
<1>2. PICK to : to = ticks[k].to
  OBVIOUS
<1>3. to \in 0..final /\ \A i \in 1..to : Forged(i) => i \in alerts
  BY <1>1, <1>2 DEF IInv, TicksOK, SlotOK
<1>4. ScanTyped' /\ AlertsAreRight'
  BY <1>1, <1>2, <1>3 DEF IInv, ScanTyped, AlertsAreRight, OwnWritesAreRecognised,
     ForgedWritesAreAlerted, Forged, node
<1>5. CASE Finish(k)
  BY <1>1, <1>4, <1>5, IdleSlot, QuietKeeps DEF Finish, Slot
<1>6. ASSUME NEW next \in (to + 1)..final, Scan(k, to + 1, next) PROVE IInv'
  <2>1. PICK slot : slot = ScanSlot(to + 1, next)
    OBVIOUS
  <2>2. ticks' = [ticks EXCEPT ![k] = slot]
    BY <1>6, <2>1 DEF Scan, Slot, ScanSlot
  <2>3. to + 1 \in Nat \ {0} /\ (to + 1) - 1 = to
    BY <1>3
  <2>4. slot \in TickSlot /\ SlotOK(slot)
    BY <1>3, <1>6, <2>1, <2>3, ScanSlotOK
  <2>5. slot.pc = "alert"
    BY <2>1 DEF ScanSlot, IdleTick
  <2>6. SlotOK(slot)'
    <3>1. NodeTyped' /\ Kept /\ HeldSame(slot)
      BY <1>1, <2>5, SameWorld DEF HeldSame
    <3>. QED
      BY <2>4, <3>1, SlotStays
  <2>. QED
    BY <1>1, <1>4, <2>2, <2>4, <2>5, <2>6, QuietKeeps
<1>. QED
  BY <1>2, <1>5, <1>6 DEF SaveCursor

-----------------------------------------------------------------------------
(* A batch that was sent is confirmed, or due again.                       *)

(* It may be due again only when none of its transactions is alive.        *)
LEMMA TurnKeeps ==
    ASSUME IInv, NEW k \in Ticks, Finish(k), NEW b \in Batches, NEW status \in {"pending", "confirmed"},
           batches[b].status = "submitted", batches' = [batches EXCEPT ![b].status = status],
           status = "pending" => \A t \in Txs : Live(t) => txs[t].root # b,
           proofs' \in [Proofs -> Proof], ProofsOK',
           UNCHANGED <<mode, today, node, cursor, alerts, faults>>
    PROVE  IInv'
<1>1. NodeTyped' /\ Kept /\ ChainOK' /\ \A t : Gone(t)' = Gone(t)
  BY SameWorld
<1>2. /\ batches' \in [Batches -> Batch] /\ batches'[b].status = status
      /\ \A c \in Batches :
            /\ batches'[c].tx = batches[c].tx /\ batches'[c].sent = batches[c].sent
            /\ c # b => batches'[c] = batches[c]
            /\ batches'[c].status # "none" <=> batches[c].status # "none"
  BY DEF IInv, RowsTyped, Batch
<1>3. BatchesOK'
  <2>1. \A c \in Batches : BatchOK(c)'
    BY <1>2 DEF IInv, BatchesOK, BatchOK, node
  <2>2. Recorded' = Recorded
    BY <1>2 DEF Recorded
  <2>. QED
    BY <2>1, <2>2 DEF IInv, BatchesOK
<1>4. LiveOK'
  <2>1. \A t : Live(t)' => Live(t)
    <3>1. \A t : Sending(t)' => Sending(t)
      BY IdleSlot DEF Finish, Slot, Sending, IInv, TicksOK
    <3>. QED
      BY <3>1, SameChain DEF Live, node
  <2>. QED
    BY <1>2, <2>1 DEF IInv, LiveOK, node
<1>5. TicksOK'
  <2>1. ASSUME NEW l \in Ticks PROVE HeldSame(ticks[l])
    BY <1>2 DEF IInv, TicksOK, SlotOK, HeldSame, node
  <2>. QED
    BY <1>1, <2>1, IdleSlot, TicksStep DEF Finish, Slot
<1>. QED
  BY <1>1, <1>2, <1>3, <1>4, <1>5, SameScan DEF IInv, RowsTyped

LEMMA ConfirmBatchKeeps ==
    ASSUME IInv, NEW k \in Ticks, confirm_anchor_batch(k) PROVE IInv'
<1>0. PICK b, t : b = ticks[k].batch /\ t = ticks[k].tx
  OBVIOUS
<1>1. /\ ticks[k].pc = "stamp" /\ Finish(k)
      /\ b \in Batches /\ t \in Txs /\ Final(t) /\ txs[t].root = b
      /\ UNCHANGED <<mode, today, node, cursor, alerts, faults>>
  BY <1>0 DEF confirm_anchor_batch, IInv, TicksOK, SlotOK
<1>2. CASE UNCHANGED <<batches, proofs>>
  BY <1>1, <1>2, FinishKeeps
<1>3. CASE /\ batches[b].status = "submitted"
           /\ batches' = [batches EXCEPT ![b].status = "confirmed"]
           /\ proofs' = [p \in Proofs |->
                 IF proofs[p].batch = b THEN [proofs[p] EXCEPT !.stamp = t] ELSE proofs[p]]
  <2>1. /\ proofs' \in [Proofs -> Proof]
        /\ \A p \in Proofs :
              /\ proofs'[p].batch = proofs[p].batch
              /\ proofs'[p].stamp = IF proofs[p].batch = b THEN t ELSE proofs[p].stamp
    BY <1>1, <1>3 DEF IInv, RowsTyped, Proof
  <2>2. PICK i \in 1..final : chain[i].kind = "root" /\ chain[i].tx = t /\ chain[i].value = b
    <3>1. PICK i \in 1..final : chain[i].kind = "root" /\ chain[i].tx = t
      BY <1>1 DEF Final, Root
    <3>2. i \in 1..Len(chain) /\ t # NoTx
      BY <1>1, NoTxAssumption DEF IInv, NodeTyped
    <3>. QED
      BY <1>1, <3>1, <3>2, OwnEntry
  <2>3. \A c \in Batches :
           /\ batches'[c].leaves = batches[c].leaves
           /\ batches[c].status # "none" => batches'[c].status # "none"
    BY <1>3 DEF IInv, RowsTyped, Batch
  <2>4. ASSUME NEW p \in Proofs PROVE ProofOK(p)'
    <3>1. proofs[p].batch \in {0} \cup Batches /\ ProofOK(p)
      BY DEF IInv, RowsTyped, Proof, ProofsOK
    <3>. QED
      BY <1>1, <2>1, <2>2, <2>3, <3>1 DEF ProofOK, Root, node
  <2>5. ProofsOK'
    BY <2>1, <2>3, <2>4 DEF IInv, ProofsOK, LeavesAgree
  <2>. QED
    BY <1>1, <1>3, <2>1, <2>5, TurnKeeps
<1>. QED
  BY <1>0, <1>2, <1>3 DEF confirm_anchor_batch

LEMMA BackToPendingKeeps ==
    ASSUME IInv, NEW k \in Ticks, BackToPending(k) PROVE IInv'
<1>0. PICK b, t : b = ticks[k].batch /\ t = ticks[k].tx
  OBVIOUS
<1>1. /\ ticks[k].pc = "requeue" /\ Finish(k) /\ b \in Batches /\ t \in Txs /\ Gone(t)
      /\ UNCHANGED <<mode, today, proofs, node, cursor, alerts, faults>>
  BY <1>0 DEF BackToPending, IInv, TicksOK, SlotOK
<1>2. CASE UNCHANGED batches
  BY <1>1, <1>2, FinishKeeps
<1>3. CASE /\ batches[b].status = "submitted" /\ batches[b].tx = t
           /\ batches' = [batches EXCEPT ![b].status = "pending"]
  <2>1. \A u \in Txs : Live(u) => txs[u].root # b
    BY <1>1, <1>3, GoneIsNotLive DEF IInv, LiveOK
  <2>2. \A c \in Batches :
           /\ batches'[c].leaves = batches[c].leaves
           /\ batches[c].status # "none" => batches'[c].status # "none"
    BY <1>3 DEF IInv, RowsTyped, Batch
  <2>3. ProofsOK' /\ proofs' \in [Proofs -> Proof]
    BY <1>1, <2>2, SameProofs, SameWorld DEF IInv, RowsTyped
  <2>. QED
    BY <1>1, <1>3, <2>1, <2>3, TurnKeeps
<1>. QED
  BY <1>0, <1>2, <1>3 DEF BackToPending

-----------------------------------------------------------------------------
(* A new batch takes proofs that are under none.                           *)

LEMMA InsertBatch ==
    ASSUME IInv, NEW b \in Batches \ Recorded, NEW P \in SUBSET Proofs, TakesAll(P), Insert(b, P)
    PROVE  /\ batches' \in [Batches -> Batch] /\ proofs' \in [Proofs -> Proof]
           /\ batches'[b].status = "pending" /\ batches'[b].tx = NoTx /\ batches'[b].leaves = P
           /\ \A c \in Batches \ {b} : batches'[c] = batches[c]
           /\ \A p \in P : proofs[p].batch = 0 /\ proofs'[p] = [proofs[p] EXCEPT !.batch = b]
           /\ \A p \in Proofs \ P : proofs'[p] = proofs[p]
           /\ Recorded' = Recorded \cup {b}
<1>1. PICK new : new = [NewBatch EXCEPT !.status = "pending", !.leaves = P]
  OBVIOUS
<1>2. new \in Batch /\ new.status = "pending" /\ new.tx = NoTx /\ new.leaves = P
  BY <1>1 DEF NewBatch, Batch
<1>3. batches' = [batches EXCEPT ![b] = new]
  BY <1>1 DEF Insert
<1>4. /\ batches' \in [Batches -> Batch] /\ batches'[b] = new
      /\ \A c \in Batches \ {b} : batches'[c] = batches[c]
  BY <1>2, <1>3 DEF IInv, RowsTyped
<1>5. /\ \A p \in P : proofs[p].batch = 0 /\ proofs'[p] = [proofs[p] EXCEPT !.batch = b]
      /\ \A p \in Proofs \ P : proofs'[p] = proofs[p]
  BY DEF Insert, TakesAll
<1>6. proofs' \in [Proofs -> Proof]
  BY DEF Insert, IInv, RowsTyped, Proof
<1>7. Recorded' = Recorded \cup {b}
  BY <1>2, <1>4 DEF Recorded
<1>. QED
  BY <1>2, <1>4, <1>5, <1>6, <1>7

LEMMA InsertKeeps ==
    ASSUME IInv, NEW k \in Ticks, NEW slot \in TickSlot,
           ticks' = [ticks EXCEPT ![k] = slot], SlotOK(slot)',
           slot.pc \notin {"claim", "broadcast"},
           NEW b \in Batches \ Recorded, NEW P \in SUBSET Proofs, TakesAll(P), Insert(b, P),
           mode = "per_event" => Recorded = 1..(b - 1),
           UNCHANGED <<mode, today, node, cursor, alerts, faults>>
    PROVE  IInv'
<1>1. NodeTyped' /\ Kept /\ ChainOK' /\ \A t : Gone(t)' = Gone(t)
  BY SameWorld
<1>2. /\ batches' \in [Batches -> Batch] /\ proofs' \in [Proofs -> Proof]
      /\ batches'[b].status = "pending" /\ batches'[b].tx = NoTx /\ batches'[b].leaves = P
      /\ \A c \in Batches \ {b} : batches'[c] = batches[c]
      /\ \A p \in P : proofs[p].batch = 0 /\ proofs'[p] = [proofs[p] EXCEPT !.batch = b]
      /\ \A p \in Proofs \ P : proofs'[p] = proofs[p]
      /\ Recorded' = Recorded \cup {b}
  BY InsertBatch
<1>3. batches[b].status = "none" /\ b # 0 /\ b \in 1..MaxBatch
  BY DEF Recorded, Batches
<1>4. BatchesOK'
  <2>1. \A c \in Batches : BatchOK(c)'
    BY <1>2 DEF IInv, BatchesOK, BatchOK, node
  <2>2. mode = "per_event" => Recorded' = 1..b
    BY <1>2, <1>3, BoundsAssumption
  <2>. QED
    BY <1>3, <2>1, <2>2, BoundsAssumption DEF BatchesOK
<1>5. LiveOK'
  <2>1. \A t : Live(t)' => Live(t)
    <3>1. \A t : Sending(t)' => Sending(t)
      BY DEF Sending, IInv, TicksOK
    <3>. QED
      BY <3>1, SameChain DEF Live, node
  <2>. QED
    BY <1>2, <1>3, <2>1 DEF IInv, LiveOK, node
<1>6. TicksOK'
  <2>1. ASSUME NEW l \in Ticks PROVE HeldSame(ticks[l])
    BY <1>2, NoTxAssumption DEF IInv, TicksOK, SlotOK, HeldSame, node
  <2>. QED
    BY <1>1, <2>1, TicksStep
<1>7. LeavesAgree'
  <2>1. \A p \in Proofs : proofs[p].batch \in {0} \cup Batches /\ ProofOK(p)
    BY DEF IInv, RowsTyped, Proof, ProofsOK
  <2>2. ASSUME NEW p \in P PROVE proofs'[p].batch = b
    <3>1. proofs[p] \in Proof /\ proofs'[p] = [proofs[p] EXCEPT !.batch = b]
      BY <1>2 DEF IInv, RowsTyped
    <3>. QED
      BY <3>1 DEF Proof
  <2>3. \A p \in Proofs \ P : proofs'[p].batch # b
    BY <1>2, <1>3, <2>1 DEF ProofOK
  <2>4. ASSUME NEW c \in Batches \ {b}
        PROVE  {p \in Proofs : proofs'[p].batch = c} = {p \in Proofs : proofs[p].batch = c}
    <3>1. c # 0
      BY DEF Batches
    <3>. QED
      BY <1>2, <2>2, <3>1
  <2>. QED
    BY <1>2, <2>2, <2>3, <2>4 DEF IInv, ProofsOK, LeavesAgree
<1>8. ASSUME NEW p \in Proofs PROVE ProofOK(p)'
  <2>1. proofs[p] \in Proof /\ proofs[p].batch \in {0} \cup Batches /\ ProofOK(p)
    BY DEF IInv, RowsTyped, Proof, ProofsOK
  <2>2. CASE p \in P
    <3>1. proofs'[p].batch = b /\ proofs'[p].stamp = proofs[p].stamp /\ proofs[p].batch = 0
      BY <1>2, <2>1, <2>2 DEF Proof
    <3>2. ASSUME proofs[p].stamp # NoTx PROVE FALSE
      <4>1. PICK i \in 1..final : chain[i].kind = "root" /\ chain[i].tx # NoTx /\ chain[i].value = 0
        BY <2>1, <3>1, <3>2 DEF ProofOK, Root
      <4>2. i \in 1..Len(chain)
        BY DEF IInv, NodeTyped
      <4>. QED
        BY <4>1, <4>2, OwnRoot DEF Batches
    <3>. QED
      BY <1>2, <3>1, <3>2 DEF ProofOK
  <2>3. CASE p \notin P
    BY <1>2, <2>1, <2>3 DEF ProofOK, Root, node
  <2>. QED
    BY <2>2, <2>3
<1>. QED
  BY <1>1, <1>2, <1>4, <1>5, <1>6, <1>7, <1>8, SameScan DEF IInv, RowsTyped, ProofsOK

LEMMA RecordDayKeeps == ASSUME IInv, NEW k \in Ticks, RecordDay(k) PROVE IInv'
<1>0. PICK d, P, onward :
         /\ d = ticks[k].from /\ P = ticks[k].rows
         /\ onward = IF d = ticks[k].to THEN IdleTick
                     ELSE [IdleTick EXCEPT !.pc = "days", !.from = d + 1, !.to = ticks[k].to]
  OBVIOUS
<1>1. /\ ticks[k].pc = "record" /\ mode = "daily_batch"
      /\ UNCHANGED <<mode, today, node, cursor, alerts, faults>>
      /\ ticks[k] \in TickSlot /\ SlotOK(ticks[k])
  BY DEF RecordDay, IInv, TicksOK
<1>2. /\ P \in SUBSET Proofs /\ d \in Nat /\ ticks[k].to \in Nat /\ MaxBatch \in Nat
      /\ 1 <= d /\ d <= ticks[k].to /\ ticks[k].to <= MaxBatch
  BY <1>0, <1>1, BoundsAssumption DEF TickSlot, SlotOK
<1>3. onward \in TickSlot /\ onward.pc \notin {"claim", "broadcast"} /\ SlotOK(onward)'
  <2>1. CASE d = ticks[k].to
    BY <1>0, <2>1, IdleSlot
  <2>2. CASE d # ticks[k].to
    <3>1. /\ onward \in TickSlot /\ onward.pc = "days"
          /\ onward.from = d + 1 /\ onward.to = ticks[k].to
      <4>1. d + 1 \in Nat
        BY <1>2
      <4>2. onward = [IdleTick EXCEPT !.pc = "days", !.from = d + 1, !.to = ticks[k].to]
        BY <1>0, <2>2
      <4>. QED
        BY <1>2, <4>1, <4>2 DEF IdleTick, TickSlot
    <3>. QED
      BY <1>2, <2>2, <3>1 DEF SlotOK
  <2>. QED
    BY <2>1, <2>2
<1>4. CASE UNCHANGED <<batches, proofs>> /\ Slot(k, onward)
  BY <1>1, <1>3, <1>4, SlotOnlyKeeps DEF Slot
<1>5. CASE d \notin Recorded /\ TakesAll(P) /\ Insert(d, P) /\ Slot(k, onward)
  <2>1. d \in Batches \ Recorded
    BY <1>2, <1>5 DEF Batches
  <2>. QED
    BY <1>1, <1>2, <1>3, <1>5, <2>1, InsertKeeps DEF Slot
<1>6. CASE UNCHANGED <<batches, proofs>> /\ Finish(k)
  BY <1>1, <1>6, FinishKeeps
<1>. QED
  BY <1>0, <1>4, <1>5, <1>6 DEF RecordDay

LEMMA RecordEventKeeps ==
    ASSUME IInv, NEW k \in Ticks, NEW p \in Proofs, RecordEvent(k, p) PROVE IInv'
<1>0. PICK rest, b : rest = ticks[k].rows \ {p} /\ b = Cardinality(Recorded) + 1
  OBVIOUS
<1>1. PICK slot : slot = IF rest = {} THEN IdleTick ELSE [ticks[k] EXCEPT !.rows = rest]
  OBVIOUS
<1>2. /\ ticks[k].pc = "record" /\ mode = "per_event" /\ b \in Batches
      /\ UNCHANGED <<mode, today, node, cursor, alerts, faults>>
      /\ ticks[k] \in TickSlot /\ SlotOK(ticks[k])
  BY <1>0 DEF RecordEvent, IInv, TicksOK
<1>3. slot \in TickSlot /\ slot.pc \notin {"claim", "broadcast"} /\ SlotOK(slot)'
  <2>1. CASE slot = IdleTick
    BY <2>1, IdleSlot
  <2>2. CASE slot = [ticks[k] EXCEPT !.rows = rest]
    <3>1. slot \in TickSlot /\ slot.pc = "record"
      BY <1>0, <1>2, <2>2 DEF TickSlot
    <3>. QED
      BY <1>2, <3>1 DEF SlotOK
  <2>. QED
    BY <1>1, <2>1, <2>2
<1>4. b \notin Recorded /\ Recorded = 1..(b - 1)
  <2>1. PICK n \in 0..MaxBatch : Recorded = 1..n
    BY <1>2 DEF IInv, BatchesOK
  <2>2. n \in Int /\ Cardinality(1..n) = n
    BY FS_Interval, BoundsAssumption
  <2>. QED
    BY <1>0, <2>1, <2>2, BoundsAssumption
<1>5. CASE TakesAll({p}) /\ Insert(b, {p}) /\ Slot(k, slot)
  BY <1>2, <1>3, <1>4, <1>5, InsertKeeps DEF Slot
<1>6. CASE UNCHANGED <<batches, proofs>> /\ Finish(k)
  BY <1>2, <1>6, FinishKeeps
<1>. QED
  BY <1>0, <1>1, <1>5, <1>6 DEF RecordEvent

-----------------------------------------------------------------------------
(* Signing and sending.                                                    *)

(* A transaction that was never broadcast changes.                         *)
LEMMA UnsentMoves ==
    ASSUME IInv, NEW t \in Txs, txs[t].state \in {"free", "signed"}, NEW new \in Tx,
           txs' = [txs EXCEPT ![t] = new],
           UNCHANGED <<mode, chain, final, cursor, alerts>>
    PROVE  /\ NodeTyped' /\ Kept /\ ChainOK' /\ ScanTyped' /\ AlertsAreRight'
           /\ txs'[t] = new /\ \A u \in Txs \ {t} : txs'[u] = txs[u]
           /\ \A u : Written(u)' = Written(u)
           /\ ~Written(t)
<1>1. /\ txs' \in [Txs -> Tx] /\ txs'[t] = new /\ \A u \in Txs \ {t} : txs'[u] = txs[u]
      /\ NodeTyped'
  BY DEF IInv, NodeTyped
<1>2. ChainOK' /\ \A u : Written(u)' = Written(u) /\ Reverted(u)' = Reverted(u)
  BY <1>1, SameChain
<1>3. ~Written(t) /\ ~Reverted(t)
  BY OwnEntry, NoTxAssumption DEF Written, Reverted, Root
<1>4. Kept
  <2>1. \A u \in Txs : Gone(u) => Gone(u)'
    BY <1>1, <1>2, <1>3 DEF Gone
  <2>. QED
    BY <1>1, <2>1 DEF Kept, IInv, NodeTyped
<1>5. ScanTyped' /\ AlertsAreRight'
  BY <1>1, <1>4, SameScan
<1>. QED
  BY <1>1, <1>2, <1>3, <1>4, <1>5

(* A slot that holds a transaction holds it alone.                         *)
LEMMA HolderOf ==
    ASSUME IInv, NEW k \in Ticks, Holds(k)
    PROVE  LET t == ticks[k].tx
           IN  /\ t \in Txs /\ txs[t].state = "signed" /\ txs[t].root = ticks[k].batch
               /\ ticks[k].batch \in Batches
               /\ \A l \in Ticks \ {k} : Holds(l) => ticks[l].tx # t
BY DEF IInv, TicksOK, SlotOK, Holds

LEMMA SignAnchorKeeps ==
    ASSUME IInv, NEW k \in Ticks, NEW t \in Txs, SignAnchor(k, t) PROVE IInv'
<1>1. PICK n \in 0..Cardinality(Txs) :
         txs' = [txs EXCEPT ![t] = [state |-> "signed", root |-> ticks[k].batch, nonce |-> n]]
  BY DEF SignAnchor
<1>2. PICK new : new = [state |-> "signed", root |-> ticks[k].batch, nonce |-> n]
  OBVIOUS
<1>3. PICK slot : slot = [ticks[k] EXCEPT !.pc = "claim", !.tx = t]
  OBVIOUS
<1>4. /\ ticks[k].pc = "sign" /\ txs[t].state = "free" /\ ticks[k].batch \in Batches
      /\ ticks' = [ticks EXCEPT ![k] = slot] /\ ticks[k] \in TickSlot
      /\ UNCHANGED <<mode, today, proofs, batches, chain, final, cursor, alerts, faults>>
  BY <1>3 DEF SignAnchor, Slot, IInv, TicksOK, SlotOK
<1>5. n \in Nat
  BY FS_CardinalityType, FiniteTxsAssumption
<1>6. new \in Tx /\ new.state = "signed" /\ new.root = ticks[k].batch
  BY <1>2, <1>4, <1>5 DEF Tx
<1>7. slot \in TickSlot /\ slot.pc = "claim" /\ slot.tx = t /\ slot.batch = ticks[k].batch
  BY <1>3, <1>4 DEF TickSlot
<1>8. /\ NodeTyped' /\ Kept /\ ChainOK' /\ ScanTyped' /\ AlertsAreRight'
      /\ txs'[t] = new /\ \A u \in Txs \ {t} : txs'[u] = txs[u]
      /\ \A u : Written(u)' = Written(u)
      /\ ~Written(t)
  BY <1>1, <1>2, <1>4, <1>6, UnsentMoves
<1>9. \A b \in Batches : batches[b].tx # t /\ batches[b].tx \in Txs \cup {NoTx}
  BY <1>4, NoTxAssumption DEF IInv, BatchesOK, BatchOK, RowsTyped, Batch
<1>10. BatchesOK'
  BY <1>4, <1>8, <1>9, SameBatches DEF IInv, BatchesOK, BatchOK
<1>11. \A l \in Ticks : Holds(l) => ticks[l].tx # t /\ ticks[l].tx \in Txs
  BY <1>4, HolderOf
<1>12. LiveOK'
  <2>1. \A u : Sending(u)' => Sending(u) /\ u # t
    BY <1>4, <1>7, <1>11 DEF Sending, Holds, IInv, TicksOK
  <2>2. \A u \in Txs : Live(u)' => Live(u) /\ u # t
    BY <1>6, <1>8, <2>1 DEF Live
  <2>. QED
    BY <1>4, <1>8, <2>2, SameLive
<1>13. TicksOK'
  <2>1. SlotOK(slot)'
    BY <1>4, <1>6, <1>7, <1>8, <1>9 DEF SlotOK
  <2>2. ASSUME NEW l \in Ticks PROVE HeldSame(ticks[l])
    BY <1>4, <1>8, <1>11 DEF IInv, TicksOK, SlotOK, HeldSame, Holds
  <2>. QED
    BY <1>4, <1>7, <1>8, <1>11, <2>1, <2>2, TicksStep
<1>14. ProofsOK' /\ RowsTyped'
  BY <1>4, <1>8, SameProofs DEF IInv, RowsTyped
<1>. QED
  BY <1>8, <1>10, <1>12, <1>13, <1>14 DEF IInv

(* Record before broadcast: a batch that is due takes the transaction.     *)
LEMMA ClaimTakesKeeps ==
    ASSUME IInv, NEW k \in Ticks, ticks[k].pc = "claim",
           NEW b, b = ticks[k].batch, NEW t, t = ticks[k].tx,
           batches[b].status = "pending",
           NEW new,
           new = [batches[b] EXCEPT !.status = "submitted", !.tx = t, !.sent = ticks[k].sent \cup {t}],
           batches' = [batches EXCEPT ![b] = new],
           Slot(k, [ticks[k] EXCEPT !.pc = "broadcast"]),
           UNCHANGED <<mode, today, proofs, node, cursor, alerts, faults>>
    PROVE  IInv'
<1>1. PICK slot : slot = [ticks[k] EXCEPT !.pc = "broadcast"]
  OBVIOUS
<1>2. /\ ticks[k] \in TickSlot /\ SlotOK(ticks[k]) /\ Holds(k)
      /\ ticks' = [ticks EXCEPT ![k] = slot]
  BY <1>1 DEF Slot, IInv, TicksOK, Holds
<1>3. /\ t \in Txs /\ b \in Batches /\ txs[t].state = "signed" /\ txs[t].root = b
      /\ \A l \in Ticks \ {k} : Holds(l) => ticks[l].tx # t
  BY <1>2, HolderOf
<1>4. slot \in TickSlot /\ slot.pc = "broadcast" /\ slot.tx = t /\ slot.batch = b
  BY <1>1, <1>2 DEF TickSlot
<1>5. ticks[k].sent \cup {t} \in SUBSET Txs
  BY <1>2, <1>3 DEF TickSlot
<1>6. /\ new \in Batch /\ new.status = "submitted" /\ new.tx = t /\ t \in new.sent
      /\ new.leaves = batches[b].leaves
  BY <1>3, <1>5 DEF IInv, RowsTyped, Batch
<1>7. /\ batches' \in [Batches -> Batch] /\ batches'[b] = new
      /\ \A c \in Batches \ {b} : batches'[c] = batches[c]
  BY <1>3, <1>6 DEF IInv, RowsTyped
<1>8. NodeTyped' /\ Kept /\ ChainOK' /\ ScanTyped' /\ AlertsAreRight'
  BY SameWorld, SameScan
<1>9. t # NoTx /\ Recorded' = Recorded
  BY <1>3, <1>6, <1>7, NoTxAssumption DEF Recorded
<1>10. BatchesOK'
  <2>1. \A c \in Batches : BatchOK(c)'
    BY <1>3, <1>6, <1>7, <1>9 DEF IInv, BatchesOK, BatchOK, node
  <2>. QED
    BY <1>9, <2>1 DEF IInv, BatchesOK
<1>11. LiveOK'
  <2>1. \A u : Sending(u)' => Sending(u) \/ u = t
    BY <1>2, <1>4 DEF Sending, IInv, TicksOK
  <2>2. \A u \in Txs : Live(u)' => Live(u) \/ u = t
    BY <2>1, SameChain DEF Live, node
  <2>3. \A u \in Txs : Live(u) => txs[u].root # b
    BY DEF IInv, LiveOK
  <2>4. UNCHANGED txs
    BY DEF node
  <2>5. ASSUME NEW u \in Txs \ {t}, Live(u)'
        PROVE  /\ txs[u].root \in Batches
               /\ batches'[txs[u].root].status \in {"submitted", "confirmed"}
               /\ batches'[txs[u].root].tx = u
    <3>1. Live(u)
      BY <2>2, <2>5
    <3>2. /\ txs[u].root \in Batches \ {b}
          /\ batches[txs[u].root].status \in {"submitted", "confirmed"} /\ batches[txs[u].root].tx = u
      BY <2>3, <3>1 DEF IInv, LiveOK
    <3>. QED
      BY <1>7, <3>2
  <2>6. batches'[b].status = "submitted" /\ batches'[b].tx = t
    BY <1>6, <1>7
  <2>. QED
    BY <1>3, <2>4, <2>5, <2>6 DEF LiveOK
<1>12. TicksOK'
  <2>1. SlotOK(slot)'
    BY <1>3, <1>4 DEF SlotOK, node
  <2>2. ASSUME NEW l \in Ticks \ {k} PROVE HeldSame(ticks[l])
    BY <1>3, <1>6, <1>7 DEF IInv, TicksOK, SlotOK, HeldSame, Holds, node
  <2>. QED
    BY <1>2, <1>3, <1>4, <1>8, <2>1, <2>2, TicksStep
<1>13. ProofsOK' /\ RowsTyped'
  <2>1. \A c \in Batches :
           /\ batches'[c].leaves = batches[c].leaves
           /\ batches[c].status # "none" => batches'[c].status # "none"
    BY <1>6, <1>7
  <2>. QED
    BY <1>7, <1>8, <2>1, SameProofs DEF IInv, RowsTyped
<1>. QED
  BY <1>8, <1>10, <1>11, <1>12, <1>13 DEF IInv

(* A slot that holds a transaction lets go of it, without sending it or    *)
(* after sending it for its batch.                                         *)
LEMMA LetGoKeeps ==
    ASSUME IInv, NEW k \in Ticks, Holds(k), NEW t, t = ticks[k].tx, NEW new \in Tx,
           txs' = [txs EXCEPT ![t] = new], Finish(k), faults' \in 0..MaxFaults,
           ticks[k].pc = "claim" => new.state = "free",
           ticks[k].pc = "broadcast" => new.state # "free" /\ new.root = txs[t].root,
           UNCHANGED <<mode, today, proofs, batches, chain, final, cursor, alerts>>
    PROVE  IInv'
<1>1. /\ t \in Txs /\ txs[t].state = "signed" /\ txs[t].root = ticks[k].batch
      /\ ticks[k].batch \in Batches
      /\ \A l \in Ticks \ {k} : Holds(l) => ticks[l].tx # t
      /\ SlotOK(ticks[k])
  BY HolderOf DEF IInv, TicksOK
<1>2. /\ NodeTyped' /\ Kept /\ ChainOK' /\ ScanTyped' /\ AlertsAreRight'
      /\ txs'[t] = new /\ \A u \in Txs \ {t} : txs'[u] = txs[u]
      /\ \A u : Written(u)' = Written(u)
      /\ ~Written(t)
  BY <1>1, UnsentMoves
<1>3. BatchesOK'
  <2>1. \A b \in Batches : batches[b].tx = t => ticks[k].pc = "broadcast"
    BY <1>1 DEF SlotOK, Holds
  <2>. QED
    BY <1>2, <2>1, SameBatches DEF IInv, BatchesOK, BatchOK, RowsTyped, Batch
<1>4. ticks' = [ticks EXCEPT ![k] = IdleTick]
  BY DEF Finish, Slot
<1>5. LiveOK'
  <2>1. \A u : Sending(u)' => Sending(u) /\ u # t
    BY <1>1, <1>4, IdleSlot DEF Sending, Holds, IInv, TicksOK
  <2>2. ticks[k].pc = "broadcast" => Live(t)
    BY DEF Live, Sending
  <2>3. \A u \in Txs : Live(u)' => Live(u) /\ txs'[u].root = txs[u].root
    BY <1>2, <2>1, <2>2 DEF Live, Holds
  <2>. QED
    BY <2>3, SameLive
<1>6. TicksOK'
  <2>1. ASSUME NEW l \in Ticks \ {k} PROVE HeldSame(ticks[l])
    BY <1>1, <1>2 DEF IInv, TicksOK, SlotOK, HeldSame, Holds
  <2>. QED
    BY <1>2, <1>4, <2>1, IdleSlot, TicksStep
<1>7. ProofsOK' /\ RowsTyped'
  BY <1>2, SameProofs DEF IInv, RowsTyped
<1>. QED
  BY <1>2, <1>3, <1>5, <1>6, <1>7 DEF IInv

LEMMA ClaimBatchKeeps == ASSUME IInv, NEW k \in Ticks, ClaimBatch(k) PROVE IInv'
<1>1. ticks[k].pc = "claim" /\ Holds(k)
  BY DEF ClaimBatch, Holds
<1>2. CASE batches[ticks[k].batch].status = "pending"
  <2>1. PICK new : new = [batches[ticks[k].batch] EXCEPT
                             !.status = "submitted", !.tx = ticks[k].tx,
                             !.sent = ticks[k].sent \cup {ticks[k].tx}]
    OBVIOUS
  <2>2. batches' = [batches EXCEPT ![ticks[k].batch] = new]
    BY <1>2, <2>1 DEF ClaimBatch
  <2>. QED
    BY <1>1, <1>2, <2>1, <2>2, ClaimTakesKeeps DEF ClaimBatch, node
<1>3. CASE batches[ticks[k].batch].status # "pending"
  <2>1. UnusedTx \in Tx /\ UnusedTx.state = "free"
    BY DEF UnusedTx, Tx
  <2>. QED
    BY <1>1, <1>3, <2>1, LetGoKeeps DEF ClaimBatch, IInv, RowsTyped
<1>. QED
  BY <1>2, <1>3

LEMMA BroadcastKeeps == ASSUME IInv, NEW k \in Ticks, Broadcast(k) PROVE IInv'
<1>1. ticks[k].pc = "broadcast" /\ Holds(k)
  BY DEF Broadcast, Holds
<1>2. PICK t : t = ticks[k].tx
  OBVIOUS
<1>3. PICK state \in {"known", "flying"} : txs' = [txs EXCEPT ![t].state = state]
  BY <1>2 DEF Broadcast
<1>4. PICK new : new = [txs[t] EXCEPT !.state = state]
  OBVIOUS
<1>5. t \in Txs /\ txs[t] \in Tx
  BY <1>1, <1>2, HolderOf DEF IInv, NodeTyped
<1>6. new \in Tx /\ new.state = state /\ new.root = txs[t].root /\ txs' = [txs EXCEPT ![t] = new]
  BY <1>3, <1>4, <1>5 DEF Tx
<1>. QED
  BY <1>1, <1>2, <1>6, LetGoKeeps DEF Broadcast, IInv, RowsTyped

LEMMA AbortKeeps == ASSUME IInv, NEW k \in Ticks, Abort(k) PROVE IInv'
<1>1. PICK t : t = ticks[k].tx
  OBVIOUS
<1>2. /\ Finish(k) /\ faults' \in 0..MaxFaults
      /\ UNCHANGED <<mode, today, proofs, batches, chain, final, cursor, alerts>>
  BY BoundsAssumption DEF Abort, IInv, RowsTyped
<1>3. CASE ticks[k].pc = "claim"
  <2>1. UnusedTx \in Tx /\ UnusedTx.state = "free"
    BY DEF UnusedTx, Tx
  <2>2. txs' = [txs EXCEPT ![t] = UnusedTx]
    BY <1>1, <1>3 DEF Abort
  <2>. QED
    BY <1>1, <1>2, <1>3, <2>1, <2>2, LetGoKeeps DEF Holds
<1>4. CASE ticks[k].pc = "broadcast"
  <2>1. PICK new : new = [txs[t] EXCEPT !.state = "dead"]
    OBVIOUS
  <2>2. t \in Txs /\ txs[t] \in Tx
    BY <1>1, <1>4, HolderOf DEF Holds, IInv, NodeTyped
  <2>3. new \in Tx /\ new.state = "dead" /\ new.root = txs[t].root
    BY <2>1, <2>2 DEF Tx
  <2>4. txs' = [txs EXCEPT ![t] = new]
    BY <1>1, <1>4, <2>1 DEF Abort
  <2>. QED
    BY <1>1, <1>2, <1>4, <2>3, <2>4, LetGoKeeps DEF Holds
<1>5. CASE ticks[k].pc \notin {"claim", "broadcast"}
  <2>1. UNCHANGED <<txs, faults>>
    BY <1>5 DEF Abort
  <2>. QED
    BY <1>2, <2>1, FinishKeeps DEF node
<1>. QED
  BY <1>3, <1>4, <1>5

-----------------------------------------------------------------------------
LEMMA NextIInv ==
    ASSUME IInv, [Next]_vars PROVE IInv'
<1>1. ASSUME NEW k \in Ticks, Confirm(k) \/ Gather(k) PROVE IInv'
  BY <1>1, ConfirmOneKeeps, ConfirmBatchKeeps, BackToPendingKeeps, DaysToCloseKeeps, ReadProofsKeeps,
     RecordDayKeeps, RecordEventKeeps DEF Confirm, Gather
<1>2. ASSUME NEW k \in Ticks, Send(k) \/ Reconcile(k) \/ Abort(k) PROVE IInv'
  BY <1>2, SendReadsKeeps, SignAnchorKeeps, ClaimBatchKeeps, BroadcastKeeps, CheckEventsKeeps,
     RecordAlertKeeps, SaveCursorKeeps, AbortKeeps DEF Send, Reconcile
<1>3. CASE Chain
  BY <1>3, MineKeeps, ArriveKeeps, DropKeeps, FinaliseKeeps, ReorganiseKeeps, ForeignWriteKeeps,
     SetWriterKeeps DEF Chain
<1>4. CASE UNCHANGED vars
  <2>1. \A t \in Txs : Live(t)' => Live(t)
    BY <1>4, SameChain DEF Live, Sending, vars, node
  <2>. QED
    BY <1>4, <2>1, SameWorld, WorldKeeps DEF IInv, RowsTyped, vars, node
<1>. QED
  BY <1>1, <1>2, <1>3, <1>4, MintProofKeeps, NextDayKeeps DEF Next

LEMMA Invariance == Spec => []IInv
<1>1. IInv /\ [Next]_vars => IInv'
  BY NextIInv
<1>. QED
  BY InitIInv, <1>1, PTL DEF Spec

(* Rows have their shape, and every root was computed from the proofs that *)
(* are marked with its batch, whatever other ticks batched meanwhile.      *)
THEOREM AnchorCorrect == Spec => []Inv
<1>1. IInv => Inv
  BY TypesFollow DEF IInv, ProofsOK, Inv
<1>. QED
  BY Invariance, <1>1, PTL

(* Whoever is told that a proof is anchored, finds the root of its batch   *)
(* in the transaction it names, for good.                                  *)
THEOREM StampsAreTrue == Spec => []StampIsTrue
<1>1. IInv => StampIsTrue
  BY DEF IInv, ProofsOK, ProofOK, StampIsTrue, Root
<1>. QED
  BY Invariance, <1>1, PTL

(* The scan accuses every write that is not ours and none that is, however *)
(* often a batch was sent.                                                 *)
THEOREM AlertsRight == Spec => []AlertsAreRight
<1>1. IInv => AlertsAreRight
  BY DEF IInv
<1>. QED
  BY Invariance, <1>1, PTL

-----------------------------------------------------------------------------
(* The ledger.                                                             *)

(* A root stands in the registry once, by the transaction its row names.   *)
LEMMA WrittenOnce ==
    ASSUME IInv, NEW b \in Batches, NEW i \in Writes(b)
    PROVE  /\ Writes(b) = {i} /\ Cardinality(Writes(b)) = 1
           /\ i \in 1..final /\ b \in Recorded
<1>1. \A j \in Writes(b) :
         /\ j \in 1..final /\ j \in 1..Len(chain)
         /\ chain[j].kind = "root" /\ chain[j].tx # NoTx /\ chain[j].value = b
  BY DEF Writes, IInv, NodeTyped
<1>2. \A j \in Writes(b) : chain[j].tx = batches[b].tx
  BY <1>1, OwnRoot
<1>3. \A j \in Writes(b) : j = i
  BY <1>1, <1>2, OwnEntry
<1>4. b \in Recorded
  BY <1>1, OwnRoot DEF Recorded
<1>. QED
  BY <1>1, <1>3, <1>4, FS_Singleton

LEMMA UnwrittenIsNone ==
    ASSUME NEW b, Writes(b) = {} PROVE Cardinality(Writes(b)) = 0
BY FS_EmptySet

LEMMA LedgerInit == Init => Ledger!Init
<1> SUFFICES ASSUME Init PROVE Ledger!Init
  OBVIOUS
<1>1. \A b \in Batches : batches[b].status = "none" /\ batches[b].leaves = {}
  BY DEF Init, NewBatch
<1>2. \A b \in Batches : Cardinality(Writes(b)) = 0
  <2>1. \A b \in Batches : Writes(b) = {}
    BY DEF Init, Writes
  <2>. QED
    BY <2>1, UnwrittenIsNone
<1>. QED
  BY <1>1, <1>2 DEF Ledger!Init, Recorded

(* What the ledger sees of a step.                                         *)
SameRoots ==
    /\ Recorded' = Recorded
    /\ \A b \in Batches : batches'[b].leaves = batches[b].leaves

SameStamps == \A b \in Batches : batches'[b].status = "confirmed" <=> batches[b].status = "confirmed"

SameWrites == \A b \in Batches : Writes(b)' = Writes(b)

LEMMA QuietLedger ==
    ASSUME SameRoots, SameStamps, SameWrites PROVE UNCHANGED Ledger!ledger
BY DEF SameRoots, SameStamps, SameWrites, Ledger!ledger

LEMMA SameBatchesQuiet == ASSUME UNCHANGED batches PROVE SameRoots /\ SameStamps
BY DEF SameRoots, SameStamps, Recorded

LEMMA FinalStays ==
    ASSUME UNCHANGED final, \A i \in 1..final : chain'[i] = chain[i] PROVE SameWrites
BY DEF SameWrites, Writes

LEMMA WorldIsQuiet ==
    ASSUME IInv,
           \/ NextDay \/ Reorganise \/ SetWriter
           \/ \E p \in Proofs : MintProof(p)
           \/ \E t \in Txs : Mine(t) \/ Arrive(t) \/ Drop(t)
           \/ \E value \in {0} \cup Recorded : ForeignWrite(value)
    PROVE  UNCHANGED Ledger!ledger
<1>1. UNCHANGED <<batches, final>>
  BY DEF NextDay, Reorganise, SetWriter, MintProof, Mine, Arrive, Drop, ForeignWrite, node
<1>2. chain \in Seq(Entry) /\ final \in 0..Len(chain)
  BY DEF IInv, NodeTyped
<1>3. ASSUME NEW e, chain' = Append(chain, e) PROVE \A i \in 1..final : chain'[i] = chain[i]
  BY <1>2, <1>3
<1>4. ASSUME chain' = SubSeq(chain, 1, final) PROVE \A i \in 1..final : chain'[i] = chain[i]
  BY <1>2, <1>4
<1>5. \/ UNCHANGED chain \/ chain' = SubSeq(chain, 1, final)
      \/ \E e : chain' = Append(chain, e)
  BY DEF NextDay, Reorganise, SetWriter, MintProof, Mine, Arrive, Drop, ForeignWrite, node
<1>6. \A i \in 1..final : chain'[i] = chain[i]
  BY <1>3, <1>4, <1>5
<1>. QED
  BY <1>1, <1>6, SameBatchesQuiet, FinalStays, QuietLedger

(* The entry that becomes final is one of ours, or the ledger stays.       *)
LEMMA FinaliseWrites ==
    ASSUME IInv, Finalise
    PROVE  UNCHANGED Ledger!ledger \/ \E b \in Batches : Ledger!Write(b)
<1>1. PICK n : n = final + 1
  OBVIOUS
<1>2. /\ n \in 1..Len(chain) /\ n \notin 1..final /\ final' = n /\ 1..n = (1..final) \cup {n}
      /\ UNCHANGED <<batches, chain>>
  BY <1>1 DEF Finalise, IInv, NodeTyped
<1>3. SameRoots /\ SameStamps
  BY <1>2, SameBatchesQuiet
<1>4. CASE chain[n].kind # "root" \/ chain[n].tx = NoTx
  <2>1. SameWrites
    BY <1>2, <1>4 DEF SameWrites, Writes
  <2>. QED
    BY <1>3, <2>1, QuietLedger
<1>5. CASE chain[n].kind = "root" /\ chain[n].tx # NoTx
  <2>1. PICK b \in Batches : b = chain[n].value /\ batches[b].tx = chain[n].tx /\ b \in Recorded
    BY <1>2, <1>5, OwnRoot DEF Recorded
  <2>2. \A c \in Batches \ {b} : Writes(c)' = Writes(c)
    BY <1>2, <2>1 DEF Writes
  <2>3. ASSUME NEW i \in Writes(b) PROVE FALSE
    <3>1. /\ i \in 1..final /\ i \in 1..Len(chain)
          /\ chain[i].kind = "root" /\ chain[i].tx # NoTx /\ chain[i].value = b
      BY DEF Writes, IInv, NodeTyped
    <3>2. chain[i].tx = chain[n].tx
      BY <2>1, <3>1, OwnRoot
    <3>. QED
      BY <1>2, <1>5, <3>1, <3>2, OwnEntry
  <2>4. Writes(b)' = Writes(b) \cup {n}
    BY <1>2, <1>5, <2>1 DEF Writes
  <2>5. Cardinality(Writes(b)') = 1
    BY <2>3, <2>4, FS_Singleton
  <2>6. Writes(b) = {}
    BY <2>3
  <2>8. [c \in Batches |-> Cardinality(Writes(c))]'
        = [[c \in Batches |-> Cardinality(Writes(c))] EXCEPT ![b] = 1]
    BY <2>2, <2>5
  <2>9. Ledger!Write(b)
    BY <1>3, <2>1, <2>6, <2>8, UnwrittenIsNone DEF Ledger!Write, SameRoots, SameStamps
  <2>. QED
    BY <2>9
<1>. QED
  BY <1>4, <1>5

(* Ticks do not write to the chain.                                        *)
LEMMA TickWritesNothing ==
    ASSUME NEW k \in Ticks, Confirm(k) \/ Gather(k) \/ Send(k) \/ Reconcile(k) \/ Abort(k)
    PROVE  SameWrites
<1>1. UNCHANGED <<chain, final>>
  BY Zenon DEF Confirm, ConfirmOne, confirm_anchor_batch, BackToPending, Gather, DaysToClose, ReadProofs,
     RecordDay, RecordEvent, Send, SendReads, SignAnchor, ClaimBatch, Broadcast, Reconcile,
     CheckEvents, record_anchor_alert, SaveCursor, Abort, node
<1>2. \A i \in 1..final : chain'[i] = chain[i]
  BY <1>1, Zenon
<1>. QED
  BY <1>1, <1>2, FinalStays, Zenon

(* A status changes without being "none" or "confirmed" before or after.   *)
LEMMA StatusIsQuiet ==
    ASSUME IInv, NEW b \in Batches, NEW row,
           batches' = [batches EXCEPT ![b] = row], row.leaves = batches[b].leaves,
           batches[b].status \in {"pending", "submitted"}, row.status \in {"pending", "submitted"}
    PROVE  SameRoots /\ SameStamps
<1>1. batches'[b] = row /\ \A c \in Batches \ {b} : batches'[c] = batches[c]
  BY DEF IInv, RowsTyped
<1>. QED
  BY <1>1 DEF SameRoots, SameStamps, Recorded

(* A batch is confirmed once its root stands in the registry.              *)
LEMMA ConfirmStamps ==
    ASSUME IInv, NEW k \in Ticks, confirm_anchor_batch(k), SameWrites
    PROVE  UNCHANGED Ledger!ledger \/ \E b \in Batches : Ledger!Stamp(b)
<1>0. PICK b, t : b = ticks[k].batch /\ t = ticks[k].tx
  OBVIOUS
<1>1. b \in Batches /\ t \in Txs /\ t # NoTx /\ Final(t) /\ txs[t].root = b
  BY <1>0, NoTxAssumption DEF confirm_anchor_batch, IInv, TicksOK, SlotOK
<1>2. CASE UNCHANGED batches
  BY <1>2, SameBatchesQuiet, QuietLedger
<1>3. CASE /\ batches[b].status = "submitted"
           /\ batches' = [batches EXCEPT ![b].status = "confirmed"]
  <2>1. PICK i \in 1..final : chain[i].kind = "root" /\ chain[i].tx = t
    BY <1>1 DEF Final, Root
  <2>2. i \in Writes(b)
    <3>1. i \in 1..Len(chain)
      BY DEF IInv, NodeTyped
    <3>. QED
      BY <1>1, <2>1, <3>1, OwnEntry DEF Writes
  <2>3. Cardinality(Writes(b)) = 1
    BY <1>1, <2>2, WrittenOnce
  <2>4. /\ batches'[b].status = "confirmed" /\ batches'[b].leaves = batches[b].leaves
        /\ \A c \in Batches \ {b} : batches'[c] = batches[c]
    BY <1>1, <1>3 DEF IInv, RowsTyped, Batch
  <2>5. SameRoots
    BY <1>3, <2>4 DEF SameRoots, Recorded
  <2>6. {c \in Batches : batches[c].status = "confirmed"}'
        = {c \in Batches : batches[c].status = "confirmed"} \cup {b}
    BY <1>1, <2>4
  <2>7. Ledger!Stamp(b)
    BY <2>3, <2>5, <2>6 DEF Ledger!Stamp, SameRoots, SameWrites
  <2>. QED
    BY <1>1, <2>7
<1>. QED
  BY <1>0, <1>2, <1>3 DEF confirm_anchor_batch

(* Proofs under no root go under a new one.                                *)
LEMMA InsertQueues ==
    ASSUME IInv, NEW b \in Batches \ Recorded, NEW P \in SUBSET Proofs, TakesAll(P), Insert(b, P),
           SameWrites
    PROVE  Ledger!Queue(b, P)
<1>1. /\ batches' \in [Batches -> Batch] /\ proofs' \in [Proofs -> Proof]
      /\ batches'[b].status = "pending" /\ batches'[b].tx = NoTx /\ batches'[b].leaves = P
      /\ \A c \in Batches \ {b} : batches'[c] = batches[c]
      /\ \A p \in P : proofs[p].batch = 0 /\ proofs'[p] = [proofs[p] EXCEPT !.batch = b]
      /\ \A p \in Proofs \ P : proofs'[p] = proofs[p]
      /\ Recorded' = Recorded \cup {b}
  BY InsertBatch
<1>2. \A other \in Recorded : batches[other].leaves \cap P = {}
  <2>1. ASSUME NEW other \in Recorded, NEW p \in P, p \in batches[other].leaves PROVE FALSE
    <3>1. other \in Batches /\ other # 0
      BY DEF Recorded, Batches
    <3>2. batches[other].leaves = {q \in Proofs : proofs[q].batch = other}
      BY <3>1 DEF IInv, ProofsOK, LeavesAgree
    <3>. QED
      BY <1>1, <2>1, <3>1, <3>2
  <2>. QED
    BY <2>1
<1>3. [c \in Batches |-> batches[c].leaves]'
      = [[c \in Batches |-> batches[c].leaves] EXCEPT ![b] = P]
  BY <1>1
<1>4. SameStamps
  BY <1>1 DEF SameStamps, Recorded
<1>. QED
  BY <1>1, <1>2, <1>3, <1>4 DEF Ledger!Queue, SameStamps, SameWrites, Recorded

LEMMA GatherQueues ==
    ASSUME IInv, NEW k \in Ticks, Gather(k), SameWrites
    PROVE  \/ UNCHANGED Ledger!ledger
           \/ \E b \in Batches : \E P \in SUBSET Proofs : Ledger!Queue(b, P)
<1>1. \/ UNCHANGED batches
      \/ RecordDay(k)
      \/ \E p \in Proofs : RecordEvent(k, p)
  BY DEF Gather, DaysToClose, ReadProofs
<1>2. ticks[k] \in TickSlot /\ SlotOK(ticks[k])
  BY DEF IInv, TicksOK
<1>3. CASE UNCHANGED batches
  BY <1>3, SameBatchesQuiet, QuietLedger
<1>4. CASE RecordDay(k)
  <2>1. ticks[k].rows \in SUBSET Proofs /\ ticks[k].from \in Batches
    BY <1>2, <1>4, BoundsAssumption DEF RecordDay, TickSlot, SlotOK, Batches
  <2>2. CASE UNCHANGED batches
    BY <2>2, SameBatchesQuiet, QuietLedger
  <2>3. CASE /\ ticks[k].from \notin Recorded /\ TakesAll(ticks[k].rows)
             /\ Insert(ticks[k].from, ticks[k].rows)
    BY <2>1, <2>3, InsertQueues
  <2>. QED
    BY <1>4, <2>2, <2>3 DEF RecordDay
<1>5. ASSUME NEW p \in Proofs, RecordEvent(k, p)
      PROVE  \/ UNCHANGED Ledger!ledger
             \/ \E b \in Batches : \E P \in SUBSET Proofs : Ledger!Queue(b, P)
  <2>1. PICK b : b = Cardinality(Recorded) + 1
    OBVIOUS
  <2>2. b \in Batches /\ mode = "per_event"
    BY <1>5, <2>1 DEF RecordEvent
  <2>3. CASE UNCHANGED batches
    BY <2>3, SameBatchesQuiet, QuietLedger
  <2>4. CASE TakesAll({p}) /\ Insert(b, {p})
    <3>1. b \notin Recorded
      <4>1. PICK n \in 0..MaxBatch : Recorded = 1..n
        BY <2>2 DEF IInv, BatchesOK
      <4>2. n \in Int /\ Cardinality(1..n) = n
        BY FS_Interval, BoundsAssumption
      <4>. QED
        BY <2>1, <4>1, <4>2, BoundsAssumption
    <3>. QED
      BY <2>2, <2>4, <3>1, InsertQueues
  <2>. QED
    BY <1>5, <2>1, <2>3, <2>4 DEF RecordEvent
<1>. QED
  BY <1>1, <1>3, <1>4, <1>5

LEMMA SendIsQuiet ==
    ASSUME IInv, NEW k \in Ticks, Send(k) \/ Reconcile(k) \/ Abort(k), SameWrites
    PROVE  UNCHANGED Ledger!ledger
<1>1. UNCHANGED batches \/ ClaimBatch(k)
  BY DEF Send, SendReads, SignAnchor, Broadcast, Reconcile, CheckEvents, record_anchor_alert,
     SaveCursor, Abort
<1>2. CASE UNCHANGED batches
  BY <1>2, SameBatchesQuiet, QuietLedger
<1>3. CASE ~UNCHANGED batches
  <2>1. PICK b, t : b = ticks[k].batch /\ t = ticks[k].tx
    OBVIOUS
  <2>2. PICK row : row = [batches[b] EXCEPT !.status = "submitted", !.tx = t, !.sent = ticks[k].sent \cup {t}]
    OBVIOUS
  <2>3. b \in Batches /\ batches[b].status = "pending" /\ batches' = [batches EXCEPT ![b] = row]
    BY <1>1, <1>3, <2>1, <2>2 DEF ClaimBatch, IInv, TicksOK, SlotOK
  <2>4. row.status = "submitted" /\ row.leaves = batches[b].leaves
    BY <2>2, <2>3 DEF IInv, RowsTyped, Batch
  <2>. QED
    BY <2>3, <2>4, StatusIsQuiet, QuietLedger
<1>. QED
  BY <1>2, <1>3

LEMMA BackToPendingIsQuiet ==
    ASSUME IInv, NEW k \in Ticks, BackToPending(k), SameWrites
    PROVE  UNCHANGED Ledger!ledger
<1>1. CASE UNCHANGED batches
  BY <1>1, SameBatchesQuiet, QuietLedger
<1>2. CASE ~UNCHANGED batches
  <2>1. PICK b : b = ticks[k].batch
    OBVIOUS
  <2>2. PICK row : row = [batches[b] EXCEPT !.status = "pending"]
    OBVIOUS
  <2>3. b \in Batches /\ batches[b].status = "submitted" /\ batches' = [batches EXCEPT ![b] = row]
    BY <1>2, <2>1, <2>2 DEF BackToPending, IInv, TicksOK, SlotOK
  <2>4. row.status = "pending" /\ row.leaves = batches[b].leaves
    BY <2>2, <2>3 DEF IInv, RowsTyped, Batch
  <2>. QED
    BY <2>3, <2>4, StatusIsQuiet, QuietLedger
<1>. QED
  BY <1>1, <1>2

LEMMA LedgerStep == IInv /\ [Next]_vars => [Ledger!Next]_(Ledger!ledger)
<1> SUFFICES ASSUME IInv, [Next]_vars
             PROVE  Ledger!Next \/ UNCHANGED Ledger!ledger
  BY DEF Ledger!ledger
<1>1. ASSUME NEW k \in Ticks, Confirm(k) PROVE Ledger!Next \/ UNCHANGED Ledger!ledger
  <2>1. SameWrites
    BY <1>1, TickWritesNothing
  <2>2. ASSUME NEW b \in Batches, ConfirmOne(k, b) PROVE UNCHANGED Ledger!ledger
    BY <2>1, <2>2, SameBatchesQuiet, QuietLedger DEF ConfirmOne
  <2>. QED
    BY <1>1, <2>1, <2>2, ConfirmStamps, BackToPendingIsQuiet DEF Confirm, Ledger!Next
<1>2. ASSUME NEW k \in Ticks, Gather(k) PROVE Ledger!Next \/ UNCHANGED Ledger!ledger
  BY <1>2, TickWritesNothing, GatherQueues DEF Ledger!Next
<1>3. ASSUME NEW k \in Ticks, Send(k) \/ Reconcile(k) \/ Abort(k)
      PROVE  Ledger!Next \/ UNCHANGED Ledger!ledger
  BY <1>3, TickWritesNothing, SendIsQuiet
<1>4. CASE Chain
  BY <1>4, WorldIsQuiet, FinaliseWrites DEF Chain, Ledger!Next
<1>5. CASE UNCHANGED vars
  BY <1>5, SameBatchesQuiet, FinalStays, QuietLedger DEF vars, node
<1>. QED
  BY <1>1, <1>2, <1>3, <1>4, <1>5, WorldIsQuiet DEF Next

(* Ticks that overlap, die and resend implement AnchorLedger: a root is    *)
(* written to the registry once, after its leaves are fixed and before     *)
(* they are stamped, and no proof goes under two roots.                    *)
THEOREM AnchorImplementsLedger == Spec => ImplementsLedger
<1>1. Init => Ledger!Init
  BY LedgerInit
<1>2. IInv /\ [Next]_vars => [Ledger!Next]_(Ledger!ledger)
  BY LedgerStep
<1>. QED
  BY <1>1, <1>2, Invariance, PTL DEF Spec, ImplementsLedger, Ledger!Spec
=============================================================================
