------------------------------ MODULE Sale_proofs ------------------------------
(***************************************************************************)
(* Proofs about a sale, for any number of bidders, payments and handlers   *)
(* of each kind: SettlementCascade up to escrow, EscrowRelease from there. *)
(*                                                                         *)
(* Escrow.  No handler holds a lock, so the argument is about what a       *)
(* handler still knows.  Whoever writes makes everyone who has read out of *)
(* date; so a handler that is up to date stands before the row it read     *)
(* (UpToDate), and with it goes the bookkeeping of the price: as long as   *)
(* no handler is bound to write upon what it no longer knows, the price is *)
(* in escrow, or has left it once, or is leaving it by the hand of one     *)
(* handler that is up to date (OneWayOut).                                 *)
(*                                                                         *)
(* Cascade.  The claim is what keeps the runs of check-payment-window      *)
(* apart: an offer that a run bears was claimed by that run alone, and it  *)
(* is the last of its chain, as an open offer is and as one that was paid  *)
(* for in time is.  So of the open offer, the claimed one and the paid one *)
(* a settlement has one, and whoever extends, penalises or cancels the     *)
(* chain acts for that offer (ChainIInv).                                  *)
(***************************************************************************)
EXTENDS EscrowRelease, SettlementCascade, SequenceTheorems, FiniteSetTheorems, TLAPS

(***************************************************************************)
(* Escrow.                                                                 *)
(***************************************************************************)

ReleaserLabels == {"idle", "insertPayout", "markReleased", "transfer", "markPayout",
                   "moveItem"}

ReconcilerLabels == {"idle", "redrive", "redrivePayout"}

AdminLabels == {"idle", "byHand", "byHandPayout", "refund", "markRefunded", "reject"}

BuyerLabels == {"idle", "dispute", "appeal", "confirm"}

(* A handler is at a step of its own kind.                                 *)
LabelOK(h) ==
    /\ h \in Releasers => call[h].at \in ReleaserLabels
    /\ h \in Reconcilers => call[h].at \in ReconcilerLabels
    /\ h \in Admins => call[h].at \in AdminLabels
    /\ h \in Buyers => call[h].at \in BuyerLabels

Labels == \A h \in Handlers : LabelOK(h)

Typed ==
    /\ sale \in Sale
    /\ payouts \in Seq(Payout)
    /\ refunds \in Seq({1, 2})
    /\ owner \in {"seller", "buyer"}
    /\ call \in [Handlers -> Call]
    /\ requests \in 0 .. MaxRequests
    /\ faults \in 0 .. MaxFaults
    /\ stale \in BOOLEAN

(* What a releaser past its insert holds: a payout of its own, transferred *)
(* before it is marked.                                                    *)
HoldsPayout(r) ==
    call[r].at \in {"markReleased", "transfer", "markPayout", "moveItem"} =>
       /\ call[r].payout \in 1 .. Len(payouts)
       /\ payouts[call[r].payout].by = r
       /\ call[r].at = "markPayout" => payouts[call[r].payout].sent

PayoutsHeld == \A r \in Releasers : HoldsPayout(r)

(* A settlement is released by a run that has inserted a payout, or by a   *)
(* handler whose payout is its next step.                                  *)
OwesPayout(h) == call[h].at \in {"redrivePayout", "byHandPayout"}

PayoutFollows ==
    (faults = 0 /\ sale.status = "RELEASED") =>
       Len(payouts) > 0 \/ \E h \in Handlers : OwesPayout(h)

Fresh(h) == ~call[h].old

(* A handler that is up to date stands before the status it read or wrote. *)
Knows(h) ==
    Fresh(h) =>
       /\ call[h].at \in {"insertPayout", "markReleased", "redrive", "dispute", "appeal"}
             => sale.status = "ESCROW_HOLD"
       /\ call[h].at \in {"refund", "markRefunded", "reject"} => sale.status = "DISPUTED"
       /\ call[h].at = "byHand" => sale.status \in {"ESCROW_HOLD", "DISPUTED"}
       /\ call[h].at \in {"redrivePayout", "byHandPayout"} => sale.status = "RELEASED"

UpToDate == \A h \in Handlers : Knows(h)

(* The steps that write whatever the row says by then.                     *)
Blind == {"insertPayout", "markReleased", "redrivePayout", "byHandPayout",
          "markRefunded", "reject", "dispute", "appeal"}

(* A handler is bound to write upon what it no longer knows, or to fail.   *)
Doomed == \E h \in Handlers : call[h].old /\ call[h].at \in Blind

(* Nothing has gone wrong and nothing is bound to.                         *)
Clean == ~stale /\ faults = 0 /\ ~Doomed

Left == Len(payouts) + Len(refunds)

Held == sale.status \in {"ESCROW_HOLD", "DISPUTED"}

Marks(h) == call[h].at \in {"markReleased", "markRefunded"}

OneWayOut ==
    Clean =>
       /\ Left <= 1
       /\ Held /\ Left = 1 => \E h \in Handlers : Fresh(h) /\ Marks(h)
       /\ \A h \in Handlers : Fresh(h) /\ OwesPayout(h) => Left = 0

IInv ==
    /\ Typed
    /\ Labels
    /\ PayoutsHeld
    /\ TransfersHavePayouts
    /\ PayoutFollows
    /\ UpToDate
    /\ OneWayOut

LEMMA InitIInv == Init => IInv
<1> SUFFICES ASSUME Init PROVE IInv
  OBVIOUS
<1>1. Typed
  <2>1. sale \in Sale
    BY DEF Init, Sale, Statuses
  <2>2. Idle \in Call
    BY DEF Idle, Call
  <2>3. call \in [Handlers -> Call]
    BY <2>2 DEF Init
  <2>4. payouts \in Seq(Payout) /\ refunds \in Seq({1, 2})
    BY EmptySeq DEF Init
  <2>5. owner \in {"seller", "buyer"} /\ stale \in BOOLEAN
    BY DEF Init
  <2>6. requests \in 0 .. MaxRequests /\ faults \in 0 .. MaxFaults
    BY HandlersAssumption DEF Init
  <2>. QED
    BY <2>1, <2>3, <2>4, <2>5, <2>6 DEF Typed
<1>2. \A h \in Handlers : call[h].at = "idle"
  BY DEF Init, Idle
<1>3. Labels
  BY <1>2 DEF Labels, LabelOK, ReleaserLabels, ReconcilerLabels, AdminLabels, BuyerLabels
<1>4. PayoutsHeld
  BY <1>2 DEF PayoutsHeld, HoldsPayout, Handlers
<1>5. TransfersHavePayouts
  BY DEF Init, TransfersHavePayouts
<1>6. sale.status = "ESCROW_HOLD" /\ Left = 0
  BY DEF Init, Left
<1>7. UpToDate
  BY <1>2 DEF UpToDate, Knows
<1>8. PayoutFollows
  BY <1>6 DEF PayoutFollows
<1>9. OneWayOut
  BY <1>6 DEF OneWayOut
<1>. QED
  BY <1>1, <1>3, <1>4, <1>5, <1>7, <1>8, <1>9 DEF IInv

-----------------------------------------------------------------------------
(* What a step does to the calls.                                          *)

(* Of the others, a step changes what they know and nothing else.          *)
Others(h) ==
    \A g \in Handlers : g # h =>
       call'[g].at = call[g].at /\ call'[g].payout = call[g].payout

(* A handler that writes puts everyone else at work out of date.           *)
LEMMA WritesCall ==
    ASSUME Typed, NEW h \in Handlers, NEW next \in Call, Writes(h, next)
    PROVE  /\ call' \in [Handlers -> Call]
           /\ stale' \in BOOLEAN
           /\ call'[h] = next
           /\ Others(h)
           /\ \A g \in Handlers : g # h => call'[g].at = "idle" \/ call'[g].old
           /\ \A g \in Handlers : g # h /\ call[g].old => call'[g].old
           /\ ~stale' => ~stale /\ Fresh(h)
<1>1. \A g \in Handlers : call'[g] = IF g = h THEN next
                                    ELSE IF call[g].at = "idle" THEN call[g]
                                    ELSE [call[g] EXCEPT !.old = TRUE]
  BY DEF Writes
<1>2. \A g \in Handlers : call[g] \in Call
  BY DEF Typed
<1>3. \A g \in Handlers : [call[g] EXCEPT !.old = TRUE] \in Call
  BY <1>2 DEF Call
<1>4. call' \in [Handlers -> Call]
  BY <1>1, <1>2, <1>3 DEF Writes
<1>5. ASSUME NEW g \in Handlers, g # h
      PROVE  /\ call'[g].at = call[g].at
             /\ call'[g].payout = call[g].payout
             /\ call'[g].at = "idle" \/ call'[g].old
             /\ call[g].old => call'[g].old
  <2>1. CASE call[g].at = "idle"
    BY <1>1, <1>5, <2>1
  <2>2. CASE call[g].at # "idle"
    <3>1. call'[g] = [call[g] EXCEPT !.old = TRUE]
      BY <1>1, <1>5, <2>2
    <3>. QED
      BY <1>2, <3>1 DEF Call
  <2>. QED
    BY <2>1, <2>2
<1>6. stale' \in BOOLEAN /\ (~stale' => ~stale /\ Fresh(h))
  BY <1>2 DEF Writes, Typed, Fresh, Call
<1>. QED
  BY <1>1, <1>4, <1>5, <1>6 DEF Others

(* A handler that only goes on leaves the others as they are.              *)
LEMMA MovesCall ==
    ASSUME Typed, NEW h \in Handlers, NEW next \in Call,
           call' = [call EXCEPT ![h] = next]
    PROVE  /\ call' \in [Handlers -> Call]
           /\ call'[h] = next
           /\ Others(h)
           /\ \A g \in Handlers : g # h => call'[g] = call[g]
  BY DEF Typed, Others

(* Every handler stays at a step of its kind when the one that moves does. *)
LEMMA LabelsKept ==
    ASSUME Labels, NEW h \in Handlers, Others(h), LabelOK(h)'
    PROVE  Labels'
  BY DEF Labels, LabelOK, Others

(* Nobody else's payout is taken back or changes hands.                    *)
LEMMA HeldKept ==
    ASSUME Typed, PayoutsHeld, NEW h \in Handlers, Others(h),
           payouts' \in Seq(Payout),
           Len(payouts') >= Len(payouts),
           \A i \in 1 .. Len(payouts) :
              /\ payouts'[i].by = payouts[i].by
              /\ payouts[i].by # h /\ payouts[i].sent => payouts'[i].sent,
           h \in Releasers => HoldsPayout(h)'
    PROVE  PayoutsHeld'
<1> SUFFICES ASSUME NEW r \in Releasers, r # h
             PROVE  HoldsPayout(r)'
  BY DEF PayoutsHeld
<1>1. HoldsPayout(r)
  BY DEF PayoutsHeld
<1>2. call'[r].at = call[r].at /\ call'[r].payout = call[r].payout
  BY DEF Others, Handlers
<1>3. Len(payouts) \in Nat /\ Len(payouts') \in Nat
  BY DEF Typed
<1>. QED
  BY <1>1, <1>2, <1>3 DEF HoldsPayout

(* A released settlement keeps its payout, or the handler that owes it.    *)
LEMMA FollowsKept ==
    ASSUME Typed, PayoutFollows, NEW h \in Handlers, Others(h),
           Len(payouts') >= Len(payouts), Len(payouts') \in Nat,
           faults' = faults,
           sale'.status = "RELEASED" =>
              sale.status = "RELEASED" \/ Len(payouts') > 0 \/ OwesPayout(h)',
           OwesPayout(h) => Len(payouts') > 0
    PROVE  PayoutFollows'
<1> SUFFICES ASSUME faults = 0, sale'.status = "RELEASED", ~(Len(payouts') > 0)
             PROVE  \E g \in Handlers : OwesPayout(g)'
  BY DEF PayoutFollows
<1>1. Len(payouts) \in Nat /\ ~(Len(payouts) > 0)
  BY DEF Typed
<1>2. CASE OwesPayout(h)'
  BY <1>2
<1>3. CASE sale.status = "RELEASED"
  <2>1. PICK g \in Handlers : OwesPayout(g)
    BY <1>1, <1>3 DEF PayoutFollows
  <2>2. g # h
    BY <2>1
  <2>. QED
    BY <2>1, <2>2 DEF OwesPayout, Others
<1>. QED
  BY <1>2, <1>3

(* After a write only the writer is at work and up to date.                *)
LEMMA UpToDateAfterWrite ==
    ASSUME Typed, NEW h \in Handlers, NEW next \in Call, Writes(h, next), Knows(h)'
    PROVE  UpToDate'
<1> SUFFICES ASSUME NEW g \in Handlers, g # h
             PROVE  Knows(g)'
  BY DEF UpToDate
<1>1. call'[g].at = "idle" \/ call'[g].old
  BY WritesCall
<1>. QED
  BY <1>1 DEF Knows, Fresh

(* A step that leaves the status alone takes nothing from what the others  *)
(* know.                                                                   *)
LEMMA UpToDateAfterMove ==
    ASSUME Typed, UpToDate, NEW h \in Handlers, NEW next \in Call,
           call' = [call EXCEPT ![h] = next],
           sale'.status = sale.status, Knows(h)'
    PROVE  UpToDate'
<1> SUFFICES ASSUME NEW g \in Handlers, g # h
             PROVE  Knows(g)'
  BY DEF UpToDate
<1>1. call'[g] = call[g] /\ Knows(g)
  BY MovesCall DEF UpToDate
<1>. QED
  BY <1>1 DEF Knows, Fresh

(* A handler that is up to date writes, and nobody is doomed by it: then   *)
(* nobody else was marking the settlement, and only the writer's own place *)
(* decides whether the price still has one way out.                        *)
LEMMA OneWayAfterWrite ==
    ASSUME Typed, OneWayOut, NEW h \in Handlers, NEW next \in Call, Writes(h, next),
           faults' = faults,
           ( /\ Clean
             /\ Fresh(h)
             /\ Held /\ Left = 1 => Marks(h) ) =>
                /\ Left' <= 1
                /\ Held' /\ Left' = 1 => Fresh(h)' /\ Marks(h)'
                /\ OwesPayout(h)' => Left' = 0
    PROVE  OneWayOut'
<1> SUFFICES ASSUME Clean'
             PROVE  /\ Left' <= 1
                    /\ Held' /\ Left' = 1 => \E g \in Handlers : Fresh(g)' /\ Marks(g)'
                    /\ \A g \in Handlers : Fresh(g)' /\ OwesPayout(g)' => Left' = 0
  BY DEF OneWayOut
<1>1. ~stale /\ Fresh(h) /\ faults = 0
  BY WritesCall DEF Clean
<1>2. ASSUME NEW g \in Handlers, g # h
      PROVE  /\ call'[g].at = call[g].at
             /\ call'[g].at = "idle" \/ (call'[g].old /\ call[g].at \notin Blind)
             /\ call[g].old => call'[g].old
  BY <1>2, WritesCall DEF Clean, Doomed, Others
<1>3. ~Doomed
  BY <1>1, <1>2 DEF Doomed, Fresh, Blind
<1>4. Clean
  BY <1>1, <1>3 DEF Clean
<1>5. Held /\ Left = 1 => Marks(h)
  BY <1>2, <1>4 DEF OneWayOut, Marks, Blind
<1>6. \A g \in Handlers : Fresh(g)' /\ OwesPayout(g)' => g = h
  BY <1>2 DEF Fresh, OwesPayout
<1>. QED
  BY <1>1, <1>4, <1>5, <1>6

(* A step that writes nothing the others go by changes nothing about the   *)
(* way out.                                                                *)
LEMMA OneWayAfterMove ==
    ASSUME Typed, OneWayOut, NEW h \in Handlers, NEW next \in Call,
           call' = [call EXCEPT ![h] = next],
           call[h].at \notin Blind, next.at \notin {"redrivePayout", "byHandPayout"},
           faults' = faults, stale' = stale, sale'.status = sale.status,
           Len(payouts') = Len(payouts), refunds' = refunds
    PROVE  OneWayOut'
<1>1. call'[h] = next /\ \A g \in Handlers : g # h => call'[g] = call[g]
  BY MovesCall
<1>2. Left' = Left /\ Held' = Held
  BY DEF Left, Held
<1>3. Clean' => Clean
  <2>1. Doomed => Doomed'
    BY <1>1 DEF Doomed
  <2>. QED
    BY <2>1 DEF Clean
<1>4. (\E g \in Handlers : Fresh(g) /\ Marks(g))
         => \E g \in Handlers : Fresh(g)' /\ Marks(g)'
  BY <1>1 DEF Fresh, Marks, Blind
<1>5. \A g \in Handlers : Fresh(g)' /\ OwesPayout(g)' => Fresh(g) /\ OwesPayout(g)
  BY <1>1 DEF Fresh, OwesPayout
<1>. QED
  BY <1>2, <1>3, <1>4, <1>5 DEF OneWayOut
(* A step that leaves the rows of the payouts alone holds on to them.      *)
LEMMA SamePayouts ==
    ASSUME Typed, PayoutsHeld, TransfersHavePayouts, NEW h \in Handlers, Others(h),
           payouts' = payouts,
           h \in Releasers => HoldsPayout(h)'
    PROVE  PayoutsHeld' /\ TransfersHavePayouts'
<1>1. Len(payouts) \in Nat
  BY DEF Typed
<1>2. TransfersHavePayouts'
  BY DEF TransfersHavePayouts
<1>3. PayoutsHeld'
  BY <1>1, HeldKept DEF Typed
<1>. QED
  BY <1>2, <1>3

(* A new payout comes after the others and has not been transferred.       *)
LEMMA InsertedPayout ==
    ASSUME Typed, TransfersHavePayouts, NEW h \in Handlers, payouts' = NewPayout(h)
    PROVE  /\ payouts' \in Seq(Payout)
           /\ Len(payouts) \in Nat
           /\ Len(payouts') = Len(payouts) + 1
           /\ \A i \in 1 .. Len(payouts) : payouts'[i] = payouts[i]
           /\ payouts'[Len(payouts) + 1] = [by |-> h, status |-> "PENDING", sent |-> FALSE]
           /\ TransfersHavePayouts'
<1> DEFINE new == [by |-> h, status |-> "PENDING", sent |-> FALSE]
<1>1. new \in Payout
  BY DEF Payout
<1>2. payouts' = Append(payouts, new)
  BY DEF NewPayout
<1> HIDE DEF new
<1>3. /\ payouts' \in Seq(Payout)
      /\ Len(payouts') = Len(payouts) + 1
      /\ \A i \in 1 .. Len(payouts) : payouts'[i] = payouts[i]
      /\ payouts'[Len(payouts) + 1] = new
  BY <1>1, <1>2, AppendProperties DEF Typed
<1>4. Len(payouts) \in Nat
  BY DEF Typed
<1>5. DOMAIN payouts = 1 .. Len(payouts) /\ DOMAIN payouts' = 1 .. Len(payouts) + 1
  BY <1>3 DEF Typed
<1>6. ~new.sent /\ new.status # "PROCESSING"
  BY DEF new
<1>7. TransfersHavePayouts'
  <2> SUFFICES ASSUME NEW i \in 1 .. Len(payouts) + 1
               PROVE  /\ payouts'[i].status = "PROCESSING" => payouts'[i].sent
                      /\ payouts'[i].sent => payouts'[i].by \in Releasers
    BY <1>5 DEF TransfersHavePayouts
  <2>1. CASE i = Len(payouts) + 1
    BY <2>1, <1>3, <1>6
  <2>2. CASE i \in 1 .. Len(payouts)
    BY <2>2, <1>3, <1>5 DEF TransfersHavePayouts
  <2>. QED
    BY <1>4, <2>1, <2>2
<1>. QED
  BY <1>3, <1>4, <1>7 DEF new

(* A releaser writes its own payout and no other.                          *)
LEMMA WrittenPayout ==
    ASSUME Typed, TransfersHavePayouts, NEW r \in Releasers,
           NEW p \in 1 .. Len(payouts), NEW row \in Payout,
           payouts[p].by = r, row.by = r,
           row.status = "PROCESSING" => row.sent,
           payouts' = [payouts EXCEPT ![p] = row]
    PROVE  /\ payouts' \in Seq(Payout)
           /\ Len(payouts') = Len(payouts)
           /\ payouts'[p] = row
           /\ \A i \in 1 .. Len(payouts) :
                 /\ payouts'[i].by = payouts[i].by
                 /\ payouts[i].by # r => payouts'[i] = payouts[i]
           /\ TransfersHavePayouts'
<1>1. /\ payouts' \in Seq(Payout)
      /\ Len(payouts') = Len(payouts)
      /\ \A i \in 1 .. Len(payouts) : payouts'[i] = IF i = p THEN row ELSE payouts[i]
  BY ExceptSeq DEF Typed
<1>2. DOMAIN payouts = 1 .. Len(payouts) /\ DOMAIN payouts' = 1 .. Len(payouts)
  BY <1>1 DEF Typed
<1>3. TransfersHavePayouts'
  BY <1>1, <1>2 DEF TransfersHavePayouts
<1>. QED
  BY <1>1, <1>3

(* The kinds of handler do not overlap.                                    *)
LEMMA ReleaserIs ==
    ASSUME NEW r \in Releasers
    PROVE  r \in Handlers /\ (call'[r].at \in ReleaserLabels => LabelOK(r)')
  BY HandlersAssumption DEF Handlers, LabelOK

LEMMA ReconcilerIs ==
    ASSUME NEW c \in Reconcilers
    PROVE  /\ c \in Handlers /\ c \notin Releasers
           /\ call'[c].at \in ReconcilerLabels => LabelOK(c)'
  BY HandlersAssumption DEF Handlers, LabelOK

LEMMA AdminIs ==
    ASSUME NEW a \in Admins
    PROVE  /\ a \in Handlers /\ a \notin Releasers
           /\ call'[a].at \in AdminLabels => LabelOK(a)'
  BY HandlersAssumption DEF Handlers, LabelOK

LEMMA BuyerIs ==
    ASSUME NEW b \in Buyers
    PROVE  /\ b \in Handlers /\ b \notin Releasers
           /\ call'[b].at \in BuyerLabels => LabelOK(b)'
  BY HandlersAssumption DEF Handlers, LabelOK

Steps == ReleaserLabels \cup ReconcilerLabels \cup AdminLabels \cup BuyerLabels

LEMMA IdleCall ==
    Idle \in Call /\ Idle.at = "idle" /\ Idle.payout = 0 /\ Idle.old = FALSE
  BY DEF Idle, Call

(* The next place of a handler that goes on.                               *)
LEMMA OnCall ==
    ASSUME Typed, NEW h \in Handlers, NEW label \in Steps
    PROVE  /\ On(h, label) \in Call
           /\ On(h, label).at = label
           /\ On(h, label).payout = call[h].payout
           /\ On(h, label).old = call[h].old
           /\ Goes(h, label) => call' = [call EXCEPT ![h] = On(h, label)]
<1>1. call[h] \in Call /\ call \in [Handlers -> Call]
  BY DEF Typed
<1>. QED
  BY <1>1 DEF On, Goes, Call, Steps, ReleaserLabels, ReconcilerLabels, AdminLabels, BuyerLabels

(* The place of a handler that has just read.                              *)
LEMMA ReadCall ==
    ASSUME NEW label \in Steps
    PROVE  /\ [Idle EXCEPT !.at = label] \in Call
           /\ [Idle EXCEPT !.at = label].at = label
           /\ [Idle EXCEPT !.at = label].old = FALSE
  BY DEF Idle, Call, Steps, ReleaserLabels, ReconcilerLabels, AdminLabels, BuyerLabels

-----------------------------------------------------------------------------
(* Steps that every kind of handler takes.                                 *)

(* A handler that reads, having found the status it asks for.              *)
LEMMA ReadsKeeps ==
    ASSUME IInv, NEW h \in Handlers, NEW label \in Steps,
           At(h, "idle"), Reads(h, label),
           LabelOK(h)', Knows(h)',
           label \in {"insertPayout", "redrive", "byHand", "refund", "reject", "dispute",
                      "appeal", "confirm"},
           requests' \in 0 .. MaxRequests,
           UNCHANGED <<sale, payouts, refunds, owner, faults, stale>>
    PROVE  IInv'
<1>1. /\ Typed /\ Labels /\ PayoutsHeld /\ TransfersHavePayouts
      /\ PayoutFollows /\ UpToDate /\ OneWayOut
  BY DEF IInv
<1>2. PICK next \in Call : /\ call' = [call EXCEPT ![h] = next]
                           /\ next.at = label
  BY ReadCall DEF Reads
<1>3. call' \in [Handlers -> Call] /\ call'[h] = next /\ Others(h)
  BY <1>1, <1>2, MovesCall
<1>4. Typed'
  BY <1>1, <1>3 DEF Typed
<1>5. Labels'
  BY <1>1, <1>3, LabelsKept
<1>6. PayoutsHeld' /\ TransfersHavePayouts'
  <2>1. HoldsPayout(h)'
    BY <1>2, <1>3 DEF HoldsPayout
  <2>. QED
    BY <1>1, <1>3, <2>1, SamePayouts
<1>7. PayoutFollows'
  <2>1. ~OwesPayout(h)
    BY DEF At, OwesPayout
  <2>2. Len(payouts) \in Nat /\ Len(payouts) >= Len(payouts)
    BY <1>1 DEF Typed
  <2>. QED
    BY <1>1, <1>3, <2>1, <2>2, FollowsKept
<1>8. UpToDate'
  BY <1>1, <1>2, UpToDateAfterMove
<1>9. OneWayOut'
  BY <1>1, <1>2, OneWayAfterMove DEF At, Blind
<1>. QED
  BY <1>4, <1>5, <1>6, <1>7, <1>8, <1>9 DEF IInv

(* A handler that stops: nothing of what it knew matters any more.         *)
LEMMA EndsKeeps ==
    ASSUME IInv, NEW h \in Handlers, Ends(h), call[h].at \notin Blind,
           sale' \in Sale, sale'.status = sale.status,
           owner' \in {"seller", "buyer"},
           UNCHANGED <<payouts, refunds, requests, faults, stale>>
    PROVE  IInv'
<1>1. /\ Typed /\ Labels /\ PayoutsHeld /\ TransfersHavePayouts
      /\ PayoutFollows /\ UpToDate /\ OneWayOut
  BY DEF IInv
<1>2. PICK next \in Call : /\ call' = [call EXCEPT ![h] = next]
                           /\ next.at = "idle"
  BY IdleCall DEF Ends
<1>3. call' \in [Handlers -> Call] /\ call'[h] = next /\ Others(h)
  BY <1>1, <1>2, MovesCall
<1>4. Typed'
  BY <1>1, <1>3 DEF Typed
<1>5. Labels'
  <2>1. LabelOK(h)'
    BY <1>2, <1>3 DEF LabelOK, ReleaserLabels, ReconcilerLabels, AdminLabels, BuyerLabels
  <2>. QED
    BY <1>1, <1>3, <2>1, LabelsKept
<1>6. PayoutsHeld' /\ TransfersHavePayouts'
  <2>1. HoldsPayout(h)'
    BY <1>2, <1>3 DEF HoldsPayout
  <2>. QED
    BY <1>1, <1>3, <2>1, SamePayouts
<1>7. PayoutFollows'
  <2>1. ~OwesPayout(h)
    BY DEF Blind, OwesPayout
  <2>2. Len(payouts) \in Nat /\ Len(payouts) >= Len(payouts)
    BY <1>1 DEF Typed
  <2>. QED
    BY <1>1, <1>3, <2>1, <2>2, FollowsKept
<1>8. UpToDate'
  <2>1. Knows(h)'
    BY <1>2, <1>3 DEF Knows
  <2>. QED
    BY <1>1, <1>2, <2>1, UpToDateAfterMove
<1>9. OneWayOut'
  BY <1>1, <1>2, OneWayAfterMove
<1>. QED
  BY <1>4, <1>5, <1>6, <1>7, <1>8, <1>9 DEF IInv

(* A handler that fails, at whatever step: a fault is remembered.          *)
LEMMA FailsKeeps ==
    ASSUME IInv, NEW h \in Handlers, Fails(h)
    PROVE  IInv'
<1>1. /\ Typed /\ Labels /\ PayoutsHeld /\ TransfersHavePayouts
      /\ PayoutFollows /\ UpToDate /\ OneWayOut
  BY DEF IInv
<1>2. PICK next \in Call : /\ call' = [call EXCEPT ![h] = next]
                           /\ next.at = "idle"
  BY IdleCall DEF Fails, Ends
<1>3. call' \in [Handlers -> Call] /\ call'[h] = next /\ Others(h)
  BY <1>1, <1>2, MovesCall
<1>4. faults' \in 0 .. MaxFaults /\ faults' # 0
  BY <1>1, HandlersAssumption DEF Fails, Typed
<1>5. Typed'
  BY <1>1, <1>3, <1>4 DEF Typed, Fails
<1>6. Labels'
  <2>1. LabelOK(h)'
    BY <1>2, <1>3 DEF LabelOK, ReleaserLabels, ReconcilerLabels, AdminLabels, BuyerLabels
  <2>. QED
    BY <1>1, <1>3, <2>1, LabelsKept
<1>7. PayoutsHeld' /\ TransfersHavePayouts'
  <2>1. HoldsPayout(h)'
    BY <1>2, <1>3 DEF HoldsPayout
  <2>. QED
    BY <1>1, <1>3, <2>1, SamePayouts DEF Fails
<1>8. PayoutFollows' /\ OneWayOut'
  BY <1>4 DEF PayoutFollows, OneWayOut, Clean
<1>9. UpToDate'
  <2>1. Knows(h)'
    BY <1>2, <1>3 DEF Knows
  <2>. QED
    BY <1>1, <1>2, <2>1, UpToDateAfterMove DEF Fails
<1>. QED
  BY <1>5, <1>6, <1>7, <1>8, <1>9 DEF IInv

(* A handler that writes the settlement's row and no payout.  It ends, or  *)
(* goes on to a step of its own.                                           *)
LEMMA RowWrittenKeeps ==
    ASSUME IInv, NEW h \in Handlers, NEW next \in Call, Writes(h, next),
           sale' \in Sale, refunds' \in Seq({1, 2}), LabelOK(h)',
           h \in Releasers => HoldsPayout(h)',
           Knows(h)',
           sale'.status = "RELEASED" =>
              sale.status = "RELEASED" \/ Len(payouts) > 0 \/ OwesPayout(h)',
           ~OwesPayout(h),
           ( /\ Clean
             /\ Fresh(h)
             /\ Held /\ Left = 1 => Marks(h) ) =>
                /\ Left' <= 1
                /\ Held' /\ Left' = 1 => Fresh(h)' /\ Marks(h)'
                /\ OwesPayout(h)' => Left' = 0,
           UNCHANGED <<payouts, owner, requests, faults>>
    PROVE  IInv'
<1>1. /\ Typed /\ Labels /\ PayoutsHeld /\ TransfersHavePayouts
      /\ PayoutFollows /\ UpToDate /\ OneWayOut
  BY DEF IInv
<1>2. /\ call' \in [Handlers -> Call] /\ stale' \in BOOLEAN
      /\ call'[h] = next /\ Others(h)
  BY <1>1, WritesCall
<1>3. Typed'
  BY <1>1, <1>2 DEF Typed
<1>4. Labels'
  BY <1>1, <1>2, LabelsKept
<1>5. PayoutsHeld' /\ TransfersHavePayouts'
  BY <1>1, <1>2, SamePayouts
<1>6. PayoutFollows'
  <2>1. Len(payouts) \in Nat /\ Len(payouts) >= Len(payouts)
    BY <1>1 DEF Typed
  <2>. QED
    BY <1>1, <1>2, <2>1, FollowsKept
<1>7. UpToDate'
  BY <1>1, UpToDateAfterWrite
<1>8. OneWayOut'
  BY <1>1, OneWayAfterWrite
<1>. QED
  BY <1>3, <1>4, <1>5, <1>6, <1>7, <1>8 DEF IInv

(* A handler that inserts a payout.                                        *)
LEMMA PayoutInsertedKeeps ==
    ASSUME IInv, NEW h \in Handlers, NEW next \in Call, Writes(h, next),
           payouts' = NewPayout(h), LabelOK(h)',
           h \in Releasers => HoldsPayout(h)',
           Knows(h)', ~OwesPayout(h)',
           ( /\ Clean
             /\ Fresh(h)
             /\ Held /\ Left = 1 => Marks(h) ) =>
                /\ Left = 0
                /\ Held => Fresh(h)' /\ Marks(h)',
           UNCHANGED <<sale, refunds, owner, requests, faults>>
    PROVE  IInv'
<1>1. /\ Typed /\ Labels /\ PayoutsHeld /\ TransfersHavePayouts
      /\ PayoutFollows /\ UpToDate /\ OneWayOut
  BY DEF IInv
<1>2. /\ call' \in [Handlers -> Call] /\ stale' \in BOOLEAN
      /\ call'[h] = next /\ Others(h)
  BY <1>1, WritesCall
<1>3. /\ payouts' \in Seq(Payout)
      /\ Len(payouts) \in Nat
      /\ Len(payouts') = Len(payouts) + 1
      /\ \A i \in 1 .. Len(payouts) : payouts'[i] = payouts[i]
      /\ TransfersHavePayouts'
  BY <1>1, InsertedPayout
<1>4. Typed'
  BY <1>1, <1>2, <1>3 DEF Typed
<1>5. Labels'
  BY <1>1, <1>2, LabelsKept
<1>6. PayoutsHeld'
  <2>1. Len(payouts') >= Len(payouts)
    BY <1>3
  <2>. QED
    BY <1>1, <1>2, <1>3, <2>1, HeldKept
<1>7. PayoutFollows'
  BY <1>3 DEF PayoutFollows
<1>8. UpToDate'
  BY <1>1, UpToDateAfterWrite
<1>9. OneWayOut'
  <2>1. Left' = Left + 1 /\ Left \in Nat
    BY <1>1, <1>3 DEF Left, Typed
  <2>2. Held' = Held
    BY DEF Held
  <2>. QED
    BY <1>1, <2>1, <2>2, OneWayAfterWrite
<1>. QED
  BY <1>3, <1>4, <1>5, <1>6, <1>7, <1>8, <1>9 DEF IInv

(* A releaser that goes on with the transfer of its own payout.            *)
LEMMA TransferStepKeeps ==
    ASSUME IInv, NEW r \in Releasers, NEW next \in Call,
           call' = [call EXCEPT ![r] = next],
           call[r].at \in {"transfer", "markPayout"},
           next.at \in {"markPayout", "moveItem"}, next.payout = call[r].payout,
           NEW row \in Payout, row.by = r, row.status = "PROCESSING" => row.sent,
           next.at = "markPayout" => row.sent,
           payouts' = [payouts EXCEPT ![call[r].payout] = row],
           UNCHANGED <<sale, refunds, owner, requests, faults, stale>>
    PROVE  IInv'
<1>1. /\ Typed /\ Labels /\ PayoutsHeld /\ TransfersHavePayouts
      /\ PayoutFollows /\ UpToDate /\ OneWayOut
  BY DEF IInv
<1>2. r \in Handlers
  BY ReleaserIs
<1>3. /\ call' \in [Handlers -> Call] /\ call'[r] = next /\ Others(r)
  BY <1>1, <1>2, MovesCall
<1>4. /\ call[r].payout \in 1 .. Len(payouts)
      /\ payouts[call[r].payout].by = r
  BY <1>1 DEF PayoutsHeld, HoldsPayout
<1>5. /\ payouts' \in Seq(Payout)
      /\ Len(payouts') = Len(payouts)
      /\ payouts'[call[r].payout] = row
      /\ \A i \in 1 .. Len(payouts) :
            /\ payouts'[i].by = payouts[i].by
            /\ payouts[i].by # r => payouts'[i] = payouts[i]
      /\ TransfersHavePayouts'
  BY <1>1, <1>4, WrittenPayout
<1>6. Len(payouts) \in Nat /\ Len(payouts') >= Len(payouts)
  BY <1>1, <1>5 DEF Typed
<1>7. Typed'
  BY <1>1, <1>3, <1>5 DEF Typed
<1>8. Labels'
  <2>1. LabelOK(r)'
    BY <1>3, ReleaserIs DEF ReleaserLabels
  <2>. QED
    BY <1>1, <1>2, <1>3, <2>1, LabelsKept
<1>9. PayoutsHeld'
  <2>1. HoldsPayout(r)'
    BY <1>3, <1>4, <1>5 DEF HoldsPayout
  <2>. QED
    BY <1>1, <1>2, <1>3, <1>5, <1>6, <2>1, HeldKept
<1>10. PayoutFollows'
  <2>1. ~OwesPayout(r)
    BY DEF OwesPayout
  <2>. QED
    BY <1>1, <1>2, <1>3, <1>5, <1>6, <2>1, FollowsKept
<1>11. UpToDate'
  <2>1. Knows(r)'
    BY <1>3 DEF Knows
  <2>. QED
    BY <1>1, <1>2, <2>1, UpToDateAfterMove
<1>12. OneWayOut'
  BY <1>1, <1>2, <1>5, OneWayAfterMove DEF Blind
<1>. QED
  BY <1>5, <1>7, <1>8, <1>9, <1>10, <1>11, <1>12 DEF IInv

-----------------------------------------------------------------------------
(* release-escrow.                                                         *)

LEMMA ReleaseSelectsKeeps ==
    ASSUME IInv, NEW r \in Releasers, ReleaseSelects(r)
    PROVE  IInv'
<1>1. r \in Handlers /\ "insertPayout" \in Steps /\ Typed
  BY ReleaserIs DEF Steps, ReleaserLabels, IInv
<1>2. call'[r].at = "insertPayout" /\ sale'.status = "ESCROW_HOLD"
  BY <1>1, ReadCall DEF ReleaseSelects, Reads, Releasable, Typed
<1>3. LabelOK(r)'
  BY <1>2, ReleaserIs DEF ReleaserLabels
<1>4. Knows(r)'
  BY <1>2 DEF Knows
<1>5. requests' \in 0 .. MaxRequests
  BY <1>1 DEF ReleaseSelects, Typed
<1>. QED
  BY <1>1, <1>3, <1>4, <1>5, ReadsKeeps DEF ReleaseSelects

LEMMA ReleaseInsertsPayoutKeeps ==
    ASSUME IInv, NEW r \in Releasers, ReleaseInsertsPayout(r)
    PROVE  IInv'
<1>1. /\ r \in Handlers /\ "markReleased" \in Steps
      /\ Typed /\ TransfersHavePayouts /\ UpToDate /\ OneWayOut
  BY ReleaserIs DEF Steps, ReleaserLabels, IInv
<1>2. call[r] \in Call /\ Len(payouts) \in Nat
  BY <1>1 DEF Typed
<1>3. PICK next \in Call : /\ Writes(r, next)
                           /\ next.at = "markReleased"
                           /\ next.payout = Len(payouts) + 1
                           /\ next.old = call[r].old
  <2> DEFINE on == On(r, "markReleased")
             n == [on EXCEPT !.payout = Len(payouts) + 1]
  <2>1. /\ on \in Call /\ on.at = "markReleased" /\ on.old = call[r].old
    BY <1>1, OnCall
  <2>2. Writes(r, n)
    BY DEF ReleaseInsertsPayout
  <2> HIDE DEF on
  <2>3. n \in Call /\ n.at = on.at /\ n.old = on.old /\ n.payout = Len(payouts) + 1
    BY <1>2, <2>1 DEF Call
  <2>. QED
    BY <2>1, <2>2, <2>3
<1>4. call'[r] = next /\ (~stale' => ~stale)
  BY <1>1, <1>3, WritesCall
<1>5. payouts' = NewPayout(r) /\ UNCHANGED <<sale, refunds, owner, requests, faults>>
  BY DEF ReleaseInsertsPayout
<1>6. LabelOK(r)'
  BY <1>3, <1>4, ReleaserIs DEF ReleaserLabels
<1>7. HoldsPayout(r)'
  <2> DEFINE k == Len(payouts) + 1
  <2>1. /\ Len(payouts') = k
        /\ payouts'[k] = [by |-> r, status |-> "PENDING", sent |-> FALSE]
    BY <1>1, <1>5, InsertedPayout
  <2>2. payouts'[k].by = r /\ k \in 1 .. Len(payouts')
    BY <1>2, <2>1
  <2>3. call'[r].payout = k /\ call'[r].at = "markReleased"
    BY <1>3, <1>4
  <2> HIDE DEF k
  <2>. QED
    BY <2>2, <2>3 DEF HoldsPayout
<1>8. Fresh(r) => sale.status = "ESCROW_HOLD"
  BY <1>1 DEF UpToDate, Knows, ReleaseInsertsPayout, At
<1>9. Knows(r)' /\ ~OwesPayout(r)'
  BY <1>3, <1>4, <1>5, <1>8 DEF Knows, Fresh, OwesPayout
<1>10. ASSUME Clean, Fresh(r), Held /\ Left = 1 => Marks(r)
       PROVE  Left = 0 /\ (Held => Fresh(r)' /\ Marks(r)')
  <2>1. ~Marks(r) /\ Held
    BY <1>8, <1>10 DEF ReleaseInsertsPayout, At, Marks, Held
  <2>2. Left \in Nat /\ Left <= 1
    BY <1>1, <1>10 DEF Typed, Left, OneWayOut
  <2>3. Fresh(r)' /\ Marks(r)'
    BY <1>3, <1>4, <1>10 DEF Fresh, Marks
  <2>. QED
    BY <1>10, <2>1, <2>2, <2>3
<1>. QED
  BY <1>1, <1>3, <1>5, <1>6, <1>7, <1>9, <1>10, PayoutInsertedKeeps

LEMMA ReleaseMarksReleasedKeeps ==
    ASSUME IInv, NEW r \in Releasers, ReleaseMarksReleased(r)
    PROVE  IInv'
<1>1. /\ r \in Handlers /\ "transfer" \in Steps
      /\ Typed /\ PayoutsHeld /\ OneWayOut
  BY ReleaserIs DEF Steps, ReleaserLabels, IInv
<1>2. PICK next \in Call : /\ Writes(r, next)
                           /\ next.at = "transfer"
                           /\ next.payout = call[r].payout
  BY <1>1, OnCall DEF ReleaseMarksReleased
<1>3. call'[r] = next
  BY <1>1, <1>2, WritesCall
<1>4. /\ sale' = [sale EXCEPT !.status = "RELEASED", !.dated = TRUE]
      /\ UNCHANGED <<payouts, refunds, owner, requests, faults>>
  BY DEF ReleaseMarksReleased
<1>5. sale' \in Sale /\ sale'.status = "RELEASED" /\ refunds' \in Seq({1, 2})
  BY <1>1, <1>4 DEF Typed, Sale, Statuses
<1>6. LabelOK(r)' /\ Knows(r)' /\ ~OwesPayout(r)' /\ ~OwesPayout(r)
  BY <1>2, <1>3, ReleaserIs DEF ReleaserLabels, Knows, OwesPayout, ReleaseMarksReleased, At
<1>7. HoldsPayout(r) /\ call[r].at = "markReleased"
  BY <1>1 DEF PayoutsHeld, ReleaseMarksReleased, At
<1>8. HoldsPayout(r)' /\ Len(payouts) > 0
  BY <1>1, <1>2, <1>3, <1>4, <1>7 DEF HoldsPayout, Typed
<1>9. ~Held' /\ Left' = Left
  BY <1>4, <1>5 DEF Held, Left
<1>10. Clean => Left' <= 1
  BY <1>1, <1>9 DEF OneWayOut
<1>. QED
  BY <1>1, <1>2, <1>4, <1>5, <1>6, <1>8, <1>9, <1>10, RowWrittenKeeps

(* The transfer is left out: the payout stays as it is.                    *)
LEMMA ReleaseSkipsTransferKeeps ==
    ASSUME IInv, NEW r \in Releasers, ReleaseSkipsTransfer(r)
    PROVE  IInv'
<1>1. /\ r \in Handlers /\ "moveItem" \in Steps
      /\ Typed /\ PayoutsHeld /\ TransfersHavePayouts
  BY ReleaserIs DEF Steps, ReleaserLabels, IInv
<1> DEFINE p == call[r].payout
<1>2. p \in 1 .. Len(payouts) /\ payouts[p].by = r
  BY <1>1 DEF PayoutsHeld, HoldsPayout, ReleaseSkipsTransfer, At
<1>3. payouts[p] \in Payout /\ DOMAIN payouts = 1 .. Len(payouts)
  BY <1>1, <1>2, ElementOfSeq DEF Typed
<1>4. payouts[p].status = "PROCESSING" => payouts[p].sent
  BY <1>1, <1>2, <1>3 DEF TransfersHavePayouts
<1>5. payouts' = [payouts EXCEPT ![p] = payouts[p]]
  BY <1>1, <1>2 DEF ReleaseSkipsTransfer, Typed
<1>6. PICK next \in Call : /\ call' = [call EXCEPT ![r] = next]
                           /\ next.at = "moveItem"
                           /\ next.payout = p
  BY <1>1, OnCall DEF ReleaseSkipsTransfer
<1>. QED
  BY <1>2, <1>3, <1>4, <1>5, <1>6, TransferStepKeeps DEF ReleaseSkipsTransfer, At

LEMMA ReleaseTransfersKeeps ==
    ASSUME IInv, NEW r \in Releasers, ReleaseTransfers(r)
    PROVE  IInv'
<1>1. /\ r \in Handlers /\ "markPayout" \in Steps /\ Typed /\ PayoutsHeld
  BY ReleaserIs DEF Steps, ReleaserLabels, IInv
<1> DEFINE p == call[r].payout
<1>2. p \in 1 .. Len(payouts) /\ payouts[p].by = r
  BY <1>1 DEF PayoutsHeld, HoldsPayout, ReleaseTransfers, At
<1>3. payouts[p] \in Payout
  BY <1>1, <1>2, ElementOfSeq DEF Typed
<1>4. PICK row \in Payout : /\ payouts' = [payouts EXCEPT ![p] = row]
                            /\ row.by = r /\ row.sent
  <2> DEFINE row == [payouts[p] EXCEPT !.sent = TRUE]
  <2>1. row \in Payout /\ row.by = r /\ row.sent
    BY <1>2, <1>3 DEF Payout
  <2>2. payouts' = [payouts EXCEPT ![p] = row]
    BY DEF ReleaseTransfers
  <2>. QED
    BY <2>1, <2>2
<1>5. PICK next \in Call : /\ call' = [call EXCEPT ![r] = next]
                           /\ next.at = "markPayout"
                           /\ next.payout = p
  BY <1>1, OnCall DEF ReleaseTransfers
<1>. QED
  BY <1>4, <1>5, TransferStepKeeps DEF ReleaseTransfers, At

LEMMA ReleaseMarksPayoutKeeps ==
    ASSUME IInv, NEW r \in Releasers, ReleaseMarksPayout(r)
    PROVE  IInv'
<1>1. /\ r \in Handlers /\ "moveItem" \in Steps /\ Typed /\ PayoutsHeld
  BY ReleaserIs DEF Steps, ReleaserLabels, IInv
<1> DEFINE p == call[r].payout
<1>2. p \in 1 .. Len(payouts) /\ payouts[p].by = r /\ payouts[p].sent
  BY <1>1 DEF PayoutsHeld, HoldsPayout, ReleaseMarksPayout, At
<1>3. payouts[p] \in Payout
  BY <1>1, <1>2, ElementOfSeq DEF Typed
<1>4. PICK row \in Payout : /\ payouts' = [payouts EXCEPT ![p] = row]
                            /\ row.by = r /\ row.sent
  <2> DEFINE row == [payouts[p] EXCEPT !.status = "PROCESSING"]
  <2>1. row \in Payout /\ row.by = r /\ row.sent
    BY <1>2, <1>3 DEF Payout
  <2>2. payouts' = [payouts EXCEPT ![p] = row]
    BY DEF ReleaseMarksPayout
  <2>. QED
    BY <2>1, <2>2
<1>5. PICK next \in Call : /\ call' = [call EXCEPT ![r] = next]
                           /\ next.at = "moveItem"
                           /\ next.payout = p
  BY <1>1, OnCall DEF ReleaseMarksPayout
<1>. QED
  BY <1>4, <1>5, TransferStepKeeps DEF ReleaseMarksPayout, At

(* A transfer that failed, or whose answer was lost.                       *)
LEMMA ReleaseTransferFailsKeeps ==
    ASSUME IInv, NEW r \in Releasers, ReleaseTransferFails(r)
    PROVE  IInv'
<1>1. /\ r \in Handlers /\ "moveItem" \in Steps
      /\ Typed /\ Labels /\ PayoutsHeld /\ TransfersHavePayouts /\ UpToDate
  BY ReleaserIs DEF Steps, ReleaserLabels, IInv
<1> DEFINE p == call[r].payout
<1>2. p \in 1 .. Len(payouts) /\ payouts[p].by = r
  BY <1>1 DEF PayoutsHeld, HoldsPayout, ReleaseTransferFails, At
<1>3. payouts[p] \in Payout
  BY <1>1, <1>2, ElementOfSeq DEF Typed
<1>4. PICK row \in Payout : /\ payouts' = [payouts EXCEPT ![p] = row]
                            /\ row.by = r /\ row.status = "FAILED"
  <2>1. PICK made \in BOOLEAN :
           payouts' = [payouts EXCEPT ![p].status = "FAILED", ![p].sent = made]
    BY DEF ReleaseTransferFails
  <2> DEFINE row == [payouts[p] EXCEPT !.status = "FAILED", !.sent = made]
  <2>2. row \in Payout /\ row.by = r /\ row.status = "FAILED"
    BY <1>2, <1>3 DEF Payout
  <2>3. payouts' = [payouts EXCEPT ![p] = row]
    BY <1>1, <1>2, <1>3, <2>1 DEF Typed, Payout
  <2>. QED
    BY <2>2, <2>3
<1>5. PICK next \in Call : /\ call' = [call EXCEPT ![r] = next]
                           /\ next.at = "moveItem"
                           /\ next.payout = p
  BY <1>1, OnCall DEF ReleaseTransferFails
<1>6. /\ call' \in [Handlers -> Call] /\ call'[r] = next /\ Others(r)
  BY <1>1, <1>5, MovesCall
<1>7. /\ payouts' \in Seq(Payout)
      /\ Len(payouts') = Len(payouts)
      /\ payouts'[p] = row
      /\ \A i \in 1 .. Len(payouts) :
            /\ payouts'[i].by = payouts[i].by
            /\ payouts[i].by # r => payouts'[i] = payouts[i]
      /\ TransfersHavePayouts'
  BY <1>1, <1>2, <1>4, WrittenPayout
<1>8. faults' \in 0 .. MaxFaults /\ faults' # 0
  BY <1>1, HandlersAssumption DEF ReleaseTransferFails, Typed
<1>9. Typed'
  BY <1>1, <1>6, <1>7, <1>8 DEF Typed, ReleaseTransferFails
<1>10. Labels'
  <2>1. LabelOK(r)'
    BY <1>5, <1>6, ReleaserIs DEF ReleaserLabels
  <2>. QED
    BY <1>1, <1>6, <2>1, LabelsKept
<1>11. PayoutsHeld'
  <2>1. HoldsPayout(r)'
    BY <1>2, <1>4, <1>5, <1>6, <1>7 DEF HoldsPayout
  <2>2. Len(payouts') >= Len(payouts)
    BY <1>1, <1>7 DEF Typed
  <2>. QED
    BY <1>1, <1>6, <1>7, <2>1, <2>2, HeldKept
<1>12. PayoutFollows' /\ OneWayOut'
  BY <1>8 DEF PayoutFollows, OneWayOut, Clean
<1>13. UpToDate'
  <2>1. Knows(r)'
    BY <1>5, <1>6 DEF Knows
  <2>. QED
    BY <1>1, <1>5, <2>1, UpToDateAfterMove DEF ReleaseTransferFails
<1>. QED
  BY <1>7, <1>9, <1>10, <1>11, <1>12, <1>13 DEF IInv

LEMMA ReleaseMovesItemKeeps ==
    ASSUME IInv, NEW r \in Releasers, ReleaseMovesItem(r)
    PROVE  IInv'
<1>1. r \in Handlers /\ sale \in Sale
  BY ReleaserIs DEF IInv, Typed
<1>. QED
  BY <1>1, EndsKeeps DEF ReleaseMovesItem, At, Blind

-----------------------------------------------------------------------------
(* reconcile-escrow.                                                       *)

LEMMA ReconcileSelectsKeeps ==
    ASSUME IInv, NEW c \in Reconcilers, ReconcileSelects(c)
    PROVE  IInv'
<1>1. c \in Handlers /\ "redrive" \in Steps /\ Typed
  BY ReconcilerIs DEF Steps, ReconcilerLabels, IInv
<1>2. call'[c].at = "redrive" /\ sale'.status = "ESCROW_HOLD"
  BY <1>1, ReadCall DEF ReconcileSelects, Reads, Typed
<1>3. LabelOK(c)'
  BY <1>2, ReconcilerIs DEF ReconcilerLabels
<1>4. Knows(c)'
  BY <1>2 DEF Knows
<1>5. requests' \in 0 .. MaxRequests
  BY <1>1 DEF ReconcileSelects, Typed
<1>. QED
  BY <1>1, <1>3, <1>4, <1>5, ReadsKeeps DEF ReconcileSelects

(* The status is asked for again in the write, so that a watchdog that is  *)
(* out of date may still end without one.                                  *)
LEMMA ReconcileReleasesKeeps ==
    ASSUME IInv, NEW c \in Reconcilers, ReconcileReleases(c)
    PROVE  IInv'
<1>1. /\ c \in Handlers /\ c \notin Releasers /\ "redrivePayout" \in Steps
      /\ Typed /\ OneWayOut
  BY ReconcilerIs DEF Steps, ReconcilerLabels, IInv
<1>2. CASE sale.status = "ESCROW_HOLD"
  <2>1. PICK next \in Call : Writes(c, next) /\ next.at = "redrivePayout"
    BY <1>1, <1>2, OnCall DEF ReconcileReleases
  <2>2. call'[c] = next
    BY <1>1, <2>1, WritesCall
  <2>3. /\ sale' = [sale EXCEPT !.status = "RELEASED", !.dated = TRUE]
        /\ UNCHANGED <<payouts, refunds, owner, requests, faults>>
    BY <1>2 DEF ReconcileReleases
  <2>4. sale' \in Sale /\ sale'.status = "RELEASED" /\ refunds' \in Seq({1, 2})
    BY <1>1, <2>3 DEF Typed, Sale, Statuses
  <2>5. LabelOK(c)' /\ Knows(c)' /\ OwesPayout(c)' /\ ~OwesPayout(c)
    BY <2>1, <2>2, <2>4, ReconcilerIs
       DEF ReconcilerLabels, Knows, OwesPayout, ReconcileReleases, At
  <2>6. ~Held' /\ Left' = Left /\ Held /\ ~Marks(c) /\ Left \in Nat
    BY <1>1, <1>2, <2>3, <2>4 DEF Held, Left, Marks, ReconcileReleases, At, Typed
  <2>7. ASSUME Clean, Held /\ Left = 1 => Marks(c)
        PROVE  Left' = 0
    BY <1>1, <2>6, <2>7 DEF OneWayOut
  <2>. QED
    BY <1>1, <2>1, <2>3, <2>4, <2>5, <2>6, <2>7, RowWrittenKeeps
<1>3. CASE sale.status # "ESCROW_HOLD"
  <2>1. Ends(c) /\ UNCHANGED <<sale, payouts, refunds, owner, requests, faults, stale>>
    BY <1>3 DEF ReconcileReleases
  <2>. QED
    BY <1>1, <2>1, EndsKeeps DEF ReconcileReleases, At, Blind, Typed
<1>. QED
  BY <1>2, <1>3

(* The payout of whoever released the settlement without one.              *)
LEMMA OwedPayoutKeeps ==
    ASSUME IInv, NEW h \in Handlers, h \notin Releasers,
           OwesPayout(h), payouts' = NewPayout(h), Writes(h, Idle),
           UNCHANGED <<sale, refunds, owner, requests, faults>>
    PROVE  IInv'
<1>1. Typed /\ UpToDate /\ OneWayOut
  BY DEF IInv
<1>2. Idle \in Call /\ call'[h].at = "idle"
  BY <1>1, IdleCall, WritesCall
<1>3. LabelOK(h)'
  BY <1>2 DEF LabelOK, ReleaserLabels, ReconcilerLabels, AdminLabels, BuyerLabels
<1>4. Knows(h)' /\ ~OwesPayout(h)'
  BY <1>2 DEF Knows, OwesPayout
<1>5. ASSUME Clean, Fresh(h)
      PROVE  Left = 0 /\ ~Held
  BY <1>1, <1>5 DEF OneWayOut, UpToDate, Knows, OwesPayout, Held
<1>. QED
  BY <1>2, <1>3, <1>4, <1>5, PayoutInsertedKeeps

LEMMA ReconcileInsertsPayoutKeeps ==
    ASSUME IInv, NEW c \in Reconcilers, ReconcileInsertsPayout(c)
    PROVE  IInv'
  BY ReconcilerIs, OwedPayoutKeeps DEF ReconcileInsertsPayout, At, OwesPayout

-----------------------------------------------------------------------------
(* The admin's routes.                                                     *)

LEMMA AdminReadsForReleaseKeeps ==
    ASSUME IInv, NEW a \in Admins, AdminReadsForRelease(a)
    PROVE  IInv'
<1>1. a \in Handlers /\ "byHand" \in Steps /\ Typed
  BY AdminIs DEF Steps, AdminLabels, IInv
<1>2. call'[a].at = "byHand" /\ sale'.status \in {"ESCROW_HOLD", "DISPUTED"}
  BY <1>1, ReadCall DEF AdminReadsForRelease, Reads, Typed
<1>3. LabelOK(a)'
  BY <1>2, AdminIs DEF AdminLabels
<1>4. Knows(a)'
  BY <1>2 DEF Knows
<1>5. requests' \in 0 .. MaxRequests
  BY <1>1 DEF AdminReadsForRelease, Typed
<1>. QED
  BY <1>1, <1>3, <1>4, <1>5, ReadsKeeps DEF AdminReadsForRelease

LEMMA AdminReleasesKeeps ==
    ASSUME IInv, NEW a \in Admins, AdminReleases(a)
    PROVE  IInv'
<1>1. /\ a \in Handlers /\ a \notin Releasers /\ "byHandPayout" \in Steps
      /\ Typed /\ OneWayOut
  BY AdminIs DEF Steps, AdminLabels, IInv
<1>2. CASE Held
  <2>1. PICK next \in Call : Writes(a, next) /\ next.at = "byHandPayout"
    BY <1>1, <1>2, OnCall DEF AdminReleases, Held
  <2>2. call'[a] = next
    BY <1>1, <2>1, WritesCall
  <2>3. /\ sale' = [sale EXCEPT !.status = "RELEASED", !.dated = TRUE]
        /\ UNCHANGED <<payouts, refunds, owner, requests, faults>>
    BY <1>2 DEF AdminReleases, Held
  <2>4. sale' \in Sale /\ sale'.status = "RELEASED" /\ refunds' \in Seq({1, 2})
    BY <1>1, <2>3 DEF Typed, Sale, Statuses
  <2>5. LabelOK(a)' /\ Knows(a)' /\ OwesPayout(a)' /\ ~OwesPayout(a)
    BY <2>1, <2>2, <2>4, AdminIs
       DEF AdminLabels, Knows, OwesPayout, AdminReleases, At
  <2>6. ~Held' /\ Left' = Left /\ ~Marks(a) /\ Left \in Nat
    BY <1>1, <2>3, <2>4 DEF Held, Left, Marks, AdminReleases, At, Typed
  <2>7. ASSUME Clean, Held /\ Left = 1 => Marks(a)
        PROVE  Left' = 0
    BY <1>1, <1>2, <2>6, <2>7 DEF OneWayOut
  <2>. QED
    BY <1>1, <2>1, <2>3, <2>4, <2>5, <2>6, <2>7, RowWrittenKeeps
<1>3. CASE ~Held
  <2>1. Ends(a) /\ UNCHANGED <<sale, payouts, refunds, owner, requests, faults, stale>>
    BY <1>3 DEF AdminReleases, Held
  <2>. QED
    BY <1>1, <2>1, EndsKeeps DEF AdminReleases, At, Blind, Typed
<1>. QED
  BY <1>2, <1>3

LEMMA AdminInsertsPayoutKeeps ==
    ASSUME IInv, NEW a \in Admins, AdminInsertsPayout(a)
    PROVE  IInv'
  BY AdminIs, OwedPayoutKeeps DEF AdminInsertsPayout, At, OwesPayout

LEMMA AdminReadsForDecisionKeeps ==
    ASSUME IInv, NEW a \in Admins, NEW label \in {"refund", "reject"},
           AdminReadsForDecision(a, label)
    PROVE  IInv'
<1>1. a \in Handlers /\ label \in Steps /\ Typed
  BY AdminIs DEF Steps, AdminLabels, IInv
<1>2. call'[a].at = label /\ sale'.status = "DISPUTED"
  BY <1>1, ReadCall DEF AdminReadsForDecision, Reads, Typed
<1>3. LabelOK(a)'
  BY <1>2, AdminIs DEF AdminLabels
<1>4. Knows(a)'
  BY <1>2 DEF Knows
<1>5. requests' \in 0 .. MaxRequests
  BY <1>1, HandlersAssumption DEF AdminReadsForDecision, Typed
<1>. QED
  BY <1>1, <1>3, <1>4, <1>5, ReadsKeeps DEF AdminReadsForDecision

LEMMA AdminRefundsKeeps ==
    ASSUME IInv, NEW a \in Admins, AdminRefunds(a)
    PROVE  IInv'
<1>1. /\ a \in Handlers /\ a \notin Releasers /\ "markRefunded" \in Steps
      /\ Typed /\ OneWayOut /\ UpToDate
  BY AdminIs DEF Steps, AdminLabels, IInv
<1>2. PICK halves \in {1, 2} :
         \/ refunds' = Append(refunds, halves) /\ Writes(a, On(a, "markRefunded"))
         \/ Ends(a) /\ UNCHANGED <<refunds, stale>>
  BY DEF AdminRefunds
<1>3. CASE refunds' = Append(refunds, halves) /\ Writes(a, On(a, "markRefunded"))
  <2>1. PICK next \in Call : /\ Writes(a, next)
                             /\ next.at = "markRefunded"
                             /\ next.old = call[a].old
    BY <1>1, <1>3, OnCall
  <2>2. call'[a] = next
    BY <1>1, <2>1, WritesCall
  <2>3. UNCHANGED <<sale, payouts, owner, requests, faults>>
    BY DEF AdminRefunds
  <2>4. /\ refunds' \in Seq({1, 2}) /\ Len(refunds') = Len(refunds) + 1
        /\ Len(refunds) \in Nat /\ Len(payouts) \in Nat /\ sale' \in Sale
    BY <1>1, <1>3, <2>3, AppendProperties DEF Typed
  <2>5. Fresh(a) => sale.status = "DISPUTED"
    BY <1>1 DEF UpToDate, Knows, AdminRefunds, At
  <2>6. LabelOK(a)' /\ Knows(a)' /\ ~OwesPayout(a)' /\ ~OwesPayout(a)
    BY <2>1, <2>2, <2>3, <2>5, AdminIs
       DEF AdminLabels, Knows, Fresh, OwesPayout, AdminRefunds, At
  <2>7. ~Marks(a) /\ Left' = Left + 1 /\ Left \in Nat
    BY <2>3, <2>4 DEF Left, Marks, AdminRefunds, At
  <2>8. ASSUME Clean, Fresh(a), Held /\ Left = 1 => Marks(a)
        PROVE  Left' <= 1 /\ Fresh(a)' /\ Marks(a)'
    <3>1. Held /\ Left <= 1
      BY <1>1, <2>5, <2>8 DEF Held, OneWayOut
    <3>2. Left' <= 1
      BY <2>7, <2>8, <3>1
    <3>. QED
      BY <2>1, <2>2, <2>8, <3>2 DEF Fresh, Marks
  <2>9. sale'.status = "RELEASED" => sale.status = "RELEASED"
    BY <2>3
  <2>. QED
    BY <1>1, <2>1, <2>3, <2>4, <2>6, <2>8, <2>9, RowWrittenKeeps
<1>4. CASE Ends(a) /\ UNCHANGED <<refunds, stale>>
  <2>1. UNCHANGED <<sale, payouts, owner, requests, faults>> /\ call[a].at = "refund"
    BY DEF AdminRefunds, At
  <2>. QED
    BY <1>1, <1>4, <2>1, EndsKeeps DEF Blind, Typed
<1>. QED
  BY <1>2, <1>3, <1>4

(* The last write of a handler that marks nothing and owes nothing: it     *)
(* takes the settlement out of the hands of whoever was marking it.        *)
LEMMA StatusWrittenKeeps ==
    ASSUME IInv, NEW h \in Handlers, h \notin Releasers, Writes(h, Idle),
           ~OwesPayout(h), sale' \in Sale, sale'.status # "RELEASED",
           Fresh(h) => Held,
           Marks(h) => ~Held',
           UNCHANGED <<payouts, refunds, owner, requests, faults>>
    PROVE  IInv'
<1>1. Typed /\ OneWayOut
  BY DEF IInv
<1>2. Idle \in Call /\ call'[h].at = "idle"
  BY <1>1, IdleCall, WritesCall
<1>3. LabelOK(h)'
  BY <1>2 DEF LabelOK, ReleaserLabels, ReconcilerLabels, AdminLabels, BuyerLabels
<1>4. Knows(h)' /\ ~OwesPayout(h)'
  BY <1>2 DEF Knows, OwesPayout
<1>5. Left' = Left /\ refunds' \in Seq({1, 2})
  BY <1>1 DEF Left, Typed
<1>6. ASSUME Clean, Fresh(h), Held /\ Left = 1 => Marks(h)
      PROVE  Left' <= 1 /\ ~(Held' /\ Left' = 1)
  BY <1>1, <1>5, <1>6 DEF OneWayOut
<1>. QED
  BY <1>2, <1>3, <1>4, <1>5, <1>6, RowWrittenKeeps

LEMMA AdminMarksRefundedKeeps ==
    ASSUME IInv, NEW a \in Admins, AdminMarksRefunded(a)
    PROVE  IInv'
<1>1. /\ a \in Handlers /\ a \notin Releasers /\ UpToDate /\ sale \in Sale
  BY AdminIs DEF IInv, Typed
<1>2. sale' \in Sale /\ sale'.status = "REFUNDED"
  BY <1>1 DEF AdminMarksRefunded, Sale, Statuses
<1>3. ~OwesPayout(a) /\ (Fresh(a) => Held)
  BY <1>1 DEF OwesPayout, AdminMarksRefunded, At, UpToDate, Knows, Held
<1>. QED
  BY <1>1, <1>2, <1>3, StatusWrittenKeeps DEF AdminMarksRefunded, Held

LEMMA AdminRejectsKeeps ==
    ASSUME IInv, NEW a \in Admins, AdminRejects(a)
    PROVE  IInv'
<1>1. /\ a \in Handlers /\ a \notin Releasers /\ UpToDate /\ sale \in Sale
  BY AdminIs DEF IInv, Typed
<1>2. sale' \in Sale /\ sale'.status = "ESCROW_HOLD"
  BY <1>1 DEF AdminRejects, Sale, Statuses
<1>3. ~OwesPayout(a) /\ ~Marks(a) /\ (Fresh(a) => Held)
  BY <1>1 DEF OwesPayout, Marks, AdminRejects, At, UpToDate, Knows, Held
<1>. QED
  BY <1>1, <1>2, <1>3, StatusWrittenKeeps DEF AdminRejects

-----------------------------------------------------------------------------
(* The buyer's requests.                                                   *)

LEMMA BuyerAsksKeeps ==
    ASSUME IInv, NEW b \in Buyers, NEW label \in {"dispute", "appeal"},
           BuyerAsks(b, label)
    PROVE  IInv'
<1>1. b \in Handlers /\ label \in Steps /\ Typed
  BY BuyerIs DEF Steps, BuyerLabels, IInv
<1>2. call'[b].at = label /\ sale'.status = "ESCROW_HOLD"
  BY <1>1, ReadCall DEF BuyerAsks, Reads, Typed
<1>3. LabelOK(b)'
  BY <1>2, BuyerIs DEF BuyerLabels
<1>4. Knows(b)'
  BY <1>2 DEF Knows
<1>5. requests' \in 0 .. MaxRequests
  BY <1>1, HandlersAssumption DEF BuyerAsks, Typed
<1>. QED
  BY <1>1, <1>3, <1>4, <1>5, ReadsKeeps DEF BuyerAsks

(* A dispute and an appeal write the same status.                          *)
LEMMA DisputeKeeps ==
    ASSUME IInv, NEW b \in Buyers, openDispute(b) \/ openDisputeAppeal(b)
    PROVE  IInv'
<1>1. /\ b \in Handlers /\ b \notin Releasers /\ UpToDate /\ sale \in Sale
  BY BuyerIs DEF IInv, Typed
<1>2. sale' \in Sale /\ sale'.status = "DISPUTED"
  BY <1>1 DEF openDispute, openDisputeAppeal, Sale, Statuses
<1>3. ~OwesPayout(b) /\ ~Marks(b) /\ (Fresh(b) => Held)
  BY <1>1 DEF OwesPayout, Marks, openDispute, openDisputeAppeal, At, UpToDate, Knows, Held
<1>. QED
  BY <1>1, <1>2, <1>3, StatusWrittenKeeps DEF openDispute, openDisputeAppeal

LEMMA BuyerConfirmsKeeps ==
    ASSUME IInv, NEW b \in Buyers, BuyerConfirms(b)
    PROVE  IInv'
<1>1. b \in Handlers /\ "confirm" \in Steps /\ Typed
  BY BuyerIs DEF Steps, BuyerLabels, IInv
<1>2. call'[b].at = "confirm"
  BY <1>1, ReadCall DEF BuyerConfirms, Reads, Typed
<1>3. LabelOK(b)'
  BY <1>2, BuyerIs DEF BuyerLabels
<1>4. Knows(b)'
  BY <1>2 DEF Knows
<1>5. requests' \in 0 .. MaxRequests
  BY <1>1 DEF BuyerConfirms, Typed
<1>. QED
  BY <1>1, <1>3, <1>4, <1>5, ReadsKeeps DEF BuyerConfirms

LEMMA confirmDeliveryKeeps ==
    ASSUME IInv, NEW b \in Buyers, confirmDelivery(b)
    PROVE  IInv'
<1>1. b \in Handlers /\ sale \in Sale /\ owner \in {"seller", "buyer"}
  BY BuyerIs DEF IInv, Typed
<1>2. sale' \in Sale /\ sale'.status = sale.status
  BY <1>1 DEF confirmDelivery, Sale
<1>. QED
  BY <1>1, <1>2, EndsKeeps DEF confirmDelivery, At, Blind

-----------------------------------------------------------------------------
(* Time, and the whole.                                                    *)

(* Nothing of the invariant but its type looks at the dates.               *)
LEMMA SameCallsKeep ==
    ASSUME IInv, sale' \in Sale, sale'.status = sale.status,
           UNCHANGED <<payouts, refunds, owner, call, requests, faults, stale>>
    PROVE  IInv'
<1>1. /\ Typed /\ Labels /\ PayoutsHeld /\ TransfersHavePayouts
      /\ PayoutFollows /\ UpToDate /\ OneWayOut
  BY DEF IInv
<1>2. Typed' /\ Labels' /\ PayoutsHeld' /\ TransfersHavePayouts'
  BY <1>1 DEF Typed, Labels, LabelOK, PayoutsHeld, HoldsPayout, TransfersHavePayouts
<1>3. PayoutFollows'
  BY <1>1 DEF PayoutFollows, OwesPayout
<1>4. UpToDate'
  BY <1>1 DEF UpToDate, Knows, Fresh
<1>5. Clean' = Clean /\ Left' = Left /\ Held' = Held
  BY DEF Clean, Doomed, Left, Held
<1>6. OneWayOut'
  BY <1>1, <1>5 DEF OneWayOut, Fresh, Marks, OwesPayout
<1>. QED
  BY <1>2, <1>3, <1>4, <1>6 DEF IInv

LEMMA TimePassesKeeps ==
    ASSUME IInv, TimePasses
    PROVE  IInv'
<1>1. sale \in Sale
  BY DEF IInv, Typed
<1>2. sale' \in Sale /\ sale'.status = sale.status
  BY <1>1 DEF TimePasses, Sale
<1>. QED
  BY <1>2, SameCallsKeep DEF TimePasses

LEMMA NextIInv == IInv /\ [Next]_vars => IInv'
<1> SUFFICES ASSUME IInv, [Next]_vars PROVE IInv'
  OBVIOUS
<1>1. ASSUME NEW r \in Releasers, ReleaseStep(r) PROVE IInv'
  BY <1>1, ReleaseSelectsKeeps, ReleaseInsertsPayoutKeeps, ReleaseMarksReleasedKeeps,
     ReleaseSkipsTransferKeeps, ReleaseTransfersKeeps, ReleaseMarksPayoutKeeps,
     ReleaseTransferFailsKeeps, ReleaseMovesItemKeeps DEF ReleaseStep
<1>2. ASSUME NEW c \in Reconcilers, ReconcileStep(c) PROVE IInv'
  BY <1>2, ReconcileSelectsKeeps, ReconcileReleasesKeeps, ReconcileInsertsPayoutKeeps
     DEF ReconcileStep
<1>3. ASSUME NEW a \in Admins, AdminStep(a) PROVE IInv'
  BY <1>3, AdminReadsForReleaseKeeps, AdminReleasesKeeps, AdminInsertsPayoutKeeps,
     AdminReadsForDecisionKeeps, AdminRefundsKeeps, AdminMarksRefundedKeeps,
     AdminRejectsKeeps DEF AdminStep
<1>4. ASSUME NEW b \in Buyers, BuyerStep(b) PROVE IInv'
  <2>1. CASE BuyerAsks(b, "dispute") \/ BuyerAsksForAppeal(b)
    BY <2>1, BuyerAsksKeeps DEF BuyerAsksForAppeal
  <2>2. CASE openDispute(b) \/ openDisputeAppeal(b)
    BY <2>2, DisputeKeeps
  <2>3. CASE BuyerConfirms(b) \/ confirmDelivery(b)
    BY <2>3, BuyerConfirmsKeeps, confirmDeliveryKeeps
  <2>. QED
    BY <1>4, <2>1, <2>2, <2>3 DEF BuyerStep
<1>5. ASSUME NEW h \in Handlers, Fails(h) PROVE IInv'
  BY <1>5, FailsKeeps
<1>6. CASE TimePasses
  BY <1>6, TimePassesKeeps
<1>7. CASE UNCHANGED vars
  BY <1>7, SameCallsKeep DEF vars, IInv, Typed
<1>. QED
  BY <1>1, <1>2, <1>3, <1>4, <1>5, <1>6, <1>7 DEF Next

-----------------------------------------------------------------------------
(* The theorems.                                                           *)

LEMMA IInvAlways == Spec => []IInv
<1>. QED
  BY InitIInv, NextIInv, PTL DEF Spec

(* Rows and calls keep their shape; when nobody is at work and no call has *)
(* failed, a released settlement has a payout, whoever released it; and    *)
(* transfers are made for the payouts of release-escrow alone.             *)
THEOREM EscrowCorrect == Spec => []Inv
<1>1. IInv => Inv
  <2> SUFFICES ASSUME IInv PROVE Inv
    OBVIOUS
  <2>1. TypeOK
    BY DEF IInv, Typed, TypeOK, PayoutsHeld, HoldsPayout
  <2>2. ReleasedHasPayout
    BY DEF IInv, PayoutFollows, ReleasedHasPayout, Quiet, At, OwesPayout
  <2>. QED
    BY <2>1, <2>2 DEF Inv, IInv
<1>. QED
  BY <1>1, IInvAlways, PTL

(* The price leaves escrow once at most, by one payout or one refund, for  *)
(* as long as no handler wrote upon a row it no longer knew and none       *)
(* failed half way.                                                        *)
THEOREM PriceLeavesOnce == Spec => []LeavesOnce
<1>1. IInv => LeavesOnce
  <2> SUFFICES ASSUME IInv, Quiet, ~stale, faults = 0
               PROVE  Len(payouts) + Len(refunds) <= 1
    BY DEF LeavesOnce
  <2>1. ~Doomed
    BY DEF Doomed, Blind, Quiet, At
  <2>. QED
    BY <2>1 DEF IInv, OneWayOut, Clean, Left
<1>. QED
  BY <1>1, IInvAlways, PTL

(* Only the three inserts add a payout, and one that is up to date stands  *)
(* before a settlement that is held or released.                           *)
LEMMA InsertInDispute ==
    ASSUME IInv, Next, Len(payouts') > Len(payouts),
           sale.status \in {"DISPUTED", "REFUNDED"}
    PROVE  stale'
<1>1. Typed /\ PayoutsHeld /\ UpToDate /\ Len(payouts) \in Nat
  BY DEF IInv, Typed
<1>2. ASSUME NEW h \in Handlers, NEW next,
             call[h].at \in {"insertPayout", "redrivePayout", "byHandPayout"},
             Writes(h, next)
      PROVE  stale'
  <2>1. call[h].old
    BY <1>1, <1>2 DEF UpToDate, Knows, Fresh
  <2>. QED
    BY <1>2, <2>1 DEF Writes
<1>3. payouts' # payouts
  BY <1>1
<1>4. ASSUME NEW r \in Releasers, ReleaseStep(r) PROVE stale'
  <2>1. CASE ReleaseInsertsPayout(r)
    BY <1>2, <2>1, ReleaserIs DEF ReleaseInsertsPayout, At
  <2>2. CASE ReleaseTransfers(r) \/ ReleaseMarksPayout(r) \/ ReleaseTransferFails(r)
    <3>1. PICK row : payouts' = [payouts EXCEPT ![call[r].payout] = row]
      <4>1. payouts \in [1 .. Len(payouts) -> Payout] /\ call[r].payout \in 1 .. Len(payouts)
        BY <1>1, <2>2 DEF Typed, PayoutsHeld, HoldsPayout, At, ReleaseTransfers,
           ReleaseMarksPayout, ReleaseTransferFails
      <4>2. payouts' = [payouts EXCEPT ![call[r].payout] = payouts'[call[r].payout]]
        BY <2>2, <4>1 DEF ReleaseTransfers, ReleaseMarksPayout, ReleaseTransferFails, Payout
      <4>. QED
        BY <4>2
    <3>2. Len(payouts') = Len(payouts)
      BY <1>1, <3>1 DEF Typed
    <3>. QED
      BY <1>1, <3>2
  <2>. QED
    BY <1>3, <1>4, <2>1, <2>2
       DEF ReleaseStep, ReleaseSelects, ReleaseMarksReleased, ReleaseSkipsTransfer,
           ReleaseMovesItem
<1>5. ASSUME NEW c \in Reconcilers, ReconcileStep(c) PROVE stale'
  BY <1>2, <1>3, <1>5, ReconcilerIs
     DEF ReconcileStep, ReconcileSelects, ReconcileReleases, ReconcileInsertsPayout, At
<1>6. ASSUME NEW a \in Admins, AdminStep(a) PROVE stale'
  BY <1>2, <1>3, <1>6, AdminIs
     DEF AdminStep, AdminReadsForRelease, AdminReleases, AdminInsertsPayout,
         AdminReadsForDecision, AdminRefunds, AdminMarksRefunded, AdminRejects, At
<1>7. ASSUME NEW b \in Buyers, BuyerStep(b) PROVE FALSE
  BY <1>3, <1>7
     DEF BuyerStep, BuyerAsks, openDispute, BuyerAsksForAppeal, openDisputeAppeal,
         BuyerConfirms, confirmDelivery
<1>8. ~TimePasses /\ \A h \in Handlers : ~Fails(h)
  BY <1>3 DEF TimePasses, Fails
<1>. QED
  BY <1>4, <1>5, <1>6, <1>7, <1>8 DEF Next

(* A payout that appears while a dispute is open, or after a refund, comes *)
(* from a handler that had read the row before.                            *)
THEOREM PayoutsAvoidDisputes == Spec => NoPayoutInDispute
<1>1. IInv /\ [Next]_vars =>
        [(Len(payouts') > Len(payouts) /\ sale.status \in {"DISPUTED", "REFUNDED"})
            => stale']_vars
  BY InsertInDispute
<1>. QED
  BY <1>1, IInvAlways, PTL DEF Spec, NoPayoutInDispute

-----------------------------------------------------------------------------
(***************************************************************************)
(* Cascade.                                                                *)
(***************************************************************************)

(* The steps of a run that still has something to do for its offer.        *)
Bearing == {"penalise", "look", "offerNext", "cancelSale"}

(* A run bears the offers it has claimed: those to do and the one it is at.*)
Bears(s, j) == j \in s.todo \/ (s.at \in Bearing /\ s.offer = j)

ToPenalise(s, j) == j \in s.todo \/ (s.at = "penalise" /\ s.offer = j)

Paying == {"sell", "find", "findOffer", "accept", "hold", "settle"}

(* What a handler needs at a step.                                         *)
Fits(s, label) ==
    /\ label \in Bearing \cup {"moveSale"} =>
          /\ s.offer \in DOMAIN offers
          /\ s.offer \notin s.todo
          /\ offers[s.offer].sale = s.sale
    /\ label \in {"insertOffer", "offerNext"} => s.bidder \in Bidders
    /\ label \in {"insertOffer", "findOffer", "accept", "hold"} => s.sale \in DOMAIN sales
    /\ label \in {"accept", "hold"} => s.offer \in DOMAIN offers
    /\ label \in Paying => s.tx \in Txs

(* What a handler works on exists, and is what it needs at its next step.  *)
SlotOK(s) ==
    /\ s \in Work
    /\ s.todo \subseteq DOMAIN offers
    /\ s.sale \in {0} \cup DOMAIN sales
    /\ s.offer \in {0} \cup DOMAIN offers
    /\ Fits(s, s.at)

RowsOK ==
    /\ bid \in [Bidders -> 0 .. MaxBid]
    /\ auction \in Auction
    /\ listing \in {"ACTIVE", "SOLD"}
    /\ sales \in Seq(Settlement)
    /\ offers \in Seq(Offer)
    /\ \A j \in DOMAIN offers : offers[j].sale \in DOMAIN sales
    /\ txs \in [Txs -> Tx]
    /\ failures \in 0 .. MaxFailures
    /\ broken \in BOOLEAN

SlotsOK == work \in [Workers -> Work] /\ \A h \in Workers : SlotOK(work[h])

Shapes == RowsOK /\ SlotsOK

-----------------------------------------------------------------------------
LEMMA ShapesTypes == Shapes => CascadeTypeOK
BY DEF Shapes, RowsOK, SlotsOK, SlotOK, CascadeTypeOK

LEMMA NoWorkOK == SlotOK(NoWork)
BY DEF SlotOK, Fits, Bearing, Paying, NoWork, Work

LEMMA ShapesInit == CascadeInit => Shapes
<1> SUFFICES ASSUME CascadeInit PROVE Shapes
  OBVIOUS
<1>1. auction \in Auction /\ listing \in {"ACTIVE", "SOLD"} /\ bid \in [Bidders -> 0 .. MaxBid]
  BY DEF CascadeInit, Auction
<1>2. sales \in Seq(Settlement) /\ offers \in Seq(Offer) /\ DOMAIN offers = {}
  BY EmptySeq DEF CascadeInit
<1>3. txs \in [Txs -> Tx]
  BY DEF CascadeInit, Tx
<1>4. failures \in 0 .. MaxFailures
  BY CascadeAssumption DEF CascadeInit
<1>5. broken \in BOOLEAN
  BY DEF CascadeInit
<1>6. RowsOK
  BY <1>1, <1>2, <1>3, <1>4, <1>5 DEF RowsOK
<1>7. SlotsOK
  <2>1. NoWork \in Work
    BY NoWorkOK DEF SlotOK
  <2>2. work = [h \in Workers |-> NoWork]
    BY DEF CascadeInit
  <2>. QED
    BY <2>1, <2>2, NoWorkOK DEF SlotsOK
<1>. QED
  BY <1>6, <1>7 DEF Shapes

(* The rows of a settlement and of an offer are never taken away, and an   *)
(* offer stays with its settlement.                                        *)
Grows ==
    /\ DOMAIN sales \subseteq DOMAIN sales'
    /\ DOMAIN offers \subseteq DOMAIN offers'
    /\ \A j \in DOMAIN offers : offers'[j].sale = offers[j].sale

LEMMA SlotKept ==
  ASSUME NEW s, SlotOK(s), Grows
  PROVE  SlotOK(s)'
BY DEF SlotOK, Fits, Grows

LEMMA SlotWritten ==
  ASSUME SlotsOK, Grows, NEW h \in Workers,
         NEW new, SlotOK(new)', work' = [work EXCEPT ![h] = new]
  PROVE  SlotsOK'
<1>1. new \in Work
  BY DEF SlotOK
<1>2. work' \in [Workers -> Work]
  BY <1>1 DEF SlotsOK
<1>3. ASSUME NEW g \in Workers
      PROVE  SlotOK(work[g])'
  <2>1. CASE g = h
    BY <2>1 DEF SlotsOK, SlotOK, Fits
  <2>2. CASE g # h
    <3> PICK s : s = work[g]
      OBVIOUS
    <3>1. SlotOK(s)'
      BY SlotKept DEF SlotsOK
    <3>2. work'[g] = s
      BY <2>2 DEF SlotsOK
    <3>. QED
      BY <3>1, <3>2 DEF SlotOK, Fits
  <2>. QED
    BY <2>1, <2>2
<1>. QED
  BY <1>2, <1>3 DEF SlotsOK

LEMMA SlotsSame ==
  ASSUME SlotsOK, Grows, UNCHANGED work
  PROVE  SlotsOK'
<1>1. ASSUME NEW g \in Workers
      PROVE  SlotOK(work[g])'
  <2> PICK s : s = work[g]
    OBVIOUS
  <2>1. SlotOK(s)'
    BY SlotKept DEF SlotsOK
  <2>. QED
    BY <2>1 DEF SlotOK, Fits
<1>. QED
  BY <1>1 DEF SlotsOK

LEMMA RowsStay ==
  ASSUME UNCHANGED <<sales, offers>>
  PROVE  Grows
BY DEF Grows

(* A handler goes on to a step for which it has what it needs.             *)
LEMMA Relabelled ==
  ASSUME NEW s, SlotOK(s), NEW label, label \in Bearing \cup Paying \cup
            {"moveSale", "endAuction", "relist"},
         Fits(s, label)
  PROVE  SlotOK([s EXCEPT !.at = label])
<1> PICK new : new = [s EXCEPT !.at = label]
  OBVIOUS
<1>1. new \in Work /\ new.at = label
  BY DEF SlotOK, Work, Bearing, Paying
<1>2. new.todo = s.todo /\ new.sale = s.sale /\ new.offer = s.offer
      /\ new.bidder = s.bidder /\ new.tx = s.tx
  BY DEF SlotOK, Work
<1>. QED
  BY <1>1, <1>2 DEF SlotOK, Fits

LEMMA BeginsTyped ==
  ASSUME NEW j \in Nat, NEW i \in Nat, NEW rest \in SUBSET (Nat \ {0})
  PROVE  [at |-> "penalise", todo |-> rest, sale |-> i, offer |-> j,
          bidder |-> NoBidder, unlisted |-> FALSE, tx |-> NoTx] \in Work
BY DEF Work

(* A run that begins with a claimed offer.                                 *)
LEMMA BeginsOK ==
  ASSUME RowsOK, NEW j \in DOMAIN offers, NEW rest, rest \subseteq DOMAIN offers, j \notin rest,
         NEW new, new = [NoWork EXCEPT !.at = "penalise", !.todo = rest,
                                       !.offer = j, !.sale = offers[j].sale]
  PROVE  SlotOK(new)
<1> PICK i : i = offers[j].sale
  OBVIOUS
<1>1. i \in DOMAIN sales /\ i \in Nat /\ j \in Nat
  <2>1. offers[j] \in Offer /\ j \in Nat
    BY DEF RowsOK
  <2>2. i \in DOMAIN sales /\ i \in Nat
    BY <2>1 DEF RowsOK, Offer
  <2>. QED
    BY <2>1, <2>2
<1>2. new = [at |-> "penalise", todo |-> rest, sale |-> i, offer |-> j,
             bidder |-> NoBidder, unlisted |-> FALSE, tx |-> NoTx]
  BY DEF NoWork
<1>3. rest \in SUBSET (Nat \ {0})
  <2>1. DOMAIN offers \subseteq Nat \ {0}
    BY DEF RowsOK
  <2>. QED
    BY <2>1
<1>4. new \in Work
  <2>1. [at |-> "penalise", todo |-> rest, sale |-> i, offer |-> j,
         bidder |-> NoBidder, unlisted |-> FALSE, tx |-> NoTx] \in Work
    BY <1>1, <1>3, BeginsTyped, Zenon
  <2>. QED
    BY <1>2, <2>1, Zenon
<1>. QED
  BY <1>1, <1>2, <1>4 DEF SlotOK, Fits, Bearing, Paying

LEMMA NextOfferOK ==
  ASSUME Shapes, NEW c \in Workers, NextOffer(c)
  PROVE  \E new : work' = [work EXCEPT ![c] = new] /\ SlotOK(new)
<1> PICK s : s = work[c]
  OBVIOUS
<1>0. SlotOK(s)
  BY DEF Shapes, SlotsOK
<1>1. CASE s.todo = {}
  BY <1>1, NoWorkOK DEF NextOffer, StopsWork
<1>2. CASE s.todo # {}
  <2>1. PICK j \in s.todo :
            work' = [work EXCEPT ![c] = [NoWork EXCEPT !.at = "penalise",
                                                       !.todo = s.todo \ {j},
                                                       !.offer = j,
                                                       !.sale = offers[j].sale]]
    BY <1>2 DEF NextOffer
  <2> PICK new : new = [NoWork EXCEPT !.at = "penalise", !.todo = s.todo \ {j},
                                      !.offer = j, !.sale = offers[j].sale]
    OBVIOUS
  <2>2. j \in DOMAIN offers /\ s.todo \ {j} \subseteq DOMAIN offers
    BY <1>0 DEF SlotOK
  <2>3. SlotOK(new)
    BY <2>2, BeginsOK DEF Shapes
  <2>. QED
    BY <2>1, <2>3
<1>. QED
  BY <1>1, <1>2

(* A step that writes one slot and leaves the rows in shape.               *)
LEMMA SlotStepOK ==
  ASSUME Shapes, RowsOK', Grows, NEW h \in Workers,
         NEW new, SlotOK(new)', work' = [work EXCEPT ![h] = new]
  PROVE  Shapes'
BY SlotWritten DEF Shapes

(* A step that writes one slot and no settlement or offer.                 *)
LEMMA WorkStepOK ==
  ASSUME Shapes, RowsOK', UNCHANGED <<sales, offers>>, NEW h \in Workers,
         NEW new, SlotOK(new), work' = [work EXCEPT ![h] = new]
  PROVE  Shapes'
<1>1. Grows
  BY RowsStay
<1>2. SlotOK(new)'
  BY <1>1, SlotKept
<1>. QED
  BY <1>1, <1>2, SlotWritten DEF Shapes

LEMMA GoesOnOK ==
  ASSUME Shapes, NEW h \in Workers,
         NEW label, label \in Bearing \cup Paying \cup {"moveSale", "endAuction", "relist"},
         Fits(work[h], label), GoesOnTo(h, label)
  PROVE  \E new : work' = [work EXCEPT ![h] = new] /\ SlotOK(new)
<1> PICK s : s = work[h]
  OBVIOUS
<1>1. SlotOK([s EXCEPT !.at = label])
  BY Relabelled DEF Shapes, SlotsOK
<1>2. work' = [work EXCEPT ![h] = [s EXCEPT !.at = label]]
  BY DEF GoesOnTo, Shapes, SlotsOK
<1>. QED
  BY <1>1, <1>2

LEMMA StopsOK ==
  ASSUME NEW h \in Workers, StopsWork(h)
  PROVE  \E new : work' = [work EXCEPT ![h] = new] /\ SlotOK(new)
BY NoWorkOK DEF StopsWork

(* One row of offers is written.                                           *)
LEMMA OfferWrittenOK ==
  ASSUME RowsOK, UNCHANGED sales, NEW j \in DOMAIN offers,
         NEW new \in Offer, new.sale = offers[j].sale,
         offers' = [offers EXCEPT ![j] = new]
  PROVE  /\ offers' \in Seq(Offer)
         /\ \A k \in DOMAIN offers' : offers'[k].sale \in DOMAIN sales'
         /\ Grows
<1>1. offers \in Seq(Offer)
  BY DEF RowsOK
<1>2. offers' \in Seq(Offer) /\ DOMAIN offers' = DOMAIN offers
  BY <1>1
<1>3. \A k \in DOMAIN offers : offers'[k].sale = offers[k].sale
  BY <1>1
<1>. QED
  BY <1>2, <1>3 DEF Grows, RowsOK

(* A row is added to offers.                                               *)
LEMMA OfferAddedOK ==
  ASSUME RowsOK, UNCHANGED sales, NEW new \in Offer, new.sale \in DOMAIN sales,
         offers' = Append(offers, new)
  PROVE  /\ offers' \in Seq(Offer)
         /\ \A k \in DOMAIN offers' : offers'[k].sale \in DOMAIN sales'
         /\ Grows
         /\ DOMAIN offers' = DOMAIN offers \cup {Len(offers) + 1}
         /\ Len(offers) + 1 \notin DOMAIN offers
         /\ \A k \in DOMAIN offers : offers'[k] = offers[k]
         /\ offers'[Len(offers) + 1] = new
<1>1. offers \in Seq(Offer)
  BY DEF RowsOK
<1>2. offers' \in Seq(Offer) /\ Len(offers') = Len(offers) + 1 /\ Len(offers) \in Nat
  BY <1>1
<1>3. DOMAIN offers' = 1 .. Len(offers) + 1 /\ DOMAIN offers = 1 .. Len(offers)
  BY <1>1, <1>2
<1>4. DOMAIN offers' = DOMAIN offers \cup {Len(offers) + 1}
      /\ Len(offers) + 1 \notin DOMAIN offers
  BY <1>2, <1>3
<1>5. \A k \in DOMAIN offers : offers'[k] = offers[k]
  BY <1>1, <1>3
<1>6. offers'[Len(offers) + 1] = new
  BY <1>1
<1>. QED
  BY <1>2, <1>4, <1>5, <1>6 DEF Grows, RowsOK

LEMMA SettleShapes ==
  ASSUME Shapes, NEW h \in Settlers, SettleStep(h)
  PROVE  Shapes'
<1> h \in Workers
  BY DEF Workers
<1> PICK s : s = work[h]
  OBVIOUS
<1>0. SlotOK(s) /\ RowsOK
  BY DEF Shapes, SlotsOK
<1>1. CASE SettleReads(h)
  <2> PICK new : new = [NoWork EXCEPT !.at = "insertSale", !.bidder = auction.winner]
    OBVIOUS
  <2>1. SlotOK(new)
    <3>1. auction.winner \in Bidders \cup {NoBidder}
      BY <1>0 DEF RowsOK, Auction
    <3>. QED
      BY <3>1 DEF SlotOK, Fits, Bearing, Paying, NoWork, Work
  <2>2. failures' \in 0 .. MaxFailures
    BY <1>0, <1>1, CascadeAssumption DEF SettleReads, RowsOK
  <2>3. RowsOK' /\ UNCHANGED <<sales, offers>>
    BY <1>0, <1>1, <2>2 DEF SettleReads, RowsOK
  <2>4. work' = [work EXCEPT ![h] = new]
    BY <1>1 DEF SettleReads
  <2>. QED
    BY <2>1, <2>3, <2>4, WorkStepOK
<1>2. CASE SettleInsertsSale(h)
  <2>1. s.bidder \in Bidders \cup {NoBidder}
    BY <1>0 DEF SlotOK, Work
  <2>2. PICK row \in Settlement : sales' = Append(sales, row)
    <3>1. CASE s.bidder = NoBidder
      BY <1>2, <3>1 DEF SettleInsertsSale, Settlement
    <3>2. CASE s.bidder # NoBidder
      BY <1>2, <2>1, <3>2 DEF SettleInsertsSale, Settlement
    <3>. QED
      BY <3>1, <3>2
  <2>3. sales' \in Seq(Settlement) /\ DOMAIN sales' = 1 .. Len(sales) + 1
        /\ DOMAIN sales = 1 .. Len(sales) /\ Len(sales) \in Nat
    BY <1>0, <2>2 DEF RowsOK
  <2>4. RowsOK'
    BY <1>0, <1>2, <2>3 DEF SettleInsertsSale, RowsOK
  <2>5. Grows
    BY <1>2, <2>3 DEF SettleInsertsSale, Grows
  <2>6. CASE s.bidder = NoBidder
    <3>1. SlotOK(NoWork)'
      BY <2>5, NoWorkOK, SlotKept
    <3>2. work' = [work EXCEPT ![h] = NoWork]
      BY <1>2, <2>6 DEF SettleInsertsSale, StopsWork
    <3>. QED
      BY <2>4, <2>5, <3>1, <3>2, SlotStepOK
  <2>7. CASE s.bidder # NoBidder
    <3> PICK new : new = [s EXCEPT !.at = "insertOffer", !.sale = Len(sales) + 1]
      OBVIOUS
    <3>1. new \in Work
      <4>1. Len(sales) + 1 \in Nat /\ s \in Work
        BY <1>0, <2>3 DEF SlotOK
      <4>. QED
        BY <4>1 DEF Work
    <3>2. new.at = "insertOffer" /\ new.sale = Len(sales) + 1 /\ new.todo = s.todo
          /\ new.offer = s.offer /\ new.bidder = s.bidder
      BY <1>0 DEF SlotOK, Work
    <3>3. new.sale \in DOMAIN sales'
      BY <2>3, <3>2
    <3>4. new.todo \subseteq DOMAIN offers' /\ new.offer \in {0} \cup DOMAIN offers'
      BY <1>0, <2>5, <3>2 DEF SlotOK, Grows
    <3>5. SlotOK(new)'
      BY <2>1, <2>7, <3>1, <3>2, <3>3, <3>4 DEF SlotOK, Fits, Bearing, Paying
    <3>6. work' = [work EXCEPT ![h] = new]
      BY <1>2, <2>7 DEF SettleInsertsSale, Shapes, SlotsOK
    <3>. QED
      BY <2>4, <2>5, <3>5, <3>6, SlotStepOK
  <2>. QED
    BY <2>6, <2>7
<1>3. CASE SettleInsertsOffer(h)
  <2>1. s.bidder \in Bidders /\ s.sale \in DOMAIN sales /\ s.at = "insertOffer"
    BY <1>0, <1>3 DEF SettleInsertsOffer, Doing, SlotOK, Fits
  <2> PICK new : new = [sale |-> s.sale, bidder |-> s.bidder, rank |-> 1,
                        status |-> "PENDING_PAYMENT", over |-> FALSE, tx |-> NoTx,
                        penalties |-> 0, inTime |-> FALSE, unlisted |-> FALSE]
    OBVIOUS
  <2>2. new \in Offer /\ new.sale \in DOMAIN sales
    <3>1. s.sale \in Nat \ {0}
      BY <1>0, <2>1 DEF RowsOK
    <3>. QED
      BY <2>1, <3>1 DEF Offer
  <2>3. offers' = Append(offers, new) /\ UNCHANGED sales
    BY <1>3 DEF SettleInsertsOffer, NewOffer
  <2>4. Grows /\ RowsOK'
    BY <1>0, <1>3, <2>2, <2>3, OfferAddedOK DEF SettleInsertsOffer, RowsOK
  <2>5. SlotOK(NoWork)'
    BY <2>4, NoWorkOK, SlotKept
  <2>6. work' = [work EXCEPT ![h] = NoWork]
    BY <1>3 DEF SettleInsertsOffer, StopsWork
  <2>. QED
    BY <2>4, <2>5, <2>6, SlotStepOK
<1>. QED
  BY <1>1, <1>2, <1>3 DEF SettleStep

LEMMA EligibleOK ==
  ASSUME NEW excluded
  PROVE  get_next_eligible_bidder(excluded) \subseteq Bidders \ excluded
BY DEF get_next_eligible_bidder

LEMMA ChoosesOK ==
  ASSUME Shapes, NEW c \in Workers, Doing(c, "look"),
         NEW next, next \subseteq Bidders, NEW unlisted \in BOOLEAN,
         Chooses(c, next, unlisted)
  PROVE  \E new : work' = [work EXCEPT ![c] = new] /\ SlotOK(new)
<1> PICK s : s = work[c]
  OBVIOUS
<1>0. SlotOK(s) /\ s.at = "look"
  BY DEF Shapes, SlotsOK, Doing
<1>1. CASE next = {}
  <2>1. Fits(s, "cancelSale")
    BY <1>0 DEF SlotOK, Fits, Bearing, Paying
  <2>2. GoesOnTo(c, "cancelSale")
    BY <1>1 DEF Chooses
  <2>. QED
    BY <2>1, <2>2, GoesOnOK DEF Bearing
<1>2. CASE next # {}
  <2>1. PICK b \in next :
            work' = [work EXCEPT ![c].at = "offerNext", ![c].bidder = b,
                                 ![c].unlisted = unlisted]
    BY <1>2 DEF Chooses
  <2> PICK new : new = [s EXCEPT !.at = "offerNext", !.bidder = b, !.unlisted = unlisted]
    OBVIOUS
  <2>2. new \in Work
    <3>1. b \in Bidders /\ s \in Work
      BY <1>0 DEF SlotOK
    <3>. QED
      BY <3>1 DEF Work
  <2>3. new.at = "offerNext" /\ new.sale = s.sale /\ new.todo = s.todo
        /\ new.offer = s.offer /\ new.bidder = b
    BY <1>0 DEF SlotOK, Work
  <2>4. SlotOK(new)
    BY <1>0, <2>2, <2>3 DEF SlotOK, Fits, Bearing, Paying
  <2>5. work' = [work EXCEPT ![c] = new]
    BY <2>1 DEF Shapes, SlotsOK
  <2>. QED
    BY <2>4, <2>5
<1>. QED
  BY <1>1, <1>2

(* The claim writes the status of some offers.                             *)
LEMMA ClaimOK ==
  ASSUME RowsOK, UNCHANGED sales, NEW taken,
         offers' = [j \in DOMAIN offers |->
                      IF j \in taken THEN [offers[j] EXCEPT !.status = "EXPIRED"]
                                     ELSE offers[j]]
  PROVE  /\ offers' \in Seq(Offer)
         /\ \A k \in DOMAIN offers' : offers'[k].sale \in DOMAIN sales'
         /\ Grows
<1>1. offers \in Seq(Offer) /\ DOMAIN offers = 1 .. Len(offers) /\ Len(offers) \in Nat
  BY DEF RowsOK
<1>2. ASSUME NEW j \in DOMAIN offers
      PROVE  offers'[j] \in Offer /\ offers'[j].sale = offers[j].sale
  <2> PICK row : row = offers[j]
    OBVIOUS
  <2>1. row \in Offer
    BY <1>1
  <2>2. [row EXCEPT !.status = "EXPIRED"] \in Offer
        /\ [row EXCEPT !.status = "EXPIRED"].sale = row.sale
    BY <2>1 DEF Offer
  <2>3. offers'[j] = row \/ offers'[j] = [row EXCEPT !.status = "EXPIRED"]
    OBVIOUS
  <2>. QED
    BY <2>1, <2>2, <2>3
<1>3. offers' \in [1 .. Len(offers) -> Offer] /\ DOMAIN offers' = DOMAIN offers
  BY <1>1, <1>2
<1>4. offers' \in Seq(Offer)
  BY <1>1, <1>3, SeqDef
<1>. QED
  BY <1>2, <1>3, <1>4 DEF Grows, RowsOK

(* One settlement is written.                                              *)
LEMMA SaleWrittenOK ==
  ASSUME RowsOK, UNCHANGED offers, NEW i \in DOMAIN sales,
         NEW new \in Settlement, sales' = [sales EXCEPT ![i] = new]
  PROVE  /\ sales' \in Seq(Settlement)
         /\ \A k \in DOMAIN offers' : offers'[k].sale \in DOMAIN sales'
         /\ Grows
<1>1. sales \in Seq(Settlement)
  BY DEF RowsOK
<1>2. sales' \in Seq(Settlement) /\ DOMAIN sales' = DOMAIN sales
  BY <1>1
<1>. QED
  BY <1>2 DEF Grows, RowsOK

LEMMA PenaltyShapes ==
  ASSUME Shapes, NEW h \in Workers, apply_payment_penalty(h)
  PROVE  Shapes'
<1> PICK s : s = work[h]
  OBVIOUS
<1>0. SlotOK(s) /\ RowsOK /\ s.at = "penalise"
  BY DEF Shapes, SlotsOK, apply_payment_penalty, Doing
<1>1. s.offer \in DOMAIN offers
  BY <1>0 DEF SlotOK, Fits, Bearing
<1> PICK row : row = offers[s.offer]
  OBVIOUS
<1> PICK new : new = [row EXCEPT !.penalties = @ + 1]
  OBVIOUS
<1>2. row \in Offer
  BY <1>0, <1>1 DEF RowsOK
<1>3. new \in Offer /\ new.sale = row.sale
  <2>1. row.penalties + 1 \in Nat
    BY <1>2 DEF Offer
  <2>. QED
    BY <1>2, <2>1 DEF Offer
<1>4. offers' = [offers EXCEPT ![s.offer] = new]
  BY <1>0, <1>1 DEF apply_payment_penalty
<1>5. Grows /\ RowsOK'
  <2>1. UNCHANGED sales /\ new.sale = offers[s.offer].sale
    BY <1>3 DEF apply_payment_penalty
  <2>2. /\ offers' \in Seq(Offer)
        /\ \A k \in DOMAIN offers' : offers'[k].sale \in DOMAIN sales'
        /\ Grows
    BY <1>0, <1>1, <1>3, <1>4, <2>1, OfferWrittenOK
  <2>. QED
    BY <1>0, <2>2 DEF apply_payment_penalty, RowsOK
<1>6. Fits(s, "look")
  BY <1>0 DEF SlotOK, Fits, Bearing, Paying
<1>7. PICK n : work' = [work EXCEPT ![h] = n] /\ SlotOK(n)
  BY <1>6, GoesOnOK DEF apply_payment_penalty, Bearing
<1>8. SlotOK(n)'
  BY <1>5, <1>7, SlotKept
<1>. QED
  BY <1>5, <1>7, <1>8, SlotStepOK

LEMMA ClaimShapes ==
  ASSUME Shapes, NEW h \in Workers, ClaimsExpired(h)
  PROVE  Shapes'
<1>0. RowsOK
  BY DEF Shapes
<1>1. Grows /\ RowsOK'
  BY <1>0, ClaimOK DEF ClaimsExpired, RowsOK
<1>2. PICK j \in Expired :
         work' = [work EXCEPT ![h] = [NoWork EXCEPT !.at = "penalise",
                                                    !.todo = Expired \ {j},
                                                    !.offer = j,
                                                    !.sale = offers[j].sale]]
  BY DEF ClaimsExpired
<1> PICK new : new = [NoWork EXCEPT !.at = "penalise", !.todo = Expired \ {j},
                                    !.offer = j, !.sale = offers[j].sale]
  OBVIOUS
<1>3. j \in DOMAIN offers /\ Expired \ {j} \subseteq DOMAIN offers
  BY DEF Expired
<1>4. SlotOK(new)
  BY <1>0, <1>3, BeginsOK
<1>5. SlotOK(new)'
  BY <1>1, <1>4, SlotKept
<1>. QED
  BY <1>1, <1>2, <1>5, SlotStepOK

LEMMA OffersShapes ==
  ASSUME Shapes, NEW h \in Workers, OffersToNext(h)
  PROVE  Shapes'
<1> PICK s : s = work[h]
  OBVIOUS
<1>0. SlotOK(s) /\ RowsOK /\ s.at = "offerNext" /\ UNCHANGED sales
  BY DEF Shapes, SlotsOK, OffersToNext, Doing
<1>1. CASE bid[s.bidder] = 0
  <2>1. RowsOK' /\ UNCHANGED <<sales, offers>>
    BY <1>0, <1>1 DEF OffersToNext, RowsOK
  <2>2. PICK n : work' = [work EXCEPT ![h] = n] /\ SlotOK(n)
    BY <1>1, NextOfferOK DEF OffersToNext
  <2>. QED
    BY <2>1, <2>2, WorkStepOK
<1>2. CASE bid[s.bidder] # 0
  <2>1. s.offer \in DOMAIN offers /\ s.bidder \in Bidders /\ s.unlisted \in BOOLEAN
        /\ s.sale \in DOMAIN sales
    BY <1>0 DEF SlotOK, Fits, Bearing, Work, RowsOK
  <2> PICK r : r = offers[s.offer].rank + 1
    OBVIOUS
  <2> PICK new : new = [sale |-> s.sale, bidder |-> s.bidder, rank |-> r,
                        status |-> "PENDING_PAYMENT", over |-> FALSE, tx |-> NoTx,
                        penalties |-> 0, inTime |-> FALSE, unlisted |-> s.unlisted]
    OBVIOUS
  <2>2. new \in Offer /\ new.sale = s.sale
    <3>1. offers[s.offer] \in Offer
      BY <1>0, <2>1 DEF RowsOK
    <3>2. r \in Nat \ {0}
      BY <3>1 DEF Offer
    <3>3. s.sale \in Nat \ {0}
      BY <1>0, <2>1 DEF RowsOK
    <3>. QED
      BY <2>1, <3>2, <3>3 DEF Offer
  <2>3. offers' = Append(offers, new)
    BY <1>2 DEF OffersToNext, NewOffer
  <2>4. Grows /\ RowsOK'
    <3>1. /\ Grows
          /\ offers' \in Seq(Offer)
          /\ \A k \in DOMAIN offers' : offers'[k].sale \in DOMAIN sales'
      BY <1>0, <2>1, <2>2, <2>3, OfferAddedOK
    <3>2. UNCHANGED <<bid, auction, listing, sales, txs, failures, broken>>
      BY <1>2 DEF OffersToNext
    <3>. QED
      BY <1>0, <3>1, <3>2 DEF RowsOK
  <2>5. Fits(s, "moveSale")
    BY <1>0 DEF SlotOK, Fits, Bearing, Paying
  <2>6. PICK n : work' = [work EXCEPT ![h] = n] /\ SlotOK(n)
    BY <1>2, <2>5, GoesOnOK DEF OffersToNext
  <2>7. SlotOK(n)'
    BY <2>4, <2>6, SlotKept
  <2>. QED
    BY <2>4, <2>6, <2>7, SlotStepOK
<1>. QED
  BY <1>1, <1>2

LEMMA MovesShapes ==
  ASSUME Shapes, NEW h \in Workers, MovesSale(h)
  PROVE  Shapes'
<1> PICK s : s = work[h]
  OBVIOUS
<1>0. SlotOK(s) /\ RowsOK /\ s.at = "moveSale"
  BY DEF Shapes, SlotsOK, MovesSale, Doing
<1>1. s.sale \in DOMAIN sales /\ s.bidder \in Bidders \cup {NoBidder}
  BY <1>0 DEF SlotOK, Fits, Work, RowsOK
<1> PICK row : row = sales[s.sale]
  OBVIOUS
<1> PICK new : new = [row EXCEPT !.buyer = s.bidder]
  OBVIOUS
<1>2. row \in Settlement
  BY <1>0, <1>1 DEF RowsOK
<1>3. new \in Settlement
  BY <1>1, <1>2 DEF Settlement
<1>4. sales' = [sales EXCEPT ![s.sale] = new]
  BY <1>0, <1>1 DEF MovesSale
<1>5. Grows /\ RowsOK'
  <2>1. UNCHANGED <<bid, auction, listing, offers, txs, failures, broken>>
    BY DEF MovesSale
  <2>2. /\ sales' \in Seq(Settlement)
        /\ \A k \in DOMAIN offers' : offers'[k].sale \in DOMAIN sales'
        /\ Grows
    BY <1>0, <1>1, <1>3, <1>4, <2>1, SaleWrittenOK
  <2>. QED
    BY <1>0, <2>1, <2>2 DEF RowsOK
<1>6. PICK n : work' = [work EXCEPT ![h] = n] /\ SlotOK(n)
  BY NextOfferOK DEF MovesSale
<1>7. SlotOK(n)'
  BY <1>5, <1>6, SlotKept
<1>. QED
  BY <1>5, <1>6, <1>7, SlotStepOK

LEMMA CancelsShapes ==
  ASSUME Shapes, NEW h \in Workers, CancelsSale(h)
  PROVE  Shapes'
<1> PICK s : s = work[h]
  OBVIOUS
<1>0. SlotOK(s) /\ RowsOK /\ s.at = "cancelSale"
  BY DEF Shapes, SlotsOK, CancelsSale, Doing
<1>1. s.sale \in DOMAIN sales
  BY <1>0 DEF SlotOK, Fits, Bearing, RowsOK
<1> PICK row : row = sales[s.sale]
  OBVIOUS
<1> PICK new : new = [row EXCEPT !.status = "CANCELLED"]
  OBVIOUS
<1>2. row \in Settlement
  BY <1>0, <1>1 DEF RowsOK
<1>3. new \in Settlement
  BY <1>2 DEF Settlement
<1>4. sales' = [sales EXCEPT ![s.sale] = new]
  BY <1>0, <1>1 DEF CancelsSale
<1>5. Grows /\ RowsOK'
  BY <1>0, <1>1, <1>3, <1>4, SaleWrittenOK DEF CancelsSale, RowsOK
<1>6. Fits(s, "endAuction")
  BY <1>0 DEF SlotOK, Fits, Bearing, Paying
<1>7. PICK n : work' = [work EXCEPT ![h] = n] /\ SlotOK(n)
  BY <1>6, GoesOnOK DEF CancelsSale
<1>8. SlotOK(n)'
  BY <1>5, <1>7, SlotKept
<1>. QED
  BY <1>5, <1>7, <1>8, SlotStepOK

LEMMA CheckShapes ==
  ASSUME Shapes, NEW h \in Checkers, CheckStep(h)
  PROVE  Shapes'
<1> h \in Workers
  BY DEF Workers
<1> PICK s : s = work[h]
  OBVIOUS
<1>0. SlotOK(s) /\ RowsOK
  BY DEF Shapes, SlotsOK
<1>1. CASE LooksForNext(h)
  <2>1. RowsOK' /\ UNCHANGED <<sales, offers>>
    BY <1>0, <1>1 DEF LooksForNext, RowsOK
  <2>2. PICK n : work' = [work EXCEPT ![h] = n] /\ SlotOK(n)
    <3>1. Doing(h, "look") /\ get_next_eligible_bidder(Asked(s.sale)) \subseteq Bidders
          /\ Chooses(h, get_next_eligible_bidder(Asked(s.sale)), FALSE)
      BY <1>1, EligibleOK DEF LooksForNext
    <3>. QED
      BY <3>1, ChoosesOK
  <2>. QED
    BY <2>1, <2>2, WorkStepOK
<1>2. CASE EndsAuction(h)
  <2>1. RowsOK' /\ UNCHANGED <<sales, offers>>
    BY <1>0, <1>2 DEF EndsAuction, RowsOK, Auction
  <2>2. Fits(s, "relist")
    BY DEF Fits, Bearing, Paying
  <2>3. PICK n : work' = [work EXCEPT ![h] = n] /\ SlotOK(n)
    BY <1>2, <2>2, GoesOnOK DEF EndsAuction
  <2>. QED
    BY <2>1, <2>3, WorkStepOK
<1>3. CASE Relists(h)
  <2>1. RowsOK' /\ UNCHANGED <<sales, offers>>
    BY <1>0, <1>3 DEF Relists, RowsOK
  <2>2. PICK n : work' = [work EXCEPT ![h] = n] /\ SlotOK(n)
    BY <1>3, NextOfferOK DEF Relists
  <2>. QED
    BY <2>1, <2>2, WorkStepOK
<1>. QED
  BY <1>1, <1>2, <1>3, ClaimShapes, PenaltyShapes, OffersShapes, MovesShapes, CancelsShapes
  DEF CheckStep, CascadeStep

LEMMA WindowShapes ==
  ASSUME Shapes, NEW j \in DOMAIN offers, WindowPasses(j)
  PROVE  Shapes'
<1>0. RowsOK
  BY DEF Shapes
<1> PICK row : row = offers[j]
  OBVIOUS
<1> PICK new : new = [row EXCEPT !.over = TRUE]
  OBVIOUS
<1>1. row \in Offer
  BY <1>0 DEF RowsOK
<1>2. new \in Offer /\ new.sale = row.sale
  BY <1>1 DEF Offer
<1>3. offers' = [offers EXCEPT ![j] = new] /\ UNCHANGED sales
  BY <1>0 DEF WindowPasses
<1>4. /\ offers' \in Seq(Offer)
      /\ \A k \in DOMAIN offers' : offers'[k].sale \in DOMAIN sales'
      /\ Grows
  BY <1>0, <1>2, <1>3, OfferWrittenOK
<1>5. RowsOK'
  BY <1>0, <1>4 DEF WindowPasses, RowsOK
<1>. QED
  BY <1>4, <1>5, SlotsSame DEF Shapes, WindowPasses

(* A step that writes one transaction.                                     *)
LEMMA TxWrittenOK ==
  ASSUME Shapes, NEW t \in Txs, NEW new \in Tx, txs' = [txs EXCEPT ![t] = new],
         UNCHANGED <<bid, auction, listing, sales, offers, work, broken>>,
         failures' \in 0 .. MaxFailures
  PROVE  Shapes'
<1>1. txs' \in [Txs -> Tx]
  BY DEF Shapes, RowsOK
<1>2. RowsOK'
  BY <1>1 DEF Shapes, RowsOK
<1>. QED
  BY <1>2, RowsStay, SlotsSame DEF Shapes

LEMMA PayShapes ==
  ASSUME Shapes, NEW t \in Txs, PayStep(t) \/ HookRecordsRefusal(t) \/ PaymentDies(t)
  PROVE  Shapes'
<1> PICK x : x = txs[t]
  OBVIOUS
<1>0. x \in Tx /\ failures \in 0 .. MaxFailures /\ txs \in [Txs -> Tx]
  BY DEF Shapes, RowsOK
<1>1. CASE StartsPayment(t)
  <2>1. [x EXCEPT !.pay = "trying"] \in Tx
    BY <1>0 DEF Tx
  <2>2. txs' = [txs EXCEPT ![t] = [x EXCEPT !.pay = "trying"]]
    BY <1>0, <1>1 DEF StartsPayment
  <2>. QED
    BY <1>0, <1>1, <2>1, <2>2, TxWrittenOK DEF StartsPayment
<1>2. CASE ProcessorTakes(t)
  <2>1. [x EXCEPT !.charged = TRUE, !.pay = "COMPLETED"] \in Tx
    BY <1>0 DEF Tx
  <2>2. txs' = [txs EXCEPT ![t] = [x EXCEPT !.charged = TRUE, !.pay = "COMPLETED"]]
    BY <1>0, <1>2 DEF ProcessorTakes
  <2>. QED
    BY <1>0, <1>2, <2>1, <2>2, TxWrittenOK DEF ProcessorTakes
<1>3. CASE ProcessorDefers(t)
  <2>1. [x EXCEPT !.form = TRUE, !.pay = "PENDING"] \in Tx
    BY <1>0 DEF Tx
  <2>2. txs' = [txs EXCEPT ![t] = [x EXCEPT !.form = TRUE, !.pay = "PENDING"]]
    BY <1>0, <1>3 DEF ProcessorDefers
  <2>. QED
    BY <1>0, <1>3, <2>1, <2>2, TxWrittenOK DEF ProcessorDefers
<1>4. CASE ProcessorDeclines(t)
  <2>1. PICK next \in {"trying", "FAILED"} :
            txs' = [txs EXCEPT ![t].declined = TRUE, ![t].pay = next]
    BY <1>4 DEF ProcessorDeclines
  <2>2. [x EXCEPT !.declined = TRUE, !.pay = next] \in Tx
    BY <1>0 DEF Tx
  <2>3. txs' = [txs EXCEPT ![t] = [x EXCEPT !.declined = TRUE, !.pay = next]]
    BY <1>0, <2>1
  <2>. QED
    BY <1>0, <1>4, <2>2, <2>3, TxWrittenOK DEF ProcessorDeclines
<1>5. CASE BuyerCompletes(t)
  <2>1. [x EXCEPT !.charged = TRUE] \in Tx
    BY <1>0 DEF Tx
  <2>2. txs' = [txs EXCEPT ![t] = [x EXCEPT !.charged = TRUE]]
    BY <1>0, <1>5 DEF BuyerCompletes
  <2>. QED
    BY <1>0, <1>5, <2>1, <2>2, TxWrittenOK DEF BuyerCompletes
<1>6. CASE RecordsPayment(t)
  <2>1. PICK status \in {"PENDING", "SUCCEEDED", "FAILED"} :
            txs' = [txs EXCEPT ![t].status = status, ![t].pay = "done"]
    BY <1>6 DEF RecordsPayment
  <2>2. [x EXCEPT !.status = status, !.pay = "done"] \in Tx
    BY <1>0 DEF Tx
  <2>3. txs' = [txs EXCEPT ![t] = [x EXCEPT !.status = status, !.pay = "done"]]
    BY <1>0, <2>1
  <2>. QED
    BY <1>0, <1>6, <2>2, <2>3, TxWrittenOK DEF RecordsPayment
<1>7. CASE HookRecordsRefusal(t)
  <2>1. [x EXCEPT !.status = "FAILED"] \in Tx
    BY <1>0 DEF Tx
  <2>2. txs' = [txs EXCEPT ![t] = [x EXCEPT !.status = "FAILED"]]
    BY <1>0, <1>7 DEF HookRecordsRefusal
  <2>. QED
    BY <1>0, <1>7, <2>1, <2>2, TxWrittenOK DEF HookRecordsRefusal
<1>8. CASE PaymentDies(t)
  <2>1. [x EXCEPT !.pay = "done"] \in Tx
    BY <1>0 DEF Tx
  <2>2. txs' = [txs EXCEPT ![t] = [x EXCEPT !.pay = "done"]]
    BY <1>0, <1>8 DEF PaymentDies
  <2>3. failures' \in 0 .. MaxFailures
    BY <1>0, <1>8, CascadeAssumption DEF PaymentDies
  <2>. QED
    BY <1>8, <2>1, <2>2, <2>3, TxWrittenOK DEF PaymentDies
<1>. QED
  BY <1>1, <1>2, <1>3, <1>4, <1>5, <1>6, <1>7, <1>8 DEF PayStep

LEMMA DeliveryShapes ==
  ASSUME Shapes, NEW h \in Hooks, NEW t \in Txs, HookRecordsPayment(h, t)
  PROVE  Shapes'
<1> h \in Workers
  BY DEF Workers
<1> PICK x : x = txs[t]
  OBVIOUS
<1>1. x \in Tx /\ txs \in [Txs -> Tx]
  BY DEF Shapes, RowsOK
<1>2. [x EXCEPT !.status = "SUCCEEDED"] \in Tx
  BY <1>1 DEF Tx
<1>3. txs' \in [Txs -> Tx]
  BY <1>1, <1>2 DEF HookRecordsPayment
<1>4. RowsOK' /\ UNCHANGED <<sales, offers>>
  BY <1>3 DEF Shapes, RowsOK, HookRecordsPayment
<1> PICK new : new = [NoWork EXCEPT !.at = "sell", !.tx = t]
  OBVIOUS
<1>5. SlotOK(new)
  BY DEF SlotOK, Fits, Bearing, Paying, NoWork, Work
<1>6. work' = [work EXCEPT ![h] = new]
  BY DEF HookRecordsPayment
<1>. QED
  BY <1>4, <1>5, <1>6, WorkStepOK

LEMMA FindsSaleOK ==
  ASSUME Shapes, NEW h \in Workers, HookFindsSale(h)
  PROVE  \E new : work' = [work EXCEPT ![h] = new] /\ SlotOK(new)
<1> PICK s : s = work[h]
  OBVIOUS
<1>0. SlotOK(s) /\ RowsOK /\ s.at = "find"
  BY DEF Shapes, SlotsOK, HookFindsSale, Doing
<1>1. PICK i \in OpenSales : work' = [work EXCEPT ![h].at = "findOffer", ![h].sale = i]
  BY DEF HookFindsSale
<1> PICK new : new = [s EXCEPT !.at = "findOffer", !.sale = i]
  OBVIOUS
<1>2. i \in DOMAIN sales /\ i \in Nat
  BY <1>0 DEF OpenSales, RowsOK
<1>3. new \in Work
  <2>1. s \in Work
    BY <1>0 DEF SlotOK
  <2>. QED
    BY <1>2, <2>1 DEF Work
<1>4. new.at = "findOffer" /\ new.sale = i /\ new.todo = s.todo /\ new.offer = s.offer
      /\ new.tx = s.tx
  BY <1>0 DEF SlotOK, Work
<1>5. SlotOK(new)
  BY <1>0, <1>2, <1>3, <1>4 DEF SlotOK, Fits, Bearing, Paying
<1>6. work' = [work EXCEPT ![h] = new]
  BY <1>1 DEF Shapes, SlotsOK
<1>. QED
  BY <1>5, <1>6

LEMMA FindsOfferOK ==
  ASSUME Shapes, NEW h \in Workers, HookFindsOffer(h)
  PROVE  \E new : work' = [work EXCEPT ![h] = new] /\ SlotOK(new)
<1> PICK s : s = work[h]
  OBVIOUS
<1>0. SlotOK(s) /\ RowsOK /\ s.at = "findOffer"
  BY DEF Shapes, SlotsOK, HookFindsOffer, Doing
<1>1. PICK j \in OpenOffers(s.sale) :
         work' = [work EXCEPT ![h].at = "accept", ![h].offer = j,
                              ![h].bidder = offers[j].bidder]
  BY DEF HookFindsOffer
<1> PICK b : b = offers[j].bidder
  OBVIOUS
<1> PICK new : new = [s EXCEPT !.at = "accept", !.offer = j, !.bidder = b]
  OBVIOUS
<1>2. j \in DOMAIN offers /\ j \in Nat /\ b \in Bidders
  <2>1. j \in DOMAIN offers
    BY DEF OpenOffers
  <2>2. offers[j] \in Offer /\ j \in Nat
    BY <1>0, <2>1 DEF RowsOK
  <2>. QED
    BY <2>1, <2>2 DEF Offer
<1>3. new \in Work
  <2>1. s \in Work
    BY <1>0 DEF SlotOK
  <2>. QED
    BY <1>2, <2>1 DEF Work
<1>4. new.at = "accept" /\ new.sale = s.sale /\ new.todo = s.todo /\ new.offer = j
      /\ new.tx = s.tx
  BY <1>0 DEF SlotOK, Work
<1>5. SlotOK(new)
  BY <1>0, <1>2, <1>3, <1>4 DEF SlotOK, Fits, Bearing, Paying
<1>6. work' = [work EXCEPT ![h] = new]
  BY <1>1 DEF Shapes, SlotsOK
<1>. QED
  BY <1>5, <1>6

LEMMA AcceptsShapes ==
  ASSUME Shapes, NEW h \in Workers, HookAccepts(h)
  PROVE  Shapes'
<1> PICK s : s = work[h]
  OBVIOUS
<1>0. SlotOK(s) /\ RowsOK /\ s.at = "accept" /\ UNCHANGED sales
  BY DEF Shapes, SlotsOK, HookAccepts, Doing
<1>1. s.offer \in DOMAIN offers /\ s.tx \in Txs
  BY <1>0 DEF SlotOK, Fits, Paying
<1> PICK row : row = offers[s.offer]
  OBVIOUS
<1> PICK new : new = [row EXCEPT !.status = "ACCEPTED", !.tx = s.tx,
                                 !.inTime = @ \/ row.status = "PENDING_PAYMENT"]
  OBVIOUS
<1>2. row \in Offer
  BY <1>0, <1>1 DEF RowsOK
<1>3. new \in Offer /\ new.sale = offers[s.offer].sale
  <2>1. row.sale \in Nat \ {0} /\ row.bidder \in Bidders /\ row.rank \in Nat \ {0}
        /\ row.over \in BOOLEAN /\ row.penalties \in Nat /\ row.unlisted \in BOOLEAN
    BY <1>2 DEF Offer
  <2> PICK inTime \in BOOLEAN : inTime = (row.inTime \/ row.status = "PENDING_PAYMENT")
    OBVIOUS
  <2>2. new = [sale |-> row.sale, bidder |-> row.bidder, rank |-> row.rank,
               status |-> "ACCEPTED", over |-> row.over, tx |-> s.tx,
               penalties |-> row.penalties, inTime |-> inTime,
               unlisted |-> row.unlisted]
    BY <1>2 DEF Offer
  <2>. QED
    BY <1>1, <2>1, <2>2 DEF Offer
<1>4. offers' = [offers EXCEPT ![s.offer] = new]
  BY <1>0, <1>1 DEF HookAccepts
<1>5. /\ offers' \in Seq(Offer)
      /\ \A k \in DOMAIN offers' : offers'[k].sale \in DOMAIN sales'
      /\ Grows
  BY <1>0, <1>1, <1>3, <1>4, OfferWrittenOK
<1>6. RowsOK'
  BY <1>0, <1>5 DEF HookAccepts, RowsOK
<1>7. Fits(s, "hold")
  BY <1>0 DEF SlotOK, Fits, Bearing, Paying
<1>8. PICK n : work' = [work EXCEPT ![h] = n] /\ SlotOK(n)
  BY <1>7, GoesOnOK DEF HookAccepts, Paying
<1>9. SlotOK(n)'
  BY <1>5, <1>8, SlotKept
<1>. QED
  BY <1>5, <1>6, <1>8, <1>9, SlotStepOK

LEMMA HoldsShapes ==
  ASSUME Shapes, NEW h \in Workers, HookHolds(h)
  PROVE  Shapes'
<1> PICK s : s = work[h]
  OBVIOUS
<1>0. SlotOK(s) /\ RowsOK /\ s.at = "hold"
  BY DEF Shapes, SlotsOK, HookHolds, Doing
<1>1. s.sale \in DOMAIN sales /\ s.bidder \in Bidders \cup {NoBidder} /\ s.tx \in Txs
  BY <1>0 DEF SlotOK, Fits, Work, Paying
<1> PICK new : new = [status |-> "ESCROW_HOLD", buyer |-> s.bidder, tx |-> s.tx]
  OBVIOUS
<1>2. new \in Settlement
  BY <1>1 DEF Settlement
<1>3. sales' = [sales EXCEPT ![s.sale] = new]
  BY DEF HookHolds
<1>4. Grows /\ RowsOK'
  BY <1>0, <1>1, <1>2, <1>3, SaleWrittenOK DEF HookHolds, RowsOK
<1>5. Fits(s, "settle")
  BY <1>0 DEF SlotOK, Fits, Bearing, Paying
<1>6. PICK n : work' = [work EXCEPT ![h] = n] /\ SlotOK(n)
  BY <1>5, GoesOnOK DEF HookHolds, Paying
<1>7. SlotOK(n)'
  BY <1>4, <1>6, SlotKept
<1>. QED
  BY <1>4, <1>6, <1>7, SlotStepOK

LEMMA HookShapes ==
  ASSUME Shapes, NEW h \in Hooks, HookStep(h)
  PROVE  Shapes'
<1> h \in Workers
  BY DEF Workers
<1> PICK s : s = work[h]
  OBVIOUS
<1>0. SlotOK(s) /\ RowsOK
  BY DEF Shapes, SlotsOK
<1>1. CASE HookSells(h)
  <2>1. RowsOK' /\ UNCHANGED <<sales, offers>>
    BY <1>0, <1>1 DEF HookSells, RowsOK
  <2>2. Fits(s, "find")
    BY <1>0, <1>1 DEF HookSells, Doing, SlotOK, Fits, Bearing, Paying
  <2>3. PICK n : work' = [work EXCEPT ![h] = n] /\ SlotOK(n)
    BY <1>1, <2>2, GoesOnOK DEF HookSells, Paying
  <2>. QED
    BY <2>1, <2>3, WorkStepOK
<1>2. CASE HookFindsSale(h)
  <2>1. RowsOK' /\ UNCHANGED <<sales, offers>>
    BY <1>0, <1>2 DEF HookFindsSale, RowsOK
  <2>. QED
    BY <1>2, <2>1, FindsSaleOK, WorkStepOK
<1>3. CASE HookFindsOffer(h)
  <2>1. RowsOK' /\ UNCHANGED <<sales, offers>>
    BY <1>0, <1>3 DEF HookFindsOffer, RowsOK
  <2>. QED
    BY <1>3, <2>1, FindsOfferOK, WorkStepOK
<1>4. CASE HookFindsNothing(h)
  <2>1. RowsOK' /\ UNCHANGED <<sales, offers>>
    BY <1>0, <1>4 DEF HookFindsNothing, RowsOK
  <2>2. work' = [work EXCEPT ![h] = NoWork]
    BY <1>4 DEF HookFindsNothing, StopsWork
  <2>. QED
    BY <2>1, <2>2, NoWorkOK, WorkStepOK
<1>5. CASE HookSettles(h)
  <2>1. s.bidder \in Bidders \cup {NoBidder}
    BY <1>0 DEF SlotOK, Work
  <2>2. RowsOK' /\ UNCHANGED <<sales, offers>>
    BY <1>0, <1>5, <2>1 DEF HookSettles, RowsOK, Auction
  <2>3. work' = [work EXCEPT ![h] = NoWork]
    BY <1>5 DEF HookSettles, StopsWork
  <2>. QED
    BY <2>2, <2>3, NoWorkOK, WorkStepOK
<1>. QED
  BY <1>1, <1>2, <1>3, <1>4, <1>5, AcceptsShapes, HoldsShapes DEF HookStep

LEMMA CallFailsShapes ==
  ASSUME Shapes, NEW h \in Workers, CallFails(h)
  PROVE  Shapes'
<1> PICK s : s = work[h]
  OBVIOUS
<1>0. SlotOK(s) /\ RowsOK
  BY DEF Shapes, SlotsOK
<1>1. failures' \in 0 .. MaxFailures /\ broken' \in BOOLEAN
  <2>1. failures' \in 0 .. MaxFailures
    BY <1>0, CascadeAssumption DEF RowsOK, CallFails
  <2>2. broken' \in BOOLEAN
    BY DEF CallFails
  <2>. QED
    BY <2>1, <2>2
<1>2. RowsOK' /\ UNCHANGED <<sales, offers>>
  BY <1>0, <1>1 DEF CallFails, RowsOK
<1>3. \E n : work' = [work EXCEPT ![h] = n] /\ SlotOK(n)
  <2>1. CASE s.at \in DOMAIN AfterError
    <3>1. PICK label : label = AfterError[s.at]
      OBVIOUS
    <3>2. GoesOnTo(h, label)
      BY <2>1, <3>1 DEF CallFails
    <3>3. Fits(s, label) /\ label \in Bearing \cup Paying \cup {"moveSale", "endAuction", "relist"}
      BY <1>0, <2>1, <3>1 DEF AfterError, SlotOK, Fits, Bearing, Paying
    <3>. QED
      BY <3>2, <3>3, GoesOnOK
  <2>2. CASE s.at \notin DOMAIN AfterError
    BY <2>2, NextOfferOK, StopsOK DEF CallFails
  <2>. QED
    BY <2>1, <2>2
<1>. QED
  BY <1>2, <1>3, WorkStepOK

LEMMA LookFailsShapes ==
  ASSUME Shapes, NEW h \in Workers, LookFails(h)
  PROVE  Shapes'
<1> PICK s : s = work[h]
  OBVIOUS
<1>0. SlotOK(s) /\ RowsOK /\ s.at = "look"
  BY DEF Shapes, SlotsOK, LookFails, Doing
<1>1. failures' \in 0 .. MaxFailures
  BY <1>0, CascadeAssumption DEF RowsOK, LookFails
<1>2. broken' \in BOOLEAN
  BY <1>0 DEF RowsOK, LookFails
<1>3. RowsOK' /\ UNCHANGED <<sales, offers>>
  BY <1>0, <1>1, <1>2 DEF LookFails, RowsOK
<1>4. \E n : work' = [work EXCEPT ![h] = n] /\ SlotOK(n)
  <2>1. CASE Chooses(h, get_next_eligible_bidder({}), TRUE)
    <3>1. Doing(h, "look") /\ get_next_eligible_bidder({}) \subseteq Bidders
      BY EligibleOK DEF LookFails
    <3>. QED
      BY <2>1, <3>1, ChoosesOK
  <2>2. CASE NextOffer(h)
    BY <2>2, NextOfferOK
  <2>3. CASE GoesOnTo(h, "cancelSale")
    <3>1. Fits(s, "cancelSale")
      BY <1>0 DEF SlotOK, Fits, Bearing, Paying
    <3>. QED
      BY <2>3, <3>1, GoesOnOK DEF Bearing
  <2>. QED
    BY <2>1, <2>2, <2>3 DEF LookFails
<1>. QED
  BY <1>3, <1>4, WorkStepOK

LEMMA DiesShapes ==
  ASSUME Shapes, NEW h \in Workers, Dies(h)
  PROVE  Shapes'
<1>1. failures' \in 0 .. MaxFailures
  BY CascadeAssumption DEF Shapes, RowsOK, Dies
<1>2. RowsOK' /\ UNCHANGED <<sales, offers>>
  BY <1>1 DEF Shapes, RowsOK, Dies
<1>3. work' = [work EXCEPT ![h] = NoWork]
  BY DEF Dies, StopsWork
<1>. QED
  BY <1>2, <1>3, NoWorkOK, WorkStepOK

LEMMA ShapesNext == Shapes /\ [CascadeNext]_cascadeVars => Shapes'
<1> SUFFICES ASSUME Shapes, [CascadeNext]_cascadeVars PROVE Shapes'
  OBVIOUS
<1>1. CASE CascadeNext
  <2>1. \A c \in Checkers : c \in Workers
    BY DEF Workers
  <2>. QED
    BY <1>1, <2>1, SettleShapes, CheckShapes, WindowShapes, PayShapes, DeliveryShapes,
       HookShapes, LookFailsShapes, CallFailsShapes, DiesShapes DEF CascadeNext
<1>2. CASE UNCHANGED cascadeVars
  <2>1. RowsOK' /\ UNCHANGED <<sales, offers, work>>
    BY <1>2 DEF cascadeVars, Shapes, RowsOK
  <2>. QED
    BY <2>1, RowsStay, SlotsSame DEF Shapes
<1>. QED
  BY <1>1, <1>2

LEMMA ShapesAlways == CascadeSpec => []Shapes
BY ShapesInit, ShapesNext, PTL DEF CascadeSpec

-----------------------------------------------------------------------------
(* The handler bears no offer that it did not.                             *)
Sheds(s, new) ==
    /\ \A j : Bears(new, j) => Bears(s, j)
    /\ \A j : ToPenalise(new, j) => ToPenalise(s, j)

(* The handler takes nothing upon it: no offer to bear or to insert, and   *)
(* no payment that it did not handle.                                      *)
Lighter(s, new) ==
    /\ Sheds(s, new)
    /\ new.at \notin {"insertOffer", "offerNext"}
    /\ new.at \in Paying => s.at \in Paying /\ new.tx = s.tx

Lightens(h) == \E new : work' = [work EXCEPT ![h] = new] /\ Lighter(work[h], new)

LEMMA StopLightens ==
  ASSUME NEW h, StopsWork(h)
  PROVE  Lightens(h)
<1>1. \A s : Lighter(s, NoWork)
  BY DEF Lighter, Sheds, NoWork, Bears, ToPenalise, Bearing, Paying
<1>. QED
  BY <1>1 DEF Lightens, StopsWork

LEMMA NextOfferLightens ==
  ASSUME NEW h, NextOffer(h)
  PROVE  Lightens(h)
<1> PICK s : s = work[h]
  OBVIOUS
<1>1. CASE s.todo = {}
  BY <1>1, StopLightens DEF NextOffer
<1>2. CASE s.todo # {}
  <2>1. PICK j \in s.todo :
            work' = [work EXCEPT ![h] = [NoWork EXCEPT !.at = "penalise",
                                                       !.todo = s.todo \ {j},
                                                       !.offer = j,
                                                       !.sale = offers[j].sale]]
    BY <1>2 DEF NextOffer
  <2> PICK new : new = [NoWork EXCEPT !.at = "penalise", !.todo = s.todo \ {j},
                                      !.offer = j, !.sale = offers[j].sale]
    OBVIOUS
  <2>2. new.at = "penalise" /\ new.todo = s.todo \ {j} /\ new.offer = j
    BY DEF NoWork
  <2>3. Lighter(s, new)
    BY <2>2 DEF Lighter, Sheds, Bears, ToPenalise, Paying
  <2>. QED
    BY <2>1, <2>3 DEF Lightens
<1>. QED
  BY <1>1, <1>2

LEMMA GoOnLightens ==
  ASSUME SlotsOK, NEW h \in Workers, NEW label, GoesOnTo(h, label),
         label \notin {"insertOffer", "offerNext", "penalise"},
         label \in Bearing => work[h].at \in Bearing,
         label \in Paying => work[h].at \in Paying
  PROVE  Lightens(h)
<1> PICK s : s = work[h]
  OBVIOUS
<1> PICK new : new = [s EXCEPT !.at = label]
  OBVIOUS
<1>1. new.at = label /\ new.todo = s.todo /\ new.offer = s.offer /\ new.tx = s.tx
  BY DEF SlotsOK, SlotOK, Work
<1>2. Lighter(s, new)
  BY <1>1 DEF Lighter, Sheds, Bears, ToPenalise
<1>3. work' = [work EXCEPT ![h] = new]
  BY DEF GoesOnTo, SlotsOK
<1>. QED
  BY <1>2, <1>3 DEF Lightens

(* All the steps of a handler but those that take something upon it.       *)
LEMMA SettleLightens ==
  ASSUME Shapes, NEW h \in Settlers, SettleStep(h)
  PROVE  \/ Lightens(h)
         \/ SettleInsertsSale(h) /\ work[h].bidder # NoBidder
<1>1. CASE SettleReads(h)
  <2> PICK new : new = [NoWork EXCEPT !.at = "insertSale", !.bidder = auction.winner]
    OBVIOUS
  <2>1. new.at = "insertSale" /\ new.todo = {}
    BY DEF NoWork
  <2>2. Lighter(work[h], new)
    BY <2>1 DEF Lighter, Sheds, Bears, ToPenalise, Bearing, Paying
  <2>. QED
    BY <1>1, <2>2 DEF Lightens, SettleReads
<1>2. CASE SettleInsertsSale(h)
  BY <1>2, StopLightens DEF SettleInsertsSale
<1>3. CASE SettleInsertsOffer(h)
  BY <1>3, StopLightens DEF SettleInsertsOffer
<1>. QED
  BY <1>1, <1>2, <1>3 DEF SettleStep

Choosing(h, unlisted) ==
    \E next : /\ next \subseteq Bidders
              /\ ~unlisted => next \cap Asked(work[h].sale) = {}
              /\ next # {}
              /\ Chooses(h, next, unlisted)

LEMMA CheckLightens ==
  ASSUME Shapes, NEW h \in Checkers, CheckStep(h)
  PROVE  \/ Lightens(h)
         \/ ClaimsExpired(h)
         \/ LooksForNext(h) /\ Choosing(h, FALSE)
<1> h \in Workers /\ SlotsOK
  BY DEF Workers, Shapes
<1>1. CASE apply_payment_penalty(h)
  <2>1. work[h].at = "penalise" /\ GoesOnTo(h, "look")
    BY <1>1 DEF apply_payment_penalty, Doing
  <2>. QED
    BY <2>1, GoOnLightens DEF Bearing, Paying
<1>2. CASE LooksForNext(h)
  <2> PICK next : next = get_next_eligible_bidder(Asked(work[h].sale))
    OBVIOUS
  <2>1. next \subseteq Bidders \ Asked(work[h].sale)
    BY EligibleOK
  <2>2. Chooses(h, next, FALSE) /\ work[h].at = "look"
    BY <1>2 DEF LooksForNext, Doing
  <2>3. CASE next = {}
    <3>1. GoesOnTo(h, "cancelSale")
      BY <2>2, <2>3 DEF Chooses
    <3>. QED
      BY <2>2, <3>1, GoOnLightens DEF Bearing, Paying
  <2>4. CASE next # {}
    BY <1>2, <2>1, <2>2, <2>4 DEF Choosing
  <2>. QED
    BY <2>3, <2>4
<1>3. CASE OffersToNext(h)
  <2>1. CASE NextOffer(h)
    BY <2>1, NextOfferLightens
  <2>2. CASE GoesOnTo(h, "moveSale")
    BY <2>2, GoOnLightens DEF Bearing, Paying
  <2>. QED
    BY <1>3, <2>1, <2>2 DEF OffersToNext
<1>4. CASE MovesSale(h)
  BY <1>4, NextOfferLightens DEF MovesSale
<1>5. CASE CancelsSale(h)
  <2>1. GoesOnTo(h, "endAuction")
    BY <1>5 DEF CancelsSale
  <2>. QED
    BY <2>1, GoOnLightens DEF Bearing, Paying
<1>6. CASE EndsAuction(h)
  <2>1. GoesOnTo(h, "relist")
    BY <1>6 DEF EndsAuction
  <2>. QED
    BY <2>1, GoOnLightens DEF Bearing, Paying
<1>7. CASE Relists(h)
  BY <1>7, NextOfferLightens DEF Relists
<1>. QED
  BY <1>1, <1>2, <1>3, <1>4, <1>5, <1>6, <1>7 DEF CheckStep, CascadeStep

LEMMA HookLightens ==
  ASSUME Shapes, NEW h \in Hooks, HookStep(h)
  PROVE  Lightens(h)
<1> h \in Workers /\ SlotsOK
  BY DEF Workers, Shapes
<1> PICK s : s = work[h]
  OBVIOUS
<1>1. ASSUME NEW label \in Paying, s.at \in Paying, GoesOnTo(h, label)
      PROVE  Lightens(h)
  BY <1>1, GoOnLightens DEF Bearing, Paying
<1>2. CASE HookSells(h)
  <2>1. s.at \in Paying /\ GoesOnTo(h, "find") /\ "find" \in Paying
    BY <1>2 DEF HookSells, Doing, Paying
  <2>. QED
    BY <1>1, <2>1
<1>3. CASE HookFindsSale(h)
  <2>1. PICK i : work' = [work EXCEPT ![h].at = "findOffer", ![h].sale = i]
    BY <1>3 DEF HookFindsSale
  <2> PICK new : new = [s EXCEPT !.at = "findOffer", !.sale = i]
    OBVIOUS
  <2>2. new.at = "findOffer" /\ new.todo = s.todo /\ new.tx = s.tx /\ s.at = "find"
    BY <1>3 DEF SlotsOK, SlotOK, Work, HookFindsSale, Doing
  <2>3. Lighter(s, new)
    BY <2>2 DEF Lighter, Sheds, Bears, ToPenalise, Bearing, Paying
  <2>4. work' = [work EXCEPT ![h] = new]
    BY <2>1 DEF SlotsOK
  <2>. QED
    BY <2>3, <2>4 DEF Lightens
<1>4. CASE HookFindsOffer(h)
  <2>1. PICK j : work' = [work EXCEPT ![h].at = "accept", ![h].offer = j,
                                      ![h].bidder = offers[j].bidder]
    BY <1>4 DEF HookFindsOffer
  <2> PICK new : new = [s EXCEPT !.at = "accept", !.offer = j, !.bidder = offers[j].bidder]
    OBVIOUS
  <2>2. new.at = "accept" /\ new.todo = s.todo /\ new.tx = s.tx /\ s.at = "findOffer"
    BY <1>4 DEF SlotsOK, SlotOK, Work, HookFindsOffer, Doing
  <2>3. Lighter(s, new)
    BY <2>2 DEF Lighter, Sheds, Bears, ToPenalise, Bearing, Paying
  <2>4. work' = [work EXCEPT ![h] = new]
    BY <2>1 DEF SlotsOK
  <2>. QED
    BY <2>3, <2>4 DEF Lightens
<1>5. CASE HookFindsNothing(h)
  BY <1>5, StopLightens DEF HookFindsNothing
<1>6. CASE HookAccepts(h)
  <2>1. s.at \in Paying /\ GoesOnTo(h, "hold") /\ "hold" \in Paying
    BY <1>6 DEF HookAccepts, Doing, Paying
  <2>. QED
    BY <1>1, <2>1
<1>7. CASE HookHolds(h)
  <2>1. s.at \in Paying /\ GoesOnTo(h, "settle") /\ "settle" \in Paying
    BY <1>7 DEF HookHolds, Doing, Paying
  <2>. QED
    BY <1>1, <2>1
<1>8. CASE HookSettles(h)
  BY <1>8, StopLightens DEF HookSettles
<1>. QED
  BY <1>2, <1>3, <1>4, <1>5, <1>6, <1>7, <1>8 DEF HookStep

LEMMA FailuresLighten ==
  ASSUME Shapes, NEW h \in Workers, CallFails(h) \/ LookFails(h) \/ Dies(h)
  PROVE  \/ Lightens(h)
         \/ LookFails(h) /\ Choosing(h, TRUE)
<1> SlotsOK
  BY DEF Shapes
<1>1. CASE CallFails(h)
  <2>1. CASE work[h].at \in DOMAIN AfterError
    <3>1. PICK label : label = AfterError[work[h].at]
      OBVIOUS
    <3>2. GoesOnTo(h, label)
      BY <1>1, <2>1, <3>1 DEF CallFails
    <3>3. /\ label \notin {"insertOffer", "offerNext", "penalise"}
          /\ label \in Bearing => work[h].at \in Bearing
          /\ label \in Paying => work[h].at \in Paying
      BY <2>1, <3>1 DEF AfterError, Bearing, Paying
    <3>. QED
      BY <3>2, <3>3, GoOnLightens
  <2>2. CASE work[h].at \notin DOMAIN AfterError
    BY <1>1, <2>2, NextOfferLightens, StopLightens DEF CallFails
  <2>. QED
    BY <2>1, <2>2
<1>2. CASE LookFails(h)
  <2> PICK next : next = get_next_eligible_bidder({})
    OBVIOUS
  <2>0. next \subseteq Bidders /\ work[h].at = "look"
    BY <1>2, EligibleOK DEF LookFails, Doing
  <2>1. ASSUME GoesOnTo(h, "cancelSale") PROVE Lightens(h)
    BY <2>0, <2>1, GoOnLightens DEF Bearing, Paying
  <2>2. CASE Chooses(h, next, TRUE) /\ next = {}
    BY <2>1, <2>2 DEF Chooses
  <2>3. CASE Chooses(h, next, TRUE) /\ next # {}
    BY <1>2, <2>0, <2>3 DEF Choosing
  <2>4. CASE NextOffer(h)
    BY <2>4, NextOfferLightens
  <2>. QED
    BY <1>2, <2>1, <2>2, <2>3, <2>4 DEF LookFails
<1>3. CASE Dies(h)
  BY <1>3, StopLightens DEF Dies
<1>. QED
  BY <1>1, <1>2, <1>3

-----------------------------------------------------------------------------
(* What a step may do to the payments.                                     *)

LEMMA ChargesStay ==
  ASSUME Shapes, [CascadeNext]_cascadeVars, NEW t \in Txs, txs[t].charged
  PROVE  txs'[t].charged
<1>0. txs \in [Txs -> Tx]
  BY DEF Shapes, RowsOK
<1>1. ASSUME NEW u \in Txs, PayStep(u) PROVE txs'[t].charged
  <2>1. CASE StartsPayment(u)
    BY <1>0, <2>1 DEF StartsPayment, Tx
  <2>2. CASE ProcessorTakes(u)
    BY <1>0, <2>2 DEF ProcessorTakes, Tx
  <2>3. CASE ProcessorDefers(u)
    BY <1>0, <2>3 DEF ProcessorDefers, Tx
  <2>4. CASE ProcessorDeclines(u)
    BY <1>0, <2>4 DEF ProcessorDeclines, Tx
  <2>5. CASE BuyerCompletes(u)
    BY <1>0, <2>5 DEF BuyerCompletes, Tx
  <2>6. CASE RecordsPayment(u)
    <3>1. PICK status : txs' = [txs EXCEPT ![u].status = status, ![u].pay = "done"]
      BY <2>6 DEF RecordsPayment
    <3>. QED
      BY <1>0, <3>1 DEF Tx
  <2>. QED
    BY <1>1, <2>1, <2>2, <2>3, <2>4, <2>5, <2>6 DEF PayStep
<1>2. ASSUME NEW u \in Txs, HookRecordsRefusal(u) PROVE txs'[t].charged
  BY <1>0, <1>2 DEF HookRecordsRefusal, Tx
<1>3. ASSUME NEW u \in Txs, PaymentDies(u) PROVE txs'[t].charged
  BY <1>0, <1>3 DEF PaymentDies, Tx
<1>4. ASSUME NEW h \in Hooks, NEW u \in Txs, HookRecordsPayment(h, u) PROVE txs'[t].charged
  BY <1>0, <1>4 DEF HookRecordsPayment, Tx
<1>5. ASSUME UNCHANGED txs PROVE txs'[t].charged
  BY <1>5
<1>6. ASSUME NEW s \in Settlers, SettleStep(s) PROVE UNCHANGED txs
  BY <1>6 DEF SettleStep, SettleReads, SettleInsertsSale, SettleInsertsOffer
<1>7. ASSUME NEW c \in Checkers, CheckStep(c) PROVE UNCHANGED txs
  BY <1>7 DEF CheckStep, CascadeStep, ClaimsExpired, apply_payment_penalty, LooksForNext,
     OffersToNext, MovesSale, CancelsSale, EndsAuction, Relists
<1>8. ASSUME NEW h \in Hooks, HookStep(h) PROVE UNCHANGED txs
  BY <1>8 DEF HookStep, HookSells, HookFindsSale, HookFindsOffer, HookFindsNothing,
     HookAccepts, HookHolds, HookSettles
<1>9. ASSUME NEW h, CallFails(h) \/ Dies(h) \/ LookFails(h) PROVE UNCHANGED txs
  BY <1>9 DEF CallFails, Dies, LookFails
<1>. QED
  BY <1>1, <1>2, <1>3, <1>4, <1>5, <1>6, <1>7, <1>8, <1>9 DEF CascadeNext, cascadeVars,
     WindowPasses

(* A handler handles the payment it did, or begins with one that is        *)
(* charged.                                                                *)
LEMMA PaymentsHandled ==
  ASSUME Shapes, [CascadeNext]_cascadeVars, NEW g \in Workers, work'[g].at \in Paying
  PROVE  \/ work[g].at \in Paying /\ work'[g].tx = work[g].tx
         \/ txs[work'[g].tx].charged
<1>0. SlotsOK
  BY DEF Shapes
<1> DEFINE Goal == \/ work[g].at \in Paying /\ work'[g].tx = work[g].tx
                   \/ txs[work'[g].tx].charged
<1> SUFFICES Goal
  OBVIOUS
<1>1. ASSUME NEW h \in Workers, Lightens(h) PROVE Goal
  <2>1. PICK new : work' = [work EXCEPT ![h] = new] /\ Lighter(work[h], new)
    BY <1>1 DEF Lightens
  <2>2. CASE g = h
    BY <1>0, <2>1, <2>2 DEF Lighter, SlotsOK
  <2>3. CASE g # h
    BY <1>0, <2>1, <2>3 DEF SlotsOK
  <2>. QED
    BY <2>2, <2>3
<1>2. ASSUME NEW h \in Workers, NEW label, label \notin Paying, NEW s, s.at = label,
             work' = [work EXCEPT ![h] = s]
      PROVE  Goal
  BY <1>0, <1>2 DEF SlotsOK
<1>3. ASSUME NEW h \in Workers, SettleInsertsSale(h), work[h].bidder # NoBidder PROVE Goal
  <2> PICK new : new = [work[h] EXCEPT !.at = "insertOffer", !.sale = Len(sales) + 1]
    OBVIOUS
  <2>1. work' = [work EXCEPT ![h] = new]
    BY <1>0, <1>3 DEF SettleInsertsSale, SlotsOK
  <2>2. new.at = "insertOffer"
    BY <1>0 DEF SlotsOK, Work
  <2>. QED
    BY <1>2, <2>1, <2>2 DEF Paying
<1>4. ASSUME NEW h \in Workers, ClaimsExpired(h) PROVE Goal
  <2>1. PICK j : work' = [work EXCEPT ![h] = [NoWork EXCEPT !.at = "penalise",
                                                            !.todo = Expired \ {j},
                                                            !.offer = j,
                                                            !.sale = offers[j].sale]]
    BY <1>4 DEF ClaimsExpired
  <2> PICK new : new = [NoWork EXCEPT !.at = "penalise", !.todo = Expired \ {j},
                                      !.offer = j, !.sale = offers[j].sale]
    OBVIOUS
  <2>2. new.at = "penalise"
    BY DEF NoWork
  <2>. QED
    BY <1>2, <2>1, <2>2 DEF Paying
<1>5. ASSUME NEW h \in Workers, NEW unlisted, Choosing(h, unlisted) PROVE Goal
  <2>1. PICK b : work' = [work EXCEPT ![h].at = "offerNext", ![h].bidder = b,
                                      ![h].unlisted = unlisted]
    BY <1>5 DEF Choosing, Chooses
  <2> PICK new : new = [work[h] EXCEPT !.at = "offerNext", !.bidder = b,
                                       !.unlisted = unlisted]
    OBVIOUS
  <2>2. work' = [work EXCEPT ![h] = new]
    BY <1>0, <2>1 DEF SlotsOK
  <2>3. new.at = "offerNext"
    BY <1>0 DEF SlotsOK, Work
  <2>. QED
    BY <1>2, <2>2, <2>3 DEF Paying
<1>6. ASSUME NEW h \in Hooks, NEW t \in Txs, HookRecordsPayment(h, t) PROVE Goal
  <2>1. work' = [work EXCEPT ![h] = [NoWork EXCEPT !.at = "sell", !.tx = t]]
        /\ txs[t].charged /\ h \in Workers
    BY <1>6 DEF HookRecordsPayment, Workers
  <2> PICK new : new = [NoWork EXCEPT !.at = "sell", !.tx = t]
    OBVIOUS
  <2>2. new.tx = t
    BY DEF NoWork
  <2>3. CASE g = h
    BY <1>0, <2>1, <2>2, <2>3 DEF SlotsOK
  <2>4. CASE g # h
    BY <1>0, <2>1, <2>4 DEF SlotsOK
  <2>. QED
    BY <2>3, <2>4
<1>7. ASSUME UNCHANGED work PROVE Goal
  BY <1>7
<1>8. ASSUME NEW s \in Settlers, SettleStep(s) PROVE Goal
  BY <1>1, <1>3, <1>8, SettleLightens DEF Workers
<1>9. ASSUME NEW c \in Checkers, CheckStep(c) PROVE Goal
  BY <1>1, <1>4, <1>5, <1>9, CheckLightens DEF Workers
<1>10. ASSUME NEW h \in Hooks, HookStep(h) PROVE Goal
  BY <1>1, <1>10, HookLightens DEF Workers
<1>11. ASSUME NEW h \in Workers, CallFails(h) \/ LookFails(h) \/ Dies(h) PROVE Goal
  BY <1>1, <1>5, <1>11, FailuresLighten
<1>12. ASSUME NEW t \in Txs, PayStep(t) \/ HookRecordsRefusal(t) \/ PaymentDies(t)
       PROVE  UNCHANGED work
  BY <1>12 DEF PayStep, StartsPayment, ProcessorTakes, ProcessorDefers, ProcessorDeclines,
     BuyerCompletes, RecordsPayment, HookRecordsRefusal, PaymentDies
<1>13. ASSUME NEW j \in DOMAIN offers, WindowPasses(j) PROVE UNCHANGED work
  BY <1>13 DEF WindowPasses
<1>14. \A c \in Checkers : c \in Workers
  BY DEF Workers
<1>15. CASE UNCHANGED cascadeVars
  BY <1>7, <1>15 DEF cascadeVars
<1> HIDE DEF Goal
<1>16. CASE CascadeNext
  <2>1. \/ UNCHANGED work
        \/ \E h \in Hooks, t \in Txs : HookRecordsPayment(h, t)
        \/ \E s \in Settlers : SettleStep(s)
        \/ \E c \in Checkers : CheckStep(c)
        \/ \E h \in Hooks : HookStep(h)
        \/ \E h \in Workers : CallFails(h) \/ LookFails(h) \/ Dies(h)
    BY <1>12, <1>13, <1>14, <1>16, Zenon DEF CascadeNext
  <2>. QED
    BY <1>6, <1>7, <1>8, <1>9, <1>10, <1>11, <2>1, Zenon
<1>. QED
  BY <1>15, <1>16

LEMMA SalesWriters ==
  ASSUME [CascadeNext]_cascadeVars
  PROVE  \/ UNCHANGED sales
         \/ \E h \in Workers : \/ SettleInsertsSale(h) \/ MovesSale(h)
                               \/ CancelsSale(h) \/ HookHolds(h)
<1>0. /\ \A s \in Settlers : s \in Workers
      /\ \A c \in Checkers : c \in Workers
      /\ \A h \in Hooks : h \in Workers
  BY DEF Workers
<1>1. ASSUME NEW s \in Settlers, SettleStep(s)
      PROVE  UNCHANGED sales \/ SettleInsertsSale(s)
  BY <1>1 DEF SettleStep, SettleReads, SettleInsertsOffer
<1>2. ASSUME NEW c \in Checkers, CheckStep(c)
      PROVE  UNCHANGED sales \/ MovesSale(c) \/ CancelsSale(c)
  BY <1>2 DEF CheckStep, CascadeStep, ClaimsExpired, apply_payment_penalty, LooksForNext, OffersToNext,
     EndsAuction, Relists
<1>3. ASSUME NEW h \in Hooks, HookStep(h)
      PROVE  UNCHANGED sales \/ HookHolds(h)
  BY <1>3 DEF HookStep, HookSells, HookFindsSale, HookFindsOffer, HookFindsNothing,
     HookAccepts, HookSettles
<1>4. ASSUME NEW h, CallFails(h) \/ Dies(h) \/ LookFails(h) PROVE UNCHANGED sales
  BY <1>4 DEF CallFails, Dies, LookFails
<1>5. ASSUME NEW t \in Txs, PayStep(t) \/ HookRecordsRefusal(t) \/ PaymentDies(t)
      PROVE  UNCHANGED sales
  BY <1>5 DEF PayStep, StartsPayment, ProcessorTakes, ProcessorDefers, ProcessorDeclines,
     BuyerCompletes, RecordsPayment, HookRecordsRefusal, PaymentDies
<1>6. ASSUME NEW h, NEW t, HookRecordsPayment(h, t) PROVE UNCHANGED sales
  BY <1>6 DEF HookRecordsPayment
<1>7. ASSUME NEW j, WindowPasses(j) PROVE UNCHANGED sales
  BY <1>7 DEF WindowPasses
<1>8. CASE UNCHANGED cascadeVars
  BY <1>8 DEF cascadeVars
<1>9. CASE CascadeNext
  BY <1>0, <1>1, <1>2, <1>3, <1>4, <1>5, <1>6, <1>7, <1>9, Zenon DEF CascadeNext
<1>. QED
  BY <1>8, <1>9

LEMMA OffersWriters ==
  ASSUME [CascadeNext]_cascadeVars
  PROVE  \/ UNCHANGED offers
         \/ \E h \in Workers : \/ SettleInsertsOffer(h) \/ apply_payment_penalty(h)
                               \/ OffersToNext(h) \/ HookAccepts(h)
         \/ \E c \in Checkers : ClaimsExpired(c)
         \/ \E j \in DOMAIN offers : WindowPasses(j)
<1>0. /\ \A s \in Settlers : s \in Workers
      /\ \A c \in Checkers : c \in Workers
      /\ \A h \in Hooks : h \in Workers
  BY DEF Workers
<1>1. ASSUME NEW s \in Settlers, SettleStep(s)
      PROVE  UNCHANGED offers \/ SettleInsertsOffer(s)
  BY <1>1 DEF SettleStep, SettleReads, SettleInsertsSale
<1>2. ASSUME NEW c \in Checkers, CheckStep(c)
      PROVE  UNCHANGED offers \/ ClaimsExpired(c) \/ apply_payment_penalty(c) \/ OffersToNext(c)
  BY <1>2 DEF CheckStep, CascadeStep, LooksForNext, MovesSale, CancelsSale, EndsAuction, Relists
<1>3. ASSUME NEW h \in Hooks, HookStep(h)
      PROVE  UNCHANGED offers \/ HookAccepts(h)
  BY <1>3 DEF HookStep, HookSells, HookFindsSale, HookFindsOffer, HookFindsNothing,
     HookHolds, HookSettles
<1>4. ASSUME NEW h, CallFails(h) \/ Dies(h) \/ LookFails(h) PROVE UNCHANGED offers
  BY <1>4 DEF CallFails, Dies, LookFails
<1>5. ASSUME NEW t \in Txs, PayStep(t) \/ HookRecordsRefusal(t) \/ PaymentDies(t)
      PROVE  UNCHANGED offers
  BY <1>5 DEF PayStep, StartsPayment, ProcessorTakes, ProcessorDefers, ProcessorDeclines,
     BuyerCompletes, RecordsPayment, HookRecordsRefusal, PaymentDies
<1>6. ASSUME NEW h, NEW t, HookRecordsPayment(h, t) PROVE UNCHANGED offers
  BY <1>6 DEF HookRecordsPayment
<1>7. CASE UNCHANGED cascadeVars
  BY <1>7 DEF cascadeVars
<1>8. CASE CascadeNext
  BY <1>0, <1>1, <1>2, <1>3, <1>4, <1>5, <1>6, <1>8, Zenon DEF CascadeNext
<1>. QED
  BY <1>7, <1>8

(* Only a delivery at its hold puts a settlement in escrow.                *)
LEMMA HeldByHook ==
  ASSUME Shapes, [CascadeNext]_cascadeVars, NEW i \in DOMAIN sales',
         sales'[i].status = "ESCROW_HOLD"
  PROVE  \/ /\ i \in DOMAIN sales
            /\ sales[i].status = "ESCROW_HOLD"
            /\ sales'[i].tx = sales[i].tx
         \/ \E h \in Workers : work[h].at = "hold" /\ sales'[i].tx = work[h].tx
<1>0. sales \in Seq(Settlement) /\ \A k \in DOMAIN sales : sales[k] \in Settlement
  BY DEF Shapes, RowsOK
<1>1. ASSUME NEW h \in Workers, SettleInsertsSale(h)
      PROVE  i \in DOMAIN sales /\ sales'[i] = sales[i]
  <2>1. PICK row : sales' = Append(sales, row) /\ row.status # "ESCROW_HOLD"
    BY <1>1 DEF SettleInsertsSale
  <2>2. DOMAIN sales' = 1 .. Len(sales) + 1 /\ DOMAIN sales = 1 .. Len(sales)
        /\ Len(sales) \in Nat /\ sales'[Len(sales) + 1] = row
    BY <1>0, <2>1
  <2>. QED
    BY <1>0, <2>1, <2>2
<1>2. ASSUME NEW h \in Workers, MovesSale(h) \/ CancelsSale(h)
      PROVE  /\ i \in DOMAIN sales
             /\ sales'[i].status = sales[i].status
             /\ sales'[i].tx = sales[i].tx
  BY <1>0, <1>2 DEF MovesSale, CancelsSale, Settlement
<1>3. ASSUME NEW h \in Workers, HookHolds(h)
      PROVE  \/ i \in DOMAIN sales /\ sales'[i] = sales[i]
             \/ work[h].at = "hold" /\ sales'[i].tx = work[h].tx
  BY <1>0, <1>3 DEF HookHolds, Doing
<1>4. CASE UNCHANGED sales
  BY <1>4
<1>. QED
  BY <1>1, <1>2, <1>3, <1>4, SalesWriters

(* Only a run that cancels takes a settlement out of escrow.               *)
LEMMA HeldTillCancelled ==
  ASSUME Shapes, [CascadeNext]_cascadeVars, NEW i \in DOMAIN sales,
         sales[i].status = "ESCROW_HOLD", sales'[i].status # "ESCROW_HOLD"
  PROVE  \E c \in Workers : work[c].at = "cancelSale" /\ work[c].sale = i
<1>0. sales \in Seq(Settlement) /\ \A k \in DOMAIN sales : sales[k] \in Settlement
  BY DEF Shapes, RowsOK
<1>1. ASSUME NEW h \in Workers, SettleInsertsSale(h) PROVE FALSE
  <2>1. PICK row : sales' = Append(sales, row)
    BY <1>1 DEF SettleInsertsSale
  <2>. QED
    BY <1>0, <2>1
<1>2. ASSUME NEW h \in Workers, MovesSale(h) PROVE FALSE
  BY <1>0, <1>2 DEF MovesSale, Settlement
<1>3. ASSUME NEW h \in Workers, CancelsSale(h)
      PROVE  work[h].at = "cancelSale" /\ work[h].sale = i
  BY <1>0, <1>3 DEF CancelsSale, Doing, Settlement
<1>4. ASSUME NEW h \in Workers, HookHolds(h) PROVE FALSE
  BY <1>0, <1>4 DEF HookHolds
<1>5. CASE UNCHANGED sales
  BY <1>5
<1>. QED
  BY <1>1, <1>2, <1>3, <1>4, <1>5, SalesWriters

(* Only a delivery at its accept makes an offer accepted.                  *)
LEMMA AcceptedByHook ==
  ASSUME Shapes, [CascadeNext]_cascadeVars, NEW j \in DOMAIN offers',
         offers'[j].status = "ACCEPTED"
  PROVE  \/ /\ j \in DOMAIN offers
            /\ offers[j].status = "ACCEPTED"
            /\ offers'[j].tx = offers[j].tx
         \/ \E h \in Workers : work[h].at = "accept" /\ offers'[j].tx = work[h].tx
<1>0. offers \in Seq(Offer) /\ \A k \in DOMAIN offers : offers[k] \in Offer
  BY DEF Shapes, RowsOK
<1> DEFINE Goal == \/ /\ j \in DOMAIN offers
                      /\ offers[j].status = "ACCEPTED"
                      /\ offers'[j].tx = offers[j].tx
                   \/ \E h \in Workers : work[h].at = "accept" /\ offers'[j].tx = work[h].tx
<1> SUFFICES Goal
  OBVIOUS
<1>1. ASSUME NEW row, offers' = Append(offers, row), row.status # "ACCEPTED" PROVE Goal
  <2>1. DOMAIN offers' = 1 .. Len(offers) + 1 /\ DOMAIN offers = 1 .. Len(offers)
        /\ Len(offers) \in Nat /\ offers'[Len(offers) + 1] = row
    BY <1>0, <1>1
  <2>2. j \in DOMAIN offers /\ offers'[j] = offers[j]
    BY <1>0, <1>1, <2>1
  <2>. QED
    BY <2>2
<1>2. ASSUME NEW h \in Workers, SettleInsertsOffer(h) PROVE Goal
  <2>1. \E row : offers' = Append(offers, row) /\ row.status # "ACCEPTED"
    BY <1>2 DEF SettleInsertsOffer, NewOffer
  <2>. QED
    BY <1>1, <2>1
<1>3. ASSUME NEW h \in Workers, OffersToNext(h) PROVE Goal
  <2>1. UNCHANGED offers \/ \E row : offers' = Append(offers, row) /\ row.status # "ACCEPTED"
    BY <1>3 DEF OffersToNext, NewOffer
  <2>. QED
    BY <1>1, <2>1
<1>4. ASSUME NEW h \in Checkers, ClaimsExpired(h) PROVE Goal
  <2>1. DOMAIN offers' = DOMAIN offers
        /\ (offers'[j] = offers[j] \/ offers'[j] = [offers[j] EXCEPT !.status = "EXPIRED"])
    BY <1>4 DEF ClaimsExpired
  <2>2. offers'[j] # [offers[j] EXCEPT !.status = "EXPIRED"]
    BY <1>0, <2>1 DEF Offer
  <2>. QED
    BY <2>1, <2>2
<1>5. ASSUME NEW h \in Workers, apply_payment_penalty(h) PROVE Goal
  BY <1>0, <1>5 DEF apply_payment_penalty, Offer
<1>6. ASSUME NEW h \in Workers, HookAccepts(h) PROVE Goal
  <2>1. DOMAIN offers' = DOMAIN offers
    BY <1>6 DEF HookAccepts
  <2>2. CASE j = work[h].offer
    <3>1. work[h].at = "accept" /\ offers'[j].tx = work[h].tx
      BY <1>0, <1>6, <2>1, <2>2 DEF HookAccepts, Doing, Offer
    <3>. QED
      BY <3>1
  <2>3. CASE j # work[h].offer
    BY <1>6, <2>1, <2>3 DEF HookAccepts
  <2>. QED
    BY <2>2, <2>3
<1>7. ASSUME NEW k \in DOMAIN offers, WindowPasses(k) PROVE Goal
  BY <1>0, <1>7 DEF WindowPasses, Offer
<1>8. CASE UNCHANGED offers
  BY <1>8
<1> HIDE DEF Goal
<1>. QED
  BY <1>2, <1>3, <1>4, <1>5, <1>6, <1>7, <1>8, OffersWriters

ChargedIInv ==
    /\ \A h \in Workers : work[h].at \in Paying => txs[work[h].tx].charged
    /\ HeldIsCharged

LEMMA ChargedInit == CascadeInit => ChargedIInv
<1> SUFFICES ASSUME CascadeInit PROVE ChargedIInv
  OBVIOUS
<1>1. \A h \in Workers : work[h].at = "idle"
  BY DEF CascadeInit, NoWork
<1>2. DOMAIN sales = {} /\ DOMAIN offers = {}
  BY DEF CascadeInit
<1>. QED
  BY <1>1, <1>2 DEF ChargedIInv, HeldIsCharged, Paying

LEMMA ChargedNext ==
  Shapes /\ ChargedIInv /\ [CascadeNext]_cascadeVars => ChargedIInv'
<1> SUFFICES ASSUME Shapes, ChargedIInv, [CascadeNext]_cascadeVars PROVE ChargedIInv'
  OBVIOUS
<1>1. Shapes'
  BY ShapesNext
<1>2. ASSUME NEW h \in Workers, work[h].at \in Paying
      PROVE  work[h].tx \in Txs /\ txs[work[h].tx].charged /\ txs'[work[h].tx].charged
  <2>1. work[h].tx \in Txs
    BY <1>2 DEF Shapes, SlotsOK, SlotOK, Fits
  <2>2. txs[work[h].tx].charged
    BY <1>2 DEF ChargedIInv
  <2>. QED
    BY <2>1, <2>2, ChargesStay
<1>3. ASSUME NEW h \in Workers, work'[h].at \in Paying
      PROVE  txs'[work'[h].tx].charged
  <2>1. work'[h].tx \in Txs
    BY <1>1, <1>3 DEF Shapes, SlotsOK, SlotOK, Fits
  <2>2. txs[work'[h].tx].charged
    BY <1>2, <1>3, PaymentsHandled
  <2>. QED
    BY <2>1, <2>2, ChargesStay
<1>4. ASSUME NEW i \in DOMAIN sales', sales'[i].status = "ESCROW_HOLD"
      PROVE  sales'[i].tx \in Txs /\ txs'[sales'[i].tx].charged
  <2>1. CASE /\ i \in DOMAIN sales
             /\ sales[i].status = "ESCROW_HOLD"
             /\ sales'[i].tx = sales[i].tx
    <3>1. sales[i].tx \in Txs /\ txs[sales[i].tx].charged
      BY <2>1 DEF ChargedIInv, HeldIsCharged
    <3>. QED
      BY <2>1, <3>1, ChargesStay
  <2>2. ASSUME NEW h \in Workers, work[h].at = "hold", sales'[i].tx = work[h].tx
        PROVE  sales'[i].tx \in Txs /\ txs'[sales'[i].tx].charged
    BY <1>2, <2>2 DEF Paying
  <2>. QED
    BY <1>4, <2>1, <2>2, HeldByHook
<1>5. ASSUME NEW j \in DOMAIN offers', offers'[j].status = "ACCEPTED"
      PROVE  offers'[j].tx \in Txs /\ txs'[offers'[j].tx].charged
  <2>1. CASE /\ j \in DOMAIN offers
             /\ offers[j].status = "ACCEPTED"
             /\ offers'[j].tx = offers[j].tx
    <3>1. offers[j].tx \in Txs /\ txs[offers[j].tx].charged
      BY <2>1 DEF ChargedIInv, HeldIsCharged
    <3>. QED
      BY <2>1, <3>1, ChargesStay
  <2>2. ASSUME NEW h \in Workers, work[h].at = "accept", offers'[j].tx = work[h].tx
        PROVE  offers'[j].tx \in Txs /\ txs'[offers'[j].tx].charged
    BY <1>2, <2>2 DEF Paying
  <2>. QED
    BY <1>5, <2>1, <2>2, AcceptedByHook
<1>. QED
  BY <1>3, <1>4, <1>5 DEF ChargedIInv, HeldIsCharged

LEMMA ChargedAlways == CascadeSpec => []ChargedIInv
<1>1. CascadeInit => ChargedIInv
  BY ChargedInit
<1>2. Shapes /\ ChargedIInv /\ [CascadeNext]_cascadeVars => ChargedIInv'
  BY ChargedNext
<1>. QED
  BY <1>1, <1>2, ShapesAlways, PTL DEF CascadeSpec

-----------------------------------------------------------------------------
(* The chain of offers.                                                    *)

(* No later offer of the settlement than j.                                *)
LastOf(j) == \A k \in OffersOf(offers[j].sale) : offers[k].rank <= offers[j].rank

(* An offer that a run bears is expired or taken over, was not paid for in *)
(* time and is the last of its chain; it is penalised by that run alone.   *)
BorneOK(s) ==
    \A j \in DOMAIN offers :
       /\ Bears(s, j) => /\ offers[j].status # "PENDING_PAYMENT"
                         /\ ~offers[j].inTime
                         /\ offers[j].over
                         /\ LastOf(j)
       /\ ToPenalise(s, j) => offers[j].penalties = 0

(* The bidder a run is about to ask was not asked, unless the run could    *)
(* not tell, and a settlement is given its first offer once.               *)
ChoiceOK(s) ==
    /\ s.at = "offerNext" /\ ~s.unlisted => s.bidder \notin Asked(s.sale)
    /\ s.at = "insertOffer" => OffersOf(s.sale) = {}

BothInsert(s, r) == s.at = "insertOffer" /\ r.at = "insertOffer" /\ s.sale = r.sale

(* Two handlers bear no offer in common.                                   *)
Apart(s, r) ==
    /\ \A j : ~(Bears(s, j) /\ Bears(r, j))
    /\ ~BothInsert(s, r)

(* An offer that is open, or was paid for in time, is the last of its      *)
(* chain.                                                                  *)
OfferOK(j) ==
    /\ offers[j].status = "PENDING_PAYMENT" => offers[j].penalties = 0 /\ ~offers[j].inTime
    /\ offers[j].status = "PENDING_PAYMENT" \/ offers[j].inTime => LastOf(j)
    /\ offers[j].penalties <= 1
    /\ offers[j].penalties > 0 => offers[j].over /\ ~offers[j].inTime

Ranks(i) == {offers[j].rank : j \in OffersOf(i)}

Chained ==
    /\ \A j, k \in DOMAIN offers :
          offers[j].sale = offers[k].sale =>
             /\ offers[j].rank = offers[k].rank => j = k
             /\ offers[j].bidder = offers[k].bidder /\ j < k => offers[k].unlisted
    /\ \A i \in Nat : \E n \in Nat : Ranks(i) = 1 .. n

Borne == \A h \in Workers : BorneOK(work[h]) /\ ChoiceOK(work[h])

AllApart == \A h, g \in Workers : h # g => Apart(work[h], work[g])

ChainIInv ==
    /\ Borne
    /\ AllApart
    /\ \A j \in DOMAIN offers : OfferOK(j)
    /\ Chained

LEMMA ChainInit == CascadeInit => ChainIInv
<1> SUFFICES ASSUME CascadeInit PROVE ChainIInv
  OBVIOUS
<1>1. DOMAIN offers = {}
  BY DEF CascadeInit
<1>2. \A h \in Workers : work[h] = NoWork
  BY DEF CascadeInit
<1>3. \A i : OffersOf(i) = {}
  BY <1>1 DEF OffersOf
<1>4. Borne
  BY <1>1, <1>2 DEF Borne, BorneOK, ChoiceOK, NoWork
<1>5. AllApart
  BY <1>2 DEF AllApart, Apart, BothInsert, Bears, NoWork, Bearing
<1>6. \A i \in Nat : Ranks(i) = 1 .. 0
  BY <1>3 DEF Ranks
<1>7. Chained
  BY <1>1, <1>6 DEF Chained
<1>. QED
  BY <1>1, <1>4, <1>5, <1>7 DEF ChainIInv

LEMMA ApartSymmetric ==
  ASSUME NEW s, NEW r, Apart(s, r)
  PROVE  Apart(r, s)
BY DEF Apart, BothInsert

(* One slot is written, and is apart from all others.                      *)
LEMMA ApartWritten ==
  ASSUME SlotsOK, AllApart, NEW h \in Workers, NEW new, work' = [work EXCEPT ![h] = new],
         \A g \in Workers : g # h => Apart(new, work[g])
  PROVE  AllApart'
<1>1. work'[h] = new /\ \A g \in Workers : g # h => work'[g] = work[g]
  BY DEF SlotsOK
<1>2. \A f, g \in Workers : f # g => Apart(work'[f], work'[g])
  <2> SUFFICES ASSUME NEW f \in Workers, NEW g \in Workers, f # g
               PROVE  Apart(work'[f], work'[g])
    OBVIOUS
  <2>1. CASE f = h
    BY <1>1, <2>1
  <2>2. CASE g = h
    BY <1>1, <2>2, ApartSymmetric
  <2>3. CASE f # h /\ g # h
    BY <1>1, <2>3 DEF AllApart
  <2>. QED
    BY <2>1, <2>2, <2>3
<1>3. \A f, g \in Workers : f # g => Apart(work[f], work[g])'
  BY <1>2 DEF Apart, BothInsert, Bears
<1>. QED
  BY <1>3 DEF AllApart

LEMMA ShedsApart ==
  ASSUME NEW s, NEW r, NEW new, Apart(s, r), Sheds(s, new), ~BothInsert(new, r)
  PROVE  Apart(new, r)
BY DEF Apart, Sheds

(* A step that writes one slot, which sheds what it bore, and no offer.    *)
LEMMA WorkChain ==
  ASSUME Shapes, ChainIInv, UNCHANGED offers, NEW h \in Workers, NEW new,
         work' = [work EXCEPT ![h] = new],
         Sheds(work[h], new), ChoiceOK(new),
         \A g \in Workers : g # h => ~BothInsert(new, work[g])
  PROVE  ChainIInv'
<1>0. SlotsOK
  BY DEF Shapes
<1>1. AllApart'
  <2>1. \A g \in Workers : g # h => Apart(new, work[g])
    BY ShedsApart DEF ChainIInv, AllApart
  <2>. QED
    BY <1>0, <2>1, ApartWritten DEF ChainIInv
<1>2. ASSUME NEW s, BorneOK(s), ChoiceOK(s) PROVE BorneOK(s)' /\ ChoiceOK(s)'
  BY <1>2 DEF BorneOK, ChoiceOK, LastOf, OffersOf, Asked
<1>3. BorneOK(new)
  BY DEF ChainIInv, Borne, BorneOK, Sheds
<1>4. ASSUME NEW g \in Workers PROVE BorneOK(work[g])' /\ ChoiceOK(work[g])'
  <2> PICK s : s = work'[g]
    OBVIOUS
  <2>1. s = new \/ s = work[g]
    BY <1>0 DEF SlotsOK
  <2>2. BorneOK(s) /\ ChoiceOK(s)
    BY <1>3, <2>1 DEF ChainIInv, Borne
  <2>. QED
    BY <1>2, <2>2
<1>5. (\A j \in DOMAIN offers : OfferOK(j))' /\ Chained'
  BY DEF ChainIInv, OfferOK, Chained, LastOf, OffersOf, Ranks
<1>. QED
  BY <1>1, <1>4, <1>5 DEF ChainIInv, Borne

LEMMA LightChain ==
  ASSUME Shapes, ChainIInv, UNCHANGED offers, NEW h \in Workers, Lightens(h)
  PROVE  ChainIInv'
<1>1. PICK new : work' = [work EXCEPT ![h] = new] /\ Lighter(work[h], new)
  BY DEF Lightens
<1>2. Sheds(work[h], new) /\ ChoiceOK(new) /\ \A g \in Workers : ~BothInsert(new, work[g])
  BY <1>1 DEF Lighter, ChoiceOK, BothInsert
<1>. QED
  BY <1>1, <1>2, WorkChain

LEMMA SameChain ==
  ASSUME ChainIInv, UNCHANGED <<offers, work>>
  PROVE  ChainIInv'
BY DEF ChainIInv, Borne, BorneOK, ChoiceOK, AllApart, Apart, BothInsert, Bears, ToPenalise,
   OfferOK, Chained, LastOf, OffersOf, Ranks, Asked

LEMMA SaleChain ==
  ASSUME Shapes, ChainIInv, NEW h \in Workers, SettleInsertsSale(h),
         work[h].bidder # NoBidder
  PROVE  ChainIInv'
<1> PICK s : s = work[h]
  OBVIOUS
<1>0. SlotOK(s) /\ SlotsOK /\ s.at = "insertSale" /\ UNCHANGED offers
  BY DEF Shapes, SlotsOK, SettleInsertsSale, Doing
<1> PICK i : i = Len(sales) + 1
  OBVIOUS
<1> PICK new : new = [s EXCEPT !.at = "insertOffer", !.sale = i]
  OBVIOUS
<1>1. work' = [work EXCEPT ![h] = new]
  BY <1>0 DEF SettleInsertsSale, SlotsOK
<1>2. new.at = "insertOffer" /\ new.sale = i /\ new.todo = s.todo
  BY <1>0 DEF SlotOK, Work
<1>3. i \notin DOMAIN sales
  <2>1. sales \in Seq(Settlement)
    BY DEF Shapes, RowsOK
  <2>2. DOMAIN sales = 1 .. Len(sales) /\ Len(sales) \in Nat
    BY <2>1
  <2>. QED
    BY <2>2
<1>4. Sheds(s, new)
  BY <1>2 DEF Sheds, Bears, ToPenalise, Bearing
<1>5. ChoiceOK(new)
  <2>1. OffersOf(i) = {}
    BY <1>3 DEF OffersOf, Shapes, RowsOK
  <2>. QED
    BY <1>2, <2>1 DEF ChoiceOK
<1>6. ASSUME NEW g \in Workers PROVE ~BothInsert(new, work[g])
  <2>1. work[g].at = "insertOffer" => work[g].sale \in DOMAIN sales
    BY <1>0 DEF SlotsOK, SlotOK, Fits
  <2>. QED
    BY <1>2, <1>3, <2>1 DEF BothInsert
<1>. QED
  BY <1>0, <1>1, <1>4, <1>5, <1>6, WorkChain

LEMMA ChoosingChain ==
  ASSUME Shapes, ChainIInv, UNCHANGED offers, NEW h \in Workers, work[h].at = "look",
         NEW unlisted \in BOOLEAN, Choosing(h, unlisted)
  PROVE  ChainIInv'
<1> PICK s : s = work[h]
  OBVIOUS
<1>0. SlotOK(s) /\ SlotsOK /\ s.at = "look"
  BY DEF Shapes, SlotsOK
<1>1. PICK next : /\ ~unlisted => next \cap Asked(s.sale) = {}
                  /\ next # {}
                  /\ Chooses(h, next, unlisted)
  BY DEF Choosing
<1>2. PICK b \in next : work' = [work EXCEPT ![h].at = "offerNext", ![h].bidder = b,
                                             ![h].unlisted = unlisted]
  BY <1>1 DEF Chooses
<1> PICK new : new = [s EXCEPT !.at = "offerNext", !.bidder = b, !.unlisted = unlisted]
  OBVIOUS
<1>3. work' = [work EXCEPT ![h] = new]
  BY <1>0, <1>2 DEF SlotsOK
<1>4. new.at = "offerNext" /\ new.sale = s.sale /\ new.todo = s.todo /\ new.offer = s.offer
      /\ new.bidder = b /\ new.unlisted = unlisted
  BY <1>0 DEF SlotOK, Work
<1>5. Sheds(s, new)
  BY <1>0, <1>4 DEF Sheds, Bears, ToPenalise, Bearing
<1>6. ChoiceOK(new)
  BY <1>1, <1>4 DEF ChoiceOK
<1>7. \A g \in Workers : ~BothInsert(new, work[g])
  BY <1>4 DEF BothInsert
<1>. QED
  BY <1>3, <1>5, <1>6, <1>7, WorkChain

LEMMA DeliveryChain ==
  ASSUME Shapes, ChainIInv, NEW h \in Hooks, NEW t \in Txs, HookRecordsPayment(h, t)
  PROVE  ChainIInv'
<1> PICK new : new = [NoWork EXCEPT !.at = "sell", !.tx = t]
  OBVIOUS
<1>1. h \in Workers /\ work' = [work EXCEPT ![h] = new] /\ UNCHANGED offers
  BY DEF HookRecordsPayment, Workers
<1>2. new.at = "sell" /\ new.todo = {}
  BY DEF NoWork
<1>3. Sheds(work[h], new) /\ ChoiceOK(new) /\ \A g \in Workers : ~BothInsert(new, work[g])
  BY <1>2 DEF Sheds, Bears, ToPenalise, Bearing, ChoiceOK, BothInsert
<1>. QED
  BY <1>1, <1>3, WorkChain

-----------------------------------------------------------------------------
(* Offers are written, and their chains are left as they are.              *)
KeepsChains ==
    /\ DOMAIN offers' = DOMAIN offers
    /\ \A j \in DOMAIN offers :
          /\ offers'[j].sale = offers[j].sale
          /\ offers'[j].bidder = offers[j].bidder
          /\ offers'[j].rank = offers[j].rank
          /\ offers'[j].unlisted = offers[j].unlisted

LEMMA ChainsKept ==
  ASSUME RowsOK, KeepsChains
  PROVE  /\ \A i : OffersOf(i)' = OffersOf(i)
         /\ \A j \in DOMAIN offers : LastOf(j)' <=> LastOf(j)
         /\ \A i : Asked(i)' = Asked(i)
         /\ Chained => Chained'
<1>1. ASSUME NEW i PROVE OffersOf(i)' = OffersOf(i)
  BY DEF OffersOf, KeepsChains
<1>2. ASSUME NEW j \in DOMAIN offers PROVE LastOf(j)' <=> LastOf(j)
  <2> PICK i : i = offers[j].sale
    OBVIOUS
  <2>1. \A k \in OffersOf(i) : offers'[k].rank = offers[k].rank
    BY DEF OffersOf, KeepsChains
  <2>2. offers'[j].sale = i /\ offers'[j].rank = offers[j].rank
    BY DEF KeepsChains
  <2>3. OffersOf(i)' = OffersOf(i)
    BY <1>1
  <2>. QED
    BY <2>1, <2>2, <2>3 DEF LastOf
<1>3. ASSUME NEW i PROVE Asked(i)' = Asked(i)
  BY DEF Asked, KeepsChains
<1>4. ASSUME NEW i PROVE Ranks(i)' = Ranks(i)
  <2>1. \A k \in OffersOf(i) : offers'[k].rank = offers[k].rank
    BY DEF OffersOf, KeepsChains
  <2>. QED
    BY <1>1, <2>1 DEF Ranks
<1>5. ASSUME Chained PROVE Chained'
  <2>1. \A j, k \in DOMAIN offers' :
           offers'[j].sale = offers'[k].sale =>
              /\ offers'[j].rank = offers'[k].rank => j = k
              /\ offers'[j].bidder = offers'[k].bidder /\ j < k => offers'[k].unlisted
    BY <1>5 DEF Chained, KeepsChains
  <2>2. \A i \in Nat : \E n \in Nat : Ranks(i)' = 1 .. n
    BY <1>4, <1>5 DEF Chained
  <2>. QED
    BY <2>1, <2>2 DEF Chained
<1>. QED
  BY <1>1, <1>2, <1>3, <1>5

LEMMA WritesChain ==
  ASSUME Shapes, ChainIInv, KeepsChains, AllApart',
         \A g \in Workers : ChoiceOK(work'[g]),
         \A g \in Workers, j \in DOMAIN offers :
            /\ Bears(work'[g], j) => /\ offers'[j].status # "PENDING_PAYMENT"
                                     /\ ~offers'[j].inTime
                                     /\ offers'[j].over
                                     /\ LastOf(j)
            /\ ToPenalise(work'[g], j) => offers'[j].penalties = 0,
         \A j \in DOMAIN offers :
            /\ offers'[j].status = "PENDING_PAYMENT" =>
                  offers'[j].penalties = 0 /\ ~offers'[j].inTime
            /\ offers'[j].status = "PENDING_PAYMENT" \/ offers'[j].inTime => LastOf(j)
            /\ offers'[j].penalties <= 1
            /\ offers'[j].penalties > 0 => offers'[j].over /\ ~offers'[j].inTime
  PROVE  ChainIInv'
<1>0. DOMAIN offers' = DOMAIN offers /\ \A j \in DOMAIN offers : LastOf(j)' <=> LastOf(j)
  BY ChainsKept DEF KeepsChains, Shapes
<1>1. ASSUME NEW g \in Workers PROVE BorneOK(work[g])' /\ ChoiceOK(work[g])'
  <2>1. BorneOK(work[g])'
    BY <1>0 DEF BorneOK, Bears, ToPenalise
  <2>2. ChoiceOK(work'[g]) /\ \A i : OffersOf(i)' = OffersOf(i) /\ Asked(i)' = Asked(i)
    BY ChainsKept DEF Shapes
  <2>3. ChoiceOK(work[g])'
    BY <2>2 DEF ChoiceOK
  <2>. QED
    BY <2>1, <2>3
<1>2. (\A j \in DOMAIN offers : OfferOK(j))'
  BY <1>0 DEF OfferOK
<1>3. Chained'
  BY ChainsKept DEF ChainIInv, Shapes
<1>. QED
  BY <1>1, <1>2, <1>3 DEF ChainIInv, Borne

(* What a written slot that sheds leaves of the bearing.                   *)
LEMMA ShedWritten ==
  ASSUME Shapes, ChainIInv, NEW h \in Workers, NEW new, work' = [work EXCEPT ![h] = new],
         Sheds(work[h], new), new.at \notin {"insertOffer", "offerNext"}
  PROVE  /\ AllApart'
         /\ \A g \in Workers : ChoiceOK(work'[g])
         /\ \A g \in Workers : \A j :
               /\ Bears(work'[g], j) => Bears(work[g], j)
               /\ ToPenalise(work'[g], j) => ToPenalise(work[g], j)
<1>0. work'[h] = new /\ \A g \in Workers : g # h => work'[g] = work[g]
  BY DEF Shapes, SlotsOK
<1>1. AllApart'
  <2>1. \A g \in Workers : ~BothInsert(new, work[g])
    BY DEF BothInsert
  <2>2. \A g \in Workers : g # h => Apart(new, work[g])
    BY <2>1, ShedsApart DEF ChainIInv, AllApart
  <2>. QED
    BY <2>2, ApartWritten DEF ChainIInv, Shapes
<1>2. \A g \in Workers : ChoiceOK(work'[g])
  <2>1. ChoiceOK(new)
    BY DEF ChoiceOK
  <2>. QED
    BY <1>0, <2>1 DEF ChainIInv, Borne
<1>3. ASSUME NEW g \in Workers, NEW j
      PROVE  /\ Bears(work'[g], j) => Bears(work[g], j)
             /\ ToPenalise(work'[g], j) => ToPenalise(work[g], j)
  BY <1>0 DEF Sheds
<1>. QED
  BY <1>1, <1>2, <1>3

LEMMA PenaltyChain ==
  ASSUME Shapes, ChainIInv, NEW h \in Workers, apply_payment_penalty(h)
  PROVE  ChainIInv'
<1> PICK s : s = work[h]
  OBVIOUS
<1> PICK p : p = s.offer
  OBVIOUS
<1>0. SlotOK(s) /\ SlotsOK /\ RowsOK /\ s.at = "penalise"
  BY DEF Shapes, SlotsOK, apply_payment_penalty, Doing
<1>1. p \in DOMAIN offers /\ p \notin s.todo
  BY <1>0 DEF SlotOK, Fits, Bearing
<1>2. \A j \in DOMAIN offers : offers[j] \in Offer
  BY <1>0 DEF RowsOK
<1>3. offers' = [offers EXCEPT ![p].penalties = @ + 1]
  BY DEF apply_payment_penalty
<1>4. \A j \in DOMAIN offers : j # p => offers'[j] = offers[j]
  BY <1>1, <1>3
<1>5. /\ DOMAIN offers' = DOMAIN offers
      /\ offers'[p] = [offers[p] EXCEPT !.penalties = @ + 1]
  BY <1>1, <1>3
<1>6. /\ offers'[p].sale = offers[p].sale
      /\ offers'[p].bidder = offers[p].bidder
      /\ offers'[p].rank = offers[p].rank
      /\ offers'[p].unlisted = offers[p].unlisted
      /\ offers'[p].status = offers[p].status
      /\ offers'[p].inTime = offers[p].inTime
      /\ offers'[p].over = offers[p].over
      /\ offers'[p].penalties = offers[p].penalties + 1
  BY <1>1, <1>2, <1>5 DEF Offer
<1>7. KeepsChains
  BY <1>4, <1>5, <1>6 DEF KeepsChains
<1> PICK new : new = [s EXCEPT !.at = "look"]
  OBVIOUS
<1>8. work' = [work EXCEPT ![h] = new]
  BY <1>0 DEF apply_payment_penalty, GoesOnTo, SlotsOK
<1>9. new.at = "look" /\ new.todo = s.todo /\ new.offer = p
  BY <1>0 DEF SlotOK, Work
<1>10. Sheds(s, new)
  BY <1>0, <1>9 DEF Sheds, Bears, ToPenalise, Bearing
<1>11. /\ AllApart'
       /\ \A g \in Workers : ChoiceOK(work'[g])
       /\ \A g \in Workers : \A j :
             /\ Bears(work'[g], j) => Bears(work[g], j)
             /\ ToPenalise(work'[g], j) => ToPenalise(work[g], j)
  BY <1>8, <1>9, <1>10, ShedWritten
<1>12. Bears(s, p) /\ ToPenalise(s, p)
  BY <1>0 DEF Bears, ToPenalise, Bearing
<1>13. /\ offers[p].status # "PENDING_PAYMENT" /\ ~offers[p].inTime /\ offers[p].over
       /\ offers[p].penalties = 0
  BY <1>1, <1>12 DEF ChainIInv, Borne, BorneOK
<1>14. ASSUME NEW g \in Workers, NEW j \in DOMAIN offers, Bears(work'[g], j)
       PROVE  /\ offers'[j].status # "PENDING_PAYMENT"
              /\ ~offers'[j].inTime
              /\ offers'[j].over
              /\ LastOf(j)
  <2>1. /\ offers[j].status # "PENDING_PAYMENT" /\ ~offers[j].inTime /\ offers[j].over
        /\ LastOf(j)
    BY <1>11, <1>14 DEF ChainIInv, Borne, BorneOK
  <2>. QED
    BY <1>4, <1>6, <2>1
<1>15. ASSUME NEW g \in Workers, NEW j \in DOMAIN offers, ToPenalise(work'[g], j)
       PROVE  offers'[j].penalties = 0
  <2>1. offers[j].penalties = 0
    BY <1>11, <1>15 DEF ChainIInv, Borne, BorneOK
  <2>2. j # p
    <3>1. CASE g = h
      <4>1. work'[g] = new
        BY <1>0, <1>8, <3>1 DEF SlotsOK
      <4>. QED
        BY <1>1, <1>9, <1>15, <4>1 DEF ToPenalise
    <3>2. CASE g # h
      <4>1. Bears(work[g], j)
        BY <1>11, <1>15 DEF ToPenalise, Bears, Bearing
      <4>. QED
        BY <1>12, <3>2, <4>1 DEF ChainIInv, AllApart, Apart
    <3>. QED
      BY <3>1, <3>2
  <2>. QED
    BY <1>4, <2>1, <2>2
<1>16. ASSUME NEW j \in DOMAIN offers
       PROVE  /\ offers'[j].status = "PENDING_PAYMENT" =>
                    offers'[j].penalties = 0 /\ ~offers'[j].inTime
              /\ offers'[j].status = "PENDING_PAYMENT" \/ offers'[j].inTime => LastOf(j)
              /\ offers'[j].penalties <= 1
              /\ offers'[j].penalties > 0 => offers'[j].over /\ ~offers'[j].inTime
  <2>1. CASE j = p
    <3>1. offers'[j].penalties = 1
      BY <1>6, <1>13, <2>1
    <3>2. offers'[j].status # "PENDING_PAYMENT" /\ ~offers'[j].inTime
      BY <1>6, <1>13, <2>1, Zenon
    <3>3. offers'[j].over
      BY <1>6, <1>13, <2>1, Zenon
    <3>. QED
      BY <3>1, <3>2, <3>3
  <2>2. CASE j # p
    BY <1>4, <2>2 DEF ChainIInv, OfferOK
  <2>. QED
    BY <2>1, <2>2
<1>. QED
  BY <1>7, <1>11, <1>14, <1>15, <1>16, WritesChain

LEMMA WindowChain ==
  ASSUME Shapes, ChainIInv, NEW p \in DOMAIN offers, WindowPasses(p)
  PROVE  ChainIInv'
<1>2. \A j \in DOMAIN offers : offers[j] \in Offer
  BY DEF Shapes, RowsOK
<1>3. offers' = [offers EXCEPT ![p].over = TRUE] /\ UNCHANGED work
  BY DEF WindowPasses
<1>4. ASSUME NEW j \in DOMAIN offers
      PROVE  /\ offers'[j].sale = offers[j].sale
             /\ offers'[j].bidder = offers[j].bidder
             /\ offers'[j].rank = offers[j].rank
             /\ offers'[j].unlisted = offers[j].unlisted
             /\ offers'[j].status = offers[j].status
             /\ offers'[j].inTime = offers[j].inTime
             /\ offers[j].over => offers'[j].over
             /\ offers'[j].penalties = offers[j].penalties
  BY <1>2, <1>3 DEF Offer
<1>5. KeepsChains
  BY <1>3, <1>4 DEF KeepsChains
<1>6. AllApart' /\ \A g \in Workers : ChoiceOK(work'[g])
  BY <1>3 DEF ChainIInv, Borne, AllApart, Apart, BothInsert, Bears
<1>7. ASSUME NEW g \in Workers, NEW j \in DOMAIN offers
      PROVE  /\ Bears(work'[g], j) => /\ offers'[j].status # "PENDING_PAYMENT"
                                      /\ ~offers'[j].inTime
                                      /\ offers'[j].over
                                      /\ LastOf(j)
             /\ ToPenalise(work'[g], j) => offers'[j].penalties = 0
  BY <1>3, <1>4 DEF ChainIInv, Borne, BorneOK
<1>8. ASSUME NEW j \in DOMAIN offers
      PROVE  /\ offers'[j].status = "PENDING_PAYMENT" =>
                   offers'[j].penalties = 0 /\ ~offers'[j].inTime
             /\ offers'[j].status = "PENDING_PAYMENT" \/ offers'[j].inTime => LastOf(j)
             /\ offers'[j].penalties <= 1
             /\ offers'[j].penalties > 0 => offers'[j].over /\ ~offers'[j].inTime
  BY <1>4 DEF ChainIInv, OfferOK
<1>. QED
  BY <1>5, <1>6, <1>7, <1>8, WritesChain

LEMMA AcceptsChain ==
  ASSUME Shapes, ChainIInv, NEW h \in Workers, HookAccepts(h), Lightens(h)
  PROVE  ChainIInv'
<1> PICK s : s = work[h]
  OBVIOUS
<1> PICK p : p = s.offer
  OBVIOUS
<1>0. SlotOK(s) /\ RowsOK /\ s.at = "accept"
  BY DEF Shapes, SlotsOK, HookAccepts, Doing
<1>1. p \in DOMAIN offers
  BY <1>0 DEF SlotOK, Fits
<1>2. \A j \in DOMAIN offers : offers[j] \in Offer
  BY <1>0 DEF RowsOK
<1>3. DOMAIN offers' = DOMAIN offers /\ \A j \in DOMAIN offers : j # p => offers'[j] = offers[j]
  BY <1>1 DEF HookAccepts
<1>4. offers'[p] = [offers[p] EXCEPT !.status = "ACCEPTED", !.tx = s.tx,
                       !.inTime = @ \/ offers[p].status = "PENDING_PAYMENT"]
  BY <1>1 DEF HookAccepts
<1>5. /\ offers'[p].sale = offers[p].sale
      /\ offers'[p].bidder = offers[p].bidder
      /\ offers'[p].rank = offers[p].rank
      /\ offers'[p].unlisted = offers[p].unlisted
      /\ offers'[p].status = "ACCEPTED"
      /\ offers'[p].over = offers[p].over
      /\ offers'[p].penalties = offers[p].penalties
  BY <1>1, <1>2, <1>4 DEF Offer
<1>6. offers'[p].inTime <=> (offers[p].inTime \/ offers[p].status = "PENDING_PAYMENT")
  <2> PICK row : row = offers[p]
    OBVIOUS
  <2>1. row \in Offer
    BY <1>1, <1>2
  <2>2. DOMAIN row = {"sale", "bidder", "rank", "status", "over", "tx", "penalties",
                      "inTime", "unlisted"}
    BY <2>1 DEF Offer
  <2>3. offers'[p] = [row EXCEPT !.status = "ACCEPTED", !.tx = s.tx,
                                 !.inTime = @ \/ row.status = "PENDING_PAYMENT"]
    BY <1>4
  <2>. QED
    BY <2>2, <2>3
<1>7. KeepsChains
  BY <1>3, <1>5 DEF KeepsChains
<1>8. PICK new : work' = [work EXCEPT ![h] = new] /\ Lighter(work[h], new)
  BY DEF Lightens
<1>9. /\ AllApart'
      /\ \A g \in Workers : ChoiceOK(work'[g])
      /\ \A g \in Workers : \A j :
            /\ Bears(work'[g], j) => Bears(work[g], j)
            /\ ToPenalise(work'[g], j) => ToPenalise(work[g], j)
  BY <1>8, ShedWritten DEF Lighter
<1>10. ASSUME NEW g \in Workers, NEW j \in DOMAIN offers
       PROVE  /\ Bears(work'[g], j) => /\ offers'[j].status # "PENDING_PAYMENT"
                                       /\ ~offers'[j].inTime
                                       /\ offers'[j].over
                                       /\ LastOf(j)
              /\ ToPenalise(work'[g], j) => offers'[j].penalties = 0
  <2>1. /\ Bears(work'[g], j) => /\ offers[j].status # "PENDING_PAYMENT"
                                 /\ ~offers[j].inTime
                                 /\ offers[j].over
                                 /\ LastOf(j)
        /\ ToPenalise(work'[g], j) => offers[j].penalties = 0
    BY <1>9 DEF ChainIInv, Borne, BorneOK
  <2>. QED
    BY <1>3, <1>5, <1>6, <2>1
<1>11. ASSUME NEW j \in DOMAIN offers
       PROVE  /\ offers'[j].status = "PENDING_PAYMENT" =>
                    offers'[j].penalties = 0 /\ ~offers'[j].inTime
              /\ offers'[j].status = "PENDING_PAYMENT" \/ offers'[j].inTime => LastOf(j)
              /\ offers'[j].penalties <= 1
              /\ offers'[j].penalties > 0 => offers'[j].over /\ ~offers'[j].inTime
  <2>0. OfferOK(j)
    BY DEF ChainIInv
  <2>1. CASE j = p
    BY <1>5, <1>6, <2>0, <2>1 DEF OfferOK
  <2>2. CASE j # p
    BY <1>3, <2>0, <2>2 DEF OfferOK
  <2>. QED
    BY <2>1, <2>2
<1>. QED
  BY <1>7, <1>9, <1>10, <1>11, WritesChain

LEMMA ExpiredRow ==
  ASSUME NEW row \in Offer, NEW new, new = [row EXCEPT !.status = "EXPIRED"]
  PROVE  /\ new.status = "EXPIRED"
         /\ new.sale = row.sale
         /\ new.bidder = row.bidder
         /\ new.rank = row.rank
         /\ new.unlisted = row.unlisted
         /\ new.inTime = row.inTime
         /\ new.over = row.over
         /\ new.penalties = row.penalties
BY DEF Offer

LEMMA ClaimChain ==
  ASSUME Shapes, ChainIInv, NEW h \in Workers, ClaimsExpired(h)
  PROVE  ChainIInv'
<1>0. SlotsOK /\ RowsOK /\ \A j \in DOMAIN offers : offers[j] \in Offer
  BY DEF Shapes, RowsOK
<1>1. PICK e \in Expired :
         work' = [work EXCEPT ![h] = [NoWork EXCEPT !.at = "penalise",
                                                    !.todo = Expired \ {e},
                                                    !.offer = e,
                                                    !.sale = offers[e].sale]]
  BY DEF ClaimsExpired
<1> PICK new : new = [NoWork EXCEPT !.at = "penalise", !.todo = Expired \ {e},
                                    !.offer = e, !.sale = offers[e].sale]
  OBVIOUS
<1>2. new.at = "penalise" /\ new.todo = Expired \ {e} /\ new.offer = e
  BY DEF NoWork
<1>3. \A j : Bears(new, j) <=> j \in Expired
  BY <1>1, <1>2 DEF Bears, Bearing
<1>4. work'[h] = new /\ \A g \in Workers : g # h => work'[g] = work[g]
  BY <1>0, <1>1 DEF SlotsOK
<1>5. \A j \in Expired : /\ j \in DOMAIN offers
                         /\ offers[j].status = "PENDING_PAYMENT"
                         /\ offers[j].over
                         /\ ~offers[j].inTime
                         /\ offers[j].penalties = 0
                         /\ LastOf(j)
  BY DEF Expired, ChainIInv, OfferOK
<1>6. /\ DOMAIN offers' = DOMAIN offers
      /\ \A j \in DOMAIN offers : j \notin Expired => offers'[j] = offers[j]
      /\ \A j \in DOMAIN offers : j \in Expired =>
            offers'[j] = [offers[j] EXCEPT !.status = "EXPIRED"]
  BY DEF ClaimsExpired
<1>7. ASSUME NEW j \in DOMAIN offers
      PROVE  /\ offers'[j].sale = offers[j].sale
             /\ offers'[j].bidder = offers[j].bidder
             /\ offers'[j].rank = offers[j].rank
             /\ offers'[j].unlisted = offers[j].unlisted
             /\ offers'[j].inTime = offers[j].inTime
             /\ offers'[j].over = offers[j].over
             /\ offers'[j].penalties = offers[j].penalties
  <2>1. CASE j \in Expired
    <3> PICK row : row = offers[j]
      OBVIOUS
    <3> PICK to : to = offers'[j]
      OBVIOUS
    <3>1. row \in Offer /\ to = [row EXCEPT !.status = "EXPIRED"]
      BY <1>0, <1>6, <2>1
    <3>. QED
      BY <3>1, ExpiredRow
  <2>2. CASE j \notin Expired
    BY <1>6, <2>2
  <2>. QED
    BY <2>1, <2>2
<1>8. ASSUME NEW j \in DOMAIN offers, j \in Expired
      PROVE  offers'[j].status = "EXPIRED"
  <2> PICK row : row = offers[j]
    OBVIOUS
  <2> PICK to : to = offers'[j]
    OBVIOUS
  <2>1. row \in Offer /\ to = [row EXCEPT !.status = "EXPIRED"]
    BY <1>0, <1>6, <1>8
  <2>. QED
    BY <2>1, ExpiredRow
<1>9. KeepsChains
  BY <1>6, <1>7 DEF KeepsChains
<1>10. AllApart'
  <2>1. ASSUME NEW g \in Workers PROVE Apart(new, work[g])
    <3>1. ASSUME NEW j, Bears(new, j), Bears(work[g], j) PROVE FALSE
      BY <1>3, <1>5, <3>1 DEF ChainIInv, Borne, BorneOK
    <3>2. ~BothInsert(new, work[g])
      BY <1>2 DEF BothInsert
    <3>. QED
      BY <3>1, <3>2 DEF Apart
  <2>. QED
    BY <1>0, <1>1, <2>1, ApartWritten DEF ChainIInv
<1>11. \A g \in Workers : ChoiceOK(work'[g])
  <2>1. ChoiceOK(new)
    BY <1>2 DEF ChoiceOK
  <2>. QED
    BY <1>4, <2>1 DEF ChainIInv, Borne
<1>12. ASSUME NEW g \in Workers, NEW j \in DOMAIN offers
       PROVE  /\ Bears(work'[g], j) => /\ offers'[j].status # "PENDING_PAYMENT"
                                       /\ ~offers'[j].inTime
                                       /\ offers'[j].over
                                       /\ LastOf(j)
              /\ ToPenalise(work'[g], j) => offers'[j].penalties = 0
  <2>1. CASE j \in Expired
    <3>1. /\ offers'[j].status # "PENDING_PAYMENT" /\ ~offers'[j].inTime
          /\ offers'[j].over /\ LastOf(j)
      BY <1>5, <1>7, <1>8, <2>1
    <3>2. offers'[j].penalties = 0
      BY <1>5, <1>7, <2>1
    <3>. QED
      BY <3>1, <3>2
  <2>2. CASE j \notin Expired
    <3>1. CASE g = h
      <4>1. ~Bears(work'[g], j)
        BY <1>3, <1>4, <2>2, <3>1
      <4>2. ~ToPenalise(work'[g], j)
        BY <4>1 DEF Bears, ToPenalise, Bearing
      <4>. QED
        BY <4>1, <4>2
    <3>2. CASE g # h
      <4>1. BorneOK(work'[g])
        BY <1>4, <3>2 DEF ChainIInv, Borne
      <4>. QED
        BY <1>6, <2>2, <4>1 DEF BorneOK
    <3>. QED
      BY <3>1, <3>2
  <2>. QED
    BY <2>1, <2>2
<1>13. ASSUME NEW j \in DOMAIN offers
       PROVE  /\ offers'[j].status = "PENDING_PAYMENT" =>
                    offers'[j].penalties = 0 /\ ~offers'[j].inTime
              /\ offers'[j].status = "PENDING_PAYMENT" \/ offers'[j].inTime => LastOf(j)
              /\ offers'[j].penalties <= 1
              /\ offers'[j].penalties > 0 => offers'[j].over /\ ~offers'[j].inTime
  <2>1. CASE j \in Expired
    <3>1. offers'[j].penalties = 0
      BY <1>5, <1>7, <2>1
    <3>2. offers'[j].status # "PENDING_PAYMENT" /\ ~offers'[j].inTime
      BY <1>5, <1>7, <1>8, <2>1
    <3>. QED
      BY <3>1, <3>2
  <2>2. CASE j \notin Expired
    BY <1>6, <2>2 DEF ChainIInv, OfferOK
  <2>. QED
    BY <2>1, <2>2
<1>. QED
  BY <1>9, <1>10, <1>11, <1>12, <1>13, WritesChain

-----------------------------------------------------------------------------
(* An offer is added at the end of its chain, while no run bears an offer  *)
(* of the chain and none of them is open or was paid for in time.          *)
LEMMA AddsChain ==
  ASSUME Shapes, ChainIInv, UNCHANGED sales, NEW h \in Workers, NEW new,
         work' = [work EXCEPT ![h] = new], Sheds(work[h], new),
         new.at \notin {"insertOffer", "offerNext"},
         NEW row \in Offer, offers' = Append(offers, row), row.sale \in DOMAIN sales,
         row.status = "PENDING_PAYMENT", row.penalties = 0, ~row.inTime,
         Ranks(row.sale) = 1 .. row.rank - 1,
         \A j \in OffersOf(row.sale) :
            /\ offers[j].bidder = row.bidder => row.unlisted
            /\ offers[j].status # "PENDING_PAYMENT"
            /\ ~offers[j].inTime
            /\ \A g \in Workers : ~Bears(work'[g], j),
         \A g \in Workers :
            g # h => ~(work[g].at = "insertOffer" /\ work[g].sale = row.sale)
  PROVE  ChainIInv'
<1> PICK i : i = row.sale
  OBVIOUS
<1> PICK r : r = row.rank
  OBVIOUS
<1> PICK n : n = Len(offers) + 1
  OBVIOUS
<1>0. SlotsOK /\ RowsOK
  BY DEF Shapes
<1>1. /\ DOMAIN offers' = DOMAIN offers \cup {n}
      /\ n \notin DOMAIN offers
      /\ \A k \in DOMAIN offers : offers'[k] = offers[k]
      /\ offers'[n] = row
  BY <1>0, OfferAddedOK
<1>2. r \in Nat \ {0} /\ i \in Nat \ {0}
  BY DEF Offer
<1>3. \A j \in DOMAIN offers : /\ offers[j].rank \in Nat \ {0}
                               /\ j \in Nat
                               /\ j < n
  <2>1. offers \in Seq(Offer)
    BY <1>0 DEF RowsOK
  <2>2. \A j \in DOMAIN offers : j \in 1 .. Len(offers) /\ offers[j] \in Offer
    BY <2>1
  <2>3. Len(offers) \in Nat
    BY <2>1
  <2>. QED
    BY <2>2, <2>3 DEF Offer
<1>4. OffersOf(i)' = OffersOf(i) \cup {n}
  BY <1>1 DEF OffersOf
<1>5. \A k : k # i => OffersOf(k)' = OffersOf(k)
  BY <1>1 DEF OffersOf
<1>6. \A j \in OffersOf(i) : j \in DOMAIN offers /\ offers[j].rank \in 1 .. r - 1
  BY DEF OffersOf, Ranks
<1>7. ASSUME NEW j \in DOMAIN offers, offers[j].sale # i, LastOf(j)
      PROVE  LastOf(j)'
  <2> PICK k : k = offers[j].sale
    OBVIOUS
  <2>1. OffersOf(k)' = OffersOf(k) /\ offers'[j] = offers[j]
    BY <1>1, <1>5, <1>7
  <2>2. \A l \in OffersOf(k) : offers'[l] = offers[l]
    BY <1>1 DEF OffersOf
  <2>. QED
    BY <1>7, <2>1, <2>2 DEF LastOf
<1>8. LastOf(n)'
  <2>1. \A l \in OffersOf(i) : offers'[l].rank <= r
    BY <1>1, <1>2, <1>3, <1>6
  <2>2. ASSUME NEW l \in OffersOf(i)' PROVE offers'[l].rank <= offers'[n].rank
    <3>1. offers'[n].rank = r /\ r <= r
      BY <1>1, <1>2
    <3>2. l = n \/ l \in OffersOf(i)
      BY <1>4
    <3>. QED
      BY <2>1, <3>1, <3>2
  <2>3. offers'[n].sale = i
    BY <1>1
  <2>. QED
    BY <2>2, <2>3 DEF LastOf, OffersOf
<1>9. ASSUME NEW j \in DOMAIN offers' PROVE OfferOK(j)'
  <2>1. CASE j = n
    BY <1>1, <1>8, <2>1 DEF OfferOK
  <2>2. CASE j \in DOMAIN offers
    <3>1. offers'[j] = offers[j] /\ OfferOK(j)
      BY <1>1, <2>2 DEF ChainIInv
    <3>2. offers[j].status = "PENDING_PAYMENT" \/ offers[j].inTime =>
             offers[j].sale # i
      BY <2>2 DEF OffersOf
    <3>. QED
      BY <1>7, <2>2, <3>1, <3>2 DEF OfferOK
  <2>. QED
    BY <1>1, <2>1, <2>2
<1>10. /\ AllApart'
       /\ \A g \in Workers : ChoiceOK(work'[g])
       /\ \A g \in Workers : \A j :
             /\ Bears(work'[g], j) => Bears(work[g], j)
             /\ ToPenalise(work'[g], j) => ToPenalise(work[g], j)
  BY ShedWritten
<1>11. ASSUME NEW g \in Workers PROVE ChoiceOK(work[g])'
  <2> PICK s : s = work'[g]
    OBVIOUS
  <2>1. g = h => s = new
    BY <1>0 DEF SlotsOK
  <2>2. g # h => s = work[g]
    BY <1>0 DEF SlotsOK
  <2>3. ChoiceOK(s)
    BY <1>10
  <2>4. s.sale = i => s.at \notin {"insertOffer", "offerNext"}
    <3>1. ASSUME s.at = "offerNext", s.sale = i PROVE FALSE
      <4>1. s = work[g] /\ SlotOK(s)
        BY <1>0, <2>1, <2>2, <3>1 DEF SlotsOK
      <4>2. s.offer \in OffersOf(i) /\ Bears(s, s.offer)
        BY <3>1, <4>1 DEF SlotOK, Fits, Bearing, OffersOf, Bears
      <4>. QED
        BY <4>2
    <3>2. ASSUME s.at = "insertOffer", s.sale = i PROVE FALSE
      BY <2>1, <2>2, <3>2
    <3>. QED
      BY <3>1, <3>2
  <2>5. \A k : k # i => Asked(k)' = Asked(k)
    <3>1. ASSUME NEW k, k # i PROVE Asked(k)' = Asked(k)
      <4>1. \A l \in OffersOf(k) : offers'[l].bidder = offers[l].bidder
        BY <1>1 DEF OffersOf
      <4>2. OffersOf(k)' = OffersOf(k)
        BY <1>5, <3>1
      <4>. QED
        BY <4>1, <4>2 DEF Asked, OffersOf
    <3>. QED
      BY <3>1
  <2>. QED
    BY <1>5, <2>3, <2>4, <2>5 DEF ChoiceOK
<1>12. ASSUME NEW g \in Workers PROVE BorneOK(work[g])'
  <2>1. ASSUME NEW j \in DOMAIN offers', Bears(work'[g], j)
        PROVE  /\ offers'[j].status # "PENDING_PAYMENT"
               /\ ~offers'[j].inTime
               /\ offers'[j].over
               /\ LastOf(j)'
    <3>1. Bears(work[g], j) /\ SlotOK(work[g])
      BY <1>0, <1>10, <2>1 DEF SlotsOK
    <3>2. j \in DOMAIN offers
      BY <3>1 DEF Bears, SlotOK, Fits
    <3>3. /\ offers[j].status # "PENDING_PAYMENT" /\ ~offers[j].inTime /\ offers[j].over
          /\ LastOf(j)
      BY <3>1, <3>2 DEF ChainIInv, Borne, BorneOK
    <3>4. offers[j].sale # i
      BY <2>1, <3>2 DEF OffersOf
    <3>. QED
      BY <1>1, <1>7, <3>2, <3>3, <3>4
  <2>2. ASSUME NEW j \in DOMAIN offers', ToPenalise(work'[g], j)
        PROVE  offers'[j].penalties = 0
    <3>1. ToPenalise(work[g], j) /\ Bears(work[g], j) /\ SlotOK(work[g])
      BY <1>0, <1>10, <2>2 DEF SlotsOK, Bears, ToPenalise, Bearing
    <3>2. j \in DOMAIN offers
      BY <3>1 DEF Bears, SlotOK, Fits
    <3>. QED
      BY <1>1, <3>1, <3>2 DEF ChainIInv, Borne, BorneOK
  <2>. QED
    BY <2>1, <2>2 DEF BorneOK, Bears, ToPenalise
<1>13. Chained'
  <2>1. ASSUME NEW j \in DOMAIN offers', NEW k \in DOMAIN offers',
               offers'[j].sale = offers'[k].sale
        PROVE  /\ offers'[j].rank = offers'[k].rank => j = k
               /\ offers'[j].bidder = offers'[k].bidder /\ j < k => offers'[k].unlisted
    <3>1. CASE j \in DOMAIN offers /\ k \in DOMAIN offers
      <4>1. offers'[j] = offers[j] /\ offers'[k] = offers[k]
        BY <1>1, <3>1
      <4>. QED
        BY <2>1, <3>1, <4>1 DEF ChainIInv, Chained
    <3>2. CASE j \in DOMAIN offers /\ k = n
      <4>1. j \in OffersOf(i)
        BY <1>1, <2>1, <3>2 DEF OffersOf
      <4>2. offers'[j].rank # r
        BY <1>1, <1>2, <1>6, <4>1
      <4>3. offers'[j].bidder = row.bidder => row.unlisted
        BY <1>1, <1>6, <4>1
      <4>. QED
        BY <1>1, <3>2, <4>2, <4>3
    <3>3. CASE j = n /\ k \in DOMAIN offers
      <4>1. k \in OffersOf(i)
        BY <1>1, <2>1, <3>3 DEF OffersOf
      <4>2. offers'[k].rank # r
        BY <1>1, <1>2, <1>6, <4>1
      <4>3. ~(j < k)
        <5>1. k < n /\ k \in Nat /\ n \in Nat
          BY <1>0, <1>3, <3>3 DEF RowsOK
        <5>. QED
          BY <3>3, <5>1
      <4>. QED
        BY <1>1, <3>3, <4>2, <4>3
    <3>4. CASE j = n /\ k = n
      <4>1. ~(j < k)
        <5>1. n \in Nat
          BY <1>0 DEF RowsOK
        <5>. QED
          BY <3>4, <5>1
      <4>. QED
        BY <3>4, <4>1
    <3>. QED
      BY <1>1, <3>1, <3>2, <3>3, <3>4
  <2>2. ASSUME NEW k \in Nat PROVE \E m \in Nat : Ranks(k)' = 1 .. m
    <3>1. CASE k = i
      <4>1. Ranks(i)' = Ranks(i) \cup {r}
        <5>1. \A l \in OffersOf(i) : offers'[l].rank = offers[l].rank
          BY <1>1, <1>6
        <5> PICK old : old = OffersOf(i)
          OBVIOUS
        <5>2. Ranks(i)' = {offers'[l].rank : l \in old \cup {n}}
          BY <1>4 DEF Ranks
        <5>3. Ranks(i) = {offers'[l].rank : l \in old}
          <6>1. Ranks(i) = {offers[l].rank : l \in old}
            BY DEF Ranks
          <6> DEFINE was(l) == offers[l].rank
                     is(l) == offers'[l].rank
          <6>2. \A l \in old : is(l) = was(l)
            BY <5>1
          <6> HIDE DEF was, is
          <6>3. {was(l) : l \in old} = {is(l) : l \in old}
            BY <6>2
          <6>. QED
            BY <6>1, <6>3 DEF was, is
        <5>4. offers'[n].rank = r
          BY <1>1
        <5>. QED
          BY <5>2, <5>3, <5>4
      <4>2. Ranks(i)' = 1 .. r
        BY <1>2, <4>1
      <4>. QED
        BY <1>2, <3>1, <4>2
    <3>2. CASE k # i
      <4>1. Ranks(k)' = Ranks(k)
        <5>1. \A l \in OffersOf(k) : offers'[l].rank = offers[l].rank
          BY <1>1 DEF OffersOf
        <5>. QED
          BY <1>5, <3>2, <5>1 DEF Ranks
      <4>. QED
        BY <4>1 DEF ChainIInv, Chained
    <3>. QED
      BY <3>1, <3>2
  <2>. QED
    BY <2>1, <2>2 DEF Chained
<1>. QED
  BY <1>9, <1>10, <1>11, <1>12, <1>13 DEF ChainIInv, Borne

LEMMA OneLast ==
  ASSUME Shapes, Chained, NEW j \in DOMAIN offers, NEW k \in DOMAIN offers,
         offers[j].sale = offers[k].sale, LastOf(j), LastOf(k)
  PROVE  j = k
<1>1. j \in OffersOf(offers[k].sale) /\ k \in OffersOf(offers[j].sale)
  BY DEF OffersOf
<1>2. offers[j].rank <= offers[k].rank /\ offers[k].rank <= offers[j].rank
  BY <1>1 DEF LastOf
<1>3. offers[j] \in Offer /\ offers[k] \in Offer
  BY DEF Shapes, RowsOK
<1>4. offers[j].rank \in Nat /\ offers[k].rank \in Nat
  BY <1>3 DEF Offer
<1>5. offers[j].rank = offers[k].rank
  BY <1>2, <1>4
<1>. QED
  BY <1>5, Zenon DEF Chained

LEMMA FirstOfferChain ==
  ASSUME Shapes, ChainIInv, NEW h \in Workers, SettleInsertsOffer(h)
  PROVE  ChainIInv'
<1> PICK s : s = work[h]
  OBVIOUS
<1>0. SlotOK(s) /\ RowsOK /\ s.at = "insertOffer" /\ UNCHANGED sales
  BY DEF Shapes, SlotsOK, SettleInsertsOffer, Doing
<1>1. s.bidder \in Bidders /\ s.sale \in DOMAIN sales /\ s.sale \in Nat \ {0}
  BY <1>0 DEF SlotOK, Fits, RowsOK
<1> PICK row : row = [sale |-> s.sale, bidder |-> s.bidder, rank |-> 1,
                      status |-> "PENDING_PAYMENT", over |-> FALSE, tx |-> NoTx,
                      penalties |-> 0, inTime |-> FALSE, unlisted |-> FALSE]
  OBVIOUS
<1>2. row \in Offer
  BY <1>1 DEF Offer
<1>3. offers' = Append(offers, row)
  BY DEF SettleInsertsOffer, NewOffer
<1>4. work' = [work EXCEPT ![h] = NoWork]
  BY DEF SettleInsertsOffer, StopsWork
<1>5. Sheds(s, NoWork) /\ NoWork.at \notin {"insertOffer", "offerNext"}
  BY DEF Sheds, Bears, ToPenalise, Bearing, NoWork
<1>6. OffersOf(s.sale) = {}
  BY <1>0 DEF ChainIInv, Borne, ChoiceOK
<1>7. Ranks(s.sale) = 1 .. row.rank - 1
  BY <1>6 DEF Ranks
<1>8. ASSUME NEW g \in Workers, g # h
      PROVE  ~(work[g].at = "insertOffer" /\ work[g].sale = row.sale)
  <2>1. ~BothInsert(s, work[g])
    BY <1>8 DEF ChainIInv, AllApart, Apart
  <2>. QED
    BY <1>0, <2>1 DEF BothInsert
<1>9. /\ row.sale = s.sale /\ row.sale \in DOMAIN sales
      /\ row.status = "PENDING_PAYMENT" /\ row.penalties = 0 /\ ~row.inTime
  BY <1>1
<1>. QED
  BY <1>0, <1>2, <1>3, <1>4, <1>5, <1>6, <1>7, <1>8, <1>9, AddsChain

LEMMA NextOfferChain ==
  ASSUME Shapes, ChainIInv, NEW h \in Workers, OffersToNext(h), bid[work[h].bidder] # 0
  PROVE  ChainIInv'
<1> PICK s : s = work[h]
  OBVIOUS
<1> PICK o : o = s.offer
  OBVIOUS
<1> PICK i : i = s.sale
  OBVIOUS
<1> PICK r : r = offers[o].rank
  OBVIOUS
<1>0. SlotOK(s) /\ SlotsOK /\ RowsOK /\ s.at = "offerNext" /\ UNCHANGED sales
  BY DEF Shapes, SlotsOK, OffersToNext, Doing
<1>1. /\ o \in DOMAIN offers /\ offers[o].sale = i /\ o \notin s.todo
      /\ s.bidder \in Bidders
      /\ s.unlisted \in BOOLEAN
  BY <1>0 DEF SlotOK, Fits, Bearing, Work
<1>2. i \in DOMAIN sales /\ i \in Nat \ {0} /\ r \in Nat \ {0}
  <2>1. offers[o] \in Offer
    BY <1>0, <1>1 DEF RowsOK
  <2>. QED
    BY <1>0, <1>1, <2>1 DEF RowsOK, Offer
<1> PICK row : row = [sale |-> i, bidder |-> s.bidder, rank |-> r + 1,
                      status |-> "PENDING_PAYMENT", over |-> FALSE, tx |-> NoTx,
                      penalties |-> 0, inTime |-> FALSE, unlisted |-> s.unlisted]
  OBVIOUS
<1>3. row \in Offer
  <2>1. r + 1 \in Nat \ {0}
    BY <1>2
  <2>. QED
    BY <1>1, <1>2, <2>1 DEF Offer
<1>4. /\ row.sale = i /\ row.sale \in DOMAIN sales /\ row.rank = r + 1
      /\ row.status = "PENDING_PAYMENT" /\ row.penalties = 0 /\ ~row.inTime
      /\ row.bidder = s.bidder /\ row.unlisted = s.unlisted
  BY <1>2
<1>5. offers' = Append(offers, row)
  BY DEF OffersToNext, NewOffer
<1> PICK new : new = [s EXCEPT !.at = "moveSale"]
  OBVIOUS
<1>6. work' = [work EXCEPT ![h] = new]
  BY <1>0 DEF OffersToNext, GoesOnTo, SlotsOK
<1>7. new.at = "moveSale" /\ new.todo = s.todo /\ new.offer = o
  BY <1>0 DEF SlotOK, Work
<1>8. Sheds(s, new)
  BY <1>7 DEF Sheds, Bears, ToPenalise, Bearing
<1>9. Bears(s, o)
  BY <1>0 DEF Bears, Bearing
<1>10. /\ offers[o].status # "PENDING_PAYMENT" /\ ~offers[o].inTime /\ LastOf(o)
       /\ Chained
  BY <1>1, <1>9 DEF ChainIInv, Borne, BorneOK
<1>11. ASSUME NEW j \in OffersOf(i), LastOf(j) PROVE j = o
  BY <1>1, <1>10, <1>11, OneLast DEF OffersOf
<1>12. Ranks(i) = 1 .. row.rank - 1
  <2>1. PICK n \in Nat : Ranks(i) = 1 .. n
    BY <1>2 DEF ChainIInv, Chained
  <2>2. r \in 1 .. n
    BY <1>1, <2>1 DEF Ranks, OffersOf
  <2>3. n \in Ranks(i)
    BY <2>1, <2>2
  <2>4. PICK l \in OffersOf(i) : offers[l].rank = n
    BY <2>3 DEF Ranks
  <2>5. n <= r
    BY <1>1, <1>10, <2>4 DEF LastOf
  <2>6. n = r /\ row.rank - 1 = r
    BY <1>2, <1>4, <2>2, <2>5
  <2>. QED
    BY <2>1, <2>6
<1>13. ASSUME NEW j \in OffersOf(i)
       PROVE  /\ offers[j].bidder = row.bidder => row.unlisted
              /\ offers[j].status # "PENDING_PAYMENT"
              /\ ~offers[j].inTime
              /\ \A g \in Workers : ~Bears(work'[g], j)
  <2>0. j \in DOMAIN offers /\ OfferOK(j)
    BY DEF OffersOf, ChainIInv
  <2>1. offers[j].bidder = row.bidder => row.unlisted
    <3>1. ~s.unlisted => s.bidder \notin Asked(i)
      BY <1>0 DEF ChainIInv, Borne, ChoiceOK
    <3>2. offers[j].bidder \in Asked(i)
      BY DEF Asked, OffersOf
    <3>. QED
      BY <1>4, <3>1, <3>2
  <2>2. offers[j].status # "PENDING_PAYMENT" /\ ~offers[j].inTime
    BY <1>10, <1>11, <2>0 DEF OfferOK
  <2>3. ASSUME NEW g \in Workers, Bears(work'[g], j) PROVE FALSE
    <3>1. CASE g = h
      <4>1. j \in s.todo
        BY <1>0, <1>6, <1>7, <2>3, <3>1 DEF SlotsOK, Bears, Bearing
      <4>2. Bears(s, j)
        BY <4>1 DEF Bears
      <4>3. LastOf(j)
        BY <2>0, <4>2 DEF ChainIInv, Borne, BorneOK
      <4>. QED
        BY <1>1, <1>11, <4>1, <4>3
    <3>2. CASE g # h
      <4>1. Bears(work[g], j)
        BY <1>0, <1>6, <2>3, <3>2 DEF SlotsOK
      <4>2. LastOf(j)
        BY <2>0, <4>1 DEF ChainIInv, Borne, BorneOK
      <4>3. j = o
        BY <1>11, <4>2
      <4>. QED
        BY <1>9, <3>2, <4>1, <4>3 DEF ChainIInv, AllApart, Apart
    <3>. QED
      BY <3>1, <3>2
  <2>. QED
    BY <2>1, <2>2, <2>3
<1>14. ASSUME NEW g \in Workers PROVE ~(work[g].at = "insertOffer" /\ work[g].sale = row.sale)
  <2>1. o \in OffersOf(i)
    BY <1>1 DEF OffersOf
  <2>. QED
    BY <1>4, <2>1 DEF ChainIInv, Borne, ChoiceOK
<1>15. /\ Ranks(row.sale) = 1 .. row.rank - 1
       /\ \A j \in OffersOf(row.sale) :
             /\ offers[j].bidder = row.bidder => row.unlisted
             /\ offers[j].status # "PENDING_PAYMENT"
             /\ ~offers[j].inTime
             /\ \A g \in Workers : ~Bears(work'[g], j)
  <2>1. row.sale = i
    BY <1>4
  <2>. QED
    BY <1>12, <1>13, <2>1, Zenon
<1>16. /\ row.sale \in DOMAIN sales
       /\ row.status = "PENDING_PAYMENT" /\ row.penalties = 0 /\ ~row.inTime
       /\ Sheds(work[h], new) /\ new.at \notin {"insertOffer", "offerNext"}
  BY <1>4, <1>7, <1>8
<1>17. \A g \in Workers : g # h => ~(work[g].at = "insertOffer" /\ work[g].sale = row.sale)
  BY <1>14
<1>. QED
  BY <1>0, <1>3, <1>5, <1>6, <1>15, <1>16, <1>17, AddsChain, ZenonT(60)

LEMMA ChainNext ==
  Shapes /\ ChainIInv /\ [CascadeNext]_cascadeVars => ChainIInv'
<1> SUFFICES ASSUME Shapes, ChainIInv, [CascadeNext]_cascadeVars PROVE ChainIInv'
  OBVIOUS
<1>0. /\ \A s \in Settlers : s \in Workers
      /\ \A c \in Checkers : c \in Workers
      /\ \A h \in Hooks : h \in Workers
  BY DEF Workers
<1>1. ASSUME NEW h \in Settlers, SettleStep(h) PROVE ChainIInv'
  <2>1. CASE SettleInsertsOffer(h)
    BY <1>0, <2>1, FirstOfferChain
  <2>2. CASE SettleReads(h) \/ SettleInsertsSale(h)
    <3>1. UNCHANGED offers
      BY <2>2 DEF SettleReads, SettleInsertsSale
    <3>. QED
      BY <1>0, <1>1, <3>1, SettleLightens, LightChain, SaleChain
  <2>. QED
    BY <1>1, <2>1, <2>2 DEF SettleStep
<1>2. ASSUME NEW h \in Checkers, CheckStep(h) PROVE ChainIInv'
  <2>1. CASE OffersToNext(h)
    <3>1. CASE bid[work[h].bidder] = 0
      <4>1. UNCHANGED offers /\ NextOffer(h)
        BY <2>1, <3>1 DEF OffersToNext
      <4>. QED
        BY <1>0, <4>1, NextOfferLightens, LightChain
    <3>2. CASE bid[work[h].bidder] # 0
      BY <1>0, <2>1, <3>2, NextOfferChain
    <3>. QED
      BY <3>1, <3>2
  <2>2. CASE LooksForNext(h) \/ MovesSale(h) \/ CancelsSale(h) \/ EndsAuction(h) \/ Relists(h)
    <3>1. UNCHANGED offers
      BY <2>2 DEF LooksForNext, MovesSale, CancelsSale, EndsAuction, Relists
    <3>2. CASE Lightens(h)
      BY <1>0, <3>1, <3>2, LightChain
    <3>3. CASE ClaimsExpired(h)
      BY <1>0, <3>3, ClaimChain
    <3>4. CASE LooksForNext(h) /\ Choosing(h, FALSE)
      <4>1. work[h].at = "look"
        BY <3>4 DEF LooksForNext, Doing
      <4>. QED
        BY <1>0, <3>1, <3>4, <4>1, ChoosingChain
    <3>. QED
      BY <1>2, <3>2, <3>3, <3>4, CheckLightens
  <2>. QED
    BY <1>0, <1>2, <2>1, <2>2, ClaimChain, PenaltyChain DEF CheckStep, CascadeStep
<1>3. ASSUME NEW h \in Hooks, HookStep(h) PROVE ChainIInv'
  <2>1. CASE HookAccepts(h)
    BY <1>0, <1>3, <2>1, HookLightens, AcceptsChain
  <2>2. CASE ~HookAccepts(h)
    <3>1. UNCHANGED offers
      BY <1>3, <2>2 DEF HookStep, HookSells, HookFindsSale, HookFindsOffer, HookFindsNothing,
         HookHolds, HookSettles
    <3>. QED
      BY <1>0, <1>3, <3>1, HookLightens, LightChain
  <2>. QED
    BY <2>1, <2>2
<1>4. ASSUME NEW h \in Workers, CallFails(h) \/ LookFails(h) \/ Dies(h) PROVE ChainIInv'
  <2>1. UNCHANGED offers
    BY <1>4 DEF CallFails, LookFails, Dies
  <2>2. CASE LookFails(h) /\ Choosing(h, TRUE)
    <3>1. work[h].at = "look"
      BY <2>2 DEF LookFails, Doing
    <3>. QED
      BY <2>1, <2>2, <3>1, ChoosingChain
  <2>. QED
    BY <1>4, <2>1, <2>2, FailuresLighten, LightChain
<1>5. ASSUME NEW t \in Txs, PayStep(t) \/ HookRecordsRefusal(t) \/ PaymentDies(t)
      PROVE  UNCHANGED <<offers, work>>
  BY <1>5 DEF PayStep, StartsPayment, ProcessorTakes, ProcessorDefers, ProcessorDeclines,
     BuyerCompletes, RecordsPayment, HookRecordsRefusal, PaymentDies
<1>6. CASE UNCHANGED <<offers, work>>
  BY <1>6, SameChain
<1>7. CASE UNCHANGED cascadeVars
  BY <1>6, <1>7 DEF cascadeVars
<1>8. CASE CascadeNext
  BY <1>0, <1>1, <1>2, <1>3, <1>4, <1>5, <1>6, <1>8, DeliveryChain, WindowChain, Zenon
  DEF CascadeNext
<1>. QED
  BY <1>7, <1>8

LEMMA ChainAlways == CascadeSpec => []ChainIInv
<1>1. CascadeInit => ChainIInv
  BY ChainInit
<1>2. Shapes /\ ChainIInv /\ [CascadeNext]_cascadeVars => ChainIInv'
  BY ChainNext
<1>. QED
  BY <1>1, <1>2, ShapesAlways, PTL DEF CascadeSpec

-----------------------------------------------------------------------------
LEMMA ChainImpliesOfferChain == Shapes /\ ChainIInv => OfferChain
<1> SUFFICES ASSUME Shapes, ChainIInv, NEW i \in DOMAIN sales
             PROVE  /\ \A j, k \in OpenOffers(i) : j = k
                    /\ Ranks(i) = 1 .. Cardinality(OffersOf(i))
                    /\ \A j, k \in OffersOf(i) :
                          offers[j].bidder = offers[k].bidder /\ j < k => offers[k].unlisted
  BY DEF OfferChain, Ranks
<1>1. \A j, k \in OpenOffers(i) : j = k
  BY OneLast DEF OpenOffers, ChainIInv, OfferOK
<1>2. \A j, k \in OffersOf(i) :
         offers[j].bidder = offers[k].bidder /\ j < k => offers[k].unlisted
  BY DEF OffersOf, ChainIInv, Chained
<1>3. Ranks(i) = 1 .. Cardinality(OffersOf(i))
  <2>1. i \in Nat
    BY DEF Shapes, RowsOK
  <2>2. PICK n \in Nat : Ranks(i) = 1 .. n
    BY <2>1 DEF ChainIInv, Chained
  <2> PICK f : f = [j \in OffersOf(i) |-> offers[j].rank]
    OBVIOUS
  <2>3. f \in Bijection(OffersOf(i), 1 .. n)
    <3>1. f \in [OffersOf(i) -> 1 .. n]
      BY <2>2 DEF Ranks
    <3>2. \A j, k \in OffersOf(i) : f[j] = f[k] => j = k
      BY DEF OffersOf, ChainIInv, Chained
    <3>3. \A m \in 1 .. n : \E j \in OffersOf(i) : f[j] = m
      BY <2>2 DEF Ranks
    <3>. QED
      BY <3>1, <3>2, <3>3 DEF Bijection, Injection, Surjection, IsInjective
  <2>4. IsFiniteSet(1 .. n) /\ Cardinality(1 .. n) = n
    BY FS_Interval
  <2>5. OffersOf(i) \subseteq 1 .. Len(offers) /\ IsFiniteSet(1 .. Len(offers))
    <3>1. offers \in Seq(Offer)
      BY DEF Shapes, RowsOK
    <3>. QED
      BY <3>1, FS_Interval DEF OffersOf
  <2>6. IsFiniteSet(OffersOf(i))
    BY <2>5, FS_Subset
  <2>7. Cardinality(OffersOf(i)) = n
    BY <2>3, <2>4, <2>6, FS_Bijection DEF ExistsBijection
  <2>. QED
    BY <2>2, <2>7
<1>. QED
  BY <1>1, <1>2, <1>3

-----------------------------------------------------------------------------
(* No expired offer is dropped.                                            *)

(* The steps of a run that has claimed offers.                             *)
Cascading == Bearing \cup {"moveSale", "endAuction", "relist"}

(* Only a run of check-payment-window has claimed offers to do.            *)
Tidy(s) == s.todo # {} => s.at \in Cascading

Tidied == \A h \in Workers : Tidy(work[h])

DroppedIInv == Tidied /\ NoOfferDropped

(* The slot of a handler is written; with it the handler keeps what it     *)
(* bears, or all of it but the offer it is at.                             *)
WritesSlot(h) == \E new : work' = [work EXCEPT ![h] = new] /\ Tidy(new)

Keeps(h) == \E new : /\ work' = [work EXCEPT ![h] = new]
                     /\ Tidy(new)
                     /\ \A j : Bears(work[h], j) => Bears(new, j)

Passes(h) == \E new : /\ work' = [work EXCEPT ![h] = new]
                      /\ Tidy(new)
                      /\ \A j : Bears(work[h], j) => Bears(new, j) \/ j = work[h].offer

LEMMA BearsNothing ==
  ASSUME NEW s, Tidy(s), s.at \notin Cascading, NEW j
  PROVE  ~Bears(s, j)
BY DEF Tidy, Cascading, Bears

LEMMA StopWrites ==
  ASSUME NEW h, StopsWork(h)
  PROVE  WritesSlot(h)
<1>1. Tidy(NoWork)
  BY DEF Tidy, NoWork
<1>. QED
  BY <1>1 DEF WritesSlot, StopsWork

(* The claimed offer that a run goes on with comes from those to do.       *)
LEMMA NextOfferKeeps ==
  ASSUME NEW h, NextOffer(h)
  PROVE  WritesSlot(h) /\ (work[h].at \notin Bearing => Keeps(h))
<1> PICK s : s = work[h]
  OBVIOUS
<1>1. CASE s.todo = {}
  <2>1. work' = [work EXCEPT ![h] = NoWork] /\ Tidy(NoWork)
    BY <1>1 DEF NextOffer, StopsWork, Tidy, NoWork
  <2>2. s.at \notin Bearing => \A j : Bears(s, j) => Bears(NoWork, j)
    BY <1>1 DEF Bears
  <2>. QED
    BY <2>1, <2>2 DEF WritesSlot, Keeps
<1>2. CASE s.todo # {}
  <2>1. PICK j \in s.todo :
            work' = [work EXCEPT ![h] = [NoWork EXCEPT !.at = "penalise",
                                                       !.todo = s.todo \ {j},
                                                       !.offer = j,
                                                       !.sale = offers[j].sale]]
    BY <1>2 DEF NextOffer
  <2> PICK new : new = [NoWork EXCEPT !.at = "penalise", !.todo = s.todo \ {j},
                                      !.offer = j, !.sale = offers[j].sale]
    OBVIOUS
  <2>2. new.at = "penalise" /\ new.todo = s.todo \ {j} /\ new.offer = j
    BY DEF NoWork
  <2>3. Tidy(new)
    BY <2>2 DEF Tidy, Cascading, Bearing
  <2>4. s.at \notin Bearing => \A k : Bears(s, k) => Bears(new, k)
    BY <2>2 DEF Bears, Bearing
  <2>. QED
    BY <2>1, <2>3, <2>4 DEF WritesSlot, Keeps
<1>. QED
  BY <1>1, <1>2

LEMMA GoOnKeeps ==
  ASSUME SlotsOK, NEW h \in Workers, Tidy(work[h]), NEW label, GoesOnTo(h, label),
         work[h].at \in Cascading => label \in Cascading
  PROVE  /\ Passes(h)
         /\ (work[h].at \in Bearing => label \in Bearing) => Keeps(h)
<1> PICK s : s = work[h]
  OBVIOUS
<1> PICK new : new = [s EXCEPT !.at = label]
  OBVIOUS
<1>1. new.at = label /\ new.todo = s.todo /\ new.offer = s.offer
  BY DEF SlotsOK, SlotOK, Work
<1>2. Tidy(new)
  BY <1>1 DEF Tidy
<1>3. \A j : Bears(s, j) => Bears(new, j) \/ j = s.offer
  BY <1>1 DEF Bears
<1>4. (s.at \in Bearing => label \in Bearing) => \A j : Bears(s, j) => Bears(new, j)
  BY <1>1 DEF Bears
<1>5. work' = [work EXCEPT ![h] = new]
  BY DEF GoesOnTo, SlotsOK
<1>. QED
  BY <1>2, <1>3, <1>4, <1>5 DEF Keeps, Passes

(* A handler that is not a run in its cascade has nothing to keep.         *)
LEMMA EmptyKeeps ==
  ASSUME NEW h, Tidy(work[h]), work[h].at \notin Cascading,
         NEW new, work' = [work EXCEPT ![h] = new], Tidy(new)
  PROVE  Keeps(h)
BY BearsNothing DEF Keeps

LEMMA SettleKeeps ==
  ASSUME SlotsOK, NEW h \in Workers, Tidy(work[h]), SettleStep(h)
  PROVE  Keeps(h)
<1> PICK s : s = work[h]
  OBVIOUS
<1>0. s.at \notin Cascading
  BY DEF SettleStep, SettleReads, SettleInsertsSale, SettleInsertsOffer, Doing,
     Cascading, Bearing
<1>1. CASE SettleReads(h)
  <2> PICK new : new = [NoWork EXCEPT !.at = "insertSale", !.bidder = auction.winner]
    OBVIOUS
  <2>1. work' = [work EXCEPT ![h] = new] /\ Tidy(new)
    BY <1>1 DEF SettleReads, NoWork, Tidy
  <2>. QED
    BY <1>0, <2>1, EmptyKeeps
<1>2. ASSUME StopsWork(h) PROVE Keeps(h)
  BY <1>0, <1>2, StopWrites, EmptyKeeps DEF WritesSlot
<1>3. CASE SettleInsertsSale(h) /\ s.bidder # NoBidder
  <2> PICK new : new = [s EXCEPT !.at = "insertOffer", !.sale = Len(sales) + 1]
    OBVIOUS
  <2>1. work' = [work EXCEPT ![h] = new] /\ new.todo = s.todo
    BY <1>3 DEF SettleInsertsSale, SlotsOK, SlotOK, Work
  <2>2. Tidy(new)
    BY <1>0, <2>1 DEF Tidy
  <2>. QED
    BY <1>0, <2>1, <2>2, EmptyKeeps
<1>4. CASE SettleInsertsSale(h) /\ s.bidder = NoBidder
  BY <1>2, <1>4 DEF SettleInsertsSale
<1>5. CASE SettleInsertsOffer(h)
  BY <1>2, <1>5 DEF SettleInsertsOffer
<1>. QED
  BY <1>1, <1>3, <1>4, <1>5 DEF SettleStep

LEMMA HookKeeps ==
  ASSUME SlotsOK, NEW h \in Workers, Tidy(work[h]), HookStep(h)
  PROVE  Keeps(h)
<1> PICK s : s = work[h]
  OBVIOUS
<1>0. s.at \notin Cascading
  BY DEF HookStep, HookSells, HookFindsSale, HookFindsOffer, HookFindsNothing,
     HookAccepts, HookHolds, HookSettles, Doing, Cascading, Bearing
<1>1. ASSUME NEW label, GoesOnTo(h, label) PROVE Keeps(h)
  <2>1. s.at \notin Bearing
    BY <1>0 DEF Cascading
  <2>. QED
    BY <1>0, <1>1, <2>1, GoOnKeeps
<1>2. ASSUME StopsWork(h) PROVE Keeps(h)
  BY <1>0, <1>2, StopWrites, EmptyKeeps DEF WritesSlot
<1>3. CASE HookFindsSale(h)
  <2>1. PICK i : work' = [work EXCEPT ![h].at = "findOffer", ![h].sale = i]
    BY <1>3 DEF HookFindsSale
  <2> PICK new : new = [s EXCEPT !.at = "findOffer", !.sale = i]
    OBVIOUS
  <2>2. work' = [work EXCEPT ![h] = new] /\ new.todo = s.todo
    BY <2>1 DEF SlotsOK, SlotOK, Work
  <2>3. Tidy(new)
    BY <1>0, <2>2 DEF Tidy
  <2>. QED
    BY <1>0, <2>2, <2>3, EmptyKeeps
<1>4. CASE HookFindsOffer(h)
  <2>1. PICK j : work' = [work EXCEPT ![h].at = "accept", ![h].offer = j,
                                      ![h].bidder = offers[j].bidder]
    BY <1>4 DEF HookFindsOffer
  <2> PICK new : new = [s EXCEPT !.at = "accept", !.offer = j, !.bidder = offers[j].bidder]
    OBVIOUS
  <2>2. work' = [work EXCEPT ![h] = new] /\ new.todo = s.todo
    BY <2>1 DEF SlotsOK, SlotOK, Work
  <2>3. Tidy(new)
    BY <1>0, <2>2 DEF Tidy
  <2>. QED
    BY <1>0, <2>2, <2>3, EmptyKeeps
<1>. QED
  BY <1>1, <1>2, <1>3, <1>4 DEF HookStep, HookSells, HookFindsNothing, HookAccepts,
     HookHolds, HookSettles

LEMMA DeliveryKeeps ==
  ASSUME NEW h, NEW t, Tidy(work[h]), HookRecordsPayment(h, t)
  PROVE  Keeps(h)
<1> PICK new : new = [NoWork EXCEPT !.at = "sell", !.tx = t]
  OBVIOUS
<1>1. work' = [work EXCEPT ![h] = new] /\ Tidy(new)
  BY DEF HookRecordsPayment, NoWork, Tidy
<1>2. work[h].at \notin Cascading
  BY DEF HookRecordsPayment, Doing, Cascading, Bearing
<1>. QED
  BY <1>1, <1>2, EmptyKeeps

LEMMA ChoosesKeeps ==
  ASSUME SlotsOK, NEW h \in Workers, Tidy(work[h]), work[h].at = "look",
         NEW next, NEW unlisted, Chooses(h, next, unlisted)
  PROVE  Keeps(h)
<1> PICK s : s = work[h]
  OBVIOUS
<1>1. CASE next = {}
  <2>1. GoesOnTo(h, "cancelSale")
    BY <1>1 DEF Chooses
  <2>. QED
    BY <2>1, GoOnKeeps DEF Cascading, Bearing
<1>2. CASE next # {}
  <2>1. PICK b \in next :
            work' = [work EXCEPT ![h].at = "offerNext", ![h].bidder = b,
                                 ![h].unlisted = unlisted]
    BY <1>2 DEF Chooses
  <2> PICK new : new = [s EXCEPT !.at = "offerNext", !.bidder = b, !.unlisted = unlisted]
    OBVIOUS
  <2>2. work' = [work EXCEPT ![h] = new] /\ new.at = "offerNext"
        /\ new.todo = s.todo /\ new.offer = s.offer
    BY <2>1 DEF SlotsOK, SlotOK, Work
  <2>3. Tidy(new) /\ \A j : Bears(s, j) => Bears(new, j)
    BY <2>2 DEF Tidy, Cascading, Bearing, Bears
  <2>. QED
    BY <2>2, <2>3 DEF Keeps
<1>. QED
  BY <1>1, <1>2

LEMMA ClaimKeeps ==
  ASSUME NEW h, Tidy(work[h]), ClaimsExpired(h)
  PROVE  Keeps(h) /\ \E new : /\ work' = [work EXCEPT ![h] = new]
                              /\ \A j \in Expired : Bears(new, j)
<1>1. PICK e \in Expired :
         work' = [work EXCEPT ![h] = [NoWork EXCEPT !.at = "penalise",
                                                    !.todo = Expired \ {e},
                                                    !.offer = e,
                                                    !.sale = offers[e].sale]]
  BY DEF ClaimsExpired
<1> PICK new : new = [NoWork EXCEPT !.at = "penalise", !.todo = Expired \ {e},
                                    !.offer = e, !.sale = offers[e].sale]
  OBVIOUS
<1>2. new.at = "penalise" /\ new.todo = Expired \ {e} /\ new.offer = e
  BY DEF NoWork
<1>3. Tidy(new) /\ \A j \in Expired : Bears(new, j)
  BY <1>2 DEF Tidy, Cascading, Bears, Bearing
<1>4. work[h].at \notin Cascading
  BY DEF ClaimsExpired, Doing, Cascading, Bearing
<1>. QED
  BY <1>1, <1>3, <1>4, EmptyKeeps

LEMMA CheckKeeps ==
  ASSUME SlotsOK, NEW h \in Workers, Tidy(work[h]), CheckStep(h)
  PROVE  \/ Keeps(h)
         \/ WritesSlot(h) /\ broken'
         \/ Passes(h) /\ OffersToNext(h) /\ bid[work[h].bidder] # 0
         \/ Passes(h) /\ CancelsSale(h)
<1>1. CASE ClaimsExpired(h)
  BY <1>1, ClaimKeeps
<1>2. CASE apply_payment_penalty(h)
  <2>1. work[h].at = "penalise" /\ GoesOnTo(h, "look")
    BY <1>2 DEF apply_payment_penalty, Doing
  <2>. QED
    BY <2>1, GoOnKeeps DEF Cascading, Bearing
<1>3. CASE LooksForNext(h)
  BY <1>3, ChoosesKeeps DEF LooksForNext, Doing
<1>4. CASE OffersToNext(h) /\ bid[work[h].bidder] = 0
  BY <1>4, NextOfferKeeps DEF OffersToNext
<1>5. CASE OffersToNext(h) /\ bid[work[h].bidder] # 0
  <2>1. work[h].at = "offerNext" /\ GoesOnTo(h, "moveSale")
    BY <1>5 DEF OffersToNext, Doing
  <2>2. Passes(h)
    BY <2>1, GoOnKeeps DEF Cascading, Bearing
  <2>. QED
    BY <1>5, <2>2
<1>6. CASE MovesSale(h)
  <2>1. work[h].at \notin Bearing /\ NextOffer(h)
    BY <1>6 DEF MovesSale, Doing, Bearing
  <2>. QED
    BY <2>1, NextOfferKeeps
<1>7. CASE CancelsSale(h)
  <2>1. work[h].at = "cancelSale" /\ GoesOnTo(h, "endAuction")
    BY <1>7 DEF CancelsSale, Doing
  <2>2. Passes(h)
    BY <2>1, GoOnKeeps DEF Cascading, Bearing
  <2>. QED
    BY <1>7, <2>2
<1>8. CASE EndsAuction(h)
  <2>1. work[h].at = "endAuction" /\ GoesOnTo(h, "relist")
    BY <1>8 DEF EndsAuction, Doing
  <2>. QED
    BY <2>1, GoOnKeeps DEF Cascading, Bearing
<1>9. CASE Relists(h)
  <2>1. work[h].at \notin Bearing /\ NextOffer(h)
    BY <1>9 DEF Relists, Doing, Bearing
  <2>. QED
    BY <2>1, NextOfferKeeps
<1>. QED
  BY <1>1, <1>2, <1>3, <1>4, <1>5, <1>6, <1>7, <1>8, <1>9 DEF CheckStep, CascadeStep

LEMMA FailuresKeep ==
  ASSUME SlotsOK, NEW h \in Workers, Tidy(work[h]),
         CallFails(h) \/ LookFails(h) \/ Dies(h)
  PROVE  Keeps(h) \/ (WritesSlot(h) /\ (broken' \/ h \notin Checkers))
<1>1. CASE Dies(h)
  BY <1>1, StopWrites DEF Dies
<1>2. CASE LookFails(h)
  <2>1. work[h].at = "look"
    BY <1>2 DEF LookFails, Doing
  <2>2. ASSUME GoesOnTo(h, "cancelSale") PROVE Keeps(h)
    BY <2>1, <2>2, GoOnKeeps DEF Cascading, Bearing
  <2>. QED
    BY <1>2, <2>1, <2>2, ChoosesKeeps, NextOfferKeeps DEF LookFails
<1>3. CASE CallFails(h)
  <2>1. CASE work[h].at \in DOMAIN AfterError
    <3> PICK label : label = AfterError[work[h].at]
      OBVIOUS
    <3>1. GoesOnTo(h, label)
      BY <1>3, <2>1 DEF CallFails
    <3>2. work[h].at \in Cascading => label \in Cascading
      BY <2>1 DEF AfterError, Cascading, Bearing
    <3>3. work[h].at \in Bearing => label \in Bearing \/ work[h].at = "cancelSale"
      BY <2>1 DEF AfterError, Bearing
    <3>4. CASE work[h].at = "cancelSale"
      <4>1. broken'
        BY <1>3, <3>4 DEF CallFails, Harmless
      <4>2. Passes(h)
        BY <3>1, <3>2, GoOnKeeps
      <4>. QED
        BY <4>1, <4>2 DEF WritesSlot, Passes
    <3>5. CASE work[h].at # "cancelSale"
      BY <3>1, <3>2, <3>3, <3>5, GoOnKeeps
    <3>. QED
      BY <3>4, <3>5
  <2>2. CASE work[h].at \notin DOMAIN AfterError
    <3>1. NextOffer(h) \/ StopsWork(h)
      BY <1>3, <2>2 DEF CallFails
    <3>2. WritesSlot(h)
      BY <3>1, NextOfferKeeps, StopWrites
    <3>3. CASE work[h].at = "relist"
      <4>1. work[h].at \notin Bearing
        BY <3>3 DEF Bearing
      <4>2. CASE NextOffer(h)
        BY <4>1, <4>2, NextOfferKeeps
      <4>3. CASE h \notin Checkers
        BY <3>2, <4>3
      <4>. QED
        BY <1>3, <2>2, <4>2, <4>3 DEF CallFails
    <3>4. CASE work[h].at # "relist"
      <4>1. work[h].at \notin Harmless
        BY <2>2, <3>4 DEF Harmless, AfterError
      <4>. QED
        BY <1>3, <3>2, <4>1 DEF CallFails
    <3>. QED
      BY <3>3, <3>4
  <2>. QED
    BY <2>1, <2>2
<1>. QED
  BY <1>1, <1>2, <1>3

(* What is resolved stays so, and an offer keeps its settlement and rank.  *)
LEMMA ResolvedStays ==
  ASSUME Shapes, [CascadeNext]_cascadeVars, NEW i, Resolved(i)
  PROVE  Resolved(i)'
<1>0. sales \in Seq(Settlement) /\ i \in DOMAIN sales /\ sales[i] \in Settlement
      /\ sales[i].status # "PENDING_PAYMENT"
  BY DEF Shapes, RowsOK, Resolved
<1> SUFFICES i \in DOMAIN sales' /\ sales'[i].status # "PENDING_PAYMENT"
  BY DEF Resolved
<1>1. ASSUME NEW h, SettleInsertsSale(h)
      PROVE  i \in DOMAIN sales' /\ sales'[i].status # "PENDING_PAYMENT"
  <2>1. PICK row : sales' = Append(sales, row)
    BY <1>1 DEF SettleInsertsSale
  <2>. QED
    BY <1>0, <2>1
<1>2. ASSUME NEW h, MovesSale(h) \/ CancelsSale(h) \/ HookHolds(h)
      PROVE  i \in DOMAIN sales' /\ sales'[i].status # "PENDING_PAYMENT"
  BY <1>0, <1>2 DEF MovesSale, CancelsSale, HookHolds, Settlement
<1>3. CASE UNCHANGED sales
  BY <1>0, <1>3
<1>. QED
  BY <1>1, <1>2, <1>3, SalesWriters

LEMMA RankStays ==
  ASSUME Shapes, [CascadeNext]_cascadeVars, NEW j \in DOMAIN offers
  PROVE  /\ j \in DOMAIN offers'
         /\ offers'[j].sale = offers[j].sale
         /\ offers'[j].rank = offers[j].rank
<1>0. offers \in Seq(Offer) /\ offers[j] \in Offer
  BY DEF Shapes, RowsOK
<1> DEFINE Goal == /\ j \in DOMAIN offers'
                   /\ offers'[j].sale = offers[j].sale
                   /\ offers'[j].rank = offers[j].rank
<1> SUFFICES Goal
  OBVIOUS
<1>1. ASSUME NEW row, offers' = Append(offers, row) PROVE Goal
  BY <1>0, <1>1
<1>2. ASSUME NEW h \in Workers, SettleInsertsOffer(h) PROVE Goal
  BY <1>1, <1>2 DEF SettleInsertsOffer, NewOffer
<1>3. ASSUME NEW h \in Workers, OffersToNext(h) PROVE Goal
  BY <1>1, <1>3 DEF OffersToNext, NewOffer
<1>4. ASSUME NEW h \in Checkers, ClaimsExpired(h) PROVE Goal
  <2> PICK row : row = offers[j]
    OBVIOUS
  <2>1. DOMAIN offers' = DOMAIN offers
        /\ (offers'[j] = row \/ offers'[j] = [row EXCEPT !.status = "EXPIRED"])
    BY <1>4 DEF ClaimsExpired
  <2>2. row \in Offer
    BY <1>0
  <2>. QED
    BY <2>1, <2>2, ExpiredRow
<1>5. ASSUME NEW h \in Workers, apply_payment_penalty(h) PROVE Goal
  BY <1>0, <1>5 DEF apply_payment_penalty, Offer
<1>6. ASSUME NEW h \in Workers, HookAccepts(h) PROVE Goal
  BY <1>0, <1>6 DEF HookAccepts, Offer
<1>7. ASSUME NEW k \in DOMAIN offers, WindowPasses(k) PROVE Goal
  BY <1>0, <1>7 DEF WindowPasses, Offer
<1>8. CASE UNCHANGED offers
  BY <1>8
<1> HIDE DEF Goal
<1>. QED
  BY <1>2, <1>3, <1>4, <1>5, <1>6, <1>7, <1>8, OffersWriters

LEMMA PassedOnStays ==
  ASSUME Shapes, [CascadeNext]_cascadeVars, NEW j \in DOMAIN offers, PassedOn(j)
  PROVE  PassedOn(j)'
<1> PICK i : i = offers[j].sale
  OBVIOUS
<1>0. i = offers'[j].sale /\ offers'[j].rank = offers[j].rank
  BY RankStays
<1>1. CASE Resolved(i)
  <2>1. Resolved(i)'
    BY <1>1, ResolvedStays
  <2>. QED
    BY <1>0, <2>1 DEF PassedOn, Resolved
<1>2. CASE ~Resolved(i)
  <2>1. PICK k \in DOMAIN offers : offers[k].sale = i /\ offers[k].rank > offers[j].rank
    BY <1>2 DEF PassedOn, OffersOf
  <2>2. k \in DOMAIN offers' /\ offers'[k].sale = i /\ offers'[k].rank > offers'[j].rank
    BY <1>0, <2>1, RankStays
  <2>. QED
    BY <1>0, <2>2 DEF PassedOn, OffersOf
<1>. QED
  BY <1>1, <1>2

(* Only the claim of a run declares an offer expired, and the run that     *)
(* claims it bears it.                                                     *)
LEMMA ExpiredByClaim ==
  ASSUME Shapes, Tidied, [CascadeNext]_cascadeVars, NEW j \in DOMAIN offers',
         offers'[j].status = "EXPIRED"
  PROVE  \/ j \in DOMAIN offers /\ offers[j].status = "EXPIRED"
         \/ \E c \in Checkers : Bears(work'[c], j)
<1>0. offers \in Seq(Offer) /\ \A k \in DOMAIN offers : offers[k] \in Offer
  BY DEF Shapes, RowsOK
<1> DEFINE Goal == \/ j \in DOMAIN offers /\ offers[j].status = "EXPIRED"
                   \/ \E c \in Checkers : Bears(work'[c], j)
<1> SUFFICES Goal
  OBVIOUS
<1>1. ASSUME NEW row, offers' = Append(offers, row), row.status # "EXPIRED" PROVE Goal
  <2>1. DOMAIN offers' = 1 .. Len(offers) + 1 /\ DOMAIN offers = 1 .. Len(offers)
        /\ Len(offers) \in Nat /\ offers'[Len(offers) + 1] = row
    BY <1>0, <1>1
  <2>2. j \in DOMAIN offers /\ offers'[j] = offers[j]
    BY <1>0, <1>1, <2>1
  <2>. QED
    BY <2>2
<1>2. ASSUME NEW h \in Workers, SettleInsertsOffer(h) PROVE Goal
  <2>1. \E row : offers' = Append(offers, row) /\ row.status # "EXPIRED"
    BY <1>2 DEF SettleInsertsOffer, NewOffer
  <2>. QED
    BY <1>1, <2>1
<1>3. ASSUME NEW h \in Workers, OffersToNext(h) PROVE Goal
  <2>1. UNCHANGED offers \/ \E row : offers' = Append(offers, row) /\ row.status # "EXPIRED"
    BY <1>3 DEF OffersToNext, NewOffer
  <2>. QED
    BY <1>1, <2>1
<1>4. ASSUME NEW h \in Checkers, ClaimsExpired(h) PROVE Goal
  <2>1. DOMAIN offers' = DOMAIN offers /\ (j \notin Expired => offers'[j] = offers[j])
    BY <1>4 DEF ClaimsExpired
  <2>2. CASE j \in Expired
    <3>1. h \in Workers
      BY <1>4 DEF Workers
    <3>2. PICK new : work' = [work EXCEPT ![h] = new] /\ Bears(new, j)
      BY <1>4, <2>2, <3>1, ClaimKeeps DEF Tidied
    <3>3. work'[h] = new
      BY <3>1, <3>2 DEF Shapes, SlotsOK
    <3>. QED
      BY <1>4, <3>2, <3>3
  <2>3. CASE j \notin Expired
    BY <2>1, <2>3
  <2>. QED
    BY <2>2, <2>3
<1>5. ASSUME NEW h \in Workers, apply_payment_penalty(h) PROVE Goal
  BY <1>0, <1>5 DEF apply_payment_penalty, Offer
<1>6. ASSUME NEW h \in Workers, HookAccepts(h) PROVE Goal
  <2>1. DOMAIN offers' = DOMAIN offers
        /\ (offers'[j] = offers[j] \/ offers'[j].status = "ACCEPTED")
    BY <1>0, <1>6 DEF HookAccepts, Offer
  <2>. QED
    BY <2>1
<1>7. ASSUME NEW k \in DOMAIN offers, WindowPasses(k) PROVE Goal
  BY <1>0, <1>7 DEF WindowPasses, Offer
<1>8. CASE UNCHANGED offers
  BY <1>8
<1> HIDE DEF Goal
<1>. QED
  BY <1>2, <1>3, <1>4, <1>5, <1>6, <1>7, <1>8, OffersWriters

(* What a step does to the slots of the handlers.                          *)
LEMMA SlotWriters ==
  ASSUME Shapes, Tidied, [CascadeNext]_cascadeVars
  PROVE  \/ UNCHANGED work
         \/ \E h \in Workers :
               \/ Keeps(h)
               \/ WritesSlot(h) /\ (broken' \/ h \notin Checkers)
               \/ Passes(h) /\ OffersToNext(h) /\ bid[work[h].bidder] # 0
               \/ Passes(h) /\ CancelsSale(h)
<1> DEFINE Goal == \/ UNCHANGED work
                   \/ \E h \in Workers :
                         \/ Keeps(h)
                         \/ WritesSlot(h) /\ (broken' \/ h \notin Checkers)
                         \/ Passes(h) /\ OffersToNext(h) /\ bid[work[h].bidder] # 0
                         \/ Passes(h) /\ CancelsSale(h)
<1> SUFFICES Goal
  OBVIOUS
<1>0. /\ \A s \in Settlers : s \in Workers
      /\ \A c \in Checkers : c \in Workers
      /\ \A h \in Hooks : h \in Workers
  BY DEF Workers
<1>1. ASSUME NEW s \in Settlers, SettleStep(s) PROVE Goal
  BY <1>0, <1>1, SettleKeeps DEF Shapes, Tidied
<1>2. ASSUME NEW c \in Checkers, CheckStep(c) PROVE Goal
  <2>1. /\ c \in Workers /\ SlotsOK /\ Tidy(work[c])
    BY <1>0 DEF Shapes, Tidied
  <2>2. \/ Keeps(c)
        \/ WritesSlot(c) /\ broken'
        \/ Passes(c) /\ OffersToNext(c) /\ bid[work[c].bidder] # 0
        \/ Passes(c) /\ CancelsSale(c)
    BY <1>2, <2>1, CheckKeeps
  <2>. QED
    BY <2>1, <2>2
<1>3. ASSUME NEW h \in Hooks, HookStep(h) PROVE Goal
  BY <1>0, <1>3, HookKeeps DEF Shapes, Tidied
<1>4. ASSUME NEW h \in Hooks, NEW t \in Txs, HookRecordsPayment(h, t) PROVE Goal
  BY <1>0, <1>4, DeliveryKeeps DEF Tidied
<1>5. ASSUME NEW h \in Workers, CallFails(h) \/ LookFails(h) \/ Dies(h) PROVE Goal
  BY <1>5, FailuresKeep DEF Shapes, Tidied
<1>6. ASSUME NEW t \in Txs, PayStep(t) \/ HookRecordsRefusal(t) \/ PaymentDies(t)
      PROVE  UNCHANGED work
  BY <1>6 DEF PayStep, StartsPayment, ProcessorTakes, ProcessorDefers, ProcessorDeclines,
     BuyerCompletes, RecordsPayment, HookRecordsRefusal, PaymentDies
<1>7. ASSUME NEW j \in DOMAIN offers, WindowPasses(j) PROVE UNCHANGED work
  BY <1>7 DEF WindowPasses
<1>8. CASE UNCHANGED cascadeVars
  BY <1>8 DEF cascadeVars
<1>9. UNCHANGED work => Goal
  OBVIOUS
<1> HIDE DEF Goal
<1>10. CASE CascadeNext
  BY <1>0, <1>1, <1>2, <1>3, <1>4, <1>5, <1>6, <1>7, <1>9, <1>10, Zenon DEF CascadeNext
<1>11. UNCHANGED cascadeVars => Goal
  BY <1>9 DEF cascadeVars
<1>. QED
  BY <1>10, <1>11

LEMMA TidyNext ==
  ASSUME Shapes, Tidied, [CascadeNext]_cascadeVars
  PROVE  Tidied'
<1>1. CASE UNCHANGED work
  BY <1>1 DEF Tidied, Tidy
<1>2. ASSUME NEW h \in Workers, WritesSlot(h) PROVE Tidied'
  <2>1. PICK new : work' = [work EXCEPT ![h] = new] /\ Tidy(new)
    BY <1>2 DEF WritesSlot
  <2>2. \A g \in Workers : work'[g] = new \/ work'[g] = work[g]
    BY <2>1 DEF Shapes, SlotsOK
  <2>. QED
    BY <2>1, <2>2 DEF Tidied, Tidy
<1>3. \A h : Keeps(h) \/ Passes(h) => WritesSlot(h)
  BY DEF Keeps, Passes, WritesSlot
<1>. QED
  BY <1>1, <1>2, <1>3, SlotWriters

(* An offer that a run bears stays with it, unless the step passes it on   *)
(* or a failure breaks the cascade.                                        *)
LEMMA BorneOrPassed ==
  ASSUME Shapes, Tidied, [CascadeNext]_cascadeVars, NEW c \in Checkers,
         NEW j \in DOMAIN offers, Bears(work[c], j)
  PROVE  broken' \/ PassedOn(j)' \/ Bears(work'[c], j)
<1> DEFINE Goal == broken' \/ PassedOn(j)' \/ Bears(work'[c], j)
<1> SUFFICES Goal
  OBVIOUS
<1>0. c \in Workers /\ SlotsOK /\ work \in [Workers -> Work]
  BY DEF Workers, Shapes, SlotsOK
<1>1. CASE UNCHANGED work
  BY <1>1
<1>2. ASSUME NEW h \in Workers, Keeps(h) PROVE Goal
  <2>1. PICK new : work' = [work EXCEPT ![h] = new] /\ \A k : Bears(work[h], k) => Bears(new, k)
    BY <1>2 DEF Keeps
  <2>2. work'[c] = IF c = h THEN new ELSE work[c]
    BY <1>0, <2>1
  <2>. QED
    BY <2>1, <2>2
<1>3. ASSUME NEW h \in Workers, WritesSlot(h), broken' \/ h \notin Checkers PROVE Goal
  <2>1. PICK new : work' = [work EXCEPT ![h] = new]
    BY <1>3 DEF WritesSlot
  <2>2. h # c => work'[c] = work[c]
    BY <1>0, <2>1
  <2>. QED
    BY <1>3, <2>2
<1>4. ASSUME NEW h \in Workers, Passes(h), c = h /\ j = work[h].offer => PassedOn(j)'
      PROVE  Goal
  <2>1. PICK new : /\ work' = [work EXCEPT ![h] = new]
                   /\ \A k : Bears(work[h], k) => Bears(new, k) \/ k = work[h].offer
    BY <1>4 DEF Passes
  <2>2. work'[c] = IF c = h THEN new ELSE work[c]
    BY <1>0, <2>1
  <2>. QED
    BY <1>4, <2>1, <2>2
<1>5. ASSUME NEW h \in Workers, OffersToNext(h), bid[work[h].bidder] # 0, j = work[h].offer
      PROVE  PassedOn(j)'
  <2>0. /\ offers[j].sale = work[h].sale
        /\ offers \in Seq(Offer)
        /\ offers[j] \in Offer
    BY <1>5 DEF Shapes, SlotsOK, SlotOK, Fits, Bearing, RowsOK, OffersToNext, Doing
  <2>1. /\ offers[j].sale = work[h].sale
        /\ offers[j].rank \in Nat
        /\ offers \in Seq(Offer)
    BY <2>0 DEF Offer
  <2>2. PICK row : /\ offers' = Append(offers, row)
                   /\ row.sale = offers[j].sale
                   /\ row.rank = offers[j].rank + 1
    BY <1>5, <2>1 DEF OffersToNext, NewOffer
  <2>3. Len(offers) + 1 \in DOMAIN offers' /\ offers'[Len(offers) + 1] = row
    BY <2>1, <2>2
  <2>4. offers'[j].sale = offers[j].sale /\ offers'[j].rank = offers[j].rank
    BY RankStays
  <2>5. row.rank > offers'[j].rank /\ row.sale = offers'[j].sale
    BY <2>1, <2>2, <2>4
  <2>. QED
    BY <2>3, <2>5 DEF PassedOn, OffersOf
<1>6. ASSUME NEW h \in Workers, CancelsSale(h), j = work[h].offer
      PROVE  PassedOn(j)'
  <2> PICK i : i = offers[j].sale
    OBVIOUS
  <2>1. work[h].sale = i /\ i \in DOMAIN sales /\ sales[i] \in Settlement
        /\ sales \in Seq(Settlement)
    BY <1>6 DEF Shapes, SlotsOK, SlotOK, Fits, Bearing, RowsOK, CancelsSale, Doing
  <2>2. i \in DOMAIN sales' /\ sales'[i].status = "CANCELLED"
    BY <1>6, <2>1 DEF CancelsSale, Settlement
  <2>3. offers'[j].sale = i
    BY RankStays
  <2>. QED
    BY <2>2, <2>3 DEF PassedOn, Resolved
<1> HIDE DEF Goal
<1>7. \A h \in Workers : Passes(h) /\ OffersToNext(h) /\ bid[work[h].bidder] # 0 => Goal
  BY <1>4, <1>5
<1>8. \A h \in Workers : Passes(h) /\ CancelsSale(h) => Goal
  BY <1>4, <1>6
<1>9. (UNCHANGED work) => Goal
  BY DEF Goal
<1>. QED
  BY <1>2, <1>3, <1>7, <1>8, <1>9, SlotWriters

LEMMA BrokenStays ==
  ASSUME [CascadeNext]_cascadeVars, broken = TRUE
  PROVE  broken' = TRUE
<1>1. CASE UNCHANGED cascadeVars
  BY <1>1 DEF cascadeVars
<1>2. ASSUME NEW s, SettleStep(s) PROVE broken' = TRUE
  BY <1>2 DEF SettleStep, SettleReads, SettleInsertsSale, SettleInsertsOffer
<1>3. ASSUME NEW c, CheckStep(c) PROVE broken' = TRUE
  BY <1>3 DEF CheckStep, CascadeStep, ClaimsExpired, apply_payment_penalty, LooksForNext,
     OffersToNext, MovesSale, CancelsSale, EndsAuction, Relists
<1>4. ASSUME NEW h, HookStep(h) PROVE broken' = TRUE
  BY <1>4 DEF HookStep, HookSells, HookFindsSale, HookFindsOffer, HookFindsNothing,
     HookAccepts, HookHolds, HookSettles
<1>5. ASSUME NEW h, NEW t, HookRecordsPayment(h, t) PROVE broken' = TRUE
  BY <1>5 DEF HookRecordsPayment
<1>6. ASSUME NEW h, CallFails(h) \/ LookFails(h) \/ Dies(h) PROVE broken' = TRUE
  BY <1>6 DEF CallFails, LookFails, Dies
<1>7. ASSUME NEW t, PayStep(t) \/ HookRecordsRefusal(t) \/ PaymentDies(t)
      PROVE  broken' = TRUE
  BY <1>7 DEF PayStep, StartsPayment, ProcessorTakes, ProcessorDefers, ProcessorDeclines,
     BuyerCompletes, RecordsPayment, HookRecordsRefusal, PaymentDies
<1>8. ASSUME NEW j, WindowPasses(j) PROVE broken' = TRUE
  BY <1>8 DEF WindowPasses
<1>9. CASE CascadeNext
  BY <1>2, <1>3, <1>4, <1>5, <1>6, <1>7, <1>8, <1>9, Zenon DEF CascadeNext
<1>. QED
  BY <1>1, <1>9

LEMMA CarriesBears ==
  ASSUME NEW c, NEW j
  PROVE  Carries(c, j) <=> Bears(work[c], j)
BY DEF Carries, Bears, Bearing

LEMMA DroppedInit == CascadeInit => DroppedIInv
<1> SUFFICES ASSUME CascadeInit PROVE DroppedIInv
  OBVIOUS
<1>1. Tidied
  BY DEF CascadeInit, Tidied, Tidy, NoWork
<1>2. NoOfferDropped
  BY DEF CascadeInit, NoOfferDropped
<1>. QED
  BY <1>1, <1>2 DEF DroppedIInv

LEMMA DroppedNext ==
  Shapes /\ DroppedIInv /\ [CascadeNext]_cascadeVars => DroppedIInv'
<1> SUFFICES ASSUME Shapes, DroppedIInv, [CascadeNext]_cascadeVars PROVE DroppedIInv'
  OBVIOUS
<1>1. Tidied /\ Tidied'
  BY TidyNext DEF DroppedIInv
<1>2. broken \in BOOLEAN /\ (broken => broken')
  BY BrokenStays DEF Shapes, RowsOK
<1>3. ASSUME ~broken', NEW j \in DOMAIN offers', offers'[j].status = "EXPIRED",
             ~PassedOn(j)'
      PROVE  \E c \in Checkers : Bears(work'[c], j)
  <2>1. CASE ~(j \in DOMAIN offers /\ offers[j].status = "EXPIRED")
    BY <1>1, <1>3, <2>1, ExpiredByClaim
  <2>2. CASE j \in DOMAIN offers /\ offers[j].status = "EXPIRED"
    <3>1. ~PassedOn(j)
      BY <1>3, <2>2, PassedOnStays
    <3>2. PICK c \in Checkers : Bears(work[c], j)
      BY <1>2, <1>3, <2>2, <3>1, CarriesBears DEF DroppedIInv, NoOfferDropped
    <3>. QED
      BY <1>1, <1>3, <2>2, <3>2, BorneOrPassed
  <2>. QED
    BY <2>1, <2>2
<1>4. \A c, j : Carries(c, j)' <=> Bears(work'[c], j)
  BY DEF Carries, Bears, Bearing
<1>5. NoOfferDropped'
  BY <1>3, <1>4 DEF NoOfferDropped
<1>. QED
  BY <1>1, <1>5 DEF DroppedIInv

-----------------------------------------------------------------------------
(* Rows and calls keep their shape; however many runs of check-payment-    *)
(* window overlap and whatever calls fail, a settlement has one open offer *)
(* at most, the ranks of its offers leave no gap, and only a run that      *)
(* could not read who had been asked asks a bidder again; and what is held *)
(* or accepted was charged by a processor.                                 *)
THEOREM CascadeCorrect == CascadeSpec => []CascadeInv
<1>1. Shapes /\ ChargedIInv /\ ChainIInv => CascadeInv
  BY ShapesTypes, ChainImpliesOfferChain DEF CascadeInv, ChargedIInv
<1>. QED
  BY <1>1, ShapesAlways, ChargedAlways, ChainAlways, PTL

(* The claim of check-payment-window, one UPDATE of the offers still open, *)
(* gives an expired offer to one run: it is penalised once at most, after  *)
(* its window, and never if its payment found it open.                     *)
THEOREM PenalisedOnceAlways == CascadeSpec => []PenalisedOnce
<1>1. ChainIInv => PenalisedOnce
  BY DEF ChainIInv, OfferOK, PenalisedOnce
<1>. QED
  BY <1>1, ChainAlways, PTL

(* No bidder who let an offer expire is the last word on a sale: a run of  *)
(* check-payment-window holds on to each offer it has claimed until a      *)
(* later one follows or the settlement is over, unless a call that the     *)
(* cascade needs has failed.                                               *)
THEOREM NoneIsDropped == CascadeSpec => []NoOfferDropped
<1>1. CascadeInit => DroppedIInv
  BY DroppedInit
<1>2. Shapes /\ DroppedIInv /\ [CascadeNext]_cascadeVars => DroppedIInv'
  BY DroppedNext
<1>3. DroppedIInv => NoOfferDropped
  BY DEF DroppedIInv
<1>. QED
  BY <1>1, <1>2, <1>3, ShapesAlways, PTL DEF CascadeSpec

(* A settlement held for a payment that found its offer open stays held:   *)
(* the run that could cancel it would have to bear the last offer of its   *)
(* chain, and that offer is accepted.                                      *)
THEOREM PaidInTimeIsKept == CascadeSpec => InTimeIsKept
<1> DEFINE Kept == \A i \in DOMAIN sales :
                      ( /\ sales[i].status = "ESCROW_HOLD"
                        /\ \E j \in OffersOf(i) : offers[j].inTime )
                      => sales'[i].status = "ESCROW_HOLD"
<1>1. Shapes /\ ChainIInv /\ [CascadeNext]_cascadeVars => Kept
  <2> SUFFICES ASSUME Shapes, ChainIInv, [CascadeNext]_cascadeVars,
                      NEW i \in DOMAIN sales, sales[i].status = "ESCROW_HOLD",
                      NEW j \in OffersOf(i), offers[j].inTime,
                      sales'[i].status # "ESCROW_HOLD"
               PROVE  FALSE
    OBVIOUS
  <2>1. PICK c \in Workers : work[c].at = "cancelSale" /\ work[c].sale = i
    BY HeldTillCancelled
  <2> PICK o : o = work[c].offer
    OBVIOUS
  <2>2. o \in DOMAIN offers /\ offers[o].sale = i /\ Bears(work[c], o)
    BY <2>1 DEF Shapes, SlotsOK, SlotOK, Fits, Bearing, Bears
  <2>3. LastOf(o) /\ ~offers[o].inTime
    BY <2>2 DEF ChainIInv, Borne, BorneOK
  <2>4. j \in DOMAIN offers /\ offers[j].sale = i /\ LastOf(j)
    BY DEF OffersOf, ChainIInv, OfferOK
  <2>5. j = o
    BY <2>2, <2>3, <2>4, OneLast DEF ChainIInv
  <2>. QED
    BY <2>3, <2>5
<1>2. Shapes /\ ChainIInv /\ [CascadeNext]_cascadeVars => [Kept]_cascadeVars
  BY <1>1
<1>. QED
  BY <1>2, ShapesAlways, ChainAlways, PTL DEF CascadeSpec, InTimeIsKept
================================================================================
