----------------------------- MODULE EscrowRelease -----------------------------
(***************************************************************************)
(* One settlement of the parked marketplace from the moment its buyer's    *)
(* money is held until it is released to the seller or refunded.           *)
(*                                                                         *)
(* Six parties read the settlement's row and later write it:               *)
(*   Releasers    runs of the release-escrow function, every 15 minutes    *)
(*   Reconcilers  runs of the reconcile-escrow watchdog, once a day        *)
(*   Admins       the routes that release by hand, approve or reject a     *)
(*                dispute                                                  *)
(*   Buyers       requests of the buyer: open a dispute, appeal, confirm   *)
(*                the delivery                                             *)
(* None of them holds a lock between its read and its write.  Only the     *)
(* watchdog and the manual release ask for the status again in the UPDATE; *)
(* every other write names the row by its id alone.                        *)
(*                                                                         *)
(* Settlements share nothing, so one of them stands for each.  Amounts are *)
(* counted in halves of the price: a partial refund returns one half.      *)
(***************************************************************************)
EXTENDS Integers, Sequences, FiniteSets

CONSTANTS Releasers, Reconcilers, Admins, Buyers,
          MaxRequests,  \* disputes, appeals and rejections in one behaviour
          MaxFaults     \* calls that fail or die half way in one behaviour

VARIABLES
    sale,      \* the settlements row and its transaction's status
    payouts,   \* rows of payouts, in the order they were inserted
    refunds,   \* halves of the price returned by Stripe, in order
    owner,     \* item_verifications.current_owner_id
    call,      \* what each handler has read and has still to do
    requests,  \* disputes, appeals and rejections so far
    faults,    \* failures so far
    stale      \* history: a handler wrote upon a row that changed after its read

vars == <<sale, payouts, refunds, owner, call, requests, faults, stale>>

Handlers == Releasers \cup Reconcilers \cup Admins \cup Buyers

(* No handler is of two kinds.                                             *)
ASSUME HandlersAssumption ==
    /\ Releasers \cap (Reconcilers \cup Admins \cup Buyers) = {}
    /\ Reconcilers \cap (Admins \cup Buyers) = {}
    /\ Admins \cap Buyers = {}
    /\ MaxRequests \in Nat
    /\ MaxFaults \in Nat

Statuses == {"ESCROW_HOLD", "DISPUTED", "RELEASED", "REFUNDED"}

(* ends: escrow_ends_at is ahead, has passed, or passed before the grace   *)
(* period of the watchdog.  appeal: appeal_deadline is unset, ahead, past. *)
(* dated: escrow_released_at is set.                                       *)
Sale == [status     : Statuses,
         ends       : {"ahead", "past", "stuck"},
         delivered  : BOOLEAN,
         resolution : {"none", "REFUND", "REJECTED", "APPEALED"},
         appeal     : {"unset", "ahead", "past"},
         paid       : BOOLEAN,
         dated      : BOOLEAN]

(* sent: Stripe made a transfer under the key of this payout.              *)
Payout == [by     : Handlers,
           status : {"PENDING", "PROCESSING", "FAILED"},
           sent   : BOOLEAN]

Idle == [at |-> "idle", payout |-> 0, old |-> FALSE]

Call == [at     : {"idle",
                   "insertPayout", "markReleased", "transfer", "markPayout", "moveItem",
                   "redrive", "redrivePayout",
                   "byHand", "byHandPayout", "refund", "markRefunded", "reject",
                   "dispute", "appeal", "confirm"},
         payout : Nat,
         old    : BOOLEAN]

Init ==
    /\ sale \in [status     : {"ESCROW_HOLD"},
                 ends       : {"ahead"},
                 delivered  : {FALSE},
                 resolution : {"none"},
                 appeal     : {"unset"},
                 paid       : BOOLEAN,
                 dated      : {FALSE}]
    /\ payouts = <<>>
    /\ refunds = <<>>
    /\ owner = "seller"
    /\ call = [h \in Handlers |-> Idle]
    /\ requests = 0
    /\ faults = 0
    /\ stale = FALSE

-----------------------------------------------------------------------------
(* Steps of a handler.                                                     *)

At(h, label) == call[h].at = label

(* The handler goes on; what the others have read stays true.              *)
Goes(h, label) == call' = [call EXCEPT ![h].at = label]

Ends(h) == call' = [call EXCEPT ![h] = Idle]

Reads(h, label) == call' = [call EXCEPT ![h] = [Idle EXCEPT !.at = label]]

(* The handler changes what the others may have read: they are out of date *)
(* from here on, and a write of one that is out of date is remembered.     *)
Writes(h, next) ==
    /\ call' = [g \in Handlers |->
                  IF g = h THEN next
                  ELSE IF call[g].at = "idle" THEN call[g]
                  ELSE [call[g] EXCEPT !.old = TRUE]]
    /\ stale' = (stale \/ call[h].old)

On(h, label) == [call[h] EXCEPT !.at = label]

(* A database call that returns an error, a function that throws or whose  *)
(* time runs out: the handler stops where it is and what it did stays.     *)
Fails(h) ==
    /\ ~At(h, "idle")
    /\ faults < MaxFaults
    /\ faults' = faults + 1
    /\ Ends(h)
    /\ UNCHANGED <<sale, payouts, refunds, owner, requests, stale>>

-----------------------------------------------------------------------------
(* release-escrow                                                          *)

(* Mutant of Releasable: the query does not ask for the status, as when    *)
(* only the window and the transaction decide.                             *)
ReleasableAnyStatus ==
    /\ sale.status \in {"ESCROW_HOLD", "DISPUTED"}
    /\ sale.ends # "ahead" \/ sale.delivered
    /\ sale.paid

(* Mutant of Releasable: a confirmed delivery is waited for in every case. *)
ReleasableDelivered ==
    /\ sale.status = "ESCROW_HOLD"
    /\ sale.delivered
    /\ sale.paid

Releasable ==
    /\ sale.status = "ESCROW_HOLD"
    /\ sale.ends # "ahead" \/ sale.delivered
    /\ sale.paid

ReleaseSelects(r) ==
    /\ At(r, "idle")
    /\ Releasable
    /\ Reads(r, "insertPayout")
    /\ UNCHANGED <<sale, payouts, refunds, owner, requests, faults, stale>>

NewPayout(h) == Append(payouts, [by |-> h, status |-> "PENDING", sent |-> FALSE])

(* The payout comes first, then the settlement, by its id.                 *)
ReleaseInsertsPayout(r) ==
    /\ At(r, "insertPayout")
    /\ payouts' = NewPayout(r)
    /\ Writes(r, [On(r, "markReleased") EXCEPT !.payout = Len(payouts) + 1])
    /\ UNCHANGED <<sale, refunds, owner, requests, faults>>

(* Mutant of ReleaseMarksReleased: the time of the release is written and  *)
(* the status is left to a later step.                                     *)
ReleaseMarksTime(r) ==
    /\ At(r, "markReleased")
    /\ sale' = [sale EXCEPT !.dated = TRUE]
    /\ Writes(r, On(r, "transfer"))
    /\ UNCHANGED <<payouts, refunds, owner, requests, faults>>

ReleaseMarksReleased(r) ==
    /\ At(r, "markReleased")
    /\ sale' = [sale EXCEPT !.status = "RELEASED", !.dated = TRUE]
    /\ Writes(r, On(r, "transfer"))
    /\ UNCHANGED <<payouts, refunds, owner, requests, faults>>

(* Another processor, or a seller who cannot be paid out yet: the payout   *)
(* stays PENDING for someone to handle.                                    *)
ReleaseSkipsTransfer(r) ==
    /\ At(r, "transfer")
    /\ Goes(r, "moveItem")
    /\ UNCHANGED <<sale, payouts, refunds, owner, requests, faults, stale>>

ReleaseTransfers(r) ==
    /\ At(r, "transfer")
    /\ payouts' = [payouts EXCEPT ![call[r].payout].sent = TRUE]
    /\ Goes(r, "markPayout")
    /\ UNCHANGED <<sale, refunds, owner, requests, faults, stale>>

ReleaseMarksPayout(r) ==
    /\ At(r, "markPayout")
    /\ payouts' = [payouts EXCEPT ![call[r].payout].status = "PROCESSING"]
    /\ Goes(r, "moveItem")
    /\ UNCHANGED <<sale, refunds, owner, requests, faults, stale>>

(* Stripe refuses, or made the transfer and its answer was lost.           *)
ReleaseTransferFails(r) ==
    /\ At(r, "transfer")
    /\ faults < MaxFaults
    /\ faults' = faults + 1
    /\ \E made \in BOOLEAN :
          payouts' = [payouts EXCEPT ![call[r].payout].status = "FAILED",
                                     ![call[r].payout].sent = made]
    /\ Goes(r, "moveItem")
    /\ UNCHANGED <<sale, refunds, owner, requests, stale>>

ReleaseMovesItem(r) ==
    /\ At(r, "moveItem")
    /\ owner' = "buyer"
    /\ Ends(r)
    /\ UNCHANGED <<sale, payouts, refunds, requests, faults, stale>>

ReleaseStep(r) ==
    \/ ReleaseSelects(r)
    \/ ReleaseInsertsPayout(r)
    \/ ReleaseMarksReleased(r)
    \/ ReleaseSkipsTransfer(r)
    \/ ReleaseTransfers(r)
    \/ ReleaseMarksPayout(r)
    \/ ReleaseTransferFails(r)
    \/ ReleaseMovesItem(r)

-----------------------------------------------------------------------------
(* reconcile-escrow: the settlement first, only if it is still held, then  *)
(* the payout, which nobody transfers.                                     *)

ReconcileSelects(c) ==
    /\ At(c, "idle")
    /\ sale.status = "ESCROW_HOLD"
    /\ sale.ends = "stuck"
    /\ sale.paid
    /\ ~sale.dated
    /\ Reads(c, "redrive")
    /\ UNCHANGED <<sale, payouts, refunds, owner, requests, faults, stale>>

ReconcileReleases(c) ==
    /\ At(c, "redrive")
    /\ IF sale.status = "ESCROW_HOLD"
         THEN /\ sale' = [sale EXCEPT !.status = "RELEASED", !.dated = TRUE]
              /\ Writes(c, On(c, "redrivePayout"))
         ELSE Ends(c) /\ UNCHANGED <<sale, stale>>
    /\ UNCHANGED <<payouts, refunds, owner, requests, faults>>

ReconcileInsertsPayout(c) ==
    /\ At(c, "redrivePayout")
    /\ payouts' = NewPayout(c)
    /\ Writes(c, Idle)
    /\ UNCHANGED <<sale, refunds, owner, requests, faults>>

ReconcileStep(c) ==
    \/ ReconcileSelects(c)
    \/ ReconcileReleases(c)
    \/ ReconcileInsertsPayout(c)

-----------------------------------------------------------------------------
(* The admin's routes.                                                     *)

AdminReadsForRelease(a) ==
    /\ At(a, "idle")
    /\ sale.status \in {"ESCROW_HOLD", "DISPUTED"}
    /\ Reads(a, "byHand")
    /\ UNCHANGED <<sale, payouts, refunds, owner, requests, faults, stale>>

AdminReleases(a) ==
    /\ At(a, "byHand")
    /\ IF sale.status \in {"ESCROW_HOLD", "DISPUTED"}
         THEN /\ sale' = [sale EXCEPT !.status = "RELEASED", !.dated = TRUE]
              /\ Writes(a, On(a, "byHandPayout"))
         ELSE Ends(a) /\ UNCHANGED <<sale, stale>>
    /\ UNCHANGED <<payouts, refunds, owner, requests, faults>>

(* Mutant of AdminInsertsPayout: the route leaves the payout to the next   *)
(* run of release-escrow.                                                  *)
AdminLeavesPayout(a) ==
    /\ At(a, "byHandPayout")
    /\ Ends(a)
    /\ UNCHANGED <<sale, payouts, refunds, owner, requests, faults, stale>>

AdminInsertsPayout(a) ==
    /\ At(a, "byHandPayout")
    /\ payouts' = NewPayout(a)
    /\ Writes(a, Idle)
    /\ UNCHANGED <<sale, refunds, owner, requests, faults>>

AdminReadsForDecision(a, label) ==
    /\ At(a, "idle")
    /\ sale.status = "DISPUTED"
    /\ requests < MaxRequests
    /\ requests' = requests + 1
    /\ Reads(a, label)
    /\ UNCHANGED <<sale, payouts, refunds, owner, faults, stale>>

Returned == LET Sum[i \in 0 .. Len(refunds)] ==
                    IF i = 0 THEN 0 ELSE Sum[i - 1] + refunds[i]
            IN  Sum[Len(refunds)]

(* The refund is asked of Stripe before the settlement is written.  Stripe *)
(* returns no more than was charged and refuses the rest; without a        *)
(* succeeded payment there is nothing to refund.                           *)
AdminRefunds(a) ==
    /\ At(a, "refund")
    /\ \E halves \in {1, 2} :
          IF sale.paid /\ Returned + halves <= 2
            THEN /\ refunds' = Append(refunds, halves)
                 /\ Writes(a, On(a, "markRefunded"))
            ELSE Ends(a) /\ UNCHANGED <<refunds, stale>>
    /\ UNCHANGED <<sale, payouts, owner, requests, faults>>

AdminMarksRefunded(a) ==
    /\ At(a, "markRefunded")
    /\ sale' = [sale EXCEPT !.status = "REFUNDED", !.resolution = "REFUND"]
    /\ Writes(a, Idle)
    /\ UNCHANGED <<payouts, refunds, owner, requests, faults>>

(* A rejected dispute goes back into escrow until the appeal's deadline or *)
(* longer.                                                                 *)
AdminRejects(a) ==
    /\ At(a, "reject")
    /\ sale' = [sale EXCEPT !.status = "ESCROW_HOLD",
                            !.resolution = "REJECTED",
                            !.ends = "ahead",
                            !.appeal = "ahead"]
    /\ Writes(a, Idle)
    /\ UNCHANGED <<payouts, refunds, owner, requests, faults>>

AdminStep(a) ==
    \/ AdminReadsForRelease(a)
    \/ AdminReleases(a)
    \/ AdminInsertsPayout(a)
    \/ \E label \in {"refund", "reject"} : AdminReadsForDecision(a, label)
    \/ AdminRefunds(a)
    \/ AdminMarksRefunded(a)
    \/ AdminRejects(a)

-----------------------------------------------------------------------------
(* The buyer's requests.                                                   *)

BuyerAsks(b, label) ==
    /\ At(b, "idle")
    /\ sale.status = "ESCROW_HOLD"
    /\ requests < MaxRequests
    /\ requests' = requests + 1
    /\ Reads(b, label)
    /\ UNCHANGED <<sale, payouts, refunds, owner, faults, stale>>

openDispute(b) ==
    /\ At(b, "dispute")
    /\ sale' = [sale EXCEPT !.status = "DISPUTED"]
    /\ Writes(b, Idle)
    /\ UNCHANGED <<payouts, refunds, owner, requests, faults>>

BuyerAsksForAppeal(b) ==
    /\ sale.resolution = "REJECTED"
    /\ sale.appeal = "ahead"
    /\ BuyerAsks(b, "appeal")

(* An appeal moves the end of the escrow a week on.                        *)
openDisputeAppeal(b) ==
    /\ At(b, "appeal")
    /\ sale' = [sale EXCEPT !.status = "DISPUTED",
                            !.resolution = "APPEALED",
                            !.ends = "ahead"]
    /\ Writes(b, Idle)
    /\ UNCHANGED <<payouts, refunds, owner, requests, faults>>

BuyerConfirms(b) ==
    /\ ~sale.delivered
    /\ At(b, "idle")
    /\ sale.status = "ESCROW_HOLD"
    /\ Reads(b, "confirm")
    /\ UNCHANGED <<sale, payouts, refunds, owner, requests, faults, stale>>

(* The delivery changes nothing another handler decides upon after its     *)
(* read, so nobody becomes out of date.                                    *)
confirmDelivery(b) ==
    /\ At(b, "confirm")
    /\ sale' = [sale EXCEPT !.delivered = TRUE]
    /\ Ends(b)
    /\ UNCHANGED <<payouts, refunds, owner, requests, faults, stale>>

BuyerStep(b) ==
    \/ BuyerAsks(b, "dispute")
    \/ openDispute(b)
    \/ BuyerAsksForAppeal(b)
    \/ openDisputeAppeal(b)
    \/ BuyerConfirms(b)
    \/ confirmDelivery(b)

-----------------------------------------------------------------------------
(* Time.  A rejection and an appeal both set the end of the escrow no      *)
(* earlier than the appeal's deadline, so the deadline passes first.       *)

TimePasses ==
    /\ \/ /\ sale.appeal = "ahead"
          /\ sale' = [sale EXCEPT !.appeal = "past"]
       \/ /\ sale.appeal # "ahead"
          /\ sale.ends = "ahead"
          /\ sale' = [sale EXCEPT !.ends = "past"]
       \/ /\ sale.ends = "past"
          /\ sale' = [sale EXCEPT !.ends = "stuck"]
    /\ UNCHANGED <<payouts, refunds, owner, call, requests, faults, stale>>

Next ==
    \/ \E r \in Releasers : ReleaseStep(r)
    \/ \E c \in Reconcilers : ReconcileStep(c)
    \/ \E a \in Admins : AdminStep(a)
    \/ \E b \in Buyers : BuyerStep(b)
    \/ \E h \in Handlers : Fails(h)
    \/ TimePasses

(* pg_cron calls release-escrow every quarter of an hour, and a run that   *)
(* has begun goes through its list.                                        *)
Fairness == \A r \in Releasers : WF_vars(ReleaseStep(r))

Spec == Init /\ [][Next]_vars

FairSpec == Spec /\ Fairness

-----------------------------------------------------------------------------
(* Properties.                                                             *)

(* Every row and every call has its shape, and a handler past its insert   *)
(* knows which payout it works on.                                         *)
TypeOK ==
    /\ sale \in Sale
    /\ payouts \in Seq(Payout)
    /\ refunds \in Seq({1, 2})
    /\ owner \in {"seller", "buyer"}
    /\ call \in [Handlers -> Call]
    /\ \A r \in Releasers :
          call[r].at \in {"markReleased", "transfer", "markPayout", "moveItem"}
             => call[r].payout \in 1 .. Len(payouts)
    /\ requests \in 0 .. MaxRequests
    /\ faults \in 0 .. MaxFaults
    /\ stale \in BOOLEAN

(* Nobody is at work on the settlement.                                    *)
Quiet == \A h \in Handlers : At(h, "idle")

(* When nobody is at work the price has left escrow once at most: a second *)
(* payout, a payout beside a refund, or a second refund, takes a handler   *)
(* that wrote upon a row another one had changed after its read, or one    *)
(* that stopped half way.  The order of the requests alone never brings it *)
(* about.                                                                  *)
LeavesOnce ==
    (Quiet /\ ~stale /\ faults = 0) => Len(payouts) + Len(refunds) <= 1

(* When nobody is at work, a released settlement has a payout for its      *)
(* seller, whoever released it and however the handlers overlapped; only a *)
(* failed call leaves it without.                                          *)
ReleasedHasPayout ==
    (Quiet /\ faults = 0 /\ sale.status = "RELEASED") => Len(payouts) > 0

(* A payout that says PROCESSING has been transferred, and a transfer was  *)
(* made only for a payout of a run of release-escrow that had marked the   *)
(* settlement released: the watchdog's and the admin's payouts wait.       *)
TransfersHavePayouts ==
    \A i \in DOMAIN payouts :
       /\ payouts[i].status = "PROCESSING" => payouts[i].sent
       /\ payouts[i].sent => payouts[i].by \in Releasers

(* While a dispute is open or after a refund no new payout appears, unless *)
(* its handler had read the row before.                                    *)
NoPayoutInDispute ==
    [][ (Len(payouts') > Len(payouts) /\ sale.status \in {"DISPUTED", "REFUNDED"})
           => stale' ]_vars

(* A paid settlement whose escrow is over, or whose buyer has the item,    *)
(* does not stay held for ever: it is released or disputed.                *)
HoldEnds ==
    (sale.paid /\ (sale.ends # "ahead" \/ sale.delivered)) ~> sale.status # "ESCROW_HOLD"

(* What the reject route says of the end it gives the escrow: when a       *)
(* dispute is rejected and the buyer may appeal, no run of release-escrow  *)
(* takes the settlement up.                                                *)
AppealWindowHolds ==
    [][ (sale.appeal # "ahead" /\ sale'.appeal = "ahead") => ~Releasable' ]_vars

(* Rows have their shape, and payouts, transfers and releases belong       *)
(* together.                                                               *)
Inv == TypeOK /\ ReleasedHasPayout /\ TransfersHavePayouts
=============================================================================
