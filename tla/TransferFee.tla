------------------------------ MODULE TransferFee ------------------------------
(***************************************************************************)
(* How the fee of an ownership transfer is taken, applied, reconciled and  *)
(* refunded.  The actors, each a set of slots so that several run at once: *)
(*                                                                         *)
(*   Requests   POST /nfc/transfer/:id/complete (completeTransfer)         *)
(*   Appliers   deliveries of payment_intent.succeeded and runs of the     *)
(*              10-minute sweep, both through applyTransferFee             *)
(*   Admins     Re-apply and Refund on the stuck-payment queue             *)
(*                                                                         *)
(* plus Stripe itself (external): PaymentIntents, the idempotency cache    *)
(* and at-least-once delivery.  Every call a handler makes to the database *)
(* or to Stripe is one action; a slot that dies between two calls goes     *)
(* back to idle and leaves what it wrote.                                  *)
(***************************************************************************)
EXTENDS TokenTables, Integers

CONSTANTS
    Requests, Appliers, Admins,
    MaxVouchers,  \* bound: vouchers an account holds at once
    KeyForgotten, \* may Stripe drop an idempotency key before the transfer ends?
    LatePayment,  \* may a PaymentIntent get older than the sweep looks back?
    Faults        \* may a database call or the minting of a proof fail?

ASSUME BoundAssumption == MaxVouchers \in Nat
ASSUME SwitchAssumption ==
    /\ KeyForgotten \in BOOLEAN
    /\ LatePayment \in BOOLEAN
    /\ Faults \in BOOLEAN

VARIABLES
    vouchers,   \* account -> free transfers it can still use
    redeemed,   \* transfers with a transfer_voucher_redemptions row
    intents,    \* Stripe's PaymentIntents
    keys,       \* Stripe's idempotency cache: transfer -> intent created under its key
    secrets,    \* intents whose client_secret a response has carried
    incidents,  \* payment_incidents: intent -> status, "none" without a row
    requests, appliers, admins

stripe == <<intents, keys, secrets>>
slots  == <<requests, appliers, admins>>
vars   == <<tables, vouchers, redeemed, stripe, incidents, slots>>

-----------------------------------------------------------------------------
IntentRow ==
    [state    : {"none", "open", "succeeded", "canceled"},
     transfer : Transfers \cup {NoTransfer},  \* metadata.transfer_id
     refunded : BOOLEAN,
     ripe     : BOOLEAN,                      \* paid long enough ago to be judged stuck
     late     : BOOLEAN]                      \* created before the sweep's window

(* A completeTransfer request: `carded` is whether its first read saw a    *)
(* stripe_payment_intent_id on the row.                                    *)
RequestSlot ==
    [pc       : {"idle", "resolve", "voucher", "redeem", "create", "store", "cancel"},
     transfer : Transfers \cup {NoTransfer},
     user     : Users \cup {NoUser},
     carded   : BOOLEAN,
     intent   : Intents \cup {NoIntent}]

(* A run of applyTransferFee; `report` is the incident it has still to     *)
(* record: OPEN for a payment it could not apply, RESOLVED for one the     *)
(* sweep applied because no webhook did.                                   *)
ApplierSlot ==
    [pc     : {"idle", "listed", "load", "rpc", "record"},
     source : {"webhook", "sweep"},
     intent : Intents \cup {NoIntent},
     report : {"none", "OPEN", "RESOLVED"}]

AdminSlot ==
    [pc : {"idle", "reapply", "refund", "record"}, intent : Intents \cup {NoIntent}]

IdleRequest ==
    [pc |-> "idle", transfer |-> NoTransfer, user |-> NoUser,
     carded |-> FALSE, intent |-> NoIntent]
IdleApplier ==
    [pc |-> "idle", source |-> "webhook", intent |-> NoIntent, report |-> "none"]
IdleAdmin == [pc |-> "idle", intent |-> NoIntent]

IncidentStatus == {"none", "OPEN", "RESOLVED", "REFUNDED"}

(* Type correctness of the tables, of Stripe's side and of every slot.     *)
TypeOK ==
    /\ TablesTypeOK
    /\ vouchers \in [Users -> 0..MaxVouchers]
    /\ redeemed \subseteq Transfers
    /\ intents \in [Intents -> IntentRow]
    /\ keys \in [Transfers -> Intents \cup {NoIntent}]
    /\ secrets \subseteq Intents
    /\ incidents \in [Intents -> IncidentStatus]
    /\ requests \in [Requests -> RequestSlot]
    /\ appliers \in [Appliers -> ApplierSlot]
    /\ admins \in [Admins -> AdminSlot]

-----------------------------------------------------------------------------
(* The transfers are PENDING, as initiateTransfer left them: each names    *)
(* either an account or an address, and no two lock the same chip.  The    *)
(* chip is ACTIVE or has meanwhile been suspended, and its owner is the    *)
(* sender or whoever got it while initiateTransfer had already read it; or *)
(* it was released or retired under that initiate (module TokenLifecycle   *)
(* reaches all of these).                                                  *)
PendingRow(row) ==
    /\ row.status = "PENDING"
    /\ row.tag \in Tags
    /\ row.from \in Users
    /\ (row.to = NoUser) # (row.to_email = NoUser)
    /\ row.intent = NoIntent

Init ==
    /\ ownership_transfers \in [Transfers -> {row \in TransferRow : PendingRow(row)}]
    /\ \A t \in Tags : \A x, y \in PendingOn(t) : x = y
    /\ nfc_tags \in [Tags -> TagRow]
    /\ \A t \in Tags :
          \/ /\ nfc_tags[t].status \in {"ACTIVE", "SUSPENDED"}
             /\ nfc_tags[t].owner # NoUser
          \/ /\ nfc_tags[t].status \in {"RELEASED", "RETIRED"}
             /\ nfc_tags[t].owner = NoUser
    /\ ownership_proofs = [t \in Tags |-> nfc_tags[t].owner]
    /\ vouchers = [u \in Users |-> 0]
    /\ redeemed = {}
    /\ intents = [i \in Intents |->
                    [state |-> "none", transfer |-> NoTransfer,
                     refunded |-> FALSE, ripe |-> FALSE, late |-> FALSE]]
    /\ keys = [x \in Transfers |-> NoIntent]
    /\ secrets = {}
    /\ incidents = [i \in Intents |-> "none"]
    /\ requests = [r \in Requests |-> IdleRequest]
    /\ appliers = [a \in Appliers |-> IdleApplier]
    /\ admins = [d \in Admins |-> IdleAdmin]

-----------------------------------------------------------------------------
(* completeTransfer.                                                       *)

(* Mutant of ReceiveComplete: the recipient is not put on the row.         *)
ReceiveUnresolved(r, x, u) ==
    /\ requests[r].pc = "idle"
    /\ ownership_transfers[x].status = "PENDING"
    /\ IsRecipient(x, u)
    /\ requests' = [requests EXCEPT ![r] =
          [pc       |-> "voucher",
           transfer |-> x,
           user     |-> u,
           carded   |-> ownership_transfers[x].intent # NoIntent,
           intent   |-> NoIntent]]
    /\ UNCHANGED <<tables, vouchers, redeemed, stripe, incidents, appliers, admins>>

(* The handler reads the row, refuses one that is not PENDING or a caller  *)
(* who is not its recipient, and checks the second factor and the tap      *)
(* (module TapPossession).                                                 *)
ReceiveComplete(r, x, u) ==
    /\ requests[r].pc = "idle"
    /\ ownership_transfers[x].status = "PENDING"
    /\ IsRecipient(x, u)
    /\ requests' = [requests EXCEPT ![r] =
          [pc       |-> IF ownership_transfers[x].to = NoUser THEN "resolve" ELSE "voucher",
           transfer |-> x,
           user     |-> u,
           carded   |-> ownership_transfers[x].intent # NoIntent,
           intent   |-> NoIntent]]
    /\ UNCHANGED <<tables, vouchers, redeemed, stripe, incidents, appliers, admins>>

(* UPDATE to_user_id WHERE PENDING must land before any payment exists.    *)
ResolveRecipient(r) ==
    LET x == requests[r].transfer IN
    /\ requests[r].pc = "resolve"
    /\ ownership_transfers[x].status = "PENDING"
    /\ ownership_transfers' = [ownership_transfers EXCEPT ![x].to = requests[r].user]
    /\ requests' = [requests EXCEPT ![r].pc = "voucher"]
    /\ UNCHANGED <<nfc_tags, ownership_proofs, vouchers, redeemed, stripe,
                   incidents, appliers, admins>>

(* The payer's voucher count, read only when the first read saw no card    *)
(* payment under way.  The payer comes from that read and the caller.      *)
CountVouchers(r) ==
    LET x     == requests[r].transfer
        payer == IF ownership_transfers[x].fee_payer = "SELLER"
                 THEN ownership_transfers[x].from ELSE requests[r].user
    IN
    /\ requests[r].pc = "voucher"
    /\ requests' = [requests EXCEPT ![r].pc =
          IF ~requests[r].carded /\ vouchers[payer] > 0 THEN "redeem" ELSE "create"]
    /\ UNCHANGED <<tables, vouchers, redeemed, stripe, incidents, appliers, admins>>

(* Mutant of RedeemVoucher: the vouchers are not counted again.            *)
RedeemUncounted(r) ==
    LET x == requests[r].transfer IN
    /\ requests[r].pc = "redeem"
    /\ \/ /\ ApplyOutcome(x, NoIntent) = "applied"
          /\ vouchers' = [vouchers EXCEPT ![FeePayer(x)] = @ - 1]
          /\ redeemed' = redeemed \cup {x}
          /\ CompleteRow(x, NoIntent)
          /\ requests' = [requests EXCEPT ![r] = IdleRequest]
       \/ /\ RowOutcome(x, NoIntent) = "ok"
          /\ vouchers[FeePayer(x)] = 0
          /\ requests' = [requests EXCEPT ![r].pc = "create"]
          /\ UNCHANGED <<tables, vouchers, redeemed>>
    /\ UNCHANGED <<stripe, incidents, appliers, admins>>

(* redeem_transfer_voucher: uses a voucher and completes, or changes       *)
(* nothing.  Only "no voucher left" lets the request go on to a card.      *)
RedeemVoucher(r) ==
    LET x == requests[r].transfer IN
    /\ requests[r].pc = "redeem"
    /\ \/ /\ ApplyOutcome(x, NoIntent) = "applied"
          /\ vouchers[FeePayer(x)] > 0
          /\ vouchers' = [vouchers EXCEPT ![FeePayer(x)] = @ - 1]
          /\ redeemed' = redeemed \cup {x}
          /\ CompleteRow(x, NoIntent)
          /\ requests' = [requests EXCEPT ![r] = IdleRequest]
       \/ /\ RowOutcome(x, NoIntent) = "ok"
          /\ vouchers[FeePayer(x)] = 0
          /\ requests' = [requests EXCEPT ![r].pc = "create"]
          /\ UNCHANGED <<tables, vouchers, redeemed>>
    /\ UNCHANGED <<stripe, incidents, appliers, admins>>

(* paymentIntents.create under the key token-transfer-fee-<transfer>: the  *)
(* intent Stripe already made under that key, or a new one.                *)
CreateIntent(r) ==
    LET x == requests[r].transfer IN
    /\ requests[r].pc = "create"
    /\ \E i \in Intents :
          /\ \/ /\ keys[x] = i
                /\ UNCHANGED <<intents, keys>>
             \/ /\ keys[x] = NoIntent
                /\ intents[i].state = "none"
                /\ intents' = [intents EXCEPT ![i].state = "open", ![i].transfer = x]
                /\ keys' = [keys EXCEPT ![x] = i]
          /\ requests' = [requests EXCEPT ![r].pc = "store", ![r].intent = i]
    /\ UNCHANGED <<tables, vouchers, redeemed, secrets, incidents, appliers, admins>>

(* Mutant of StoreIntent: the UPDATE does not ask for PENDING.             *)
StoreAnyway(r) ==
    LET x == requests[r].transfer
        i == requests[r].intent
    IN
    /\ requests[r].pc = "store"
    /\ \/ /\ ownership_transfers' = [ownership_transfers EXCEPT ![x].intent = i]
          /\ secrets' = secrets \cup {i}
          /\ requests' = [requests EXCEPT ![r] = IdleRequest]
       \/ /\ ownership_transfers[x].status # "PENDING" \/ Faults
          /\ requests' = [requests EXCEPT ![r].pc = "cancel"]
          /\ UNCHANGED <<ownership_transfers, secrets>>
    /\ UNCHANGED <<nfc_tags, ownership_proofs, vouchers, redeemed, intents, keys,
                   incidents, appliers, admins>>

(* The intent is stored on a row that is still PENDING and only then is    *)
(* its secret handed out; a failed store cancels the intent instead.       *)
StoreIntent(r) ==
    LET x == requests[r].transfer
        i == requests[r].intent
    IN
    /\ requests[r].pc = "store"
    /\ \/ /\ ownership_transfers[x].status = "PENDING"
          /\ ownership_transfers' = [ownership_transfers EXCEPT ![x].intent = i]
          /\ secrets' = secrets \cup {i}
          /\ requests' = [requests EXCEPT ![r] = IdleRequest]
       \/ /\ ownership_transfers[x].status # "PENDING" \/ Faults
          /\ requests' = [requests EXCEPT ![r].pc = "cancel"]
          /\ UNCHANGED <<ownership_transfers, secrets>>
    /\ UNCHANGED <<nfc_tags, ownership_proofs, vouchers, redeemed, intents, keys,
                   incidents, appliers, admins>>

(* paymentIntents.cancel; Stripe refuses for one already paid.             *)
CancelIntent(r) ==
    LET i == requests[r].intent IN
    /\ requests[r].pc = "cancel"
    /\ intents' = [intents EXCEPT ![i].state = IF @ = "open" THEN "canceled" ELSE @]
    /\ requests' = [requests EXCEPT ![r] = IdleRequest]
    /\ UNCHANGED <<tables, vouchers, redeemed, keys, secrets, incidents, appliers, admins>>

(* The request ends where it stands: a failed call it answers with an      *)
(* error before writing more, a refusal, or the backend dying.             *)
AbortRequest(r) ==
    /\ requests[r].pc # "idle"
    /\ requests' = [requests EXCEPT ![r] = IdleRequest]
    /\ UNCHANGED <<tables, vouchers, redeemed, stripe, incidents, appliers, admins>>

(* cancelTransfer: the sender's conditional UPDATE.  No PaymentIntent is   *)
(* cancelled with it.                                                      *)
CancelTransfer(x) ==
    /\ CancelRow(x)
    /\ UNCHANGED <<vouchers, redeemed, stripe, incidents, slots>>

-----------------------------------------------------------------------------
(* Vouchers, from the admin pricing console.                               *)

GrantVoucher(u) ==
    /\ vouchers[u] < MaxVouchers
    /\ vouchers' = [vouchers EXCEPT ![u] = @ + 1]
    /\ UNCHANGED <<tables, redeemed, stripe, incidents, slots>>

(* A grant is revoked or passes its expiry: what is left of it is gone.    *)
LoseVouchers(u) ==
    /\ vouchers[u] > 0
    /\ vouchers' = [vouchers EXCEPT ![u] = @ - 1]
    /\ UNCHANGED <<tables, redeemed, stripe, incidents, slots>>

-----------------------------------------------------------------------------
(* Stripe (external).                                                      *)

(* A client that holds the secret pays.                                    *)
PayIntent(i) ==
    /\ i \in secrets
    /\ intents[i].state = "open"
    /\ intents' = [intents EXCEPT ![i].state = "succeeded"]
    /\ UNCHANGED <<tables, vouchers, redeemed, keys, secrets, incidents, slots>>

(* Idempotency keys have a lifetime; a PENDING transfer has none.          *)
ForgetKey(x) ==
    /\ KeyForgotten
    /\ keys[x] # NoIntent
    /\ keys' = [keys EXCEPT ![x] = NoIntent]
    /\ UNCHANGED <<tables, vouchers, redeemed, intents, secrets, incidents, slots>>

(* A payment gets older than TOKEN_FEE_STUCK_AFTER_MINUTES.                *)
Ripens(i) ==
    /\ intents[i].state = "succeeded"
    /\ ~intents[i].ripe
    /\ intents' = [intents EXCEPT ![i].ripe = TRUE]
    /\ UNCHANGED <<tables, vouchers, redeemed, keys, secrets, incidents, slots>>

(* An intent, paid or not, leaves the window the sweep lists intents from, *)
(* which goes by their creation.                                           *)
PassWindow(i) ==
    /\ LatePayment
    /\ intents[i].state # "none"
    /\ ~intents[i].late
    /\ intents' = [intents EXCEPT ![i].late = TRUE]
    /\ UNCHANGED <<tables, vouchers, redeemed, keys, secrets, incidents, slots>>

-----------------------------------------------------------------------------
(* Applying a paid fee.                                                    *)

Idle(a) == appliers' = [appliers EXCEPT ![a] = IdleApplier]

Goto(a, pc) == appliers' = [appliers EXCEPT ![a].pc = pc]

ToReport(a, status) ==
    appliers' = [appliers EXCEPT ![a].pc = "record", ![a].report = status]

(* Stripe delivers payment_intent.succeeded, any number of times.          *)
DeliverWebhook(a, i) ==
    /\ appliers[a].pc = "idle"
    /\ intents[i].state = "succeeded"
    /\ appliers' = [appliers EXCEPT ![a] =
          [pc |-> "load", source |-> "webhook", intent |-> i, report |-> "none"]]
    /\ UNCHANGED <<tables, vouchers, redeemed, stripe, incidents, requests, admins>>

(* The sweep lists the intents of its window and keeps the ones that       *)
(* succeeded, were not refunded, and were not paid only just now (those    *)
(* are left to their webhook).                                             *)
SweepLists(a, i) ==
    /\ appliers[a].pc = "idle"
    /\ intents[i].state = "succeeded"
    /\ ~intents[i].refunded
    /\ intents[i].ripe
    /\ ~intents[i].late
    /\ appliers' = [appliers EXCEPT ![a] =
          [pc |-> "listed", source |-> "sweep", intent |-> i, report |-> "none"]]
    /\ UNCHANGED <<tables, vouchers, redeemed, stripe, incidents, requests, admins>>

(* Mutant of SweepSkipsSettled: any transfer no longer PENDING is skipped. *)
SweepSkipsDecided(a) ==
    LET i == appliers[a].intent
        x == intents[i].transfer
    IN
    /\ appliers[a].pc = "listed"
    /\ IF ownership_transfers[x].status # "PENDING"
       THEN Idle(a) ELSE Goto(a, "load")
    /\ UNCHANGED <<tables, vouchers, redeemed, stripe, incidents, requests, admins>>

(* settledIds: a row that completed with this very intent needs nothing.   *)
SweepSkipsSettled(a) ==
    LET i == appliers[a].intent
        x == intents[i].transfer
    IN
    /\ appliers[a].pc = "listed"
    /\ IF ownership_transfers[x].status = "COMPLETED" /\ ownership_transfers[x].intent = i
       THEN Idle(a) ELSE Goto(a, "load")
    /\ UNCHANGED <<tables, vouchers, redeemed, stripe, incidents, requests, admins>>

(* What a caller does with an outcome that applied nothing.                *)
Conclude(a, outcome) ==
    IF outcome = "already_completed" THEN Idle(a) ELSE ToReport(a, "OPEN")

(* applyTransferFee reads the row and makes the row's checks first.  Here  *)
(* "already_completed" leaves an OPEN incident as it is.                   *)
LoadTransfer(a) ==
    LET i == appliers[a].intent
        outcome == RowOutcome(intents[i].transfer, i)
    IN
    /\ appliers[a].pc = "load"
    /\ \/ outcome = "ok" /\ Goto(a, "rpc")
       \/ outcome # "ok" /\ Conclude(a, outcome)
       \/ Faults /\ ToReport(a, "OPEN")
    /\ UNCHANGED <<tables, vouchers, redeemed, stripe, incidents, requests, admins>>

ResolveIncident(i) ==
    incidents' = [incidents EXCEPT ![i] = IF @ = "OPEN" THEN "RESOLVED" ELSE @]

(* Mutant of apply_transfer_fee: every outcome resolves the incident.      *)
ApplyAndResolve(i) ==
    LET x == intents[i].transfer IN
    /\ IF ApplyOutcome(x, i) = "applied" THEN CompleteRow(x, i) ELSE UNCHANGED tables
    /\ ResolveIncident(i)

(* The apply_transfer_fee transaction for payment i.                       *)
apply_transfer_fee(i) ==
    LET x == intents[i].transfer
        outcome == ApplyOutcome(x, i)
    IN
    \/ /\ outcome = "applied"
       /\ CompleteRow(x, i)
       /\ ResolveIncident(i)
    \/ /\ outcome = "already_completed"
       /\ ResolveIncident(i)
       /\ UNCHANGED tables
    \/ /\ outcome \notin {"applied", "already_completed"}
       /\ UNCHANGED <<tables, incidents>>

ApplyFee(a) ==
    LET i == appliers[a].intent
        outcome == ApplyOutcome(intents[i].transfer, i)
    IN
    /\ appliers[a].pc = "rpc"
    /\ \/ /\ apply_transfer_fee(i)
          /\ IF outcome # "applied" THEN Conclude(a, outcome)
             ELSE IF appliers[a].source = "sweep" THEN ToReport(a, "RESOLVED")
             ELSE Idle(a)
       \/ /\ Faults
          /\ ToReport(a, "OPEN")
          /\ UNCHANGED <<tables, incidents>>
    /\ UNCHANGED <<vouchers, redeemed, stripe, requests, admins>>

(* record_payment_incident: one row per intent; a closed one stays closed. *)
RecordIncident(a) ==
    LET i == appliers[a].intent IN
    /\ appliers[a].pc = "record"
    /\ incidents' = [incidents EXCEPT ![i] = IF @ = "none" THEN appliers[a].report ELSE @]
    /\ Idle(a)
    /\ UNCHANGED <<tables, vouchers, redeemed, stripe, requests, admins>>

(* The run ends where it stands: the backend dies, or recording fails      *)
(* (reportStuckPayment never throws).                                      *)
AbortApplier(a) ==
    /\ Faults
    /\ appliers[a].pc # "idle"
    /\ Idle(a)
    /\ UNCHANGED <<tables, vouchers, redeemed, stripe, incidents, requests, admins>>

-----------------------------------------------------------------------------
(* The stuck-payment queue.                                                *)

(* reapplyStuckPayment and refundStuckPayment: the incident is OPEN and    *)
(* Stripe says the money is there.  An incident is never reopened, and     *)
(* admin_reapply_payment looks again, so the two reads are one step.       *)
OpenReapply(d, i) ==
    /\ admins[d].pc = "idle"
    /\ incidents[i] = "OPEN"
    /\ intents[i].state = "succeeded"
    /\ ~intents[i].refunded
    /\ admins' = [admins EXCEPT ![d] = [pc |-> "reapply", intent |-> i]]
    /\ UNCHANGED <<tables, vouchers, redeemed, stripe, incidents, requests, appliers>>

admin_reapply_payment(d) ==
    LET i == admins[d].intent IN
    /\ admins[d].pc = "reapply"
    /\ incidents[i] = "OPEN"
    /\ apply_transfer_fee(i)
    /\ admins' = [admins EXCEPT ![d] = IdleAdmin]
    /\ UNCHANGED <<vouchers, redeemed, stripe, requests, appliers>>

OpenRefund(d, i) ==
    /\ admins[d].pc = "idle"
    /\ incidents[i] = "OPEN"
    /\ intents[i].state = "succeeded"
    /\ admins' = [admins EXCEPT ![d] = [pc |-> "refund", intent |-> i]]
    /\ UNCHANGED <<tables, vouchers, redeemed, stripe, incidents, requests, appliers>>

(* refunds.create under the incident's key, or the refund already made.    *)
RefundAtStripe(d) ==
    LET i == admins[d].intent IN
    /\ admins[d].pc = "refund"
    /\ intents' = [intents EXCEPT ![i].refunded = TRUE]
    /\ admins' = [admins EXCEPT ![d].pc = "record"]
    /\ UNCHANGED <<tables, vouchers, redeemed, keys, secrets, incidents, requests, appliers>>

(* Mutant of admin_refund_payment_incident: the transfer is left PENDING.  *)
RefundLeavesPending(d) ==
    LET i == admins[d].intent IN
    /\ admins[d].pc = "record"
    /\ incidents[i] = "OPEN"
    /\ incidents' = [incidents EXCEPT ![i] = "REFUNDED"]
    /\ admins' = [admins EXCEPT ![d] = IdleAdmin]
    /\ UNCHANGED <<tables, vouchers, redeemed, stripe, requests, appliers>>

(* The refund is recorded, and a transfer still PENDING is cancelled.      *)
admin_refund_payment_incident(d) ==
    LET i == admins[d].intent
        x == intents[i].transfer
    IN
    /\ admins[d].pc = "record"
    /\ incidents[i] = "OPEN"
    /\ incidents' = [incidents EXCEPT ![i] = "REFUNDED"]
    /\ \/ CancelRow(x)
       \/ ownership_transfers[x].status # "PENDING" /\ UNCHANGED tables
    /\ admins' = [admins EXCEPT ![d] = IdleAdmin]
    /\ UNCHANGED <<vouchers, redeemed, stripe, requests, appliers>>

(* A refusal (the incident is no longer OPEN), a failed call or a crash.   *)
AbortAdmin(d) ==
    /\ admins[d].pc # "idle"
    /\ admins' = [admins EXCEPT ![d] = IdleAdmin]
    /\ UNCHANGED <<tables, vouchers, redeemed, stripe, incidents, requests, appliers>>

-----------------------------------------------------------------------------
RequestStep(r) ==
    \/ \E x \in Transfers, u \in Users : ReceiveComplete(r, x, u)
    \/ ResolveRecipient(r)
    \/ CountVouchers(r)
    \/ RedeemVoucher(r)
    \/ CreateIntent(r)
    \/ StoreIntent(r)
    \/ CancelIntent(r)
    \/ AbortRequest(r)

ApplierStep(a) ==
    \/ \E i \in Intents : DeliverWebhook(a, i)
    \/ \E i \in Intents : SweepLists(a, i)
    \/ SweepSkipsSettled(a)
    \/ LoadTransfer(a)
    \/ ApplyFee(a)
    \/ RecordIncident(a)
    \/ AbortApplier(a)

AdminStep(d) ==
    \/ \E i \in Intents : OpenReapply(d, i)
    \/ admin_reapply_payment(d)
    \/ \E i \in Intents : OpenRefund(d, i)
    \/ RefundAtStripe(d)
    \/ admin_refund_payment_incident(d)
    \/ AbortAdmin(d)

Next ==
    \/ \E r \in Requests : RequestStep(r)
    \/ \E a \in Appliers : ApplierStep(a)
    \/ \E d \in Admins : AdminStep(d)
    \/ \E x \in Transfers : CancelTransfer(x) \/ ForgetKey(x)
    \/ \E u \in Users : GrantVoucher(u) \/ LoseVouchers(u)
    \/ \E i \in Intents : PayIntent(i) \/ Ripens(i) \/ PassWindow(i)

Spec == Init /\ [][Next]_vars

(* pg_cron keeps calling the sweep, and neither a crash nor a database     *)
(* fault can stop every run at the same call for ever: each call of a run  *)
(* for a given payment succeeds if runs keep reaching it.  Payments get    *)
(* older.  Nothing is assumed of webhooks, clients, admins or requests,    *)
(* nor that an intent stays in the window long enough for a run to list it.*)
SweepFairness ==
    \A i \in Intents :
      LET At(A(_)) == \E a \in Appliers : appliers[a].intent = i /\ A(a) IN
      /\ WF_vars(Ripens(i))
      /\ SF_vars(\E a \in Appliers : SweepLists(a, i))
      /\ SF_vars(At(SweepSkipsSettled))
      /\ SF_vars(At(LoadTransfer))
      /\ SF_vars(At(ApplyFee))
      /\ SF_vars(At(RecordIncident))

FairSpec == Spec /\ SweepFairness

-----------------------------------------------------------------------------
(* Properties.                                                             *)

Completed(x) == ownership_transfers[x].status = "COMPLETED"
Paid(i) == intents[i].state = "succeeded"
AppliedBy(i) ==
    /\ Paid(i)
    /\ Completed(intents[i].transfer)
    /\ ownership_transfers[intents[i].transfer].intent = i

(* No secret leaves the backend, and so no money is taken, for a transfer  *)
(* without a recipient: completeTransfer resolves the recipient before any *)
(* PaymentIntent exists, and nothing takes it away again.                  *)
PaidHasRecipient ==
    \A i \in secrets : ownership_transfers[intents[i].transfer].to # NoUser

(* A RESOLVED incident is the incident of a payment that completed its     *)
(* transfer, whichever of webhook, sweep and Re-apply closed it.           *)
ResolvedWasApplied ==
    \A i \in Intents : incidents[i] = "RESOLVED" => AppliedBy(i)

(* A REFUNDED incident had its money sent back by Stripe, and its transfer *)
(* no longer locks the chip.                                               *)
RefundUnlocks ==
    \A i \in Intents : incidents[i] = "REFUNDED" =>
        /\ intents[i].refunded
        /\ ownership_transfers[intents[i].transfer].status # "PENDING"

(* Settling a fee never lifts an admin suspension and never brings a       *)
(* retired chip back, whichever of the four sources settles it.            *)
AdminHoldSurvivesPayment ==
    [][\A t \in Tags :
          nfc_tags[t].status \in {"SUSPENDED", "RETIRED"} =>
             nfc_tags'[t].status = nfc_tags[t].status]_vars

(* A token changes hands only together with the completion of a transfer   *)
(* of that token, and then to that transfer's recipient.                   *)
OwnershipMovesWithCompletion ==
    [][\A t \in Tags : nfc_tags'[t].owner # nfc_tags[t].owner =>
          \E x \in Transfers :
             /\ ownership_transfers[x].status = "PENDING"
             /\ ownership_transfers'[x].status = "COMPLETED"
             /\ ownership_transfers[x].tag = t
             /\ nfc_tags'[t].owner = ownership_transfers[x].to]_vars

(* Every transfer is decided once, by a voucher or by one card payment     *)
(* taken for it, never by both (module TransferLedger).                    *)
Voucher == <<"voucher">>

ASSUME VoucherAssumption == Voucher \notin Intents \cup {NoIntent}

Ledger == INSTANCE TransferLedger WITH
    decision <- [x \in Transfers |->
                   IF ownership_transfers[x].status = "PENDING" THEN "open"
                   ELSE IF Completed(x) THEN "done"
                   ELSE "void"],
    payment  <- [x \in Transfers |->
                   IF ~Completed(x) THEN NoIntent
                   ELSE IF x \in redeemed THEN Voucher
                   ELSE ownership_transfers[x].intent],
    charged  <- [i \in Intents |-> IF Paid(i) THEN intents[i].transfer ELSE NoTransfer]

ImplementsLedger == Ledger!Spec

(* A payment is eventually accounted for even if no webhook ever arrives   *)
(* (it completes its transfer, or it is in the stuck-payment queue, or it  *)
(* was refunded), or else its intent has left the sweep's window.          *)
AccountedFor(i) == AppliedBy(i) \/ incidents[i] # "none" \/ intents[i].refunded

PaidIsAccountedFor ==
    \A i \in Intents : Paid(i) ~> AccountedFor(i) \/ intents[i].late

-----------------------------------------------------------------------------
(* What the repository's comments say and the code does not do.            *)

(* Every payment is, however old its intent gets.                          *)
EveryPaymentIsAccountedFor == \A i \in Intents : Paid(i) ~> AccountedFor(i)

(* An OPEN incident is a payment that was not applied.                     *)
OpenWasNotApplied == \A i \in Intents : incidents[i] = "OPEN" => ~AppliedBy(i)

(* One transfer is paid by card at most once.                              *)
ChargedOnce ==
    \A i, j \in Intents :
        Paid(i) /\ Paid(j) /\ intents[i].transfer = intents[j].transfer => i = j
=============================================================================
