------------------------------ MODULE TokenReissue ------------------------------
(***************************************************************************)
(* Replacing a chip that comes loose.  The owner asks for it; an admin     *)
(* approves, with the fee or without, or rejects; the owner pays by card;  *)
(* an admin moves the token onto a new chip.  The actors:                  *)
(*                                                                         *)
(*   Calls     the owner's API calls: request, pay, cancel                 *)
(*   Appliers  deliveries of payment_intent.succeeded and the sweep        *)
(*   Admins    fulfilment, and Re-apply and Refund of a stuck payment      *)
(*                                                                         *)
(* and Stripe (external).  Each call a handler makes to the database or to *)
(* Stripe is one action.  admin_fulfil_reissue is two: it reads the owner  *)
(* without a lock and resets the token in a later statement; the request's *)
(* row is locked from the first to the second.                             *)
(*                                                                         *)
(* Transfers, releases and suspensions of the chip (TokenLifecycle) appear *)
(* as their effect on the chip.  The tap and the photos a request needs    *)
(* are left to module TapPossession.                                       *)
(***************************************************************************)
EXTENDS Naturals

CONSTANTS
    Users, Tags,
    Rows,           \* ids of reissue_requests rows
    Intents,        \* ids of Stripe PaymentIntents
    Calls, Appliers, Admins,
    NoUser, NoTag, NoRow, NoIntent,
    MaxFaults,      \* bound: database calls that fail
    MaxMoves        \* bound: transfers, claims and other changes of the chips

ASSUME NullAssumption ==
    NoUser \notin Users /\ NoTag \notin Tags /\ NoRow \notin Rows /\ NoIntent \notin Intents
ASSUME BoundAssumption == MaxFaults \in Nat /\ MaxMoves \in Nat

VARIABLES
    nfc_tags,         \* chip -> lifecycle_status and current_owner_id
    pending,          \* chips that a pending transfer locks
    reissue_requests,
    intents, keys, secrets, \* Stripe, as in TransferFee
    incidents,        \* payment_incidents, as in TransferFee
    calls, appliers, admins,
    faults,           \* history: database calls that failed
    moves             \* history: changes of the chips begun

chips  == <<nfc_tags, pending, moves>>
stripe == <<intents, keys, secrets>>
vars   == <<chips, reissue_requests, stripe, incidents, calls, appliers, admins, faults>>

-----------------------------------------------------------------------------
Status  == {"PENDING", "APPROVED", "REJECTED", "CANCELLED"}
Payment == {"NULL", "AWAITING_PAYMENT", "PAID", "WAIVED"}

Chip == [status : {"ENROLLED", "ACTIVE", "SUSPENDED", "RELEASED", "RETIRED"},
         owner  : Users \cup {NoUser}]

(* new_tag is set when the request is fulfilled; "NONE" is an id no row    *)
(* has been inserted under.                                                *)
Row ==
    [status    : Status \cup {"NONE"},
     payment   : Payment,
     tag       : Tags \cup {NoTag},
     requester : Users \cup {NoUser},
     intent    : Intents \cup {NoIntent},
     new_tag   : Tags \cup {NoTag}]

Intent ==
    [state    : {"none", "open", "succeeded", "canceled"},
     row      : Rows \cup {NoRow},
     refunded : BOOLEAN]

(* `seen` is the row as the call first read it.                            *)
Call ==
    [pc     : {"idle", "insert", "owner", "retrieve", "create", "store", "reread",
               "stripe_cancel", "update"},
     row    : Rows \cup {NoRow},
     seen   : Row,
     intent : Intents \cup {NoIntent}]

Applier == [pc : {"idle", "rpc", "record"}, source : {"webhook", "sweep"},
            intent : Intents \cup {NoIntent}, report : {"none", "OPEN", "RESOLVED"}]

Admin == [pc : {"idle", "reset", "reapply", "refund", "record"},
          row : Rows \cup {NoRow}, new_tag : Tags \cup {NoTag}, intent : Intents \cup {NoIntent}]

EmptyRow == [status |-> "NONE", payment |-> "NULL", tag |-> NoTag, requester |-> NoUser,
             intent |-> NoIntent, new_tag |-> NoTag]
IdleCall == [pc |-> "idle", row |-> NoRow, seen |-> EmptyRow, intent |-> NoIntent]
IdleApplier == [pc |-> "idle", source |-> "webhook", intent |-> NoIntent, report |-> "none"]
IdleAdmin == [pc |-> "idle", row |-> NoRow, new_tag |-> NoTag, intent |-> NoIntent]

Open(q) ==
    \/ reissue_requests[q].status = "PENDING"
    \/ reissue_requests[q].status = "APPROVED" /\ reissue_requests[q].new_tag = NoTag

(* Type correctness; what a request's columns say together; one request is *)
(* open per chip.                                                          *)
TypeOK ==
    /\ nfc_tags \in [Tags -> Chip]
    /\ pending \subseteq Tags
    /\ reissue_requests \in [Rows -> Row]
    /\ \A q \in Rows : LET row == reissue_requests[q] IN
          /\ row.new_tag # NoTag => row.status = "APPROVED" /\ row.payment \in {"PAID", "WAIVED"}
          /\ row.status = "APPROVED" => row.payment # "NULL"
          /\ row.intent # NoIntent => row.payment \in {"AWAITING_PAYMENT", "PAID"}
    /\ \A p, q \in Rows : Open(p) /\ Open(q) /\ reissue_requests[p].tag = reissue_requests[q].tag
          => p = q
    /\ intents \in [Intents -> Intent]
    /\ keys \in [Rows -> Intents \cup {NoIntent}]
    /\ secrets \subseteq Intents
    /\ incidents \in [Intents -> {"none", "OPEN", "RESOLVED", "REFUNDED"}]
    /\ calls \in [Calls -> Call]
    /\ appliers \in [Appliers -> Applier]
    /\ admins \in [Admins -> Admin]
    /\ faults \in 0..MaxFaults
    /\ moves \in 0..MaxMoves

Init ==
    /\ nfc_tags \in [Tags -> {chip \in Chip :
                        \/ chip.status = "ENROLLED" /\ chip.owner = NoUser
                        \/ chip.status = "ACTIVE" /\ chip.owner # NoUser}]
    /\ pending = {}
    /\ reissue_requests = [q \in Rows |-> EmptyRow]
    /\ intents = [i \in Intents |-> [state |-> "none", row |-> NoRow, refunded |-> FALSE]]
    /\ keys = [q \in Rows |-> NoIntent]
    /\ secrets = {}
    /\ incidents = [i \in Intents |-> "none"]
    /\ calls = [c \in Calls |-> IdleCall]
    /\ appliers = [a \in Appliers |-> IdleApplier]
    /\ admins = [d \in Admins |-> IdleAdmin]
    /\ faults = 0
    /\ moves = 0

(* A fulfilment under way holds the lock on its request's row.             *)
Locked(q) == \E d \in Admins : admins[d].pc = "reset" /\ admins[d].row = q

(* UPDATE reissue_requests ... WHERE id = q.                               *)
Update(q, row) ==
    /\ ~Locked(q)
    /\ reissue_requests' = [reissue_requests EXCEPT ![q] = row]

CallEnds(c) == calls' = [calls EXCEPT ![c] = IdleCall]
CallGoesTo(c, pc) == calls' = [calls EXCEPT ![c].pc = pc]

-----------------------------------------------------------------------------
(* requestReissue.                                                         *)

(* loadTag, terminalStateError, assertTagOwner and the read of open        *)
(* requests.                                                               *)
RequestReads(c, q, u, t) ==
    /\ calls[c].pc = "idle"
    /\ nfc_tags[t] = [status |-> "ACTIVE", owner |-> u]
    /\ ~\E p \in Rows : Open(p) /\ reissue_requests[p].tag = t
    /\ calls' = [calls EXCEPT ![c] =
          [IdleCall EXCEPT !.pc = "insert", !.row = q,
             !.seen = [EmptyRow EXCEPT !.status = "PENDING", !.tag = t, !.requester = u]]]
    /\ UNCHANGED <<chips, reissue_requests, stripe, incidents, appliers, admins, faults>>

(* The INSERT; the unique index refuses a second open request of the chip. *)
RequestInserts(c) ==
    LET q == calls[c].row IN
    /\ calls[c].pc = "insert"
    /\ reissue_requests[q].status = "NONE"
    /\ ~\E p \in Rows : Open(p) /\ reissue_requests[p].tag = calls[c].seen.tag
    /\ reissue_requests' = [reissue_requests EXCEPT ![q] = calls[c].seen]
    /\ CallEnds(c)
    /\ UNCHANGED <<chips, stripe, incidents, appliers, admins, faults>>

(* admin_review_reissue: an approval needs the chip live and still the     *)
(* requester's.                                                            *)
admin_review_reissue(q, approve, waive) ==
    LET row  == reissue_requests[q]
        chip == nfc_tags[row.tag]
    IN
    /\ row.status = "PENDING"
    /\ \/ /\ approve
          /\ chip.status \in {"ACTIVE", "SUSPENDED"}
          /\ chip.owner = row.requester
          /\ Update(q, [row EXCEPT !.status = "APPROVED",
                          !.payment = IF waive THEN "WAIVED" ELSE "AWAITING_PAYMENT"])
       \/ /\ ~approve /\ ~waive
          /\ Update(q, [row EXCEPT !.status = "REJECTED"])
    /\ UNCHANGED <<chips, stripe, incidents, calls, appliers, admins, faults>>

-----------------------------------------------------------------------------
(* payReissue.                                                             *)

PayReads(c, q) ==
    LET row == reissue_requests[q] IN
    /\ calls[c].pc = "idle"
    /\ row.status = "APPROVED"
    /\ row.payment = "AWAITING_PAYMENT"
    /\ row.new_tag = NoTag
    /\ calls' = [calls EXCEPT ![c] = [IdleCall EXCEPT !.pc = "owner", !.row = q, !.seen = row]]
    /\ UNCHANGED <<chips, reissue_requests, stripe, incidents, appliers, admins, faults>>

(* The token may have changed hands since the approval.                    *)
PayChecksOwner(c) ==
    LET row == calls[c].seen IN
    /\ calls[c].pc = "owner"
    /\ IF nfc_tags[row.tag].owner = row.requester
       THEN CallGoesTo(c, IF row.intent = NoIntent THEN "create" ELSE "retrieve")
       ELSE CallEnds(c)
    /\ UNCHANGED <<chips, reissue_requests, stripe, incidents, appliers, admins, faults>>

(* The secret of the intent the row already had.                           *)
PayRetrieves(c) ==
    /\ calls[c].pc = "retrieve"
    /\ secrets' = secrets \cup {calls[c].seen.intent}
    /\ CallEnds(c)
    /\ UNCHANGED <<chips, reissue_requests, intents, keys, incidents, appliers, admins, faults>>

(* paymentIntents.create under the key token-reissue-fee-<id>.             *)
PayCreates(c) ==
    LET q == calls[c].row IN
    /\ calls[c].pc = "create"
    /\ \E i \in Intents :
          /\ \/ keys[q] = i /\ UNCHANGED <<intents, keys>>
             \/ /\ keys[q] = NoIntent
                /\ intents[i].state = "none"
                /\ intents' = [intents EXCEPT ![i].state = "open", ![i].row = q]
                /\ keys' = [keys EXCEPT ![q] = i]
          /\ calls' = [calls EXCEPT ![c].pc = "store", ![c].intent = i]
    /\ UNCHANGED <<chips, reissue_requests, secrets, incidents, appliers, admins, faults>>

(* Mutant of PayStores: an intent already on the row is overwritten.       *)
PayStoresOver(c) ==
    LET q == calls[c].row
        i == calls[c].intent
        row == reissue_requests[q]
    IN
    /\ calls[c].pc = "store"
    /\ \/ /\ row.payment = "AWAITING_PAYMENT"
          /\ Update(q, [row EXCEPT !.intent = i])
          /\ secrets' = secrets \cup {i}
          /\ CallEnds(c)
       \/ /\ row.payment # "AWAITING_PAYMENT"
          /\ CallGoesTo(c, "reread")
          /\ UNCHANGED <<reissue_requests, secrets>>
    /\ UNCHANGED <<chips, intents, keys, incidents, appliers, admins, faults>>

(* The conditional UPDATE asks neither for the status nor for the owner.   *)
(* Only an intent that is on the row has its secret handed out.            *)
PayStores(c) ==
    LET q == calls[c].row
        i == calls[c].intent
        row == reissue_requests[q]
        free == row.payment = "AWAITING_PAYMENT" /\ row.intent = NoIntent
    IN
    /\ calls[c].pc = "store"
    /\ \/ /\ free
          /\ Update(q, [row EXCEPT !.intent = i])
          /\ secrets' = secrets \cup {i}
          /\ CallEnds(c)
       \/ /\ ~free
          /\ CallGoesTo(c, "reread")
          /\ UNCHANGED <<reissue_requests, secrets>>
    /\ UNCHANGED <<chips, intents, keys, incidents, appliers, admins, faults>>

(* A concurrent call may have stored the same intent.                      *)
PayRereads(c) ==
    LET i == calls[c].intent IN
    /\ calls[c].pc = "reread"
    /\ secrets' = secrets \cup (IF reissue_requests[calls[c].row].intent = i THEN {i} ELSE {})
    /\ CallEnds(c)
    /\ UNCHANGED <<chips, reissue_requests, intents, keys, incidents, appliers, admins, faults>>

-----------------------------------------------------------------------------
(* cancelReissue.                                                          *)

CancelReads(c, q) ==
    LET row == reissue_requests[q] IN
    /\ calls[c].pc = "idle"
    /\ \/ row.status = "PENDING"
       \/ row.status = "APPROVED" /\ row.payment = "AWAITING_PAYMENT" /\ row.new_tag = NoTag
    /\ calls' = [calls EXCEPT ![c] =
          [IdleCall EXCEPT !.row = q, !.seen = row,
             !.pc = IF row.intent = NoIntent THEN "update" ELSE "stripe_cancel"]]
    /\ UNCHANGED <<chips, reissue_requests, stripe, incidents, appliers, admins, faults>>

(* The intent it read is canceled at Stripe, or was; a paid one ends the   *)
(* call.                                                                   *)
CancelAtStripe(c) ==
    LET i == calls[c].seen.intent IN
    /\ calls[c].pc = "stripe_cancel"
    /\ IF intents[i].state = "succeeded"
       THEN CallEnds(c) /\ UNCHANGED intents
       ELSE /\ intents' = [intents EXCEPT ![i].state = "canceled"]
            /\ CallGoesTo(c, "update")
    /\ UNCHANGED <<chips, reissue_requests, keys, secrets, incidents, appliers, admins, faults>>

(* Mutant of CancelUpdates: the UPDATE asks for the status alone.          *)
CancelUpdatesPaid(c) ==
    LET q == calls[c].row IN
    /\ calls[c].pc = "update"
    /\ IF reissue_requests[q].status = calls[c].seen.status
       THEN Update(q, [reissue_requests[q] EXCEPT !.status = "CANCELLED"])
       ELSE UNCHANGED reissue_requests
    /\ CallEnds(c)
    /\ UNCHANGED <<chips, stripe, incidents, appliers, admins, faults>>

(* The UPDATE asks for the status and payment status that were read, and   *)
(* not for the intent.                                                     *)
CancelUpdates(c) ==
    LET q == calls[c].row
        row == reissue_requests[q]
    IN
    /\ calls[c].pc = "update"
    /\ IF row.status = calls[c].seen.status /\ row.payment = calls[c].seen.payment
       THEN Update(q, [row EXCEPT !.status = "CANCELLED"])
       ELSE UNCHANGED reissue_requests
    /\ CallEnds(c)
    /\ UNCHANGED <<chips, stripe, incidents, appliers, admins, faults>>

(* A call that fails, is refused or dies, ends where it stands.            *)
AbortCall(c) ==
    /\ calls[c].pc # "idle"
    /\ CallEnds(c)
    /\ UNCHANGED <<chips, reissue_requests, stripe, incidents, appliers, admins, faults>>

-----------------------------------------------------------------------------
(* Stripe (external): a client that holds the secret pays; an idempotency  *)
(* key is forgotten.                                                       *)

PayIntent(i) ==
    /\ i \in secrets
    /\ intents[i].state = "open"
    /\ intents' = [intents EXCEPT ![i].state = "succeeded"]
    /\ UNCHANGED <<chips, reissue_requests, keys, secrets, incidents, calls, appliers, admins, faults>>

ForgetKey(q) ==
    /\ keys[q] # NoIntent
    /\ keys' = [keys EXCEPT ![q] = NoIntent]
    /\ UNCHANGED <<chips, reissue_requests, intents, secrets, incidents, calls, appliers, admins, faults>>

-----------------------------------------------------------------------------
(* Applying a paid fee.                                                    *)

ApplyOutcome(i) ==
    LET row == reissue_requests[intents[i].row] IN
    IF row.intent # i THEN "intent_mismatch"
    ELSE IF row.payment = "PAID" THEN "already_paid"
    ELSE IF row.status # "APPROVED" \/ row.payment # "AWAITING_PAYMENT" THEN "not_payable"
    ELSE "applied"

Settled(outcome) == outcome \in {"applied", "already_paid"}

apply_reissue_fee(i) ==
    LET q == intents[i].row IN
    /\ ~Locked(q)
    /\ reissue_requests' = IF ApplyOutcome(i) = "applied"
                           THEN [reissue_requests EXCEPT ![q].payment = "PAID"] ELSE reissue_requests
    /\ incidents' = IF Settled(ApplyOutcome(i)) /\ incidents[i] = "OPEN"
                    THEN [incidents EXCEPT ![i] = "RESOLVED"] ELSE incidents

ApplierGoes(a, pc, report) == appliers' = [appliers EXCEPT ![a].pc = pc, ![a].report = report]
ApplierEnds(a) == appliers' = [appliers EXCEPT ![a] = IdleApplier]

(* Stripe delivers payment_intent.succeeded, any number of times.          *)
DeliverWebhook(a, i) ==
    /\ appliers[a].pc = "idle"
    /\ intents[i].state = "succeeded"
    /\ appliers' = [appliers EXCEPT ![a] = [IdleApplier EXCEPT !.pc = "rpc", !.intent = i]]
    /\ UNCHANGED <<chips, reissue_requests, stripe, incidents, calls, admins, faults>>

(* The sweep lists the intents that succeeded and were not refunded, and   *)
(* leaves out those whose request is already PAID.  That it also leaves    *)
(* out payments of the last minutes and intents before its window (module  *)
(* TransferFee) only takes behaviours away, and nothing here is liveness.  *)
SweepLists(a, i) ==
    /\ appliers[a].pc = "idle"
    /\ intents[i].state = "succeeded"
    /\ ~intents[i].refunded
    /\ ~(reissue_requests[intents[i].row].payment = "PAID" /\ reissue_requests[intents[i].row].intent = i)
    /\ appliers' = [appliers EXCEPT ![a] =
          [IdleApplier EXCEPT !.pc = "rpc", !.source = "sweep", !.intent = i]]
    /\ UNCHANGED <<chips, reissue_requests, stripe, incidents, calls, admins, faults>>

(* applyReissueFee and what its caller does with the outcome; a call that  *)
(* fails may have been carried out.                                        *)
ApplyFee(a) ==
    LET i == appliers[a].intent
        outcome == ApplyOutcome(i)
    IN
    /\ appliers[a].pc = "rpc"
    /\ \/ /\ apply_reissue_fee(i)
          /\ IF ~Settled(outcome) THEN ApplierGoes(a, "record", "OPEN")
             ELSE IF outcome = "applied" /\ appliers[a].source = "sweep"
                  THEN ApplierGoes(a, "record", "RESOLVED")
                  ELSE ApplierEnds(a)
          /\ UNCHANGED faults
       \/ /\ faults < MaxFaults
          /\ faults' = faults + 1
          /\ apply_reissue_fee(i) \/ UNCHANGED <<reissue_requests, incidents>>
          /\ ApplierGoes(a, "record", "OPEN")
    /\ UNCHANGED <<chips, stripe, calls, admins>>

RecordIncident(a) ==
    LET i == appliers[a].intent IN
    /\ appliers[a].pc = "record"
    /\ incidents' = IF incidents[i] = "none"
                    THEN [incidents EXCEPT ![i] = appliers[a].report] ELSE incidents
    /\ ApplierEnds(a)
    /\ UNCHANGED <<chips, reissue_requests, stripe, calls, admins, faults>>

AbortApplier(a) ==
    /\ appliers[a].pc # "idle"
    /\ ApplierEnds(a)
    /\ UNCHANGED <<chips, reissue_requests, stripe, incidents, calls, admins, faults>>

-----------------------------------------------------------------------------
(* The stuck-payment queue, as in TransferFee; but a refund leaves the     *)
(* request as it is.                                                       *)

AdminGoes(d, pc) == admins' = [admins EXCEPT ![d].pc = pc]
AdminEnds(d) == admins' = [admins EXCEPT ![d] = IdleAdmin]

OpenIncident(d, i, pc) ==
    /\ admins[d].pc = "idle"
    /\ incidents[i] = "OPEN"
    /\ intents[i].state = "succeeded"
    /\ pc = "reapply" => ~intents[i].refunded
    /\ admins' = [admins EXCEPT ![d] = [IdleAdmin EXCEPT !.pc = pc, !.intent = i]]
    /\ UNCHANGED <<chips, reissue_requests, stripe, incidents, calls, appliers, faults>>

admin_reapply_payment(d) ==
    LET i == admins[d].intent IN
    /\ admins[d].pc = "reapply"
    /\ incidents[i] = "OPEN"
    /\ apply_reissue_fee(i)
    /\ AdminEnds(d)
    /\ UNCHANGED <<chips, stripe, calls, appliers, faults>>

RefundAtStripe(d) ==
    /\ admins[d].pc = "refund"
    /\ intents' = [intents EXCEPT ![admins[d].intent].refunded = TRUE]
    /\ AdminGoes(d, "record")
    /\ UNCHANGED <<chips, reissue_requests, keys, secrets, incidents, calls, appliers, faults>>

admin_refund_payment_incident(d) ==
    LET i == admins[d].intent IN
    /\ admins[d].pc = "record"
    /\ incidents[i] = "OPEN"
    /\ incidents' = [incidents EXCEPT ![i] = "REFUNDED"]
    /\ AdminEnds(d)
    /\ UNCHANGED <<chips, reissue_requests, stripe, calls, appliers, faults>>

-----------------------------------------------------------------------------
(* admin_fulfil_reissue.                                                   *)

(* The request's row is locked, its state checked, and the owner read.     *)
FulfilChecks(d, q, new) ==
    LET row == reissue_requests[q] IN
    /\ admins[d].pc = "idle"
    /\ ~Locked(q)
    /\ row.status = "APPROVED"
    /\ row.new_tag = NoTag
    /\ row.payment \in {"PAID", "WAIVED"}
    /\ nfc_tags[row.tag].owner = row.requester
    /\ admins' = [admins EXCEPT ![d] = [IdleAdmin EXCEPT !.pc = "reset", !.row = q, !.new_tag = new]]
    /\ UNCHANGED <<chips, reissue_requests, stripe, incidents, calls, appliers, faults>>

Resettable(old, new) ==
    /\ nfc_tags[old].status \in {"ACTIVE", "SUSPENDED"}
    /\ nfc_tags[new] = [status |-> "ENROLLED", owner |-> NoUser]
    /\ old \notin pending

Reset(old, new) ==
    nfc_tags' = [nfc_tags EXCEPT ![new] = [status |-> "ACTIVE", owner |-> nfc_tags[old].owner],
                                 ![old] = [status |-> "RETIRED", owner |-> NoUser]]

(* admin_reset_token and the end of the transaction, or a refusal.         *)
FulfilResets(d) ==
    LET q   == admins[d].row
        old == reissue_requests[q].tag
        new == admins[d].new_tag
    IN
    /\ admins[d].pc = "reset"
    /\ IF Resettable(old, new)
       THEN /\ Reset(old, new)
            /\ reissue_requests' = [reissue_requests EXCEPT ![q].new_tag = new]
       ELSE UNCHANGED <<nfc_tags, reissue_requests>>
    /\ AdminEnds(d)
    /\ UNCHANGED <<pending, moves, stripe, incidents, calls, appliers, faults>>

AbortAdmin(d) ==
    /\ admins[d].pc # "idle"
    /\ AdminEnds(d)
    /\ UNCHANGED <<chips, reissue_requests, stripe, incidents, calls, appliers, faults>>

-----------------------------------------------------------------------------
(* What else happens to the chip (TokenLifecycle).                         *)

Moves ==
    /\ moves < MaxMoves
    /\ moves' = moves + 1
    /\ UNCHANGED <<reissue_requests, stripe, incidents, calls, appliers, admins, faults>>

InitiateTransfer(t) ==
    /\ nfc_tags[t].status = "ACTIVE"
    /\ t \notin pending
    /\ pending' = pending \cup {t}
    /\ Moves /\ UNCHANGED nfc_tags

(* A pending transfer completes, or is cancelled when u is the owner.      *)
EndTransfer(t, u) ==
    /\ t \in pending
    /\ pending' = pending \ {t}
    /\ nfc_tags' = [nfc_tags EXCEPT ![t].owner = u]
    /\ UNCHANGED <<moves, reissue_requests, stripe, incidents, calls, appliers, admins, faults>>

Claim(t, u) ==
    /\ nfc_tags[t].status = "ENROLLED"
    /\ nfc_tags' = [nfc_tags EXCEPT ![t] = [status |-> "ACTIVE", owner |-> u]]
    /\ Moves /\ UNCHANGED pending

Release(t) ==
    /\ nfc_tags[t].status = "ACTIVE"
    /\ t \notin pending
    /\ nfc_tags' = [nfc_tags EXCEPT ![t] = [status |-> "RELEASED", owner |-> NoUser]]
    /\ Moves /\ UNCHANGED pending

Suspend(t) ==
    /\ nfc_tags[t].status = "ACTIVE"
    /\ nfc_tags' = [nfc_tags EXCEPT ![t].status = "SUSPENDED"]
    /\ Moves /\ UNCHANGED pending

-----------------------------------------------------------------------------
CallStep(c) ==
    \/ \E q \in Rows :
          \/ \E u \in Users, t \in Tags : RequestReads(c, q, u, t)
          \/ PayReads(c, q)
          \/ CancelReads(c, q)
    \/ RequestInserts(c)
    \/ PayChecksOwner(c)
    \/ PayRetrieves(c)
    \/ PayCreates(c)
    \/ PayStores(c)
    \/ PayRereads(c)
    \/ CancelAtStripe(c)
    \/ CancelUpdates(c)
    \/ AbortCall(c)

ApplierStep(a) ==
    \/ \E i \in Intents : DeliverWebhook(a, i) \/ SweepLists(a, i)
    \/ ApplyFee(a)
    \/ RecordIncident(a)
    \/ AbortApplier(a)

AdminStep(d) ==
    \/ \E i \in Intents, pc \in {"reapply", "refund"} : OpenIncident(d, i, pc)
    \/ admin_reapply_payment(d)
    \/ RefundAtStripe(d)
    \/ admin_refund_payment_incident(d)
    \/ \E q \in Rows, new \in Tags : FulfilChecks(d, q, new)
    \/ FulfilResets(d)
    \/ AbortAdmin(d)

Next ==
    \/ \E c \in Calls : CallStep(c)
    \/ \E a \in Appliers : ApplierStep(a)
    \/ \E d \in Admins : AdminStep(d)
    \/ \E q \in Rows :
          \/ \E approve, waive \in BOOLEAN : admin_review_reissue(q, approve, waive)
          \/ ForgetKey(q)
    \/ \E i \in Intents : PayIntent(i)
    \/ \E t \in Tags :
          \/ InitiateTransfer(t) \/ Release(t) \/ Suspend(t)
          \/ \E u \in Users : EndTransfer(t, u) \/ Claim(t, u)

Spec == Init /\ [][Next]_vars

-----------------------------------------------------------------------------
(* One replacement is paid for once: although two calls may create two     *)
(* intents when Stripe has forgotten the first one's key, only one of them *)
(* is ever handed out.                                                     *)
ChargedOnce ==
    \A i, j \in secrets : intents[i].row = intents[j].row => i = j

(* A request is PAID by the very intent on its row, and an incident is     *)
(* RESOLVED only when its payment was applied, whichever of webhook, sweep *)
(* and Re-apply got there first.                                           *)
PaidByItsIntent ==
    /\ \A q \in Rows : reissue_requests[q].payment = "PAID" =>
          LET i == reissue_requests[q].intent IN i # NoIntent /\ intents[i].state = "succeeded"
    /\ \A i \in Intents : incidents[i] = "RESOLVED" =>
          LET row == reissue_requests[intents[i].row] IN row.intent = i /\ row.payment = "PAID"

(* What is paid for stays so: a cancellation that read the request before  *)
(* it was paid or waived does not close it, and a payment that arrives     *)
(* after it was closed does not bring it back.                             *)
PaidIsKept ==
    \A q \in Rows : reissue_requests[q].payment \in {"PAID", "WAIVED"} =>
        reissue_requests[q].status = "APPROVED"

-----------------------------------------------------------------------------
(* "Nothing is fulfilled unpaid unless an admin waived the fee": whoever   *)
(* gets a new chip without a waiver has paid, and the money has not been   *)
(* sent back.                                                              *)
NothingFulfilledUnpaid ==
    [][\A q \in Rows : LET row == reissue_requests[q] IN
          row.new_tag = NoTag /\ reissue_requests'[q].new_tag # NoTag /\ row.payment # "WAIVED" =>
             intents[row.intent].state = "succeeded" /\ ~intents[row.intent].refunded]_vars

(* Rows have their shape; what is PAID was paid by its intent, is still    *)
(* open for the admin, and was not reported resolved by mistake.           *)
Inv == TypeOK /\ PaidByItsIntent /\ PaidIsKept
=============================================================================
