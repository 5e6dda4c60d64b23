--------------------------- MODULE TransferFee_proofs ---------------------------
(***************************************************************************)
(* Proofs about TransferFee, for any number of accounts, transfers,        *)
(* PaymentIntents, requests, webhook deliveries, sweep runs and admins, and*)
(* whatever Stripe forgets or the database refuses.                        *)
(***************************************************************************)
EXTENDS TransferFee, TLAPS

(* Stripe's side: an intent that exists is for a transfer, the key of a    *)
(* transfer leads to an intent for it, and only a handed-out secret pays.  *)
IntentsOK ==
    /\ \A i \in Intents : intents[i].state # "none" => intents[i].transfer \in Transfers
    /\ \A x \in Transfers : keys[x] # NoIntent =>
          intents[keys[x]].transfer = x /\ intents[keys[x]].state # "none"
    /\ \A i \in secrets : intents[i].state # "none"
    /\ \A i \in Intents : Paid(i) => i \in secrets

(* The rows: a stored intent is for the row's transfer; a secret is handed *)
(* out only for a row that names its recipient and an intent, and that     *)
(* bars the voucher; a completed row was paid for in one of the two ways.  *)
RowsOK ==
    /\ \A x \in Transfers : ownership_transfers[x].intent # NoIntent =>
          /\ intents[ownership_transfers[x].intent].transfer = x
          /\ intents[ownership_transfers[x].intent].state # "none"
    /\ \A i \in secrets :
          /\ ownership_transfers[intents[i].transfer].intent # NoIntent
          /\ ownership_transfers[intents[i].transfer].to # NoUser
    /\ \A x \in redeemed : Completed(x) /\ ownership_transfers[x].intent = NoIntent
    /\ \A x \in Transfers : Completed(x) /\ x \notin redeemed =>
          ownership_transfers[x].intent \in Intents /\ Paid(ownership_transfers[x].intent)

(* What a request in flight may rely on.                                   *)
RequestsOK ==
    \A r \in Requests :
       LET req == requests[r] IN
       /\ req.pc # "idle" => req.transfer \in Transfers /\ req.user \in Users
       /\ req.pc \notin {"idle", "resolve"} => ownership_transfers[req.transfer].to # NoUser
       /\ req.pc \in {"store", "cancel"} =>
             /\ req.intent \in Intents
             /\ intents[req.intent].transfer = req.transfer
             /\ intents[req.intent].state # "none"

AppliersOK ==
    \A a \in Appliers :
       /\ appliers[a].pc # "idle" => appliers[a].intent \in Intents /\ Paid(appliers[a].intent)
       /\ appliers[a].pc # "record" => appliers[a].report = "none"
       /\ appliers[a].report = "RESOLVED" => AppliedBy(appliers[a].intent)

AdminsOK ==
    \A d \in Admins :
       /\ admins[d].pc # "idle" => admins[d].intent \in Intents /\ Paid(admins[d].intent)
       /\ admins[d].pc = "record" => intents[admins[d].intent].refunded

IncidentsOK ==
    /\ \A i \in Intents : incidents[i] # "none" => Paid(i)
    /\ ResolvedWasApplied
    /\ RefundUnlocks

(* The inductive invariant.                                                *)
IInv ==
    /\ TypeOK
    /\ IntentsOK
    /\ RowsOK
    /\ RequestsOK
    /\ AppliersOK
    /\ AdminsOK
    /\ IncidentsOK

LEMMA InitIInv == Init => IInv
<1> SUFFICES ASSUME Init PROVE IInv
  OBVIOUS
<1>1. TablesTypeOK
  BY DEF Init, TablesTypeOK, PendingRow, TransferRow, TagRow
<1>2. /\ IdleRequest \in RequestSlot /\ IdleRequest.pc = "idle"
      /\ IdleApplier \in ApplierSlot /\ IdleApplier.pc = "idle" /\ IdleApplier.report = "none"
      /\ IdleAdmin \in AdminSlot /\ IdleAdmin.pc = "idle"
      /\ [state |-> "none", transfer |-> NoTransfer,
          refunded |-> FALSE, ripe |-> FALSE, late |-> FALSE] \in IntentRow
  BY DEF IdleRequest, RequestSlot, IdleApplier, ApplierSlot, IdleAdmin, AdminSlot, IntentRow
<1>3. TypeOK
  BY <1>1, <1>2, BoundAssumption DEF Init, TypeOK, IncidentStatus
<1>4. IntentsOK
  BY DEF Init, IntentsOK, Paid
<1>5. RowsOK
  BY DEF Init, RowsOK, PendingRow, Completed
<1>6. RequestsOK /\ AppliersOK /\ AdminsOK
  BY <1>2 DEF Init, RequestsOK, AppliersOK, AdminsOK
<1>7. IncidentsOK
  BY DEF Init, IncidentsOK, ResolvedWasApplied, RefundUnlocks
<1>. QED
  BY <1>3, <1>4, <1>5, <1>6, <1>7 DEF IInv

-----------------------------------------------------------------------------
(* The shared tables.                                                      *)

(* An apply that reports "applied" met a PENDING row with a recipient, and *)
(* a chip that is not retired.                                             *)
LEMMA AppliedRow ==
    ASSUME TablesTypeOK,
           NEW x \in Transfers, NEW i \in Intents \cup {NoIntent},
           ApplyOutcome(x, i) = "applied"
    PROVE  /\ ownership_transfers[x].status = "PENDING"
           /\ ownership_transfers[x].intent \in {NoIntent, i}
           /\ ownership_transfers[x].to \in Users
           /\ ownership_transfers[x].from \in Users
           /\ ownership_transfers[x].tag \in Tags
           /\ nfc_tags[ownership_transfers[x].tag].status # "RETIRED"
<1> DEFINE row == ownership_transfers[x]
<1>1. row \in TransferRow
  BY DEF TablesTypeOK
<1>2. RowOutcome(x, i) = "ok"
  BY DEF ApplyOutcome, RowOutcome
<1>3. /\ row.status = "PENDING"
      /\ row.intent \in {NoIntent, i}
      /\ row.to # NoUser
  BY <1>2 DEF RowOutcome
<1>4. row.tag \in Tags /\ row.from \in Users
  BY <1>3 DEF TablesTypeOK
<1>5. nfc_tags[row.tag].status # "RETIRED"
  BY <1>2 DEF ApplyOutcome
<1>. QED
  BY <1>1, <1>3, <1>4, <1>5 DEF TransferRow

(* Completing a row keeps the types of the three tables.                   *)
LEMMA CompleteRowType ==
    ASSUME TablesTypeOK,
           NEW x \in Transfers, NEW i \in Intents \cup {NoIntent},
           ownership_transfers[x].status = "PENDING",
           ownership_transfers[x].to \in Users,
           CompleteRow(x, i)
    PROVE  TablesTypeOK'
<1> DEFINE row == ownership_transfers[x]
           t == row.tag
<1>1. row \in TransferRow /\ t \in Tags /\ row.from \in Users
  BY DEF TablesTypeOK
<1>2. nfc_tags' \in [Tags -> TagRow]
  <2>1. nfc_tags[t] \in TagRow
    BY <1>1 DEF TablesTypeOK
  <2>2. nfc_tags' = [nfc_tags EXCEPT ![t] =
           [status |-> IF nfc_tags[t].status = "SUSPENDED" THEN "SUSPENDED" ELSE "ACTIVE",
            owner |-> row.to]]
    BY DEF CompleteRow
  <2>. QED
    BY <2>2 DEF TablesTypeOK, TagRow, LifecycleStatus
<1>3. ownership_proofs' \in [Tags -> Users \cup {NoUser}]
  BY DEF CompleteRow, TablesTypeOK
<1>4. ownership_transfers' =
        [ownership_transfers EXCEPT ![x] =
           [row EXCEPT !.status = "COMPLETED",
                       !.intent = IF i = NoIntent THEN @ ELSE i]]
  BY DEF CompleteRow, TablesTypeOK
<1>5. [row EXCEPT !.status = "COMPLETED", !.intent = IF i = NoIntent THEN @ ELSE i]
        \in TransferRow
  BY <1>1 DEF TransferRow, TransferStatus
<1>6. ownership_transfers' \in [Transfers -> TransferRow]
  BY <1>4, <1>5 DEF TablesTypeOK
<1>7. ASSUME NEW y \in Transfers, ownership_transfers'[y].status # "NONE"
      PROVE  /\ ownership_transfers'[y].tag \in Tags
             /\ ownership_transfers'[y].from \in Users
             /\ ownership_transfers'[y].status = "COMPLETED" =>
                   ownership_transfers'[y].to \in Users
  <2>1. CASE y = x
    BY <2>1, <1>1, <1>4 DEF TablesTypeOK, TransferRow
  <2>2. CASE y # x
    BY <2>2, <1>4, <1>7 DEF TablesTypeOK
  <2>. QED
    BY <2>1, <2>2
<1>. QED
  BY <1>2, <1>3, <1>6, <1>7 DEF TablesTypeOK

(* So does cancelling one.                                                 *)
LEMMA CancelRowType ==
    ASSUME TablesTypeOK, NEW x \in Transfers, CancelRow(x)
    PROVE  TablesTypeOK'
<1>1. ownership_transfers' =
        [ownership_transfers EXCEPT ![x] =
           [ownership_transfers[x] EXCEPT !.status = "CANCELLED"]]
  BY DEF CancelRow
<1>2. [ownership_transfers[x] EXCEPT !.status = "CANCELLED"] \in TransferRow
  BY DEF TablesTypeOK, TransferRow, TransferStatus
<1>3. ownership_transfers' \in [Transfers -> TransferRow]
  BY <1>1, <1>2 DEF TablesTypeOK
<1>4. ASSUME NEW y \in Transfers, ownership_transfers'[y].status # "NONE"
      PROVE  /\ ownership_transfers'[y].tag \in Tags
             /\ ownership_transfers'[y].from \in Users
             /\ ownership_transfers'[y].status = "COMPLETED" =>
                   ownership_transfers'[y].to \in Users
  <2>1. CASE y = x
    BY <2>1, <1>1 DEF CancelRow, TablesTypeOK, TransferRow
  <2>2. CASE y # x
    BY <2>2, <1>1, <1>4 DEF TablesTypeOK
  <2>. QED
    BY <2>1, <2>2
<1>. QED
  BY <1>3, <1>4 DEF CancelRow, TablesTypeOK

(* Naming the recipient of a pending row keeps the types too.              *)
LEMMA ResolveRowType ==
    ASSUME TablesTypeOK, NEW x \in Transfers, NEW u \in Users,
           ownership_transfers[x].status = "PENDING",
           ownership_transfers' = [ownership_transfers EXCEPT ![x].to = u],
           UNCHANGED <<nfc_tags, ownership_proofs>>
    PROVE  TablesTypeOK'
<1>1. [ownership_transfers[x] EXCEPT !.to = u] \in TransferRow
  BY DEF TablesTypeOK, TransferRow
<1>2. ownership_transfers' \in [Transfers -> TransferRow]
  BY <1>1 DEF TablesTypeOK
<1>3. ASSUME NEW y \in Transfers, ownership_transfers'[y].status # "NONE"
      PROVE  /\ ownership_transfers'[y].tag \in Tags
             /\ ownership_transfers'[y].from \in Users
             /\ ownership_transfers'[y].status = "COMPLETED" =>
                   ownership_transfers'[y].to \in Users
  <2>1. CASE y = x
    BY <2>1 DEF TablesTypeOK, TransferRow
  <2>2. CASE y # x
    BY <2>2, <1>3 DEF TablesTypeOK
  <2>. QED
    BY <2>1, <2>2
<1>. QED
  BY <1>2, <1>3 DEF TablesTypeOK

-----------------------------------------------------------------------------
(* What no step takes back.                                                *)

(* An intent keeps its transfer, its payment and its refund.               *)
IntentsForward ==
    \A i \in Intents :
       /\ intents[i].state # "none" =>
             intents'[i].state # "none" /\ intents'[i].transfer = intents[i].transfer
       /\ intents[i].state = "succeeded" => intents'[i].state = "succeeded"
       /\ intents[i].refunded => intents'[i].refunded

(* A row keeps its recipient and that it names an intent; once it is no    *)
(* longer PENDING it does not change at all.                               *)
RowsForward ==
    \A x \in Transfers :
       /\ ownership_transfers[x].to # NoUser => ownership_transfers'[x].to # NoUser
       /\ ownership_transfers[x].intent # NoIntent => ownership_transfers'[x].intent # NoIntent
       /\ ownership_transfers[x].status # "PENDING" =>
             ownership_transfers'[x] = ownership_transfers[x]

LEMMA CompleteRowForward ==
    ASSUME TablesTypeOK, NEW x \in Transfers, NEW i \in Intents \cup {NoIntent},
           ApplyOutcome(x, i) = "applied", CompleteRow(x, i)
    PROVE  /\ RowsForward
           /\ ownership_transfers'[x].status = "COMPLETED"
           /\ ownership_transfers'[x].intent =
                 IF i = NoIntent THEN ownership_transfers[x].intent ELSE i
           /\ \A y \in Transfers \ {x} : ownership_transfers'[y] = ownership_transfers[y]
           /\ TablesTypeOK'
<1>1. /\ ownership_transfers[x].status = "PENDING"
      /\ ownership_transfers[x].to \in Users
  BY AppliedRow
<1>2. TablesTypeOK'
  BY <1>1, CompleteRowType
<1>3. /\ ownership_transfers' = [ownership_transfers EXCEPT ![x] =
           [ownership_transfers[x] EXCEPT !.status = "COMPLETED",
                                          !.intent = IF i = NoIntent THEN @ ELSE i]]
      /\ ownership_transfers[x] \in TransferRow
  BY DEF CompleteRow, TablesTypeOK
<1>4. /\ ownership_transfers'[x].status = "COMPLETED"
      /\ ownership_transfers'[x].intent =
            IF i = NoIntent THEN ownership_transfers[x].intent ELSE i
      /\ ownership_transfers'[x].to = ownership_transfers[x].to
      /\ \A y \in Transfers \ {x} : ownership_transfers'[y] = ownership_transfers[y]
  BY <1>3 DEF TablesTypeOK, TransferRow
<1>5. RowsForward
  BY <1>1, <1>4, NullAssumption DEF RowsForward
<1>. QED
  BY <1>2, <1>4, <1>5

LEMMA CancelRowForward ==
    ASSUME TablesTypeOK, NEW x \in Transfers, CancelRow(x)
    PROVE  /\ RowsForward
           /\ ownership_transfers[x].status = "PENDING"
           /\ ownership_transfers'[x].status = "CANCELLED"
           /\ ownership_transfers'[x].intent = ownership_transfers[x].intent
           /\ \A y \in Transfers \ {x} : ownership_transfers'[y] = ownership_transfers[y]
           /\ TablesTypeOK'
<1>1. TablesTypeOK'
  BY CancelRowType
<1>2. /\ ownership_transfers' = [ownership_transfers EXCEPT ![x] =
           [ownership_transfers[x] EXCEPT !.status = "CANCELLED"]]
      /\ ownership_transfers[x] \in TransferRow
      /\ ownership_transfers[x].status = "PENDING"
  BY DEF CancelRow, TablesTypeOK
<1>3. /\ ownership_transfers'[x].status = "CANCELLED"
      /\ ownership_transfers'[x].intent = ownership_transfers[x].intent
      /\ ownership_transfers'[x].to = ownership_transfers[x].to
      /\ \A y \in Transfers \ {x} : ownership_transfers'[y] = ownership_transfers[y]
  BY <1>2 DEF TablesTypeOK, TransferRow
<1>. QED
  BY <1>1, <1>2, <1>3 DEF RowsForward

-----------------------------------------------------------------------------
(* The parts of the invariant that a step leaves alone.                    *)

Forward == IntentsForward /\ RowsForward

LEMMA QuietForward ==
    ASSUME UNCHANGED <<ownership_transfers, intents>>
    PROVE  Forward
  BY DEF Forward, IntentsForward, RowsForward

LEMMA IntentsStable ==
    ASSUME IInv, IntentsForward, UNCHANGED <<keys, secrets>>,
           \A i \in Intents : intents[i].state = "none" => intents'[i].state = "none",
           \A i \in Intents : intents'[i].state = "succeeded" =>
              intents[i].state = "succeeded" \/ i \in secrets
    PROVE  IntentsOK'
<1>1. keys \in [Transfers -> Intents \cup {NoIntent}] /\ secrets \subseteq Intents
  BY DEF IInv, TypeOK
<1>. QED
  BY <1>1 DEF IInv, IntentsOK, IntentsForward, Paid

(* The rows stay consistent when whatever is new in them is.               *)
LEMMA RowsStable ==
    ASSUME IInv, TypeOK', Forward,
           \A x \in Transfers :
              ownership_transfers'[x].intent # ownership_transfers[x].intent =>
                 /\ intents'[ownership_transfers'[x].intent].transfer = x
                 /\ intents'[ownership_transfers'[x].intent].state # "none",
           \A i \in secrets' \ secrets :
              /\ ownership_transfers'[intents'[i].transfer].intent # NoIntent
              /\ ownership_transfers'[intents'[i].transfer].to # NoUser,
           \A x \in redeemed' \ redeemed :
              Completed(x)' /\ ownership_transfers'[x].intent = NoIntent,
           \A x \in Transfers : Completed(x)' /\ ~Completed(x) /\ x \notin redeemed' =>
              /\ ownership_transfers'[x].intent \in Intents
              /\ intents'[ownership_transfers'[x].intent].state = "succeeded",
           redeemed \subseteq redeemed'
    PROVE  RowsOK'
<1>0. /\ secrets \subseteq Intents /\ redeemed \subseteq Transfers
      /\ IntentsForward /\ RowsForward
      /\ \A x \in Transfers : ownership_transfers[x].intent \in Intents \cup {NoIntent}
  BY DEF IInv, TypeOK, TablesTypeOK, TransferRow, Forward
<1>1. ASSUME NEW x \in Transfers, ownership_transfers'[x].intent # NoIntent
      PROVE  /\ intents'[ownership_transfers'[x].intent].transfer = x
             /\ intents'[ownership_transfers'[x].intent].state # "none"
  <2>1. CASE ownership_transfers'[x].intent # ownership_transfers[x].intent
    BY <2>1
  <2>2. CASE ownership_transfers'[x].intent = ownership_transfers[x].intent
    BY <1>0, <1>1, <2>2 DEF IInv, RowsOK, IntentsForward
  <2>. QED
    BY <2>1, <2>2
<1>2. ASSUME NEW i \in secrets'
      PROVE  /\ ownership_transfers'[intents'[i].transfer].intent # NoIntent
             /\ ownership_transfers'[intents'[i].transfer].to # NoUser
  <2>1. CASE i \notin secrets
    BY <2>1, <1>2
  <2>2. CASE i \in secrets
    <3>1. /\ i \in Intents /\ intents[i].state # "none" /\ intents[i].transfer \in Transfers
          /\ intents'[i].transfer = intents[i].transfer
      BY <1>0, <2>2 DEF IInv, IntentsOK, IntentsForward
    <3>2. /\ ownership_transfers[intents[i].transfer].intent # NoIntent
          /\ ownership_transfers[intents[i].transfer].to # NoUser
      BY <2>2 DEF IInv, RowsOK
    <3>. QED
      BY <1>0, <3>1, <3>2 DEF RowsForward
  <2>. QED
    BY <2>1, <2>2
<1>3. ASSUME NEW x \in redeemed'
      PROVE  Completed(x)' /\ ownership_transfers'[x].intent = NoIntent
  <2>1. CASE x \in redeemed
    <3>1. Completed(x) /\ ownership_transfers[x].intent = NoIntent /\ x \in Transfers
      BY <1>0, <2>1 DEF IInv, RowsOK
    <3>. QED
      BY <1>0, <3>1 DEF RowsForward, Completed
  <2>. QED
    BY <2>1, <1>3
<1>4. ASSUME NEW x \in Transfers, Completed(x)', x \notin redeemed'
      PROVE  /\ ownership_transfers'[x].intent \in Intents
             /\ intents'[ownership_transfers'[x].intent].state = "succeeded"
  <2>1. CASE Completed(x)
    <3>1. ownership_transfers'[x] = ownership_transfers[x]
      BY <1>0, <2>1 DEF RowsForward, Completed
    <3>2. /\ ownership_transfers[x].intent \in Intents
          /\ intents[ownership_transfers[x].intent].state = "succeeded"
      BY <2>1, <1>4 DEF IInv, RowsOK, Paid
    <3>. QED
      BY <1>0, <3>1, <3>2 DEF IntentsForward
  <2>. QED
    BY <2>1, <1>4
<1>. QED
  BY <1>1, <1>2, <1>3, <1>4 DEF RowsOK, Paid

LEMMA RequestsStable ==
    ASSUME IInv, Forward,
           \A r \in Requests : requests'[r] = requests[r] \/ requests'[r].pc = "idle"
    PROVE  RequestsOK'
<1> SUFFICES ASSUME NEW r \in Requests, requests'[r].pc # "idle"
             PROVE  LET req == requests'[r] IN
                    /\ req.transfer \in Transfers /\ req.user \in Users
                    /\ req.pc # "resolve" => ownership_transfers'[req.transfer].to # NoUser
                    /\ req.pc \in {"store", "cancel"} =>
                          /\ req.intent \in Intents
                          /\ intents'[req.intent].transfer = req.transfer
                          /\ intents'[req.intent].state # "none"
  BY DEF RequestsOK
<1>1. requests'[r] = requests[r]
  OBVIOUS
<1>2. LET req == requests[r] IN
      /\ req.transfer \in Transfers /\ req.user \in Users
      /\ req.pc # "resolve" => ownership_transfers[req.transfer].to # NoUser
      /\ req.pc \in {"store", "cancel"} =>
            /\ req.intent \in Intents
            /\ intents[req.intent].transfer = req.transfer
            /\ intents[req.intent].state # "none"
  BY <1>1 DEF IInv, RequestsOK
<1>. QED
  BY <1>1, <1>2 DEF Forward, IntentsForward, RowsForward

(* A payment that was applied stays applied.                               *)
LEMMA AppliedStays ==
    ASSUME IInv, Forward, NEW i \in Intents, AppliedBy(i)
    PROVE  AppliedBy(i)'
<1>1. intents[i].state = "succeeded" /\ intents[i].transfer \in Transfers
  BY DEF AppliedBy, Paid, IInv, IntentsOK
<1>. QED
  BY <1>1 DEF AppliedBy, Paid, Completed, Forward, IntentsForward, RowsForward

LEMMA AppliersStable ==
    ASSUME IInv, Forward,
           \A a \in Appliers : appliers'[a] = appliers[a] \/ appliers'[a] = IdleApplier
    PROVE  AppliersOK'
<1> SUFFICES ASSUME NEW a \in Appliers
             PROVE  /\ appliers'[a].pc # "idle" =>
                          appliers'[a].intent \in Intents /\ Paid(appliers[a].intent)'
                    /\ appliers'[a].pc # "record" => appliers'[a].report = "none"
                    /\ appliers'[a].report = "RESOLVED" => AppliedBy(appliers[a].intent)'
  <2>1. IdleApplier.pc = "idle" /\ IdleApplier.report = "none"
    BY DEF IdleApplier
  <2>. QED
    BY <2>1 DEF AppliersOK, Paid, AppliedBy, Completed
<1>1. IdleApplier.pc = "idle" /\ IdleApplier.report = "none"
  BY DEF IdleApplier
<1>2. CASE appliers'[a] = IdleApplier
  BY <1>1, <1>2
<1>3. CASE appliers'[a] = appliers[a]
  <2>1. /\ appliers[a].pc # "idle" =>
             appliers[a].intent \in Intents /\ Paid(appliers[a].intent)
        /\ appliers[a].pc # "record" => appliers[a].report = "none"
        /\ appliers[a].report = "RESOLVED" => AppliedBy(appliers[a].intent)
    BY DEF IInv, AppliersOK
  <2>2. appliers[a].report = "RESOLVED" => appliers[a].intent \in Intents
    BY <2>1
  <2>. QED
    BY <1>3, <2>1, <2>2, AppliedStays DEF Forward, IntentsForward, Paid
<1>. QED
  BY <1>2, <1>3

LEMMA AdminsStable ==
    ASSUME IInv, Forward,
           \A d \in Admins : admins'[d] = admins[d] \/ admins'[d].pc = "idle"
    PROVE  AdminsOK'
  BY DEF IInv, AdminsOK, Paid, Forward, IntentsForward

(* The queue stays right when whatever is new in it is.                    *)
LEMMA IncidentsStable ==
    ASSUME IInv, Forward,
           \A i \in Intents : incidents'[i] # incidents[i] =>
              /\ intents[i].state = "succeeded"
              /\ incidents'[i] = "RESOLVED" => AppliedBy(i)'
              /\ incidents'[i] = "REFUNDED" =>
                    /\ intents'[i].refunded
                    /\ ownership_transfers'[intents[i].transfer].status # "PENDING"
    PROVE  IncidentsOK'
<1> SUFFICES ASSUME NEW i \in Intents, incidents'[i] # "none"
             PROVE  /\ Paid(i)'
                    /\ incidents'[i] = "RESOLVED" => AppliedBy(i)'
                    /\ incidents'[i] = "REFUNDED" =>
                          /\ intents'[i].refunded
                          /\ ownership_transfers'[intents'[i].transfer].status # "PENDING"
  BY DEF IncidentsOK, ResolvedWasApplied, RefundUnlocks
<1>1. intents[i].state = "succeeded"
  BY DEF IInv, IncidentsOK, Paid
<1>2. /\ Paid(i)' /\ intents'[i].transfer = intents[i].transfer
      /\ intents[i].transfer \in Transfers
  BY <1>1 DEF Forward, IntentsForward, Paid, IInv, IntentsOK
<1>3. CASE incidents'[i] # incidents[i]
  BY <1>2, <1>3
<1>4. CASE incidents'[i] = incidents[i]
  <2>1. incidents[i] = "RESOLVED" => AppliedBy(i)'
    BY AppliedStays DEF IInv, IncidentsOK, ResolvedWasApplied
  <2>2. incidents[i] = "REFUNDED" =>
           /\ intents'[i].refunded
           /\ ownership_transfers'[intents[i].transfer].status # "PENDING"
    BY <1>2 DEF IInv, IncidentsOK, RefundUnlocks, Forward, IntentsForward, RowsForward
  <2>. QED
    BY <1>2, <1>4, <2>1, <2>2
<1>. QED
  BY <1>3, <1>4

-----------------------------------------------------------------------------
(* Requests.                                                               *)

(* Steps of a request that only change its slot: the slot goes idle, or    *)
(* moves on without an intent of its own.                                  *)
LEMMA SlotOnlyRequest ==
    ASSUME IInv, NEW r \in Requests, NEW slot \in RequestSlot,
           requests' = [requests EXCEPT ![r] = slot],
           \/ slot.pc = "idle"
           \/ /\ slot.pc \in {"resolve", "voucher", "redeem", "create"}
              /\ slot.transfer \in Transfers /\ slot.user \in Users
              /\ slot.pc # "resolve" => ownership_transfers[slot.transfer].to # NoUser,
           UNCHANGED <<tables, vouchers, redeemed, stripe, incidents, appliers, admins>>
    PROVE  IInv'
<1>1. Forward
  BY QuietForward DEF tables, stripe
<1>2. TypeOK'
  BY DEF IInv, TypeOK, tables, TablesTypeOK, stripe
<1>3. IntentsOK'
  BY DEF IInv, IntentsOK, Paid, stripe
<1>4. RowsOK'
  BY DEF IInv, RowsOK, Paid, Completed, tables, stripe
<1>5. RequestsOK'
  BY DEF IInv, RequestsOK, TypeOK, tables, stripe
<1>6. AppliersOK' /\ AdminsOK'
  BY <1>1, AppliersStable, AdminsStable
<1>7. IncidentsOK'
  BY <1>1, IncidentsStable
<1>. QED
  BY <1>2, <1>3, <1>4, <1>5, <1>6, <1>7 DEF IInv

LEMMA ReceiveCompleteIInv ==
    ASSUME IInv, NEW r \in Requests, NEW x \in Transfers, NEW u \in Users,
           ReceiveComplete(r, x, u)
    PROVE  IInv'
<1> DEFINE slot == [pc       |-> IF ownership_transfers[x].to = NoUser
                                 THEN "resolve" ELSE "voucher",
                    transfer |-> x,
                    user     |-> u,
                    carded   |-> ownership_transfers[x].intent # NoIntent,
                    intent   |-> NoIntent]
<1>1. slot \in RequestSlot
  BY DEF RequestSlot
<1>2. /\ slot.pc \in {"resolve", "voucher"}
      /\ slot.transfer = x /\ slot.user = u
      /\ slot.pc # "resolve" => ownership_transfers[x].to # NoUser
  OBVIOUS
<1>3. requests' = [requests EXCEPT ![r] = slot]
  BY DEF ReceiveComplete
<1>4. UNCHANGED <<tables, vouchers, redeemed, stripe, incidents, appliers, admins>>
  BY DEF ReceiveComplete
<1> HIDE DEF slot
<1>. QED
  BY <1>1, <1>2, <1>3, <1>4, SlotOnlyRequest

LEMMA AbortRequestIInv ==
    ASSUME IInv, NEW r \in Requests, AbortRequest(r)
    PROVE  IInv'
<1>1. IdleRequest \in RequestSlot /\ IdleRequest.pc = "idle"
  BY DEF IdleRequest, RequestSlot
<1>. QED
  BY <1>1, SlotOnlyRequest DEF AbortRequest

(* A slot that only moves to another call keeps its transfer, its caller   *)
(* and its intent.                                                         *)
LEMMA MovedSlot ==
    ASSUME IInv, NEW r \in Requests,
           NEW pc \in {"voucher", "redeem", "create", "cancel"},
           requests[r].pc # "idle",
           requests' = [requests EXCEPT ![r].pc = pc]
    PROVE  LET slot == [requests[r] EXCEPT !.pc = pc] IN
           /\ requests' = [requests EXCEPT ![r] = slot]
           /\ slot \in RequestSlot
           /\ slot.pc = pc
           /\ slot.transfer = requests[r].transfer
           /\ slot.user = requests[r].user
           /\ slot.intent = requests[r].intent
           /\ slot.transfer \in Transfers /\ slot.user \in Users
<1>1. requests[r] \in RequestSlot
  BY DEF IInv, TypeOK
<1>2. requests[r].transfer \in Transfers /\ requests[r].user \in Users
  BY DEF IInv, RequestsOK
<1>. QED
  BY <1>1, <1>2 DEF RequestSlot

LEMMA CountVouchersIInv ==
    ASSUME IInv, NEW r \in Requests, CountVouchers(r)
    PROVE  IInv'
<1>1. PICK pc \in {"redeem", "create"} : requests' = [requests EXCEPT ![r].pc = pc]
  BY DEF CountVouchers
<1>0. pc \in {"voucher", "redeem", "create", "cancel"}
  OBVIOUS
<1>2. /\ requests[r].pc = "voucher"
      /\ UNCHANGED <<tables, vouchers, redeemed, stripe, incidents, appliers, admins>>
  BY DEF CountVouchers
<1> DEFINE slot == [requests[r] EXCEPT !.pc = pc]
<1>3. /\ requests' = [requests EXCEPT ![r] = slot]
      /\ slot \in RequestSlot
      /\ slot.pc = pc
      /\ slot.transfer = requests[r].transfer
      /\ slot.transfer \in Transfers /\ slot.user \in Users
  <2>1. requests[r].pc # "idle"
    BY <1>2
  <2> HIDE DEF slot
  <2>2. slot = [requests[r] EXCEPT !.pc = pc]
    BY DEF slot
  <2>. QED
    BY <1>0, <1>1, <2>1, <2>2, MovedSlot
<1>4. ownership_transfers[requests[r].transfer].to # NoUser
  BY <1>2 DEF IInv, RequestsOK
<1> HIDE DEF slot
<1>. QED
  BY <1>2, <1>3, <1>4, SlotOnlyRequest

LEMMA ResolveRecipientIInv ==
    ASSUME IInv, NEW r \in Requests, ResolveRecipient(r)
    PROVE  IInv'
<1> DEFINE x == requests[r].transfer
           u == requests[r].user
           slot == [requests[r] EXCEPT !.pc = "voucher"]
<1>1. /\ requests[r].pc = "resolve"
      /\ ownership_transfers[x].status = "PENDING"
      /\ ownership_transfers' = [ownership_transfers EXCEPT ![x].to = u]
      /\ UNCHANGED <<nfc_tags, ownership_proofs, vouchers, redeemed, stripe,
                     incidents, appliers, admins>>
  BY DEF ResolveRecipient
<1>2. /\ requests' = [requests EXCEPT ![r] = slot]
      /\ slot \in RequestSlot
      /\ slot.pc = "voucher" /\ slot.transfer = x /\ slot.user = u
      /\ x \in Transfers /\ u \in Users
  <2>1. requests' = [requests EXCEPT ![r].pc = "voucher"]
    BY DEF ResolveRecipient
  <2>. QED
    BY <1>1, <2>1, MovedSlot
<1> HIDE DEF slot
<1>3. TablesTypeOK /\ ownership_transfers[x] \in TransferRow
  BY <1>2 DEF IInv, TypeOK, TablesTypeOK
<1>4. TablesTypeOK'
  BY <1>1, <1>2, <1>3, ResolveRowType
<1>5. /\ ownership_transfers'[x].to = u
      /\ ownership_transfers'[x].intent = ownership_transfers[x].intent
      /\ ownership_transfers'[x].status = "PENDING"
      /\ \A y \in Transfers \ {x} : ownership_transfers'[y] = ownership_transfers[y]
  BY <1>1, <1>2, <1>3 DEF TablesTypeOK, TransferRow
<1>6. Forward
  BY <1>1, <1>2, <1>5, NullAssumption DEF Forward, IntentsForward, RowsForward, stripe
<1>7. TypeOK'
  BY <1>1, <1>2, <1>4 DEF IInv, TypeOK, stripe
<1>8. IntentsOK'
  BY <1>1 DEF IInv, IntentsOK, Paid, stripe
<1>9. RowsOK'
  BY <1>1, <1>5, <1>6, <1>7, RowsStable DEF Completed, stripe
<1>10. RequestsOK'
  <2>1. \A q \in Requests : requests'[q] = IF q = r THEN slot ELSE requests[q]
    BY <1>2 DEF IInv, TypeOK
  <2>2. \A y \in Transfers :
           ownership_transfers[y].to # NoUser => ownership_transfers'[y].to # NoUser
    BY <1>6 DEF Forward, RowsForward
  <2>3. ownership_transfers'[x].to # NoUser
    BY <1>2, <1>5, NullAssumption
  <2>. QED
    BY <1>1, <1>2, <2>1, <2>2, <2>3 DEF IInv, RequestsOK, stripe
<1>11. AppliersOK' /\ AdminsOK' /\ IncidentsOK'
  BY <1>1, <1>6, AppliersStable, AdminsStable, IncidentsStable
<1>. QED
  BY <1>7, <1>8, <1>9, <1>10, <1>11 DEF IInv

LEMMA RedeemVoucherIInv ==
    ASSUME IInv, NEW r \in Requests, RedeemVoucher(r)
    PROVE  IInv'
<1> DEFINE x == requests[r].transfer
           payer == FeePayer(x)
<1>1. /\ requests[r].pc = "redeem" /\ x \in Transfers
      /\ UNCHANGED <<stripe, incidents, appliers, admins>>
  BY DEF RedeemVoucher, IInv, RequestsOK
<1>2. CASE /\ ApplyOutcome(x, NoIntent) = "applied"
           /\ vouchers[payer] > 0
           /\ vouchers' = [vouchers EXCEPT ![payer] = @ - 1]
           /\ redeemed' = redeemed \cup {x}
           /\ CompleteRow(x, NoIntent)
           /\ requests' = [requests EXCEPT ![r] = IdleRequest]
  <2>1. TablesTypeOK
    BY DEF IInv, TypeOK
  <2>2. /\ ownership_transfers[x].status = "PENDING"
        /\ ownership_transfers[x].intent = NoIntent
        /\ payer \in Users
    BY <1>1, <1>2, <2>1, AppliedRow DEF FeePayer
  <2>3. /\ RowsForward
        /\ ownership_transfers'[x].status = "COMPLETED"
        /\ ownership_transfers'[x].intent = NoIntent
        /\ \A y \in Transfers \ {x} : ownership_transfers'[y] = ownership_transfers[y]
        /\ TablesTypeOK'
    BY <1>1, <1>2, <2>1, <2>2, CompleteRowForward
  <2>4. Forward
    BY <1>1, <2>3 DEF Forward, IntentsForward, stripe
  <2>5. IdleRequest \in RequestSlot /\ IdleRequest.pc = "idle"
    BY DEF IdleRequest, RequestSlot
  <2>6. vouchers' \in [Users -> 0..MaxVouchers]
    BY <1>2, <2>2, BoundAssumption DEF IInv, TypeOK
  <2>7. TypeOK'
    BY <1>1, <1>2, <2>3, <2>5, <2>6 DEF IInv, TypeOK, stripe
  <2>8. IntentsOK'
    BY <1>1 DEF IInv, IntentsOK, Paid, stripe
  <2>9. RowsOK'
    BY <1>1, <1>2, <2>2, <2>3, <2>4, <2>7, RowsStable DEF Completed, stripe
  <2>10. RequestsOK'
    BY <1>2, <2>4, <2>5, RequestsStable DEF IInv, TypeOK
  <2>11. AppliersOK' /\ AdminsOK' /\ IncidentsOK'
    BY <1>1, <2>4, AppliersStable, AdminsStable, IncidentsStable
  <2>. QED
    BY <2>7, <2>8, <2>9, <2>10, <2>11 DEF IInv
<1>3. CASE /\ requests' = [requests EXCEPT ![r].pc = "create"]
           /\ UNCHANGED <<tables, vouchers, redeemed>>
  <2> DEFINE slot == [requests[r] EXCEPT !.pc = "create"]
  <2>1. /\ requests' = [requests EXCEPT ![r] = slot]
        /\ slot \in RequestSlot
        /\ slot.pc = "create" /\ slot.transfer = x
        /\ slot.transfer \in Transfers /\ slot.user \in Users
    BY <1>1, <1>3, MovedSlot
  <2>2. ownership_transfers[x].to # NoUser
    BY <1>1 DEF IInv, RequestsOK
  <2> HIDE DEF slot
  <2>. QED
    BY <1>1, <1>3, <2>1, <2>2, SlotOnlyRequest
<1>. QED
  BY <1>2, <1>3 DEF RedeemVoucher

(* A new intent is for the transfer whose key made it.                     *)
LEMMA CreateIntentIInv ==
    ASSUME IInv, NEW r \in Requests, CreateIntent(r)
    PROVE  IInv'
<1> DEFINE x == requests[r].transfer
<1>1. /\ requests[r].pc = "create" /\ x \in Transfers /\ requests[r].user \in Users
      /\ ownership_transfers[x].to # NoUser
      /\ requests[r] \in RequestSlot
      /\ UNCHANGED <<tables, vouchers, redeemed, secrets, incidents, appliers, admins>>
  BY DEF CreateIntent, IInv, RequestsOK, TypeOK
<1>2. PICK i \in Intents :
         /\ \/ /\ keys[x] = i
               /\ UNCHANGED <<intents, keys>>
            \/ /\ keys[x] = NoIntent
               /\ intents[i].state = "none"
               /\ intents' = [intents EXCEPT ![i].state = "open", ![i].transfer = x]
               /\ keys' = [keys EXCEPT ![x] = i]
         /\ requests' = [requests EXCEPT ![r].pc = "store", ![r].intent = i]
  BY DEF CreateIntent
<1> DEFINE slot == [requests[r] EXCEPT !.pc = "store", !.intent = i]
<1>3. /\ requests' = [requests EXCEPT ![r] = slot]
      /\ slot \in RequestSlot
      /\ slot.pc = "store" /\ slot.transfer = x /\ slot.user = requests[r].user
      /\ slot.intent = i
  BY <1>1, <1>2 DEF RequestSlot, IInv, TypeOK
<1> HIDE DEF slot
<1>4. /\ intents \in [Intents -> IntentRow]
      /\ keys \in [Transfers -> Intents \cup {NoIntent}]
      /\ secrets \subseteq Intents
  BY DEF IInv, TypeOK
<1>5. /\ intents' \in [Intents -> IntentRow]
      /\ keys' \in [Transfers -> Intents \cup {NoIntent}]
      /\ intents'[i].transfer = x
      /\ intents'[i].state # "none"
      /\ \A j \in Intents \ {i} : intents'[j] = intents[j]
      /\ \/ UNCHANGED <<intents, keys>>
         \/ /\ intents[i].state = "none"
            /\ intents'[i].state = "open"
            /\ keys' = [keys EXCEPT ![x] = i]
  <2>1. CASE keys[x] = i /\ UNCHANGED <<intents, keys>>
    BY <1>1, <1>4, <2>1, NullAssumption DEF IInv, IntentsOK
  <2>2. CASE /\ keys[x] = NoIntent
             /\ intents[i].state = "none"
             /\ intents' = [intents EXCEPT ![i].state = "open", ![i].transfer = x]
             /\ keys' = [keys EXCEPT ![x] = i]
    <3> PICK row : row = intents[i]
      OBVIOUS
    <3> PICK new : new = [row EXCEPT !.state = "open", !.transfer = x]
      OBVIOUS
    <3>1. row \in IntentRow
      BY <1>1, <1>4
    <3>2. new \in IntentRow /\ new.state = "open" /\ new.transfer = x
      BY <1>1, <3>1 DEF IntentRow
    <3>3. intents' = [intents EXCEPT ![i] = new]
      BY <1>4, <2>2
    <3>. QED
      BY <1>1, <1>4, <2>2, <3>2, <3>3
  <2>. QED
    BY <1>2, <2>1, <2>2
<1>6. /\ \A j \in Intents : intents[j].state # "none" => intents'[j] = intents[j]
      /\ \A j \in Intents : intents'[j].state = "succeeded" => intents[j].state = "succeeded"
      /\ \A j \in Intents : intents[j].refunded => intents'[j].refunded
  <2>1. CASE UNCHANGED <<intents, keys>>
    BY <2>1
  <2>2. CASE /\ intents[i].state = "none"
             /\ intents' = [intents EXCEPT ![i].state = "open", ![i].transfer = x]
    BY <1>4, <2>2 DEF IntentRow
  <2>. QED
    BY <1>2, <2>1, <2>2
<1>7. Forward
  BY <1>1, <1>6 DEF Forward, IntentsForward, RowsForward, tables
<1>8. TypeOK'
  BY <1>1, <1>3, <1>5 DEF IInv, TypeOK, tables, TablesTypeOK
<1>9. IntentsOK'
  <2>1. \A j \in Intents : intents'[j].state # "none" => intents'[j].transfer \in Transfers
    BY <1>1, <1>5 DEF IInv, IntentsOK
  <2>2. \A y \in Transfers : keys'[y] # NoIntent =>
           intents'[keys'[y]].transfer = y /\ intents'[keys'[y]].state # "none"
    BY <1>1, <1>4, <1>5, <1>6 DEF IInv, IntentsOK
  <2>3. \A j \in secrets' : intents'[j].state # "none"
    BY <1>1, <1>4, <1>6 DEF IInv, IntentsOK
  <2>4. \A j \in Intents : intents'[j].state = "succeeded" => j \in secrets'
    BY <1>1, <1>6 DEF IInv, IntentsOK, Paid
  <2>. QED
    BY <2>1, <2>2, <2>3, <2>4 DEF IntentsOK, Paid
<1>10. RowsOK'
  BY <1>1, <1>7, <1>8, RowsStable DEF Completed, tables
<1>11. RequestsOK'
  <2>1. \A q \in Requests : requests'[q] = IF q = r THEN slot ELSE requests[q]
    BY <1>3 DEF IInv, TypeOK
  <2>. QED
    BY <1>1, <1>3, <1>5, <1>6, <2>1 DEF IInv, RequestsOK, tables
<1>12. AppliersOK' /\ AdminsOK' /\ IncidentsOK'
  BY <1>1, <1>7, AppliersStable, AdminsStable, IncidentsStable
<1>. QED
  BY <1>8, <1>9, <1>10, <1>11, <1>12 DEF IInv

(* The secret leaves together with the store that bars the voucher.        *)
LEMMA StoreIntentIInv ==
    ASSUME IInv, NEW r \in Requests, StoreIntent(r)
    PROVE  IInv'
<1> DEFINE x == requests[r].transfer
           i == requests[r].intent
<1>1. /\ requests[r].pc = "store" /\ x \in Transfers /\ requests[r].user \in Users
      /\ i \in Intents /\ intents[i].transfer = x /\ intents[i].state # "none"
      /\ ownership_transfers[x].to # NoUser
      /\ UNCHANGED <<nfc_tags, ownership_proofs, vouchers, redeemed, intents, keys,
                     incidents, appliers, admins>>
  BY DEF StoreIntent, IInv, RequestsOK
<1>2. IdleRequest \in RequestSlot /\ IdleRequest.pc = "idle"
  BY DEF IdleRequest, RequestSlot
<1>3. CASE /\ ownership_transfers[x].status = "PENDING"
           /\ ownership_transfers' = [ownership_transfers EXCEPT ![x].intent = i]
           /\ secrets' = secrets \cup {i}
           /\ requests' = [requests EXCEPT ![r] = IdleRequest]
  <2>1. TablesTypeOK /\ ownership_transfers[x] \in TransferRow
    BY <1>1 DEF IInv, TypeOK, TablesTypeOK
  <2>2. /\ ownership_transfers' = [ownership_transfers EXCEPT ![x] =
               [ownership_transfers[x] EXCEPT !.intent = i]]
        /\ [ownership_transfers[x] EXCEPT !.intent = i] \in TransferRow
    BY <1>1, <1>3, <2>1 DEF TablesTypeOK, TransferRow
  <2>3. /\ ownership_transfers'[x].intent = i
        /\ ownership_transfers'[x].to = ownership_transfers[x].to
        /\ ownership_transfers'[x].tag = ownership_transfers[x].tag
        /\ ownership_transfers'[x].from = ownership_transfers[x].from
        /\ ownership_transfers'[x].status = "PENDING"
        /\ \A y \in Transfers \ {x} : ownership_transfers'[y] = ownership_transfers[y]
    BY <1>1, <1>3, <2>1, <2>2 DEF TablesTypeOK, TransferRow
  <2>4. TablesTypeOK'
    BY <1>1, <1>3, <2>1, <2>2, <2>3 DEF TablesTypeOK
  <2>5. Forward
    BY <1>1, <1>3, <2>3, NullAssumption DEF Forward, IntentsForward, RowsForward
  <2>6. TypeOK'
    BY <1>1, <1>2, <1>3, <2>4 DEF IInv, TypeOK
  <2>7. IntentsOK'
    BY <1>1, <1>3 DEF IInv, IntentsOK, Paid
  <2>8. RowsOK'
    <3>1. \A y \in Transfers :
             ownership_transfers'[y].intent # ownership_transfers[y].intent =>
                /\ intents'[ownership_transfers'[y].intent].transfer = y
                /\ intents'[ownership_transfers'[y].intent].state # "none"
      BY <1>1, <2>3
    <3>2. \A j \in secrets' \ secrets :
             /\ ownership_transfers'[intents'[j].transfer].intent # NoIntent
             /\ ownership_transfers'[intents'[j].transfer].to # NoUser
      BY <1>1, <1>3, <2>3, NullAssumption
    <3>3. \A y \in Transfers : ~(Completed(y)' /\ ~Completed(y))
      BY <2>3 DEF Completed
    <3>4. redeemed' = redeemed
      BY <1>1
    <3>. QED
      BY <2>5, <2>6, <3>1, <3>2, <3>3, <3>4, RowsStable
  <2>9. RequestsOK'
    BY <1>2, <1>3, <2>5, RequestsStable DEF IInv, TypeOK
  <2>10. AppliersOK' /\ AdminsOK' /\ IncidentsOK'
    BY <1>1, <2>5, AppliersStable, AdminsStable, IncidentsStable
  <2>. QED
    BY <2>6, <2>7, <2>8, <2>9, <2>10 DEF IInv
<1>4. CASE /\ requests' = [requests EXCEPT ![r].pc = "cancel"]
           /\ UNCHANGED <<ownership_transfers, secrets>>
  <2> DEFINE slot == [requests[r] EXCEPT !.pc = "cancel"]
  <2>1. /\ requests' = [requests EXCEPT ![r] = slot]
        /\ slot \in RequestSlot
        /\ slot.pc = "cancel" /\ slot.transfer = x /\ slot.intent = i
        /\ slot.user \in Users
    BY <1>1, <1>4, MovedSlot
  <2> HIDE DEF slot
  <2>2. Forward
    BY <1>1, <1>4, QuietForward
  <2>3. TypeOK'
    BY <1>1, <1>4, <2>1 DEF IInv, TypeOK, TablesTypeOK
  <2>4. IntentsOK' /\ RowsOK'
    BY <1>1, <1>4 DEF IInv, IntentsOK, RowsOK, Paid, Completed
  <2>5. RequestsOK'
    <3>1. \A q \in Requests : requests'[q] = IF q = r THEN slot ELSE requests[q]
      BY <2>1 DEF IInv, TypeOK
    <3>. QED
      BY <1>1, <1>4, <2>1, <3>1 DEF IInv, RequestsOK
  <2>6. AppliersOK' /\ AdminsOK' /\ IncidentsOK'
    BY <1>1, <2>2, AppliersStable, AdminsStable, IncidentsStable
  <2>. QED
    BY <2>3, <2>4, <2>5, <2>6 DEF IInv
<1>. QED
  BY <1>3, <1>4 DEF StoreIntent

LEMMA CancelIntentIInv ==
    ASSUME IInv, NEW r \in Requests, CancelIntent(r)
    PROVE  IInv'
<1> DEFINE i == requests[r].intent
<1>1. /\ i \in Intents /\ intents[i].state # "none"
      /\ intents' = [intents EXCEPT ![i].state = IF @ = "open" THEN "canceled" ELSE @]
      /\ requests' = [requests EXCEPT ![r] = IdleRequest]
      /\ UNCHANGED <<tables, vouchers, redeemed, keys, secrets, incidents, appliers, admins>>
  BY DEF CancelIntent, IInv, RequestsOK
<1>2. IdleRequest \in RequestSlot /\ IdleRequest.pc = "idle"
  BY DEF IdleRequest, RequestSlot
<1>3. intents \in [Intents -> IntentRow]
  BY DEF IInv, TypeOK
<1>4. /\ intents' \in [Intents -> IntentRow]
      /\ \A j \in Intents :
            /\ intents'[j].transfer = intents[j].transfer
            /\ intents'[j].refunded = intents[j].refunded
            /\ intents'[j].state = "none" <=> intents[j].state = "none"
            /\ intents'[j].state = "succeeded" <=> intents[j].state = "succeeded"
  <2> PICK row : row = intents[i]
    OBVIOUS
  <2> PICK new : new = [row EXCEPT !.state = IF row.state = "open" THEN "canceled"
                                                                   ELSE row.state]
    OBVIOUS
  <2>1. row \in IntentRow
    BY <1>1, <1>3
  <2>2. /\ new \in IntentRow
        /\ new.transfer = row.transfer
        /\ new.refunded = row.refunded
        /\ new.state = "none" <=> row.state = "none"
        /\ new.state = "succeeded" <=> row.state = "succeeded"
    BY <2>1 DEF IntentRow
  <2>3. intents' = [intents EXCEPT ![i] = new] /\ i \in Intents
    BY <1>1, <1>3
  <2>4. intents'[i] = new /\ \A j \in Intents \ {i} : intents'[j] = intents[j]
    BY <1>3, <2>3
  <2>5. intents' \in [Intents -> IntentRow]
    BY <1>3, <2>2, <2>3
  <2>. QED
    BY <2>2, <2>4, <2>5
<1>5. Forward
  <2>1. IntentsForward
    BY <1>4 DEF IntentsForward
  <2>2. UNCHANGED ownership_transfers
    BY <1>1 DEF tables
  <2>. QED
    BY <2>1, <2>2 DEF Forward, RowsForward
<1>6. TypeOK'
  BY <1>1, <1>2, <1>4 DEF IInv, TypeOK, tables, TablesTypeOK
<1>7. IntentsOK'
  BY <1>1, <1>4, <1>5, IntentsStable DEF Forward
<1>8. RowsOK'
  BY <1>1, <1>5, <1>6, RowsStable DEF Completed, tables
<1>9. RequestsOK'
  BY <1>1, <1>2, <1>5, RequestsStable DEF IInv, TypeOK
<1>10. AppliersOK' /\ AdminsOK' /\ IncidentsOK'
  BY <1>1, <1>5, AppliersStable, AdminsStable, IncidentsStable
<1>. QED
  BY <1>6, <1>7, <1>8, <1>9, <1>10 DEF IInv

LEMMA CancelTransferIInv ==
    ASSUME IInv, NEW x \in Transfers, CancelTransfer(x)
    PROVE  IInv'
<1>1. /\ CancelRow(x) /\ TablesTypeOK
      /\ UNCHANGED <<vouchers, redeemed, stripe, incidents, slots>>
  BY DEF CancelTransfer, IInv, TypeOK
<1>2. /\ RowsForward
      /\ ownership_transfers[x].status = "PENDING"
      /\ ownership_transfers'[x].status = "CANCELLED"
      /\ ownership_transfers'[x].intent = ownership_transfers[x].intent
      /\ \A y \in Transfers \ {x} : ownership_transfers'[y] = ownership_transfers[y]
      /\ TablesTypeOK'
  BY <1>1, CancelRowForward
<1>3. Forward
  BY <1>1, <1>2 DEF Forward, IntentsForward, stripe
<1>4. TypeOK'
  BY <1>1, <1>2 DEF IInv, TypeOK, stripe, slots
<1>5. IntentsOK'
  BY <1>1 DEF IInv, IntentsOK, Paid, stripe
<1>6. RowsOK'
  BY <1>1, <1>2, <1>3, <1>4, RowsStable DEF Completed, stripe
<1>7. RequestsOK' /\ AppliersOK' /\ AdminsOK' /\ IncidentsOK'
  BY <1>1, <1>3, RequestsStable, AppliersStable, AdminsStable, IncidentsStable DEF slots
<1>. QED
  BY <1>4, <1>5, <1>6, <1>7 DEF IInv

-----------------------------------------------------------------------------
(* Vouchers and Stripe.                                                    *)

LEMMA VouchersIInv ==
    ASSUME IInv, NEW u \in Users, GrantVoucher(u) \/ LoseVouchers(u)
    PROVE  IInv'
<1>1. UNCHANGED <<tables, redeemed, stripe, incidents, slots>>
  BY DEF GrantVoucher, LoseVouchers
<1>2. vouchers' \in [Users -> 0..MaxVouchers]
  BY BoundAssumption DEF IInv, TypeOK, GrantVoucher, LoseVouchers
<1>3. Forward
  BY <1>1, QuietForward DEF tables, stripe
<1>4. TypeOK'
  BY <1>1, <1>2 DEF IInv, TypeOK, tables, TablesTypeOK, stripe, slots
<1>5. IntentsOK' /\ RowsOK'
  BY <1>1 DEF IInv, IntentsOK, RowsOK, Paid, Completed, tables, stripe
<1>6. RequestsOK' /\ AppliersOK' /\ AdminsOK' /\ IncidentsOK'
  BY <1>1, <1>3, RequestsStable, AppliersStable, AdminsStable, IncidentsStable DEF slots
<1>. QED
  BY <1>4, <1>5, <1>6 DEF IInv

LEMMA ForgetKeyIInv ==
    ASSUME IInv, NEW x \in Transfers, ForgetKey(x)
    PROVE  IInv'
<1>1. /\ keys' = [keys EXCEPT ![x] = NoIntent]
      /\ UNCHANGED <<tables, vouchers, redeemed, intents, secrets, incidents, slots>>
  BY DEF ForgetKey
<1>2. Forward
  BY <1>1, QuietForward DEF tables
<1>3. TypeOK'
  BY <1>1 DEF IInv, TypeOK, tables, TablesTypeOK, slots
<1>4. IntentsOK' /\ RowsOK'
  BY <1>1 DEF IInv, TypeOK, IntentsOK, RowsOK, Paid, Completed, tables
<1>5. RequestsOK' /\ AppliersOK' /\ AdminsOK' /\ IncidentsOK'
  BY <1>1, <1>2, RequestsStable, AppliersStable, AdminsStable, IncidentsStable DEF slots
<1>. QED
  BY <1>3, <1>4, <1>5 DEF IInv

LEMMA StripeIInv ==
    ASSUME IInv, NEW i \in Intents, PayIntent(i) \/ Ripens(i) \/ PassWindow(i)
    PROVE  IInv'
<1>1. UNCHANGED <<tables, vouchers, redeemed, keys, secrets, incidents, slots>>
  BY DEF PayIntent, Ripens, PassWindow
<1>2. intents \in [Intents -> IntentRow]
  BY DEF IInv, TypeOK
<1>3. /\ intents' \in [Intents -> IntentRow]
      /\ \A j \in Intents :
            /\ intents'[j].transfer = intents[j].transfer
            /\ intents'[j].refunded = intents[j].refunded
            /\ intents'[j].state = "none" <=> intents[j].state = "none"
            /\ intents[j].state = "succeeded" => intents'[j].state = "succeeded"
            /\ intents'[j].state = "succeeded" =>
                  intents[j].state = "succeeded" \/ j \in secrets
  <2>1. CASE PayIntent(i)
    <3>1. /\ intents[i].state = "open" /\ i \in secrets
          /\ intents' = [intents EXCEPT ![i].state = "succeeded"]
      BY <2>1 DEF PayIntent
    <3>. QED
      BY <1>2, <3>1 DEF IntentRow
  <2>2. CASE PassWindow(i)
    <3>1. intents' = [intents EXCEPT ![i].late = TRUE]
      BY <2>2 DEF PassWindow
    <3>. QED
      BY <1>2, <3>1 DEF IntentRow
  <2>3. CASE Ripens(i)
    <3>1. intents' = [intents EXCEPT ![i].ripe = TRUE]
      BY <2>3 DEF Ripens
    <3>. QED
      BY <1>2, <3>1 DEF IntentRow
  <2>. QED
    BY <2>1, <2>2, <2>3
<1>4. Forward
  BY <1>1, <1>3 DEF Forward, IntentsForward, RowsForward, tables
<1>5. TypeOK'
  BY <1>1, <1>3 DEF IInv, TypeOK, tables, TablesTypeOK, slots
<1>6. IntentsOK'
  BY <1>1, <1>3, <1>4, IntentsStable DEF Forward
<1>7. RowsOK'
  BY <1>1, <1>4, <1>5, RowsStable DEF Completed, tables
<1>8. RequestsOK' /\ AppliersOK' /\ AdminsOK' /\ IncidentsOK'
  BY <1>1, <1>4, RequestsStable, AppliersStable, AdminsStable, IncidentsStable DEF slots
<1>. QED
  BY <1>5, <1>6, <1>7, <1>8 DEF IInv

-----------------------------------------------------------------------------
(* Appliers.                                                               *)

(* Steps of an applier that only change its slot.                          *)
LEMMA SlotOnlyApplier ==
    ASSUME IInv, NEW a \in Appliers, NEW slot \in ApplierSlot,
           appliers' = [appliers EXCEPT ![a] = slot],
           slot.pc # "idle" => slot.intent \in Intents /\ Paid(slot.intent),
           slot.pc # "record" => slot.report = "none",
           slot.report = "RESOLVED" => AppliedBy(slot.intent),
           UNCHANGED <<tables, vouchers, redeemed, stripe, incidents, requests, admins>>
    PROVE  IInv'
<1>1. Forward
  BY QuietForward DEF tables, stripe
<1>2. TypeOK'
  BY DEF IInv, TypeOK, tables, TablesTypeOK, stripe
<1>3. IntentsOK' /\ RowsOK'
  BY DEF IInv, IntentsOK, RowsOK, Paid, Completed, tables, stripe
<1>4. AppliersOK'
  <2>1. \A b \in Appliers : appliers'[b] = IF b = a THEN slot ELSE appliers[b]
    BY DEF IInv, TypeOK
  <2>. QED
    BY <2>1 DEF IInv, AppliersOK, AppliedBy, Paid, Completed, tables, stripe
<1>5. RequestsOK' /\ AdminsOK' /\ IncidentsOK'
  BY <1>1, RequestsStable, AdminsStable, IncidentsStable
<1>. QED
  BY <1>2, <1>3, <1>4, <1>5 DEF IInv

(* A slot that goes on, reports or ends keeps the payment it works on.     *)
LEMMA NextSlot ==
    ASSUME IInv, NEW a \in Appliers, appliers[a].pc # "idle", appliers[a].pc # "record"
    PROVE  /\ appliers[a].intent \in Intents /\ Paid(appliers[a].intent)
           /\ \A pc \in {"load", "rpc"} : Goto(a, pc) =>
                 \E slot \in ApplierSlot :
                    /\ appliers' = [appliers EXCEPT ![a] = slot]
                    /\ slot.pc = pc
                    /\ slot.intent = appliers[a].intent
                    /\ slot.report = "none"
           /\ \A status \in {"OPEN", "RESOLVED"} : ToReport(a, status) =>
                 \E slot \in ApplierSlot :
                    /\ appliers' = [appliers EXCEPT ![a] = slot]
                    /\ slot.pc = "record"
                    /\ slot.intent = appliers[a].intent
                    /\ slot.report = status
<1>1. /\ appliers[a] \in ApplierSlot /\ appliers \in [Appliers -> ApplierSlot]
      /\ appliers[a].intent \in Intents /\ Paid(appliers[a].intent)
      /\ appliers[a].report = "none"
  BY DEF IInv, TypeOK, AppliersOK
<1>2. ASSUME NEW pc \in {"load", "rpc"}, Goto(a, pc)
      PROVE  \E slot \in ApplierSlot :
                /\ appliers' = [appliers EXCEPT ![a] = slot]
                /\ slot.pc = pc
                /\ slot.intent = appliers[a].intent
                /\ slot.report = "none"
  <2> DEFINE slot == [appliers[a] EXCEPT !.pc = pc]
  <2>1. /\ slot \in ApplierSlot /\ slot.pc = pc /\ slot.report = "none"
        /\ slot.intent = appliers[a].intent
    BY <1>1 DEF ApplierSlot
  <2>2. appliers' = [appliers EXCEPT ![a] = slot]
    BY <1>2 DEF Goto
  <2>. QED
    BY <2>1, <2>2
<1>3. ASSUME NEW status \in {"OPEN", "RESOLVED"}, ToReport(a, status)
      PROVE  \E slot \in ApplierSlot :
                /\ appliers' = [appliers EXCEPT ![a] = slot]
                /\ slot.pc = "record"
                /\ slot.intent = appliers[a].intent
                /\ slot.report = status
  <2> DEFINE slot == [appliers[a] EXCEPT !.pc = "record", !.report = status]
  <2>1. /\ slot \in ApplierSlot /\ slot.pc = "record" /\ slot.report = status
        /\ slot.intent = appliers[a].intent
    BY <1>1 DEF ApplierSlot
  <2>2. appliers' = [appliers EXCEPT ![a] = slot]
    BY <1>1, <1>3 DEF ToReport, ApplierSlot
  <2>. QED
    BY <2>1, <2>2
<1>. QED
  BY <1>1, <1>2, <1>3

LEMMA IdleApplierType ==
    /\ IdleApplier \in ApplierSlot
    /\ IdleApplier.pc = "idle" /\ IdleApplier.report = "none"
  BY DEF IdleApplier, ApplierSlot

(* The steps before the transaction.                                       *)
LEMMA StartIInv ==
    ASSUME IInv, NEW a \in Appliers, NEW i \in Intents,
           DeliverWebhook(a, i) \/ SweepLists(a, i)
    PROVE  IInv'
<1>1. PICK pc \in {"load", "listed"}, source \in {"webhook", "sweep"} :
         appliers' = [appliers EXCEPT ![a] =
            [pc |-> pc, source |-> source, intent |-> i, report |-> "none"]]
  BY DEF DeliverWebhook, SweepLists
<1>2. /\ intents[i].state = "succeeded"
      /\ UNCHANGED <<tables, vouchers, redeemed, stripe, incidents, requests, admins>>
  BY DEF DeliverWebhook, SweepLists
<1> DEFINE slot == [pc |-> pc, source |-> source, intent |-> i, report |-> "none"]
<1>3. /\ slot \in ApplierSlot /\ slot.pc \in {"load", "listed"}
      /\ slot.intent = i /\ slot.report = "none"
      /\ appliers' = [appliers EXCEPT ![a] = slot]
  BY <1>1 DEF ApplierSlot
<1> HIDE DEF slot
<1>. QED
  BY <1>2, <1>3, SlotOnlyApplier DEF Paid

LEMMA QuietApplierIInv ==
    ASSUME IInv, NEW a \in Appliers,
           SweepSkipsSettled(a) \/ LoadTransfer(a) \/ AbortApplier(a)
    PROVE  IInv'
<1>1. /\ appliers[a].pc # "idle"
      /\ UNCHANGED <<tables, vouchers, redeemed, stripe, incidents, requests, admins>>
  BY DEF SweepSkipsSettled, LoadTransfer, AbortApplier
<1>2. CASE Idle(a)
  BY <1>1, <1>2, IdleApplierType, SlotOnlyApplier DEF Idle
<1>3. CASE /\ appliers[a].pc # "record"
           /\ Goto(a, "load") \/ Goto(a, "rpc")
  BY <1>1, <1>3, NextSlot, SlotOnlyApplier
<1>4. CASE appliers[a].pc # "record" /\ ToReport(a, "OPEN")
  BY <1>1, <1>4, NextSlot, SlotOnlyApplier
<1>. QED
  BY <1>2, <1>3, <1>4 DEF SweepSkipsSettled, LoadTransfer, AbortApplier, Conclude

(* A payment that finds its transfer already completed completed it: its   *)
(* secret was out, so the row held an intent, and only its own passes.     *)
LEMMA AlreadyCompletedByThis ==
    ASSUME IInv, NEW i \in Intents, Paid(i),
           RowOutcome(intents[i].transfer, i) = "already_completed"
    PROVE  AppliedBy(i)
<1>1. i \in secrets /\ intents[i].transfer \in Transfers
  BY DEF IInv, IntentsOK, Paid
<1>2. ownership_transfers[intents[i].transfer].intent # NoIntent
  BY <1>1 DEF IInv, RowsOK
<1>. QED
  BY <1>2 DEF RowOutcome, AppliedBy, Completed

(* The apply_transfer_fee transaction for a payment that was taken.        *)
LEMMA ApplyEffect ==
    ASSUME IInv, NEW i \in Intents, Paid(i), apply_transfer_fee(i),
           UNCHANGED <<vouchers, redeemed, stripe>>
    PROVE  /\ Forward
           /\ TablesTypeOK' /\ incidents' \in [Intents -> IncidentStatus]
           /\ ApplyOutcome(intents[i].transfer, i) = "applied" => AppliedBy(i)'
           /\ \A j \in Intents : incidents'[j] # incidents[j] =>
                 incidents[j] = "OPEN" /\ incidents'[j] = "RESOLVED" /\ AppliedBy(j)'
           /\ \A y \in Transfers : ownership_transfers'[y] # ownership_transfers[y] =>
                 /\ y = intents[i].transfer
                 /\ ownership_transfers[y].status = "PENDING"
                 /\ ownership_transfers'[y].status = "COMPLETED"
                 /\ ownership_transfers'[y].intent = i
<1> DEFINE x == intents[i].transfer
<1>1. /\ x \in Transfers /\ TablesTypeOK /\ incidents \in [Intents -> IncidentStatus]
      /\ intents' = intents
  BY DEF IInv, TypeOK, IntentsOK, Paid, stripe
<1>2. ASSUME ResolveIncident(i)
      PROVE  /\ incidents' \in [Intents -> IncidentStatus]
             /\ \A j \in Intents : incidents'[j] # incidents[j] =>
                   incidents[j] = "OPEN" /\ incidents'[j] = "RESOLVED" /\ j = i
  BY <1>1, <1>2 DEF ResolveIncident, IncidentStatus
<1>3. CASE /\ ApplyOutcome(x, i) = "applied"
           /\ CompleteRow(x, i)
           /\ ResolveIncident(i)
  <2>1. /\ RowsForward
        /\ ownership_transfers'[x].status = "COMPLETED"
        /\ ownership_transfers'[x].intent = IF i = NoIntent THEN ownership_transfers[x].intent ELSE i
        /\ \A y \in Transfers \ {x} : ownership_transfers'[y] = ownership_transfers[y]
        /\ TablesTypeOK'
        /\ ownership_transfers[x].status = "PENDING"
    BY <1>1, <1>3, CompleteRowForward, AppliedRow
  <2>2. Forward
    BY <1>1, <2>1 DEF Forward, IntentsForward
  <2>3. ownership_transfers'[x].intent = i
    BY <2>1, NullAssumption
  <2>4. AppliedBy(i)'
    BY <1>1, <2>1, <2>3 DEF AppliedBy, Paid, Completed
  <2>. QED
    BY <1>2, <1>3, <2>1, <2>2, <2>3, <2>4
<1>4. CASE /\ ApplyOutcome(x, i) = "already_completed"
           /\ ResolveIncident(i)
           /\ UNCHANGED tables
  <2>1. AppliedBy(i)
    <3>1. RowOutcome(x, i) = "already_completed"
      BY <1>4 DEF ApplyOutcome
    <3>. QED
      BY <3>1, AlreadyCompletedByThis
  <2>2. Forward
    BY <1>1, <1>4, QuietForward DEF tables
  <2>3. AppliedBy(i)' /\ TablesTypeOK'
    BY <1>1, <1>4, <2>1 DEF AppliedBy, Paid, Completed, TablesTypeOK, tables
  <2>. QED
    BY <1>2, <1>4, <2>2, <2>3 DEF tables
<1>5. CASE /\ ApplyOutcome(x, i) \notin {"applied", "already_completed"}
           /\ UNCHANGED <<tables, incidents>>
  <2>1. Forward
    BY <1>1, <1>5, QuietForward DEF tables
  <2>. QED
    BY <1>1, <1>5, <2>1 DEF TablesTypeOK, tables
<1>. QED
  BY <1>3, <1>4, <1>5 DEF apply_transfer_fee

(* What an applied payment leaves of the invariant, slots apart.           *)
LEMMA ApplyIInv ==
    ASSUME IInv, NEW i \in Intents, Paid(i), apply_transfer_fee(i),
           UNCHANGED <<vouchers, redeemed, stripe, requests>>,
           appliers' \in [Appliers -> ApplierSlot], AppliersOK',
           admins' \in [Admins -> AdminSlot], AdminsOK'
    PROVE  IInv'
<1>1. /\ Forward
      /\ TablesTypeOK' /\ incidents' \in [Intents -> IncidentStatus]
      /\ \A j \in Intents : incidents'[j] # incidents[j] =>
            incidents[j] = "OPEN" /\ incidents'[j] = "RESOLVED" /\ AppliedBy(j)'
      /\ \A y \in Transfers : ownership_transfers'[y] # ownership_transfers[y] =>
            /\ y = intents[i].transfer
            /\ ownership_transfers[y].status = "PENDING"
            /\ ownership_transfers'[y].status = "COMPLETED"
            /\ ownership_transfers'[y].intent = i
      /\ intents' = intents /\ secrets' = secrets
  BY ApplyEffect DEF stripe
<1>2. TypeOK'
  BY <1>1 DEF IInv, TypeOK, stripe
<1>3. IntentsOK'
  BY DEF IInv, IntentsOK, Paid, stripe
<1>4. intents[i].state = "succeeded"
  BY DEF Paid
<1>5. RowsOK'
  <2>1. \A y \in Transfers : ownership_transfers'[y].intent # ownership_transfers[y].intent =>
           /\ intents'[ownership_transfers'[y].intent].transfer = y
           /\ intents'[ownership_transfers'[y].intent].state # "none"
    BY <1>1, <1>4
  <2>2. \A y \in Transfers : Completed(y)' /\ ~Completed(y) =>
           /\ ownership_transfers'[y].intent \in Intents
           /\ intents'[ownership_transfers'[y].intent].state = "succeeded"
    BY <1>1, <1>4 DEF Completed
  <2>. QED
    BY <1>1, <1>2, <2>1, <2>2, RowsStable
<1>6. RequestsOK'
  BY <1>1, RequestsStable
<1>7. IncidentsOK'
  <2>1. \A j \in Intents : incidents'[j] # incidents[j] =>
           /\ intents[j].state = "succeeded"
           /\ incidents'[j] = "RESOLVED" /\ AppliedBy(j)'
    BY <1>1 DEF IInv, IncidentsOK, Paid
  <2>. QED
    BY <1>1, <2>1, IncidentsStable
<1>. QED
  BY <1>2, <1>3, <1>5, <1>6, <1>7 DEF IInv

LEMMA ApplyFeeIInv ==
    ASSUME IInv, NEW a \in Appliers, ApplyFee(a)
    PROVE  IInv'
<1>0. PICK i \in Intents : i = appliers[a].intent /\ Paid(i)
  BY DEF ApplyFee, IInv, AppliersOK
<1> DEFINE outcome == ApplyOutcome(intents[i].transfer, i)
<1>1. /\ appliers[a].pc = "rpc"
      /\ UNCHANGED <<vouchers, redeemed, stripe, requests, admins>>
  BY DEF ApplyFee
<1>2. CASE /\ Faults
           /\ ToReport(a, "OPEN")
           /\ UNCHANGED <<tables, incidents>>
  BY <1>1, <1>2, NextSlot, SlotOnlyApplier
<1>3. CASE /\ apply_transfer_fee(i)
           /\ IF outcome # "applied" THEN Conclude(a, outcome)
              ELSE IF appliers[a].source = "sweep" THEN ToReport(a, "RESOLVED")
              ELSE Idle(a)
  <2>1. Forward /\ (outcome = "applied" => AppliedBy(i)')
    BY <1>0, <1>1, <1>3, ApplyEffect
  <2>2. Paid(i)'
    BY <1>0, <1>1 DEF Paid, stripe
  <2>3. \E slot \in ApplierSlot :
           /\ appliers' = [appliers EXCEPT ![a] = slot]
           /\ slot.pc # "idle" => slot.intent = i
           /\ slot.pc # "record" => slot.report = "none"
           /\ slot.report = "RESOLVED" => slot.intent = i /\ outcome = "applied"
    <3>1. CASE Idle(a)
      BY <3>1, IdleApplierType DEF Idle
    <3>2. CASE ToReport(a, "OPEN")
      BY <1>0, <1>1, <3>2, NextSlot
    <3>3. CASE ToReport(a, "RESOLVED") /\ outcome = "applied"
      BY <1>0, <1>1, <3>3, NextSlot
    <3>. QED
      BY <1>3, <3>1, <3>2, <3>3 DEF Conclude
  <2>4. PICK slot \in ApplierSlot :
           /\ appliers' = [appliers EXCEPT ![a] = slot]
           /\ slot.pc # "idle" => slot.intent = i
           /\ slot.pc # "record" => slot.report = "none"
           /\ slot.report = "RESOLVED" => slot.intent = i /\ outcome = "applied"
    BY <2>3
  <2> HIDE DEF outcome
  <2>5. appliers' \in [Appliers -> ApplierSlot]
    BY <2>4 DEF IInv, TypeOK
  <2>6. AppliersOK'
    <3> SUFFICES ASSUME NEW b \in Appliers
                 PROVE  /\ appliers'[b].pc # "idle" =>
                              appliers'[b].intent \in Intents /\ Paid(appliers[b].intent)'
                        /\ appliers'[b].pc # "record" => appliers'[b].report = "none"
                        /\ appliers'[b].report = "RESOLVED" => AppliedBy(appliers[b].intent)'
      BY DEF AppliersOK, Paid, AppliedBy, Completed
    <3>1. CASE b = a
      <4>1. appliers'[b] = slot
        BY <2>4, <3>1 DEF IInv, TypeOK
      <4>2. slot.intent = i => Paid(appliers[b].intent)'
        BY <2>2, <4>1 DEF Paid
      <4>3. slot.intent = i /\ outcome = "applied" => AppliedBy(appliers[b].intent)'
        BY <2>1, <4>1 DEF AppliedBy, Paid, Completed
      <4>. QED
        BY <1>1, <2>4, <4>1, <4>2, <4>3
    <3>2. CASE b # a
      <4>1. appliers'[b] = appliers[b]
        BY <2>4, <3>2 DEF IInv, TypeOK
      <4>2. /\ appliers[b].pc # "idle" =>
                 appliers[b].intent \in Intents /\ Paid(appliers[b].intent)
            /\ appliers[b].pc # "record" => appliers[b].report = "none"
            /\ appliers[b].report = "RESOLVED" => AppliedBy(appliers[b].intent)
        BY DEF IInv, AppliersOK
      <4>3. ASSUME NEW j \in Intents, AppliedBy(j)
            PROVE  AppliedBy(j)'
        BY <2>1, <4>3, AppliedStays
      <4>4. appliers[b].report = "RESOLVED" => AppliedBy(appliers[b].intent)'
        BY <4>1, <4>2, <4>3 DEF AppliedBy, Paid, Completed
      <4>5. appliers[b].pc # "idle" => Paid(appliers[b].intent)'
        BY <2>1, <4>1, <4>2 DEF Paid, Forward, IntentsForward
      <4>. QED
        BY <4>1, <4>2, <4>4, <4>5
    <3>. QED
      BY <3>1, <3>2
  <2>7. AdminsOK' /\ admins' \in [Admins -> AdminSlot]
    BY <1>1, <2>1, AdminsStable DEF IInv, TypeOK
  <2>8. apply_transfer_fee(i)
    BY <1>3
  <2>. QED
    BY <1>0, <1>1, <2>5, <2>6, <2>7, <2>8, ApplyIInv
<1>. QED
  BY <1>0, <1>2, <1>3 DEF ApplyFee

(* What a sweep reports as RESOLVED it applied, or somebody else did.      *)
LEMMA RecordIncidentIInv ==
    ASSUME IInv, NEW a \in Appliers, RecordIncident(a)
    PROVE  IInv'
<1> DEFINE i == appliers[a].intent
<1>1. /\ incidents' = [incidents EXCEPT ![i] = IF @ = "none" THEN appliers[a].report ELSE @]
      /\ appliers' = [appliers EXCEPT ![a] = IdleApplier]
      /\ i \in Intents /\ Paid(i)
      /\ appliers[a].report \in {"none", "OPEN", "RESOLVED"}
      /\ appliers[a].report = "RESOLVED" => AppliedBy(i)
      /\ UNCHANGED <<tables, vouchers, redeemed, stripe, requests, admins>>
  BY DEF RecordIncident, Idle, IInv, AppliersOK, TypeOK, ApplierSlot
<1>2. /\ incidents' \in [Intents -> IncidentStatus]
      /\ \A j \in Intents : incidents'[j] # incidents[j] =>
            j = i /\ incidents'[j] = appliers[a].report
  BY <1>1 DEF IInv, TypeOK, IncidentStatus
<1>3. Forward
  BY <1>1, QuietForward DEF tables, stripe
<1>4. TypeOK'
  BY <1>1, <1>2, IdleApplierType DEF IInv, TypeOK, tables, TablesTypeOK, stripe
<1>5. IntentsOK' /\ RowsOK'
  BY <1>1 DEF IInv, IntentsOK, RowsOK, Paid, Completed, tables, stripe
<1>6. RequestsOK' /\ AdminsOK'
  BY <1>1, <1>3, RequestsStable, AdminsStable
<1>7. AppliersOK'
  BY <1>1, <1>3, AppliersStable DEF IInv, TypeOK
<1>8. IncidentsOK'
  <2>1. \A j \in Intents : incidents'[j] # incidents[j] =>
           /\ intents[j].state = "succeeded"
           /\ incidents'[j] = "RESOLVED" => AppliedBy(j)'
           /\ incidents'[j] # "REFUNDED"
    BY <1>1, <1>2 DEF Paid, AppliedBy, Completed, tables, stripe
  <2>. QED
    BY <1>3, <2>1, IncidentsStable
<1>. QED
  BY <1>4, <1>5, <1>6, <1>7, <1>8 DEF IInv

-----------------------------------------------------------------------------
(* Admins.                                                                 *)

LEMMA SlotOnlyAdmin ==
    ASSUME IInv, NEW d \in Admins, NEW slot \in AdminSlot,
           admins' = [admins EXCEPT ![d] = slot],
           slot.pc # "idle" => slot.intent \in Intents /\ Paid(slot.intent),
           slot.pc # "record",
           UNCHANGED <<tables, vouchers, redeemed, stripe, incidents, requests, appliers>>
    PROVE  IInv'
<1>1. Forward
  BY QuietForward DEF tables, stripe
<1>2. TypeOK'
  BY DEF IInv, TypeOK, tables, TablesTypeOK, stripe
<1>3. IntentsOK' /\ RowsOK'
  BY DEF IInv, IntentsOK, RowsOK, Paid, Completed, tables, stripe
<1>4. AdminsOK'
  <2>1. \A e \in Admins : admins'[e] = IF e = d THEN slot ELSE admins[e]
    BY DEF IInv, TypeOK
  <2>. QED
    BY <2>1 DEF IInv, AdminsOK, Paid, stripe
<1>5. RequestsOK' /\ AppliersOK' /\ IncidentsOK'
  BY <1>1, RequestsStable, AppliersStable, IncidentsStable
<1>. QED
  BY <1>2, <1>3, <1>4, <1>5 DEF IInv

LEMMA IdleAdminType == IdleAdmin \in AdminSlot /\ IdleAdmin.pc = "idle"
  BY DEF IdleAdmin, AdminSlot

LEMMA OpenIInv ==
    ASSUME IInv, NEW d \in Admins, NEW i \in Intents, OpenReapply(d, i) \/ OpenRefund(d, i)
    PROVE  IInv'
<1>1. PICK pc \in {"reapply", "refund"} :
         admins' = [admins EXCEPT ![d] = [pc |-> pc, intent |-> i]]
  BY DEF OpenReapply, OpenRefund
<1>2. /\ intents[i].state = "succeeded"
      /\ UNCHANGED <<tables, vouchers, redeemed, stripe, incidents, requests, appliers>>
  BY DEF OpenReapply, OpenRefund
<1> DEFINE slot == [pc |-> pc, intent |-> i]
<1>3. /\ slot \in AdminSlot /\ slot.pc \in {"reapply", "refund"} /\ slot.intent = i
      /\ admins' = [admins EXCEPT ![d] = slot]
  BY <1>1 DEF AdminSlot
<1> HIDE DEF slot
<1>. QED
  BY <1>2, <1>3, SlotOnlyAdmin DEF Paid

LEMMA AbortAdminIInv ==
    ASSUME IInv, NEW d \in Admins, AbortAdmin(d)
    PROVE  IInv'
  BY IdleAdminType, SlotOnlyAdmin DEF AbortAdmin

LEMMA ReapplyIInv ==
    ASSUME IInv, NEW d \in Admins, admin_reapply_payment(d)
    PROVE  IInv'
<1> DEFINE i == admins[d].intent
<1>1. /\ i \in Intents /\ Paid(i) /\ apply_transfer_fee(i)
      /\ admins' = [admins EXCEPT ![d] = IdleAdmin]
      /\ UNCHANGED <<vouchers, redeemed, stripe, requests, appliers>>
  BY DEF admin_reapply_payment, IInv, AdminsOK
<1> HIDE DEF i
<1>2. Forward
  BY <1>1, ApplyEffect
<1>3. /\ AppliersOK' /\ AdminsOK'
      /\ appliers' \in [Appliers -> ApplierSlot] /\ admins' \in [Admins -> AdminSlot]
  BY <1>1, <1>2, IdleAdminType, AppliersStable, AdminsStable DEF IInv, TypeOK
<1>. QED
  BY <1>1, <1>3, ApplyIInv

LEMMA RefundAtStripeIInv ==
    ASSUME IInv, NEW d \in Admins, RefundAtStripe(d)
    PROVE  IInv'
<1> DEFINE i == admins[d].intent
           slot == [admins[d] EXCEPT !.pc = "record"]
<1>1. /\ i \in Intents /\ Paid(i)
      /\ intents' = [intents EXCEPT ![i].refunded = TRUE]
      /\ UNCHANGED <<tables, vouchers, redeemed, keys, secrets, incidents, requests, appliers>>
  BY DEF RefundAtStripe, IInv, AdminsOK
<1>2. /\ slot \in AdminSlot /\ slot.intent = i /\ slot.pc = "record"
      /\ admins' = [admins EXCEPT ![d] = slot]
  <2>1. admins[d] \in AdminSlot /\ admins' = [admins EXCEPT ![d].pc = "record"]
    BY DEF RefundAtStripe, IInv, TypeOK
  <2>. QED
    BY <2>1 DEF AdminSlot
<1> HIDE DEF slot
<1>3. /\ intents' \in [Intents -> IntentRow]
      /\ intents'[i].refunded
      /\ \A j \in Intents :
            /\ intents'[j].transfer = intents[j].transfer
            /\ intents'[j].state = intents[j].state
            /\ intents[j].refunded => intents'[j].refunded
  <2>1. intents \in [Intents -> IntentRow]
    BY DEF IInv, TypeOK
  <2>2. intents' = [intents EXCEPT ![i] = [intents[i] EXCEPT !.refunded = TRUE]]
    BY <1>1
  <2>3. /\ intents[i] \in IntentRow
        /\ [intents[i] EXCEPT !.refunded = TRUE] \in IntentRow
    BY <1>1, <2>1 DEF IntentRow
  <2> HIDE DEF i
  <2>. QED
    BY <1>1, <2>1, <2>2, <2>3 DEF IntentRow
<1>4. Forward
  BY <1>1, <1>3 DEF Forward, IntentsForward, RowsForward, tables
<1>5. TypeOK'
  BY <1>1, <1>2, <1>3 DEF IInv, TypeOK, tables, TablesTypeOK
<1>6. IntentsOK'
  BY <1>1, <1>3, <1>4, IntentsStable DEF Forward
<1>7. RowsOK'
  BY <1>1, <1>4, <1>5, RowsStable DEF Completed, tables
<1>8. AdminsOK'
  <2>1. \A e \in Admins : admins'[e] = IF e = d THEN slot ELSE admins[e]
    BY <1>2 DEF IInv, TypeOK
  <2>. QED
    BY <1>1, <1>2, <1>3, <2>1 DEF IInv, AdminsOK, Paid
<1>9. RequestsOK' /\ AppliersOK' /\ IncidentsOK'
  BY <1>1, <1>4, RequestsStable, AppliersStable, IncidentsStable
<1>. QED
  BY <1>5, <1>6, <1>7, <1>8, <1>9 DEF IInv

LEMMA RefundRecordedIInv ==
    ASSUME IInv, NEW d \in Admins, admin_refund_payment_incident(d)
    PROVE  IInv'
<1> DEFINE i == admins[d].intent
           x == intents[i].transfer
<1>1. /\ i \in Intents /\ Paid(i) /\ intents[i].refunded
      /\ incidents' = [incidents EXCEPT ![i] = "REFUNDED"]
      /\ admins' = [admins EXCEPT ![d] = IdleAdmin]
      /\ UNCHANGED <<vouchers, redeemed, stripe, requests, appliers>>
  BY DEF admin_refund_payment_incident, IInv, AdminsOK
<1>2. x \in Transfers /\ TablesTypeOK
  BY <1>1 DEF IInv, IntentsOK, Paid, TypeOK
<1>3. /\ RowsForward /\ TablesTypeOK'
      /\ ownership_transfers'[x].status # "PENDING"
      /\ \A y \in Transfers :
            /\ ownership_transfers'[y].intent = ownership_transfers[y].intent
            /\ Completed(y)' => Completed(y)
  <2>1. CASE CancelRow(x)
    BY <1>2, <2>1, CancelRowForward DEF Completed
  <2>2. CASE ownership_transfers[x].status # "PENDING" /\ UNCHANGED tables
    BY <1>2, <2>2 DEF RowsForward, TablesTypeOK, Completed, tables
  <2>. QED
    BY <2>1, <2>2 DEF admin_refund_payment_incident
<1>4. Forward
  BY <1>1, <1>3 DEF Forward, IntentsForward, stripe
<1>5. incidents' \in [Intents -> IncidentStatus]
  BY <1>1 DEF IInv, TypeOK, IncidentStatus
<1>6. TypeOK'
  BY <1>1, <1>3, <1>5, IdleAdminType DEF IInv, TypeOK, stripe
<1>7. IntentsOK'
  BY <1>1 DEF IInv, IntentsOK, Paid, stripe
<1>8. RowsOK'
  BY <1>1, <1>3, <1>4, <1>6, RowsStable DEF stripe
<1>9. RequestsOK' /\ AppliersOK' /\ AdminsOK'
  BY <1>1, <1>4, IdleAdminType, RequestsStable, AppliersStable, AdminsStable DEF IInv, TypeOK
<1>10. IncidentsOK'
  <2>1. \A j \in Intents : incidents'[j] # incidents[j] => j = i /\ incidents'[j] = "REFUNDED"
    BY <1>1 DEF IInv, TypeOK
  <2>2. intents'[i].refunded /\ intents[i].state = "succeeded"
    BY <1>1 DEF Paid, stripe
  <2>. QED
    BY <1>3, <1>4, <2>1, <2>2, IncidentsStable
<1>. QED
  BY <1>6, <1>7, <1>8, <1>9, <1>10 DEF IInv

-----------------------------------------------------------------------------
(* The invariant of the specification.                                     *)

LEMMA NextIInv == IInv /\ [Next]_vars => IInv'
<1> SUFFICES ASSUME IInv, [Next]_vars
             PROVE  IInv'
  OBVIOUS
<1>1. ASSUME NEW r \in Requests, RequestStep(r)
      PROVE  IInv'
  BY <1>1, ReceiveCompleteIInv, ResolveRecipientIInv, CountVouchersIInv, RedeemVoucherIInv,
     CreateIntentIInv, StoreIntentIInv, CancelIntentIInv, AbortRequestIInv DEF RequestStep
<1>2. ASSUME NEW a \in Appliers, ApplierStep(a)
      PROVE  IInv'
  BY <1>2, StartIInv, QuietApplierIInv, ApplyFeeIInv, RecordIncidentIInv DEF ApplierStep
<1>3. ASSUME NEW d \in Admins, AdminStep(d)
      PROVE  IInv'
  BY <1>3, OpenIInv, ReapplyIInv, RefundAtStripeIInv, RefundRecordedIInv, AbortAdminIInv
     DEF AdminStep
<1>4. ASSUME NEW x \in Transfers, CancelTransfer(x) \/ ForgetKey(x)
      PROVE  IInv'
  BY <1>4, CancelTransferIInv, ForgetKeyIInv
<1>5. ASSUME NEW u \in Users, GrantVoucher(u) \/ LoseVouchers(u)
      PROVE  IInv'
  BY <1>5, VouchersIInv
<1>6. ASSUME NEW i \in Intents, PayIntent(i) \/ Ripens(i) \/ PassWindow(i)
      PROVE  IInv'
  BY <1>6, StripeIInv
<1>7. CASE UNCHANGED vars
  <2>1. UNCHANGED <<tables, vouchers, redeemed, stripe, incidents, slots>>
    BY <1>7 DEF vars
  <2>2. Forward
    BY <2>1, QuietForward DEF tables, stripe
  <2>3. TypeOK'
    BY <2>1 DEF IInv, TypeOK, tables, TablesTypeOK, stripe, slots
  <2>4. IntentsOK' /\ RowsOK'
    BY <2>1 DEF IInv, IntentsOK, RowsOK, Paid, Completed, tables, stripe
  <2>5. RequestsOK' /\ AppliersOK' /\ AdminsOK' /\ IncidentsOK'
    BY <2>1, <2>2, RequestsStable, AppliersStable, AdminsStable, IncidentsStable DEF slots
  <2>. QED
    BY <2>3, <2>4, <2>5 DEF IInv
<1>. QED
  BY <1>1, <1>2, <1>3, <1>4, <1>5, <1>6, <1>7 DEF Next

LEMMA Invariance == Spec => []IInv
  BY InitIInv, NextIInv, PTL DEF Spec

(* The tables, Stripe's side and every slot keep their types.              *)
THEOREM FeeTypeCorrect == Spec => []TypeOK
<1>1. IInv => TypeOK
  BY DEF IInv
<1>. QED
  BY <1>1, Invariance, PTL

(* No money can be taken for a transfer that names no recipient.           *)
THEOREM PaidNamesRecipient == Spec => []PaidHasRecipient
<1>1. IInv => PaidHasRecipient
  BY DEF IInv, RowsOK, PaidHasRecipient
<1>. QED
  BY <1>1, Invariance, PTL

(* An incident is RESOLVED only if its payment completed its transfer.     *)
THEOREM ResolvedIsApplied == Spec => []ResolvedWasApplied
<1>1. IInv => ResolvedWasApplied
  BY DEF IInv, IncidentsOK
<1>. QED
  BY <1>1, Invariance, PTL

(* A REFUNDED incident was refunded, and its transfer locks nothing.       *)
THEOREM RefundedIsUnlocked == Spec => []RefundUnlocks
<1>1. IInv => RefundUnlocks
  BY DEF IInv, IncidentsOK
<1>. QED
  BY <1>1, Invariance, PTL

-----------------------------------------------------------------------------
(* What a step does to the rows, to the vouchers spent and to the money.   *)

(* Nothing the ledger sees.                                                *)
Quiet ==
    /\ redeemed' = redeemed
    /\ \A x \in Transfers :
          /\ ownership_transfers'[x].status = ownership_transfers[x].status
          /\ Completed(x) => ownership_transfers'[x].intent = ownership_transfers[x].intent
    /\ \A i \in Intents :
          /\ intents'[i].state = "succeeded" <=> intents[i].state = "succeeded"
          /\ Paid(i) => intents'[i].transfer = intents[i].transfer

(* The four steps it does see.                                             *)
Pays(i) == PayIntent(i)

Applies(i) ==
    /\ Paid(i)
    /\ ApplyOutcome(intents[i].transfer, i) = "applied"
    /\ CompleteRow(intents[i].transfer, i)
    /\ UNCHANGED <<redeemed, stripe>>

Redeems(x) ==
    /\ ApplyOutcome(x, NoIntent) = "applied"
    /\ CompleteRow(x, NoIntent)
    /\ redeemed' = redeemed \cup {x}
    /\ UNCHANGED stripe

Cancels(x) == CancelRow(x) /\ UNCHANGED <<redeemed, stripe>>

LEMMA QuietTables ==
    ASSUME UNCHANGED <<ownership_transfers, redeemed, intents>>
    PROVE  Quiet
  BY DEF Quiet

(* A request changes rows, vouchers and money in one visible way only.     *)
LEMMA RequestKinds ==
    ASSUME IInv, NEW r \in Requests, RequestStep(r)
    PROVE  Quiet \/ \E x \in Transfers : Redeems(x)
<1> DEFINE x == requests[r].transfer
           i == requests[r].intent
<1>1. CASE \/ \E y \in Transfers, u \in Users : ReceiveComplete(r, y, u)
           \/ CountVouchers(r)
           \/ AbortRequest(r)
  BY <1>1, QuietTables DEF ReceiveComplete, CountVouchers, AbortRequest, tables, stripe
<1>2. CASE ResolveRecipient(r)
  <2>1. /\ x \in Transfers
        /\ ownership_transfers' = [ownership_transfers EXCEPT ![x].to = requests[r].user]
        /\ UNCHANGED <<redeemed, stripe>>
    BY <1>2 DEF ResolveRecipient, IInv, RequestsOK
  <2>2. ownership_transfers \in [Transfers -> TransferRow]
    BY DEF IInv, TypeOK, TablesTypeOK
  <2>3. \A y \in Transfers :
           /\ ownership_transfers'[y].status = ownership_transfers[y].status
           /\ ownership_transfers'[y].intent = ownership_transfers[y].intent
    BY <2>1, <2>2 DEF TransferRow
  <2>. QED
    BY <2>1, <2>3 DEF Quiet, stripe
<1>3. CASE RedeemVoucher(r)
  <2>1. x \in Transfers
    BY <1>3 DEF RedeemVoucher, IInv, RequestsOK
  <2>2. CASE UNCHANGED <<tables, redeemed>>
    BY <1>3, <2>2, QuietTables DEF RedeemVoucher, tables, stripe
  <2>3. CASE Redeems(x)
    BY <2>1, <2>3
  <2>. QED
    BY <1>3, <2>2, <2>3 DEF RedeemVoucher, Redeems
<1>4. CASE CreateIntent(r)
  <2>1. /\ UNCHANGED <<ownership_transfers, redeemed>>
        /\ intents \in [Intents -> IntentRow]
    BY <1>4 DEF CreateIntent, tables, IInv, TypeOK
  <2>2. CASE UNCHANGED intents
    BY <2>1, <2>2, QuietTables
  <2>3. CASE \E j \in Intents :
                /\ intents[j].state = "none"
                /\ intents' = [intents EXCEPT ![j].state = "open", ![j].transfer = x]
    BY <2>1, <2>3 DEF IntentRow, Quiet, Paid
  <2>. QED
    BY <1>4, <2>2, <2>3 DEF CreateIntent
<1>5. CASE StoreIntent(r)
  <2>1. /\ x \in Transfers
        /\ UNCHANGED <<redeemed, intents>>
    BY <1>5 DEF StoreIntent, IInv, RequestsOK
  <2>2. CASE UNCHANGED ownership_transfers
    BY <2>1, <2>2, QuietTables
  <2>3. CASE /\ ownership_transfers[x].status = "PENDING"
             /\ ownership_transfers' = [ownership_transfers EXCEPT ![x].intent = i]
    <3>1. ownership_transfers \in [Transfers -> TransferRow]
      BY DEF IInv, TypeOK, TablesTypeOK
    <3>. QED
      BY <2>1, <2>3, <3>1 DEF TransferRow, Quiet, Completed
  <2>. QED
    BY <1>5, <2>2, <2>3 DEF StoreIntent
<1>6. CASE CancelIntent(r)
  <2>1. /\ UNCHANGED <<ownership_transfers, redeemed>>
        /\ i \in Intents
        /\ intents' = [intents EXCEPT ![i].state = IF @ = "open" THEN "canceled" ELSE @]
        /\ intents \in [Intents -> IntentRow]
    BY <1>6 DEF CancelIntent, tables, IInv, TypeOK, RequestsOK
  <2>. QED
    BY <2>1 DEF IntentRow, Quiet
<1>. QED
  BY <1>1, <1>2, <1>3, <1>4, <1>5, <1>6 DEF RequestStep

(* Applying a payment completes its transfer or changes no row.            *)
LEMMA ApplyKinds ==
    ASSUME NEW i \in Intents, Paid(i), apply_transfer_fee(i), UNCHANGED <<redeemed, stripe>>
    PROVE  Quiet \/ Applies(i)
<1>1. CASE UNCHANGED tables
  BY <1>1, QuietTables DEF tables, stripe
<1>. QED
  BY <1>1 DEF apply_transfer_fee, Applies

LEMMA ApplierKinds ==
    ASSUME IInv, NEW a \in Appliers, ApplierStep(a)
    PROVE  Quiet \/ \E i \in Intents : Applies(i)
<1>1. CASE UNCHANGED <<tables, redeemed, stripe>>
  BY <1>1, QuietTables DEF tables, stripe
<1>2. CASE /\ appliers[a].pc = "rpc"
           /\ apply_transfer_fee(appliers[a].intent)
           /\ UNCHANGED <<redeemed, stripe>>
  <2>1. appliers[a].intent \in Intents /\ Paid(appliers[a].intent)
    BY <1>2 DEF IInv, AppliersOK
  <2>. QED
    BY <1>2, <2>1, ApplyKinds
<1>. QED
  BY <1>1, <1>2 DEF ApplierStep, DeliverWebhook, SweepLists, SweepSkipsSettled,
     LoadTransfer, ApplyFee, RecordIncident, AbortApplier

LEMMA AdminKinds ==
    ASSUME IInv, NEW d \in Admins, AdminStep(d)
    PROVE  \/ Quiet
           \/ \E i \in Intents : Applies(i)
           \/ \E x \in Transfers : Cancels(x)
<1> DEFINE i == admins[d].intent
<1>1. CASE UNCHANGED <<tables, redeemed, stripe>>
  BY <1>1, QuietTables DEF tables, stripe
<1>2. CASE admin_reapply_payment(d)
  <2>1. i \in Intents /\ Paid(i)
    BY <1>2 DEF admin_reapply_payment, IInv, AdminsOK
  <2>. QED
    BY <1>2, <2>1, ApplyKinds DEF admin_reapply_payment
<1>3. CASE RefundAtStripe(d)
  <2>1. /\ UNCHANGED <<ownership_transfers, redeemed>>
        /\ i \in Intents
        /\ intents' = [intents EXCEPT ![i].refunded = TRUE]
        /\ intents \in [Intents -> IntentRow]
    BY <1>3 DEF RefundAtStripe, tables, IInv, TypeOK, AdminsOK
  <2>. QED
    BY <2>1 DEF IntentRow, Quiet
<1>4. CASE admin_refund_payment_incident(d)
  <2>1. intents[i].transfer \in Transfers
    BY <1>4 DEF admin_refund_payment_incident, IInv, AdminsOK, IntentsOK, Paid
  <2>2. CASE UNCHANGED tables
    BY <1>4, <2>2, QuietTables DEF admin_refund_payment_incident, tables, stripe
  <2>3. CASE CancelRow(intents[i].transfer)
    BY <1>4, <2>1, <2>3 DEF admin_refund_payment_incident, Cancels
  <2>. QED
    BY <1>4, <2>2, <2>3 DEF admin_refund_payment_incident
<1>. QED
  BY <1>1, <1>2, <1>3, <1>4 DEF AdminStep, OpenReapply, OpenRefund, AbortAdmin

LEMMA StepKinds ==
    ASSUME IInv, [Next]_vars
    PROVE  \/ Quiet
           \/ \E i \in Intents : Pays(i) \/ Applies(i)
           \/ \E x \in Transfers : Redeems(x) \/ Cancels(x)
<1>1. ASSUME NEW x \in Transfers, CancelTransfer(x)
      PROVE  Cancels(x)
  BY <1>1 DEF CancelTransfer, Cancels
<1>2. ASSUME NEW x \in Transfers, ForgetKey(x)
      PROVE  Quiet
  BY <1>2, QuietTables DEF ForgetKey, tables
<1>3. ASSUME NEW u \in Users, GrantVoucher(u) \/ LoseVouchers(u)
      PROVE  Quiet
  BY <1>3, QuietTables DEF GrantVoucher, LoseVouchers, tables, stripe
<1>4. ASSUME NEW i \in Intents, Ripens(i) \/ PassWindow(i)
      PROVE  Quiet
  <2>1. /\ UNCHANGED <<ownership_transfers, redeemed>>
        /\ \/ intents' = [intents EXCEPT ![i].late = TRUE]
           \/ intents' = [intents EXCEPT ![i].ripe = TRUE]
        /\ intents \in [Intents -> IntentRow]
    BY <1>4 DEF Ripens, PassWindow, tables, IInv, TypeOK
  <2>. QED
    BY <2>1 DEF IntentRow, Quiet
<1>5. CASE UNCHANGED vars
  BY <1>5, QuietTables DEF vars, tables, stripe
<1>. QED
  BY <1>1, <1>2, <1>3, <1>4, <1>5, RequestKinds, ApplierKinds, AdminKinds DEF Next, Pays

-----------------------------------------------------------------------------
(* The ledger.  The three state functions that its variables stand for.    *)

Decision == [x \in Transfers |->
               IF ownership_transfers[x].status = "PENDING" THEN "open"
               ELSE IF Completed(x) THEN "done"
               ELSE "void"]

Payment == [x \in Transfers |->
              IF ~Completed(x) THEN NoIntent
              ELSE IF x \in redeemed THEN Voucher
              ELSE ownership_transfers[x].intent]

Charged == [i \in Intents |-> IF Paid(i) THEN intents[i].transfer ELSE NoTransfer]

LEMMA LedgerInit == Init => Ledger!Init
<1> SUFFICES ASSUME Init PROVE Ledger!Init
  OBVIOUS
<1>1. \A x \in Transfers : ownership_transfers[x].status = "PENDING"
  BY DEF Init, PendingRow
<1>2. \A i \in Intents : ~Paid(i)
  BY DEF Init, Paid
<1>. QED
  BY <1>1, <1>2 DEF Ledger!Init, Completed

LEMMA QuietLedger ==
    ASSUME Quiet
    PROVE  Decision' = Decision /\ Payment' = Payment /\ Charged' = Charged
<1>1. \A x \in Transfers : Completed(x)' <=> Completed(x)
  BY DEF Quiet, Completed
<1>2. Decision' = Decision
  BY <1>1 DEF Quiet, Decision, Completed
<1>3. Payment' = Payment
  BY <1>1 DEF Quiet, Payment, Completed
<1>4. Charged' = Charged
  BY DEF Quiet, Charged, Paid
<1>. QED
  BY <1>2, <1>3, <1>4

(* A row that leaves PENDING for COMPLETED moves one entry of the decision.*)
LEMMA DoneLedger ==
    ASSUME NEW x \in Transfers,
           ownership_transfers[x].status = "PENDING",
           ownership_transfers'[x].status = "COMPLETED",
           \A y \in Transfers \ {x} : ownership_transfers'[y] = ownership_transfers[y]
    PROVE  /\ Decision[x] = "open"
           /\ Decision' = [Decision EXCEPT ![x] = "done"]
  BY DEF Decision, Completed

LEMMA PaysLedger ==
    ASSUME IInv, NEW i \in Intents, Pays(i)
    PROVE  /\ intents[i].transfer \in Transfers
           /\ Charged[i] = NoTransfer
           /\ Payment[intents[i].transfer] # Voucher
           /\ Charged' = [Charged EXCEPT ![i] = intents[i].transfer]
           /\ Decision' = Decision /\ Payment' = Payment
<1> DEFINE x == intents[i].transfer
<1>1. /\ i \in secrets /\ intents[i].state = "open"
      /\ intents' = [intents EXCEPT ![i].state = "succeeded"]
      /\ UNCHANGED <<ownership_transfers, redeemed>>
  BY DEF Pays, PayIntent, tables
<1>2. intents \in [Intents -> IntentRow] /\ TablesTypeOK
  BY DEF IInv, TypeOK
<1>3. /\ x \in Transfers
      /\ ownership_transfers[x].intent # NoIntent
      /\ x \notin redeemed
  BY <1>1 DEF IInv, IntentsOK, RowsOK
<1>4. Charged[i] = NoTransfer
  BY <1>1 DEF Charged, Paid
<1>5. Payment[x] # Voucher
  BY <1>2, <1>3, VoucherAssumption DEF Payment, TablesTypeOK, TransferRow
<1>6. Charged' = [Charged EXCEPT ![i] = x]
  <2>1. /\ intents'[i].state = "succeeded" /\ intents'[i].transfer = x
        /\ \A j \in Intents \ {i} : intents'[j] = intents[j]
    BY <1>1, <1>2 DEF IntentRow
  <2>. QED
    BY <2>1 DEF Charged, Paid
<1>7. Decision' = Decision /\ Payment' = Payment
  BY <1>1 DEF Decision, Payment, Completed
<1>. QED
  BY <1>3, <1>4, <1>5, <1>6, <1>7

LEMMA AppliesLedger ==
    ASSUME IInv, NEW i \in Intents, Applies(i)
    PROVE  /\ intents[i].transfer \in Transfers
           /\ Decision[intents[i].transfer] = "open"
           /\ Charged[i] = intents[i].transfer
           /\ Decision' = [Decision EXCEPT ![intents[i].transfer] = "done"]
           /\ Payment' = [Payment EXCEPT ![intents[i].transfer] = i]
           /\ Charged' = Charged
<1>1. PICK x \in Transfers : x = intents[i].transfer
  BY DEF Applies, IInv, IntentsOK, Paid
<1>2. /\ ownership_transfers[x].status = "PENDING"
      /\ ownership_transfers'[x].status = "COMPLETED"
      /\ ownership_transfers'[x].intent = i
      /\ \A y \in Transfers \ {x} : ownership_transfers'[y] = ownership_transfers[y]
  BY <1>1, AppliedRow, CompleteRowForward, NullAssumption DEF Applies, IInv, TypeOK
<1>3. /\ Decision[x] = "open"
      /\ Decision' = [Decision EXCEPT ![x] = "done"]
  BY <1>2, DoneLedger
<1>4. x \notin redeemed /\ redeemed' = redeemed
  BY <1>2 DEF IInv, RowsOK, Completed, Applies
<1>5. Payment' = [Payment EXCEPT ![x] = i]
  BY <1>2, <1>4 DEF Payment, Completed
<1>6. Charged[i] = x /\ Charged' = Charged
  BY <1>1 DEF Applies, Charged, Paid, stripe
<1>. QED
  BY <1>1, <1>3, <1>5, <1>6

LEMMA RedeemsLedger ==
    ASSUME IInv, NEW x \in Transfers, Redeems(x)
    PROVE  /\ Decision[x] = "open"
           /\ \A i \in Intents : Charged[i] # x
           /\ Decision' = [Decision EXCEPT ![x] = "done"]
           /\ Payment' = [Payment EXCEPT ![x] = Voucher]
           /\ Charged' = Charged
<1>1. /\ ownership_transfers[x].status = "PENDING"
      /\ ownership_transfers[x].intent = NoIntent
      /\ ownership_transfers'[x].status = "COMPLETED"
      /\ \A y \in Transfers \ {x} : ownership_transfers'[y] = ownership_transfers[y]
  BY AppliedRow, CompleteRowForward DEF Redeems, IInv, TypeOK
<1>2. /\ Decision[x] = "open"
      /\ Decision' = [Decision EXCEPT ![x] = "done"]
  BY <1>1, DoneLedger
<1>3. ASSUME NEW i \in Intents
      PROVE  Charged[i] # x
  <2>1. CASE Paid(i)
    <3>1. ownership_transfers[intents[i].transfer].intent # NoIntent
      BY <2>1 DEF IInv, IntentsOK, RowsOK
    <3>. QED
      BY <1>1, <2>1, <3>1 DEF Charged
  <2>2. CASE ~Paid(i)
    BY <2>2, NullAssumption DEF Charged
  <2>. QED
    BY <2>1, <2>2
<1>4. Payment' = [Payment EXCEPT ![x] = Voucher]
  BY <1>1 DEF Payment, Completed, Redeems
<1>5. Charged' = Charged
  BY DEF Redeems, Charged, Paid, stripe
<1>. QED
  BY <1>2, <1>3, <1>4, <1>5

LEMMA CancelsLedger ==
    ASSUME IInv, NEW x \in Transfers, Cancels(x)
    PROVE  /\ Decision[x] = "open"
           /\ Decision' = [Decision EXCEPT ![x] = "void"]
           /\ Payment' = Payment /\ Charged' = Charged
<1>1. /\ ownership_transfers[x].status = "PENDING"
      /\ ownership_transfers'[x].status = "CANCELLED"
      /\ \A y \in Transfers \ {x} : ownership_transfers'[y] = ownership_transfers[y]
  BY CancelRowForward DEF Cancels, IInv, TypeOK
<1>2. /\ Decision[x] = "open"
      /\ Decision' = [Decision EXCEPT ![x] = "void"]
  BY <1>1 DEF Decision, Completed
<1>3. Payment' = Payment
  BY <1>1 DEF Payment, Completed, Cancels
<1>4. Charged' = Charged
  BY DEF Cancels, Charged, Paid, stripe
<1>. QED
  BY <1>2, <1>3, <1>4

LEMMA LedgerStep == IInv /\ [Next]_vars => [Ledger!Next]_(Ledger!ledger)
<1> SUFFICES ASSUME IInv, [Next]_vars
             PROVE  [Ledger!Next]_(Ledger!ledger)
  OBVIOUS
<1>1. CASE Quiet
  <2>1. Decision' = Decision /\ Payment' = Payment /\ Charged' = Charged
    BY <1>1, QuietLedger
  <2>. QED
    BY <2>1 DEF Ledger!ledger, Decision, Payment, Charged
<1>2. ASSUME NEW i \in Intents, Pays(i)
      PROVE  Ledger!Next
  <2>1. PICK x \in Transfers : x = intents[i].transfer
    BY <1>2, PaysLedger
  <2>2. Ledger!Charge(i, x)
    BY <1>2, <2>1, PaysLedger DEF Ledger!Charge, Decision, Payment, Charged
  <2>. QED
    BY <2>2 DEF Ledger!Next
<1>3. ASSUME NEW i \in Intents, Applies(i)
      PROVE  Ledger!Next
  <2>1. PICK x \in Transfers : x = intents[i].transfer
    BY <1>3, AppliesLedger
  <2>2. Ledger!SettleByCard(i, x)
    BY <1>3, <2>1, AppliesLedger DEF Ledger!SettleByCard, Decision, Payment, Charged
  <2>. QED
    BY <2>2 DEF Ledger!Next
<1>4. ASSUME NEW x \in Transfers, Redeems(x)
      PROVE  Ledger!Next
  <2>1. Ledger!SettleByVoucher(x)
    BY <1>4, RedeemsLedger DEF Ledger!SettleByVoucher, Decision, Payment, Charged
  <2>. QED
    BY <2>1 DEF Ledger!Next
<1>5. ASSUME NEW x \in Transfers, Cancels(x)
      PROVE  Ledger!Next
  <2>1. Ledger!Void(x)
    BY <1>5, CancelsLedger DEF Ledger!Void, Decision, Payment, Charged
  <2>. QED
    BY <2>1 DEF Ledger!Next
<1>. QED
  BY <1>1, <1>2, <1>3, <1>4, <1>5, StepKinds

(* Every transfer is decided once, by a voucher or by one card payment     *)
(* taken for it: the fee machinery implements TransferLedger.              *)
THEOREM FeeImplementsLedger == Spec => ImplementsLedger
<1>1. Init => Ledger!Init
  BY LedgerInit
<1>2. IInv /\ [Next]_vars => [Ledger!Next]_(Ledger!ledger)
  BY LedgerStep
<1>. QED
  BY <1>1, <1>2, Invariance, PTL DEF Spec, ImplementsLedger, Ledger!Spec

-----------------------------------------------------------------------------
(* What the chips may rely on.                                             *)

(* The chips change with a completed transfer only.                        *)
LEMMA TagsMove ==
    ASSUME IInv, [Next]_vars
    PROVE  \/ UNCHANGED nfc_tags
           \/ \E x \in Transfers, i \in Intents \cup {NoIntent} :
                 ApplyOutcome(x, i) = "applied" /\ CompleteRow(x, i)
<1>1. ASSUME NEW i \in Intents, Paid(i), apply_transfer_fee(i)
      PROVE  \/ UNCHANGED nfc_tags
             \/ \E x \in Transfers :
                   ApplyOutcome(x, i) = "applied" /\ CompleteRow(x, i)
  BY <1>1 DEF apply_transfer_fee, tables, IInv, IntentsOK, Paid
<1>2. ASSUME NEW r \in Requests, RequestStep(r), ~UNCHANGED nfc_tags
      PROVE  \E x \in Transfers :
                ApplyOutcome(x, NoIntent) = "applied" /\ CompleteRow(x, NoIntent)
  <2>1. RedeemVoucher(r)
    BY <1>2 DEF RequestStep, ReceiveComplete, ResolveRecipient, CountVouchers, CreateIntent,
       StoreIntent, CancelIntent, AbortRequest, tables
  <2>2. requests[r].transfer \in Transfers
    BY <2>1 DEF RedeemVoucher, IInv, RequestsOK
  <2>. QED
    BY <1>2, <2>1, <2>2 DEF RedeemVoucher, tables
<1>3. ASSUME NEW a \in Appliers, ApplierStep(a), ~UNCHANGED nfc_tags
      PROVE  \E i \in Intents : Paid(i) /\ apply_transfer_fee(i)
  <2>1. appliers[a].pc = "rpc" /\ apply_transfer_fee(appliers[a].intent)
    BY <1>3 DEF ApplierStep, DeliverWebhook, SweepLists, SweepSkipsSettled, LoadTransfer,
       ApplyFee, RecordIncident, AbortApplier, tables
  <2>2. appliers[a].intent \in Intents /\ Paid(appliers[a].intent)
    BY <2>1 DEF IInv, AppliersOK
  <2>. QED
    BY <2>1, <2>2
<1>4. ASSUME NEW d \in Admins, AdminStep(d), ~UNCHANGED nfc_tags
      PROVE  \E i \in Intents : Paid(i) /\ apply_transfer_fee(i)
  <2>1. admin_reapply_payment(d)
    BY <1>4 DEF AdminStep, OpenReapply, OpenRefund, RefundAtStripe,
       admin_refund_payment_incident, CancelRow, AbortAdmin, tables
  <2>2. admins[d].intent \in Intents /\ Paid(admins[d].intent)
    BY <2>1 DEF admin_reapply_payment, IInv, AdminsOK
  <2>. QED
    BY <2>1, <2>2 DEF admin_reapply_payment
<1>5. ASSUME \/ \E x \in Transfers : CancelTransfer(x) \/ ForgetKey(x)
             \/ \E u \in Users : GrantVoucher(u) \/ LoseVouchers(u)
             \/ \E i \in Intents : PayIntent(i) \/ Ripens(i) \/ PassWindow(i)
             \/ UNCHANGED vars
      PROVE  UNCHANGED nfc_tags
  BY <1>5 DEF CancelTransfer, CancelRow, ForgetKey, GrantVoucher, LoseVouchers, PayIntent,
     Ripens, PassWindow, vars, tables
<1>. QED
  BY <1>1, <1>2, <1>3, <1>4, <1>5 DEF Next

(* Settling a fee lifts no suspension and revives no retired chip.         *)
THEOREM AdminHoldIsKept == Spec => AdminHoldSurvivesPayment
<1>1. ASSUME IInv, [Next]_vars, NEW t \in Tags, nfc_tags[t].status \in {"SUSPENDED", "RETIRED"}
      PROVE  nfc_tags'[t].status = nfc_tags[t].status
  <2>1. CASE UNCHANGED nfc_tags
    BY <2>1
  <2>2. ASSUME NEW x \in Transfers, NEW i \in Intents \cup {NoIntent},
               ApplyOutcome(x, i) = "applied", CompleteRow(x, i)
        PROVE  nfc_tags'[t].status = nfc_tags[t].status
    <3>1. TablesTypeOK
      BY <1>1 DEF IInv, TypeOK
    <3>2. nfc_tags[ownership_transfers[x].tag].status # "RETIRED"
      BY <2>2, <3>1, AppliedRow
    <3>. QED
      BY <1>1, <2>2, <3>1, <3>2 DEF CompleteRow, TablesTypeOK, TagRow
  <2>. QED
    BY <1>1, <2>1, <2>2, TagsMove
<1>2. IInv /\ [Next]_vars =>
         [\A t \in Tags : nfc_tags[t].status \in {"SUSPENDED", "RETIRED"} =>
             nfc_tags'[t].status = nfc_tags[t].status]_vars
  BY <1>1
<1>. QED
  BY <1>2, Invariance, PTL DEF Spec, AdminHoldSurvivesPayment

(* A token changes hands only with the completion of its transfer, and to  *)
(* that transfer's recipient.                                              *)
THEOREM OwnershipMovesOnce == Spec => OwnershipMovesWithCompletion
<1>1. ASSUME IInv, [Next]_vars, NEW t \in Tags, nfc_tags'[t].owner # nfc_tags[t].owner
      PROVE  \E x \in Transfers :
                /\ ownership_transfers[x].status = "PENDING"
                /\ ownership_transfers'[x].status = "COMPLETED"
                /\ ownership_transfers[x].tag = t
                /\ nfc_tags'[t].owner = ownership_transfers[x].to
  <2>1. PICK x \in Transfers, i \in Intents \cup {NoIntent} :
           ApplyOutcome(x, i) = "applied" /\ CompleteRow(x, i)
    BY <1>1, TagsMove
  <2>2. TablesTypeOK
    BY <1>1 DEF IInv, TypeOK
  <2>3. ownership_transfers[x].status = "PENDING" /\ ownership_transfers'[x].status = "COMPLETED"
    BY <2>1, <2>2, AppliedRow, CompleteRowForward
  <2>4. ownership_transfers[x].tag = t /\ nfc_tags'[t].owner = ownership_transfers[x].to
    BY <1>1, <2>1, <2>2 DEF CompleteRow, TablesTypeOK, TagRow
  <2>. QED
    BY <2>3, <2>4
<1>2. IInv /\ [Next]_vars =>
         [\A t \in Tags : nfc_tags'[t].owner # nfc_tags[t].owner =>
             \E x \in Transfers :
                /\ ownership_transfers[x].status = "PENDING"
                /\ ownership_transfers'[x].status = "COMPLETED"
                /\ ownership_transfers[x].tag = t
                /\ nfc_tags'[t].owner = ownership_transfers[x].to]_vars
  BY <1>1
<1>. QED
  BY <1>2, Invariance, PTL DEF Spec, OwnershipMovesWithCompletion
=============================================================================
