--------------------------- MODULE TokenReissue_proofs ---------------------------
(***************************************************************************)
(* Proofs about TokenReissue, for any number of accounts, chips, requests, *)
(* PaymentIntents, API calls, webhook deliveries, sweep runs and admins,   *)
(* whatever Stripe forgets or the database refuses, and however the chips  *)
(* change hands meanwhile.                                                 *)
(***************************************************************************)
EXTENDS TokenReissue, TLAPS

(* A row has its shape; one that was inserted names its chip and its       *)
(* requester; nothing is owed before the approval, and what is paid for or *)
(* waived stays approved.                                                  *)
RowFits(row) ==
    /\ row \in Row
    /\ row.status # "NONE" => row.tag \in Tags /\ row.requester \in Users
    /\ row.status \in {"NONE", "PENDING", "REJECTED"} => row.payment = "NULL"
    /\ row.status = "APPROVED" => row.payment # "NULL"
    /\ row.payment \in {"PAID", "WAIVED"} => row.status = "APPROVED"
    /\ row.intent # NoIntent => row.payment \in {"AWAITING_PAYMENT", "PAID"}
    /\ row.new_tag # NoTag => row.payment \in {"PAID", "WAIVED"}

RowsFit == reissue_requests \in [Rows -> Row] /\ \A q \in Rows : RowFits(reissue_requests[q])

(* Stripe's side: an intent that exists is for a request, and the key of a *)
(* request and its row lead to intents for it.                             *)
IntentsOK ==
    /\ \A i \in Intents : intents[i].state # "none" => intents[i].row \in Rows
    /\ \A q \in Rows :
          /\ keys[q] # NoIntent => intents[keys[q]].row = q /\ intents[keys[q]].state # "none"
          /\ reissue_requests[q].intent # NoIntent =>
                /\ intents[reissue_requests[q].intent].row = q
                /\ intents[reissue_requests[q].intent].state # "none"

(* Only the secret of an intent that is on its row was handed out, and     *)
(* only a client that has it pays.                                         *)
SecretsOK ==
    /\ \A i \in secrets :
          intents[i].row \in Rows /\ reissue_requests[intents[i].row].intent = i
    /\ \A i \in Intents : intents[i].state = "succeeded" => i \in secrets
    /\ \A i \in Intents : incidents[i] # "none" => intents[i].state = "succeeded"

(* What a call in flight may rely on.                                      *)
CallOK(call) ==
    call.pc # "idle" =>
       /\ call.row \in Rows
       /\ call.pc = "insert" =>
             /\ call.seen.status = "PENDING" /\ call.seen.payment = "NULL"
             /\ call.seen.intent = NoIntent /\ call.seen.new_tag = NoTag
             /\ call.seen.tag \in Tags /\ call.seen.requester \in Users
       /\ call.seen.intent # NoIntent => reissue_requests[call.row].intent = call.seen.intent
       /\ call.pc \in {"retrieve", "stripe_cancel"} => call.seen.intent # NoIntent
       /\ call.pc \in {"store", "reread"} =>
             /\ call.intent \in Intents
             /\ intents[call.intent].row = call.row
             /\ intents[call.intent].state # "none"
       /\ call.pc \in {"stripe_cancel", "update"} =>
             \/ call.seen.status = "PENDING"
             \/ call.seen.status = "APPROVED" /\ call.seen.payment = "AWAITING_PAYMENT"

CallsOK == \A c \in Calls : CallOK(calls[c])

(* The payment i is on its request, and settled it.                        *)
AppliedBy(i) ==
    LET row == reissue_requests[intents[i].row] IN row.intent = i /\ row.payment = "PAID"

ApplierOK(applier) ==
    applier.pc # "idle" =>
       /\ applier.intent \in Intents /\ intents[applier.intent].state = "succeeded"
       /\ applier.report = "RESOLVED" => AppliedBy(applier.intent)

AppliersOK == \A a \in Appliers : ApplierOK(appliers[a])

(* Between its check and the reset a fulfilment holds its request alone,   *)
(* and the request stays as it was checked.                                *)
AdminOK(admin) ==
    /\ admin.pc \in {"reapply", "refund", "record"} =>
          admin.intent \in Intents /\ intents[admin.intent].state = "succeeded"
    /\ admin.pc = "reset" =>
          /\ admin.row \in Rows /\ admin.new_tag \in Tags
          /\ reissue_requests[admin.row].payment \in {"PAID", "WAIVED"}
          /\ reissue_requests[admin.row].new_tag = NoTag

AdminsOK ==
    /\ \A d \in Admins : AdminOK(admins[d])
    /\ \A d, e \in Admins :
          admins[d].pc = "reset" /\ admins[e].pc = "reset" /\ admins[e].row = admins[d].row => e = d

(* The inductive invariant.                                                *)
IInv ==
    /\ TypeOK
    /\ RowsFit
    /\ IntentsOK
    /\ SecretsOK
    /\ CallsOK
    /\ AppliersOK
    /\ AdminsOK
    /\ PaidByItsIntent

LEMMA InitIInv == Init => IInv
<1> SUFFICES ASSUME Init PROVE IInv
  OBVIOUS
<1>1. /\ EmptyRow \in Row /\ EmptyRow.status = "NONE" /\ EmptyRow.payment = "NULL"
      /\ EmptyRow.intent = NoIntent /\ EmptyRow.new_tag = NoTag
  BY DEF EmptyRow, Row, Status, Payment
<1>2. /\ IdleCall \in Call /\ IdleCall.pc = "idle"
      /\ IdleApplier \in Applier /\ IdleApplier.pc = "idle"
      /\ IdleAdmin \in Admin /\ IdleAdmin.pc = "idle"
      /\ [state |-> "none", row |-> NoRow, refunded |-> FALSE] \in Intent
  BY <1>1 DEF IdleCall, Call, IdleApplier, Applier, IdleAdmin, Admin, Intent
<1>3. TypeOK
  <2>1. nfc_tags \in [Tags -> Chip]
    BY DEF Init
  <2>2. reissue_requests \in [Rows -> Row] /\ \A q \in Rows : reissue_requests[q] = EmptyRow
    BY <1>1 DEF Init
  <2>3. \A q \in Rows : ~Open(q)
    BY <1>1, <2>2 DEF Open
  <2>4. /\ pending \subseteq Tags /\ secrets \subseteq Intents
        /\ intents \in [Intents -> Intent]
        /\ keys \in [Rows -> Intents \cup {NoIntent}]
        /\ incidents \in [Intents -> {"none", "OPEN", "RESOLVED", "REFUNDED"}]
        /\ calls \in [Calls -> Call]
        /\ appliers \in [Appliers -> Applier]
        /\ admins \in [Admins -> Admin]
        /\ faults \in 0..MaxFaults
        /\ moves \in 0..MaxMoves
    BY <1>2, BoundAssumption DEF Init
  <2>. QED
    BY <1>1, <2>1, <2>2, <2>3, <2>4 DEF TypeOK
<1>4. RowsFit
  BY <1>1, NullAssumption DEF Init, RowsFit, RowFits
<1>5. IntentsOK /\ SecretsOK
  BY <1>1 DEF Init, IntentsOK, SecretsOK
<1>6. CallsOK /\ AppliersOK /\ AdminsOK
  <2>1. /\ \A c \in Calls : calls[c].pc = "idle"
        /\ \A a \in Appliers : appliers[a].pc = "idle"
        /\ \A d \in Admins : admins[d].pc = "idle"
    BY <1>2 DEF Init
  <2>. QED
    BY <2>1 DEF CallsOK, CallOK, AppliersOK, ApplierOK, AdminsOK, AdminOK
<1>7. PaidByItsIntent
  BY <1>1 DEF Init, PaidByItsIntent
<1>. QED
  BY <1>3, <1>4, <1>5, <1>6, <1>7 DEF IInv

-----------------------------------------------------------------------------
(* What no step takes back.                                                *)

(* An intent keeps its request and its payment.                            *)
IntentsForward ==
    \A i \in Intents :
       /\ intents[i].state # "none" =>
             intents'[i].state # "none" /\ intents'[i].row = intents[i].row
       /\ intents[i].state = "succeeded" => intents'[i].state = "succeeded"

(* A row keeps its chip, the intent it names and its payment; it does not  *)
(* open again.                                                             *)
OpenRow(row) ==
    \/ row.status = "PENDING"
    \/ row.status = "APPROVED" /\ row.new_tag = NoTag

RowMay(old, new) ==
    /\ old.intent # NoIntent => new.intent = old.intent
    /\ old.payment \in {"PAID", "WAIVED"} => new.payment = old.payment

RowsForward == \A q \in Rows : RowMay(reissue_requests[q], reissue_requests'[q])

Forward == IntentsForward /\ RowsForward

(* The two parts of TypeOK about the rows.                                 *)
OneOpen ==
    \A p, q \in Rows : Open(p) /\ Open(q) /\ reissue_requests[p].tag = reissue_requests[q].tag
       => p = q

RowsTypeOK ==
    /\ reissue_requests \in [Rows -> Row]
    /\ \A q \in Rows : LET row == reissue_requests[q] IN
          /\ row.new_tag # NoTag => row.status = "APPROVED" /\ row.payment \in {"PAID", "WAIVED"}
          /\ row.status = "APPROVED" => row.payment # "NULL"
          /\ row.intent # NoIntent => row.payment \in {"AWAITING_PAYMENT", "PAID"}

LEMMA SameRows ==
    ASSUME IInv, UNCHANGED reissue_requests
    PROVE  RowsForward /\ RowsFit' /\ OneOpen'
BY DEF IInv, TypeOK, RowsFit, RowFits, RowsForward, RowMay, OneOpen, Open

(* A row that exists changes, on the same chip, and does not open again.   *)
LEMMA OneRow ==
    ASSUME IInv, NEW q \in Rows, NEW row, RowFits(row),
           reissue_requests' = [reissue_requests EXCEPT ![q] = row],
           RowMay(reissue_requests[q], row), row.tag = reissue_requests[q].tag,
           OpenRow(row) => OpenRow(reissue_requests[q])
    PROVE  /\ RowsForward /\ RowsFit' /\ OneOpen'
           /\ reissue_requests'[q] = row
           /\ \A p \in Rows \ {q} : reissue_requests'[p] = reissue_requests[p]
<1>1. /\ reissue_requests'[q] = row
      /\ \A p \in Rows \ {q} : reissue_requests'[p] = reissue_requests[p]
      /\ reissue_requests' \in [Rows -> Row]
  BY DEF IInv, RowsFit, RowFits
<1>2. RowsForward
  BY <1>1 DEF RowsForward, RowMay
<1>3. RowsFit'
  <2>1. \A p \in Rows : RowFits(reissue_requests'[p])
    BY <1>1 DEF IInv, RowsFit
  <2>. QED
    BY <1>1, <2>1 DEF RowsFit, RowFits
<1>4. OneOpen'
  <2>1. \A p \in Rows : OpenRow(reissue_requests'[p]) =>
           /\ OpenRow(reissue_requests[p])
           /\ reissue_requests'[p].tag = reissue_requests[p].tag
    BY <1>1
  <2>2. ASSUME NEW p \in Rows, NEW o \in Rows, Open(p)', Open(o)',
               reissue_requests'[p].tag = reissue_requests'[o].tag
        PROVE  p = o
    <3>1. Open(p) /\ Open(o) /\ reissue_requests[p].tag = reissue_requests[o].tag
      BY <2>1, <2>2 DEF Open, OpenRow
    <3>. QED
      BY <3>1 DEF IInv, TypeOK
  <2>. QED
    BY <2>2 DEF OneOpen
<1>. QED
  BY <1>1, <1>2, <1>3, <1>4

-----------------------------------------------------------------------------
(* Each part of the invariant stays when whatever is new fits it.          *)

LEMMA TypeStep ==
    ASSUME RowsFit', OneOpen',
           (nfc_tags \in [Tags -> Chip])', (pending \subseteq Tags)',
           (intents \in [Intents -> Intent])',
           (keys \in [Rows -> Intents \cup {NoIntent}])',
           (secrets \subseteq Intents)',
           (incidents \in [Intents -> {"none", "OPEN", "RESOLVED", "REFUNDED"}])',
           (calls \in [Calls -> Call])',
           (appliers \in [Appliers -> Applier])',
           (admins \in [Admins -> Admin])',
           (faults \in 0..MaxFaults)', (moves \in 0..MaxMoves)'
    PROVE  TypeOK'
<1>1. RowsTypeOK'
  BY DEF RowsFit, RowFits, RowsTypeOK, Row
<1>. QED
  BY <1>1 DEF TypeOK, RowsTypeOK, OneOpen, Open

LEMMA SameIntents ==
    ASSUME UNCHANGED intents PROVE IntentsForward
BY DEF IntentsForward

LEMMA IntentsStable ==
    ASSUME IInv, TypeOK', Forward,
           \A i \in Intents : intents[i].state = "none" /\ intents'[i].state # "none" =>
              intents'[i].row \in Rows,
           \A q \in Rows : keys'[q] \notin {keys[q], NoIntent} =>
              intents'[keys'[q]].row = q /\ intents'[keys'[q]].state # "none",
           \A q \in Rows : reissue_requests'[q].intent # reissue_requests[q].intent =>
              /\ intents'[reissue_requests'[q].intent].row = q
              /\ intents'[reissue_requests'[q].intent].state # "none"
    PROVE  IntentsOK'
<1>1. ASSUME NEW i \in Intents, intents'[i].state # "none" PROVE intents'[i].row \in Rows
  BY <1>1 DEF IInv, IntentsOK, Forward, IntentsForward
<1>2. ASSUME NEW q \in Rows, keys'[q] # NoIntent
      PROVE  intents'[keys'[q]].row = q /\ intents'[keys'[q]].state # "none"
  <2>1. CASE keys'[q] = keys[q]
    <3>1. keys[q] \in Intents
      BY <1>2, <2>1 DEF IInv, TypeOK
    <3>. QED
      BY <1>2, <2>1, <3>1 DEF IInv, IntentsOK, Forward, IntentsForward
  <2>. QED
    BY <1>2, <2>1
<1>3. ASSUME NEW q \in Rows, reissue_requests'[q].intent # NoIntent
      PROVE  /\ intents'[reissue_requests'[q].intent].row = q
             /\ intents'[reissue_requests'[q].intent].state # "none"
  <2>1. CASE reissue_requests'[q].intent = reissue_requests[q].intent
    <3>1. reissue_requests[q].intent \in Intents
      BY <1>3, <2>1 DEF IInv, TypeOK, Row
    <3>. QED
      BY <1>3, <2>1, <3>1 DEF IInv, IntentsOK, Forward, IntentsForward
  <2>. QED
    BY <2>1
<1>. QED
  BY <1>1, <1>2, <1>3 DEF IntentsOK

(* An intent whose secret is out is on the row of its request.             *)
LEMMA SecretOnRow ==
    ASSUME IInv, NEW i \in secrets
    PROVE  /\ i \in Intents /\ intents[i].row \in Rows /\ intents[i].state # "none"
           /\ reissue_requests[intents[i].row].intent = i
<1>1. i \in Intents /\ intents[i].row \in Rows /\ reissue_requests[intents[i].row].intent = i
  BY DEF IInv, TypeOK, SecretsOK
<1>2. i # NoIntent
  BY <1>1, NullAssumption
<1>. QED
  BY <1>1, <1>2 DEF IInv, IntentsOK

LEMMA SecretsStable ==
    ASSUME IInv, Forward, secrets \subseteq secrets',
           \A i \in secrets' \ secrets :
              intents'[i].row \in Rows /\ reissue_requests'[intents'[i].row].intent = i,
           \A i \in Intents : intents'[i].state = "succeeded" =>
              intents[i].state = "succeeded" \/ i \in secrets,
           \A i \in Intents : incidents'[i] # "none" =>
              incidents[i] # "none" \/ intents[i].state = "succeeded"
    PROVE  SecretsOK'
<1>1. ASSUME NEW i \in secrets
      PROVE  intents'[i].row \in Rows /\ reissue_requests'[intents'[i].row].intent = i
  <2>1. /\ i \in Intents /\ intents[i].row \in Rows /\ intents[i].state # "none"
        /\ reissue_requests[intents[i].row].intent = i /\ i # NoIntent
    BY SecretOnRow, NullAssumption
  <2>. QED
    BY <2>1 DEF Forward, IntentsForward, RowsForward, RowMay
<1>2. \A i \in Intents : intents'[i].state = "succeeded" => i \in secrets'
  BY DEF IInv, SecretsOK
<1>3. \A i \in Intents : incidents'[i] # "none" => intents'[i].state = "succeeded"
  BY DEF IInv, SecretsOK, Forward, IntentsForward
<1>. QED
  BY <1>1, <1>2, <1>3 DEF SecretsOK

(* A paid intent is on the row of its request, and a payment that settled  *)
(* its request stays there.                                                *)
LEMMA AppliedStays ==
    ASSUME IInv, Forward, NEW i \in Intents, intents[i].state = "succeeded", AppliedBy(i)
    PROVE  AppliedBy(i)'
<1>1. /\ intents[i].row \in Rows /\ intents'[i].row = intents[i].row /\ i # NoIntent
  BY NullAssumption DEF IInv, IntentsOK, Forward, IntentsForward
<1>. QED
  BY <1>1 DEF AppliedBy, Forward, RowsForward, RowMay

LEMMA CallStays ==
    ASSUME IInv, Forward, NEW call \in Call, CallOK(call) PROVE CallOK(call)'
<1>1. CASE call.pc = "idle"
  BY <1>1 DEF CallOK
<1>2. CASE call.pc # "idle"
  <2>1. call.row \in Rows
    BY <1>2 DEF CallOK
  <2>2. call.seen.intent # NoIntent => reissue_requests'[call.row].intent = call.seen.intent
    BY <1>2, <2>1 DEF CallOK, Forward, RowsForward, RowMay
  <2>3. call.pc \in {"store", "reread"} =>
           /\ call.intent \in Intents
           /\ intents'[call.intent].row = call.row
           /\ intents'[call.intent].state # "none"
    BY <1>2 DEF CallOK, Forward, IntentsForward
  <2>. QED
    BY <1>2, <2>1, <2>2, <2>3 DEF CallOK
<1>. QED
  BY <1>1, <1>2

LEMMA CallsStep ==
    ASSUME IInv, Forward, NEW c \in Calls, NEW slot \in Call,
           calls' = [calls EXCEPT ![c] = slot], CallOK(slot)'
    PROVE  calls' \in [Calls -> Call] /\ CallsOK'
<1>1. calls' \in [Calls -> Call]
  BY DEF IInv, TypeOK
<1>2. ASSUME NEW b \in Calls \ {c}, NEW call \in Call, call = calls[b] PROVE CallOK(call)'
  BY <1>2, CallStays DEF IInv, CallsOK
<1>3. \A b \in Calls \ {c} : calls'[b] = calls[b] /\ calls[b] \in Call
  BY DEF IInv, TypeOK
<1>4. calls'[c] = slot
  BY DEF IInv, TypeOK
<1>. QED
  BY <1>1, <1>2, <1>3, <1>4 DEF CallsOK, CallOK

LEMMA SameCalls ==
    ASSUME IInv, Forward, UNCHANGED calls PROVE CallsOK'
<1>1. ASSUME NEW c \in Calls, NEW call \in Call, call = calls[c] PROVE CallOK(call)'
  BY <1>1, CallStays DEF IInv, CallsOK
<1>2. \A c \in Calls : calls'[c] = calls[c] /\ calls[c] \in Call
  BY DEF IInv, TypeOK
<1>. QED
  BY <1>1, <1>2 DEF CallsOK, CallOK

LEMMA ApplierStays ==
    ASSUME IInv, Forward, NEW applier \in Applier, ApplierOK(applier) PROVE ApplierOK(applier)'
<1>1. CASE applier.pc = "idle"
  BY <1>1 DEF ApplierOK
<1>2. CASE applier.pc # "idle"
  <2>1. /\ applier.intent \in Intents /\ intents'[applier.intent].state = "succeeded"
        /\ intents[applier.intent].state = "succeeded"
    BY <1>2 DEF ApplierOK, Forward, IntentsForward
  <2>2. applier.report = "RESOLVED" => AppliedBy(applier.intent)'
    BY <1>2, <2>1, AppliedStays DEF ApplierOK
  <2>. QED
    BY <2>1, <2>2 DEF ApplierOK
<1>. QED
  BY <1>1, <1>2

LEMMA AppliersStep ==
    ASSUME IInv, Forward, NEW a \in Appliers, NEW slot \in Applier,
           appliers' = [appliers EXCEPT ![a] = slot], ApplierOK(slot)'
    PROVE  appliers' \in [Appliers -> Applier] /\ AppliersOK'
<1>1. appliers' \in [Appliers -> Applier]
  BY DEF IInv, TypeOK
<1>2. ASSUME NEW b \in Appliers \ {a}, NEW applier \in Applier, applier = appliers[b]
      PROVE  ApplierOK(applier)'
  BY <1>2, ApplierStays DEF IInv, AppliersOK
<1>3. \A b \in Appliers \ {a} : appliers'[b] = appliers[b] /\ appliers[b] \in Applier
  BY DEF IInv, TypeOK
<1>4. appliers'[a] = slot
  BY DEF IInv, TypeOK
<1>. QED
  BY <1>1, <1>2, <1>3, <1>4 DEF AppliersOK, ApplierOK, AppliedBy

LEMMA SameAppliers ==
    ASSUME IInv, Forward, UNCHANGED appliers PROVE AppliersOK'
<1>1. ASSUME NEW a \in Appliers, NEW applier \in Applier, applier = appliers[a]
      PROVE  ApplierOK(applier)'
  BY <1>1, ApplierStays DEF IInv, AppliersOK
<1>2. \A a \in Appliers : appliers'[a] = appliers[a] /\ appliers[a] \in Applier
  BY DEF IInv, TypeOK
<1>. QED
  BY <1>1, <1>2 DEF AppliersOK, ApplierOK, AppliedBy

(* No row that a fulfilment holds changes, but by the end of it.           *)
LEMMA SameAdmins ==
    ASSUME IInv, Forward, UNCHANGED admins,
           \A q \in Rows : Locked(q) => reissue_requests'[q] = reissue_requests[q]
    PROVE  AdminsOK'
BY DEF IInv, AdminsOK, AdminOK, Forward, IntentsForward, Locked

LEMMA AdminsStep ==
    ASSUME IInv, Forward, NEW d \in Admins, NEW slot \in Admin,
           admins' = [admins EXCEPT ![d] = slot], AdminOK(slot)',
           \A e \in Admins \ {d} : admins[e].pc = "reset" =>
              /\ reissue_requests'[admins[e].row] = reissue_requests[admins[e].row]
              /\ slot.pc = "reset" => slot.row # admins[e].row
    PROVE  admins' \in [Admins -> Admin] /\ AdminsOK'
<1>1. /\ admins' \in [Admins -> Admin]
      /\ admins'[d] = slot /\ \A e \in Admins \ {d} : admins'[e] = admins[e]
  BY DEF IInv, TypeOK
<1>. QED
  BY <1>1 DEF IInv, AdminsOK, AdminOK, Forward, IntentsForward

LEMMA PaidStable ==
    ASSUME IInv, TypeOK', Forward, SecretsOK',
           \A q \in Rows : reissue_requests'[q].payment = "PAID" /\ reissue_requests[q].payment # "PAID" =>
              /\ reissue_requests'[q].intent \in Intents
              /\ intents'[reissue_requests'[q].intent].state = "succeeded",
           \A i \in Intents : incidents'[i] = "RESOLVED" /\ incidents[i] # "RESOLVED" => AppliedBy(i)'
    PROVE  PaidByItsIntent'
<1>1. ASSUME NEW q \in Rows, reissue_requests'[q].payment = "PAID"
      PROVE  /\ reissue_requests'[q].intent # NoIntent
             /\ intents'[reissue_requests'[q].intent].state = "succeeded"
  <2>1. CASE reissue_requests[q].payment = "PAID"
    <3>1. /\ reissue_requests[q].intent \in Intents
          /\ intents[reissue_requests[q].intent].state = "succeeded"
      BY <2>1 DEF IInv, TypeOK, Row, PaidByItsIntent
    <3>. QED
      BY <3>1, NullAssumption DEF Forward, IntentsForward, RowsForward, RowMay
  <2>. QED
    BY <1>1, <2>1, NullAssumption
<1>2. ASSUME NEW i \in Intents, incidents'[i] = "RESOLVED" PROVE AppliedBy(i)'
  <2>1. CASE incidents[i] = "RESOLVED"
    <3>1. intents[i].state = "succeeded" /\ AppliedBy(i)
      BY <2>1 DEF IInv, SecretsOK, PaidByItsIntent, AppliedBy
    <3>. QED
      BY <3>1, AppliedStays
  <2>. QED
    BY <1>2, <2>1
<1>. QED
  BY <1>1, <1>2 DEF PaidByItsIntent, AppliedBy

-----------------------------------------------------------------------------
(* The owner's calls.                                                      *)

(* What a step of a call has to show.                                      *)
LEMMA CallKeeps ==
    ASSUME IInv, NEW c \in Calls, NEW slot \in Call,
           calls' = [calls EXCEPT ![c] = slot], CallOK(slot)',
           UNCHANGED <<chips, incidents, appliers, admins, faults>>,
           RowsForward, RowsFit', OneOpen',
           \A q \in Rows :
              /\ Locked(q) => reissue_requests'[q] = reissue_requests[q]
              /\ reissue_requests'[q].payment = "PAID" => reissue_requests[q].payment = "PAID"
              /\ reissue_requests'[q].intent # reissue_requests[q].intent =>
                    /\ intents'[reissue_requests'[q].intent].row = q
                    /\ intents'[reissue_requests'[q].intent].state # "none"
              /\ keys'[q] \notin {keys[q], NoIntent} =>
                    intents'[keys'[q]].row = q /\ intents'[keys'[q]].state # "none",
           IntentsForward, intents' \in [Intents -> Intent],
           keys' \in [Rows -> Intents \cup {NoIntent}],
           \A i \in Intents :
              /\ intents[i].state = "none" /\ intents'[i].state # "none" => intents'[i].row \in Rows
              /\ intents'[i].state = "succeeded" => intents[i].state = "succeeded",
           secrets \subseteq secrets', secrets' \subseteq Intents,
           \A i \in secrets' \ secrets :
              intents'[i].row \in Rows /\ reissue_requests'[intents'[i].row].intent = i
    PROVE  IInv'
<1>1. Forward
  BY DEF Forward
<1>2. calls' \in [Calls -> Call] /\ CallsOK'
  BY <1>1, CallsStep
<1>3. TypeOK'
  BY <1>2, TypeStep DEF IInv, TypeOK, chips
<1>4. IntentsOK'
  BY <1>1, <1>3, IntentsStable
<1>5. SecretsOK'
  BY <1>1, SecretsStable
<1>6. AppliersOK'
  BY <1>1, SameAppliers
<1>7. AdminsOK'
  BY <1>1, SameAdmins
<1>8. PaidByItsIntent'
  BY <1>1, <1>3, <1>5, PaidStable
<1>. QED
  BY <1>2, <1>3, <1>4, <1>5, <1>6, <1>7, <1>8 DEF IInv

LEMMA SlotOnlyCall ==
    ASSUME IInv, NEW c \in Calls, NEW slot \in Call, CallOK(slot),
           calls' = [calls EXCEPT ![c] = slot],
           UNCHANGED <<chips, reissue_requests, stripe, incidents, appliers, admins, faults>>
    PROVE  IInv'
<1>1. RowsForward /\ RowsFit' /\ OneOpen' /\ IntentsForward
  BY SameRows, SameIntents DEF stripe
<1>2. CallOK(slot)'
  BY <1>1, CallStays DEF Forward
<1>3. /\ intents' \in [Intents -> Intent] /\ keys' \in [Rows -> Intents \cup {NoIntent}]
      /\ secrets' \subseteq Intents
  BY DEF IInv, TypeOK, stripe
<1>. QED
  BY <1>1, <1>2, <1>3, CallKeeps DEF stripe

(* The call ends: it leaves nothing behind.                                *)
LEMMA IdleCallOK == IdleCall \in Call /\ CallOK(IdleCall) /\ CallOK(IdleCall)'
<1>1. IdleCall \in Call /\ IdleCall.pc = "idle"
  BY DEF IdleCall, Call, EmptyRow, Row, Status, Payment
<1>. QED
  BY <1>1 DEF CallOK

LEMMA AbortCallKeeps ==
    ASSUME IInv, NEW c \in Calls, AbortCall(c) PROVE IInv'
BY IdleCallOK, SlotOnlyCall DEF AbortCall, CallEnds

LEMMA RequestReadsKeeps ==
    ASSUME IInv, NEW c \in Calls, NEW q \in Rows, NEW u \in Users, NEW t \in Tags,
           RequestReads(c, q, u, t)
    PROVE  IInv'
<1> DEFINE seen == [EmptyRow EXCEPT !.status = "PENDING", !.tag = t, !.requester = u]
           slot == [IdleCall EXCEPT !.pc = "insert", !.row = q, !.seen = seen]
<1>1. /\ seen \in Row /\ seen.status = "PENDING" /\ seen.payment = "NULL"
      /\ seen.intent = NoIntent /\ seen.new_tag = NoTag
      /\ seen.tag = t /\ seen.requester = u
  BY DEF EmptyRow, Row, Status, Payment
<1>2. calls' = [calls EXCEPT ![c] = slot]
  BY DEF RequestReads
<1> HIDE DEF seen
<1>3. slot \in Call /\ slot.pc = "insert" /\ slot.row = q /\ slot.seen = seen
  BY <1>1 DEF IdleCall, Call
<1> HIDE DEF slot
<1>4. CallOK(slot)
  BY <1>1, <1>3 DEF CallOK
<1>. QED
  BY <1>2, <1>3, <1>4, SlotOnlyCall DEF RequestReads

(* A call that has read a row it may pay or cancel.                        *)
LEMMA ReadSlot ==
    ASSUME IInv, NEW q \in Rows, NEW pc \in {"owner", "stripe_cancel", "update"},
           pc = "stripe_cancel" => reissue_requests[q].intent # NoIntent,
           pc # "owner" => \/ reissue_requests[q].status = "PENDING"
                           \/ /\ reissue_requests[q].status = "APPROVED"
                              /\ reissue_requests[q].payment = "AWAITING_PAYMENT"
    PROVE  LET slot == [IdleCall EXCEPT !.pc = pc, !.row = q, !.seen = reissue_requests[q]]
           IN  slot \in Call /\ CallOK(slot)
<1> DEFINE row == reissue_requests[q]
           slot == [IdleCall EXCEPT !.pc = pc, !.row = q, !.seen = row]
<1>1. row \in Row
  BY DEF IInv, TypeOK
<1> HIDE DEF row
<1>2. slot \in Call /\ slot.pc = pc /\ slot.row = q /\ slot.seen = row
  BY <1>1 DEF IdleCall, Call
<1> HIDE DEF slot
<1>3. CallOK(slot)
  BY <1>2 DEF CallOK, row
<1>. QED
  BY <1>2, <1>3 DEF slot, row

LEMMA PayReadsKeeps ==
    ASSUME IInv, NEW c \in Calls, NEW q \in Rows, PayReads(c, q) PROVE IInv'
<1> DEFINE slot == [IdleCall EXCEPT !.pc = "owner", !.row = q, !.seen = reissue_requests[q]]
<1>1. calls' = [calls EXCEPT ![c] = slot]
  BY DEF PayReads
<1>2. slot \in Call /\ CallOK(slot)
  BY ReadSlot, Zenon
<1> HIDE DEF slot
<1>. QED
  BY <1>1, <1>2, SlotOnlyCall DEF PayReads

LEMMA CancelReadsKeeps ==
    ASSUME IInv, NEW c \in Calls, NEW q \in Rows, CancelReads(c, q) PROVE IInv'
<1>1. \/ reissue_requests[q].status = "PENDING"
      \/ /\ reissue_requests[q].status = "APPROVED"
         /\ reissue_requests[q].payment = "AWAITING_PAYMENT"
  BY Zenon DEF CancelReads
<1> DEFINE pc == IF reissue_requests[q].intent = NoIntent THEN "update" ELSE "stripe_cancel"
           slot == [IdleCall EXCEPT !.pc = pc, !.row = q, !.seen = reissue_requests[q]]
<1>2. calls' = [calls EXCEPT ![c] = slot]
  BY DEF CancelReads, IdleCall
<1>3. /\ pc \in {"owner", "stripe_cancel", "update"}
      /\ pc = "stripe_cancel" => reissue_requests[q].intent # NoIntent
  OBVIOUS
<1> HIDE DEF pc
<1>4. slot \in Call /\ CallOK(slot)
  BY <1>1, <1>3, ReadSlot, Zenon
<1> HIDE DEF slot
<1>. QED
  BY <1>2, <1>4, SlotOnlyCall DEF CancelReads

(* A call that goes on keeps what it read.                                 *)
LEMMA NextPc ==
    ASSUME IInv, NEW c \in Calls, NEW pc \in {"retrieve", "create", "reread", "update"},
           calls[c].pc # "idle", calls[c].pc # "insert",
           pc = "retrieve" => calls[c].seen.intent # NoIntent,
           pc = "reread" => calls[c].pc = "store",
           pc = "update" => calls[c].pc = "stripe_cancel",
           CallGoesTo(c, pc)
    PROVE  LET slot == [calls[c] EXCEPT !.pc = pc]
           IN  /\ slot \in Call /\ CallOK(slot)
               /\ calls' = [calls EXCEPT ![c] = slot]
<1> DEFINE slot == [calls[c] EXCEPT !.pc = pc]
<1>1. calls[c] \in Call /\ CallOK(calls[c])
  BY DEF IInv, TypeOK, CallsOK
<1>2. /\ slot \in Call /\ slot.pc = pc /\ slot.row = calls[c].row
      /\ slot.seen = calls[c].seen /\ slot.intent = calls[c].intent
  BY <1>1 DEF Call
<1>3. calls' = [calls EXCEPT ![c] = slot]
  BY DEF CallGoesTo
<1> HIDE DEF slot
<1>4. CallOK(slot)
  BY <1>1, <1>2 DEF CallOK
<1>. QED
  BY <1>2, <1>3, <1>4 DEF slot

LEMMA PayChecksOwnerKeeps ==
    ASSUME IInv, NEW c \in Calls, PayChecksOwner(c) PROVE IInv'
<1>1. calls[c].pc = "owner"
      /\ UNCHANGED <<chips, reissue_requests, stripe, incidents, appliers, admins, faults>>
  BY DEF PayChecksOwner
<1>2. \/ CallEnds(c)
      \/ CallGoesTo(c, "create")
      \/ CallGoesTo(c, "retrieve") /\ calls[c].seen.intent # NoIntent
  BY DEF PayChecksOwner
<1>3. CASE CallEnds(c)
  BY <1>1, <1>3, IdleCallOK, SlotOnlyCall DEF CallEnds
<1>4. CASE CallGoesTo(c, "create")
  <2>1. PICK slot \in Call : CallOK(slot) /\ calls' = [calls EXCEPT ![c] = slot]
    BY <1>1, <1>4, NextPc
  <2>. QED
    BY <1>1, <2>1, SlotOnlyCall
<1>5. CASE CallGoesTo(c, "retrieve") /\ calls[c].seen.intent # NoIntent
  <2>1. PICK slot \in Call : CallOK(slot) /\ calls' = [calls EXCEPT ![c] = slot]
    BY <1>1, <1>5, NextPc
  <2>. QED
    BY <1>1, <2>1, SlotOnlyCall
<1>. QED
  BY <1>2, <1>3, <1>4, <1>5

(* A secret is handed out; the call ends.                                  *)
LEMMA HandOutKeeps ==
    ASSUME IInv, NEW c \in Calls, NEW out \in SUBSET Intents,
           CallEnds(c), secrets' = secrets \cup out,
           \A i \in out : intents[i].row \in Rows /\ reissue_requests[intents[i].row].intent = i,
           UNCHANGED <<chips, reissue_requests, intents, keys, incidents, appliers, admins, faults>>
    PROVE  IInv'
<1>1. RowsForward /\ RowsFit' /\ OneOpen' /\ IntentsForward
  BY SameRows, SameIntents
<1>2. /\ intents' \in [Intents -> Intent] /\ keys' \in [Rows -> Intents \cup {NoIntent}]
      /\ secrets' \subseteq Intents
  BY DEF IInv, TypeOK
<1>3. calls' = [calls EXCEPT ![c] = IdleCall]
  BY DEF CallEnds
<1>. QED
  BY <1>1, <1>2, <1>3, IdleCallOK, CallKeeps

(* An intent that is on a row is for that row.                             *)
LEMMA OnRow ==
    ASSUME IInv, NEW q \in Rows, reissue_requests[q].intent # NoIntent
    PROVE  /\ reissue_requests[q].intent \in Intents
           /\ intents[reissue_requests[q].intent].row = q
           /\ intents[reissue_requests[q].intent].state # "none"
BY DEF IInv, TypeOK, Row, IntentsOK

LEMMA PayRetrievesKeeps ==
    ASSUME IInv, NEW c \in Calls, PayRetrieves(c) PROVE IInv'
<1> DEFINE i == calls[c].seen.intent
           q == calls[c].row
<1>1. q \in Rows /\ reissue_requests[q].intent = i /\ i # NoIntent
  BY DEF PayRetrieves, IInv, CallsOK, CallOK
<1>2. i \in Intents /\ intents[i].row = q
  BY <1>1, OnRow
<1>3. /\ CallEnds(c) /\ secrets' = secrets \cup {i}
      /\ UNCHANGED <<chips, reissue_requests, intents, keys, incidents, appliers, admins, faults>>
  BY DEF PayRetrieves
<1> HIDE DEF i, q
<1>4. /\ {i} \in SUBSET Intents
      /\ \A j \in {i} : intents[j].row \in Rows /\ reissue_requests[intents[j].row].intent = j
  BY <1>1, <1>2
<1>. QED
  BY <1>3, <1>4, HandOutKeeps

LEMMA PayRereadsKeeps ==
    ASSUME IInv, NEW c \in Calls, PayRereads(c) PROVE IInv'
<1> DEFINE i == calls[c].intent
           q == calls[c].row
           out == IF reissue_requests[q].intent = i THEN {i} ELSE {}
<1>1. q \in Rows /\ i \in Intents /\ intents[i].row = q
  BY DEF PayRereads, IInv, CallsOK, CallOK
<1>2. /\ CallEnds(c) /\ secrets' = secrets \cup out
      /\ UNCHANGED <<chips, reissue_requests, intents, keys, incidents, appliers, admins, faults>>
  BY DEF PayRereads
<1>3. /\ out \in SUBSET Intents
      /\ \A j \in out : intents[j].row \in Rows /\ reissue_requests[intents[j].row].intent = j
  BY <1>1
<1> HIDE DEF out
<1>. QED
  BY <1>2, <1>3, HandOutKeeps

(* The key leads to the intent made under it, or a new one is made.        *)
LEMMA PayCreatesKeeps ==
    ASSUME IInv, NEW c \in Calls, PayCreates(c) PROVE IInv'
<1> DEFINE q == calls[c].row
<1>1. /\ calls[c].pc = "create" /\ calls[c] \in Call /\ CallOK(calls[c]) /\ q \in Rows
  BY DEF PayCreates, IInv, TypeOK, CallsOK, CallOK
<1>2. PICK i \in Intents :
         /\ \/ keys[q] = i /\ UNCHANGED <<intents, keys>>
            \/ /\ keys[q] = NoIntent
               /\ intents[i].state = "none"
               /\ intents' = [intents EXCEPT ![i].state = "open", ![i].row = q]
               /\ keys' = [keys EXCEPT ![q] = i]
         /\ calls' = [calls EXCEPT ![c].pc = "store", ![c].intent = i]
  BY DEF PayCreates
<1> DEFINE new == [intents[i] EXCEPT !.state = "open", !.row = q]
<1>3. PICK slot : slot = [calls[c] EXCEPT !.pc = "store", !.intent = i]
  OBVIOUS
<1>4. /\ slot \in Call /\ slot.pc = "store" /\ slot.row = q
      /\ slot.seen = calls[c].seen /\ slot.intent = i
      /\ calls' = [calls EXCEPT ![c] = slot]
  BY <1>1, <1>2, <1>3 DEF Call
<1>5. new \in Intent /\ new.state = "open" /\ new.row = q
  <2>1. intents[i] \in Intent
    BY Zenon DEF IInv, TypeOK
  <2>. QED
    BY <1>1, <2>1 DEF Intent
<1>6. \/ keys[q] = i /\ UNCHANGED <<intents, keys>>
      \/ /\ intents[i].state = "none"
         /\ intents' = [intents EXCEPT ![i] = new]
         /\ keys' = [keys EXCEPT ![q] = i]
  <2>1. [intents EXCEPT ![i].state = "open", ![i].row = q] = [intents EXCEPT ![i] = new]
    BY DEF IInv, TypeOK
  <2>. QED
    BY <1>2, <2>1, Zenon
<1>7. UNCHANGED <<chips, reissue_requests, secrets, incidents, appliers, admins, faults>>
  BY DEF PayCreates
<1> HIDE DEF new, q
<1>8. /\ intents' \in [Intents -> Intent] /\ keys' \in [Rows -> Intents \cup {NoIntent}]
      /\ IntentsForward
      /\ intents'[i].row = q /\ intents'[i].state # "none"
      /\ \A p \in Rows : keys'[p] \notin {keys[p], NoIntent} => p = q /\ keys'[p] = i
      /\ \A j \in Intents :
            /\ intents[j].state = "none" /\ intents'[j].state # "none" => intents'[j].row \in Rows
            /\ intents'[j].state = "succeeded" => intents[j].state = "succeeded"
  <2>1. CASE keys[q] = i /\ UNCHANGED <<intents, keys>>
    BY <1>1, <2>1, NullAssumption DEF IInv, TypeOK, IntentsOK, IntentsForward, q
  <2>2. CASE /\ intents[i].state = "none"
             /\ intents' = [intents EXCEPT ![i] = new]
             /\ keys' = [keys EXCEPT ![q] = i]
    <3>1. /\ intents' \in [Intents -> Intent] /\ keys' \in [Rows -> Intents \cup {NoIntent}]
          /\ intents'[i] = new /\ \A j \in Intents \ {i} : intents'[j] = intents[j]
          /\ keys'[q] = i /\ \A p \in Rows \ {q} : keys'[p] = keys[p]
      BY <1>1, <1>5, <2>2 DEF IInv, TypeOK, q
    <3>. QED
      BY <1>1, <1>5, <2>2, <3>1 DEF IntentsForward, q
  <2>. QED
    BY <1>6, <2>1, <2>2
<1>9. RowsForward /\ RowsFit' /\ OneOpen'
  BY <1>7, SameRows
<1>10. CallOK(slot)'
  BY <1>1, <1>4, <1>7, <1>8 DEF CallOK, q
<1>11. secrets \subseteq secrets' /\ secrets' \subseteq Intents /\ secrets' \ secrets = {}
  BY <1>7 DEF IInv, TypeOK
<1>12. \A p \in Rows :
          /\ reissue_requests'[p] = reissue_requests[p]
          /\ keys'[p] \notin {keys[p], NoIntent} =>
                intents'[keys'[p]].row = p /\ intents'[keys'[p]].state # "none"
  BY <1>7, <1>8
<1>. QED
  BY <1>4, <1>7, <1>8, <1>9, <1>10, <1>11, <1>12, CallKeeps

(* The only step that names an intent on a row, and only where none is.    *)
LEMMA PayStoresKeeps ==
    ASSUME IInv, NEW c \in Calls, PayStores(c) PROVE IInv'
<1> DEFINE q == calls[c].row
           i == calls[c].intent
           row == reissue_requests[q]
           new == [row EXCEPT !.intent = i]
<1>1. /\ calls[c].pc = "store" /\ q \in Rows /\ i \in Intents
      /\ intents[i].row = q /\ intents[i].state # "none"
      /\ UNCHANGED <<chips, intents, keys, incidents, appliers, admins, faults>>
  BY DEF PayStores, IInv, CallsOK, CallOK
<1>2. CASE /\ row.payment = "AWAITING_PAYMENT" /\ row.intent = NoIntent
           /\ Update(q, new)
           /\ secrets' = secrets \cup {i}
           /\ CallEnds(c)
  <2>1. RowFits(row)
    BY <1>1 DEF IInv, RowsFit
  <2>2. /\ RowFits(new) /\ RowMay(row, new) /\ new.tag = row.tag /\ new.intent = i
        /\ OpenRow(new) => OpenRow(row)
        /\ new.payment = "AWAITING_PAYMENT"
    BY <1>1, <1>2, <2>1 DEF RowFits, Row, RowMay, OpenRow
  <2>3. ~Locked(q) /\ reissue_requests' = [reissue_requests EXCEPT ![q] = new]
    BY <1>2 DEF Update
  <2> HIDE DEF new
  <2>4. /\ RowsForward /\ RowsFit' /\ OneOpen'
        /\ reissue_requests'[q] = new
        /\ \A p \in Rows \ {q} : reissue_requests'[p] = reissue_requests[p]
    BY <1>1, <2>2, <2>3, OneRow
  <2>5. IntentsForward /\ calls' = [calls EXCEPT ![c] = IdleCall]
    BY <1>1, <1>2, SameIntents DEF CallEnds
  <2>6. /\ intents' \in [Intents -> Intent] /\ keys' \in [Rows -> Intents \cup {NoIntent}]
        /\ secrets' \subseteq Intents
    BY <1>1, <1>2 DEF IInv, TypeOK
  <2> HIDE DEF q, i
  <2>7. \A p \in Rows :
           /\ Locked(p) => reissue_requests'[p] = reissue_requests[p]
           /\ reissue_requests'[p].payment = "PAID" => reissue_requests[p].payment = "PAID"
           /\ reissue_requests'[p].intent # reissue_requests[p].intent =>
                 /\ intents'[reissue_requests'[p].intent].row = p
                 /\ intents'[reissue_requests'[p].intent].state # "none"
    BY <1>1, <2>2, <2>3, <2>4
  <2>8. \A j \in secrets' \ secrets :
           intents'[j].row \in Rows /\ reissue_requests'[intents'[j].row].intent = j
    BY <1>1, <1>2, <2>2, <2>4
  <2>9. \A p \in Rows :
           /\ Locked(p) => reissue_requests'[p] = reissue_requests[p]
           /\ reissue_requests'[p].payment = "PAID" => reissue_requests[p].payment = "PAID"
           /\ reissue_requests'[p].intent # reissue_requests[p].intent =>
                 /\ intents'[reissue_requests'[p].intent].row = p
                 /\ intents'[reissue_requests'[p].intent].state # "none"
           /\ keys'[p] \notin {keys[p], NoIntent} =>
                 intents'[keys'[p]].row = p /\ intents'[keys'[p]].state # "none"
    BY <1>1, <2>7
  <2>10. /\ secrets \subseteq secrets'
         /\ \A j \in Intents :
              /\ intents[j].state = "none" /\ intents'[j].state # "none" => intents'[j].row \in Rows
              /\ intents'[j].state = "succeeded" => intents[j].state = "succeeded"
    BY <1>1, <1>2
  <2>. QED
    BY <1>1, <2>4, <2>5, <2>6, <2>8, <2>9, <2>10, IdleCallOK, CallKeeps
<1>3. CASE CallGoesTo(c, "reread") /\ UNCHANGED <<reissue_requests, secrets>>
  <2>1. PICK slot \in Call : CallOK(slot) /\ calls' = [calls EXCEPT ![c] = slot]
    BY <1>1, <1>3, NextPc
  <2>. QED
    BY <1>1, <1>3, <2>1, SlotOnlyCall DEF stripe
<1>. QED
  BY <1>2, <1>3 DEF PayStores

LEMMA CancelAtStripeKeeps ==
    ASSUME IInv, NEW c \in Calls, CancelAtStripe(c) PROVE IInv'
<1> DEFINE i == calls[c].seen.intent
<1>1. calls[c].pc = "stripe_cancel" /\ i \in Intents /\ intents[i].state # "none"
  <2>1. calls[c].pc = "stripe_cancel"
    BY DEF CancelAtStripe
  <2>2. calls[c].row \in Rows /\ i # NoIntent /\ reissue_requests[calls[c].row].intent = i
    BY <2>1 DEF IInv, CallsOK, CallOK
  <2>. QED
    BY <2>1, <2>2, OnRow
<1>2. UNCHANGED <<chips, reissue_requests, keys, secrets, incidents, appliers, admins, faults>>
  BY DEF CancelAtStripe
<1>3. CASE CallEnds(c) /\ UNCHANGED intents
  BY <1>2, <1>3, IdleCallOK, SlotOnlyCall DEF CallEnds, stripe
<1>4. CASE /\ intents[i].state # "succeeded"
           /\ intents' = [intents EXCEPT ![i].state = "canceled"]
           /\ CallGoesTo(c, "update")
  <2> DEFINE new == [intents[i] EXCEPT !.state = "canceled"]
  <2>1. PICK slot \in Call : CallOK(slot) /\ calls' = [calls EXCEPT ![c] = slot]
    BY <1>1, <1>4, NextPc
  <2>2. new \in Intent /\ new.state = "canceled" /\ new.row = intents[i].row
    BY <1>1 DEF IInv, TypeOK, Intent
  <2>3. intents' = [intents EXCEPT ![i] = new]
    BY <1>4
  <2> HIDE DEF new, i
  <2>4. /\ intents' \in [Intents -> Intent] /\ intents'[i] = new
        /\ \A j \in Intents \ {i} : intents'[j] = intents[j]
    BY <1>1, <2>2, <2>3 DEF IInv, TypeOK
  <2>5. /\ IntentsForward
        /\ \A j \in Intents :
              /\ intents[j].state = "none" /\ intents'[j].state # "none" => intents'[j].row \in Rows
              /\ intents'[j].state = "succeeded" => intents[j].state = "succeeded"
    BY <1>1, <1>4, <2>2, <2>4 DEF IntentsForward
  <2>6. RowsForward /\ RowsFit' /\ OneOpen'
    BY <1>2, SameRows
  <2>7. CallOK(slot)'
    BY <2>1, <2>5, <2>6, CallStays DEF Forward
  <2>8. /\ keys' \in [Rows -> Intents \cup {NoIntent}]
        /\ secrets \subseteq secrets' /\ secrets' \subseteq Intents /\ secrets' \ secrets = {}
    BY <1>2 DEF IInv, TypeOK
  <2>. QED
    BY <1>2, <2>1, <2>4, <2>5, <2>6, <2>7, <2>8, CallKeeps
<1>. QED
  BY <1>3, <1>4 DEF CancelAtStripe

(* A call changes one row, and not its payment or its intent, and ends.    *)
LEMMA RowCallKeeps ==
    ASSUME IInv, NEW c \in Calls, CallEnds(c), NEW q \in Rows, ~Locked(q),
           RowsForward, RowsFit', OneOpen',
           reissue_requests'[q].payment = reissue_requests[q].payment,
           reissue_requests'[q].intent = reissue_requests[q].intent,
           \A p \in Rows \ {q} : reissue_requests'[p] = reissue_requests[p],
           UNCHANGED <<chips, stripe, incidents, appliers, admins, faults>>
    PROVE  IInv'
<1>1. IntentsForward /\ calls' = [calls EXCEPT ![c] = IdleCall]
  BY SameIntents DEF CallEnds, stripe
<1>2. /\ intents' \in [Intents -> Intent] /\ keys' \in [Rows -> Intents \cup {NoIntent}]
      /\ secrets \subseteq secrets' /\ secrets' \subseteq Intents /\ secrets' \ secrets = {}
  BY DEF IInv, TypeOK, stripe
<1>3. \A p \in Rows :
         /\ Locked(p) => reissue_requests'[p] = reissue_requests[p]
         /\ reissue_requests'[p].payment = reissue_requests[p].payment
         /\ reissue_requests'[p].intent = reissue_requests[p].intent
  OBVIOUS
<1>. QED
  BY <1>1, <1>2, <1>3, IdleCallOK, CallKeeps DEF stripe

(* Neither a paid nor a waived request is cancelled: the call read it      *)
(* before, and the update compares what it read.                           *)
LEMMA CancelUpdatesKeeps ==
    ASSUME IInv, NEW c \in Calls, CancelUpdates(c) PROVE IInv'
<1> DEFINE q == calls[c].row
           row == reissue_requests[q]
           new == [row EXCEPT !.status = "CANCELLED"]
<1>1. /\ calls[c].pc = "update" /\ q \in Rows /\ CallEnds(c)
      /\ \/ calls[c].seen.status = "PENDING"
         \/ calls[c].seen.status = "APPROVED" /\ calls[c].seen.payment = "AWAITING_PAYMENT"
      /\ UNCHANGED <<chips, stripe, incidents, appliers, admins, faults>>
  BY DEF CancelUpdates, IInv, CallsOK, CallOK
<1>2. CASE UNCHANGED reissue_requests
  BY <1>1, <1>2, IdleCallOK, SlotOnlyCall DEF CallEnds
<1>3. CASE /\ row.status = calls[c].seen.status /\ row.payment = calls[c].seen.payment
           /\ Update(q, new)
  <2>1. RowFits(row)
    BY <1>1 DEF IInv, RowsFit
  <2>2. row.payment \notin {"PAID", "WAIVED"}
    BY <1>1, <1>3, <2>1 DEF RowFits
  <2>3. /\ RowFits(new) /\ RowMay(row, new) /\ new.tag = row.tag
        /\ ~OpenRow(new)
        /\ new.payment = row.payment /\ new.intent = row.intent
    <3>1. row \in Row
      BY <2>1 DEF RowFits
    <3>2. /\ new \in Row /\ new.status = "CANCELLED"
          /\ new.payment = row.payment /\ new.intent = row.intent /\ new.tag = row.tag
          /\ new.requester = row.requester /\ new.new_tag = row.new_tag
      BY <3>1 DEF Row, Status
    <3>3. new.tag \in Tags /\ new.requester \in Users
      BY <1>1, <1>3, <2>1, <3>2 DEF RowFits
    <3> HIDE DEF new
    <3>. QED
      BY <2>1, <2>2, <3>2, <3>3 DEF RowFits, RowMay, OpenRow
  <2>4. ~Locked(q) /\ reissue_requests' = [reissue_requests EXCEPT ![q] = new]
    BY <1>3 DEF Update
  <2> HIDE DEF new
  <2>5. /\ RowsForward /\ RowsFit' /\ OneOpen'
        /\ reissue_requests'[q] = new
        /\ \A p \in Rows \ {q} : reissue_requests'[p] = reissue_requests[p]
    BY <1>1, <2>3, <2>4, OneRow
  <2> HIDE DEF q
  <2>. QED
    BY <1>1, <2>3, <2>4, <2>5, RowCallKeeps
<1>. QED
  BY <1>2, <1>3 DEF CancelUpdates

LEMMA RequestInsertsKeeps ==
    ASSUME IInv, NEW c \in Calls, RequestInserts(c) PROVE IInv'
<1> DEFINE q == calls[c].row
           row == reissue_requests[q]
           new == calls[c].seen
<1>1. /\ calls[c].pc = "insert" /\ q \in Rows /\ CallEnds(c) /\ row.status = "NONE"
      /\ reissue_requests' = [reissue_requests EXCEPT ![q] = new]
      /\ \A p \in Rows : Open(p) => reissue_requests[p].tag # new.tag
      /\ UNCHANGED <<chips, stripe, incidents, appliers, admins, faults>>
  BY DEF RequestInserts, IInv, CallsOK, CallOK
<1>2. /\ new \in Row /\ new.status = "PENDING" /\ new.payment = "NULL"
      /\ new.intent = NoIntent /\ new.new_tag = NoTag
      /\ new.tag \in Tags /\ new.requester \in Users
  BY <1>1 DEF IInv, TypeOK, Call, CallsOK, CallOK
<1>3. RowFits(row)
  BY <1>1 DEF IInv, RowsFit
<1>4. RowFits(new) /\ RowMay(row, new) /\ row.payment = "NULL" /\ row.intent = NoIntent
  BY <1>1, <1>2, <1>3 DEF RowFits, RowMay
<1> HIDE DEF new, q
<1>5. /\ reissue_requests' \in [Rows -> Row] /\ reissue_requests'[q] = new
      /\ \A p \in Rows \ {q} : reissue_requests'[p] = reissue_requests[p]
  BY <1>1, <1>2 DEF IInv, TypeOK
<1>6. RowsForward
  BY <1>4, <1>5 DEF RowsForward, RowMay
<1>7. RowsFit'
  <2>1. \A p \in Rows : RowFits(reissue_requests'[p])
    BY <1>4, <1>5 DEF IInv, RowsFit
  <2>. QED
    BY <1>5, <2>1 DEF RowsFit, RowFits
<1>8. OneOpen'
  <2>1. \A p \in Rows \ {q} : Open(p)' => Open(p) /\ reissue_requests'[p].tag = reissue_requests[p].tag
    BY <1>5 DEF Open
  <2>2. ASSUME NEW p \in Rows, NEW o \in Rows, Open(p)', Open(o)',
               reissue_requests'[p].tag = reissue_requests'[o].tag
        PROVE  p = o
    <3>1. CASE p # q /\ o # q
      BY <2>1, <2>2, <3>1 DEF IInv, TypeOK
    <3>2. CASE p = q \/ o = q
      BY <1>1, <1>5, <2>1, <2>2, <3>2
    <3>. QED
      BY <3>1, <3>2
  <2>. QED
    BY <2>2 DEF OneOpen
<1>9. ~Locked(q)
  <2>1. row.payment \notin {"PAID", "WAIVED"}
    BY <1>4
  <2>. QED
    BY <2>1 DEF IInv, AdminsOK, AdminOK, Locked
<1>. QED
  BY <1>1, <1>2, <1>4, <1>5, <1>6, <1>7, <1>8, <1>9, RowCallKeeps

-----------------------------------------------------------------------------
(* Review, Stripe and the chips: no slot changes.                          *)

LEMMA OutsideKeeps ==
    ASSUME IInv, UNCHANGED <<secrets, incidents, calls, appliers, admins, faults>>,
           (nfc_tags \in [Tags -> Chip])', (pending \subseteq Tags)', (moves \in 0..MaxMoves)',
           RowsForward, RowsFit', OneOpen',
           \A q \in Rows :
              /\ Locked(q) => reissue_requests'[q] = reissue_requests[q]
              /\ reissue_requests'[q].payment = "PAID" => reissue_requests[q].payment = "PAID"
              /\ reissue_requests'[q].intent = reissue_requests[q].intent
              /\ keys'[q] \in {keys[q], NoIntent},
           keys' \in [Rows -> Intents \cup {NoIntent}],
           IntentsForward, intents' \in [Intents -> Intent],
           \A i \in Intents :
              /\ intents[i].state = "none" => intents'[i].state = "none"
              /\ intents'[i].state = "succeeded" => intents[i].state = "succeeded" \/ i \in secrets
    PROVE  IInv'
<1>1. Forward
  BY DEF Forward
<1>2. TypeOK'
  BY TypeStep DEF IInv, TypeOK
<1>3. IntentsOK'
  BY <1>1, <1>2, IntentsStable
<1>4. SecretsOK'
  BY <1>1, SecretsStable
<1>5. CallsOK' /\ AppliersOK'
  BY <1>1, SameCalls, SameAppliers
<1>6. AdminsOK'
  BY <1>1, SameAdmins
<1>7. PaidByItsIntent'
  BY <1>1, <1>2, <1>4, PaidStable
<1>. QED
  BY <1>2, <1>3, <1>4, <1>5, <1>6, <1>7 DEF IInv

LEMMA ReviewKeeps ==
    ASSUME IInv, NEW q \in Rows, NEW approve \in BOOLEAN, NEW waive \in BOOLEAN,
           admin_review_reissue(q, approve, waive)
    PROVE  IInv'
<1> DEFINE row == reissue_requests[q]
<1>1. PICK status \in {"APPROVED", "REJECTED"}, payment \in {"NULL", "WAIVED", "AWAITING_PAYMENT"} :
         /\ status = "APPROVED" => payment # "NULL"
         /\ status = "REJECTED" => payment = row.payment
         /\ ~Locked(q)
         /\ reissue_requests' = [reissue_requests EXCEPT ![q] =
               [row EXCEPT !.status = status, !.payment = payment]]
  <2>1. RowFits(row) /\ row.status = "PENDING"
    BY DEF IInv, RowsFit, admin_review_reissue
  <2>2. row.payment = "NULL" /\ row \in Row
    BY <2>1 DEF RowFits
  <2>3. CASE Update(q, [row EXCEPT !.status = "APPROVED",
                          !.payment = IF waive THEN "WAIVED" ELSE "AWAITING_PAYMENT"])
    BY <2>3 DEF Update
  <2>4. CASE Update(q, [row EXCEPT !.status = "REJECTED"])
    <3>1. [row EXCEPT !.status = "REJECTED"] = [row EXCEPT !.status = "REJECTED", !.payment = "NULL"]
      BY <2>2 DEF Row
    <3>. QED
      BY <3>1, <2>2, <2>4 DEF Update
  <2>. QED
    BY <2>3, <2>4 DEF admin_review_reissue
<1> DEFINE new == [row EXCEPT !.status = status, !.payment = payment]
<1>2. RowFits(row) /\ row.status = "PENDING"
  BY DEF IInv, RowsFit, admin_review_reissue
<1>3. /\ new \in Row /\ new.status = status /\ new.payment = payment
      /\ new.intent = row.intent /\ new.tag = row.tag
      /\ new.requester = row.requester /\ new.new_tag = row.new_tag
  BY <1>2 DEF RowFits, Row, Status, Payment
<1>4. row.payment = "NULL" /\ row.intent = NoIntent /\ row.new_tag = NoTag
  BY <1>2 DEF RowFits
<1> HIDE DEF new
<1>5. RowFits(new) /\ RowMay(row, new) /\ (OpenRow(new) => OpenRow(row))
  BY <1>1, <1>2, <1>3, <1>4 DEF RowFits, RowMay, OpenRow
<1>6. reissue_requests' = [reissue_requests EXCEPT ![q] = new]
  BY <1>1 DEF new
<1>7. /\ RowsForward /\ RowsFit' /\ OneOpen'
      /\ reissue_requests'[q] = new
      /\ \A p \in Rows \ {q} : reissue_requests'[p] = reissue_requests[p]
  BY <1>3, <1>5, <1>6, OneRow
<1>8. UNCHANGED <<chips, stripe, incidents, calls, appliers, admins, faults>>
  BY DEF admin_review_reissue
<1>9. \A p \in Rows :
         /\ Locked(p) => reissue_requests'[p] = reissue_requests[p]
         /\ reissue_requests'[p].payment = "PAID" => reissue_requests[p].payment = "PAID"
         /\ reissue_requests'[p].intent = reissue_requests[p].intent
  BY <1>1, <1>3, <1>7
<1>. QED
  BY <1>7, <1>8, <1>9, SameIntents, OutsideKeeps DEF IInv, TypeOK, chips, stripe

LEMMA ForgetKeyKeeps ==
    ASSUME IInv, NEW q \in Rows, ForgetKey(q) PROVE IInv'
<1>1. /\ keys' = [keys EXCEPT ![q] = NoIntent]
      /\ UNCHANGED <<chips, reissue_requests, intents, secrets, incidents, calls, appliers, admins, faults>>
  BY DEF ForgetKey
<1>2. /\ keys' \in [Rows -> Intents \cup {NoIntent}]
      /\ \A p \in Rows : keys'[p] \in {keys[p], NoIntent}
  BY <1>1 DEF IInv, TypeOK
<1>3. RowsForward /\ RowsFit' /\ OneOpen' /\ IntentsForward
  BY <1>1, SameRows, SameIntents
<1>4. /\ nfc_tags' \in [Tags -> Chip] /\ pending' \subseteq Tags /\ moves' \in 0..MaxMoves
      /\ intents' \in [Intents -> Intent]
  BY <1>1 DEF IInv, TypeOK, chips
<1>. QED
  BY <1>1, <1>2, <1>3, <1>4, OutsideKeeps

LEMMA PayIntentKeeps ==
    ASSUME IInv, NEW i \in Intents, PayIntent(i) PROVE IInv'
<1> DEFINE new == [intents[i] EXCEPT !.state = "succeeded"]
<1>1. /\ i \in secrets /\ intents[i].state = "open"
      /\ intents' = [intents EXCEPT ![i] = new]
      /\ UNCHANGED <<chips, reissue_requests, keys, secrets, incidents, calls, appliers, admins, faults>>
  BY DEF PayIntent
<1>2. new \in Intent /\ new.state = "succeeded" /\ new.row = intents[i].row
  BY DEF IInv, TypeOK, Intent
<1> HIDE DEF new
<1>3. /\ intents' \in [Intents -> Intent] /\ intents'[i] = new
      /\ \A j \in Intents \ {i} : intents'[j] = intents[j]
  BY <1>1, <1>2 DEF IInv, TypeOK
<1>4. /\ IntentsForward
      /\ \A j \in Intents :
            /\ intents[j].state = "none" => intents'[j].state = "none"
            /\ intents'[j].state = "succeeded" => intents[j].state = "succeeded" \/ j \in secrets
  BY <1>1, <1>2, <1>3 DEF IntentsForward
<1>5. RowsForward /\ RowsFit' /\ OneOpen'
  BY <1>1, SameRows
<1>6. /\ nfc_tags' \in [Tags -> Chip] /\ pending' \subseteq Tags /\ moves' \in 0..MaxMoves
      /\ keys' \in [Rows -> Intents \cup {NoIntent}]
  BY <1>1 DEF IInv, TypeOK, chips
<1>. QED
  BY <1>1, <1>3, <1>4, <1>5, <1>6, OutsideKeeps

(* Whatever happens to the chips, no request and no payment changes.       *)
LEMMA ChipsKeep ==
    ASSUME IInv, nfc_tags' \in [Tags -> Chip], pending' \subseteq Tags, moves' \in 0..MaxMoves,
           UNCHANGED <<reissue_requests, stripe, incidents, calls, appliers, admins, faults>>
    PROVE  IInv'
<1>1. RowsForward /\ RowsFit' /\ OneOpen' /\ IntentsForward
  BY SameRows, SameIntents DEF stripe
<1>2. intents' \in [Intents -> Intent] /\ keys' \in [Rows -> Intents \cup {NoIntent}]
  BY DEF IInv, TypeOK, stripe
<1>. QED
  BY <1>1, <1>2, OutsideKeeps DEF stripe

LEMMA MovesKeep ==
    ASSUME IInv, NEW t \in Tags,
           \/ InitiateTransfer(t) \/ Release(t) \/ Suspend(t)
           \/ \E u \in Users : EndTransfer(t, u) \/ Claim(t, u)
    PROVE  IInv'
<1>1. /\ nfc_tags[t] \in Chip /\ nfc_tags \in [Tags -> Chip]
      /\ pending \subseteq Tags /\ moves \in 0..MaxMoves
  BY DEF IInv, TypeOK
<1>2. /\ \A u \in Users : [status |-> "ACTIVE", owner |-> u] \in Chip
      /\ [status |-> "RELEASED", owner |-> NoUser] \in Chip
      /\ [nfc_tags[t] EXCEPT !.status = "SUSPENDED"] \in Chip
      /\ \A u \in Users : [nfc_tags[t] EXCEPT !.owner = u] \in Chip
  BY <1>1 DEF Chip
<1>3. nfc_tags' \in [Tags -> Chip]
  BY <1>1, <1>2 DEF InitiateTransfer, Release, Suspend, EndTransfer, Claim
<1>4. /\ pending' \subseteq Tags /\ moves' \in 0..MaxMoves
      /\ UNCHANGED <<reissue_requests, stripe, incidents, calls, appliers, admins, faults>>
  BY <1>1, BoundAssumption DEF InitiateTransfer, Release, Suspend, EndTransfer, Claim, Moves
<1>. QED
  BY <1>3, <1>4, ChipsKeep

-----------------------------------------------------------------------------
(* The fee is applied, or not.                                             *)

(* What a step of an applier or of the queue may do to the rows and to the *)
(* incidents.                                                              *)
FeeStep ==
    /\ RowsForward /\ RowsFit' /\ OneOpen'
    /\ \A q \in Rows :
          /\ Locked(q) => reissue_requests'[q] = reissue_requests[q]
          /\ reissue_requests'[q].intent = reissue_requests[q].intent
          /\ reissue_requests'[q].payment = "PAID" /\ reissue_requests[q].payment # "PAID" =>
                /\ reissue_requests'[q].intent \in Intents
                /\ intents'[reissue_requests'[q].intent].state = "succeeded"
    /\ incidents' \in [Intents -> {"none", "OPEN", "RESOLVED", "REFUNDED"}]
    /\ \A i \in Intents :
          /\ incidents'[i] # "none" => incidents[i] # "none" \/ intents[i].state = "succeeded"
          /\ incidents'[i] = "RESOLVED" /\ incidents[i] # "RESOLVED" => AppliedBy(i)'

LEMMA NoFee ==
    ASSUME IInv, UNCHANGED reissue_requests,
           incidents' \in [Intents -> {"none", "OPEN", "RESOLVED", "REFUNDED"}],
           \A i \in Intents :
              /\ incidents'[i] # "none" => incidents[i] # "none" \/ intents[i].state = "succeeded"
              /\ incidents'[i] = "RESOLVED" /\ incidents[i] # "RESOLVED" => AppliedBy(i)'
    PROVE  FeeStep
<1>1. RowsForward /\ RowsFit' /\ OneOpen'
  BY SameRows
<1>. QED
  BY <1>1 DEF FeeStep

(* A fee is applied only to the row that names the intent, still waits for *)
(* its payment, and is not held by a fulfilment.                           *)
LEMMA ApplyFeeStep ==
    ASSUME IInv, NEW i \in Intents, intents[i].state = "succeeded",
           UNCHANGED intents, apply_reissue_fee(i)
    PROVE  FeeStep /\ (Settled(ApplyOutcome(i)) => AppliedBy(i)')
<1> DEFINE q == intents[i].row
           row == reissue_requests[q]
           new == [row EXCEPT !.payment = "PAID"]
<1>1. q \in Rows /\ ~Locked(q) /\ i # NoIntent /\ RowFits(row)
  BY NullAssumption DEF apply_reissue_fee, IInv, IntentsOK, RowsFit
<1>2. /\ incidents' \in [Intents -> {"none", "OPEN", "RESOLVED", "REFUNDED"}]
      /\ \A j \in Intents :
            /\ incidents'[j] # "none" => incidents[j] # "none"
            /\ incidents'[j] = "RESOLVED" /\ incidents[j] # "RESOLVED" =>
                  j = i /\ Settled(ApplyOutcome(i))
  BY DEF apply_reissue_fee, IInv, TypeOK
<1>3. CASE ApplyOutcome(i) = "applied"
  <2>1. row.intent = i /\ row.status = "APPROVED" /\ row.payment = "AWAITING_PAYMENT"
    BY <1>3 DEF ApplyOutcome
  <2>2. reissue_requests' = [reissue_requests EXCEPT ![q] = new]
    BY <1>3 DEF apply_reissue_fee
  <2>3. /\ new \in Row /\ new.status = "APPROVED" /\ new.payment = "PAID"
        /\ new.intent = i /\ new.tag = row.tag
        /\ new.requester = row.requester /\ new.new_tag = row.new_tag
    BY <1>1, <2>1 DEF RowFits, Row, Payment
  <2> HIDE DEF new
  <2>4. RowFits(new) /\ RowMay(row, new) /\ (OpenRow(new) => OpenRow(row))
    BY <1>1, <2>1, <2>3 DEF RowFits, RowMay, OpenRow
  <2>5. /\ RowsForward /\ RowsFit' /\ OneOpen'
        /\ reissue_requests'[q] = new
        /\ \A p \in Rows \ {q} : reissue_requests'[p] = reissue_requests[p]
    BY <1>1, <2>2, <2>3, <2>4, OneRow
  <2>6. AppliedBy(i)'
    BY <2>3, <2>5 DEF AppliedBy
  <2>. QED
    BY <1>1, <1>2, <2>1, <2>3, <2>5, <2>6 DEF FeeStep
<1>4. CASE ApplyOutcome(i) # "applied"
  <2>1. UNCHANGED reissue_requests
    BY <1>4 DEF apply_reissue_fee
  <2>2. Settled(ApplyOutcome(i)) => AppliedBy(i)
    BY <1>4 DEF Settled, ApplyOutcome, AppliedBy
  <2>3. Settled(ApplyOutcome(i)) => AppliedBy(i)'
    BY <2>1, <2>2 DEF AppliedBy
  <2>. QED
    BY <1>2, <2>1, <2>3, NoFee
<1>. QED
  BY <1>3, <1>4

(* What a step of an applier has to show.                                  *)
LEMMA ApplierKeeps ==
    ASSUME IInv, NEW a \in Appliers, NEW slot \in Applier,
           appliers' = [appliers EXCEPT ![a] = slot], ApplierOK(slot)',
           UNCHANGED <<chips, stripe, calls, admins>>, faults' \in 0..MaxFaults,
           FeeStep
    PROVE  IInv'
<1>1. Forward
  BY SameIntents DEF Forward, FeeStep, stripe
<1>2. appliers' \in [Appliers -> Applier] /\ AppliersOK'
  BY <1>1, AppliersStep
<1>3. TypeOK'
  BY <1>2, TypeStep DEF IInv, TypeOK, chips, stripe, FeeStep
<1>4. IntentsOK'
  BY <1>1, <1>3, IntentsStable DEF stripe, FeeStep
<1>5. SecretsOK'
  BY <1>1, SecretsStable DEF stripe, FeeStep
<1>6. CallsOK'
  BY <1>1, SameCalls
<1>7. AdminsOK'
  BY <1>1, SameAdmins DEF FeeStep
<1>8. PaidByItsIntent'
  BY <1>1, <1>3, <1>5, PaidStable DEF FeeStep
<1>. QED
  BY <1>2, <1>3, <1>4, <1>5, <1>6, <1>7, <1>8 DEF IInv, FeeStep

LEMMA IdleApplierOK == IdleApplier \in Applier /\ ApplierOK(IdleApplier)'
<1>1. IdleApplier \in Applier /\ IdleApplier.pc = "idle"
  BY DEF IdleApplier, Applier
<1>. QED
  BY <1>1 DEF ApplierOK

LEMMA AbortApplierKeeps ==
    ASSUME IInv, NEW a \in Appliers, AbortApplier(a) PROVE IInv'
<1>1. /\ appliers' = [appliers EXCEPT ![a] = IdleApplier]
      /\ UNCHANGED <<chips, reissue_requests, stripe, incidents, calls, admins, faults>>
  BY DEF AbortApplier, ApplierEnds
<1>2. FeeStep /\ faults' \in 0..MaxFaults
  BY <1>1, NoFee DEF IInv, TypeOK
<1>. QED
  BY <1>1, <1>2, IdleApplierOK, ApplierKeeps

LEMMA StartApplyKeeps ==
    ASSUME IInv, NEW a \in Appliers, NEW i \in Intents, DeliverWebhook(a, i) \/ SweepLists(a, i)
    PROVE  IInv'
<1>1. PICK slot \in Applier :
         slot.intent = i /\ slot.report = "none" /\ appliers' = [appliers EXCEPT ![a] = slot]
  <2>1. CASE DeliverWebhook(a, i)
    <3> DEFINE s == [IdleApplier EXCEPT !.pc = "rpc", !.intent = i]
    <3>1. s \in Applier /\ s.intent = i /\ s.report = "none"
      BY DEF IdleApplier, Applier
    <3>2. appliers' = [appliers EXCEPT ![a] = s]
      BY <2>1 DEF DeliverWebhook
    <3>. QED
      BY <3>1, <3>2
  <2>2. CASE SweepLists(a, i)
    <3> DEFINE s == [IdleApplier EXCEPT !.pc = "rpc", !.source = "sweep", !.intent = i]
    <3>1. s \in Applier /\ s.intent = i /\ s.report = "none"
      BY DEF IdleApplier, Applier
    <3>2. appliers' = [appliers EXCEPT ![a] = s]
      BY <2>2 DEF SweepLists
    <3>. QED
      BY <3>1, <3>2
  <2>. QED
    BY <2>1, <2>2
<1>2. /\ intents[i].state = "succeeded"
      /\ UNCHANGED <<chips, reissue_requests, stripe, incidents, calls, admins, faults>>
  BY DEF DeliverWebhook, SweepLists
<1>3. ApplierOK(slot)'
  BY <1>1, <1>2 DEF ApplierOK, stripe
<1>4. FeeStep /\ faults' \in 0..MaxFaults
  BY <1>2, NoFee DEF IInv, TypeOK
<1>. QED
  BY <1>1, <1>2, <1>3, <1>4, ApplierKeeps

(* The outcome that is reported is what the call did; "RESOLVED" only of a *)
(* payment that settled its request.                                       *)
LEMMA ApplyFeeKeeps ==
    ASSUME IInv, NEW a \in Appliers, ApplyFee(a) PROVE IInv'
<1>0. PICK i : i = appliers[a].intent
  OBVIOUS
<1>1. /\ appliers[a].pc = "rpc" /\ appliers[a] \in Applier
      /\ i \in Intents /\ intents[i].state = "succeeded"
      /\ UNCHANGED <<chips, stripe, calls, admins>>
  BY <1>0 DEF ApplyFee, IInv, TypeOK, AppliersOK, ApplierOK
<1>2. UNCHANGED intents
  BY <1>1 DEF stripe
<1>3. ASSUME NEW report \in {"OPEN", "RESOLVED"}, ApplierGoes(a, "record", report),
             FeeStep, faults' \in 0..MaxFaults,
             report = "RESOLVED" => AppliedBy(i)'
      PROVE  IInv'
  <2>1. PICK slot : slot = [appliers[a] EXCEPT !.pc = "record", !.report = report]
    OBVIOUS
  <2>2. slot \in Applier /\ slot.intent = i /\ slot.report = report
    BY <1>0, <1>1, <2>1 DEF Applier
  <2>3. appliers' = [appliers EXCEPT ![a] = slot]
    BY <1>3, <2>1 DEF ApplierGoes
  <2>4. ApplierOK(slot)'
    BY <1>1, <1>2, <1>3, <2>2 DEF ApplierOK, AppliedBy
  <2>. QED
    BY <1>1, <1>3, <2>2, <2>3, <2>4, ApplierKeeps
<1>4. ASSUME FeeStep, ApplierEnds(a), faults' \in 0..MaxFaults PROVE IInv'
  <2>1. appliers' = [appliers EXCEPT ![a] = IdleApplier]
    BY <1>4 DEF ApplierEnds
  <2>. QED
    BY <1>1, <1>4, <2>1, IdleApplierOK, ApplierKeeps
<1>5. CASE apply_reissue_fee(i) /\ UNCHANGED faults
  <2>1. FeeStep /\ (Settled(ApplyOutcome(i)) => AppliedBy(i)')
    BY <1>1, <1>2, <1>5, ApplyFeeStep
  <2>2. faults' \in 0..MaxFaults
    BY <1>5 DEF IInv, TypeOK
  <2>3. \/ ApplierGoes(a, "record", "OPEN")
        \/ ApplierGoes(a, "record", "RESOLVED") /\ Settled(ApplyOutcome(i))
        \/ ApplierEnds(a)
        \/ faults' = faults + 1
    BY <1>0 DEF ApplyFee, Settled
  <2>4. faults' # faults + 1
    BY <1>5, BoundAssumption DEF IInv, TypeOK
  <2>. QED
    BY <1>3, <1>4, <2>1, <2>2, <2>3, <2>4
<1>6. CASE /\ faults < MaxFaults /\ faults' = faults + 1
           /\ apply_reissue_fee(i) \/ UNCHANGED <<reissue_requests, incidents>>
           /\ ApplierGoes(a, "record", "OPEN")
  <2>1. CASE apply_reissue_fee(i)
    BY <1>1, <1>2, <2>1, <1>3, <1>6, ApplyFeeStep, BoundAssumption DEF IInv, TypeOK
  <2>2. CASE UNCHANGED <<reissue_requests, incidents>>
    <3>1. FeeStep
      BY <2>2, NoFee DEF IInv, TypeOK
    <3>. QED
      BY <3>1, <1>3, <1>6, BoundAssumption DEF IInv, TypeOK
  <2>. QED
    BY <1>6, <2>1, <2>2
<1>. QED
  BY <1>0, <1>5, <1>6 DEF ApplyFee

LEMMA RecordIncidentKeeps ==
    ASSUME IInv, NEW a \in Appliers, RecordIncident(a) PROVE IInv'
<1>0. PICK i : i = appliers[a].intent
  OBVIOUS
<1>1. /\ appliers[a].pc = "record" /\ appliers[a].report \in {"none", "OPEN", "RESOLVED"}
      /\ i \in Intents /\ intents[i].state = "succeeded"
      /\ appliers[a].report = "RESOLVED" => AppliedBy(i)
      /\ appliers' = [appliers EXCEPT ![a] = IdleApplier]
      /\ UNCHANGED <<chips, reissue_requests, stripe, calls, admins, faults>>
  BY <1>0 DEF RecordIncident, ApplierEnds, IInv, TypeOK, Applier, AppliersOK, ApplierOK
<1>2. incidents' \in {incidents, [incidents EXCEPT ![i] = appliers[a].report]}
  BY <1>0 DEF RecordIncident
<1>3. appliers[a].report = "RESOLVED" => AppliedBy(i)'
  BY <1>1 DEF AppliedBy, stripe
<1>4. /\ incidents' \in [Intents -> {"none", "OPEN", "RESOLVED", "REFUNDED"}]
      /\ \A j \in Intents :
            /\ incidents'[j] # "none" => incidents[j] # "none" \/ j = i
            /\ incidents'[j] = "RESOLVED" /\ incidents[j] # "RESOLVED" =>
                  j = i /\ appliers[a].report = "RESOLVED"
  BY <1>1, <1>2 DEF IInv, TypeOK
<1>5. FeeStep /\ faults' \in 0..MaxFaults
  BY <1>1, <1>3, <1>4, NoFee DEF IInv, TypeOK
<1>. QED
  BY <1>1, <1>5, IdleApplierOK, ApplierKeeps

-----------------------------------------------------------------------------
(* The queue and the fulfilment.                                           *)

(* What a step of an admin has to show.                                    *)
LEMMA AdminKeeps ==
    ASSUME IInv, NEW d \in Admins, NEW slot \in Admin,
           admins' = [admins EXCEPT ![d] = slot], AdminOK(slot)',
           UNCHANGED <<pending, moves, keys, secrets, calls, appliers, faults>>,
           nfc_tags' \in [Tags -> Chip],
           IntentsForward, intents' \in [Intents -> Intent],
           \A i \in Intents : intents'[i].state = intents[i].state,
           RowsForward, RowsFit', OneOpen',
           \A q \in Rows :
              /\ reissue_requests'[q].intent = reissue_requests[q].intent
              /\ reissue_requests'[q].payment = "PAID" /\ reissue_requests[q].payment # "PAID" =>
                    /\ reissue_requests'[q].intent \in Intents
                    /\ intents'[reissue_requests'[q].intent].state = "succeeded",
           \A e \in Admins \ {d} : admins[e].pc = "reset" =>
              /\ reissue_requests'[admins[e].row] = reissue_requests[admins[e].row]
              /\ slot.pc = "reset" => slot.row # admins[e].row,
           incidents' \in [Intents -> {"none", "OPEN", "RESOLVED", "REFUNDED"}],
           \A i \in Intents :
              /\ incidents'[i] # "none" => incidents[i] # "none"
              /\ incidents'[i] = "RESOLVED" /\ incidents[i] # "RESOLVED" => AppliedBy(i)'
    PROVE  IInv'
<1>1. Forward
  BY DEF Forward
<1>2. admins' \in [Admins -> Admin] /\ AdminsOK'
  BY <1>1, AdminsStep
<1>3. TypeOK'
  BY <1>2, TypeStep DEF IInv, TypeOK
<1>4. IntentsOK'
  BY <1>1, <1>3, IntentsStable
<1>5. SecretsOK'
  BY <1>1, SecretsStable
<1>6. CallsOK' /\ AppliersOK'
  BY <1>1, SameCalls, SameAppliers
<1>7. PaidByItsIntent'
  BY <1>1, <1>3, <1>5, PaidStable
<1>. QED
  BY <1>2, <1>3, <1>4, <1>5, <1>6, <1>7 DEF IInv

(* An admin's slot changes, and with it at most what FeeStep says.         *)
LEMMA QueueKeeps ==
    ASSUME IInv, NEW d \in Admins, NEW slot \in Admin,
           admins' = [admins EXCEPT ![d] = slot], AdminOK(slot)', slot.pc # "reset",
           UNCHANGED <<chips, stripe, calls, appliers, faults>>,
           FeeStep, \A i \in Intents : incidents'[i] # "none" => incidents[i] # "none"
    PROVE  IInv'
<1>1. /\ nfc_tags' \in [Tags -> Chip] /\ intents' \in [Intents -> Intent] /\ IntentsForward
      /\ UNCHANGED <<pending, moves, keys, secrets, calls, appliers, faults>>
      /\ \A i \in Intents : intents'[i].state = intents[i].state
  BY SameIntents DEF IInv, TypeOK, chips, stripe
<1>2. \A e \in Admins : admins[e].pc = "reset" => admins[e].row \in Rows /\ Locked(admins[e].row)
  BY DEF IInv, AdminsOK, AdminOK, Locked
<1>3. \A e \in Admins : admins[e].pc = "reset" =>
         reissue_requests'[admins[e].row] = reissue_requests[admins[e].row]
  BY <1>2 DEF FeeStep
<1>4. /\ RowsForward /\ RowsFit' /\ OneOpen'
      /\ \A q \in Rows :
            /\ reissue_requests'[q].intent = reissue_requests[q].intent
            /\ reissue_requests'[q].payment = "PAID" /\ reissue_requests[q].payment # "PAID" =>
                  /\ reissue_requests'[q].intent \in Intents
                  /\ intents'[reissue_requests'[q].intent].state = "succeeded"
      /\ incidents' \in [Intents -> {"none", "OPEN", "RESOLVED", "REFUNDED"}]
      /\ \A i \in Intents :
            /\ incidents'[i] # "none" => incidents[i] # "none"
            /\ incidents'[i] = "RESOLVED" /\ incidents[i] # "RESOLVED" => AppliedBy(i)'
  BY DEF FeeStep
<1>. QED
  BY <1>1, <1>3, <1>4, AdminKeeps

LEMMA IdleAdminOK == IdleAdmin \in Admin /\ IdleAdmin.pc = "idle" /\ AdminOK(IdleAdmin)'
<1>1. IdleAdmin \in Admin /\ IdleAdmin.pc = "idle"
  BY DEF IdleAdmin, Admin
<1>. QED
  BY <1>1 DEF AdminOK

LEMMA AbortAdminKeeps ==
    ASSUME IInv, NEW d \in Admins, AbortAdmin(d) PROVE IInv'
<1>1. /\ admins' = [admins EXCEPT ![d] = IdleAdmin]
      /\ UNCHANGED <<chips, reissue_requests, stripe, incidents, calls, appliers, faults>>
  BY DEF AbortAdmin, AdminEnds
<1>2. FeeStep
  BY <1>1, NoFee DEF IInv, TypeOK
<1>. QED
  BY <1>1, <1>2, IdleAdminOK, QueueKeeps

LEMMA OpenIncidentKeeps ==
    ASSUME IInv, NEW d \in Admins, NEW i \in Intents, NEW pc \in {"reapply", "refund"},
           OpenIncident(d, i, pc)
    PROVE  IInv'
<1>1. /\ intents[i].state = "succeeded"
      /\ admins' = [admins EXCEPT ![d] = [IdleAdmin EXCEPT !.pc = pc, !.intent = i]]
      /\ UNCHANGED <<chips, reissue_requests, stripe, incidents, calls, appliers, faults>>
  BY DEF OpenIncident
<1> DEFINE slot == [IdleAdmin EXCEPT !.pc = pc, !.intent = i]
<1>2. slot \in Admin /\ slot.pc = pc /\ slot.intent = i
  BY DEF IdleAdmin, Admin
<1> HIDE DEF slot
<1>3. AdminOK(slot)'
  BY <1>1, <1>2 DEF AdminOK, stripe
<1>4. FeeStep
  BY <1>1, NoFee DEF IInv, TypeOK
<1>5. admins' = [admins EXCEPT ![d] = slot]
  BY <1>1 DEF slot
<1>. QED
  BY <1>1, <1>2, <1>3, <1>4, <1>5, QueueKeeps

LEMMA ReapplyKeeps ==
    ASSUME IInv, NEW d \in Admins, admin_reapply_payment(d) PROVE IInv'
<1>0. PICK i : i = admins[d].intent
  OBVIOUS
<1>1. /\ i \in Intents /\ intents[i].state = "succeeded" /\ apply_reissue_fee(i)
      /\ admins' = [admins EXCEPT ![d] = IdleAdmin]
      /\ UNCHANGED <<chips, stripe, calls, appliers, faults>>
  BY <1>0 DEF admin_reapply_payment, AdminEnds, IInv, AdminsOK, AdminOK
<1>2. FeeStep
  BY <1>1, ApplyFeeStep DEF stripe
<1>3. \A j \in Intents : incidents'[j] # "none" => incidents[j] # "none"
  BY <1>1 DEF apply_reissue_fee, IInv, TypeOK
<1>. QED
  BY <1>1, <1>2, <1>3, IdleAdminOK, QueueKeeps

LEMMA RefundIncidentKeeps ==
    ASSUME IInv, NEW d \in Admins, admin_refund_payment_incident(d) PROVE IInv'
<1>0. PICK i : i = admins[d].intent
  OBVIOUS
<1>1. /\ i \in Intents /\ incidents[i] = "OPEN"
      /\ incidents' = [incidents EXCEPT ![i] = "REFUNDED"]
      /\ admins' = [admins EXCEPT ![d] = IdleAdmin]
      /\ UNCHANGED <<chips, reissue_requests, stripe, calls, appliers, faults>>
  BY <1>0 DEF admin_refund_payment_incident, AdminEnds, IInv, AdminsOK, AdminOK
<1>2. /\ incidents' \in [Intents -> {"none", "OPEN", "RESOLVED", "REFUNDED"}]
      /\ \A j \in Intents :
            /\ incidents'[j] # "none" => incidents[j] # "none"
            /\ incidents'[j] = "RESOLVED" => incidents[j] = "RESOLVED"
  BY <1>1 DEF IInv, TypeOK
<1>3. FeeStep
  BY <1>1, <1>2, NoFee
<1>. QED
  BY <1>1, <1>2, <1>3, IdleAdminOK, QueueKeeps

LEMMA RefundAtStripeKeeps ==
    ASSUME IInv, NEW d \in Admins, RefundAtStripe(d) PROVE IInv'
<1>0. PICK i : i = admins[d].intent
  OBVIOUS
<1>1. /\ admins[d] \in Admin /\ i \in Intents /\ intents[i].state = "succeeded"
      /\ intents' = [intents EXCEPT ![i].refunded = TRUE]
      /\ admins' = [admins EXCEPT ![d].pc = "record"]
      /\ UNCHANGED <<chips, reissue_requests, keys, secrets, incidents, calls, appliers, faults>>
  BY <1>0 DEF RefundAtStripe, AdminGoes, IInv, TypeOK, AdminsOK, AdminOK
<1> DEFINE new == [intents[i] EXCEPT !.refunded = TRUE]
<1>2. PICK slot : slot = [admins[d] EXCEPT !.pc = "record"]
  OBVIOUS
<1>3. slot \in Admin /\ slot.pc = "record" /\ slot.intent = i
  BY <1>0, <1>1, <1>2 DEF Admin
<1>4. new \in Intent /\ new.state = intents[i].state /\ new.row = intents[i].row
  BY <1>1 DEF IInv, TypeOK, Intent
<1>5. intents' = [intents EXCEPT ![i] = new]
  BY <1>1
<1> HIDE DEF new
<1>6. /\ intents' \in [Intents -> Intent] /\ IntentsForward
      /\ \A j \in Intents : intents'[j].state = intents[j].state
  <2>1. /\ intents' \in [Intents -> Intent] /\ intents'[i] = new
        /\ \A j \in Intents \ {i} : intents'[j] = intents[j]
    <3>1. intents \in [Intents -> Intent]
      BY Zenon DEF IInv, TypeOK
    <3>. QED
      BY <1>0, <1>1, <1>4, <1>5, <3>1, Zenon
  <2>2. \A j \in Intents : intents'[j].state = intents[j].state /\ intents'[j].row = intents[j].row
    BY <1>4, <2>1, Zenon
  <2>. QED
    BY <2>1, <2>2, Zenon DEF IntentsForward
<1>7. AdminOK(slot)'
  BY <1>1, <1>3, <1>6 DEF AdminOK
<1>8. RowsForward /\ RowsFit' /\ OneOpen'
  BY <1>1, SameRows
<1>9. /\ admins' = [admins EXCEPT ![d] = slot]
      /\ UNCHANGED <<pending, moves>> /\ nfc_tags' \in [Tags -> Chip]
      /\ incidents' \in [Intents -> {"none", "OPEN", "RESOLVED", "REFUNDED"}]
  BY <1>1, <1>2 DEF chips, IInv, TypeOK
<1>. QED
  BY <1>1, <1>3, <1>6, <1>7, <1>8, <1>9, AdminKeeps

(* The check takes the row's lock: no other fulfilment holds the request.  *)
LEMMA FulfilChecksKeeps ==
    ASSUME IInv, NEW d \in Admins, NEW q \in Rows, NEW new \in Tags, FulfilChecks(d, q, new)
    PROVE  IInv'
<1>1. PICK slot : slot = [IdleAdmin EXCEPT !.pc = "reset", !.row = q, !.new_tag = new]
  OBVIOUS
<1>2. slot \in Admin /\ slot.pc = "reset" /\ slot.row = q /\ slot.new_tag = new
  BY <1>1 DEF IdleAdmin, Admin
<1>3. /\ ~Locked(q) /\ reissue_requests[q].new_tag = NoTag
      /\ reissue_requests[q].payment \in {"PAID", "WAIVED"}
      /\ admins' = [admins EXCEPT ![d] = slot]
      /\ UNCHANGED <<chips, reissue_requests, stripe, incidents, calls, appliers, faults>>
  BY <1>1 DEF FulfilChecks
<1>4. AdminOK(slot)'
  BY <1>2, <1>3 DEF AdminOK
<1>5. \A e \in Admins : admins[e].pc = "reset" => slot.row # admins[e].row
  BY <1>2, <1>3 DEF Locked
<1>6. RowsForward /\ RowsFit' /\ OneOpen' /\ IntentsForward
  BY <1>3, SameRows, SameIntents DEF stripe
<1>7. /\ nfc_tags' \in [Tags -> Chip] /\ intents' \in [Intents -> Intent]
      /\ incidents' \in [Intents -> {"none", "OPEN", "RESOLVED", "REFUNDED"}]
      /\ UNCHANGED <<intents, incidents>>
      /\ UNCHANGED <<pending, moves, keys, secrets, calls, appliers, faults>>
  BY <1>3 DEF IInv, TypeOK, chips, stripe
<1>. QED
  BY <1>2, <1>3, <1>4, <1>5, <1>6, <1>7, AdminKeeps

(* The reset writes the one row that this fulfilment holds.                *)
LEMMA FulfilResetsKeeps ==
    ASSUME IInv, NEW d \in Admins, FulfilResets(d) PROVE IInv'
<1>0. PICK q, new : q = admins[d].row /\ new = admins[d].new_tag
  OBVIOUS
<1>1. PICK old : old = reissue_requests[q].tag
  OBVIOUS
<1>2. /\ admins[d].pc = "reset" /\ q \in Rows /\ new \in Tags
      /\ RowFits(reissue_requests[q]) /\ reissue_requests[q].new_tag = NoTag
      /\ reissue_requests[q].payment \in {"PAID", "WAIVED"}
      /\ admins' = [admins EXCEPT ![d] = IdleAdmin]
      /\ UNCHANGED <<pending, moves, stripe, incidents, calls, appliers, faults>>
  BY <1>0 DEF FulfilResets, AdminEnds, IInv, AdminsOK, AdminOK, RowsFit
<1>3. \A e \in Admins \ {d} : admins[e].pc = "reset" => admins[e].row # q
  BY <1>0, <1>2 DEF IInv, AdminsOK
<1>4. /\ IntentsForward /\ intents' \in [Intents -> Intent]
      /\ incidents' \in [Intents -> {"none", "OPEN", "RESOLVED", "REFUNDED"}]
      /\ UNCHANGED <<intents, keys, secrets>>
  BY <1>2, SameIntents DEF IInv, TypeOK, stripe
<1>5. CASE /\ Reset(old, new)
           /\ reissue_requests' = [reissue_requests EXCEPT ![q].new_tag = new]
  <2> DEFINE row == [reissue_requests[q] EXCEPT !.new_tag = new]
  <2>1. row \in Row /\ row.new_tag = new /\ row.tag = reissue_requests[q].tag
    BY <1>2 DEF RowFits, Row
  <2>2. /\ row.status = reissue_requests[q].status /\ row.payment = reissue_requests[q].payment
        /\ row.requester = reissue_requests[q].requester /\ row.intent = reissue_requests[q].intent
    BY <1>2 DEF RowFits, Row
  <2>3. reissue_requests' = [reissue_requests EXCEPT ![q] = row]
    BY <1>5
  <2> HIDE DEF row
  <2>4. RowFits(row) /\ RowMay(reissue_requests[q], row)
    BY <1>2, <2>1, <2>2 DEF RowFits, RowMay
  <2>5. OpenRow(row) => OpenRow(reissue_requests[q])
    BY <1>2, <2>2 DEF OpenRow
  <2>6. /\ RowsForward /\ RowsFit' /\ OneOpen'
        /\ reissue_requests'[q] = row
        /\ \A p \in Rows \ {q} : reissue_requests'[p] = reissue_requests[p]
    BY <1>2, <2>1, <2>3, <2>4, <2>5, OneRow
  <2>7. \A p \in Rows : /\ reissue_requests'[p].intent = reissue_requests[p].intent
                        /\ reissue_requests'[p].payment = reissue_requests[p].payment
    BY <2>2, <2>6
  <2>8. \A e \in Admins \ {d} : admins[e].pc = "reset" =>
           reissue_requests'[admins[e].row] = reissue_requests[admins[e].row]
    BY <1>3, <2>6 DEF IInv, AdminsOK, AdminOK
  <2>9. nfc_tags' \in [Tags -> Chip]
    <3>1. old \in Tags /\ nfc_tags \in [Tags -> Chip] /\ nfc_tags[old] \in Chip
      BY <1>1, <1>2 DEF RowFits, IInv, TypeOK
    <3>2. /\ [status |-> "ACTIVE", owner |-> nfc_tags[old].owner] \in Chip
          /\ [status |-> "RETIRED", owner |-> NoUser] \in Chip
      BY <3>1 DEF Chip
    <3>. QED
      BY <1>2, <1>5, <3>1, <3>2 DEF Reset
  <2>. QED
    BY <1>2, <1>4, <2>6, <2>7, <2>8, <2>9, IdleAdminOK, AdminKeeps
<1>6. CASE UNCHANGED <<nfc_tags, reissue_requests>>
  <2>1. RowsForward /\ RowsFit' /\ OneOpen'
    BY <1>6, SameRows
  <2>2. nfc_tags' \in [Tags -> Chip]
    BY <1>6 DEF IInv, TypeOK
  <2>. QED
    BY <1>2, <1>4, <1>6, <2>1, <2>2, IdleAdminOK, AdminKeeps
<1>. QED
  BY <1>0, <1>1, <1>5, <1>6 DEF FulfilResets

-----------------------------------------------------------------------------
LEMMA NextIInv ==
    ASSUME IInv, [Next]_vars PROVE IInv'
<1>1. ASSUME NEW c \in Calls, CallStep(c) PROVE IInv'
  BY <1>1, RequestReadsKeeps, PayReadsKeeps, CancelReadsKeeps, RequestInsertsKeeps,
     PayChecksOwnerKeeps, PayRetrievesKeeps, PayCreatesKeeps, PayStoresKeeps, PayRereadsKeeps,
     CancelAtStripeKeeps, CancelUpdatesKeeps, AbortCallKeeps DEF CallStep
<1>2. ASSUME NEW a \in Appliers, ApplierStep(a) PROVE IInv'
  BY <1>2, StartApplyKeeps, ApplyFeeKeeps, RecordIncidentKeeps, AbortApplierKeeps DEF ApplierStep
<1>3. ASSUME NEW d \in Admins, AdminStep(d) PROVE IInv'
  BY <1>3, OpenIncidentKeeps, ReapplyKeeps, RefundAtStripeKeeps, RefundIncidentKeeps,
     FulfilChecksKeeps, FulfilResetsKeeps, AbortAdminKeeps DEF AdminStep
<1>4. CASE UNCHANGED vars
  BY <1>4, ChipsKeep DEF vars, chips, IInv, TypeOK
<1>5. ASSUME NEW q \in Rows,
             \/ \E approve \in BOOLEAN, waive \in BOOLEAN : admin_review_reissue(q, approve, waive)
             \/ ForgetKey(q)
      PROVE  IInv'
  BY <1>5, ReviewKeeps, ForgetKeyKeeps
<1>6. ASSUME NEW t \in Tags,
             \/ InitiateTransfer(t) \/ Release(t) \/ Suspend(t)
             \/ \E u \in Users : EndTransfer(t, u) \/ Claim(t, u)
      PROVE  IInv'
  BY <1>6, MovesKeep
<1>. QED
  BY <1>1, <1>2, <1>3, <1>4, <1>5, <1>6, PayIntentKeeps DEF Next

(* A request that is PAID was paid by the intent on its row, whichever of  *)
(* webhook, sweep and Re-apply got there first; what is paid for or waived *)
(* is not closed by a cancellation, and no incident is closed by mistake.  *)
THEOREM ReissueCorrect == Spec => []Inv
<1>1. IInv => Inv
  <2>1. RowsFit => PaidIsKept
    BY DEF RowsFit, RowFits, PaidIsKept
  <2>. QED
    BY <2>1 DEF IInv, Inv
<1>2. IInv /\ [Next]_vars => IInv'
  BY NextIInv
<1>. QED
  BY InitIInv, <1>1, <1>2, PTL DEF Spec

(* However many intents Stripe makes for a request, only the one on its    *)
(* row can be paid: nobody is charged twice for one replacement.           *)
THEOREM NobodyChargedTwice == Spec => []ChargedOnce
<1>1. IInv => ChargedOnce
  <2>1. ASSUME IInv, NEW i \in secrets, NEW j \in secrets, intents[i].row = intents[j].row
        PROVE  i = j
    BY <2>1, SecretOnRow
  <2>. QED
    BY <2>1 DEF ChargedOnce
<1>2. IInv /\ [Next]_vars => IInv'
  BY NextIInv
<1>. QED
  BY InitIInv, <1>1, <1>2, PTL DEF Spec
=============================================================================
