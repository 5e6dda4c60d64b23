-------------------------- MODULE TokenLifecycle_proofs --------------------------
(***************************************************************************)
(* Proofs about TokenLifecycle, for any number of accounts, chips,         *)
(* transfers and overlapping requests.                                     *)
(***************************************************************************)
EXTENDS TokenLifecycle, TLAPS

(* Whoever owns a chip now is in its history.                              *)
OwnersRecorded ==
    \A t \in Tags : nfc_tags[t].owner # NoUser => nfc_tags[t].owner \in everOwned[t]

(* The inductive invariant.                                                *)
IInv == TypeOK /\ OwnedIffLive /\ OnlyOwnersAct /\ OwnersRecorded

-----------------------------------------------------------------------------
(* The shared tables.                                                      *)

(* An apply that reports "applied" met a PENDING row with a recipient, and *)
(* a chip that is not retired.                                             *)
LEMMA AppliedRow ==
    ASSUME TablesTypeOK,
           NEW x \in Transfers, NEW i \in Intents \cup {NoIntent},
           ApplyOutcome(x, i) = "applied"
    PROVE  /\ ownership_transfers[x].status = "PENDING"
           /\ ownership_transfers[x].intent \in {NoIntent, i}
           /\ ownership_transfers[x].to \in Users
           /\ ownership_transfers[x].from \in Users
           /\ ownership_transfers[x].tag \in Tags
           /\ nfc_tags[ownership_transfers[x].tag].status # "RETIRED"
<1> DEFINE row == ownership_transfers[x]
<1>1. row \in TransferRow
  BY DEF TablesTypeOK
<1>2. RowOutcome(x, i) = "ok"
  BY DEF ApplyOutcome, RowOutcome
<1>3. /\ row.status = "PENDING"
      /\ row.intent \in {NoIntent, i}
      /\ row.to # NoUser
  BY <1>2 DEF RowOutcome
<1>4. row.tag \in Tags /\ row.from \in Users
  BY <1>3 DEF TablesTypeOK
<1>5. nfc_tags[row.tag].status # "RETIRED"
  BY <1>2 DEF ApplyOutcome
<1>. QED
  BY <1>1, <1>3, <1>4, <1>5 DEF TransferRow

(* Completing a row keeps the types of the three tables.                   *)
LEMMA CompleteRowType ==
    ASSUME TablesTypeOK,
           NEW x \in Transfers, NEW i \in Intents \cup {NoIntent},
           ownership_transfers[x].status = "PENDING",
           ownership_transfers[x].to \in Users,
           CompleteRow(x, i)
    PROVE  TablesTypeOK'
<1> DEFINE row == ownership_transfers[x]
           t == row.tag
<1>1. row \in TransferRow /\ t \in Tags /\ row.from \in Users
  BY DEF TablesTypeOK
<1>2. nfc_tags' \in [Tags -> TagRow]
  <2>1. nfc_tags[t] \in TagRow
    BY <1>1 DEF TablesTypeOK
  <2>2. nfc_tags' = [nfc_tags EXCEPT ![t] =
           [status |-> IF nfc_tags[t].status = "SUSPENDED" THEN "SUSPENDED" ELSE "ACTIVE",
            owner |-> row.to]]
    BY DEF CompleteRow
  <2>. QED
    BY <2>2 DEF TablesTypeOK, TagRow, LifecycleStatus
<1>3. ownership_proofs' \in [Tags -> Users \cup {NoUser}]
  BY DEF CompleteRow, TablesTypeOK
<1>4. ownership_transfers' =
        [ownership_transfers EXCEPT ![x] =
           [row EXCEPT !.status = "COMPLETED",
                       !.intent = IF i = NoIntent THEN @ ELSE i]]
  BY DEF CompleteRow, TablesTypeOK
<1>5. [row EXCEPT !.status = "COMPLETED", !.intent = IF i = NoIntent THEN @ ELSE i]
        \in TransferRow
  BY <1>1 DEF TransferRow, TransferStatus
<1>6. ownership_transfers' \in [Transfers -> TransferRow]
  BY <1>4, <1>5 DEF TablesTypeOK
<1>7. ASSUME NEW y \in Transfers, ownership_transfers'[y].status # "NONE"
      PROVE  /\ ownership_transfers'[y].tag \in Tags
             /\ ownership_transfers'[y].from \in Users
             /\ ownership_transfers'[y].status = "COMPLETED" =>
                   ownership_transfers'[y].to \in Users
  <2>1. CASE y = x
    BY <2>1, <1>1, <1>4 DEF TablesTypeOK, TransferRow
  <2>2. CASE y # x
    BY <2>2, <1>4, <1>7 DEF TablesTypeOK
  <2>. QED
    BY <2>1, <2>2
<1>. QED
  BY <1>2, <1>3, <1>6, <1>7 DEF TablesTypeOK

(* So does cancelling one.                                                 *)
LEMMA CancelRowType ==
    ASSUME TablesTypeOK, NEW x \in Transfers, CancelRow(x)
    PROVE  TablesTypeOK'
<1>1. ownership_transfers' =
        [ownership_transfers EXCEPT ![x] =
           [ownership_transfers[x] EXCEPT !.status = "CANCELLED"]]
  BY DEF CancelRow
<1>2. [ownership_transfers[x] EXCEPT !.status = "CANCELLED"] \in TransferRow
  BY DEF TablesTypeOK, TransferRow, TransferStatus
<1>3. ownership_transfers' \in [Transfers -> TransferRow]
  BY <1>1, <1>2 DEF TablesTypeOK
<1>4. ASSUME NEW y \in Transfers, ownership_transfers'[y].status # "NONE"
      PROVE  /\ ownership_transfers'[y].tag \in Tags
             /\ ownership_transfers'[y].from \in Users
             /\ ownership_transfers'[y].status = "COMPLETED" =>
                   ownership_transfers'[y].to \in Users
  <2>1. CASE y = x
    BY <2>1, <1>1 DEF CancelRow, TablesTypeOK, TransferRow
  <2>2. CASE y # x
    BY <2>2, <1>1, <1>4 DEF TablesTypeOK
  <2>. QED
    BY <2>1, <2>2
<1>. QED
  BY <1>3, <1>4 DEF CancelRow, TablesTypeOK

(* Naming the recipient of a pending row keeps the types too.              *)
LEMMA ResolveRowType ==
    ASSUME TablesTypeOK, NEW x \in Transfers, NEW u \in Users,
           ownership_transfers[x].status = "PENDING",
           ownership_transfers' = [ownership_transfers EXCEPT ![x].to = u],
           UNCHANGED <<nfc_tags, ownership_proofs>>
    PROVE  TablesTypeOK'
<1>1. [ownership_transfers[x] EXCEPT !.to = u] \in TransferRow
  BY DEF TablesTypeOK, TransferRow
<1>2. ownership_transfers' \in [Transfers -> TransferRow]
  BY <1>1 DEF TablesTypeOK
<1>3. ASSUME NEW y \in Transfers, ownership_transfers'[y].status # "NONE"
      PROVE  /\ ownership_transfers'[y].tag \in Tags
             /\ ownership_transfers'[y].from \in Users
             /\ ownership_transfers'[y].status = "COMPLETED" =>
                   ownership_transfers'[y].to \in Users
  <2>1. CASE y = x
    BY <2>1 DEF TablesTypeOK, TransferRow
  <2>2. CASE y # x
    BY <2>2, <1>3 DEF TablesTypeOK
  <2>. QED
    BY <2>1, <2>2
<1>. QED
  BY <1>2, <1>3 DEF TablesTypeOK

-----------------------------------------------------------------------------
(* How a slot changes.                                                     *)

LEMMA BeginType ==
    ASSUME TypeOK, NEW r \in Requests, NEW pc,
           NEW u \in Users, NEW t \in Tags,
           NEW to \in Users \cup {NoUser}, NEW email \in Users \cup {NoUser},
           pc \in {"stale_proof", "insert_transfer", "check_pending"},
           Begin(r, pc, u, t, to, email)
    PROVE  /\ requests' \in [Requests -> RequestSlot]
           /\ \A q \in Requests : requests'[q].pc # "idle" =>
                 requests'[q].user \in Users /\ requests'[q].tag \in Tags
           /\ \A q \in Requests : requests'[q].pc # "idle" =>
                 \/ requests'[q].user = u /\ requests'[q].tag = t
                 \/ requests'[q] = requests[q]
<1> DEFINE slot == [pc |-> pc, user |-> u, tag |-> t, to |-> to, email |-> email]
<1>1. requests' = [requests EXCEPT ![r] = slot]
  BY DEF Begin
<1>2. slot \in RequestSlot
  BY DEF RequestSlot
<1>3. slot.user = u /\ slot.tag = t
  OBVIOUS
<1> HIDE DEF slot
<1>. QED
  BY <1>1, <1>2, <1>3 DEF TypeOK

LEMMA ContinueType ==
    ASSUME TypeOK, NEW r \in Requests, NEW from, NEW to,
           from # "idle",
           to \in {"insert_proof", "update_released", "drop_proof"},
           Continue(r, from, to)
    PROVE  /\ requests' \in [Requests -> RequestSlot]
           /\ requests[r].user \in Users /\ requests[r].tag \in Tags
           /\ \A q \in Requests : requests'[q].pc # "idle" =>
                 /\ requests[q].pc # "idle"
                 /\ requests'[q].user = requests[q].user
                 /\ requests'[q].tag = requests[q].tag
<1> DEFINE slot == [requests[r] EXCEPT !.pc = to]
<1>1. requests[r] \in RequestSlot
  BY DEF TypeOK
<1>2. requests' = [requests EXCEPT ![r] = slot]
  BY DEF Continue
<1>3. slot \in RequestSlot
  BY <1>1 DEF RequestSlot
<1>4. slot.user = requests[r].user /\ slot.tag = requests[r].tag
  BY <1>1 DEF RequestSlot
<1>5. requests[r].pc # "idle"
  BY DEF Continue
<1>6. requests[r].user \in Users /\ requests[r].tag \in Tags
  BY <1>5 DEF TypeOK
<1> HIDE DEF slot
<1>. QED
  BY <1>2, <1>3, <1>4, <1>5, <1>6 DEF TypeOK

LEMMA IdleType ==
    ASSUME TypeOK, NEW r \in Requests,
           requests' = [requests EXCEPT ![r] = IdleRequest]
    PROVE  /\ requests' \in [Requests -> RequestSlot]
           /\ \A q \in Requests : requests'[q].pc # "idle" => requests'[q] = requests[q]
<1>1. IdleRequest \in RequestSlot /\ IdleRequest.pc = "idle"
  BY DEF IdleRequest, RequestSlot
<1>. QED
  BY <1>1 DEF TypeOK

(* A chip row whose status and owner are both given.                       *)
LEMMA SetTagType ==
    ASSUME TablesTypeOK, NEW t \in Tags,
           NEW st \in LifecycleStatus, NEW o \in Users \cup {NoUser},
           nfc_tags' = [nfc_tags EXCEPT ![t] = [status |-> st, owner |-> o]]
    PROVE  /\ nfc_tags' \in [Tags -> TagRow]
           /\ nfc_tags'[t].status = st /\ nfc_tags'[t].owner = o
           /\ \A s \in Tags \ {t} : nfc_tags'[s] = nfc_tags[s]
  BY DEF TablesTypeOK, TagRow

(* A row inserted under an unused id.                                      *)
LEMMA InsertType ==
    ASSUME TablesTypeOK, NEW x \in Transfers, NEW row \in TransferRow,
           row.tag \in Tags, row.from \in Users,
           row.status = "COMPLETED" => row.to \in Users,
           ownership_transfers' = [ownership_transfers EXCEPT ![x] = row]
    PROVE  /\ ownership_transfers' \in [Transfers -> TransferRow]
           /\ \A y \in Transfers : ownership_transfers'[y].status # "NONE" =>
                 /\ ownership_transfers'[y].tag \in Tags
                 /\ ownership_transfers'[y].from \in Users
                 /\ ownership_transfers'[y].status = "COMPLETED" =>
                       ownership_transfers'[y].to \in Users
  BY DEF TablesTypeOK

LEMMA RecordOwnersType ==
    ASSUME TypeOK, nfc_tags' \in [Tags -> TagRow], RecordOwners
    PROVE  /\ everOwned' \in [Tags -> SUBSET Users]
           /\ \A t \in Tags : everOwned[t] \subseteq everOwned'[t]
           /\ OwnersRecorded'
  BY DEF TypeOK, RecordOwners, TagRow, OwnersRecorded

-----------------------------------------------------------------------------
LEMMA InitIInv == Init => IInv
<1> SUFFICES ASSUME Init PROVE IInv
  OBVIOUS
<1>1. NoRow \in TransferRow /\ NoRow.status = "NONE"
  BY DEF NoRow, TransferRow, TransferStatus
<1>2. IdleRequest \in RequestSlot /\ IdleRequest.pc = "idle"
  BY DEF IdleRequest, RequestSlot
<1>3. [status |-> "ENROLLED", owner |-> NoUser] \in TagRow
  BY DEF TagRow, LifecycleStatus
<1>4. TablesTypeOK
  BY <1>1, <1>3 DEF Init, TablesTypeOK
<1>5. TypeOK
  BY <1>2, <1>4 DEF Init, TypeOK
<1>6. OwnedIffLive /\ OwnersRecorded
  BY DEF Init, OwnedIffLive, Live, OwnersRecorded
<1>7. OnlyOwnersAct
  BY <1>1, <1>2 DEF Init, OnlyOwnersAct
<1>. QED
  BY <1>5, <1>6, <1>7 DEF IInv

(* Each action preserves the invariant.                                    *)
LEMMA ClaimTagIInv ==
    ASSUME IInv, NEW r \in Requests, NEW u \in Users, NEW t \in Tags, ClaimTag(r, u, t)
    PROVE  IInv'
<1>1. TypeOK /\ TablesTypeOK
  BY DEF IInv, TypeOK
<1>2. Begin(r, "stale_proof", u, t, NoUser, NoUser)
  BY DEF ClaimTag
<1>3. /\ requests' \in [Requests -> RequestSlot]
      /\ \A q \in Requests : requests'[q].pc # "idle" =>
            requests'[q].user \in Users /\ requests'[q].tag \in Tags
      /\ \A q \in Requests : requests'[q].pc # "idle" =>
            \/ requests'[q].user = u /\ requests'[q].tag = t
            \/ requests'[q] = requests[q]
  BY <1>1, <1>2, BeginType
<1>4. /\ nfc_tags' \in [Tags -> TagRow]
      /\ nfc_tags'[t].status = "ACTIVE" /\ nfc_tags'[t].owner = u
      /\ \A s \in Tags \ {t} : nfc_tags'[s] = nfc_tags[s]
  BY <1>1, SetTagType DEF ClaimTag, LifecycleStatus
<1>5. /\ everOwned' \in [Tags -> SUBSET Users]
      /\ \A s \in Tags : everOwned[s] \subseteq everOwned'[s]
      /\ OwnersRecorded'
  BY <1>1, <1>4, RecordOwnersType DEF ClaimTag
<1>6. TypeOK'
  BY <1>1, <1>3, <1>4, <1>5 DEF ClaimTag, TypeOK, TablesTypeOK
<1>7. OwnedIffLive'
  BY <1>4, NullAssumption DEF IInv, OwnedIffLive, Live
<1>8. u \in everOwned'[t]
  BY <1>4, <1>5, NullAssumption DEF OwnersRecorded
<1>9. OnlyOwnersAct'
  BY <1>1, <1>3, <1>5, <1>8 DEF ClaimTag, IInv, OnlyOwnersAct, TypeOK, TablesTypeOK
<1>. QED
  BY <1>5, <1>6, <1>7, <1>9 DEF IInv

(* A step that leaves the chips and the history alone, keeps the types and *)
(* adds no transfer and no request.                                        *)
LEMMA QuietIInv ==
    ASSUME IInv, UNCHANGED <<nfc_tags, everOwned>>,
           TablesTypeOK',
           \A x \in Transfers : ownership_transfers'[x].status = "PENDING" =>
              /\ ownership_transfers[x].status = "PENDING"
              /\ ownership_transfers'[x].from = ownership_transfers[x].from
              /\ ownership_transfers'[x].tag = ownership_transfers[x].tag,
           requests' \in [Requests -> RequestSlot],
           \A q \in Requests : requests'[q].pc # "idle" =>
              /\ requests[q].pc # "idle"
              /\ requests'[q].user = requests[q].user
              /\ requests'[q].tag = requests[q].tag
    PROVE  IInv'
<1>1. TypeOK'
  BY DEF IInv, TypeOK
<1>2. OwnedIffLive' /\ OwnersRecorded'
  BY DEF IInv, OwnedIffLive, Live, OwnersRecorded
<1>3. OnlyOwnersAct'
  BY DEF IInv, OnlyOwnersAct
<1>. QED
  BY <1>1, <1>2, <1>3 DEF IInv

LEMMA ProofStepsIInv ==
    ASSUME IInv, NEW r \in Requests,
           StaleProof(r) \/ InsertProof(r) \/ ReleaseDropsProof(r)
    PROVE  IInv'
<1>1. TypeOK /\ TablesTypeOK
  BY DEF IInv, TypeOK
<1>2. UNCHANGED <<nfc_tags, ownership_transfers, everOwned>>
  BY DEF StaleProof, InsertProof, ReleaseDropsProof
<1>3. requests[r].pc # "idle" /\ requests[r].user \in Users
  BY <1>1 DEF StaleProof, InsertProof, ReleaseDropsProof, Continue, Finish, TypeOK
<1>4. ownership_proofs' \in [Tags -> Users \cup {NoUser}]
  BY <1>1, <1>3 DEF StaleProof, InsertProof, ReleaseDropsProof, TablesTypeOK
<1>5. TablesTypeOK'
  BY <1>1, <1>2, <1>4 DEF TablesTypeOK
<1>6. CASE StaleProof(r)
  BY <1>1, <1>2, <1>5, <1>6, ContinueType, QuietIInv DEF StaleProof
<1>7. CASE InsertProof(r) \/ ReleaseDropsProof(r)
  BY <1>1, <1>2, <1>5, <1>7, IdleType, QuietIInv DEF InsertProof, ReleaseDropsProof, Finish
<1>. QED
  BY <1>6, <1>7

LEMMA ReadStepsIInv ==
    ASSUME IInv, NEW r \in Requests, NEW u \in Users, NEW t \in Tags,
           NEW to \in Users \cup {NoUser}, NEW email \in Users \cup {NoUser},
           InitiateReads(r, u, t, to, email) \/ ReleaseReads(r, u, t)
    PROVE  IInv'
<1>1. TypeOK /\ TablesTypeOK
  BY DEF IInv, TypeOK
<1>2. UNCHANGED <<tables, everOwned>> /\ nfc_tags[t].owner = u
  BY DEF InitiateReads, ReleaseReads
<1>3. /\ requests' \in [Requests -> RequestSlot]
      /\ \A q \in Requests : requests'[q].pc # "idle" =>
            requests'[q].user \in Users /\ requests'[q].tag \in Tags
      /\ \A q \in Requests : requests'[q].pc # "idle" =>
            \/ requests'[q].user = u /\ requests'[q].tag = t
            \/ requests'[q] = requests[q]
  <2>1. CASE InitiateReads(r, u, t, to, email)
    <3>1. Begin(r, "insert_transfer", u, t, to, email)
      BY <2>1 DEF InitiateReads
    <3>. QED
      BY <1>1, <3>1, BeginType
  <2>2. CASE ReleaseReads(r, u, t)
    <3>1. Begin(r, "check_pending", u, t, NoUser, NoUser)
      BY <2>2 DEF ReleaseReads
    <3>. QED
      BY <1>1, <3>1, BeginType
  <2>. QED
    BY <2>1, <2>2
<1>4. u \in everOwned[t]
  BY <1>2, NullAssumption DEF IInv, OwnersRecorded
<1>5. TypeOK'
  BY <1>1, <1>2, <1>3 DEF TypeOK, TablesTypeOK, tables
<1>6. OnlyOwnersAct'
  BY <1>2, <1>3, <1>4 DEF IInv, OnlyOwnersAct, tables
<1>7. OwnedIffLive' /\ OwnersRecorded'
  BY <1>2 DEF IInv, OwnedIffLive, Live, OwnersRecorded, tables
<1>. QED
  BY <1>5, <1>6, <1>7 DEF IInv

LEMMA InitiateInsertsIInv ==
    ASSUME IInv, NEW r \in Requests, NEW x \in Transfers, InitiateInserts(r, x)
    PROVE  IInv'
<1> DEFINE req == requests[r]
           row == [NoRow EXCEPT !.status = "PENDING", !.tag = req.tag, !.from = req.user,
                                !.to = req.to, !.to_email = req.email]
<1>1. TypeOK /\ TablesTypeOK
  BY DEF IInv, TypeOK
<1>2. /\ requests' = [requests EXCEPT ![r] = IdleRequest]
      /\ req.pc # "idle"
      /\ ownership_transfers' = [ownership_transfers EXCEPT ![x] = row]
      /\ UNCHANGED <<nfc_tags, ownership_proofs, everOwned>>
  BY DEF InitiateInserts, Finish
<1>3. /\ req \in RequestSlot
      /\ req.user \in Users /\ req.tag \in Tags
      /\ req.user \in everOwned[req.tag]
  BY <1>1, <1>2 DEF TypeOK, IInv, OnlyOwnersAct
<1>4. /\ row \in TransferRow
      /\ row.status = "PENDING" /\ row.tag = req.tag /\ row.from = req.user
  BY <1>3 DEF RequestSlot, NoRow, TransferRow, TransferStatus
<1> HIDE DEF row
<1>5. TablesTypeOK'
  BY <1>1, <1>2, <1>3, <1>4, InsertType DEF TablesTypeOK
<1>6. /\ requests' \in [Requests -> RequestSlot]
      /\ \A q \in Requests : requests'[q].pc # "idle" => requests'[q] = requests[q]
  BY <1>1, <1>2, IdleType
<1>7. TypeOK'
  BY <1>1, <1>2, <1>5, <1>6 DEF TypeOK
<1>8. OnlyOwnersAct'
  BY <1>1, <1>2, <1>3, <1>4, <1>6 DEF IInv, OnlyOwnersAct, TablesTypeOK
<1>9. OwnedIffLive' /\ OwnersRecorded'
  BY <1>2 DEF IInv, OwnedIffLive, Live, OwnersRecorded
<1>. QED
  BY <1>7, <1>8, <1>9 DEF IInv

LEMMA RowStepsIInv ==
    ASSUME IInv, NEW x \in Transfers, CancelTransfer(x) \/ ResolveRecipient(x)
    PROVE  IInv'
<1> DEFINE row == ownership_transfers[x]
<1>1. TypeOK /\ TablesTypeOK /\ row \in TransferRow
  BY DEF IInv, TypeOK, TablesTypeOK
<1>2. UNCHANGED <<nfc_tags, requests, everOwned>>
  BY DEF CancelTransfer, CancelRow, ResolveRecipient
<1>3. CASE CancelTransfer(x)
  <2>1. TablesTypeOK'
    BY <1>1, <1>3, CancelRowType DEF CancelTransfer
  <2>2. \A y \in Transfers : ownership_transfers'[y].status = "PENDING" =>
           ownership_transfers'[y] = ownership_transfers[y]
    BY <1>1, <1>3 DEF CancelTransfer, CancelRow, TablesTypeOK, TransferRow
  <2>. QED
    BY <1>1, <1>2, <2>1, <2>2, QuietIInv DEF TypeOK
<1>4. CASE ResolveRecipient(x) /\ row.to_email \in Users
  <2>1. TablesTypeOK'
    BY <1>1, <1>4, ResolveRowType DEF ResolveRecipient
  <2>2. \A y \in Transfers :
           /\ ownership_transfers'[y].status = ownership_transfers[y].status
           /\ ownership_transfers'[y].from = ownership_transfers[y].from
           /\ ownership_transfers'[y].tag = ownership_transfers[y].tag
    BY <1>1, <1>4 DEF ResolveRecipient, TablesTypeOK, TransferRow
  <2>. QED
    BY <1>1, <1>2, <2>1, <2>2, QuietIInv DEF TypeOK
<1>5. CASE ResolveRecipient(x) /\ row.to_email = NoUser
  <2>1. ownership_transfers' = ownership_transfers
    BY <1>1, <1>5 DEF ResolveRecipient, TablesTypeOK, TransferRow
  <2>2. TablesTypeOK'
    BY <1>1, <1>5, <2>1 DEF ResolveRecipient, TablesTypeOK
  <2>. QED
    BY <1>1, <1>2, <2>1, <2>2, QuietIInv DEF TypeOK
<1>. QED
  BY <1>1, <1>3, <1>4, <1>5 DEF TransferRow

LEMMA SettleTransferIInv ==
    ASSUME IInv, NEW x \in Transfers, SettleTransfer(x)
    PROVE  IInv'
<1> DEFINE row == ownership_transfers[x]
           t == row.tag
<1>1. TypeOK /\ TablesTypeOK
  BY DEF IInv, TypeOK
<1>2. row.status = "PENDING" /\ row.to \in Users /\ t \in Tags
  BY <1>1, AppliedRow DEF SettleTransfer
<1>3. TablesTypeOK'
  BY <1>1, <1>2, CompleteRowType DEF SettleTransfer
<1>4. /\ everOwned' \in [Tags -> SUBSET Users]
      /\ \A s \in Tags : everOwned[s] \subseteq everOwned'[s]
      /\ OwnersRecorded'
  BY <1>1, <1>3, RecordOwnersType DEF SettleTransfer, TablesTypeOK
<1>5. TypeOK'
  BY <1>1, <1>3, <1>4 DEF SettleTransfer, TypeOK
<1>6. /\ nfc_tags'[t].owner = row.to
      /\ nfc_tags'[t].status \in {"ACTIVE", "SUSPENDED"}
      /\ \A s \in Tags \ {t} : nfc_tags'[s] = nfc_tags[s]
  BY <1>1, <1>2 DEF SettleTransfer, CompleteRow, TablesTypeOK
<1>7. OwnedIffLive'
  BY <1>2, <1>6, NullAssumption DEF IInv, OwnedIffLive, Live
<1>8. \A y \in Transfers : ownership_transfers'[y].status = "PENDING" =>
         ownership_transfers'[y] = ownership_transfers[y]
  BY <1>1 DEF SettleTransfer, CompleteRow, TablesTypeOK, TransferRow
<1>9. OnlyOwnersAct'
  BY <1>1, <1>4, <1>8 DEF SettleTransfer, IInv, OnlyOwnersAct, TypeOK, TablesTypeOK
<1>. QED
  BY <1>4, <1>5, <1>7, <1>9 DEF IInv

LEMMA ReleaseStepsIInv ==
    ASSUME IInv, NEW r \in Requests, ReleaseChecks(r) \/ ReleaseUpdates(r)
    PROVE  IInv'
<1>1. TypeOK /\ TablesTypeOK
  BY DEF IInv, TypeOK
<1>2. /\ requests' \in [Requests -> RequestSlot]
      /\ requests[r].user \in Users /\ requests[r].tag \in Tags
      /\ \A q \in Requests : requests'[q].pc # "idle" =>
            /\ requests[q].pc # "idle"
            /\ requests'[q].user = requests[q].user
            /\ requests'[q].tag = requests[q].tag
  BY <1>1, ContinueType DEF ReleaseChecks, ReleaseUpdates
<1>3. CASE ReleaseChecks(r)
  BY <1>1, <1>2, <1>3, QuietIInv DEF ReleaseChecks, tables, TablesTypeOK
<1>4. CASE ReleaseUpdates(r)
  <2> DEFINE t == requests[r].tag
  <2>1. /\ nfc_tags' \in [Tags -> TagRow]
        /\ nfc_tags'[t].status = "RELEASED" /\ nfc_tags'[t].owner = NoUser
        /\ \A s \in Tags \ {t} : nfc_tags'[s] = nfc_tags[s]
    BY <1>1, <1>2, <1>4, SetTagType DEF ReleaseUpdates, LifecycleStatus
  <2>2. TypeOK'
    BY <1>1, <1>2, <1>4, <2>1 DEF ReleaseUpdates, TypeOK, TablesTypeOK
  <2>3. OwnedIffLive' /\ OwnersRecorded'
    BY <1>2, <1>4, <2>1 DEF ReleaseUpdates, IInv, OwnedIffLive, Live, OwnersRecorded
  <2>4. OnlyOwnersAct'
    BY <1>2, <1>4 DEF ReleaseUpdates, IInv, OnlyOwnersAct
  <2>. QED
    BY <2>2, <2>3, <2>4 DEF IInv
<1>. QED
  BY <1>3, <1>4

LEMMA AbortRequestIInv ==
    ASSUME IInv, NEW r \in Requests, AbortRequest(r)
    PROVE  IInv'
<1>1. TypeOK
  BY DEF IInv
<1>. QED
  BY <1>1, IdleType, QuietIInv DEF AbortRequest, tables, TypeOK, TablesTypeOK

LEMMA SuspensionIInv ==
    ASSUME IInv, NEW t \in Tags, NEW suspend \in BOOLEAN, admin_set_tag_suspension(t, suspend)
    PROVE  IInv'
<1> DEFINE st == IF suspend THEN "SUSPENDED" ELSE "ACTIVE"
<1>1. TypeOK /\ TablesTypeOK /\ nfc_tags[t] \in TagRow
  BY DEF IInv, TypeOK, TablesTypeOK
<1>2. /\ nfc_tags' = [nfc_tags EXCEPT ![t] = [status |-> st, owner |-> nfc_tags[t].owner]]
      /\ Live(t)
  <2>1. Live(t)
    BY DEF admin_set_tag_suspension, Live
  <2>2. nfc_tags' = [nfc_tags EXCEPT ![t] = [nfc_tags[t] EXCEPT !.status = st]]
    BY DEF admin_set_tag_suspension
  <2>3. [nfc_tags[t] EXCEPT !.status = st] = [status |-> st, owner |-> nfc_tags[t].owner]
    BY <1>1 DEF TagRow
  <2>. QED
    BY <2>1, <2>2, <2>3
<1>3. st \in LifecycleStatus /\ nfc_tags[t].owner \in Users \cup {NoUser}
  BY <1>1 DEF TagRow, LifecycleStatus
<1>4. /\ nfc_tags' \in [Tags -> TagRow]
      /\ nfc_tags'[t].status = st /\ nfc_tags'[t].owner = nfc_tags[t].owner
      /\ \A s \in Tags \ {t} : nfc_tags'[s] = nfc_tags[s]
  BY <1>1, <1>2, <1>3, SetTagType
<1>5. TypeOK'
  BY <1>1, <1>4 DEF admin_set_tag_suspension, TypeOK, TablesTypeOK
<1>6. OwnedIffLive' /\ OwnersRecorded'
  <2>1. UNCHANGED everOwned
    BY DEF admin_set_tag_suspension
  <2>2. OwnedIffLive'
    BY <1>2, <1>4 DEF IInv, OwnedIffLive, Live
  <2>3. OwnersRecorded'
    BY <1>4, <2>1 DEF IInv, OwnersRecorded
  <2>. QED
    BY <2>2, <2>3
<1>7. OnlyOwnersAct'
  BY DEF admin_set_tag_suspension, IInv, OnlyOwnersAct
<1>. QED
  BY <1>5, <1>6, <1>7 DEF IInv

LEMMA ResetIInv ==
    ASSUME IInv, NEW old \in Tags, NEW new \in Tags, NEW x \in Transfers,
           admin_reset_token(old, new, x)
    PROVE  IInv'
<1> DEFINE owner == nfc_tags[old].owner
           row == [NoRow EXCEPT !.status = "COMPLETED", !.tag = new,
                                !.from = owner, !.to = owner]
<1>1. TypeOK /\ TablesTypeOK /\ nfc_tags[old] \in TagRow
  BY DEF IInv, TypeOK, TablesTypeOK
<1>2. owner \in Users /\ old # new
  BY <1>1 DEF admin_reset_token, TagRow
<1>3. /\ nfc_tags' \in [Tags -> TagRow]
      /\ nfc_tags'[new].status = "ACTIVE" /\ nfc_tags'[new].owner = owner
      /\ nfc_tags'[old].status = "RETIRED" /\ nfc_tags'[old].owner = NoUser
      /\ \A s \in Tags \ {old, new} : nfc_tags'[s] = nfc_tags[s]
  <2>1. /\ [status |-> "ACTIVE", owner |-> owner] \in TagRow
        /\ [status |-> "RETIRED", owner |-> NoUser] \in TagRow
    BY <1>2 DEF TagRow, LifecycleStatus
  <2>2. nfc_tags' = [[nfc_tags EXCEPT ![new] = [status |-> "ACTIVE", owner |-> owner]]
                       EXCEPT ![old] = [status |-> "RETIRED", owner |-> NoUser]]
    BY DEF admin_reset_token
  <2>. QED
    BY <1>1, <1>2, <2>1, <2>2 DEF TablesTypeOK
<1>4. /\ row \in TransferRow
      /\ row.status = "COMPLETED" /\ row.tag = new /\ row.from = owner /\ row.to = owner
  BY <1>2 DEF NoRow, TransferRow, TransferStatus
<1>5. ownership_transfers' = [ownership_transfers EXCEPT ![x] = row]
  BY DEF admin_reset_token
<1> HIDE DEF row
<1>6. TablesTypeOK'
  <2>1. ownership_proofs' \in [Tags -> Users \cup {NoUser}]
    BY <1>1, <1>2 DEF admin_reset_token, TablesTypeOK
  <2>. QED
    BY <1>1, <1>2, <1>3, <1>4, <1>5, <2>1, InsertType DEF TablesTypeOK
<1>7. /\ everOwned' \in [Tags -> SUBSET Users]
      /\ \A s \in Tags : everOwned[s] \subseteq everOwned'[s]
      /\ OwnersRecorded'
  BY <1>1, <1>3, RecordOwnersType DEF admin_reset_token
<1>8. TypeOK'
  BY <1>1, <1>6, <1>7 DEF admin_reset_token, TypeOK
<1>9. OwnedIffLive'
  BY <1>2, <1>3, NullAssumption DEF IInv, OwnedIffLive, Live
<1>10. OnlyOwnersAct'
  BY <1>1, <1>4, <1>5, <1>7
     DEF admin_reset_token, IInv, OnlyOwnersAct, TypeOK, TablesTypeOK
<1>. QED
  BY <1>7, <1>8, <1>9, <1>10 DEF IInv

LEMMA NextIInv == IInv /\ [Next]_vars => IInv'
<1> SUFFICES ASSUME IInv, [Next]_vars PROVE IInv'
  OBVIOUS
<1>1. ASSUME NEW r \in Requests, ClaimStep(r) PROVE IInv'
  BY <1>1, ClaimTagIInv, ProofStepsIInv DEF ClaimStep
<1>2. ASSUME NEW r \in Requests, InitiateStep(r) PROVE IInv'
  <2>1. ASSUME NEW u \in Users, NEW t \in Tags, NEW target \in Targets,
               InitiateReads(r, u, t, target[1], target[2])
        PROVE  IInv'
    <3>1. target[1] \in Users \cup {NoUser} /\ target[2] \in Users \cup {NoUser}
      BY DEF Targets
    <3>. QED
      BY <2>1, <3>1, ReadStepsIInv
  <2>. QED
    BY <1>2, <2>1, InitiateInsertsIInv DEF InitiateStep
<1>3. ASSUME NEW r \in Requests, ReleaseStep(r) PROVE IInv'
  BY <1>3, ReadStepsIInv, ReleaseStepsIInv, ProofStepsIInv DEF ReleaseStep
<1>4. ASSUME NEW r \in Requests, AbortRequest(r) PROVE IInv'
  BY <1>4, AbortRequestIInv
<1>5. ASSUME NEW x \in Transfers, TransferStep(x) PROVE IInv'
  BY <1>5, RowStepsIInv, SettleTransferIInv DEF TransferStep
<1>6. ASSUME NEW t \in Tags, AdminStep(t) PROVE IInv'
  BY <1>6, SuspensionIInv, ResetIInv DEF AdminStep
<1>7. CASE UNCHANGED vars
  BY <1>7 DEF vars, tables, IInv, TypeOK, TablesTypeOK, OwnedIffLive, Live,
              OnlyOwnersAct, OwnersRecorded
<1>. QED
  BY <1>1, <1>2, <1>3, <1>4, <1>5, <1>6, <1>7 DEF Next

(* The tables and every request keep their types.                          *)
THEOREM TypeCorrect == Spec => []TypeOK
<1>1. IInv => TypeOK
  BY DEF IInv
<1>. QED
  BY InitIInv, NextIInv, <1>1, PTL DEF Spec

(* A chip has an owner exactly while it is ACTIVE or SUSPENDED.            *)
THEOREM OwnerCorrect == Spec => []OwnedIffLive
<1>1. IInv => OwnedIffLive
  BY DEF IInv
<1>. QED
  BY InitIInv, NextIInv, <1>1, PTL DEF Spec

(* Transfers are pending, and requests run, only on the word of someone    *)
(* who has owned the chip.                                                 *)
THEOREM OnlyOwners == Spec => []OnlyOwnersAct
<1>1. IInv => OnlyOwnersAct
  BY DEF IInv
<1>. QED
  BY InitIInv, NextIInv, <1>1, PTL DEF Spec

-----------------------------------------------------------------------------
(* Action properties: each step, from a state that satisfies the invariant.*)

(* The step that gives u the chip t is a claim, a settled transfer to u or *)
(* a reset of a token of u.                                                *)
LEMMA GainStep ==
    ASSUME IInv, [Next]_vars, NEW t \in Tags, NEW u \in Users,
           nfc_tags[t].owner # u, nfc_tags'[t].owner = u
    PROVE  \/ nfc_tags[t].status = "ENROLLED" /\ UNCHANGED ownership_transfers
           \/ \E x \in PendingOn(t) :
                 ownership_transfers[x].to = u /\ ownership_transfers'[x].status = "COMPLETED"
           \/ \E old \in Tags :
                 nfc_tags[old].owner = u /\ nfc_tags'[old].status = "RETIRED"
<1> DEFINE Explained ==
           \/ nfc_tags[t].status = "ENROLLED" /\ UNCHANGED ownership_transfers
           \/ \E x \in PendingOn(t) :
                 ownership_transfers[x].to = u /\ ownership_transfers'[x].status = "COMPLETED"
           \/ \E old \in Tags :
                 nfc_tags[old].owner = u /\ nfc_tags'[old].status = "RETIRED"
<1>1. TablesTypeOK /\ u # NoUser
  BY NullAssumption DEF IInv, TypeOK
<1>2. ASSUME NEW r \in Requests, ClaimStep(r) PROVE Explained
  <2>1. ASSUME NEW v \in Users, NEW s \in Tags, ClaimTag(r, v, s) PROVE Explained
    <3>1. s = t
      BY <1>1, <2>1 DEF ClaimTag, TablesTypeOK
    <3>. QED
      BY <2>1, <3>1 DEF ClaimTag
  <2>. QED
    BY <1>2, <2>1 DEF ClaimStep, StaleProof, InsertProof
<1>3. ASSUME NEW r \in Requests, ReleaseStep(r) PROVE FALSE
  BY <1>1, <1>3 DEF ReleaseStep, ReleaseReads, ReleaseChecks, ReleaseUpdates,
                    ReleaseDropsProof, tables, TablesTypeOK
<1>4. ASSUME NEW r \in Requests, InitiateStep(r) \/ AbortRequest(r) PROVE FALSE
  BY <1>4 DEF InitiateStep, InitiateReads, InitiateInserts, AbortRequest, tables
<1>5. ASSUME NEW x \in Transfers, CancelTransfer(x) \/ ResolveRecipient(x) PROVE FALSE
  BY <1>5 DEF CancelTransfer, CancelRow, ResolveRecipient
<1>6. ASSUME NEW x \in Transfers, SettleTransfer(x) PROVE Explained
  <2>1. ownership_transfers[x].status = "PENDING"
    BY <1>1, <1>6, AppliedRow DEF SettleTransfer
  <2>2. ownership_transfers[x].tag = t /\ ownership_transfers[x].to = u
    BY <1>1, <1>6 DEF SettleTransfer, CompleteRow, TablesTypeOK
  <2>3. ownership_transfers'[x].status = "COMPLETED"
    BY <1>1, <1>6 DEF SettleTransfer, CompleteRow, TablesTypeOK, TransferRow
  <2>. QED
    BY <2>1, <2>2, <2>3 DEF PendingOn
<1>7. ASSUME NEW s \in Tags, NEW suspend \in BOOLEAN, admin_set_tag_suspension(s, suspend)
      PROVE  FALSE
  BY <1>1, <1>7 DEF admin_set_tag_suspension, TablesTypeOK, TagRow
<1>8. ASSUME NEW old \in Tags, NEW new \in Tags, NEW x \in Transfers,
             admin_reset_token(old, new, x)
      PROVE  Explained
  <2>1. nfc_tags[old].owner = u
    BY <1>1, <1>8 DEF admin_reset_token, TablesTypeOK
  <2>2. nfc_tags'[old].status = "RETIRED"
    BY <1>1, <1>8 DEF admin_reset_token, TablesTypeOK
  <2>. QED
    BY <2>1, <2>2
<1>9. CASE UNCHANGED vars
  BY <1>9 DEF vars, tables
<1>. QED
  BY <1>2, <1>3, <1>4, <1>5, <1>6, <1>7, <1>8, <1>9 DEF Next, TransferStep, AdminStep

(* A token is gained only by a claim, as the recipient of a transfer that  *)
(* completes, or through a reset of one's own token.                       *)
THEOREM GainsExplained == Spec => GainsAreExplained
<1>1. IInv /\ [Next]_vars =>
        [\A t \in Tags : \A u \in Users :
           nfc_tags[t].owner # u /\ nfc_tags'[t].owner = u =>
              \/ nfc_tags[t].status = "ENROLLED" /\ UNCHANGED ownership_transfers
              \/ \E x \in PendingOn(t) :
                    ownership_transfers[x].to = u /\ ownership_transfers'[x].status = "COMPLETED"
              \/ \E old \in Tags :
                    nfc_tags[old].owner = u /\ nfc_tags'[old].status = "RETIRED"]_vars
  BY GainStep
<1>. QED
  BY InitIInv, NextIInv, <1>1, PTL DEF Spec, GainsAreExplained

(* No action brings a retired chip back.                                   *)
LEMMA RetiredStep == IInv /\ [Next]_vars =>
    \A t \in Tags : nfc_tags[t].status = "RETIRED" => nfc_tags'[t] = nfc_tags[t]
<1> SUFFICES ASSUME IInv, [Next]_vars, NEW t \in Tags, nfc_tags[t].status = "RETIRED"
             PROVE  nfc_tags'[t] = nfc_tags[t]
  OBVIOUS
<1>1. TablesTypeOK
  BY DEF IInv, TypeOK
<1>2. ASSUME NEW r \in Requests, ClaimStep(r) PROVE nfc_tags'[t] = nfc_tags[t]
  BY <1>1, <1>2 DEF ClaimStep, ClaimTag, StaleProof, InsertProof, TablesTypeOK
<1>3. ASSUME NEW r \in Requests, InitiateStep(r) PROVE nfc_tags'[t] = nfc_tags[t]
  BY <1>3 DEF InitiateStep, InitiateReads, InitiateInserts, tables
<1>4. ASSUME NEW r \in Requests, ReleaseStep(r) PROVE nfc_tags'[t] = nfc_tags[t]
  BY <1>1, <1>4 DEF ReleaseStep, ReleaseReads, ReleaseChecks, ReleaseUpdates,
                    ReleaseDropsProof, tables, TablesTypeOK
<1>5. ASSUME NEW r \in Requests, AbortRequest(r) PROVE nfc_tags'[t] = nfc_tags[t]
  BY <1>5 DEF AbortRequest, tables
<1>6. ASSUME NEW x \in Transfers, CancelTransfer(x) \/ ResolveRecipient(x)
      PROVE  nfc_tags'[t] = nfc_tags[t]
  BY <1>6 DEF CancelTransfer, CancelRow, ResolveRecipient
<1>7. ASSUME NEW x \in Transfers, SettleTransfer(x) PROVE nfc_tags'[t] = nfc_tags[t]
  <2>1. ownership_transfers[x].tag # t
    BY <1>1, <1>7, AppliedRow DEF SettleTransfer
  <2>. QED
    BY <1>1, <1>7, <2>1 DEF SettleTransfer, CompleteRow, TablesTypeOK
<1>8. ASSUME NEW s \in Tags, AdminStep(s) PROVE nfc_tags'[t] = nfc_tags[t]
  <2>1. ASSUME NEW suspend \in BOOLEAN, admin_set_tag_suspension(s, suspend)
        PROVE  nfc_tags'[t] = nfc_tags[t]
    BY <1>1, <2>1 DEF admin_set_tag_suspension, TablesTypeOK
  <2>2. ASSUME NEW new \in Tags, NEW x \in Transfers, admin_reset_token(s, new, x)
        PROVE  nfc_tags'[t] = nfc_tags[t]
    <3>1. s # t
      BY <2>2 DEF admin_reset_token
    <3>2. new # t
      BY <2>2 DEF admin_reset_token
    <3>. QED
      BY <1>1, <2>2, <3>1, <3>2 DEF admin_reset_token, TablesTypeOK
  <2>. QED
    BY <1>8, <2>1, <2>2 DEF AdminStep
<1>9. CASE UNCHANGED vars
  BY <1>9 DEF vars, tables
<1>. QED
  BY <1>2, <1>3, <1>4, <1>5, <1>6, <1>7, <1>8, <1>9 DEF Next, TransferStep

(* A retired chip never comes back, whatever was in flight when it was     *)
(* retired.                                                                *)
THEOREM RetiredChipIsFinal == Spec => RetiredIsFinal
<1>1. IInv /\ [Next]_vars =>
        [\A t \in Tags : nfc_tags[t].status = "RETIRED" => nfc_tags'[t] = nfc_tags[t]]_vars
  BY RetiredStep
<1>. QED
  BY InitIInv, NextIInv, <1>1, PTL DEF Spec, RetiredIsFinal

-----------------------------------------------------------------------------
(* How a suspension of chip t ends, if it ends in this step.               *)
SuspensionEnds(t) ==
    nfc_tags[t].status = "SUSPENDED" /\ nfc_tags'[t].status # "SUSPENDED" =>
       \/ /\ nfc_tags'[t] = [status |-> "ACTIVE", owner |-> nfc_tags[t].owner]
          /\ UNCHANGED <<ownership_transfers, requests>>
       \/ nfc_tags'[t].status = "RETIRED"

(* Owner requests and payments leave a suspension alone.                   *)
LEMMA SuspensionStep == IInv /\ [Next]_vars => \A t \in Tags : SuspensionEnds(t)
<1> SUFFICES ASSUME IInv, [Next]_vars, NEW t \in Tags, nfc_tags[t].status = "SUSPENDED"
             PROVE  SuspensionEnds(t)
  BY DEF SuspensionEnds
<1>1. TablesTypeOK
  BY DEF IInv, TypeOK
<1>2. ASSUME NEW r \in Requests, ClaimStep(r) PROVE nfc_tags'[t] = nfc_tags[t]
  BY <1>1, <1>2 DEF ClaimStep, ClaimTag, StaleProof, InsertProof, TablesTypeOK
<1>3. ASSUME NEW r \in Requests, InitiateStep(r) PROVE nfc_tags'[t] = nfc_tags[t]
  BY <1>3 DEF InitiateStep, InitiateReads, InitiateInserts, tables
<1>4. ASSUME NEW r \in Requests, ReleaseStep(r) PROVE nfc_tags'[t] = nfc_tags[t]
  BY <1>1, <1>4 DEF ReleaseStep, ReleaseReads, ReleaseChecks, ReleaseUpdates,
                    ReleaseDropsProof, tables, TablesTypeOK
<1>5. ASSUME NEW r \in Requests, AbortRequest(r) PROVE nfc_tags'[t] = nfc_tags[t]
  BY <1>5 DEF AbortRequest, tables
<1>6. ASSUME NEW x \in Transfers, CancelTransfer(x) \/ ResolveRecipient(x)
      PROVE  nfc_tags'[t] = nfc_tags[t]
  BY <1>6 DEF CancelTransfer, CancelRow, ResolveRecipient
<1>7. ASSUME NEW x \in Transfers, SettleTransfer(x)
      PROVE  nfc_tags'[t].status = "SUSPENDED"
  <2>1. CASE ownership_transfers[x].tag = t
    BY <1>1, <1>7, <2>1 DEF SettleTransfer, CompleteRow, TablesTypeOK
  <2>2. CASE ownership_transfers[x].tag # t
    BY <1>1, <1>7, <2>2 DEF SettleTransfer, CompleteRow, TablesTypeOK
  <2>. QED
    BY <2>1, <2>2
<1>8. ASSUME NEW s \in Tags, AdminStep(s) PROVE SuspensionEnds(t)
  <2>1. ASSUME NEW suspend \in BOOLEAN, admin_set_tag_suspension(s, suspend)
        PROVE  SuspensionEnds(t)
    <3>1. CASE s # t
      BY <1>1, <2>1, <3>1 DEF admin_set_tag_suspension, TablesTypeOK, SuspensionEnds
    <3>2. CASE s = t
      <4>1. ~suspend
        BY <2>1, <3>2 DEF admin_set_tag_suspension
      <4>2. nfc_tags' = [nfc_tags EXCEPT ![t].status = "ACTIVE"]
        BY <2>1, <3>2, <4>1 DEF admin_set_tag_suspension
      <4>3. nfc_tags[t] \in TagRow
        BY <1>1 DEF TablesTypeOK
      <4>4. nfc_tags'[t] = [status |-> "ACTIVE", owner |-> nfc_tags[t].owner]
        BY <1>1, <4>2, <4>3 DEF TablesTypeOK, TagRow
      <4>. QED
        BY <2>1, <4>4 DEF admin_set_tag_suspension, SuspensionEnds
    <3>. QED
      BY <3>1, <3>2
  <2>2. ASSUME NEW new \in Tags, NEW x \in Transfers, admin_reset_token(s, new, x)
        PROVE  SuspensionEnds(t)
    <3>1. new # t
      BY <2>2 DEF admin_reset_token
    <3>. QED
      BY <1>1, <2>2, <3>1 DEF admin_reset_token, TablesTypeOK, SuspensionEnds
  <2>. QED
    BY <1>8, <2>1, <2>2 DEF AdminStep
<1>9. CASE UNCHANGED vars
  BY <1>9 DEF vars, tables, SuspensionEnds
<1>. QED
  BY <1>2, <1>3, <1>4, <1>5, <1>6, <1>7, <1>8, <1>9 DEF Next, TransferStep, SuspensionEnds

(* Only an admin ends a suspension: no payment and no owner request does.  *)
THEOREM SuspensionEndedByAdmin == Spec => SuspensionEndsByAdmin
<1>1. IInv /\ [Next]_vars =>
        [\A t \in Tags : nfc_tags[t].status = "SUSPENDED" /\ nfc_tags'[t].status # "SUSPENDED" =>
            \/ /\ nfc_tags'[t] = [status |-> "ACTIVE", owner |-> nfc_tags[t].owner]
               /\ UNCHANGED <<ownership_transfers, requests>>
            \/ nfc_tags'[t].status = "RETIRED"]_vars
  BY SuspensionStep DEF SuspensionEnds
<1>. QED
  BY InitIInv, NextIInv, <1>1, PTL DEF Spec, SuspensionEndsByAdmin
=============================================================================
