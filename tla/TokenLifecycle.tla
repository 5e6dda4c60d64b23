----------------------------- MODULE TokenLifecycle ----------------------------
(***************************************************************************)
(* The life of a token: claim, two-sided transfer, release, suspension and *)
(* reset.  Owner requests (claimTag, initiateTransfer, releaseTag) make    *)
(* several database calls without a transaction, so each call is an action *)
(* and a request slot carries what it read from one call to the next.  The *)
(* admin operations and the settling of a fee are database functions and   *)
(* are atomic.  How the fee is paid is module TransferFee; how a tap       *)
(* proves possession is module TapPossession.                              *)
(***************************************************************************)
EXTENDS TokenTables

CONSTANTS Requests  \* owner requests that may be in flight together

VARIABLES
    requests,   \* slot -> where the request stands and what it read
    everOwned   \* history: who has been current_owner_id of a chip

vars == <<tables, requests, everOwned>>

(* pc names the call the request makes next.                               *)
RequestSlot ==
    [pc    : {"idle", "stale_proof", "insert_proof", "insert_transfer",
              "check_pending", "update_released", "drop_proof"},
     user  : Users \cup {NoUser},
     tag   : Tags \cup {NoTag},
     to    : Users \cup {NoUser},
     email : Users \cup {NoUser}]

IdleRequest ==
    [pc |-> "idle", user |-> NoUser, tag |-> NoTag, to |-> NoUser, email |-> NoUser]

(* Type correctness; a request in flight has a caller and a chip.          *)
TypeOK ==
    /\ TablesTypeOK
    /\ requests \in [Requests -> RequestSlot]
    /\ \A r \in Requests : requests[r].pc # "idle" =>
          requests[r].user \in Users /\ requests[r].tag \in Tags
    /\ everOwned \in [Tags -> SUBSET Users]

Init ==
    /\ nfc_tags = [t \in Tags |-> [status |-> "ENROLLED", owner |-> NoUser]]
    /\ ownership_proofs = [t \in Tags |-> NoUser]
    /\ ownership_transfers = [x \in Transfers |-> NoRow]
    /\ requests = [r \in Requests |-> IdleRequest]
    /\ everOwned = [t \in Tags |-> {}]

-----------------------------------------------------------------------------
Begin(r, pc, u, t, to, email) ==
    /\ requests[r].pc = "idle"
    /\ requests' = [requests EXCEPT ![r] =
          [pc |-> pc, user |-> u, tag |-> t, to |-> to, email |-> email]]

Continue(r, from, to) ==
    /\ requests[r].pc = from
    /\ requests' = [requests EXCEPT ![r].pc = to]

Finish(r, from) ==
    /\ requests[r].pc = from
    /\ requests' = [requests EXCEPT ![r] = IdleRequest]

(* everOwned follows current_owner_id.                                     *)
RecordOwners ==
    everOwned' = [t \in Tags |-> everOwned[t] \cup ({nfc_tags'[t].owner} \ {NoUser})]

-----------------------------------------------------------------------------
(* claimTag.  The reads and the minting only refuse; the UPDATE is         *)
(* conditional on ENROLLED.  The proof is rotated after it, in two calls.  *)

(* Mutant of ClaimTag: the UPDATE is not conditional.                      *)
ClaimTagUnconditionally(r, u, t) ==
    /\ Begin(r, "stale_proof", u, t, NoUser, NoUser)
    /\ nfc_tags' = [nfc_tags EXCEPT ![t] = [status |-> "ACTIVE", owner |-> u]]
    /\ RecordOwners
    /\ UNCHANGED <<ownership_proofs, ownership_transfers>>

(* commit_seal makes the same change in a transaction of its own.          *)
ClaimTag(r, u, t) ==
    /\ nfc_tags[t].status = "ENROLLED"
    /\ Begin(r, "stale_proof", u, t, NoUser, NoUser)
    /\ nfc_tags' = [nfc_tags EXCEPT ![t] = [status |-> "ACTIVE", owner |-> u]]
    /\ RecordOwners
    /\ UNCHANGED <<ownership_proofs, ownership_transfers>>

(* rotateOwnershipProof, first call: the chip's current proof goes stale.  *)
StaleProof(r) ==
    /\ Continue(r, "stale_proof", "insert_proof")
    /\ ownership_proofs' = [ownership_proofs EXCEPT ![requests[r].tag] = NoUser]
    /\ UNCHANGED <<nfc_tags, ownership_transfers, everOwned>>

(* Second call.  One current proof per chip: the insert fails, and the     *)
(* request with it, when another has been stored in between.               *)
InsertProof(r) ==
    LET t == requests[r].tag IN
    /\ Finish(r, "insert_proof")
    /\ ownership_proofs' = [ownership_proofs EXCEPT
                              ![t] = IF @ = NoUser THEN requests[r].user ELSE @]
    /\ UNCHANGED <<nfc_tags, ownership_transfers, everOwned>>

-----------------------------------------------------------------------------
(* initiateTransfer.                                                       *)

(* Mutant of InitiateReads: the caller need not be the owner.              *)
InitiateReadsAnyTag(r, u, t, to, email) ==
    /\ nfc_tags[t].status = "ACTIVE"
    /\ (to = NoUser) # (email = NoUser)
    /\ Begin(r, "insert_transfer", u, t, to, email)
    /\ UNCHANGED <<tables, everOwned>>

(* loadTag and assertTagOwner: the caller owns an ACTIVE chip.  The target *)
(* is an account or an address, never both.                                *)
InitiateReads(r, u, t, to, email) ==
    /\ nfc_tags[t].owner = u
    /\ nfc_tags[t].status = "ACTIVE"
    /\ (to = NoUser) # (email = NoUser)
    /\ Begin(r, "insert_transfer", u, t, to, email)
    /\ UNCHANGED <<tables, everOwned>>

(* The INSERT.  The SELECT for a pending transfer just before it decides   *)
(* nothing the unique index does not decide again.  Who pays the fee is    *)
(* part of the row, but only module TransferFee looks at it.               *)
InitiateInserts(r, x) ==
    LET req == requests[r] IN
    /\ Finish(r, "insert_transfer")
    /\ ownership_transfers[x].status = "NONE"
    /\ PendingOn(req.tag) = {}
    /\ ownership_transfers' = [ownership_transfers EXCEPT ![x] =
          [NoRow EXCEPT !.status = "PENDING", !.tag = req.tag, !.from = req.user,
                        !.to = req.to, !.to_email = req.email]]
    /\ UNCHANGED <<nfc_tags, ownership_proofs, everOwned>>

(* cancelTransfer: one conditional UPDATE by the sender.                   *)
CancelTransfer(x) ==
    /\ CancelRow(x)
    /\ UNCHANGED <<requests, everOwned>>

(* completeTransfer resolves an address onto its account.                  *)
ResolveRecipient(x) ==
    LET row == ownership_transfers[x] IN
    /\ row.status = "PENDING"
    /\ row.to = NoUser
    /\ ownership_transfers' = [ownership_transfers EXCEPT ![x].to = row.to_email]
    /\ UNCHANGED <<nfc_tags, ownership_proofs, requests, everOwned>>

(* apply_transfer_fee, once the fee is paid or a voucher used.             *)
SettleTransfer(x) ==
    /\ ApplyOutcome(x, NoIntent) = "applied"
    /\ CompleteRow(x, NoIntent)
    /\ RecordOwners
    /\ UNCHANGED requests

-----------------------------------------------------------------------------
(* releaseTag.                                                             *)

(* loadTag, assertTagOwner and terminalStateError.                         *)
ReleaseReads(r, u, t) ==
    /\ nfc_tags[t].owner = u
    /\ nfc_tags[t].status \notin {"RELEASED", "RETIRED", "SUSPENDED"}
    /\ Begin(r, "check_pending", u, t, NoUser, NoUser)
    /\ UNCHANGED <<tables, everOwned>>

(* A pending transfer that the look finds ends the request: AbortRequest.  *)
(* The error of the look is dropped, so that one that fails lets the       *)
(* release go on whatever is pending.                                      *)
ReleaseChecks(r) ==
    /\ Continue(r, "check_pending", "update_released")
    /\ UNCHANGED <<tables, everOwned>>

(* Mutant of ReleaseUpdates: the owner is left on the row.                 *)
ReleaseUpdatesStatusOnly(r) ==
    LET t == requests[r].tag IN
    /\ Continue(r, "update_released", "drop_proof")
    /\ nfc_tags[t].status = "ACTIVE"
    /\ nfc_tags' = [nfc_tags EXCEPT ![t].status = "RELEASED"]
    /\ UNCHANGED <<ownership_proofs, ownership_transfers, everOwned>>

(* UPDATE ... WHERE lifecycle_status = 'ACTIVE': neither the owner nor the *)
(* pending transfers are looked at again.                                  *)
ReleaseUpdates(r) ==
    LET t == requests[r].tag IN
    /\ Continue(r, "update_released", "drop_proof")
    /\ nfc_tags[t].status = "ACTIVE"
    /\ nfc_tags' = [nfc_tags EXCEPT ![t] = [status |-> "RELEASED", owner |-> NoUser]]
    /\ UNCHANGED <<ownership_proofs, ownership_transfers, everOwned>>

ReleaseDropsProof(r) ==
    /\ Finish(r, "drop_proof")
    /\ ownership_proofs' = [ownership_proofs EXCEPT ![requests[r].tag] = NoUser]
    /\ UNCHANGED <<nfc_tags, ownership_transfers, everOwned>>

(* A refusal, a failed call or a crash: the request ends where it stands.  *)
AbortRequest(r) ==
    /\ requests[r].pc # "idle"
    /\ requests' = [requests EXCEPT ![r] = IdleRequest]
    /\ UNCHANGED <<tables, everOwned>>

-----------------------------------------------------------------------------
(* Admin operations.                                                       *)

admin_set_tag_suspension(t, suspend) ==
    /\ nfc_tags[t].status = IF suspend THEN "ACTIVE" ELSE "SUSPENDED"
    /\ nfc_tags' = [nfc_tags EXCEPT ![t].status = IF suspend THEN "SUSPENDED" ELSE "ACTIVE"]
    /\ UNCHANGED <<ownership_proofs, ownership_transfers, requests, everOwned>>

(* Mutant of admin_reset_token: the custody row names no recipient.        *)
ResetWithoutRecipient(old, new, x) ==
    LET owner == nfc_tags[old].owner IN
    /\ nfc_tags[old].status \in {"ACTIVE", "SUSPENDED"}
    /\ owner # NoUser
    /\ nfc_tags[new] = [status |-> "ENROLLED", owner |-> NoUser]
    /\ PendingOn(old) = {}
    /\ ownership_transfers[x].status = "NONE"
    /\ nfc_tags' = [nfc_tags EXCEPT
                      ![new] = [status |-> "ACTIVE", owner |-> owner],
                      ![old] = [status |-> "RETIRED", owner |-> NoUser]]
    /\ ownership_transfers' = [ownership_transfers EXCEPT ![x] =
          [NoRow EXCEPT !.status = "COMPLETED", !.tag = new, !.from = owner]]
    /\ ownership_proofs' = [ownership_proofs EXCEPT ![old] = NoUser, ![new] = owner]
    /\ RecordOwners
    /\ UNCHANGED requests

(* The token moves to a new chip, the old chip is retired, and a completed *)
(* transfer row x records the custody.                                     *)
admin_reset_token(old, new, x) ==
    LET owner == nfc_tags[old].owner IN
    /\ nfc_tags[old].status \in {"ACTIVE", "SUSPENDED"}
    /\ owner # NoUser
    /\ nfc_tags[new] = [status |-> "ENROLLED", owner |-> NoUser]
    /\ PendingOn(old) = {}
    /\ ownership_transfers[x].status = "NONE"
    /\ nfc_tags' = [nfc_tags EXCEPT
                      ![new] = [status |-> "ACTIVE", owner |-> owner],
                      ![old] = [status |-> "RETIRED", owner |-> NoUser]]
    /\ ownership_transfers' = [ownership_transfers EXCEPT ![x] =
          [NoRow EXCEPT !.status = "COMPLETED", !.tag = new, !.from = owner, !.to = owner]]
    /\ ownership_proofs' = [ownership_proofs EXCEPT ![old] = NoUser, ![new] = owner]
    /\ RecordOwners
    /\ UNCHANGED requests

-----------------------------------------------------------------------------
Targets == {<<u, NoUser>> : u \in Users} \cup {<<NoUser, u>> : u \in Users}

ClaimStep(r) ==
    \/ \E u \in Users, t \in Tags : ClaimTag(r, u, t)
    \/ StaleProof(r)
    \/ InsertProof(r)

InitiateStep(r) ==
    \/ \E u \in Users, t \in Tags, target \in Targets :
          InitiateReads(r, u, t, target[1], target[2])
    \/ \E x \in Transfers : InitiateInserts(r, x)

ReleaseStep(r) ==
    \/ \E u \in Users, t \in Tags : ReleaseReads(r, u, t)
    \/ ReleaseChecks(r)
    \/ ReleaseUpdates(r)
    \/ ReleaseDropsProof(r)

TransferStep(x) == CancelTransfer(x) \/ ResolveRecipient(x) \/ SettleTransfer(x)

AdminStep(t) ==
    \/ \E suspend \in BOOLEAN : admin_set_tag_suspension(t, suspend)
    \/ \E new \in Tags, x \in Transfers : admin_reset_token(t, new, x)

Next ==
    \/ \E r \in Requests :
          ClaimStep(r) \/ InitiateStep(r) \/ ReleaseStep(r) \/ AbortRequest(r)
    \/ \E x \in Transfers : TransferStep(x)
    \/ \E t \in Tags : AdminStep(t)

Spec == Init /\ [][Next]_vars

-----------------------------------------------------------------------------
(* Properties.                                                             *)

Live(t) == nfc_tags[t].status \in {"ACTIVE", "SUSPENDED"}

(* A chip has an owner exactly while it is ACTIVE or SUSPENDED, whatever   *)
(* requests, payments and admin operations overlap.                        *)
OwnedIffLive == \A t \in Tags : nfc_tags[t].owner # NoUser <=> Live(t)

(* No transfer is ever pending, and so none ever moves a token, on the     *)
(* word of someone who never owned it; nor is a release under way on one.  *)
OnlyOwnersAct ==
    /\ \A x \in Transfers : ownership_transfers[x].status = "PENDING" =>
          ownership_transfers[x].from \in everOwned[ownership_transfers[x].tag]
    /\ \A r \in Requests : requests[r].pc # "idle" =>
          requests[r].user \in everOwned[requests[r].tag]

(* Only an admin ends a suspension: the chip returns to the same owner with*)
(* its transfers untouched, or it is retired.                              *)
SuspensionEndsByAdmin ==
    [][\A t \in Tags : nfc_tags[t].status = "SUSPENDED" /\ nfc_tags'[t].status # "SUSPENDED" =>
          \/ /\ nfc_tags'[t] = [status |-> "ACTIVE", owner |-> nfc_tags[t].owner]
             /\ UNCHANGED <<ownership_transfers, requests>>
          \/ nfc_tags'[t].status = "RETIRED"]_vars

(* A retired chip never comes back, although a transfer of it may still be *)
(* pending and a request that read it alive may still be running.          *)
RetiredIsFinal ==
    [][\A t \in Tags : nfc_tags[t].status = "RETIRED" => nfc_tags'[t] = nfc_tags[t]]_vars

(* An account gains a token by claiming an unclaimed chip, as the recorded *)
(* recipient of a transfer that completes in the same step, or, already    *)
(* its owner, by a reset that retires the old chip in the same step.       *)
GainsAreExplained ==
    [][\A t \in Tags : \A u \in Users :
          nfc_tags[t].owner # u /\ nfc_tags'[t].owner = u =>
             \/ nfc_tags[t].status = "ENROLLED" /\ UNCHANGED ownership_transfers
             \/ \E x \in PendingOn(t) :
                   ownership_transfers[x].to = u /\ ownership_transfers'[x].status = "COMPLETED"
             \/ \E old \in Tags :
                   nfc_tags[old].owner = u /\ nfc_tags'[old].status = "RETIRED"]_vars

-----------------------------------------------------------------------------
(* What the comments of tagManagementController.ts say and the code does   *)
(* not do.                                                                 *)

(* RELEASED is terminal.                                                   *)
ReleasedIsFinal ==
    [][\A t \in Tags : nfc_tags[t].status = "RELEASED" => nfc_tags'[t] = nfc_tags[t]]_vars

(* After completion the previous owner loses every right: only the current *)
(* owner's own transfer moves a token on.                                  *)
TransferIsByOwner ==
    [][\A x \in Transfers :
          ownership_transfers[x].status = "PENDING" /\ ownership_transfers'[x].status = "COMPLETED" =>
             LET t == ownership_transfers[x].tag IN
             nfc_tags[t].owner \in {NoUser, ownership_transfers[x].from}]_vars
=============================================================================
