------------------------- MODULE AdminApprovals_proofs -------------------------
(***************************************************************************)
(* Proofs about AdminApprovals, for any number of accounts, approvals and  *)
(* requests in flight, any mix of staff roles that has a super_admin to    *)
(* begin with, and a process that may die between any two transactions.    *)
(***************************************************************************)
EXTENDS AdminApprovals, TLAPS

(* A retired account has no role; retired_role marks a retired account.    *)
AccountsOK ==
    \A u \in Accounts :
       /\ accounts[u].retired => accounts[u].role = "none"
       /\ accounts[u].wasStaff => accounts[u].retired

(* What a slot holds at each point of its request.                         *)
SlotOK(q) ==
    /\ q.pc # "idle" => q.admin \in Accounts /\ q.target \in Accounts
    /\ q.pc = "ask" => q.action \in Gated
    /\ q.pc \in {"idle", "ask"} => q.approval = NoApproval
    /\ q.pc \in {"record_ok", "record_failed"} => q.approval # NoApproval

SlotsOK == \A r \in Requests : SlotOK(requests[r])

(* Only the holder of the lock is between its check and its change.        *)
LockExcludes == \A r \in Requests : requests[r].pc \in {"check", "act"} => lock = r

(* What was checked under the lock holds until the change.                 *)
CheckedHolds ==
    \A r \in Requests : requests[r].pc = "act" =>
       MayAct(requests[r].admin, requests[r].action, requests[r].target)

(* Whoever asked, and on whom, is an account; an action that has run was   *)
(* approved.                                                               *)
ApprovalRowsOK ==
    \A a \in Approvals :
       /\ approvals[a].status # "none" =>
             approvals[a].target \in Accounts /\ approvals[a].requester \in Accounts
       /\ runs[a] # 0 => approvals[a].status = "approved"

(* An approved action is in the hands of one request, which runs it once.  *)
ToRun == {"lock", "check", "act"}
ApprovalHeldOnce ==
    \A r \in Requests : requests[r].approval # NoApproval =>
       /\ approvals[requests[r].approval].status = "approved"
       /\ requests[r].pc \in ToRun => runs[requests[r].approval] = 0
       /\ \A s \in Requests : requests[s].approval = requests[r].approval => s = r

(* The inductive invariant.                                                *)
IInv ==
    /\ TypeOK
    /\ AccountsOK
    /\ SlotsOK
    /\ LockExcludes
    /\ CheckedHolds
    /\ ApprovalRowsOK
    /\ ApprovalHeldOnce
    /\ ApprovalsRunOnce
    /\ SomeoneManages

LEMMA InitIInv == Init => IInv
<1> SUFFICES ASSUME Init PROVE IInv
  OBVIOUS
<1>1. /\ IdleRequest \in RequestSlot /\ IdleRequest.pc = "idle" /\ IdleRequest.approval = NoApproval
      /\ NewApproval \in Approval /\ NewApproval.status = "none"
  BY DEF IdleRequest, RequestSlot, Actions, Gated, NewApproval, Approval
<1>2. accounts \in [Accounts -> Account] /\ AccountsOK
  BY DEF Init, Account, AccountsOK
<1>3. TypeOK
  BY <1>1, <1>2, MaxCallsAssumption DEF Init, TypeOK
<1>4. SlotsOK /\ LockExcludes /\ CheckedHolds /\ ApprovalHeldOnce
  BY <1>1 DEF Init, SlotsOK, SlotOK, LockExcludes, CheckedHolds, ApprovalHeldOnce
<1>5. ApprovalRowsOK /\ ApprovalsRunOnce
  BY <1>1 DEF Init, ApprovalRowsOK, ApprovalsRunOnce
<1>6. SomeoneManages
  <2>1. PICK s \in Accounts : accounts[s].role = "super_admin"
    BY DEF Init
  <2>2. ~accounts[s].deleted /\ ~accounts[s].retired /\ accounts[s].suspended = "no"
    BY DEF Init
  <2>. QED
    BY <2>1, <2>2 DEF SomeoneManages, MayDo, Permissions
<1>. QED
  BY <1>2, <1>3, <1>4, <1>5, <1>6 DEF IInv

-----------------------------------------------------------------------------
(* What an approval's row may do in a step: a decision stays, a new one is *)
(* made by another admin than the one who asked.                           *)
RowForward(a) ==
    /\ approvals[a].status \notin {"none", "open"} =>
          /\ approvals'[a].status = approvals[a].status
          /\ approvals'[a].decider = approvals[a].decider
          /\ approvals'[a].requester = approvals[a].requester
    /\ approvals'[a].status \in {"approved", "rejected"} =>
          approvals'[a].decider # approvals'[a].requester
    /\ approvals'[a].status # "none" =>
          approvals'[a].target \in Accounts /\ approvals'[a].requester \in Accounts

RowsForward == approvals' \in [Approvals -> Approval] /\ \A a \in Approvals : RowForward(a)

LEMMA UnchangedRows == ASSUME IInv, UNCHANGED approvals PROVE RowsForward
BY DEF IInv, TypeOK, ApprovalRowsOK, RowsForward, RowForward

(* One row changes.                                                        *)
LEMMA OneRow ==
    ASSUME IInv, NEW a \in Approvals, NEW row \in Approval,
           approvals' = [approvals EXCEPT ![a] = row], RowForward(a)
    PROVE  RowsForward
<1>1. approvals' \in [Approvals -> Approval] /\ \A b \in Approvals \ {a} : approvals'[b] = approvals[b]
  BY DEF IInv, TypeOK
<1>2. ASSUME NEW b \in Approvals \ {a} PROVE RowForward(b)
  BY <1>1, <1>2 DEF IInv, TypeOK, ApprovalRowsOK, RowForward
<1>. QED
  BY <1>1, <1>2 DEF RowsForward

(* The parts about approvals, when none of them runs.                      *)
LEMMA RowsForwardInv ==
    ASSUME IInv, RowsForward, UNCHANGED runs
    PROVE  /\ ApprovalRowsOK' /\ ApprovalsRunOnce'
           /\ \A a \in Approvals : approvals'[a].status \in {"approved", "rejected"} =>
                 approvals'[a].decider # approvals'[a].requester
<1>1. ApprovalRowsOK'
  BY DEF IInv, ApprovalRowsOK, RowsForward, RowForward
<1>2. ApprovalsRunOnce'
  BY DEF IInv, ApprovalsRunOnce, RowsForward, RowForward
<1>. QED
  BY <1>1, <1>2 DEF RowsForward, RowForward

-----------------------------------------------------------------------------
(* How the slots change.                                                   *)

LEMMA SlotStep ==
    ASSUME IInv, NEW r \in Requests, NEW slot \in RequestSlot, SlotOK(slot),
           requests' = [requests EXCEPT ![r] = slot]
    PROVE  /\ requests' \in [Requests -> RequestSlot]
           /\ SlotsOK'
           /\ requests'[r] = slot
           /\ \A s \in Requests \ {r} : requests'[s] = requests[s]
<1>1. /\ requests' \in [Requests -> RequestSlot]
      /\ requests'[r] = slot
      /\ \A s \in Requests \ {r} : requests'[s] = requests[s]
  BY DEF IInv, TypeOK
<1>2. \A s \in Requests : SlotOK(requests'[s])
  BY <1>1 DEF IInv, SlotsOK
<1>. QED
  BY <1>1, <1>2 DEF SlotsOK, SlotOK

(* A slot lets go of its approval, or keeps it and does not get ready to   *)
(* run it again.                                                           *)
LEMMA HeldStep ==
    ASSUME IInv, RowsForward, UNCHANGED runs, NEW r \in Requests,
           \A s \in Requests \ {r} : requests'[s] = requests[s],
           requests'[r].approval # NoApproval =>
              /\ requests'[r].approval = requests[r].approval
              /\ requests'[r].pc \in ToRun => requests[r].pc \in ToRun
    PROVE  ApprovalHeldOnce'
<1>1. \A s \in Requests : requests'[s].approval # NoApproval =>
         /\ requests'[s].approval = requests[s].approval
         /\ requests'[s].pc \in ToRun => requests[s].pc \in ToRun
  OBVIOUS
<1>2. \A s \in Requests : requests[s].approval # NoApproval => requests[s].approval \in Approvals
  BY DEF IInv, TypeOK, RequestSlot
<1>3. ASSUME NEW s \in Requests, requests'[s].approval # NoApproval
      PROVE  /\ approvals'[requests'[s].approval].status = "approved"
             /\ requests'[s].pc \in ToRun => runs'[requests'[s].approval] = 0
  BY <1>1, <1>2, <1>3 DEF IInv, ApprovalHeldOnce, RowsForward, RowForward
<1>4. ASSUME NEW s \in Requests, NEW t \in Requests,
             requests'[s].approval # NoApproval, requests'[t].approval = requests'[s].approval
      PROVE  t = s
  BY <1>1, <1>4 DEF IInv, ApprovalHeldOnce
<1>. QED
  BY <1>3, <1>4 DEF ApprovalHeldOnce, ToRun

(* A slot changes, and no account does.                                    *)
LEMMA RequestStep ==
    ASSUME IInv, NEW r \in Requests, NEW slot \in RequestSlot, SlotOK(slot),
           requests' = [requests EXCEPT ![r] = slot],
           UNCHANGED <<accounts, suspender, retirer, runs>>, calls' \in 0..MaxCalls,
           RowsForward,
           lock' \in Requests \cup {NoOne}, LockExcludes',
           slot.pc = "act" => MayAct(slot.admin, slot.action, slot.target),
           ApprovalHeldOnce'
    PROVE  IInv'
<1>1. /\ requests' \in [Requests -> RequestSlot]
      /\ SlotsOK'
      /\ requests'[r] = slot
      /\ \A s \in Requests \ {r} : requests'[s] = requests[s]
  BY SlotStep
<1>2. /\ ApprovalRowsOK' /\ ApprovalsRunOnce'
      /\ \A a \in Approvals : approvals'[a].status \in {"approved", "rejected"} =>
            approvals'[a].decider # approvals'[a].requester
  BY RowsForwardInv
<1>3. TypeOK'
  BY <1>1, <1>2 DEF IInv, TypeOK, RowsForward
<1>4. AccountsOK' /\ SomeoneManages'
  BY DEF IInv, AccountsOK, SomeoneManages, MayDo
<1>5. \A s \in Requests : requests'[s].pc = "act" =>
         MayAct(requests'[s].admin, requests'[s].action, requests'[s].target)
  BY <1>1 DEF IInv, CheckedHolds
<1>6. CheckedHolds'
  BY <1>5 DEF CheckedHolds, MayAct, MayDo, IsStaff
<1>. QED
  BY <1>1, <1>2, <1>3, <1>4, <1>6 DEF IInv

(* A slot that lets the lock go or does not hold it.                       *)
LEMMA LockStep ==
    ASSUME IInv, NEW r \in Requests,
           \A s \in Requests \ {r} : requests'[s] = requests[s],
           requests'[r].pc \notin {"check", "act"},
           \/ lock' = lock
           \/ lock = r
           \/ requests[r].pc \in {"check", "act"}
    PROVE  LockExcludes'
<1>1. ASSUME NEW s \in Requests, requests'[s].pc \in {"check", "act"}
      PROVE  lock' = s
  BY <1>1 DEF IInv, LockExcludes
<1>. QED
  BY <1>1 DEF LockExcludes

-----------------------------------------------------------------------------
(* One lemma per action: it keeps the invariant, and every decision.       *)

LEMMA BeginKeeps ==
    ASSUME IInv, NEW r \in Requests, NEW request \in RequestSlot, SlotOK(request),
           request.approval = NoApproval, request.pc \in {"ask", "lock"},
           Begin(r, request), UNCHANGED <<accounts, suspender, retirer, lock, approvals, runs>>
    PROVE  IInv' /\ RowsForward
<1>1. requests' = [requests EXCEPT ![r] = request] /\ calls' \in 0..MaxCalls
  BY MaxCallsAssumption DEF Begin, IInv, TypeOK
<1>2. requests'[r] = request /\ \A s \in Requests \ {r} : requests'[s] = requests[s]
  BY <1>1, SlotStep
<1>3. RowsForward
  BY UnchangedRows
<1>4. LockExcludes'
  BY <1>2, LockStep
<1>5. ApprovalHeldOnce'
  BY <1>2, <1>3, HeldStep
<1>6. lock' \in Requests \cup {NoOne}
  BY DEF IInv, TypeOK
<1>. QED
  BY <1>1, <1>3, <1>4, <1>5, <1>6, RequestStep

LEMMA ApprovalGatedKeeps ==
    ASSUME IInv, NEW r \in Requests, NEW admin \in Accounts, NEW target \in Accounts,
           NEW action \in Gated, ApprovalGated(r, admin, action, target)
    PROVE  IInv' /\ RowsForward
<1> DEFINE request ==
             [IdleRequest EXCEPT !.admin = admin, !.action = action, !.target = target,
                !.pc = IF \/ MayDo(admin, "act_without_approval")
                          \/ SetTheHold(admin, action, target)
                       THEN "lock" ELSE "ask"]
<1>1. /\ request \in RequestSlot /\ SlotOK(request)
      /\ request.approval = NoApproval /\ request.pc \in {"ask", "lock"}
  BY DEF IdleRequest, RequestSlot, SlotOK, Actions
<1>2. /\ Begin(r, request)
      /\ UNCHANGED <<accounts, suspender, retirer, lock, approvals, runs>>
  BY DEF ApprovalGated
<1> HIDE DEF request
<1>. QED
  BY <1>1, <1>2, BeginKeeps

LEMMA ManageAdminsKeeps ==
    ASSUME IInv, NEW r \in Requests, NEW admin \in Accounts, NEW target \in Accounts,
           NEW action \in Actions, NEW role \in Roles \cup {"none"},
           ManageAdmins(r, admin, action, target, role)
    PROVE  IInv' /\ RowsForward
<1> DEFINE request ==
             [IdleRequest EXCEPT !.admin = admin, !.action = action, !.target = target,
                !.role = role, !.pc = "lock"]
<1>1. /\ request \in RequestSlot /\ SlotOK(request)
      /\ request.approval = NoApproval /\ request.pc \in {"ask", "lock"}
  BY DEF IdleRequest, RequestSlot, SlotOK
<1>2. /\ Begin(r, request)
      /\ UNCHANGED <<accounts, suspender, retirer, lock, approvals, runs>>
  BY DEF ManageAdmins
<1> HIDE DEF request
<1>. QED
  BY <1>1, <1>2, BeginKeeps

(* A slot is given up: by an answer, a failure or the end of the process.  *)
LEMMA FinishKeeps ==
    ASSUME IInv, NEW r \in Requests, Finish(r), RowsForward,
           UNCHANGED <<accounts, suspender, retirer, runs, calls>>,
           \/ lock' = lock
           \/ lock' = NoOne /\ lock = r
           \/ lock' = NoOne /\ requests[r].pc \in {"check", "act"}
    PROVE  IInv'
<1>1. /\ IdleRequest \in RequestSlot /\ SlotOK(IdleRequest)
      /\ IdleRequest.pc = "idle" /\ IdleRequest.approval = NoApproval
  BY DEF IdleRequest, RequestSlot, SlotOK, Actions, Gated
<1>2. requests' = [requests EXCEPT ![r] = IdleRequest]
  BY DEF Finish
<1>3. requests'[r] = IdleRequest /\ \A s \in Requests \ {r} : requests'[s] = requests[s]
  BY <1>1, <1>2, SlotStep
<1>4. LockExcludes'
  BY <1>1, <1>3, LockStep
<1>5. ApprovalHeldOnce'
  BY <1>1, <1>3, HeldStep
<1>6. lock' \in Requests \cup {NoOne} /\ calls' \in 0..MaxCalls
  BY DEF IInv, TypeOK
<1>. QED
  BY <1>1, <1>2, <1>4, <1>5, <1>6, RequestStep

LEMMA AbortKeeps ==
    ASSUME IInv, NEW r \in Requests, Abort(r) PROVE IInv' /\ RowsForward
BY FinishKeeps, UnchangedRows DEF Abort, NoAccountChange

LEMMA RecordResultKeeps ==
    ASSUME IInv, NEW r \in Requests, RecordResult(r) PROVE IInv' /\ RowsForward
<1> DEFINE a == requests[r].approval
           row == [approvals[a] EXCEPT !.outcome =
                     IF requests[r].pc = "record_ok" THEN "ok" ELSE "failed"]
<1>1. a \in Approvals
  BY DEF RecordResult, IInv, TypeOK, SlotsOK, SlotOK, RequestSlot
<1>2. approvals[a] \in Approval
  BY <1>1 DEF IInv, TypeOK
<1>3. /\ row \in Approval
      /\ row.status = approvals[a].status /\ row.decider = approvals[a].decider
      /\ row.requester = approvals[a].requester /\ row.target = approvals[a].target
  BY <1>2 DEF Approval
<1>4. approvals' = approvals \/ approvals' = [approvals EXCEPT ![a] = row]
  BY <1>2 DEF RecordResult, Approval
<1>5. RowsForward
  <2>1. CASE approvals' = approvals
    BY <2>1, UnchangedRows
  <2>2. CASE approvals' = [approvals EXCEPT ![a] = row]
    <3>1. approvals'[a] = row
      BY <2>2, <1>1 DEF IInv, TypeOK
    <3> HIDE DEF a, row
    <3>2. RowForward(a)
      BY <3>1, <1>1, <1>3 DEF RowForward, IInv, TypeOK, ApprovalRowsOK
    <3>. QED
      BY <3>2, <1>1, <1>3, <2>2, OneRow
  <2>. QED
    BY <1>4, <2>1, <2>2
<1>6. Finish(r) /\ UNCHANGED <<accounts, suspender, retirer, runs, calls, lock>>
  BY DEF RecordResult, NoAccountChange
<1>. QED
  BY <1>5, <1>6, FinishKeeps

LEMMA RequestApprovalKeeps ==
    ASSUME IInv, NEW r \in Requests, NEW a \in Approvals, admin_request_approval(r, a)
    PROVE  IInv' /\ RowsForward
<1> DEFINE q == requests[r]
           after == [b \in Approvals |->
                       IF Expired(b)
                       THEN [approvals[b] EXCEPT !.status = "expired", !.decider = NoOne]
                       ELSE approvals[b]]
           row == [NewApproval EXCEPT !.status = "open", !.action = q.action,
                     !.target = q.target, !.requester = q.admin]
<1>1. q \in RequestSlot /\ q.admin \in Accounts /\ q.target \in Accounts /\ q.action \in Gated
  BY DEF admin_request_approval, IInv, TypeOK, SlotsOK, SlotOK
<1>2. row \in Approval /\ row.status = "open" /\ row.target \in Accounts /\ row.requester \in Accounts
  BY <1>1 DEF NewApproval, Approval
<1>3. \/ UNCHANGED approvals
      \/ approvals[a].status = "none" /\ approvals' = [after EXCEPT ![a] = row]
  BY DEF admin_request_approval
<1>4. ASSUME NEW b \in Approvals
      PROVE  /\ after[b] \in Approval
             /\ after[b].target = approvals[b].target
             /\ after[b].requester = approvals[b].requester
             /\ approvals[b].status # "open" => after[b] = approvals[b]
             /\ approvals[b].status = "open" => after[b].status \in {"open", "expired"}
  <2>1. approvals[b] \in Approval
    BY DEF IInv, TypeOK
  <2>2. CASE Expired(b)
    BY <2>1, <2>2 DEF Expired, Approval
  <2>3. CASE ~Expired(b)
    BY <2>1, <2>3
  <2>. QED
    BY <2>2, <2>3
<1>5. DOMAIN after = Approvals
  OBVIOUS
<1> HIDE DEF row, after
<1>6. RowsForward
  <2>1. CASE UNCHANGED approvals
    BY <2>1, UnchangedRows
  <2>2. CASE approvals[a].status = "none" /\ approvals' = [after EXCEPT ![a] = row]
    <3>1. approvals'[a] = row /\ \A b \in Approvals \ {a} : approvals'[b] = after[b]
      BY <2>2, <1>5
    <3>2. approvals' \in [Approvals -> Approval]
      <4>1. after \in [Approvals -> Approval]
        BY <1>4, <1>5 DEF after
      <4>. QED
        BY <4>1, <2>2, <1>2
    <3>3. RowForward(a)
      BY <2>2, <3>1, <1>2 DEF RowForward
    <3>4. ASSUME NEW b \in Approvals \ {a} PROVE RowForward(b)
      BY <3>1, <1>4 DEF RowForward, IInv, TypeOK, ApprovalRowsOK
    <3>. QED
      BY <3>2, <3>3, <3>4 DEF RowsForward
  <2>. QED
    BY <1>3, <2>1, <2>2
<1>7. Finish(r) /\ UNCHANGED <<accounts, suspender, retirer, runs, calls, lock>>
  BY DEF admin_request_approval, NoAccountChange
<1>. QED
  BY <1>6, <1>7, FinishKeeps

(* A row changes outside of any request.                                   *)
LEMMA RowStepKeeps ==
    ASSUME IInv, RowsForward, UNCHANGED <<lock, requests>>, NoAccountChange
    PROVE  IInv'
<1>1. /\ ApprovalRowsOK' /\ ApprovalsRunOnce'
      /\ \A a \in Approvals : approvals'[a].status \in {"approved", "rejected"} =>
            approvals'[a].decider # approvals'[a].requester
  BY RowsForwardInv DEF NoAccountChange
<1>2. TypeOK'
  BY <1>1 DEF IInv, TypeOK, RowsForward, NoAccountChange
<1>3. AccountsOK' /\ SlotsOK' /\ LockExcludes' /\ SomeoneManages'
  BY DEF IInv, NoAccountChange, AccountsOK, SlotsOK, SlotOK, LockExcludes, SomeoneManages, MayDo
<1>4. CheckedHolds'
  BY DEF IInv, NoAccountChange, CheckedHolds, MayAct, MayDo, IsStaff
<1>5. ApprovalHeldOnce'
  <2>1. \A r \in Requests : requests[r].approval # NoApproval => requests[r].approval \in Approvals
    BY DEF IInv, TypeOK, RequestSlot
  <2>. QED
    BY <2>1 DEF IInv, NoAccountChange, ApprovalHeldOnce, RowsForward, RowForward, ToRun
<1>. QED
  BY <1>1, <1>2, <1>3, <1>4, <1>5 DEF IInv

LEMMA PassDeadlineKeeps ==
    ASSUME IInv, NEW a \in Approvals, PassDeadline(a) PROVE IInv' /\ RowsForward
<1> DEFINE row == [approvals[a] EXCEPT !.late = TRUE]
<1>1. /\ row \in Approval
      /\ row.status = approvals[a].status /\ row.decider = approvals[a].decider
      /\ row.requester = approvals[a].requester /\ row.target = approvals[a].target
  BY DEF IInv, TypeOK, Approval
<1>2. approvals' = [approvals EXCEPT ![a] = row]
  BY DEF PassDeadline
<1> HIDE DEF row
<1>3. approvals'[a] = row
  BY <1>2 DEF IInv, TypeOK
<1>4. RowForward(a)
  BY <1>1, <1>3 DEF RowForward, IInv, TypeOK, ApprovalRowsOK
<1>. QED
  BY <1>1, <1>2, <1>4, OneRow, RowStepKeeps DEF PassDeadline

LEMMA DecideKeeps ==
    ASSUME IInv, NEW a \in Approvals, NEW admin \in Accounts, Reject(admin, a) \/ Cancel(admin, a)
    PROVE  IInv' /\ RowsForward
<1>1. PICK status \in {"rejected", "cancelled"} :
         /\ approvals' = [approvals EXCEPT ![a].status = status, ![a].decider = admin]
         /\ status = "rejected" => admin # approvals[a].requester
  BY DEF Reject, Cancel, MayDecide
<1> DEFINE row == [approvals[a] EXCEPT !.status = status, !.decider = admin]
<1>2. approvals[a].status = "open" /\ UNCHANGED <<lock, requests>> /\ NoAccountChange
  BY DEF Reject, Cancel, MayDecide
<1>3. /\ row \in Approval
      /\ row.status = status /\ row.decider = admin
      /\ row.requester = approvals[a].requester /\ row.target = approvals[a].target
  BY DEF IInv, TypeOK, Approval
<1>4. approvals' = [approvals EXCEPT ![a] = row]
  BY <1>1
<1> HIDE DEF row
<1>5. approvals'[a] = row
  BY <1>4 DEF IInv, TypeOK
<1>6. RowForward(a)
  BY <1>1, <1>2, <1>3, <1>5 DEF RowForward, IInv, ApprovalRowsOK
<1>. QED
  BY <1>2, <1>3, <1>4, <1>6, OneRow, RowStepKeeps

(* The approval is in nobody's hands and has not run: it was open.         *)
LEMMA ApproveKeeps ==
    ASSUME IInv, NEW r \in Requests, NEW admin \in Accounts, NEW a \in Approvals,
           Approve(r, admin, a)
    PROVE  IInv' /\ RowsForward
<1> DEFINE row == [approvals[a] EXCEPT !.status = "approved", !.decider = admin]
           request == [IdleRequest EXCEPT !.admin = admin, !.action = approvals[a].action,
                         !.target = approvals[a].target, !.approval = a, !.pc = "lock"]
<1>1. /\ approvals[a].status = "open"
      /\ approvals[a] \in Approval
      /\ approvals[a].target \in Accounts /\ approvals[a].requester \in Accounts
      /\ admin # approvals[a].requester
      /\ runs[a] = 0
  BY DEF Approve, MayDecide, IInv, TypeOK, ApprovalRowsOK
<1>2. /\ row \in Approval
      /\ row.status = "approved" /\ row.decider = admin
      /\ row.requester = approvals[a].requester /\ row.target = approvals[a].target
  BY <1>1 DEF Approval
<1>3. /\ request \in RequestSlot /\ SlotOK(request)
      /\ request.approval = a /\ request.pc = "lock"
  BY <1>1, NoApprovalAssumption DEF IdleRequest, RequestSlot, SlotOK, Actions, Approval
<1>4. /\ approvals' = [approvals EXCEPT ![a] = row]
      /\ requests' = [requests EXCEPT ![r] = request]
      /\ calls' \in 0..MaxCalls
      /\ UNCHANGED <<accounts, suspender, retirer, lock, runs>>
  <2>1. approvals' = [approvals EXCEPT ![a].status = "approved", ![a].decider = admin]
    BY DEF Approve
  <2>2. Begin(r, request) /\ UNCHANGED <<accounts, suspender, retirer, lock, runs>>
    BY DEF Approve
  <2>3. calls' \in 0..MaxCalls
    BY <2>2, MaxCallsAssumption DEF Begin, IInv, TypeOK
  <2>4. requests' = [requests EXCEPT ![r] = request]
    BY <2>2 DEF Begin
  <2>. QED
    BY <2>1, <2>2, <2>3, <2>4
<1> HIDE DEF row, request
<1>5. approvals'[a] = row /\ \A b \in Approvals \ {a} : approvals'[b] = approvals[b]
  BY <1>4 DEF IInv, TypeOK
<1>6. RowsForward
  <2>1. RowForward(a)
    BY <1>1, <1>2, <1>5 DEF RowForward
  <2>. QED
    BY <2>1, <1>2, <1>4, OneRow
<1>7. requests'[r] = request /\ \A s \in Requests \ {r} : requests'[s] = requests[s]
  BY <1>3, <1>4, SlotStep
<1>8. LockExcludes'
  BY <1>3, <1>4, <1>7, LockStep
<1>9. ApprovalHeldOnce'
  <2>1. ASSUME NEW s \in Requests \ {r}, requests'[s].approval # NoApproval
        PROVE  /\ requests'[s].approval \in Approvals \ {a}
               /\ requests'[s] = requests[s]
    BY <2>1, <1>1, <1>7 DEF IInv, TypeOK, RequestSlot, ApprovalHeldOnce
  <2>2. ASSUME NEW s \in Requests, requests'[s].approval # NoApproval
        PROVE  /\ approvals'[requests'[s].approval].status = "approved"
               /\ requests'[s].pc \in ToRun => runs'[requests'[s].approval] = 0
    BY <2>1, <2>2, <1>1, <1>2, <1>3, <1>4, <1>5, <1>7 DEF IInv, ApprovalHeldOnce
  <2>3. ASSUME NEW s \in Requests, NEW t \in Requests,
               requests'[s].approval # NoApproval, requests'[t].approval = requests'[s].approval
        PROVE  t = s
    BY <2>1, <2>3, <1>3, <1>7 DEF IInv, ApprovalHeldOnce
  <2>. QED
    BY <2>2, <2>3 DEF ApprovalHeldOnce, ToRun
<1>10. lock' \in Requests \cup {NoOne} /\ request.pc # "act"
  BY <1>3, <1>4 DEF IInv, TypeOK
<1>. QED
  BY <1>3, <1>4, <1>6, <1>8, <1>9, <1>10, RequestStep

(* A request goes on to the step pc, without a change of account.          *)
LEMMA GotoKeeps ==
    ASSUME IInv, NEW r \in Requests,
           NEW pc \in {"check", "act", "record_failed"},
           requests[r].pc \in ToRun, Goto(r, pc),
           pc = "record_failed" => requests[r].approval # NoApproval,
           pc = "act" => MayAct(requests[r].admin, requests[r].action, requests[r].target),
           UNCHANGED approvals, NoAccountChange,
           lock' \in Requests \cup {NoOne}, LockExcludes'
    PROVE  IInv' /\ RowsForward
<1> DEFINE slot == [requests[r] EXCEPT !.pc = pc]
<1>1. requests[r] \in RequestSlot
  BY DEF IInv, TypeOK
<1>2. /\ slot \in RequestSlot /\ slot.pc = pc
      /\ slot.admin = requests[r].admin /\ slot.target = requests[r].target
      /\ slot.action = requests[r].action /\ slot.approval = requests[r].approval
  BY <1>1 DEF RequestSlot
<1>3. requests' = [requests EXCEPT ![r] = slot]
  BY DEF Goto
<1> HIDE DEF slot
<1>4. SlotOK(slot)
  BY <1>2 DEF IInv, SlotsOK, SlotOK, ToRun
<1>5. requests'[r] = slot /\ \A s \in Requests \ {r} : requests'[s] = requests[s]
  BY <1>2, <1>3, <1>4, SlotStep
<1>6. RowsForward
  BY UnchangedRows
<1>7. ApprovalHeldOnce'
  BY <1>2, <1>5, <1>6, HeldStep DEF NoAccountChange
<1>8. calls' \in 0..MaxCalls
  BY DEF IInv, TypeOK, NoAccountChange
<1>9. slot.pc = "act" => MayAct(slot.admin, slot.action, slot.target)
  BY <1>2
<1>. QED
  BY <1>2, <1>3, <1>4, <1>6, <1>7, <1>8, <1>9, RequestStep DEF NoAccountChange

LEMMA LockKeeps ==
    ASSUME IInv, NEW r \in Requests, admin_lock_changes(r) PROVE IInv' /\ RowsForward
<1>1. /\ requests[r].pc = "lock" /\ lock = NoOne /\ lock' = r
      /\ Goto(r, "check") /\ UNCHANGED approvals /\ NoAccountChange
  BY DEF admin_lock_changes
<1>2. \A s \in Requests : requests[s].pc \notin {"check", "act"}
  BY <1>1, NoOneAssumption DEF IInv, LockExcludes
<1>3. LockExcludes'
  BY <1>1, <1>2 DEF LockExcludes, Goto, IInv, TypeOK
<1>. QED
  BY <1>1, <1>3, GotoKeeps DEF ToRun

LEMMA RefuseKeeps ==
    ASSUME IInv, NEW r \in Requests, requests[r].pc \in {"check", "act"}, Refuse(r)
    PROVE  IInv' /\ RowsForward
<1>1. CASE requests[r].approval = NoApproval
  BY <1>1, FinishKeeps, UnchangedRows DEF Refuse, NoAccountChange
<1>2. CASE requests[r].approval # NoApproval
  <2>1. Goto(r, "record_failed") /\ lock' = NoOne /\ UNCHANGED approvals /\ NoAccountChange
    BY <1>2 DEF Refuse
  <2>2. requests'[r].pc = "record_failed" /\ \A s \in Requests \ {r} : requests'[s] = requests[s]
    BY <2>1 DEF Goto, IInv, TypeOK, RequestSlot
  <2>3. LockExcludes'
    BY <2>2, LockStep
  <2>. QED
    BY <1>2, <2>1, <2>3, GotoKeeps DEF ToRun
<1>. QED
  BY <1>1, <1>2

LEMMA CheckActorKeeps ==
    ASSUME IInv, NEW r \in Requests, CheckActor(r) PROVE IInv' /\ RowsForward
<1>1. CASE MayAct(requests[r].admin, requests[r].action, requests[r].target)
  <2>1. /\ requests[r].pc = "check" /\ Goto(r, "act")
        /\ UNCHANGED <<lock, approvals>> /\ NoAccountChange
    BY <1>1 DEF CheckActor
  <2>2. LockExcludes' /\ lock' \in Requests \cup {NoOne}
    BY <2>1 DEF LockExcludes, Goto, IInv, TypeOK
  <2>. QED
    BY <1>1, <2>1, <2>2, GotoKeeps DEF ToRun
<1>2. CASE ~MayAct(requests[r].admin, requests[r].action, requests[r].target)
  BY <1>2, RefuseKeeps DEF CheckActor
<1>. QED
  BY <1>1, <1>2

LEMMA RefuseChangeKeeps ==
    ASSUME IInv, NEW r \in Requests, RefuseChange(r) PROVE IInv' /\ RowsForward
BY RefuseKeeps DEF RefuseChange

-----------------------------------------------------------------------------
(* The change of an account.                                               *)

(* manage_admins is the super_admins' permission, and goes with            *)
(* manage_users; an account without a role has neither.                    *)
LEMMA Managers ==
    ASSUME NEW role
    PROVE  /\ "manage_admins" \in Permissions(role) <=> role = "super_admin"
           /\ "manage_users" \in Permissions(role) <=> role \in {"super_admin", "admin"}
<1>1. CASE role = "super_admin"
  BY <1>1 DEF Permissions
<1>2. CASE role = "admin"
  BY <1>2 DEF Permissions
<1>3. CASE role \notin {"super_admin", "admin"}
  BY <1>3 DEF Permissions
<1>. QED
  BY <1>1, <1>2, <1>3

(* Whoever changes an account is another account, with the authority that  *)
(* the change asks for.                                                    *)
LEMMA Authority ==
    ASSUME IInv, NEW r \in Requests, requests[r].pc = "act", Applies(requests[r])
    PROVE  LET q == requests[r]
           IN  /\ q \in RequestSlot
               /\ q.admin \in Accounts /\ q.target \in Accounts /\ q.admin # q.target
               /\ MayDo(q.admin, "manage_users")
               /\ IsStaff(q.target) \/ accounts[q.target].wasStaff \/ q.action \notin Gated
                     => MayDo(q.admin, "manage_admins")
<1> DEFINE q == requests[r]
<1>1. q \in RequestSlot /\ q.admin \in Accounts /\ q.target \in Accounts
  BY DEF IInv, TypeOK, SlotsOK, SlotOK
<1>2. MayAct(q.admin, q.action, q.target)
  BY DEF IInv, CheckedHolds
<1>3. \A u \in Accounts : MayDo(u, "manage_admins") => MayDo(u, "manage_users")
  BY Managers DEF MayDo
<1>4. accounts[q.target].wasStaff /\ q.action \in Gated => q.action = "account_reactivate"
  BY <1>1 DEF Applies, Gated, IInv, AccountsOK
<1>5. accounts[q.target].wasStaff /\ q.action = "account_reactivate" => MayDo(q.admin, "manage_admins")
  BY DEF Applies
<1> HIDE DEF q
<1>6. q.action \notin Gated \/ IsStaff(q.target) => MayDo(q.admin, "manage_admins")
  BY <1>2 DEF MayAct
<1>7. MayDo(q.admin, "manage_users") /\ q.target # q.admin
  BY <1>1, <1>2, <1>3 DEF MayAct
<1>8. accounts[q.target].wasStaff => MayDo(q.admin, "manage_admins")
  BY <1>4, <1>5, <1>6
<1>. QED
  BY <1>1, <1>6, <1>7, <1>8 DEF q

(* Retirement takes the role; only an account without one is reactivated.  *)
LEMMA ChangedRow ==
    ASSUME IInv, NEW q \in RequestSlot, q.target \in Accounts, Applies(q)
    PROVE  /\ Changed(q) \in Account
           /\ Changed(q).retired => Changed(q).role = "none"
           /\ Changed(q).wasStaff => Changed(q).retired
<1> DEFINE u == accounts[q.target]
<1>1. u \in Account /\ q.role \in Roles \cup {"none"} /\ q.action \in Actions
  BY DEF IInv, TypeOK, RequestSlot
<1>2. (u.retired => u.role = "none") /\ (u.wasStaff => u.retired)
  BY DEF IInv, AccountsOK
<1>3. CASE q.action = "account_suspend"
  <2>1. Changed(q) = [u EXCEPT !.suspended = "running"]
    BY <1>3 DEF Changed
  <2>. QED
    BY <1>1, <1>2, <2>1 DEF Account
<1>4. CASE q.action = "account_unsuspend"
  <2>1. Changed(q) = [u EXCEPT !.suspended = "no"]
    BY <1>4 DEF Changed
  <2>. QED
    BY <1>1, <1>2, <2>1 DEF Account
<1>5. CASE q.action = "account_retire"
  <2>1. Changed(q) = [u EXCEPT !.retired = TRUE, !.wasStaff = u.role # "none", !.role = "none"]
    BY <1>5 DEF Changed
  <2>. QED
    BY <1>1, <2>1 DEF Account
<1>6. CASE q.action = "account_reactivate"
  <2>1. Changed(q) = [u EXCEPT !.retired = FALSE, !.wasStaff = FALSE]
    BY <1>6 DEF Changed
  <2>. QED
    BY <1>1, <2>1 DEF Account
<1>7. CASE q.action = "account_delete"
  <2>1. Changed(q) = [u EXCEPT !.deleted = TRUE]
    BY <1>7 DEF Changed
  <2>. QED
    BY <1>1, <1>2, <2>1 DEF Account
<1>8. CASE q.action = "set_role"
  <2>1. Changed(q) = [u EXCEPT !.role = q.role]
    BY <1>8 DEF Changed
  <2>2. q.role # "none" => ~u.retired
    BY <1>8 DEF Applies
  <2>. QED
    BY <1>1, <1>2, <2>1, <2>2 DEF Account
<1>. QED
  BY <1>1, <1>3, <1>4, <1>5, <1>6, <1>7, <1>8 DEF Actions, Gated

(* Somebody who manages the staff is not the account that changes: the one *)
(* who acts, if that takes manage_admins; else anyone, since the account   *)
(* that changes has no role.                                               *)
LEMMA ManagerSurvives ==
    ASSUME IInv, NEW r \in Requests, ChangeAccount(r)
    PROVE  SomeoneManages'
<1> DEFINE q == requests[r]
<1>1. q.pc = "act" /\ Applies(q) /\ accounts' = [accounts EXCEPT ![q.target] = Changed(q)]
  BY DEF ChangeAccount
<1>2. PICK u \in Accounts : MayDo(u, "manage_admins") /\ u # q.target
  <2>1. CASE IsStaff(q.target) \/ q.action \notin Gated
    BY <1>1, <2>1, Authority
  <2>2. CASE ~IsStaff(q.target)
    <3>1. PICK u \in Accounts : MayDo(u, "manage_admins")
      BY DEF IInv, SomeoneManages
    <3>2. IsStaff(u)
      BY <3>1, Managers DEF MayDo, IsStaff
    <3>. QED
      BY <2>2, <3>1, <3>2
  <2>. QED
    BY <2>1, <2>2
<1> HIDE DEF q
<1>3. accounts'[u] = accounts[u]
  BY <1>1, <1>2 DEF IInv, TypeOK
<1>. QED
  BY <1>2, <1>3 DEF SomeoneManages, MayDo

(* An approved action runs for the first time, and its slot will not run   *)
(* it again.                                                               *)
LEMMA RunsOnce ==
    ASSUME IInv, NEW r \in Requests, ChangeAccount(r)
    PROVE  /\ requests' \in [Requests -> RequestSlot]
           /\ SlotsOK'
           /\ runs' \in [Approvals -> Nat]
           /\ ApprovalRowsOK' /\ ApprovalHeldOnce' /\ ApprovalsRunOnce'
           /\ requests'[r].pc \notin {"check", "act"}
           /\ \A s \in Requests \ {r} : requests'[s] = requests[s]
<1> DEFINE q == requests[r]
           a == q.approval
           slot == IF a = NoApproval THEN IdleRequest ELSE [q EXCEPT !.pc = "record_ok"]
<1>1. /\ q \in RequestSlot /\ q.pc = "act" /\ SlotOK(q) /\ UNCHANGED approvals
      /\ requests' = [requests EXCEPT ![r] = slot]
      /\ a = NoApproval => UNCHANGED runs
      /\ a # NoApproval => runs' = [runs EXCEPT ![a] = @ + 1]
  BY DEF ChangeAccount, Finish, Goto, IInv, TypeOK, SlotsOK
<1>2. /\ slot \in RequestSlot /\ SlotOK(slot)
      /\ slot.pc \in {"idle", "record_ok"} /\ slot.approval = a
  BY <1>1 DEF IdleRequest, RequestSlot, SlotOK, Actions, Gated
<1> HIDE DEF slot
<1>3. /\ requests' \in [Requests -> RequestSlot]
      /\ SlotsOK'
      /\ requests'[r] = slot
      /\ \A s \in Requests \ {r} : requests'[s] = requests[s]
  BY <1>1, <1>2, SlotStep
<1>4. RowsForward
  BY <1>1, UnchangedRows
<1>5. CASE a = NoApproval
  BY <1>1, <1>2, <1>3, <1>4, <1>5, RowsForwardInv, HeldStep DEF IInv, TypeOK
<1>6. CASE a # NoApproval
  <2>1. a \in Approvals /\ approvals[a].status = "approved" /\ runs[a] = 0
    BY <1>1, <1>6 DEF RequestSlot, IInv, ApprovalHeldOnce, ToRun
  <2>2. /\ runs' \in [Approvals -> Nat]
        /\ runs'[a] = 1
        /\ \A b \in Approvals \ {a} : runs'[b] = runs[b]
    BY <1>1, <1>6, <2>1 DEF IInv, TypeOK
  <2>3. ApprovalRowsOK' /\ ApprovalsRunOnce'
    BY <1>1, <2>1, <2>2 DEF IInv, TypeOK, ApprovalRowsOK, ApprovalsRunOnce
  <2>4. ApprovalHeldOnce'
    <3>1. ASSUME NEW s \in Requests \ {r}, requests'[s].approval # NoApproval
          PROVE  requests'[s].approval \in Approvals \ {a} /\ requests'[s] = requests[s]
      BY <3>1, <1>3, <1>6 DEF IInv, TypeOK, RequestSlot, ApprovalHeldOnce
    <3>2. ASSUME NEW s \in Requests, requests'[s].approval # NoApproval
          PROVE  /\ approvals'[requests'[s].approval].status = "approved"
                 /\ requests'[s].pc \in ToRun => runs'[requests'[s].approval] = 0
      BY <1>1, <1>2, <1>3, <2>1, <2>2, <3>1, <3>2 DEF IInv, ApprovalHeldOnce, ToRun
    <3>3. ASSUME NEW s \in Requests, NEW t \in Requests,
                 requests'[s].approval # NoApproval, requests'[t].approval = requests'[s].approval
          PROVE  t = s
      BY <1>2, <1>3, <3>1, <3>3 DEF IInv, ApprovalHeldOnce
    <3>. QED
      BY <3>2, <3>3 DEF ApprovalHeldOnce, ToRun
  <2>. QED
    BY <1>2, <1>3, <2>2, <2>3, <2>4
<1>. QED
  BY <1>5, <1>6

LEMMA ChangeAccountKeeps ==
    ASSUME IInv, NEW r \in Requests, ChangeAccount(r) PROVE IInv' /\ RowsForward
<1> DEFINE q == requests[r]
           u == accounts[q.target]
<1>1. /\ q.pc = "act" /\ Applies(q) /\ UNCHANGED <<approvals, calls>> /\ lock' = NoOne
      /\ accounts' = [accounts EXCEPT ![q.target] = Changed(q)]
      /\ suspender' \in {suspender, [suspender EXCEPT ![q.target] = q.admin]}
      /\ retirer' \in {retirer, [retirer EXCEPT ![q.target] = q.admin]}
  BY DEF ChangeAccount
<1>2. q \in RequestSlot /\ q.admin \in Accounts /\ q.target \in Accounts
  BY <1>1 DEF IInv, TypeOK, SlotsOK, SlotOK
<1>3. /\ Changed(q) \in Account
      /\ Changed(q).retired => Changed(q).role = "none"
      /\ Changed(q).wasStaff => Changed(q).retired
  BY <1>1, <1>2, ChangedRow
<1>4. /\ requests' \in [Requests -> RequestSlot]
      /\ SlotsOK'
      /\ runs' \in [Approvals -> Nat]
      /\ ApprovalRowsOK' /\ ApprovalHeldOnce' /\ ApprovalsRunOnce'
      /\ requests'[r].pc \notin {"check", "act"}
      /\ \A s \in Requests \ {r} : requests'[s] = requests[s]
  BY RunsOnce
<1> HIDE DEF q
<1>5. /\ accounts' \in [Accounts -> Account]
      /\ accounts'[q.target] = Changed(q)
      /\ \A v \in Accounts \ {q.target} : accounts'[v] = accounts[v]
  BY <1>1, <1>2, <1>3 DEF IInv, TypeOK
<1>6. AccountsOK'
  BY <1>2, <1>3, <1>5 DEF IInv, AccountsOK
<1>7. TypeOK'
  BY <1>1, <1>2, <1>4, <1>5 DEF IInv, TypeOK
<1>8. \A s \in Requests : requests'[s].pc \notin {"check", "act"}
  BY <1>1, <1>4 DEF q, IInv, LockExcludes
<1>9. LockExcludes' /\ CheckedHolds'
  BY <1>8 DEF LockExcludes, CheckedHolds
<1>10. RowsForward
  BY <1>1, UnchangedRows
<1>. QED
  BY <1>4, <1>6, <1>7, <1>9, <1>10, ManagerSurvives DEF IInv

(* A suspension that ends only gives access back.                          *)
LEMMA SuspensionEndsKeeps ==
    ASSUME IInv, NEW u \in Accounts, SuspensionEnds(u) PROVE IInv' /\ RowsForward
<1> DEFINE row == [accounts[u] EXCEPT !.suspended = "over"]
<1>1. /\ row \in Account /\ row.role = accounts[u].role
      /\ row.retired = accounts[u].retired /\ row.wasStaff = accounts[u].wasStaff
      /\ row.deleted = accounts[u].deleted /\ row.suspended = "over"
  BY DEF IInv, TypeOK, Account
<1>2. /\ accounts' = [accounts EXCEPT ![u] = row]
      /\ UNCHANGED <<suspender, retirer, lock, approvals, runs, requests, calls>>
  BY DEF SuspensionEnds
<1> HIDE DEF row
<1>3. /\ accounts' \in [Accounts -> Account]
      /\ accounts'[u] = row /\ \A v \in Accounts \ {u} : accounts'[v] = accounts[v]
  BY <1>1, <1>2 DEF IInv, TypeOK
<1>4. RowsForward
  BY <1>2, UnchangedRows
<1>5. TypeOK' /\ AccountsOK'
  BY <1>1, <1>2, <1>3 DEF IInv, TypeOK, AccountsOK
<1>6. /\ SlotsOK' /\ LockExcludes' /\ ApprovalRowsOK' /\ ApprovalHeldOnce' /\ ApprovalsRunOnce'
  BY <1>2 DEF IInv, SlotsOK, SlotOK, LockExcludes, ApprovalRowsOK, ApprovalHeldOnce,
              ApprovalsRunOnce, ToRun
<1>7. \A v \in Accounts : \A p : MayDo(v, p) => MayDo(v, p)'
  BY <1>1, <1>3 DEF MayDo
<1>8. \A v \in Accounts : IsStaff(v)' = IsStaff(v)
  BY <1>1, <1>3 DEF IsStaff
<1>9. CheckedHolds'
  BY <1>2, <1>7, <1>8 DEF IInv, SlotsOK, SlotOK, CheckedHolds, MayAct
<1>10. SomeoneManages'
  BY <1>7 DEF IInv, SomeoneManages
<1>. QED
  BY <1>4, <1>5, <1>6, <1>9, <1>10 DEF IInv

-----------------------------------------------------------------------------
LEMMA NextIInv ==
    ASSUME IInv, [Next]_vars PROVE IInv' /\ RowsForward
<1>1. ASSUME NEW r \in Requests, Run(r) PROVE IInv' /\ RowsForward
  BY <1>1, LockKeeps, CheckActorKeeps, ChangeAccountKeeps, RefuseChangeKeeps, RecordResultKeeps
     DEF Run
<1>2. ASSUME NEW r \in Requests, NEW admin \in Accounts, NEW target \in Accounts,
             \/ \E action \in Gated : ApprovalGated(r, admin, action, target)
             \/ ManageAdmins(r, admin, "account_delete", target, "none")
             \/ \E role \in Roles \cup {"none"} : ManageAdmins(r, admin, "set_role", target, role)
      PROVE  IInv' /\ RowsForward
  <2>1. "account_delete" \in Actions /\ "set_role" \in Actions
    BY DEF Actions
  <2>. QED
    BY <1>2, <2>1, ApprovalGatedKeeps, ManageAdminsKeeps
<1>3. CASE UNCHANGED vars
  <2>1. UNCHANGED <<lock, requests>> /\ NoAccountChange /\ RowsForward
    BY <1>3, UnchangedRows DEF vars, NoAccountChange
  <2>. QED
    BY <2>1, RowStepKeeps
<1>. QED
  BY <1>1, <1>2, <1>3, AbortKeeps, RequestApprovalKeeps, ApproveKeeps, PassDeadlineKeeps,
     DecideKeeps, SuspensionEndsKeeps DEF Next

(* Rows have their shape, and nothing that waits for a second admin runs   *)
(* unapproved or twice.                                                    *)
THEOREM ApprovalsCorrect == Spec => []Inv
<1>1. IInv => Inv
  BY DEF IInv, Inv
<1>2. IInv /\ [Next]_vars => IInv'
  BY NextIInv
<1>. QED
  BY InitIInv, <1>1, <1>2, PTL DEF Spec

(* However the admins act on each other and on roles, and whatever was     *)
(* checked before another's change, somebody is left who manages them.     *)
THEOREM ManagerLeft == Spec => []SomeoneManages
<1>1. IInv => SomeoneManages
  BY DEF IInv
<1>2. IInv /\ [Next]_vars => IInv'
  BY NextIInv
<1>. QED
  BY InitIInv, <1>1, <1>2, PTL DEF Spec

(* No decided request is decided again, expires or is cancelled.           *)
THEOREM DecisionsStay == Spec => DecisionsAreFinal
<1>1. IInv /\ [Next]_vars =>
        [\A a \in Approvals :
           approvals[a].status \notin {"none", "open"} =>
              /\ approvals'[a].status = approvals[a].status
              /\ approvals'[a].decider = approvals[a].decider]_vars
  BY NextIInv DEF RowsForward, RowForward
<1>2. IInv /\ [Next]_vars => IInv'
  BY NextIInv
<1>. QED
  BY InitIInv, <1>1, <1>2, PTL DEF Spec, DecisionsAreFinal

-----------------------------------------------------------------------------
(* Only the change of an account and the end of a suspension touch one.    *)
LEMMA WhoChangesAccounts ==
    ASSUME [Next]_vars
    PROVE  \/ UNCHANGED <<accounts, suspender>>
           \/ \E r \in Requests : ChangeAccount(r)
           \/ \E u \in Accounts : SuspensionEnds(u)
<1>1. ASSUME NEW r \in Requests, NEW a \in Approvals, admin_request_approval(r, a)
      PROVE  UNCHANGED <<accounts, suspender>>
  BY <1>1 DEF admin_request_approval, NoAccountChange
<1>2. ASSUME NEW r \in Requests, Run(r), ~ChangeAccount(r) PROVE UNCHANGED <<accounts, suspender>>
  BY <1>2 DEF Run, admin_lock_changes, CheckActor, RefuseChange, Refuse, RecordResult, NoAccountChange
<1>3. ASSUME NEW r \in Requests, NEW admin, NEW target, NEW action, NEW role, NEW a,
             \/ ApprovalGated(r, admin, action, target)
             \/ ManageAdmins(r, admin, action, target, role)
             \/ Approve(r, admin, a)
             \/ Abort(r)
      PROVE  UNCHANGED <<accounts, suspender>>
  BY <1>3 DEF ApprovalGated, ManageAdmins, Approve, Abort, NoAccountChange
<1>4. ASSUME NEW a, NEW admin, PassDeadline(a) \/ Reject(admin, a) \/ Cancel(admin, a)
      PROVE  UNCHANGED <<accounts, suspender>>
  BY <1>4 DEF PassDeadline, Reject, Cancel, NoAccountChange
<1>5. CASE UNCHANGED vars
  BY <1>5 DEF vars
<1>. QED
  BY <1>1, <1>2, <1>3, <1>4, <1>5 DEF Next

LEMMA AuthorityStep ==
    ASSUME IInv, [Next]_vars, NEW r \in Requests, Changes(r)
    PROVE  LET q == requests[r]
           IN  /\ q.admin # q.target
               /\ MayDo(q.admin, "manage_users")
               /\ IsStaff(q.target) \/ accounts[q.target].wasStaff \/ q.action \notin Gated
                     => MayDo(q.admin, "manage_admins")
<1>1. \A u \in Accounts : ~SuspensionEnds(u)
  BY DEF Changes, SuspensionEnds
<1>2. PICK s \in Requests : ChangeAccount(s)
  BY <1>1, WhoChangesAccounts DEF Changes
<1>3. s = r
  BY <1>2, RunsOnce DEF Changes
<1>. QED
  BY <1>2, <1>3, Authority DEF ChangeAccount

(* Whoever changes an account has the authority for it at that moment, not *)
(* only when it was checked.                                               *)
THEOREM AuthorityHeldAtChange == Spec => AuthorityAtChange
<1>1. IInv /\ [Next]_vars =>
        [\A r \in Requests : Changes(r)
           => LET q == requests[r]
              IN  /\ q.admin # q.target
                  /\ MayDo(q.admin, "manage_users")
                  /\ IsStaff(q.target) \/ accounts[q.target].wasStaff \/ q.action \notin Gated
                     => MayDo(q.admin, "manage_admins")]_vars
  BY AuthorityStep
<1>2. IInv /\ [Next]_vars => IInv'
  BY NextIInv
<1>. QED
  BY InitIInv, <1>1, <1>2, PTL DEF Spec, AuthorityAtChange
=============================================================================
