----------------------------- MODULE AdminApprovals -----------------------------
(***************************************************************************)
(* Staff accounts and the approvals by two admins.  An admin suspends,     *)
(* retires, unsuspends and reactivates accounts; a super_admin also grants *)
(* and revokes staff roles and deletes accounts.  What a plain admin asks  *)
(* for waits for a second admin, except the lifting of a hold of their own.*)
(*                                                                         *)
(* A request of the API is a sequence of steps: it is authorised with the  *)
(* role the caller has at that time, it reads who set a hold, and only     *)
(* then a database function runs.  The functions on accounts take a lock   *)
(* shared by all of them, check the actor, and change the account; these   *)
(* are three actions, since other transactions commit in between.  The     *)
(* approval's decision, the action it approved and the record of its       *)
(* outcome are separate transactions, and the process may die in between.  *)
(*                                                                         *)
(* The gated token actions (suspension, reset, replacement) go through the *)
(* same handlers; what they do to a token is in TokenLifecycle.            *)
(***************************************************************************)
EXTENDS Naturals

CONSTANTS
    Accounts,   \* ids of users rows
    NoOne,      \* no account
    Roles,      \* staff roles that exist
    Approvals,  \* ids of admin_action_approvals rows
    NoApproval, \* a direct action
    Requests,   \* requests in flight together
    MaxCalls    \* bound: requests of the API that change or approve

ASSUME NoOneAssumption == NoOne \notin Accounts \cup Requests
ASSUME NoApprovalAssumption == NoApproval \notin Approvals
ASSUME RolesAssumption == Roles \subseteq {"super_admin", "admin", "support"}
ASSUME MaxCallsAssumption == MaxCalls \in Nat

VARIABLES
    accounts,  \* users and admin_users
    suspender, \* audit_logs: who last suspended an account
    retirer,   \* audit_logs: who last retired an account
    lock,      \* the slot that holds the advisory lock of account changes
    approvals, \* admin_action_approvals
    runs,      \* history: how often an approval's action changed something
    requests,  \* slot -> where the request stands
    calls      \* history: requests begun

vars == <<accounts, suspender, retirer, lock, approvals, runs, requests, calls>>

Gated == {"account_suspend", "account_unsuspend", "account_retire", "account_reactivate"}
Actions == Gated \cup {"set_role", "account_delete"}

(* `suspended` is "over" when the hold has run out and its flag is still   *)
(* set; `wasStaff` is retired_role.                                        *)
Account ==
    [role      : Roles \cup {"none"},
     suspended : {"no", "running", "over"},
     retired   : BOOLEAN,
     wasStaff  : BOOLEAN,
     deleted   : BOOLEAN]

(* `late`: the 24 hours are over.                                          *)
Approval ==
    [status    : {"none", "open", "approved", "rejected", "cancelled", "expired"},
     action    : Gated,
     target    : Accounts \cup {NoOne},
     requester : Accounts \cup {NoOne},
     decider   : Accounts \cup {NoOne},
     late      : BOOLEAN,
     outcome   : {"none", "ok", "failed"}]

RequestSlot ==
    [pc       : {"idle", "ask", "lock", "check", "act", "record_ok", "record_failed"},
     admin    : Accounts \cup {NoOne},
     action   : Actions,
     target   : Accounts \cup {NoOne},
     role     : Roles \cup {"none"},
     approval : Approvals \cup {NoApproval}]

NoAccountChange == UNCHANGED <<accounts, suspender, retirer, runs, calls>>
NewApproval ==
    [status |-> "none", action |-> "account_suspend", target |-> NoOne, requester |-> NoOne,
     decider |-> NoOne, late |-> FALSE, outcome |-> "none"]
IdleRequest ==
    [pc |-> "idle", admin |-> NoOne, action |-> "account_suspend", target |-> NoOne,
     role |-> "none", approval |-> NoApproval]

(* Type correctness, and the table's check that nobody decides their own   *)
(* request except to cancel it.                                            *)
TypeOK ==
    /\ accounts \in [Accounts -> Account]
    /\ suspender \in [Accounts -> Accounts \cup {NoOne}]
    /\ retirer \in [Accounts -> Accounts \cup {NoOne}]
    /\ lock \in Requests \cup {NoOne}
    /\ approvals \in [Approvals -> Approval]
    /\ \A a \in Approvals :
          approvals[a].status \in {"approved", "rejected"} => approvals[a].decider # approvals[a].requester
    /\ runs \in [Approvals -> Nat]
    /\ requests \in [Requests -> RequestSlot]
    /\ calls \in 0..MaxCalls

Init ==
    /\ accounts \in [Accounts -> [role : Roles \cup {"none"}, suspended : {"no"},
                                  retired : {FALSE}, wasStaff : {FALSE}, deleted : {FALSE}]]
    /\ \E s \in Accounts : accounts[s].role = "super_admin"
    /\ suspender = [u \in Accounts |-> NoOne]
    /\ retirer = [u \in Accounts |-> NoOne]
    /\ lock = NoOne
    /\ approvals = [a \in Approvals |-> NewApproval]
    /\ runs = [a \in Approvals |-> 0]
    /\ requests = [r \in Requests |-> IdleRequest]
    /\ calls = 0

-----------------------------------------------------------------------------
Permissions(role) ==
    CASE role = "super_admin" -> {"manage_users", "manage_admins", "act_without_approval"}
      [] role = "admin" -> {"manage_users"}
      [] OTHER -> {}

(* admin_actor_email and verifyAdminAuth: active staff with a permission.  *)
MayDo(u, permission) ==
    /\ ~accounts[u].deleted
    /\ ~accounts[u].retired
    /\ accounts[u].suspended # "running"
    /\ permission \in Permissions(accounts[u].role)

IsStaff(u) == accounts[u].role # "none"

(* A request begins: it takes a slot and one of the MaxCalls. *)
Begin(r, request) ==
    /\ requests[r].pc = "idle"
    /\ calls < MaxCalls
    /\ calls' = calls + 1
    /\ requests' = [requests EXCEPT ![r] = request]

Finish(r) == requests' = [requests EXCEPT ![r] = IdleRequest]
Goto(r, pc) == requests' = [requests EXCEPT ![r].pc = pc]

(* holdSetBy, for the two lifts.                                           *)
SetTheHold(admin, action, target) ==
    \/ action = "account_unsuspend" /\ suspender[target] = admin
    \/ action = "account_reactivate" /\ retirer[target] = admin

-----------------------------------------------------------------------------
(* approvalGated: the action runs at once for who may act alone or set the *)
(* hold that it lifts; otherwise it is stored for a second admin.          *)
ApprovalGated(r, admin, action, target) ==
    /\ MayDo(admin, "manage_users")
    /\ Begin(r, [IdleRequest EXCEPT !.admin = admin, !.action = action, !.target = target,
                   !.pc = IF \/ MayDo(admin, "act_without_approval")
                             \/ SetTheHold(admin, action, target)
                          THEN "lock" ELSE "ask"])
    /\ UNCHANGED <<accounts, suspender, retirer, lock, approvals, runs>>

(* setAccountRole and deleteAccount.                                       *)
ManageAdmins(r, admin, action, target, role) ==
    /\ MayDo(admin, "manage_admins")
    /\ Begin(r, [IdleRequest EXCEPT !.admin = admin, !.action = action, !.target = target,
                   !.role = role, !.pc = "lock"])
    /\ UNCHANGED <<accounts, suspender, retirer, lock, approvals, runs>>

(* Mutant of Expired: whatever is past its 24 hours expires.               *)
ExpiredDecided(a) == approvals[a].late

(* admin_expire_approvals: the rows that it closes.                        *)
Expired(a) == approvals[a].status = "open" /\ approvals[a].late

(* admin_request_approval: expired requests are closed first; one request  *)
(* may be open for an action on a target.                                  *)
admin_request_approval(r, a) ==
    LET q == requests[r]
        after == [b \in Approvals |->
                    IF Expired(b) THEN [approvals[b] EXCEPT !.status = "expired", !.decider = NoOne]
                    ELSE approvals[b]]
    IN  /\ q.pc = "ask"
        /\ approvals[a].status = "none"
        /\ IF /\ MayDo(q.admin, "manage_users")
              /\ q.target # q.admin
              /\ ~\E b \in Approvals : /\ after[b].status = "open"
                                       /\ after[b].action = q.action
                                       /\ after[b].target = q.target
           THEN approvals' = [after EXCEPT ![a] =
                   [NewApproval EXCEPT !.status = "open", !.action = q.action,
                      !.target = q.target, !.requester = q.admin]]
           ELSE UNCHANGED approvals
        /\ Finish(r)
        /\ UNCHANGED <<lock>> /\ NoAccountChange

(* 24 hours pass.                                                          *)
PassDeadline(a) ==
    /\ approvals[a].status \in {"open", "approved"}
    /\ ~approvals[a].late
    /\ approvals' = [approvals EXCEPT ![a].late = TRUE]
    /\ UNCHANGED <<lock, requests>> /\ NoAccountChange

(* Mutant of MayDecide: any admin may decide, the requester too.           *)
MayDecideOwn(admin, a) ==
    /\ approvals[a].status = "open"
    /\ ~approvals[a].late
    /\ MayDo(admin, "manage_users")

(* What admin_decide_approval asks of anyone who approves or rejects.      *)
MayDecide(admin, a) ==
    /\ approvals[a].status = "open"
    /\ ~approvals[a].late
    /\ MayDo(admin, "manage_users")
    /\ admin # approvals[a].requester

(* The decision commits; then the stored action runs, as the approver.  A  *)
(* request dies with its requester's access.                               *)
Approve(r, admin, a) ==
    /\ MayDecide(admin, a)
    /\ admin # approvals[a].target
    /\ MayDo(approvals[a].requester, "manage_users")
    /\ approvals' = [approvals EXCEPT ![a].status = "approved", ![a].decider = admin]
    /\ Begin(r, [IdleRequest EXCEPT !.admin = admin, !.action = approvals[a].action,
                   !.target = approvals[a].target, !.approval = a, !.pc = "lock"])
    /\ UNCHANGED <<accounts, suspender, retirer, lock, runs>>

Reject(admin, a) ==
    /\ MayDecide(admin, a)
    /\ approvals' = [approvals EXCEPT ![a].status = "rejected", ![a].decider = admin]
    /\ UNCHANGED <<lock, requests>> /\ NoAccountChange

Cancel(admin, a) ==
    /\ approvals[a].status = "open"
    /\ ~approvals[a].late
    /\ MayDo(admin, "manage_users")
    /\ admin = approvals[a].requester
    /\ approvals' = [approvals EXCEPT ![a].status = "cancelled", ![a].decider = admin]
    /\ UNCHANGED <<lock, requests>> /\ NoAccountChange

-----------------------------------------------------------------------------
(* The database functions on accounts. *)

(* Mutant of admin_lock_changes: two transactions may be inside at once.   *)
LockShared(r) ==
    /\ requests[r].pc = "lock"
    /\ Goto(r, "check")
    /\ UNCHANGED <<lock, approvals>> /\ NoAccountChange

admin_lock_changes(r) ==
    /\ requests[r].pc = "lock"
    /\ lock = NoOne
    /\ lock' = r
    /\ Goto(r, "check")
    /\ UNCHANGED approvals /\ NoAccountChange

(* Mutant of MayAct: staff are protected like anyone else.                 *)
MayActOnStaff(admin, action, target) ==
    /\ MayDo(admin, IF action \in Gated THEN "manage_users" ELSE "manage_admins")
    /\ target # admin

(* admin_account_guard, and the same checks of admin_set_account_role.     *)
MayAct(admin, action, target) ==
    /\ MayDo(admin, IF action \in Gated THEN "manage_users" ELSE "manage_admins")
    /\ target # admin
    /\ action \in Gated /\ IsStaff(target) => MayDo(admin, "manage_admins")

(* A refusal ends the transaction; an approval records it.                 *)
Refuse(r) ==
    /\ lock' = NoOne
    /\ IF requests[r].approval = NoApproval THEN Finish(r) ELSE Goto(r, "record_failed")
    /\ UNCHANGED approvals /\ NoAccountChange

CheckActor(r) ==
    /\ requests[r].pc = "check"
    /\ IF MayAct(requests[r].admin, requests[r].action, requests[r].target)
       THEN Goto(r, "act") /\ UNCHANGED <<lock, approvals>> /\ NoAccountChange
       ELSE Refuse(r)

(* What the functions ask of the account's row.  Reactivating an account   *)
(* that was retired as staff needs manage_admins again; what blocks a      *)
(* deletion besides is the account's history, which may be empty.          *)
Applies(q) ==
    LET u == accounts[q.target]
    IN  /\ ~u.deleted
        /\ \/ q.action = "account_suspend" /\ ~u.retired
           \/ q.action = "account_unsuspend" /\ ~u.retired /\ u.suspended # "no"
           \/ q.action = "account_retire" /\ ~u.retired
           \/ /\ q.action = "account_reactivate"
              /\ u.retired
              /\ u.wasStaff => MayDo(q.admin, "manage_admins")
           \/ q.action = "account_delete" /\ u.retired /\ ~u.wasStaff
           \/ /\ q.action = "set_role"
              /\ q.role # "none" => ~u.retired /\ u.suspended # "running"
              /\ q.role # u.role

Changed(q) ==
    LET u == accounts[q.target]
    IN  CASE q.action = "account_suspend" -> [u EXCEPT !.suspended = "running"]
          [] q.action = "account_unsuspend" -> [u EXCEPT !.suspended = "no"]
          [] q.action = "account_retire" ->
                [u EXCEPT !.retired = TRUE, !.wasStaff = u.role # "none", !.role = "none"]
          [] q.action = "account_reactivate" -> [u EXCEPT !.retired = FALSE, !.wasStaff = FALSE]
          [] q.action = "account_delete" -> [u EXCEPT !.deleted = TRUE]
          [] OTHER -> [u EXCEPT !.role = q.role]

(* The change, its audit row and the end of the transaction.               *)
ChangeAccount(r) ==
    LET q == requests[r]
    IN  /\ q.pc = "act"
        /\ Applies(q)
        /\ accounts' = [accounts EXCEPT ![q.target] = Changed(q)]
        /\ suspender' = IF q.action = "account_suspend"
                        THEN [suspender EXCEPT ![q.target] = q.admin] ELSE suspender
        /\ retirer' = IF q.action = "account_retire"
                      THEN [retirer EXCEPT ![q.target] = q.admin] ELSE retirer
        /\ lock' = NoOne
        /\ IF q.approval = NoApproval
           THEN Finish(r) /\ UNCHANGED runs
           ELSE Goto(r, "record_ok") /\ runs' = [runs EXCEPT ![q.approval] = @ + 1]
        /\ UNCHANGED <<approvals, calls>>

RefuseChange(r) ==
    /\ requests[r].pc = "act"
    /\ ~Applies(requests[r])
    /\ Refuse(r)

(* admin_record_approval_result, once.                                     *)
RecordResult(r) ==
    LET a == requests[r].approval
    IN  /\ requests[r].pc \in {"record_ok", "record_failed"}
        /\ approvals' = IF approvals[a].outcome = "none"
                        THEN [approvals EXCEPT ![a].outcome =
                                IF requests[r].pc = "record_ok" THEN "ok" ELSE "failed"]
                        ELSE approvals
        /\ Finish(r)
        /\ UNCHANGED lock /\ NoAccountChange

(* A call fails or the process dies; an open transaction is rolled back.   *)
Abort(r) ==
    /\ requests[r].pc # "idle"
    /\ lock' = IF lock = r THEN NoOne ELSE lock
    /\ Finish(r)
    /\ UNCHANGED approvals /\ NoAccountChange

(* suspended_until passes.                                                 *)
SuspensionEnds(u) ==
    /\ accounts[u].suspended = "running"
    /\ accounts' = [accounts EXCEPT ![u].suspended = "over"]
    /\ UNCHANGED <<suspender, retirer, lock, approvals, runs, requests, calls>>

-----------------------------------------------------------------------------
Run(r) ==
    \/ admin_lock_changes(r)
    \/ CheckActor(r)
    \/ ChangeAccount(r)
    \/ RefuseChange(r)
    \/ RecordResult(r)

Next ==
    \/ \E r \in Requests :
          \/ Run(r)
          \/ Abort(r)
          \/ \E a \in Approvals : admin_request_approval(r, a)
          \/ \E admin \in Accounts :
                \/ \E a \in Approvals : Approve(r, admin, a)
                \/ \E target \in Accounts :
                      \/ \E action \in Gated : ApprovalGated(r, admin, action, target)
                      \/ ManageAdmins(r, admin, "account_delete", target, "none")
                      \/ \E role \in Roles \cup {"none"} : ManageAdmins(r, admin, "set_role", target, role)
    \/ \E a \in Approvals :
          \/ PassDeadline(a)
          \/ \E admin \in Accounts : Reject(admin, a) \/ Cancel(admin, a)
    \/ \E u \in Accounts : SuspensionEnds(u)

Spec == Init /\ [][Next]_vars

-----------------------------------------------------------------------------
(* Somebody can always manage the staff: however the super_admins act on   *)
(* each other, and whatever is checked before and done after another's     *)
(* change, one of them is left with access.                                *)
SomeoneManages == \E u \in Accounts : MayDo(u, "manage_admins")

Changes(r) ==
    /\ requests[r].pc = "act"
    /\ requests'[r] # requests[r]
    /\ accounts' # accounts \/ suspender' # suspender

(* Whoever changes an account has the authority for it when it changes and *)
(* not only when it was checked: to act on staff, on roles or on an        *)
(* account retired as staff takes manage_admins, and nobody acts on        *)
(* themselves.                                                             *)
AuthorityAtChange ==
    [][\A r \in Requests : Changes(r)
       => LET q == requests[r]
          IN  /\ q.admin # q.target
              /\ MayDo(q.admin, "manage_users")
              /\ IsStaff(q.target) \/ accounts[q.target].wasStaff \/ q.action \notin Gated
                 => MayDo(q.admin, "manage_admins")]_vars

(* A stored action changes something once at most, and only after an admin *)
(* other than the one who asked for it has approved it, even when its      *)
(* result was never recorded.                                              *)
ApprovalsRunOnce ==
    \A a \in Approvals :
       /\ runs[a] <= 1
       /\ runs[a] = 1 => approvals[a].status = "approved" /\ approvals[a].decider # approvals[a].requester

(* A closed request stays as it was decided: no expiry, second decision or *)
(* late cancel changes it.                                                 *)
DecisionsAreFinal ==
    [][\A a \in Approvals :
          approvals[a].status \notin {"none", "open"} =>
             /\ approvals'[a].status = approvals[a].status
             /\ approvals'[a].decider = approvals[a].decider]_vars

(* Rows have their shape, and nothing that waits for a second admin runs   *)
(* unapproved or twice.                                                    *)
Inv == TypeOK /\ ApprovalsRunOnce
=============================================================================
