---------------------------- MODULE MCAdminApprovals ----------------------------
(***************************************************************************)
(* Instances of AdminApprovals for TLC: two super_admins and an admin,     *)
(* or a super_admin, an admin and a customer, to begin with.               *)
(***************************************************************************)
EXTENDS AdminApprovals, TLC

CONSTANTS Super, Staff, Other

MCInit ==
    /\ Init
    /\ accounts[Super].role = "super_admin"
    /\ \/ accounts[Staff].role = "super_admin" /\ accounts[Other].role = "admin"
       \/ accounts[Staff].role = "admin" /\ accounts[Other].role = "none"

MCSpec == MCInit /\ [][Next]_vars

SlotSymmetry == Permutations(Requests) \cup Permutations(Approvals)
=============================================================================
