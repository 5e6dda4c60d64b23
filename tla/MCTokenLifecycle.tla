---------------------------- MODULE MCTokenLifecycle ---------------------------
(***************************************************************************)
(* Instances of TokenLifecycle for TLC.  Accounts, transfer ids and        *)
(* request slots are interchangeable; of the two chips, one is in use and  *)
(* the spare is there for a reset: nobody claims it.                       *)
(***************************************************************************)
EXTENDS TokenLifecycle, TLC

CONSTANT spare

SpareUnclaimed ==
    \A r \in Requests : requests[r].pc = "stale_proof" => requests[r].tag # spare

TokenSymmetry ==
    Permutations(Users) \cup Permutations(Transfers) \cup Permutations(Requests)
=============================================================================
