----------------------------- MODULE MCTokenReissue -----------------------------
(***************************************************************************)
(* Instances of TokenReissue for TLC: one token with its owner, and chips  *)
(* that wait to be used.                                                   *)
(***************************************************************************)
EXTENDS TokenReissue, TLC

CONSTANTS Owned, Owner

MCInit ==
    /\ Init
    /\ \A t \in Tags : IF t = Owned THEN nfc_tags[t].owner = Owner ELSE nfc_tags[t].status = "ENROLLED"

MCSpec == MCInit /\ [][Next]_vars

SlotSymmetry ==
    Permutations(Rows) \cup Permutations(Intents) \cup Permutations(Calls)
       \cup Permutations(Appliers) \cup Permutations(Admins) \cup Permutations(Users \ {Owner})
=============================================================================
