---------------------------- MODULE MCTapPossession ----------------------------
(***************************************************************************)
(* Instances of TapPossession for TLC.  Chips, request slots and session   *)
(* ids are interchangeable; one chip was read once before the ledger.      *)
(***************************************************************************)
EXTENDS TapPossession, TLC

MCInit ==
    /\ Init
    /\ \E t \in Tags :
          /\ reads[t] = 1 /\ sun_counter[t] = 1
          /\ \A other \in Tags \ {t} : reads[other] = 0

MCSpec == MCInit /\ [][Next]_vars

SlotSymmetry == Permutations(Tags) \cup Permutations(Sessions) \cup Permutations(Requests)
=============================================================================
