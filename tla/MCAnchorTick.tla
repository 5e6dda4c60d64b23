------------------------------ MODULE MCAnchorTick ------------------------------
(***************************************************************************)
(* Instances of AnchorTick for TLC.  Slots and transactions are            *)
(* interchangeable.                                                        *)
(***************************************************************************)
EXTENDS AnchorTick, TLC

SlotSymmetry == Permutations(Ticks) \cup Permutations(Txs)

(* For liveness: ticks run to their end, but for deaths between recording  *)
(* a hash and sending its transaction, which count as faults.  The scan and*)
(* what it looks for change nothing that the other steps read; the writer  *)
(* stays ours.                                                             *)
MCLiveNext ==
    \/ \E p \in Proofs : MintProof(p)
    \/ NextDay
    \/ \E t \in Txs : Mine(t) \/ Arrive(t) \/ Drop(t)
    \/ Finalise
    \/ Reorganise
    \/ \E k \in Ticks :
          \/ Confirm(k) \/ Gather(k) \/ Send(k)
          \/ ticks[k].pc = "broadcast" /\ Abort(k)

MCLiveSpec == Init /\ [][MCLiveNext]_vars /\ Fairness
=============================================================================
