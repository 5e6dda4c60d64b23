------------------------------ MODULE AnchorLedger ------------------------------
(***************************************************************************)
(* What anchoring promises, without ticks, resending or a chain that may   *)
(* forget: a set of ownership proofs is fixed as a root, that root is      *)
(* written to the registry once, and only then are its proofs stamped.     *)
(***************************************************************************)
EXTENDS Naturals

CONSTANTS Batches, Proofs

VARIABLES
    queued,  \* batches whose root is fixed
    leaves,  \* batch -> the proofs under its root
    written, \* batch -> how often its root stands in the registry for good
    stamped  \* batches whose proofs say that they are anchored

ledger == <<queued, leaves, written, stamped>>

Init ==
    /\ queued = {}
    /\ leaves = [b \in Batches |-> {}]
    /\ written = [b \in Batches |-> 0]
    /\ stamped = {}

(* A proof goes under one root, and no root gains or loses a leaf.         *)
Queue(b, P) ==
    /\ b \notin queued
    /\ \A other \in queued : leaves[other] \cap P = {}
    /\ queued' = queued \cup {b}
    /\ leaves' = [leaves EXCEPT ![b] = P]
    /\ UNCHANGED <<written, stamped>>

Write(b) ==
    /\ b \in queued
    /\ written[b] = 0
    /\ written' = [written EXCEPT ![b] = 1]
    /\ UNCHANGED <<queued, leaves, stamped>>

Stamp(b) ==
    /\ written[b] = 1
    /\ stamped' = stamped \cup {b}
    /\ UNCHANGED <<queued, leaves, written>>

Next ==
    \E b \in Batches :
       \/ \E P \in SUBSET Proofs : Queue(b, P)
       \/ Write(b)
       \/ Stamp(b)

Spec == Init /\ [][Next]_ledger
=============================================================================
