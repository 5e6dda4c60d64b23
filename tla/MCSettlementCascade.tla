-------------------------- MODULE MCSettlementCascade --------------------------
(***************************************************************************)
(* SettlementCascade for TLC.  Bidders, and runs of check-payment-window,  *)
(* are interchangeable.                                                    *)
(***************************************************************************)
EXTENDS SettlementCascade, TLC

(* The winner has a maximum: his own matters only if he is asked a second  *)
(* time.                                                                   *)
MCInit ==
    /\ CascadeInit
    /\ auction.winner # NoBidder => bid[auction.winner] > 0

MCSpec == MCInit /\ [][CascadeNext]_cascadeVars

CascadeSymmetry == Permutations(Bidders) \cup Permutations(Checkers)
=============================================================================
