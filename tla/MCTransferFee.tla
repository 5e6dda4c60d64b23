----------------------------- MODULE MCTransferFee -----------------------------
(***************************************************************************)
(* Instances of TransferFee for TLC.  Accounts, requests and runs of the   *)
(* applier are interchangeable, so the sender is fixed and the slots are   *)
(* declared symmetric.                                                     *)
(***************************************************************************)
EXTENDS TransferFee, TLC

CONSTANTS alice, bob

(* alice sends to bob, by account or by address; either pays the fee.      *)
AliceToBob ==
    \A x \in Transfers :
       /\ ownership_transfers[x].from = alice
       /\ bob \in {ownership_transfers[x].to, ownership_transfers[x].to_email}

MCInit == Init /\ AliceToBob

MCSpec == MCInit /\ [][Next]_vars

(* Who pays the fee decides only whose vouchers are used, and there are    *)
(* none in the run about liveness; nor does an apply look at the owner.    *)
BuyerPays ==
    /\ \A x \in Transfers : ownership_transfers[x].fee_payer = "BUYER"
    /\ \A t \in Tags : nfc_tags[t].owner # bob

MCBuyerInit == MCInit /\ BuyerPays

MCBuyerSpec == MCBuyerInit /\ [][Next]_vars

MCFairSpec == MCBuyerSpec /\ SweepFairness

SlotSymmetry == Permutations(Requests) \cup Permutations(Appliers)
=============================================================================
