---------------------------- MODULE MCAuctionBidding ----------------------------
(***************************************************************************)
(* AuctionBidding for TLC.  Bidders, requests and calls are                *)
(* interchangeable.                                                        *)
(***************************************************************************)
EXTENDS AuctionBidding, TLC

Symmetry == Permutations(Bidders) \cup Permutations(Requests) \cup Permutations(Admins)
=============================================================================
