----------------------------- MODULE AuctionBidding -----------------------------
(***************************************************************************)
(* One auction of the parked marketplace: bids, proxy bids and what an     *)
(* admin does to the auction while they arrive.                            *)
(*                                                                         *)
(*   Requests   calls of placeBid, and of the place-bid function, which    *)
(*              takes the same steps                                       *)
(*   Admins     calls that end, restart, cancel or settle the auction      *)
(*                                                                         *)
(* A bid goes through three steps.  The route reads the auction and checks *)
(* the amount; the INSERT's row-level policy checks the status again, in   *)
(* the snapshot of its statement; the trigger takes the lock on the        *)
(* auction's row and applies the bid to whatever the row is by then.  The  *)
(* admin's calls read, and write by id, one table after the other.         *)
(*                                                                         *)
(* Prices are small numbers and the minimum increment is one.  A maximum   *)
(* of 0 is NULL.  The trigger inserts a bid of its own when a proxy        *)
(* answers: the same trigger then finds the leader's own bid, no higher    *)
(* than his maximum, and changes nothing.                                  *)
(***************************************************************************)
EXTENDS Integers, Sequences, FiniteSets

CONSTANTS Bidders, NoBidder, Requests, Admins,
          MaxPrice,   \* the greatest amount or maximum of a bid
          MaxBids,    \* calls of placeBid in one behaviour
          MaxCalls,   \* calls of the admins in one behaviour
          MaxFaults   \* database calls of an admin's route that fail

VARIABLES
    auction,   \* the auctions row; over: end_time has passed
    listing,   \* listings.status
    bids,      \* rows of bids: whose, and max_bid_cents (0 for NULL)
    sales,     \* settlements of the auction, in order
    req,       \* what each request of a bidder has still to do
    call,      \* what each call of an admin has read and has still to do
    placed,    \* calls of placeBid so far
    calls,     \* calls of the admins so far
    faults,    \* failures so far
    pledged,   \* history: the most each bidder has ever offered
    late,      \* history: a bid was applied to an auction that is not open
    stale      \* history: an admin's call wrote upon a row changed after its read

vars == <<auction, listing, bids, sales, req, call, placed, calls, faults,
          pledged, late, stale>>

ASSUME BiddingAssumption ==
    /\ NoBidder \notin Bidders
    /\ Requests \cap Admins = {}
    /\ MaxPrice \in Nat \ {0}
    /\ MaxBids \in Nat
    /\ MaxCalls \in Nat
    /\ MaxFaults \in Nat

Start == 1
Increment == 1

Statuses == {"ACTIVE", "ENDED", "CANCELLED"}

Auction == [status : Statuses,
            over   : BOOLEAN,
            price  : 1 .. MaxPrice,
            leader : Bidders \cup {NoBidder},
            max    : 0 .. MaxPrice]

(* The amount of a row is not read again, so it is left out of it.         *)
Bid == [bidder : Bidders, max : 0 .. MaxPrice]

Sale == [buyer : Bidders \cup {NoBidder}, price : 1 .. MaxPrice]

NoBid == [at |-> "idle", bidder |-> NoBidder, amount |-> 1, max |-> 0]

Req == [at     : {"idle", "insert", "apply"},
        bidder : Bidders \cup {NoBidder},
        amount : 1 .. MaxPrice,
        max    : 0 .. MaxPrice]

(* read: what the call keeps of the row it decided upon, for a later write. *)
(* old: the row has changed since.                                         *)
Call == [at   : {"idle", "end", "reset", "wipe", "relist",
                 "cancel", "cancelListing", "rollback", "settle"},
         read : Auction,
         old  : BOOLEAN]

Opened == [status |-> "ACTIVE", over |-> FALSE, price |-> Start,
           leader |-> NoBidder, max |-> 0]

Idle == [at |-> "idle", read |-> Opened, old |-> FALSE]

Init ==
    /\ auction = Opened
    /\ listing = "ACTIVE"
    /\ bids = {}
    /\ sales = <<>>
    /\ req = [r \in Requests |-> NoBid]
    /\ call = [a \in Admins |-> Idle]
    /\ placed = 0
    /\ calls = 0
    /\ faults = 0
    /\ pledged = [b \in Bidders |-> 0]
    /\ late = FALSE
    /\ stale = FALSE

Least(m, n) == IF m <= n THEN m ELSE n

Most(m, n) == IF m >= n THEN m ELSE n

-----------------------------------------------------------------------------
(* Bids.                                                                   *)

Open == auction.status = "ACTIVE" /\ ~auction.over

(* The amount is checked against the price read here.  Of a bid with a     *)
(* maximum the trigger looks at the maximum alone, so only that is kept.   *)
BidReads(r, b, amount, max) ==
    /\ req[r].at = "idle"
    /\ placed < MaxBids
    /\ placed' = placed + 1
    /\ Open
    /\ amount >= auction.price + Increment
    /\ max = 0 \/ max >= amount
    /\ req' = [req EXCEPT ![r] = [at |-> "insert", bidder |-> b,
                                  amount |-> Most(amount, max), max |-> max]]
    /\ UNCHANGED <<auction, listing, bids, sales, call, calls, faults, pledged, late, stale>>

(* The policy on the table: a refused INSERT ends the call.                *)
BidIsAdmitted(r) ==
    /\ req[r].at = "insert"
    /\ req' = [req EXCEPT ![r] = IF Open THEN [req[r] EXCEPT !.at = "apply"] ELSE NoBid]
    /\ UNCHANGED <<auction, listing, bids, sales, call, placed, calls, faults,
                   pledged, late, stale>>

(* Mutant of Contest: a bid with a maximum above the price leads, whatever *)
(* the leader's own maximum is.                                            *)
ContestByPrice(a, b) ==
    CASE b.max = 0 /\ b.amount > a.max ->
           [a EXCEPT !.price = b.amount, !.leader = b.bidder, !.max = 0]
      [] b.max = 0 /\ b.amount <= a.max ->
           [a EXCEPT !.price = Least(b.amount + Increment, a.max)]
      [] b.max > a.price ->
           [a EXCEPT !.price = Least(a.price + Increment, b.max),
                     !.leader = b.bidder, !.max = b.max]
      [] b.max > 0 /\ b.max <= a.price -> a

(* A bid b against another bidder's lead.  Amounts are positive, so a      *)
(* leader without a maximum is below every amount.                         *)
Contest(a, b) ==
    CASE b.max = 0 /\ b.amount > a.max ->
           [a EXCEPT !.price = b.amount, !.leader = b.bidder, !.max = 0]
      [] b.max = 0 /\ b.amount <= a.max ->
           [a EXCEPT !.price = Least(b.amount + Increment, a.max)]
      [] b.max > a.max ->
           [a EXCEPT !.price = Least((IF a.max = 0 THEN a.price ELSE a.max) + Increment,
                                     b.max),
                     !.leader = b.bidder, !.max = b.max]
      [] b.max > 0 /\ b.max = a.max -> a
      [] b.max > 0 /\ b.max < a.max ->
           [a EXCEPT !.price = Least(b.max + Increment, a.max)]

(* What the trigger makes of the auction a for the bid b.                  *)
handle_proxy_bid(a, b) ==
    CASE a.leader = NoBidder ->
           [a EXCEPT !.price = Start, !.leader = b.bidder, !.max = b.max]
      [] a.leader = b.bidder ->
           [a EXCEPT !.max = Most(a.max, b.max)]
      [] a.leader \notin {NoBidder, b.bidder} -> Contest(a, b)

(* The proxy answers: the trigger inserts the leader's bid as well.        *)
Answers(a, b) ==
    IF /\ a.leader \notin {NoBidder, b.bidder}
       /\ \/ b.max = 0 /\ b.amount <= a.max
          \/ b.max > 0 /\ b.max < a.max
      THEN {[bidder |-> a.leader, max |-> a.max]}
      ELSE {}

BidIsApplied(r) ==
    /\ req[r].at = "apply"
    /\ LET b == [bidder |-> req[r].bidder, amount |-> req[r].amount, max |-> req[r].max]
       IN  /\ auction' = handle_proxy_bid(auction, b)
           /\ bids' = bids \cup {[bidder |-> b.bidder, max |-> b.max]}
                          \cup Answers(auction, b)
           /\ pledged' = [pledged EXCEPT
                            ![b.bidder] = Most(pledged[b.bidder], Most(b.amount, b.max))]
    /\ call' = [a \in Admins |->
                  IF call[a].at = "idle" THEN call[a] ELSE [call[a] EXCEPT !.old = TRUE]]
    /\ late' = (late \/ auction.status # "ACTIVE")
    /\ req' = [req EXCEPT ![r] = NoBid]
    /\ UNCHANGED <<listing, sales, placed, calls, faults, stale>>

BidStep(r) ==
    \/ \E b \in Bidders, amount \in 1 .. MaxPrice, max \in 0 .. MaxPrice :
          BidReads(r, b, amount, max)
    \/ BidIsAdmitted(r)
    \/ BidIsApplied(r)

-----------------------------------------------------------------------------
(* The admin's calls.                                                      *)

At(a, label) == call[a].at = label

Begins(a, label, kept) ==
    /\ At(a, "idle")
    /\ calls < MaxCalls
    /\ calls' = calls + 1
    /\ call' = [call EXCEPT ![a] = [at |-> label, read |-> kept, old |-> FALSE]]
    /\ UNCHANGED <<auction, listing, bids, sales, req, placed, pledged, late, stale>>

Reads(a, label, kept) == Begins(a, label, kept) /\ UNCHANGED faults

(* The call writes: what the others have read is out of date.              *)
Writes(a, next) ==
    /\ call' = [c \in Admins |->
                  IF c = a THEN (IF next = "idle" THEN Idle ELSE [call[a] EXCEPT !.at = next])
                  ELSE IF call[c].at = "idle" THEN call[c]
                  ELSE [call[c] EXCEPT !.old = TRUE]]
    /\ stale' = (stale \/ call[a].old)

endAuctionReads(a) ==
    /\ auction.status = "ACTIVE"
    /\ Reads(a, "end", Opened)

endAuction(a) ==
    /\ At(a, "end")
    /\ auction' = [auction EXCEPT !.status = "ENDED", !.over = TRUE]
    /\ Writes(a, "idle")
    /\ UNCHANGED <<listing, bids, sales, req, placed, calls, faults, pledged, late>>

(* Mutant of restartAuctionReads: a settled auction may be restarted.      *)
RestartsSettled(a) ==
    /\ auction.status \in {"ENDED", "CANCELLED"}
    /\ Reads(a, "reset", Opened)

restartAuctionReads(a) ==
    /\ auction.status \in {"ENDED", "CANCELLED"}
    /\ sales = <<>>
    /\ Reads(a, "reset", Opened)

RestartResets(a) ==
    /\ At(a, "reset")
    /\ auction' = Opened
    /\ Writes(a, "wipe")
    /\ UNCHANGED <<listing, bids, sales, req, placed, calls, faults, pledged, late>>

RestartWipesBids(a) ==
    /\ At(a, "wipe")
    /\ bids' = {}
    /\ Writes(a, "relist")
    /\ UNCHANGED <<auction, listing, sales, req, placed, calls, faults, pledged, late>>

RestartRelists(a) ==
    /\ At(a, "relist")
    /\ listing' = "ACTIVE"
    /\ Writes(a, "idle")
    /\ UNCHANGED <<auction, bids, sales, req, placed, calls, faults, pledged, late>>

cancelAuctionReads(a) ==
    /\ auction.status # "CANCELLED"
    /\ sales = <<>>
    /\ Reads(a, "cancel", [Opened EXCEPT !.status = auction.status])

CancelsAuction(a) ==
    /\ At(a, "cancel")
    /\ auction' = [auction EXCEPT !.status = "CANCELLED"]
    /\ Writes(a, "cancelListing")
    /\ UNCHANGED <<listing, bids, sales, req, placed, calls, faults, pledged, late>>

CancelsListing(a) ==
    /\ At(a, "cancelListing")
    /\ listing' = "CANCELLED"
    /\ Writes(a, "idle")
    /\ UNCHANGED <<auction, bids, sales, req, placed, calls, faults, pledged, late>>

(* The listing could not be cancelled: the auction gets the status the     *)
(* call had read.                                                          *)
CancelRollsBack(a) ==
    /\ At(a, "rollback")
    /\ auction' = [auction EXCEPT !.status = call[a].read.status]
    /\ Writes(a, "idle")
    /\ UNCHANGED <<listing, bids, sales, req, placed, calls, faults, pledged, late>>

(* settle-auction; the offer and the payment are SettlementCascade's part. *)
(* It drops the error of its look for a settlement: when that read fails,  *)
(* it goes on as if there were none.                                       *)
SettleReads(a) ==
    /\ auction.status = "ENDED"
    /\ \/ sales = <<>> /\ UNCHANGED faults
       \/ faults < MaxFaults /\ faults' = faults + 1
    /\ Begins(a, "settle", [Opened EXCEPT !.leader = auction.leader,
                                             !.price = auction.price])

SettleInsertsSale(a) ==
    /\ At(a, "settle")
    /\ sales' = Append(sales, [buyer |-> call[a].read.leader, price |-> call[a].read.price])
    /\ Writes(a, "idle")
    /\ UNCHANGED <<auction, listing, bids, req, placed, calls, faults, pledged, late>>

(* A database call returns an error: the route ends with what it has done, *)
(* and only the cancellation puts something back.                          *)
AdminFails(a) ==
    /\ ~At(a, "idle")
    /\ faults < MaxFaults
    /\ faults' = faults + 1
    /\ call' = [call EXCEPT ![a] = IF At(a, "cancelListing")
                                     THEN [call[a] EXCEPT !.at = "rollback"]
                                     ELSE Idle]
    /\ UNCHANGED <<auction, listing, bids, sales, req, placed, calls, pledged, late, stale>>

AdminStep(a) ==
    \/ endAuctionReads(a)
    \/ endAuction(a)
    \/ restartAuctionReads(a)
    \/ RestartResets(a)
    \/ RestartWipesBids(a)
    \/ RestartRelists(a)
    \/ cancelAuctionReads(a)
    \/ CancelsAuction(a)
    \/ CancelsListing(a)
    \/ CancelRollsBack(a)
    \/ SettleReads(a)
    \/ SettleInsertsSale(a)
    \/ AdminFails(a)

(* end_time passes.  Nothing else ends an auction: its status stays ACTIVE *)
(* until an admin ends it.                                                 *)
TimePasses ==
    /\ Open
    /\ auction' = [auction EXCEPT !.over = TRUE]
    /\ UNCHANGED <<listing, bids, sales, req, call, placed, calls, faults,
                   pledged, late, stale>>

Next ==
    \/ \E r \in Requests : BidStep(r)
    \/ \E a \in Admins : AdminStep(a)
    \/ TimePasses

Spec == Init /\ [][Next]_vars

-----------------------------------------------------------------------------
(* Properties.                                                             *)

(* Every row and every call has its shape, and prices stay in range.       *)
TypeOK ==
    /\ auction \in Auction
    /\ listing \in {"ACTIVE", "CANCELLED"}
    /\ bids \subseteq Bid
    /\ sales \in Seq(Sale)
    /\ req \in [Requests -> Req]
    /\ call \in [Admins -> Call]
    /\ placed \in 0 .. MaxBids
    /\ calls \in 0 .. MaxCalls
    /\ faults \in 0 .. MaxFaults
    /\ pledged \in [Bidders -> 0 .. MaxPrice]
    /\ late \in BOOLEAN
    /\ stale \in BOOLEAN

(* However the bids overlap, whatever was restarted in between, nobody     *)
(* owes more than he has offered: the price of the leader, and of every    *)
(* settlement, is within its buyer's greatest amount or maximum.           *)
PriceWithinPledge ==
    /\ auction.leader # NoBidder => auction.price <= pledged[auction.leader]
    /\ \A i \in DOMAIN sales :
          sales[i].buyer # NoBidder => sales[i].price <= pledged[sales[i].buyer]

(* While no call of an admin is under way or was cut short, and every bid  *)
(* carries a maximum, the leader is the one whose maximum is the greatest, *)
(* in whatever order the bids arrived, and the rows of bids show it.       *)
ProxyHoldsTheLead ==
    (/\ \A a \in Admins : At(a, "idle")
     /\ faults = 0
     /\ ~stale
     /\ \A b \in bids : b.max > 0)
       => /\ bids = {} <=> auction.leader = NoBidder
          /\ \A b \in bids : b.max <= auction.max
          /\ bids # {} => \E b \in bids : b.bidder = auction.leader /\ b.max = auction.max

(* A bidder with a maximum loses the lead only to someone who offers more, *)
(* or when the auction is started again: no order of arrival lets a        *)
(* smaller offer pass a greater one.                                       *)
OutbidOnlyByMore ==
    [][ (auction.leader \notin {NoBidder, auction'.leader} /\ auction.max > 0)
          => \/ auction'.leader = NoBidder
             \/ pledged'[auction'.leader] > auction.max ]_vars

(* When nobody is at work, and no call wrote upon a row that had changed   *)
(* after its read, the tables agree: the listing is cancelled with its     *)
(* auction unless a call failed half way; an auction has one settlement,   *)
(* or one more for each call that failed (settle-auction's look for one    *)
(* among them); and an auction with a settlement is over and, unless a bid *)
(* was applied late, every settlement sells it to its leader at its price. *)
TablesAgree ==
    ((\A a \in Admins : At(a, "idle")) /\ ~stale) =>
       /\ faults = 0 => (auction.status = "CANCELLED" <=> listing = "CANCELLED")
       /\ sales # <<>> =>
             /\ auction.status = "ENDED"
             /\ Len(sales) <= 1 + faults
             /\ ~late => \A i \in DOMAIN sales :
                            sales[i] = [buyer |-> auction.leader, price |-> auction.price]

(* Rows have their shape, nobody owes more than he has offered, and the    *)
(* tables agree on what became of the auction.                             *)
Inv == TypeOK /\ PriceWithinPledge /\ TablesAgree
=============================================================================
