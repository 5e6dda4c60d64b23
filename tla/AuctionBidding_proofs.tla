------------------------- MODULE AuctionBidding_proofs -------------------------
(***************************************************************************)
(* Proofs about AuctionBidding, for any bidders, requests and admins and   *)
(* whatever the greatest price is.                                         *)
(*                                                                         *)
(* A bid is applied under the lock on the auction's row, so what it makes  *)
(* of the price and the lead is a fact about handle_proxy_bid alone.  The  *)
(* calls of the admins are not: what one of them read is true only while   *)
(* the call is up to date (Knows), and the tables agree, and the lead is   *)
(* right, as long as nobody is bound to write upon what it no longer knows *)
(* (Clean).                                                                *)
(***************************************************************************)
EXTENDS AuctionBidding, SequenceTheorems, TLAPS

(* A bid on its way has a bidder.                                          *)
BiddersKnown == \A r \in Requests : req[r].at # "idle" => req[r].bidder \in Bidders

(* Neither the price nor the maximum of the leader is above what he has    *)
(* offered, nor is the price of a sale, made or about to be made.          *)
Covered(buyer, price) == buyer # NoBidder => price <= pledged[buyer]

PledgesCover ==
    /\ Covered(auction.leader, auction.price)
    /\ Covered(auction.leader, auction.max)
    /\ \A i \in DOMAIN sales : Covered(sales[i].buyer, sales[i].price)
    /\ \A a \in Admins : Covered(call[a].read.leader, call[a].read.price)

(* Only a call that failed is rolled back.                                 *)
RollbacksAreFaults == \A a \in Admins : call[a].at = "rollback" => faults > 0

Fresh(a) == ~call[a].old

(* What a call of an admin that is up to date can count upon.              *)
Knows(a) ==
    Fresh(a) =>
       /\ call[a].at = "end" => auction.status = "ACTIVE"
       /\ call[a].at = "wipe" => auction.status = "ACTIVE" /\ auction.leader = NoBidder
       /\ call[a].at = "relist" => auction.status = "ACTIVE"
       /\ call[a].at = "cancelListing" => auction.status = "CANCELLED"
       /\ call[a].at \in {"reset", "cancel", "cancelListing", "rollback"}
             => sales = <<>>
       /\ call[a].at = "settle" => /\ ~stale => Len(sales) <= faults
                                   /\ auction.status = "ENDED"
                                   /\ call[a].read.leader = auction.leader
                                   /\ call[a].read.price = auction.price

UpToDate == \A a \in Admins : Knows(a)

(* A settled auction is over, was settled once or once more for each call  *)
(* that failed, and to its leader at its price unless a bid came late.     *)
Sold == [buyer |-> auction.leader, price |-> auction.price]

SoldOnce ==
    (~stale /\ sales # <<>>) =>
       /\ auction.status = "ENDED"
       /\ Len(sales) <= 1 + faults
       /\ ~late => \A i \in DOMAIN sales : sales[i] = Sold

(* Nothing has gone wrong and no call is bound to write out of date.       *)
Clean ==
    /\ ~stale
    /\ faults = 0
    /\ \A a \in Admins : call[a].at = "idle" \/ Fresh(a)

(* The listing follows its auction, or a call is about to make it.         *)
ListingFollows ==
    Clean =>
       \/ auction.status = "CANCELLED" <=> listing = "CANCELLED"
       \/ \E a \in Admins : call[a].at \in {"wipe", "relist", "cancelListing"}

(* The greatest maximum leads, unless the bids are about to be wiped.      *)
GreatestLeads ==
    /\ bids = {} <=> auction.leader = NoBidder
    /\ \A b \in bids : b.max <= auction.max
    /\ bids # {} => \E b \in bids : b.bidder = auction.leader /\ b.max = auction.max

LeadHeld ==
    (/\ Clean
     /\ \A b \in bids : b.max > 0
     /\ \A a \in Admins : call[a].at # "wipe")
       => GreatestLeads

(* The inductive invariant.                                                *)
IInv ==
    /\ TypeOK
    /\ BiddersKnown
    /\ PledgesCover
    /\ RollbacksAreFaults
    /\ UpToDate
    /\ SoldOnce
    /\ ListingFollows
    /\ LeadHeld

LEMMA InitIInv == Init => IInv
<1> SUFFICES ASSUME Init PROVE IInv
  OBVIOUS
<1> USE BiddingAssumption
<1>1. Opened \in Auction
  BY DEF Opened, Auction, Statuses, Start
<1>2. Idle \in Call
  BY <1>1 DEF Idle, Call
<1>3. NoBid \in Req
  BY DEF NoBid, Req
<1>4. TypeOK
  <2>1. sales \in Seq(Sale)
    BY EmptySeq DEF Init
  <2>2. req \in [Requests -> Req] /\ call \in [Admins -> Call]
    BY <1>2, <1>3 DEF Init
  <2>3. auction \in Auction /\ bids \subseteq Bid /\ listing \in {"ACTIVE", "CANCELLED"}
    BY <1>1 DEF Init
  <2>4. placed \in 0 .. MaxBids /\ calls \in 0 .. MaxCalls /\ faults \in 0 .. MaxFaults
    BY DEF Init
  <2>5. late \in BOOLEAN /\ stale \in BOOLEAN
    BY DEF Init
  <2>6. pledged \in [Bidders -> 0 .. MaxPrice]
    <3>1. 0 \in 0 .. MaxPrice
      OBVIOUS
    <3>. QED
      BY <3>1 DEF Init
  <2>. QED
    BY <2>1, <2>2, <2>3, <2>4, <2>5, <2>6 DEF TypeOK
<1>5. \A a \in Admins : call[a].at = "idle" /\ call[a].read = Opened
  BY DEF Init, Idle
<1>6. auction.leader = NoBidder /\ Opened.leader = NoBidder /\ sales = <<>> /\ bids = {}
  BY DEF Init, Opened
<1>7. BiddersKnown
  BY DEF Init, BiddersKnown, NoBid
<1>8. PledgesCover
  BY <1>5, <1>6 DEF PledgesCover, Covered
<1>9. RollbacksAreFaults /\ UpToDate
  BY <1>5 DEF RollbacksAreFaults, UpToDate, Knows
<1>10. SoldOnce /\ LeadHeld
  BY <1>6 DEF SoldOnce, LeadHeld, GreatestLeads
<1>11. ListingFollows
  BY DEF ListingFollows, Init, Opened
<1>. QED
  BY <1>4, <1>7, <1>8, <1>9, <1>10, <1>11 DEF IInv

-----------------------------------------------------------------------------
(* What the trigger does.                                                  *)

(* What an applied bid carries.                                            *)
Carried == [bidder : Bidders, amount : 1 .. MaxPrice, max : 0 .. MaxPrice]

(* The smaller and the greater of two prices.                              *)
LEMMA LeastMost ==
    ASSUME NEW m \in Int, NEW n \in Int
    PROVE  /\ Least(m, n) \in {m, n} /\ Least(m, n) <= m /\ Least(m, n) <= n
           /\ Most(m, n) \in {m, n} /\ Most(m, n) >= m /\ Most(m, n) >= n
  BY DEF Least, Most

(* Against another's lead a bid takes the lead with more than his maximum, *)
(* or leaves it to him at no more than that maximum.                       *)
LEMMA ContestDecides ==
    ASSUME NEW a \in Auction, NEW b \in Carried
    PROVE  /\ Contest(a, b) \in Auction
           /\ Contest(a, b).status = a.status
           /\ \/ /\ Contest(a, b).leader = b.bidder
                 /\ Contest(a, b).max = b.max
                 /\ Contest(a, b).price <= b.amount \/ Contest(a, b).price <= b.max
                 /\ b.amount > a.max \/ b.max > a.max
                 /\ b.max > 0 => b.max > a.max
              \/ /\ Contest(a, b).leader = a.leader
                 /\ Contest(a, b).max = a.max
                 /\ Contest(a, b).price = a.price \/ Contest(a, b).price <= a.max
                 /\ b.max <= a.max
<1> USE BiddingAssumption
<1>1. /\ a.price \in 1 .. MaxPrice /\ a.max \in 0 .. MaxPrice
      /\ b.bidder \in Bidders /\ b.amount \in 1 .. MaxPrice /\ b.max \in 0 .. MaxPrice
  BY DEF Auction, Carried
<1> DEFINE n == Contest(a, b)
<1>2. CASE b.max = 0 /\ b.amount > a.max
  <2>1. PICK p \in 1 .. MaxPrice, m \in 0 .. MaxPrice : p = b.amount /\ m = b.max
    BY <1>1
  <2>2. n = [a EXCEPT !.price = p, !.leader = b.bidder, !.max = m]
    BY <1>1, <1>2, <2>1 DEF Contest
  <2> HIDE DEF n
  <2>3. /\ n \in Auction /\ n.status = a.status
        /\ n.leader = b.bidder /\ n.max = m /\ n.price = p
    BY <1>1, <2>2 DEF Auction
  <2>4. p <= b.amount /\ b.amount > a.max /\ ~(b.max > 0)
    BY <1>1, <1>2, <2>1
  <2>5. n.max = b.max /\ n.price <= b.amount
    BY <2>1, <2>3, <2>4
  <2>. QED
    BY <2>3, <2>4, <2>5 DEF n
<1>3. CASE b.max = 0 /\ b.amount <= a.max
  <2>1. PICK p : p = Least(b.amount + Increment, a.max)
    OBVIOUS
  <2>2. p \in 1 .. MaxPrice /\ p <= a.max
    BY <1>1, <1>3, <2>1 DEF Least, Increment
  <2>3. n = [a EXCEPT !.price = p]
    BY <1>1, <1>3, <2>1 DEF Contest
  <2> HIDE DEF n
  <2>. QED
    BY <1>1, <1>3, <2>2, <2>3 DEF n, Auction
<1>4. CASE b.max > a.max
  <2>1. PICK p : p = Least((IF a.max = 0 THEN a.price ELSE a.max) + Increment, b.max)
    OBVIOUS
  <2>2. p \in 1 .. MaxPrice /\ p <= b.max
    BY <1>1, <1>4, <2>1 DEF Least, Increment
  <2>3. n = [a EXCEPT !.price = p, !.leader = b.bidder, !.max = b.max]
    BY <1>1, <1>4, <2>1 DEF Contest
  <2> HIDE DEF n
  <2>. QED
    BY <1>1, <1>4, <2>2, <2>3 DEF n, Auction
<1>5. CASE b.max > 0 /\ b.max = a.max
  <2>1. n = a
    BY <1>1, <1>5 DEF Contest
  <2> HIDE DEF n
  <2>. QED
    BY <1>1, <1>5, <2>1 DEF n
<1>6. CASE b.max > 0 /\ b.max < a.max
  <2>1. PICK p : p = Least(b.max + Increment, a.max)
    OBVIOUS
  <2>2. p \in 1 .. MaxPrice /\ p <= a.max
    BY <1>1, <1>6, <2>1 DEF Least, Increment
  <2>3. n = [a EXCEPT !.price = p]
    BY <1>1, <1>6, <2>1 DEF Contest
  <2> HIDE DEF n
  <2>. QED
    BY <1>1, <1>6, <2>2, <2>3 DEF n, Auction
<1>. QED
  BY <1>1, <1>2, <1>3, <1>4, <1>5, <1>6

(* Whoever leads afterwards: the bidder, or who led before him.            *)
LEMMA TriggerDecides ==
    ASSUME NEW a \in Auction, NEW b \in Carried
    PROVE  /\ handle_proxy_bid(a, b) \in Auction
           /\ handle_proxy_bid(a, b).status = a.status
           /\ \/ /\ a.leader = NoBidder
                 /\ handle_proxy_bid(a, b).leader = b.bidder
                 /\ handle_proxy_bid(a, b).max = b.max
                 /\ handle_proxy_bid(a, b).price = Start
              \/ /\ a.leader = b.bidder
                 /\ handle_proxy_bid(a, b).leader = b.bidder
                 /\ handle_proxy_bid(a, b).max = Most(a.max, b.max)
                 /\ handle_proxy_bid(a, b).price = a.price
              \/ /\ a.leader \notin {NoBidder, b.bidder}
                 /\ handle_proxy_bid(a, b) = Contest(a, b)
<1> USE BiddingAssumption
<1>1. /\ a.price \in 1 .. MaxPrice /\ a.max \in 0 .. MaxPrice
      /\ b.bidder \in Bidders /\ b.amount \in 1 .. MaxPrice /\ b.max \in 0 .. MaxPrice
  BY DEF Auction, Carried
<1> DEFINE n == handle_proxy_bid(a, b)
<1>2. CASE a.leader = NoBidder
  <2>1. PICK p \in 1 .. MaxPrice, m \in 0 .. MaxPrice : p = Start /\ m = b.max
    BY <1>1 DEF Start
  <2>2. n = [a EXCEPT !.price = p, !.leader = b.bidder, !.max = m]
    BY <1>1, <1>2, <2>1 DEF handle_proxy_bid
  <2> HIDE DEF n
  <2>. QED
    BY <1>1, <1>2, <2>1, <2>2 DEF n, Auction
<1>3. CASE a.leader = b.bidder
  <2>1. PICK m : m = Most(a.max, b.max)
    OBVIOUS
  <2>2. m \in 0 .. MaxPrice
    BY <1>1, <2>1 DEF Most
  <2>3. n = [a EXCEPT !.max = m]
    BY <1>1, <1>3, <2>1 DEF handle_proxy_bid
  <2> HIDE DEF n
  <2>. QED
    BY <1>1, <1>3, <2>1, <2>2, <2>3 DEF n, Auction
<1>4. CASE a.leader \notin {NoBidder, b.bidder}
  <2>1. n = Contest(a, b)
    BY <1>1, <1>4 DEF handle_proxy_bid
  <2>. QED
    BY <1>4, <2>1, ContestDecides
<1>. QED
  BY <1>2, <1>3, <1>4

-----------------------------------------------------------------------------
(* Bids.                                                                   *)

(* A step that changes no call of an admin, and no more of the tables than *)
(* whether the auction's time is over.                                     *)
LEMMA SameTablesKeep ==
    ASSUME IInv, TypeOK', BiddersKnown',
           auction'.status = auction.status, auction'.leader = auction.leader,
           auction'.price = auction.price, auction'.max = auction.max,
           UNCHANGED <<listing, bids, sales, call, faults, pledged, late, stale>>
    PROVE  IInv'
<1>1. PledgesCover' /\ RollbacksAreFaults'
  BY DEF IInv, PledgesCover, Covered, RollbacksAreFaults
<1>2. UpToDate'
  BY DEF IInv, UpToDate, Knows, Fresh
<1>3. SoldOnce'
  BY DEF IInv, SoldOnce, Sold
<1>4. Clean' = Clean
  BY DEF Clean, Fresh
<1>5. ListingFollows'
  BY <1>4 DEF IInv, ListingFollows
<1>6. LeadHeld'
  BY <1>4 DEF IInv, LeadHeld, GreatestLeads
<1>. QED
  BY <1>1, <1>2, <1>3, <1>5, <1>6 DEF IInv

LEMMA BidReadsKeeps ==
    ASSUME IInv, NEW r \in Requests, NEW b \in Bidders,
           NEW amount \in 1 .. MaxPrice, NEW max \in 0 .. MaxPrice,
           BidReads(r, b, amount, max)
    PROVE  IInv'
<1>1. TypeOK /\ BiddersKnown
  BY DEF IInv
<1>2. PICK most \in 1 .. MaxPrice : most = Most(amount, max)
  BY BiddingAssumption DEF Most
<1>3. PICK new \in Req : /\ req' = [req EXCEPT ![r] = new]
                         /\ new.bidder = b
  <2> DEFINE new == [at |-> "insert", bidder |-> b, amount |-> most, max |-> max]
  <2>1. new \in Req /\ new.bidder = b
    BY DEF Req
  <2>2. req' = [req EXCEPT ![r] = new]
    BY <1>2 DEF BidReads
  <2>. QED
    BY <2>1, <2>2
<1>4. placed' \in 0 .. MaxBids
  BY <1>1, BiddingAssumption DEF BidReads, TypeOK
<1>5. UNCHANGED <<auction, listing, bids, sales, call, calls, faults, pledged, late, stale>>
  BY DEF BidReads
<1>6. TypeOK'
  BY <1>1, <1>3, <1>4, <1>5 DEF TypeOK
<1>7. BiddersKnown'
  BY <1>1, <1>3 DEF TypeOK, BiddersKnown
<1>. QED
  BY <1>5, <1>6, <1>7, SameTablesKeep

LEMMA NoBidReq == NoBid \in Req /\ NoBid.at = "idle"
  BY BiddingAssumption DEF NoBid, Req

LEMMA BidIsAdmittedKeeps ==
    ASSUME IInv, NEW r \in Requests, BidIsAdmitted(r)
    PROVE  IInv'
<1>1. TypeOK /\ BiddersKnown
  BY DEF IInv
<1>2. PICK new \in Req : /\ req' = [req EXCEPT ![r] = new]
                         /\ new.at = "idle" \/ new.bidder = req[r].bidder
  <2>1. CASE Open
    <3> DEFINE new == [req[r] EXCEPT !.at = "apply"]
    <3>1. req[r] \in Req
      BY <1>1 DEF TypeOK
    <3>2. new \in Req /\ new.bidder = req[r].bidder
      BY <3>1 DEF Req
    <3>3. req' = [req EXCEPT ![r] = new]
      BY <2>1 DEF BidIsAdmitted
    <3>. QED
      BY <3>2, <3>3
  <2>2. CASE ~Open
    BY <2>2, NoBidReq DEF BidIsAdmitted
  <2>. QED
    BY <2>1, <2>2
<1>3. UNCHANGED <<auction, listing, bids, sales, call, placed, calls, faults, pledged,
                  late, stale>>
  BY DEF BidIsAdmitted
<1>4. TypeOK'
  BY <1>1, <1>2, <1>3 DEF TypeOK
<1>5. BiddersKnown'
  BY <1>1, <1>2 DEF TypeOK, BiddersKnown, BidIsAdmitted
<1>. QED
  BY <1>3, <1>4, <1>5, SameTablesKeep

LEMMA TimePassesKeeps ==
    ASSUME IInv, TimePasses
    PROVE  IInv'
<1>1. TypeOK /\ BiddersKnown /\ auction \in Auction
  BY DEF IInv, TypeOK
<1>2. /\ auction' \in Auction /\ auction'.status = auction.status
      /\ auction'.leader = auction.leader
      /\ auction'.price = auction.price /\ auction'.max = auction.max
  BY <1>1 DEF TimePasses, Auction
<1>3. UNCHANGED <<listing, bids, sales, req, call, placed, calls, faults, pledged, late,
                  stale>>
  BY DEF TimePasses
<1>4. TypeOK' /\ BiddersKnown'
  BY <1>1, <1>2, <1>3 DEF TypeOK, BiddersKnown
<1>. QED
  BY <1>2, <1>3, <1>4, SameTablesKeep

(* The bid that a request applies.                                         *)
Applied(r) == [bidder |-> req[r].bidder, amount |-> req[r].amount, max |-> req[r].max]

LEMMA AppliedCarries ==
    ASSUME TypeOK, BiddersKnown, NEW r \in Requests,
           req[r].at = "apply"
    PROVE  /\ Applied(r) \in Carried
           /\ Applied(r).bidder \in Bidders
           /\ Applied(r).amount \in 1 .. MaxPrice
           /\ Applied(r).max \in 0 .. MaxPrice
  BY DEF TypeOK, BiddersKnown, Applied, Carried, Req

(* What an applied bid does to the rows.                                   *)
LEMMA BidIsAppliedEffect ==
    ASSUME IInv, NEW r \in Requests, BidIsApplied(r),
           NEW b, b = Applied(r)
    PROVE  /\ b \in Carried /\ b.bidder \in Bidders
           /\ b.amount \in 1 .. MaxPrice /\ b.max \in 0 .. MaxPrice
           /\ auction' = handle_proxy_bid(auction, b)
           /\ bids' = bids \cup {[bidder |-> b.bidder, max |-> b.max]}
                          \cup Answers(auction, b)
           /\ pledged' \in [Bidders -> 0 .. MaxPrice]
           /\ \A c \in Bidders : pledged'[c] >= pledged[c]
           /\ pledged'[b.bidder] >= b.amount /\ pledged'[b.bidder] >= b.max
<1>1. TypeOK /\ BiddersKnown /\ req[r].at = "apply"
  BY DEF IInv, BidIsApplied
<1>2. b \in Carried /\ b.bidder \in Bidders
      /\ b.amount \in 1 .. MaxPrice /\ b.max \in 0 .. MaxPrice
  BY <1>1, AppliedCarries
<1>3. /\ auction' = handle_proxy_bid(auction, b)
      /\ bids' = bids \cup {[bidder |-> b.bidder, max |-> b.max]}
                     \cup Answers(auction, b)
      /\ pledged' = [pledged EXCEPT
                       ![b.bidder] = Most(pledged[b.bidder], Most(b.amount, b.max))]
  BY DEF BidIsApplied, Applied
<1>4. PICK most : most = Most(pledged[b.bidder], Most(b.amount, b.max))
  OBVIOUS
<1>5. pledged[b.bidder] \in 0 .. MaxPrice
  BY <1>1, <1>2 DEF TypeOK
<1>6. /\ most \in 0 .. MaxPrice
      /\ most >= pledged[b.bidder] /\ most >= b.amount /\ most >= b.max
  BY <1>2, <1>4, <1>5, BiddingAssumption DEF Most
<1>7. pledged' = [pledged EXCEPT ![b.bidder] = most]
  BY <1>3, <1>4
<1>8. /\ pledged' \in [Bidders -> 0 .. MaxPrice]
      /\ \A c \in Bidders : pledged'[c] >= pledged[c]
      /\ pledged'[b.bidder] = most
  BY <1>1, <1>2, <1>6, <1>7 DEF TypeOK
<1>. QED
  BY <1>2, <1>3, <1>6, <1>8

(* A bid with a maximum leaves the greatest maximum in the lead.           *)
LEMMA LeadAfterBid ==
    ASSUME IInv, GreatestLeads, NEW b \in Carried, b.max > 0,
           auction' = handle_proxy_bid(auction, b),
           bids' = bids \cup {[bidder |-> b.bidder, max |-> b.max]} \cup Answers(auction, b)
    PROVE  GreatestLeads'
<1> DEFINE row == [bidder |-> b.bidder, max |-> b.max]
<1>1. /\ auction \in Auction /\ auction.max \in 0 .. MaxPrice
      /\ \A x \in bids : x.max \in 0 .. MaxPrice
  BY DEF IInv, TypeOK, Auction, Bid
<1>2. b.bidder \in Bidders /\ b.max \in 0 .. MaxPrice /\ b.bidder # NoBidder
  BY BiddingAssumption DEF Carried
<1>3. row.bidder = b.bidder /\ row.max = b.max
  OBVIOUS
<1>4. \A x \in Answers(auction, b) :
         /\ x.bidder = auction.leader /\ x.max = auction.max
         /\ auction.leader \notin {NoBidder, b.bidder} /\ b.max < auction.max
  BY DEF Answers
<1> HIDE DEF row
<1>5. bids' = bids \cup {row} \cup Answers(auction, b)
  BY DEF row
<1>6. CASE auction.leader = NoBidder
  <2>1. bids = {} /\ Answers(auction, b) = {}
    BY <1>4, <1>6 DEF GreatestLeads
  <2>2. bids' = {row}
    BY <1>5, <2>1
  <2>3. auction'.leader = b.bidder /\ auction'.max = b.max
    BY <1>1, <1>2, <1>6, TriggerDecides
  <2>. QED
    BY <1>2, <1>3, <2>2, <2>3 DEF GreatestLeads
<1>7. CASE auction.leader = b.bidder
  <2>1. /\ auction'.leader = b.bidder
        /\ auction'.max = Most(auction.max, b.max)
    BY <1>1, <1>2, <1>7, TriggerDecides
  <2>2. /\ auction'.max \in {auction.max, b.max}
        /\ auction'.max >= auction.max /\ auction'.max >= b.max
    BY <1>1, <1>2, <2>1, LeastMost
  <2>3. bids' = bids \cup {row}
    BY <1>4, <1>5, <1>7
  <2>4. bids # {} /\ \A x \in bids : x.max <= auction.max
    BY <1>2, <1>7 DEF GreatestLeads
  <2>5. PICK top \in bids : top.bidder = auction.leader /\ top.max = auction.max
    BY <2>4 DEF GreatestLeads
  <2>6. \A x \in bids' : x.max <= auction'.max
    BY <1>1, <1>2, <1>3, <2>2, <2>3, <2>4
  <2>7. \E x \in bids' : x.bidder = auction'.leader /\ x.max = auction'.max
    BY <1>3, <1>7, <2>1, <2>2, <2>3, <2>5
  <2>. QED
    BY <1>2, <2>1, <2>3, <2>6, <2>7 DEF GreatestLeads
<1>8. CASE auction.leader \notin {NoBidder, b.bidder}
  <2>1. auction' = Contest(auction, b)
    BY <1>1, <1>2, <1>8, TriggerDecides
  <2>2. bids # {} /\ \A x \in bids : x.max <= auction.max
    BY <1>8 DEF GreatestLeads
  <2>3. PICK top \in bids : top.bidder = auction.leader /\ top.max = auction.max
    BY <2>2 DEF GreatestLeads
  <2>4. CASE auction'.leader = b.bidder /\ auction'.max = b.max /\ b.max > auction.max
    <3>1. bids' = bids \cup {row}
      BY <1>1, <1>2, <1>4, <1>5, <2>4
    <3>2. \A x \in bids' : x.max <= auction'.max
      BY <1>1, <1>2, <1>3, <2>2, <2>4, <3>1
    <3>3. row \in bids' /\ row.bidder = auction'.leader /\ row.max = auction'.max
      BY <1>3, <2>4, <3>1
    <3>. QED
      BY <1>2, <2>4, <3>2, <3>3 DEF GreatestLeads
  <2>5. CASE auction'.leader = auction.leader /\ auction'.max = auction.max
             /\ b.max <= auction.max
    <3>1. \A x \in bids' : x.max <= auction'.max
      BY <1>1, <1>3, <1>4, <1>5, <2>2, <2>5
    <3>2. top \in bids' /\ top.bidder = auction'.leader /\ top.max = auction'.max
      BY <1>5, <2>3, <2>5
    <3>. QED
      BY <1>8, <2>5, <3>1, <3>2 DEF GreatestLeads
  <2>. QED
    BY <1>1, <2>1, <2>4, <2>5, ContestDecides
<1>. QED
  BY <1>6, <1>7, <1>8

(* A bid that is applied puts every call at work out of date.              *)
LEMMA BidIsAppliedKeeps ==
    ASSUME IInv, NEW r \in Requests, BidIsApplied(r)
    PROVE  IInv'
<1>1. /\ TypeOK /\ BiddersKnown /\ PledgesCover /\ RollbacksAreFaults
      /\ SoldOnce /\ ListingFollows /\ LeadHeld
  BY DEF IInv
<1>2. PICK b : b = Applied(r)
  OBVIOUS
<1>3. /\ b \in Carried /\ b.bidder \in Bidders
      /\ b.amount \in 1 .. MaxPrice /\ b.max \in 0 .. MaxPrice
      /\ auction' = handle_proxy_bid(auction, b)
      /\ bids' = bids \cup {[bidder |-> b.bidder, max |-> b.max]} \cup Answers(auction, b)
      /\ pledged' \in [Bidders -> 0 .. MaxPrice]
      /\ \A c \in Bidders : pledged'[c] >= pledged[c]
      /\ pledged'[b.bidder] >= b.amount /\ pledged'[b.bidder] >= b.max
  BY <1>2, BidIsAppliedEffect
<1>4. /\ auction \in Auction /\ auction.price \in 1 .. MaxPrice
      /\ auction.max \in 0 .. MaxPrice /\ auction.leader \in Bidders \cup {NoBidder}
  BY <1>1 DEF TypeOK, Auction
<1>5. /\ auction' \in Auction /\ auction'.status = auction.status
      /\ auction'.price \in 1 .. MaxPrice /\ auction'.max \in 0 .. MaxPrice
  BY <1>3, <1>4, TriggerDecides DEF Auction
<1>6. UNCHANGED <<listing, sales, placed, calls, faults, stale>>
  BY DEF BidIsApplied
<1>7. /\ call' \in [Admins -> Call]
      /\ \A a \in Admins : /\ call'[a].at = call[a].at
                           /\ call'[a].read = call[a].read
                           /\ call'[a].at = "idle" \/ call'[a].old
  <2>1. \A a \in Admins : call[a] \in Call
    BY <1>1 DEF TypeOK
  <2>2. call' = [a \in Admins |-> IF call[a].at = "idle" THEN call[a]
                                  ELSE [call[a] EXCEPT !.old = TRUE]]
    BY DEF BidIsApplied
  <2>3. \A a \in Admins : [call[a] EXCEPT !.old = TRUE] \in Call
    BY <2>1 DEF Call
  <2>4. \A a \in Admins : /\ call'[a].at = call[a].at
                          /\ call'[a].read = call[a].read
                          /\ call'[a].at = "idle" \/ call'[a].old
    BY <2>1, <2>2 DEF Call
  <2>. QED
    BY <2>1, <2>2, <2>3, <2>4
<1>8. TypeOK'
  <2>1. bids' \subseteq Bid
    <3>1. [bidder |-> b.bidder, max |-> b.max] \in Bid
      BY <1>3 DEF Bid
    <3>2. Answers(auction, b) \subseteq Bid
      BY <1>4 DEF Answers, Bid
    <3>. QED
      BY <1>1, <1>3, <3>1, <3>2 DEF TypeOK
  <2>2. req' \in [Requests -> Req]
    BY <1>1, NoBidReq DEF BidIsApplied, TypeOK
  <2>3. late' \in BOOLEAN
    BY <1>1 DEF BidIsApplied, TypeOK
  <2>. QED
    BY <1>1, <1>3, <1>5, <1>6, <1>7, <2>1, <2>2, <2>3 DEF TypeOK
<1>9. BiddersKnown'
  BY <1>1, NoBidReq DEF BidIsApplied, BiddersKnown, TypeOK
<1>10. PledgesCover'
  <2>1. \A c \in Bidders : pledged[c] \in 0 .. MaxPrice /\ pledged'[c] \in 0 .. MaxPrice
    BY <1>1, <1>3 DEF TypeOK
  <2>2. ASSUME NEW c \in Bidders \cup {NoBidder}, NEW p \in 0 .. MaxPrice, Covered(c, p)
        PROVE  c # NoBidder => p <= pledged'[c]
    BY <1>3, <2>1, <2>2 DEF Covered
  <2>3. Covered(auction.leader, auction.price) /\ Covered(auction.leader, auction.max)
    BY <1>1 DEF PledgesCover
  <2>4. /\ auction.leader # NoBidder => auction.price <= pledged'[auction.leader]
        /\ auction.leader # NoBidder => auction.max <= pledged'[auction.leader]
    BY <1>3, <1>4, <2>1, <2>3 DEF Covered
  <2>5. /\ auction'.leader # NoBidder => auction'.price <= pledged'[auction'.leader]
        /\ auction'.leader # NoBidder => auction'.max <= pledged'[auction'.leader]
    <3>1. pledged'[b.bidder] \in 0 .. MaxPrice
      BY <1>3, <2>1
    <3>2. CASE auction.leader = NoBidder
      BY <1>3, <1>4, <3>1, <3>2, TriggerDecides, BiddingAssumption DEF Start
    <3>3. CASE auction.leader = b.bidder
      <4>1. /\ auction'.leader = b.bidder /\ auction'.price = auction.price
            /\ auction'.max = Most(auction.max, b.max)
        BY <1>3, <1>4, <3>3, TriggerDecides, BiddingAssumption
      <4>2. auction'.max \in {auction.max, b.max}
        BY <1>3, <1>4, <4>1, LeastMost
      <4>. QED
        BY <1>3, <2>4, <3>3, <4>1, <4>2
    <3>4. CASE auction.leader \notin {NoBidder, b.bidder}
      <4>1. auction' = Contest(auction, b)
        BY <1>3, <1>4, <3>4, TriggerDecides
      <4>2. \/ /\ auction'.leader = b.bidder /\ auction'.max = b.max
               /\ auction'.price <= b.amount \/ auction'.price <= b.max
            \/ /\ auction'.leader = auction.leader /\ auction'.max = auction.max
               /\ auction'.price = auction.price \/ auction'.price <= auction.max
        BY <1>3, <1>4, <4>1, ContestDecides
      <4>3. auction.leader \in Bidders /\ pledged'[auction.leader] \in 0 .. MaxPrice
        BY <1>4, <2>1, <3>4
      <4>. QED
        BY <1>3, <1>4, <1>5, <2>4, <3>1, <3>4, <4>2, <4>3
    <3>. QED
      BY <3>2, <3>3, <3>4
  <2>6. ASSUME NEW i \in DOMAIN sales
        PROVE  sales[i].buyer # NoBidder => sales[i].price <= pledged'[sales[i].buyer]
    <3>1. sales[i] \in Sale
      BY <1>1, ElementOfSeq DEF TypeOK
    <3>2. /\ sales[i].buyer \in Bidders \cup {NoBidder} /\ sales[i].price \in 0 .. MaxPrice
          /\ Covered(sales[i].buyer, sales[i].price)
      BY <1>1, <3>1 DEF Sale, PledgesCover
    <3>. QED
      BY <2>2, <3>2
  <2>7. ASSUME NEW a \in Admins
        PROVE  call[a].read.leader # NoBidder =>
                  call[a].read.price <= pledged'[call[a].read.leader]
    <3>1. call[a].read \in Auction
      BY <1>1 DEF TypeOK, Call
    <3>2. /\ call[a].read.leader \in Bidders \cup {NoBidder}
          /\ call[a].read.price \in 0 .. MaxPrice
          /\ Covered(call[a].read.leader, call[a].read.price)
      BY <1>1, <3>1 DEF Auction, PledgesCover
    <3>. QED
      BY <2>2, <3>2
  <2>. QED
    BY <1>6, <1>7, <2>5, <2>6, <2>7 DEF PledgesCover, Covered
<1>11. RollbacksAreFaults'
  BY <1>1, <1>6, <1>7 DEF RollbacksAreFaults
<1>12. UpToDate'
  BY <1>7 DEF UpToDate, Knows, Fresh
<1>13. SoldOnce'
  <2> SUFFICES ASSUME ~stale, sales # <<>>
               PROVE  auction'.status = "ENDED" /\ Len(sales) <= 1 + faults /\ late'
    BY <1>6 DEF SoldOnce
  <2>1. auction.status = "ENDED" /\ Len(sales) <= 1 + faults
    BY <1>1 DEF SoldOnce
  <2>2. late' = (late \/ auction.status # "ACTIVE")
    BY DEF BidIsApplied
  <2>3. auction.status # "ACTIVE"
    BY <2>1
  <2>4. late'
    BY <2>2, <2>3
  <2>. QED
    BY <1>5, <2>1, <2>4
<1>14. Clean' => Clean /\ \A a \in Admins : call[a].at = "idle"
  BY <1>6, <1>7 DEF Clean, Fresh
<1>15. ListingFollows'
  BY <1>1, <1>5, <1>6, <1>14 DEF ListingFollows
<1>16. LeadHeld'
  <2> SUFFICES ASSUME Clean', \A x \in bids' : x.max > 0
               PROVE  GreatestLeads'
    BY DEF LeadHeld
  <2>1. GreatestLeads
    BY <1>1, <1>3, <1>14 DEF LeadHeld
  <2>2. b.max > 0
    <3>1. [bidder |-> b.bidder, max |-> b.max] \in bids'
      BY <1>3
    <3>. QED
      BY <3>1
  <2>. QED
    BY <1>3, <2>1, <2>2, LeadAfterBid
<1>. QED
  BY <1>8, <1>9, <1>10, <1>11, <1>12, <1>13, <1>15, <1>16 DEF IInv

-----------------------------------------------------------------------------
(* What an admin's step does to the calls.                                 *)

LEMMA IdleCall ==
    /\ Opened \in Auction /\ Opened.leader = NoBidder
    /\ Idle \in Call /\ Idle.at = "idle" /\ Idle.read = Opened /\ Idle.old = FALSE
<1>1. Opened \in Auction /\ Opened.leader = NoBidder
  <2>1. 1 \in 1 .. MaxPrice /\ 0 \in 0 .. MaxPrice
    BY BiddingAssumption
  <2>. QED
    BY <2>1 DEF Opened, Auction, Statuses, Start
<1>. QED
  BY <1>1 DEF Idle, Call

(* The call of an admin goes on or ends; nobody else's changes.            *)
LEMMA MovesCall ==
    ASSUME TypeOK, NEW a \in Admins, NEW next \in Call,
           call' = [call EXCEPT ![a] = next]
    PROVE  /\ call' \in [Admins -> Call]
           /\ call'[a] = next
           /\ \A c \in Admins : c # a => call'[c] = call[c]
  BY DEF TypeOK

Goals == {"idle", "wipe", "relist", "cancelListing"}

(* A call that writes puts every other call at work out of date.           *)
LEMMA WritesCall ==
    ASSUME TypeOK, NEW a \in Admins, NEW next \in Goals, Writes(a, next)
    PROVE  /\ call' \in [Admins -> Call]
           /\ stale' \in BOOLEAN
           /\ call'[a].at = next
           /\ call'[a].read \in {call[a].read, Opened}
           /\ next # "idle" => call'[a].old = call[a].old
           /\ \A c \in Admins : c # a =>
                 /\ call'[c].at = call[c].at
                 /\ call'[c].read = call[c].read
                 /\ call'[c].at = "idle" \/ call'[c].old
           /\ ~stale' => ~stale /\ Fresh(a)
<1>1. \A c \in Admins : call[c] \in Call
  BY DEF TypeOK
<1> DEFINE mine == IF next = "idle" THEN Idle ELSE [call[a] EXCEPT !.at = next]
<1>2. /\ mine \in Call /\ mine.at = next
      /\ mine.read \in {call[a].read, Opened}
      /\ next # "idle" => mine.old = call[a].old
  <2>1. CASE next = "idle"
    BY <2>1, IdleCall
  <2>2. CASE next # "idle"
    BY <1>1, <2>2 DEF Call, Goals
  <2>. QED
    BY <2>1, <2>2
<1>3. call' = [c \in Admins |->
                  IF c = a THEN mine
                  ELSE IF call[c].at = "idle" THEN call[c]
                  ELSE [call[c] EXCEPT !.old = TRUE]]
  BY DEF Writes
<1> HIDE DEF mine
<1>4. \A c \in Admins : [call[c] EXCEPT !.old = TRUE] \in Call
  BY <1>1 DEF Call
<1>5. call' \in [Admins -> Call] /\ call'[a] = mine
  BY <1>1, <1>2, <1>3, <1>4
<1>6. ASSUME NEW c \in Admins, c # a
      PROVE  /\ call'[c].at = call[c].at
             /\ call'[c].read = call[c].read
             /\ call'[c].at = "idle" \/ call'[c].old
  BY <1>1, <1>3, <1>6 DEF Call
<1>7. stale' \in BOOLEAN /\ (~stale' => ~stale /\ Fresh(a))
  BY <1>1 DEF Writes, TypeOK, Fresh, Call
<1>. QED
  BY <1>2, <1>5, <1>6, <1>7

-----------------------------------------------------------------------------
(* The admins' calls.                                                      *)

(* Only this call is at work, it is up to date, and nothing went wrong.    *)
Alone(a) == Clean /\ Fresh(a) /\ \A c \in Admins : c # a => call[c].at = "idle"

(* A call that reads: it knows what it has just read.                      *)
LEMMA ReadsKeeps ==
    ASSUME IInv, NEW a \in Admins,
           NEW label \in {"end", "reset", "cancel", "settle"},
           NEW kept \in Auction, Covered(kept.leader, kept.price),
           Begins(a, label, kept),
           faults' \in {faults, faults + 1} /\ faults' \in 0 .. MaxFaults,
           label = "end" => auction.status = "ACTIVE",
           label \in {"reset", "cancel"} => sales = <<>>,
           label = "settle" => /\ ~stale => Len(sales) <= faults'
                               /\ auction.status = "ENDED"
                               /\ kept.leader = auction.leader
                               /\ kept.price = auction.price
    PROVE  IInv'
<1>1. /\ TypeOK /\ BiddersKnown /\ PledgesCover /\ RollbacksAreFaults /\ UpToDate
      /\ SoldOnce /\ ListingFollows /\ LeadHeld
  BY DEF IInv
<1>2. PICK next \in Call : /\ call' = [call EXCEPT ![a] = next]
                           /\ next.at = label /\ next.read = kept /\ next.old = FALSE
  <2> DEFINE next == [at |-> label, read |-> kept, old |-> FALSE]
  <2>1. next \in Call
    BY DEF Call
  <2>2. call' = [call EXCEPT ![a] = next]
    BY DEF Begins
  <2>. QED
    BY <2>1, <2>2
<1>3. /\ call' \in [Admins -> Call] /\ call'[a] = next
      /\ \A c \in Admins : c # a => call'[c] = call[c]
  BY <1>1, <1>2, MovesCall
<1>4. /\ call[a].at = "idle"
      /\ UNCHANGED <<auction, listing, bids, sales, req, placed, pledged, late, stale>>
      /\ faults \in Nat /\ faults' \in Nat /\ faults <= faults'
      /\ Len(sales) \in Nat
  BY <1>1, BiddingAssumption, LenProperties DEF Begins, At, TypeOK
<1>5. TypeOK'
  <2>1. calls' \in 0 .. MaxCalls
    BY <1>1, BiddingAssumption DEF Begins, TypeOK
  <2>. QED
    BY <1>1, <1>3, <1>4, <2>1 DEF TypeOK
<1>6. BiddersKnown' /\ SoldOnce'
  BY <1>1, <1>4 DEF BiddersKnown, SoldOnce, Sold
<1>7. PledgesCover'
  BY <1>1, <1>2, <1>3, <1>4 DEF PledgesCover, Covered
<1>8. RollbacksAreFaults'
  BY <1>1, <1>2, <1>3, <1>4 DEF RollbacksAreFaults
<1>9. UpToDate'
  <2>1. ASSUME NEW c \in Admins, c # a PROVE Knows(c)'
    BY <1>1, <1>3, <1>4, <2>1 DEF UpToDate, Knows, Fresh
  <2>2. Knows(a)'
    BY <1>2, <1>3, <1>4 DEF Knows, Fresh
  <2>. QED
    BY <2>1, <2>2 DEF UpToDate
<1>10. Clean' => Clean
  BY <1>3, <1>4 DEF Clean, Fresh
<1>11. ListingFollows'
  BY <1>1, <1>3, <1>4, <1>10 DEF ListingFollows
<1>12. LeadHeld'
  BY <1>1, <1>3, <1>4, <1>10 DEF LeadHeld, GreatestLeads
<1>. QED
  BY <1>5, <1>6, <1>7, <1>8, <1>9, <1>11, <1>12 DEF IInv

LEMMA endAuctionReadsKeeps ==
    ASSUME IInv, NEW a \in Admins, endAuctionReads(a)
    PROVE  IInv'
  BY IdleCall, ReadsKeeps DEF endAuctionReads, Reads, Covered, IInv, TypeOK

LEMMA restartAuctionReadsKeeps ==
    ASSUME IInv, NEW a \in Admins, restartAuctionReads(a)
    PROVE  IInv'
  BY IdleCall, ReadsKeeps DEF restartAuctionReads, Reads, Covered, IInv, TypeOK

LEMMA cancelAuctionReadsKeeps ==
    ASSUME IInv, NEW a \in Admins, cancelAuctionReads(a)
    PROVE  IInv'
<1>1. auction.status \in Statuses
  BY DEF IInv, TypeOK, Auction
<1>2. PICK kept \in Auction : /\ kept = [Opened EXCEPT !.status = auction.status]
                              /\ kept.leader = NoBidder
  <2> DEFINE kept == [Opened EXCEPT !.status = auction.status]
  <2>1. kept \in Auction /\ kept.leader = NoBidder
    BY <1>1, IdleCall DEF Auction
  <2>. QED
    BY <2>1
<1>. QED
  BY <1>2, ReadsKeeps DEF cancelAuctionReads, Reads, Covered, IInv, TypeOK

LEMMA SettleReadsKeeps ==
    ASSUME IInv, NEW a \in Admins, SettleReads(a)
    PROVE  IInv'
<1>1. auction \in Auction /\ Covered(auction.leader, auction.price)
  BY DEF IInv, TypeOK, PledgesCover
<1>2. PICK kept \in Auction :
         /\ kept = [Opened EXCEPT !.leader = auction.leader, !.price = auction.price]
         /\ kept.leader = auction.leader /\ kept.price = auction.price
  <2> DEFINE kept == [Opened EXCEPT !.leader = auction.leader, !.price = auction.price]
  <2>1. kept \in Auction /\ kept.leader = auction.leader /\ kept.price = auction.price
    BY <1>1, IdleCall DEF Auction
  <2>. QED
    BY <2>1
<1>3. Covered(kept.leader, kept.price)
  BY <1>1, <1>2
<1>4. /\ faults' \in {faults, faults + 1} /\ faults' \in 0 .. MaxFaults
      /\ ~stale => Len(sales) <= faults'
  <2>1. /\ faults \in 0 .. MaxFaults /\ MaxFaults \in Nat
        /\ sales = <<>> => Len(sales) = 0
        /\ ~stale /\ sales # <<>> => Len(sales) <= 1 + faults
    BY BiddingAssumption, EmptySeq DEF IInv, TypeOK, SoldOnce
  <2>2. CASE sales = <<>> /\ UNCHANGED faults
    BY <2>1, <2>2
  <2>3. CASE faults < MaxFaults /\ faults' = faults + 1
    BY <2>1, <2>3
  <2>. QED
    BY <2>1, <2>2, <2>3 DEF SettleReads
<1>5. Begins(a, "settle", kept) /\ auction.status = "ENDED"
  BY <1>2 DEF SettleReads
<1>. QED
  BY <1>2, <1>3, <1>4, <1>5, ReadsKeeps

(* A call that writes.                                                     *)
LEMMA WriteKeeps ==
    ASSUME IInv, NEW a \in Admins, NEW next \in Goals, Writes(a, next),
           auction' \in Auction, listing' \in {"ACTIVE", "CANCELLED"},
           bids' \subseteq Bid, sales' \in Seq(Sale),
           UNCHANGED <<req, placed, calls, faults, pledged, late>>,
           Covered(auction.leader, auction.price)', Covered(auction.leader, auction.max)',
           \A i \in DOMAIN sales' : Covered(sales[i].buyer, sales[i].price)',
           Fresh(a) => Knows(a)',
           ~stale /\ Fresh(a) => SoldOnce',
           Alone(a) => \/ auction'.status = "CANCELLED" <=> listing' = "CANCELLED"
                       \/ next # "idle",
           Alone(a) /\ next # "wipe" /\ (\A b \in bids' : b.max > 0) => GreatestLeads'
    PROVE  IInv'
<1>1. TypeOK /\ BiddersKnown /\ PledgesCover /\ RollbacksAreFaults
  BY DEF IInv
<1>2. /\ call' \in [Admins -> Call]
      /\ stale' \in BOOLEAN
      /\ call'[a].at = next
      /\ call'[a].read \in {call[a].read, Opened}
      /\ next # "idle" => call'[a].old = call[a].old
      /\ \A c \in Admins : c # a =>
            /\ call'[c].at = call[c].at
            /\ call'[c].read = call[c].read
            /\ call'[c].at = "idle" \/ call'[c].old
      /\ ~stale' => ~stale /\ Fresh(a)
  BY <1>1, WritesCall
<1>3. TypeOK' /\ BiddersKnown'
  BY <1>1, <1>2 DEF TypeOK, BiddersKnown
<1>4. PledgesCover'
  <2>1. ASSUME NEW c \in Admins
        PROVE  Covered(call[c].read.leader, call[c].read.price)'
    <3>1. Covered(call[c].read.leader, call[c].read.price)
      BY <1>1 DEF PledgesCover
    <3>2. call'[c].read = call[c].read \/ call'[c].read = Opened
      BY <1>2
    <3>. QED
      BY <3>1, <3>2, IdleCall DEF Covered
  <2>. QED
    BY <2>1 DEF PledgesCover
<1>5. RollbacksAreFaults'
  BY <1>1, <1>2 DEF RollbacksAreFaults, Goals
<1>6. UpToDate'
  <2>1. ASSUME NEW c \in Admins, c # a PROVE Knows(c)'
    BY <1>2, <2>1 DEF Knows, Fresh
  <2>2. Knows(a)'
    BY <1>2 DEF Knows, Fresh
  <2>. QED
    BY <2>1, <2>2 DEF UpToDate
<1>7. SoldOnce'
  BY <1>2 DEF SoldOnce
<1>8. Clean' => Alone(a)
  <2> SUFFICES ASSUME Clean' PROVE Alone(a)
    OBVIOUS
  <2>1. ~stale /\ Fresh(a) /\ faults = 0
    BY <1>2 DEF Clean
  <2>2. \A c \in Admins : c # a => call[c].at = "idle"
    BY <1>2 DEF Clean, Fresh
  <2>. QED
    BY <2>1, <2>2 DEF Alone, Clean
<1>9. ListingFollows'
  BY <1>2, <1>8 DEF ListingFollows, Goals
<1>10. LeadHeld'
  BY <1>2, <1>8 DEF LeadHeld
<1>. QED
  BY <1>3, <1>4, <1>5, <1>6, <1>7, <1>9, <1>10 DEF IInv

(* When only this call is at work, and it is not half way through, the     *)
(* listing follows its auction and the greatest maximum leads.             *)
LEMMA AloneListing ==
    ASSUME IInv, NEW a \in Admins, Alone(a),
           call[a].at \notin {"wipe", "relist", "cancelListing"}
    PROVE  auction.status = "CANCELLED" <=> listing = "CANCELLED"
<1>1. Clean /\ \A c \in Admins : call[c].at \notin {"wipe", "relist", "cancelListing"}
  BY DEF Alone
<1>. QED
  BY <1>1 DEF IInv, ListingFollows

LEMMA AloneLead ==
    ASSUME IInv, NEW a \in Admins, Alone(a), call[a].at # "wipe",
           \A b \in bids : b.max > 0
    PROVE  GreatestLeads
<1>1. Clean /\ \A c \in Admins : call[c].at # "wipe"
  BY DEF Alone
<1>. QED
  BY <1>1 DEF IInv, LeadHeld

(* A write that leaves the lead, the price, the bids and the sales alone.  *)
LEMMA StatusWriteKeeps ==
    ASSUME IInv, NEW a \in Admins, NEW next \in Goals, Writes(a, next),
           call[a].at # "wipe", next # "wipe",
           auction' \in Auction, auction'.leader = auction.leader,
           auction'.price = auction.price, auction'.max = auction.max,
           listing' \in {"ACTIVE", "CANCELLED"},
           UNCHANGED <<bids, sales, req, placed, calls, faults, pledged, late>>,
           Fresh(a) => Knows(a)',
           ~stale /\ Fresh(a) /\ sales # <<>> => auction'.status = auction.status,
           Alone(a) => \/ auction'.status = "CANCELLED" <=> listing' = "CANCELLED"
                       \/ next # "idle"
    PROVE  IInv'
<1>1. TypeOK /\ PledgesCover /\ SoldOnce
  BY DEF IInv
<1>2. bids' \subseteq Bid /\ sales' \in Seq(Sale)
  BY <1>1 DEF TypeOK
<1>3. /\ Covered(auction.leader, auction.price)' /\ Covered(auction.leader, auction.max)'
      /\ \A i \in DOMAIN sales' : Covered(sales[i].buyer, sales[i].price)'
  BY <1>1 DEF PledgesCover, Covered
<1>4. ~stale /\ Fresh(a) => SoldOnce'
  BY <1>1 DEF SoldOnce, Sold
<1>5. Alone(a) /\ next # "wipe" /\ (\A b \in bids' : b.max > 0) => GreatestLeads'
  <2>1. Alone(a) /\ (\A b \in bids : b.max > 0) => GreatestLeads
    BY AloneLead
  <2>. QED
    BY <2>1 DEF GreatestLeads
<1>. QED
  BY <1>2, <1>3, <1>4, <1>5, WriteKeeps

LEMMA endAuctionKeeps ==
    ASSUME IInv, NEW a \in Admins, endAuction(a)
    PROVE  IInv'
<1>1. /\ TypeOK /\ SoldOnce /\ UpToDate /\ auction \in Auction
      /\ listing \in {"ACTIVE", "CANCELLED"}
  BY DEF IInv, TypeOK
<1>2. call[a].at = "end" /\ Writes(a, "idle") /\ "idle" \in Goals
  BY DEF endAuction, At, Goals
<1>3. /\ auction' \in Auction /\ auction'.status = "ENDED"
      /\ auction'.leader = auction.leader
      /\ auction'.price = auction.price /\ auction'.max = auction.max
  BY <1>1 DEF endAuction, Auction, Statuses
<1>4. Fresh(a) => auction.status = "ACTIVE"
  BY <1>1, <1>2 DEF UpToDate, Knows
<1>5. Knows(a)'
  BY <1>1, <1>2, WritesCall DEF Knows
<1>6. ~(~stale /\ Fresh(a) /\ sales # <<>>)
  BY <1>1, <1>4 DEF SoldOnce
<1>7. Alone(a) => listing # "CANCELLED"
  BY <1>2, <1>4, AloneListing DEF Alone
<1>. QED
  BY <1>1, <1>2, <1>3, <1>5, <1>6, <1>7, StatusWriteKeeps DEF endAuction

LEMMA RestartResetsKeeps ==
    ASSUME IInv, NEW a \in Admins, RestartResets(a)
    PROVE  IInv'
<1>1. TypeOK /\ PledgesCover /\ UpToDate
  BY DEF IInv
<1>2. call[a].at = "reset" /\ Writes(a, "wipe") /\ "wipe" \in Goals
  BY DEF RestartResets, At, Goals
<1>3. /\ auction' = Opened /\ auction' \in Auction
      /\ auction'.leader = NoBidder /\ auction'.status = "ACTIVE"
  BY IdleCall DEF RestartResets, Opened
<1>4. UNCHANGED <<listing, bids, sales, req, placed, calls, faults, pledged, late>>
  BY DEF RestartResets
<1>5. listing' \in {"ACTIVE", "CANCELLED"} /\ bids' \subseteq Bid /\ sales' \in Seq(Sale)
  BY <1>1, <1>4 DEF TypeOK
<1>6. /\ Covered(auction.leader, auction.price)' /\ Covered(auction.leader, auction.max)'
      /\ \A i \in DOMAIN sales' : Covered(sales[i].buyer, sales[i].price)'
  BY <1>1, <1>3, <1>4 DEF PledgesCover, Covered
<1>7. Knows(a)'
  BY <1>1, <1>2, <1>3, WritesCall DEF Knows
<1>8. Fresh(a) => SoldOnce'
  BY <1>1, <1>2, <1>4 DEF UpToDate, Knows, SoldOnce
<1>. QED
  BY <1>2, <1>3, <1>4, <1>5, <1>6, <1>7, <1>8, WriteKeeps

LEMMA RestartWipesBidsKeeps ==
    ASSUME IInv, NEW a \in Admins, RestartWipesBids(a)
    PROVE  IInv'
<1>1. TypeOK /\ PledgesCover /\ UpToDate /\ SoldOnce
  BY DEF IInv
<1>2. call[a].at = "wipe" /\ Writes(a, "relist") /\ "relist" \in Goals
  BY DEF RestartWipesBids, At, Goals
<1>3. bids' = {} /\ UNCHANGED <<auction, listing, sales, req, placed, calls, faults,
                                pledged, late>>
  BY DEF RestartWipesBids
<1>4. /\ auction' \in Auction /\ listing' \in {"ACTIVE", "CANCELLED"}
      /\ bids' \subseteq Bid /\ sales' \in Seq(Sale)
  BY <1>1, <1>3 DEF TypeOK
<1>5. /\ Covered(auction.leader, auction.price)' /\ Covered(auction.leader, auction.max)'
      /\ \A i \in DOMAIN sales' : Covered(sales[i].buyer, sales[i].price)'
  BY <1>1, <1>3 DEF PledgesCover, Covered
<1>6. Fresh(a) => auction.status = "ACTIVE" /\ auction.leader = NoBidder
  BY <1>1, <1>2 DEF UpToDate, Knows
<1>7. Fresh(a) => Knows(a)'
  BY <1>1, <1>2, <1>3, <1>6, WritesCall DEF Knows
<1>8. ~stale /\ Fresh(a) => SoldOnce'
  BY <1>1, <1>3 DEF SoldOnce, Sold
<1>9. Fresh(a) => GreatestLeads'
  BY <1>3, <1>6 DEF GreatestLeads
<1>. QED
  BY <1>2, <1>3, <1>4, <1>5, <1>7, <1>8, <1>9, WriteKeeps DEF Alone

LEMMA RestartRelistsKeeps ==
    ASSUME IInv, NEW a \in Admins, RestartRelists(a)
    PROVE  IInv'
<1>1. TypeOK /\ UpToDate /\ auction \in Auction
  BY DEF IInv, TypeOK
<1>2. call[a].at = "relist" /\ Writes(a, "idle") /\ "idle" \in Goals
  BY DEF RestartRelists, At, Goals
<1>3. Knows(a)'
  BY <1>1, <1>2, WritesCall DEF Knows
<1>4. Alone(a) => auction.status = "ACTIVE"
  BY <1>1, <1>2 DEF UpToDate, Knows, Alone
<1>. QED
  BY <1>1, <1>2, <1>3, <1>4, StatusWriteKeeps DEF RestartRelists

LEMMA CancelsAuctionKeeps ==
    ASSUME IInv, NEW a \in Admins, CancelsAuction(a)
    PROVE  IInv'
<1>1. /\ TypeOK /\ UpToDate /\ auction \in Auction
      /\ listing \in {"ACTIVE", "CANCELLED"}
  BY DEF IInv, TypeOK
<1>2. call[a].at = "cancel" /\ Writes(a, "cancelListing") /\ "cancelListing" \in Goals
  BY DEF CancelsAuction, At, Goals
<1>3. /\ auction' \in Auction /\ auction'.status = "CANCELLED"
      /\ auction'.leader = auction.leader
      /\ auction'.price = auction.price /\ auction'.max = auction.max
  BY <1>1 DEF CancelsAuction, Auction, Statuses
<1>4. Fresh(a) => sales = <<>> /\ sales' = <<>>
  BY <1>1, <1>2 DEF UpToDate, Knows, CancelsAuction
<1>5. Fresh(a) => Knows(a)'
  BY <1>1, <1>2, <1>3, <1>4, WritesCall DEF Knows
<1>. QED
  BY <1>1, <1>2, <1>3, <1>4, <1>5, StatusWriteKeeps DEF CancelsAuction

LEMMA CancelsListingKeeps ==
    ASSUME IInv, NEW a \in Admins, CancelsListing(a)
    PROVE  IInv'
<1>1. TypeOK /\ UpToDate /\ auction \in Auction
  BY DEF IInv, TypeOK
<1>2. call[a].at = "cancelListing" /\ Writes(a, "idle") /\ "idle" \in Goals
  BY DEF CancelsListing, At, Goals
<1>3. Knows(a)'
  BY <1>1, <1>2, WritesCall DEF Knows
<1>4. Alone(a) => auction.status = "CANCELLED"
  BY <1>1, <1>2 DEF UpToDate, Knows, Alone
<1>. QED
  BY <1>1, <1>2, <1>3, <1>4, StatusWriteKeeps DEF CancelsListing

LEMMA CancelRollsBackKeeps ==
    ASSUME IInv, NEW a \in Admins, CancelRollsBack(a)
    PROVE  IInv'
<1>1. /\ TypeOK /\ UpToDate /\ RollbacksAreFaults /\ auction \in Auction
      /\ listing \in {"ACTIVE", "CANCELLED"}
  BY DEF IInv, TypeOK
<1>2. call[a].at = "rollback" /\ Writes(a, "idle") /\ "idle" \in Goals
  BY DEF CancelRollsBack, At, Goals
<1>3. call[a].read.status \in Statuses
  BY <1>1 DEF TypeOK, Call, Auction
<1>4. /\ auction' \in Auction
      /\ auction'.leader = auction.leader
      /\ auction'.price = auction.price /\ auction'.max = auction.max
  BY <1>1, <1>3 DEF CancelRollsBack, Auction
<1>5. Fresh(a) => sales = <<>>
  BY <1>1, <1>2 DEF UpToDate, Knows
<1>6. Knows(a)'
  BY <1>1, <1>2, WritesCall DEF Knows
<1>7. ~Alone(a)
  BY <1>1, <1>2 DEF RollbacksAreFaults, Alone, Clean
<1>. QED
  BY <1>1, <1>2, <1>4, <1>5, <1>6, <1>7, StatusWriteKeeps DEF CancelRollsBack

(* The settlement takes the leader and the price that the call had read.   *)
LEMMA SettleInsertsSaleKeeps ==
    ASSUME IInv, NEW a \in Admins, SettleInsertsSale(a)
    PROVE  IInv'
<1>1. /\ TypeOK /\ PledgesCover /\ UpToDate /\ SoldOnce /\ auction \in Auction
      /\ call[a].read \in Auction
  BY DEF IInv, TypeOK, Call
<1>2. call[a].at = "settle" /\ Writes(a, "idle") /\ "idle" \in Goals
  BY DEF SettleInsertsSale, At, Goals
<1>3. PICK sale \in Sale : /\ sale = [buyer |-> call[a].read.leader,
                                      price |-> call[a].read.price]
                           /\ sale.buyer = call[a].read.leader
                           /\ sale.price = call[a].read.price
                           /\ sales' = Append(sales, sale)
  <2> DEFINE sale == [buyer |-> call[a].read.leader, price |-> call[a].read.price]
  <2>1. sale \in Sale
    BY <1>1 DEF Sale, Auction
  <2>. QED
    BY <2>1 DEF SettleInsertsSale
<1>4. /\ sales' \in Seq(Sale) /\ Len(sales') = Len(sales) + 1 /\ Len(sales) \in Nat
      /\ \A i \in 1 .. Len(sales) : sales'[i] = sales[i]
      /\ sales'[Len(sales) + 1] = sale
  BY <1>1, <1>3, AppendProperties DEF TypeOK
<1>5. UNCHANGED <<auction, listing, bids, req, placed, calls, faults, pledged, late>>
  BY DEF SettleInsertsSale
<1>6. \A i \in DOMAIN sales' : Covered(sales[i].buyer, sales[i].price)'
  <2>1. DOMAIN sales = 1 .. Len(sales) /\ DOMAIN sales' = 1 .. Len(sales) + 1
    BY <1>1, <1>4 DEF TypeOK
  <2>2. ASSUME NEW i \in 1 .. Len(sales)
        PROVE  Covered(sales[i].buyer, sales[i].price)'
    BY <1>1, <1>4, <1>5, <2>1 DEF PledgesCover, Covered
  <2>3. Covered(sale.buyer, sale.price)
    BY <1>1, <1>3 DEF PledgesCover
  <2>4. ASSUME NEW i \in DOMAIN sales'
        PROVE  i = Len(sales) + 1 \/ i \in 1 .. Len(sales)
    BY <1>4, <2>1
  <2>. QED
    BY <1>4, <1>5, <2>2, <2>3, <2>4 DEF Covered
<1>7. Fresh(a) => /\ ~stale => Len(sales) <= faults
                  /\ auction.status = "ENDED"
                  /\ sale = Sold
  BY <1>1, <1>2, <1>3 DEF UpToDate, Knows, Sold
<1>8. Knows(a)'
  BY <1>1, <1>2, WritesCall DEF Knows
<1>9. ~stale /\ Fresh(a) => SoldOnce'
  <2> SUFFICES ASSUME ~stale, Fresh(a)
               PROVE  /\ auction'.status = "ENDED"
                      /\ Len(sales') <= 1 + faults'
                      /\ ~late' => \A i \in DOMAIN sales' : sales'[i] = Sold'
    BY DEF SoldOnce
  <2>1. Len(sales') <= 1 + faults'
    BY <1>1, <1>4, <1>5, <1>7, BiddingAssumption DEF TypeOK
  <2>2. Sold' = Sold
    BY <1>5 DEF Sold
  <2>3. ASSUME ~late, NEW i \in DOMAIN sales'
        PROVE  sales'[i] = Sold
    <3>1. DOMAIN sales' = 1 .. Len(sales) + 1 /\ DOMAIN sales = 1 .. Len(sales)
      BY <1>1, <1>4 DEF TypeOK
    <3>2. CASE i = Len(sales) + 1
      BY <1>4, <1>7, <3>2
    <3>3. CASE i \in 1 .. Len(sales)
      <4>1. sales # <<>> /\ sales[i] = sales'[i]
        BY <1>4, <3>3, EmptySeq
      <4>. QED
        BY <1>1, <2>3, <3>1, <3>3, <4>1 DEF SoldOnce
    <3>. QED
      BY <1>4, <3>1, <3>2, <3>3
  <2>. QED
    BY <1>5, <1>7, <2>1, <2>2, <2>3
<1>10. Alone(a) => (auction.status = "CANCELLED" <=> listing = "CANCELLED")
  BY <1>2, AloneListing
<1>11. Alone(a) /\ (\A b \in bids' : b.max > 0) => GreatestLeads'
  <2>1. Alone(a) /\ (\A b \in bids : b.max > 0) => GreatestLeads
    BY <1>2, AloneLead
  <2>. QED
    BY <1>5, <2>1 DEF GreatestLeads
<1>12. auction' \in Auction /\ listing' \in {"ACTIVE", "CANCELLED"} /\ bids' \subseteq Bid
  BY <1>1, <1>5 DEF TypeOK
<1>13. Covered(auction.leader, auction.price)' /\ Covered(auction.leader, auction.max)'
  BY <1>1, <1>5 DEF PledgesCover, Covered
<1>. QED
  BY <1>2, <1>4, <1>5, <1>6, <1>8, <1>9, <1>10, <1>11, <1>12, <1>13, WriteKeeps

(* A call that fails leaves what it has done, or is about to roll it back. *)
LEMMA AdminFailsKeeps ==
    ASSUME IInv, NEW a \in Admins, AdminFails(a)
    PROVE  IInv'
<1>1. /\ TypeOK /\ BiddersKnown /\ PledgesCover /\ RollbacksAreFaults /\ UpToDate /\ SoldOnce
  BY DEF IInv
<1>2. call[a] \in Call
  BY <1>1 DEF TypeOK
<1>3. PICK next \in Call :
         /\ call' = [call EXCEPT ![a] = next]
         /\ next.at \in {"idle", "rollback"}
         /\ next.read \in {call[a].read, Opened}
         /\ next.at = "rollback" => call[a].at = "cancelListing" /\ next.old = call[a].old
  <2>1. CASE At(a, "cancelListing")
    <3> DEFINE next == [call[a] EXCEPT !.at = "rollback"]
    <3>1. /\ next \in Call /\ next.at = "rollback"
          /\ next.read = call[a].read /\ next.old = call[a].old
      BY <1>2 DEF Call
    <3>2. call' = [call EXCEPT ![a] = next]
      BY <2>1 DEF AdminFails
    <3>. QED
      BY <2>1, <3>1, <3>2 DEF At
  <2>2. CASE ~At(a, "cancelListing")
    BY <2>2, IdleCall DEF AdminFails
  <2>. QED
    BY <2>1, <2>2
<1>4. /\ call' \in [Admins -> Call] /\ call'[a] = next
      /\ \A c \in Admins : c # a => call'[c] = call[c]
  BY <1>1, <1>3, MovesCall
<1>5. UNCHANGED <<auction, listing, bids, sales, req, placed, calls, pledged, late, stale>>
  BY DEF AdminFails
<1>6. /\ faults' \in 0 .. MaxFaults /\ faults' > 0 /\ Len(sales) \in Nat
      /\ faults \in Nat /\ faults' = faults + 1
  BY <1>1, BiddingAssumption, LenProperties DEF AdminFails, TypeOK
<1>7. TypeOK' /\ BiddersKnown' /\ SoldOnce'
  BY <1>1, <1>4, <1>5, <1>6 DEF TypeOK, BiddersKnown, SoldOnce, Sold
<1>8. PledgesCover'
  <2>1. ASSUME NEW c \in Admins
        PROVE  Covered(call[c].read.leader, call[c].read.price)'
    <3>1. Covered(call[c].read.leader, call[c].read.price)
      BY <1>1 DEF PledgesCover
    <3>2. call'[c].read = call[c].read \/ call'[c].read = Opened
      BY <1>3, <1>4
    <3>. QED
      BY <1>5, <3>1, <3>2, IdleCall DEF Covered
  <2>. QED
    BY <1>1, <1>5, <2>1 DEF PledgesCover, Covered
<1>9. RollbacksAreFaults'
  BY <1>6 DEF RollbacksAreFaults
<1>10. UpToDate'
  <2>1. ASSUME NEW c \in Admins, c # a PROVE Knows(c)'
    BY <1>1, <1>4, <1>5, <1>6, <2>1 DEF UpToDate, Knows, Fresh
  <2>2. Knows(a)'
    BY <1>1, <1>3, <1>4, <1>5 DEF UpToDate, Knows, Fresh
  <2>. QED
    BY <2>1, <2>2 DEF UpToDate
<1>11. ListingFollows' /\ LeadHeld'
  BY <1>6 DEF ListingFollows, LeadHeld, Clean
<1>. QED
  BY <1>7, <1>8, <1>9, <1>10, <1>11 DEF IInv

-----------------------------------------------------------------------------
(* The whole.                                                              *)

LEMMA NextIInv == IInv /\ [Next]_vars => IInv'
<1> SUFFICES ASSUME IInv, [Next]_vars PROVE IInv'
  OBVIOUS
<1>1. ASSUME NEW r \in Requests, BidStep(r) PROVE IInv'
  BY <1>1, BidReadsKeeps, BidIsAdmittedKeeps, BidIsAppliedKeeps DEF BidStep
<1>2. ASSUME NEW a \in Admins, AdminStep(a) PROVE IInv'
  <2>1. CASE \/ endAuctionReads(a) \/ restartAuctionReads(a)
             \/ cancelAuctionReads(a) \/ SettleReads(a)
    BY <2>1, endAuctionReadsKeeps, restartAuctionReadsKeeps, cancelAuctionReadsKeeps,
       SettleReadsKeeps
  <2>2. CASE \/ endAuction(a) \/ RestartResets(a) \/ RestartWipesBids(a)
             \/ RestartRelists(a)
    BY <2>2, endAuctionKeeps, RestartResetsKeeps, RestartWipesBidsKeeps, RestartRelistsKeeps
  <2>3. CASE \/ CancelsAuction(a) \/ CancelsListing(a) \/ CancelRollsBack(a)
             \/ SettleInsertsSale(a)
    BY <2>3, CancelsAuctionKeeps, CancelsListingKeeps, CancelRollsBackKeeps,
       SettleInsertsSaleKeeps
  <2>4. CASE AdminFails(a)
    BY <2>4, AdminFailsKeeps
  <2>. QED
    BY <1>2, <2>1, <2>2, <2>3, <2>4 DEF AdminStep
<1>3. CASE TimePasses
  BY <1>3, TimePassesKeeps
<1>4. CASE UNCHANGED vars
  <2>1. TypeOK' /\ BiddersKnown'
    BY <1>4 DEF vars, IInv, TypeOK, BiddersKnown
  <2>. QED
    BY <1>4, <2>1, SameTablesKeep DEF vars
<1>. QED
  BY <1>1, <1>2, <1>3, <1>4 DEF Next

LEMMA IInvAlways == Spec => []IInv
<1>. QED
  BY InitIInv, NextIInv, PTL DEF Spec

-----------------------------------------------------------------------------
(* The theorems.                                                           *)

(* Nobody owes more than he has offered.  When no call of an admin is      *)
(* under way or wrote out of date, the listing follows its auction unless  *)
(* a call failed, and a settled auction was sold to its leader at its      *)
(* price, once and at most once more for each call that failed.            *)
THEOREM BiddingCorrect == Spec => []Inv
<1>1. IInv => Inv
  <2> SUFFICES ASSUME IInv PROVE Inv
    OBVIOUS
  <2>1. PriceWithinPledge
    BY DEF IInv, PledgesCover, Covered, PriceWithinPledge
  <2>2. TablesAgree
    BY DEF IInv, SoldOnce, Sold, ListingFollows, Clean, TablesAgree, At
  <2>. QED
    BY <2>1, <2>2 DEF IInv, Inv
<1>. QED
  BY <1>1, IInvAlways, PTL

(* The greatest maximum leads, in whatever order the bids arrived.         *)
THEOREM GreatestMaximumLeads == Spec => []ProxyHoldsTheLead
<1>1. IInv => ProxyHoldsTheLead
  BY DEF IInv, LeadHeld, Clean, GreatestLeads, ProxyHoldsTheLead, At
<1>. QED
  BY <1>1, IInvAlways, PTL

(* A bidder with a maximum is outbid only by someone who offers more.      *)
THEOREM LeadLostToMore == Spec => OutbidOnlyByMore
<1> DEFINE Outbid == (auction.leader \notin {NoBidder, auction'.leader} /\ auction.max > 0)
                       => \/ auction'.leader = NoBidder
                          \/ pledged'[auction'.leader] > auction.max
<1>1. IInv /\ [Next]_vars => [Outbid]_vars
  <2> SUFFICES ASSUME IInv, Next, auction'.leader # auction.leader,
                      auction'.leader # NoBidder, auction.leader # NoBidder
               PROVE  pledged'[auction'.leader] > auction.max
    OBVIOUS
  <2>1. auction \in Auction /\ auction.max \in 0 .. MaxPrice
    BY DEF IInv, TypeOK, Auction
  <2>2. ASSUME NEW r \in Requests, BidIsApplied(r)
        PROVE  pledged'[auction'.leader] > auction.max
    <3>1. PICK b : b = Applied(r)
      OBVIOUS
    <3>2. /\ b \in Carried /\ b.bidder \in Bidders
          /\ b.amount \in 1 .. MaxPrice /\ b.max \in 0 .. MaxPrice
          /\ auction' = handle_proxy_bid(auction, b)
          /\ pledged' \in [Bidders -> 0 .. MaxPrice]
          /\ pledged'[b.bidder] >= b.amount /\ pledged'[b.bidder] >= b.max
      BY <2>2, <3>1, BidIsAppliedEffect
    <3>3. auction' = Contest(auction, b)
      BY <2>1, <3>2, TriggerDecides
    <3>4. auction'.leader = b.bidder /\ (b.amount > auction.max \/ b.max > auction.max)
      BY <2>1, <3>2, <3>3, ContestDecides
    <3>5. pledged'[b.bidder] \in 0 .. MaxPrice
      BY <3>2
    <3>. QED
      BY <2>1, <3>2, <3>4, <3>5, BiddingAssumption
  <2>3. ASSUME NEW r \in Requests, BidStep(r)
        PROVE  pledged'[auction'.leader] > auction.max
    BY <2>2, <2>3 DEF BidStep, BidReads, BidIsAdmitted
  <2>4. ASSUME NEW a \in Admins, AdminStep(a)
        PROVE  auction'.leader \in {auction.leader, NoBidder}
    <3>1. CASE endAuction(a) \/ CancelsAuction(a) \/ CancelRollsBack(a)
      BY <2>1, <3>1 DEF endAuction, CancelsAuction, CancelRollsBack, Auction
    <3>2. CASE RestartResets(a)
      BY <3>2, IdleCall DEF RestartResets
    <3>3. CASE UNCHANGED auction
      BY <3>3
    <3>. QED
      BY <2>4, <3>1, <3>2, <3>3
         DEF AdminStep, endAuctionReads, restartAuctionReads, RestartWipesBids,
             RestartRelists, cancelAuctionReads, CancelsListing, SettleReads,
             SettleInsertsSale, AdminFails, Reads, Begins
  <2>5. TimePasses => auction'.leader = auction.leader
    BY <2>1 DEF TimePasses, Auction
  <2>. QED
    BY <2>3, <2>4, <2>5 DEF Next
<1>. QED
  BY <1>1, IInvAlways, PTL DEF Spec, OutbidOnlyByMore
=============================================================================
