--------------------------- MODULE SettlementCascade ---------------------------
(***************************************************************************)
(* The settlement of one ended auction: the offer to its winner, the       *)
(* cascade to the next bidder when a payment window expires, and the       *)
(* payment that ends it.                                                   *)
(*                                                                         *)
(*   Settlers   calls of settle-auction                                    *)
(*   Checkers   runs of check-payment-window                               *)
(*   Hooks      deliveries of a processor's webhook to payment-webhook     *)
(*   Txs        calls of process-payment, one transaction each             *)
(*                                                                         *)
(* Every database call is a step of its own: there is no transaction       *)
(* around them, and only the checker's claim asks for the status it        *)
(* changes.  A call that fails is logged and the function goes on.         *)
(* Of a bid only the order of the maxima counts, and whether there is one: *)
(* 0 stands for NULL, which SQL's descending order puts first.             *)
(***************************************************************************)
EXTENDS Integers, Sequences, FiniteSets

CONSTANTS Bidders, Txs, Settlers, Checkers, Hooks,
          NoBidder, NoTx,
          MaxBid,       \* the greatest maximum of a bidder
          MaxFailures   \* calls that fail or die half way in one behaviour

VARIABLES
    bid,       \* MAX(bids.max_bid_cents) of each bidder
    auction,   \* auctions: status and winner_id
    listing,   \* listings.status
    sales,     \* settlements of the auction, in the order of created_at
    offers,    \* settlement_offers, in the order they were inserted
    txs,       \* transactions, and what the processors did about each
    work,      \* what each handler has read and has still to do
    failures,  \* failures so far
    broken     \* history: a failure left a step of the cascade undone

cascadeVars == <<bid, auction, listing, sales, offers, txs, work, failures, broken>>

Workers == Settlers \cup Checkers \cup Hooks

ASSUME CascadeAssumption ==
    /\ NoBidder \notin Bidders
    /\ NoTx \notin Txs
    /\ MaxBid \in Nat
    /\ MaxFailures \in Nat

Auction == [status : {"ENDED", "SETTLED"}, winner : Bidders \cup {NoBidder}]

Settlement == [status : {"PENDING_PAYMENT", "ESCROW_HOLD", "CANCELLED"},
               buyer  : Bidders \cup {NoBidder},
               tx     : Txs \cup {NoTx}]

(* over: payment_window_expires_at has passed.  penalties: the rows of     *)
(* payment_penalties for the offer.  inTime: history, a payment found the  *)
(* offer still open when it accepted it.  unlisted: history, the bidder    *)
(* was chosen without the list of those already asked.                     *)
Offer == [sale      : Nat \ {0},
          bidder    : Bidders,
          rank      : Nat \ {0},
          status    : {"PENDING_PAYMENT", "ACCEPTED", "EXPIRED"},
          over      : BOOLEAN,
          tx        : Txs \cup {NoTx},
          penalties : Nat,
          inTime    : BOOLEAN,
          unlisted  : BOOLEAN]

(* pay: where process-payment is with it.  form: the buyer was left with   *)
(* one.  charged: a processor took the money.  declined: one refused it.   *)
(* Who pays is left out: nothing compares him with the offer's bidder.     *)
Tx == [status   : {"PENDING", "SUCCEEDED", "FAILED"},
       pay      : {"none", "trying", "COMPLETED", "PENDING", "FAILED", "done"},
       form     : BOOLEAN,
       charged  : BOOLEAN,
       declined : BOOLEAN]

(* todo: the offers a checker has claimed and not begun.  offer, bidder,   *)
(* sale, tx: those it works on.                                            *)
Work == [at       : {"idle",
                     "insertSale", "insertOffer",
                     "penalise", "look", "offerNext", "moveSale",
                     "cancelSale", "endAuction", "relist",
                     "sell", "find", "findOffer", "accept", "hold", "settle"},
         todo     : SUBSET (Nat \ {0}),
         sale     : Nat,
         offer    : Nat,
         bidder   : Bidders \cup {NoBidder},
         unlisted : BOOLEAN,
         tx       : Txs \cup {NoTx}]

NoWork == [at |-> "idle", todo |-> {}, sale |-> 0, offer |-> 0,
           bidder |-> NoBidder, unlisted |-> FALSE, tx |-> NoTx]

(* An auction that has ended: placing the bids is AuctionBidding's part.   *)
CascadeInit ==
    /\ bid \in [Bidders -> 0 .. MaxBid]
    /\ auction \in [status : {"ENDED"}, winner : Bidders \cup {NoBidder}]
    /\ listing = "ACTIVE"
    /\ sales = <<>>
    /\ offers = <<>>
    /\ txs = [t \in Txs |-> [status |-> "PENDING", pay |-> "none",
                             form |-> FALSE, charged |-> FALSE, declined |-> FALSE]]
    /\ work = [h \in Workers |-> NoWork]
    /\ failures = 0
    /\ broken = FALSE

-----------------------------------------------------------------------------
Doing(h, label) == work[h].at = label

GoesOnTo(h, label) == work' = [work EXCEPT ![h].at = label]

StopsWork(h) == work' = [work EXCEPT ![h] = NoWork]

(* The next claimed offer, or the end of the run.                          *)
NextOffer(c) ==
    IF work[c].todo = {}
      THEN StopsWork(c)
      ELSE \E j \in work[c].todo :
              work' = [work EXCEPT ![c] = [NoWork EXCEPT
                          !.at = "penalise",
                          !.todo = work[c].todo \ {j},
                          !.offer = j,
                          !.sale = offers[j].sale]]

-----------------------------------------------------------------------------
(* settle-auction                                                          *)

(* The error of the look for an earlier settlement is dropped: a read that *)
(* fails finds none, and the function settles the auction once more.       *)
SettleReads(s) ==
    /\ Doing(s, "idle")
    /\ auction.status = "ENDED"
    /\ \/ sales = <<>> /\ UNCHANGED failures
       \/ failures < MaxFailures /\ failures' = failures + 1
    /\ work' = [work EXCEPT ![s] = [NoWork EXCEPT !.at = "insertSale",
                                                  !.bidder = auction.winner]]
    /\ UNCHANGED <<bid, auction, listing, sales, offers, txs, broken>>

(* Without a winner the settlement is cancelled from the start.            *)
SettleInsertsSale(s) ==
    /\ Doing(s, "insertSale")
    /\ LET winner == work[s].bidder
       IN  IF winner = NoBidder
             THEN /\ sales' = Append(sales, [status |-> "CANCELLED",
                                             buyer |-> NoBidder, tx |-> NoTx])
                  /\ StopsWork(s)
             ELSE /\ sales' = Append(sales, [status |-> "PENDING_PAYMENT",
                                             buyer |-> winner, tx |-> NoTx])
                  /\ work' = [work EXCEPT ![s].at = "insertOffer",
                                          ![s].sale = Len(sales) + 1]
    /\ UNCHANGED <<bid, auction, listing, offers, txs, failures, broken>>

NewOffer(i, b, r, unlisted) ==
    Append(offers, [sale |-> i, bidder |-> b, rank |-> r,
                    status |-> "PENDING_PAYMENT", over |-> FALSE, tx |-> NoTx,
                    penalties |-> 0, inTime |-> FALSE, unlisted |-> unlisted])

SettleInsertsOffer(s) ==
    /\ Doing(s, "insertOffer")
    /\ offers' = NewOffer(work[s].sale, work[s].bidder, 1, FALSE)
    /\ StopsWork(s)
    /\ UNCHANGED <<bid, auction, listing, sales, txs, failures, broken>>

SettleStep(s) ==
    \/ SettleReads(s)
    \/ SettleInsertsSale(s)
    \/ SettleInsertsOffer(s)

-----------------------------------------------------------------------------
(* check-payment-window                                                    *)

Expired == {j \in DOMAIN offers : offers[j].status = "PENDING_PAYMENT" /\ offers[j].over}

(* Mutant of ClaimsExpired: the expired offers are selected, to be updated *)
(* when their cascade is done.                                             *)
SelectsExpired(c) ==
    /\ Doing(c, "idle")
    /\ Expired # {}
    /\ \E j \in Expired :
          work' = [work EXCEPT ![c] = [NoWork EXCEPT !.at = "penalise",
                                                     !.todo = Expired \ {j},
                                                     !.offer = j,
                                                     !.sale = offers[j].sale]]
    /\ UNCHANGED <<bid, auction, listing, sales, offers, txs, failures, broken>>

(* Mutant of ClaimsExpired: the claim asks for the window alone, and takes *)
(* an accepted offer too.                                                  *)
ClaimsByWindow(c) ==
    /\ Doing(c, "idle")
    /\ LET taken == {j \in DOMAIN offers :
                        offers[j].status # "EXPIRED" /\ offers[j].over}
       IN  /\ taken # {}
           /\ offers' = [j \in DOMAIN offers |->
                           IF j \in taken THEN [offers[j] EXCEPT !.status = "EXPIRED"]
                                          ELSE offers[j]]
           /\ \E j \in taken :
                 work' = [work EXCEPT ![c] = [NoWork EXCEPT !.at = "penalise",
                                                            !.todo = taken \ {j},
                                                            !.offer = j,
                                                            !.sale = offers[j].sale]]
    /\ UNCHANGED <<bid, auction, listing, sales, txs, failures, broken>>

(* One UPDATE marks every expired offer and returns it.                    *)
ClaimsExpired(c) ==
    /\ Doing(c, "idle")
    /\ Expired # {}
    /\ offers' = [j \in DOMAIN offers |->
                    IF j \in Expired THEN [offers[j] EXCEPT !.status = "EXPIRED"]
                                     ELSE offers[j]]
    /\ \E j \in Expired :
          work' = [work EXCEPT ![c] = [NoWork EXCEPT !.at = "penalise",
                                                     !.todo = Expired \ {j},
                                                     !.offer = j,
                                                     !.sale = offers[j].sale]]
    /\ UNCHANGED <<bid, auction, listing, sales, txs, failures, broken>>

apply_payment_penalty(c) ==
    /\ Doing(c, "penalise")
    /\ offers' = [offers EXCEPT ![work[c].offer].penalties = @ + 1]
    /\ GoesOnTo(c, "look")
    /\ UNCHANGED <<bid, auction, listing, sales, txs, failures, broken>>

Asked(i) == {offers[j].bidder : j \in {k \in DOMAIN offers : offers[k].sale = i}}

(* Bidders with no maximum at all come before every other one.             *)
get_next_eligible_bidder(excluded) ==
    LET rest == IF auction.winner = NoBidder THEN {} ELSE Bidders \ excluded
        none == {b \in rest : bid[b] = 0}
    IN  IF none # {} THEN none
        ELSE {b \in rest : \A d \in rest : bid[d] <= bid[b]}

(* Where the run goes on once the next bidder has been looked for.         *)
Chooses(c, next, unlisted) ==
    IF next = {} THEN GoesOnTo(c, "cancelSale")
    ELSE \E b \in next : work' = [work EXCEPT ![c].at = "offerNext",
                                             ![c].bidder = b,
                                             ![c].unlisted = unlisted]

(* Mutant of LooksForNext: the list of those already asked is left empty.  *)
LooksAgain(c) ==
    /\ Doing(c, "look")
    /\ Chooses(c, get_next_eligible_bidder({}), FALSE)
    /\ UNCHANGED <<bid, auction, listing, sales, offers, txs, failures, broken>>

LooksForNext(c) ==
    /\ Doing(c, "look")
    /\ Chooses(c, get_next_eligible_bidder(Asked(work[c].sale)), FALSE)
    /\ UNCHANGED <<bid, auction, listing, sales, offers, txs, failures, broken>>

(* offer_price_cents takes no NULL: the insert of such an offer fails and  *)
(* the run goes on with the next claimed one.                              *)
OffersToNext(c) ==
    /\ Doing(c, "offerNext")
    /\ IF bid[work[c].bidder] = 0
         THEN NextOffer(c) /\ broken' = TRUE /\ UNCHANGED offers
         ELSE /\ offers' = NewOffer(work[c].sale, work[c].bidder,
                                    offers[work[c].offer].rank + 1,
                                    work[c].unlisted)
              /\ GoesOnTo(c, "moveSale")
              /\ UNCHANGED broken
    /\ UNCHANGED <<bid, auction, listing, sales, txs, failures>>

MovesSale(c) ==
    /\ Doing(c, "moveSale")
    /\ sales' = [sales EXCEPT ![work[c].sale].buyer = work[c].bidder]
    /\ NextOffer(c)
    /\ UNCHANGED <<bid, auction, listing, offers, txs, failures, broken>>

(* Mutant of CancelsSale: the auction and the listing are put back and the *)
(* settlement is not.                                                      *)
CancelsNothing(c) ==
    /\ Doing(c, "cancelSale")
    /\ GoesOnTo(c, "endAuction")
    /\ UNCHANGED <<bid, auction, listing, sales, offers, txs, failures, broken>>

CancelsSale(c) ==
    /\ Doing(c, "cancelSale")
    /\ sales' = [sales EXCEPT ![work[c].sale].status = "CANCELLED"]
    /\ GoesOnTo(c, "endAuction")
    /\ UNCHANGED <<bid, auction, listing, offers, txs, failures, broken>>

EndsAuction(c) ==
    /\ Doing(c, "endAuction")
    /\ auction' = [auction EXCEPT !.status = "ENDED"]
    /\ GoesOnTo(c, "relist")
    /\ UNCHANGED <<bid, listing, sales, offers, txs, failures, broken>>

Relists(c) ==
    /\ Doing(c, "relist")
    /\ listing' = "ACTIVE"
    /\ NextOffer(c)
    /\ UNCHANGED <<bid, auction, sales, offers, txs, failures, broken>>

(* What a run does with the offers it has claimed.                         *)
CascadeStep(c) ==
    \/ apply_payment_penalty(c)
    \/ LooksForNext(c)
    \/ OffersToNext(c)
    \/ MovesSale(c)
    \/ CancelsSale(c)
    \/ EndsAuction(c)
    \/ Relists(c)

CheckStep(c) == ClaimsExpired(c) \/ CascadeStep(c)

WindowPasses(j) ==
    /\ offers[j].status = "PENDING_PAYMENT"
    /\ ~offers[j].over
    /\ offers' = [offers EXCEPT ![j].over = TRUE]
    /\ UNCHANGED <<bid, auction, listing, sales, txs, work, failures, broken>>

-----------------------------------------------------------------------------
(* process-payment: anyone signed in may start a payment for the listing.  *)

StartsPayment(t) ==
    /\ txs[t].pay = "none"
    /\ txs' = [txs EXCEPT ![t].pay = "trying"]
    /\ UNCHANGED <<bid, auction, listing, sales, offers, work, failures, broken>>

(* The cascade of processors: it stops at the first that takes the money,  *)
(* or that leaves the buyer with a form to fill in; a refusal goes on to   *)
(* the next one, if there is one.                                          *)
ProcessorTakes(t) ==
    /\ txs[t].pay = "trying"
    /\ txs' = [txs EXCEPT ![t].charged = TRUE, ![t].pay = "COMPLETED"]
    /\ UNCHANGED <<bid, auction, listing, sales, offers, work, failures, broken>>

ProcessorDefers(t) ==
    /\ txs[t].pay = "trying"
    /\ txs' = [txs EXCEPT ![t].form = TRUE, ![t].pay = "PENDING"]
    /\ UNCHANGED <<bid, auction, listing, sales, offers, work, failures, broken>>

ProcessorDeclines(t) ==
    /\ txs[t].pay = "trying"
    /\ \E next \in {"trying", "FAILED"} :
          /\ next = "trying" => ~txs[t].declined
          /\ txs' = [txs EXCEPT ![t].declined = TRUE, ![t].pay = next]
    /\ UNCHANGED <<bid, auction, listing, sales, offers, work, failures, broken>>

(* The form is filled in, whenever that is.                                *)
BuyerCompletes(t) ==
    /\ txs[t].form
    /\ ~txs[t].charged
    /\ txs' = [txs EXCEPT ![t].charged = TRUE]
    /\ UNCHANGED <<bid, auction, listing, sales, offers, work, failures, broken>>

(* The last UPDATE, by the id of the row.                                  *)
RecordsPayment(t) ==
    /\ txs[t].pay \in {"COMPLETED", "PENDING", "FAILED"}
    /\ txs' = [txs EXCEPT
                 ![t].status = CASE txs[t].pay = "COMPLETED" -> "SUCCEEDED"
                                 [] OTHER -> txs[t].pay,
                 ![t].pay = "done"]
    /\ UNCHANGED <<bid, auction, listing, sales, offers, work, failures, broken>>

PayStep(t) ==
    \/ StartsPayment(t)
    \/ ProcessorTakes(t)
    \/ ProcessorDefers(t)
    \/ ProcessorDeclines(t)
    \/ BuyerCompletes(t)
    \/ RecordsPayment(t)

-----------------------------------------------------------------------------
(* payment-webhook                                                         *)

(* A refusal is delivered at any time after it, and more than once.        *)
HookRecordsRefusal(t) ==
    /\ txs[t].declined
    /\ txs[t].status # "FAILED"
    /\ txs' = [txs EXCEPT ![t].status = "FAILED"]
    /\ UNCHANGED <<bid, auction, listing, sales, offers, work, failures, broken>>

HookRecordsPayment(h, t) ==
    /\ Doing(h, "idle")
    /\ txs[t].charged
    /\ txs' = [txs EXCEPT ![t].status = "SUCCEEDED"]
    /\ work' = [work EXCEPT ![h] = [NoWork EXCEPT !.at = "sell", !.tx = t]]
    /\ UNCHANGED <<bid, auction, listing, sales, offers, failures, broken>>

HookSells(h) ==
    /\ Doing(h, "sell")
    /\ listing' = "SOLD"
    /\ GoesOnTo(h, "find")
    /\ UNCHANGED <<bid, auction, sales, offers, txs, failures, broken>>

(* The latest settlement that waits for a payment, and its last open offer *)
OpenSales == {i \in DOMAIN sales : sales[i].status = "PENDING_PAYMENT"}

OpenOffers(i) == {j \in DOMAIN offers :
                     offers[j].sale = i /\ offers[j].status = "PENDING_PAYMENT"}

HookFindsSale(h) ==
    /\ Doing(h, "find")
    /\ \E i \in OpenSales :
          /\ \A k \in OpenSales : k <= i
          /\ work' = [work EXCEPT ![h].at = "findOffer", ![h].sale = i]
    /\ UNCHANGED <<bid, auction, listing, sales, offers, txs, failures, broken>>

HookFindsOffer(h) ==
    /\ Doing(h, "findOffer")
    /\ \E j \in OpenOffers(work[h].sale) :
          /\ \A k \in OpenOffers(work[h].sale) : offers[k].rank <= offers[j].rank
          /\ work' = [work EXCEPT ![h].at = "accept", ![h].offer = j,
                                  ![h].bidder = offers[j].bidder]
    /\ UNCHANGED <<bid, auction, listing, sales, offers, txs, failures, broken>>

(* Nothing waits for the payment: the delivery ends here.                  *)
HookFindsNothing(h) ==
    /\ \/ Doing(h, "find") /\ OpenSales = {}
       \/ Doing(h, "findOffer") /\ OpenOffers(work[h].sale) = {}
    /\ StopsWork(h)
    /\ UNCHANGED <<bid, auction, listing, sales, offers, txs, failures, broken>>

HookAccepts(h) ==
    /\ Doing(h, "accept")
    /\ LET j == work[h].offer
       IN  offers' = [offers EXCEPT
                        ![j].status = "ACCEPTED",
                        ![j].tx = work[h].tx,
                        ![j].inTime = @ \/ offers[j].status = "PENDING_PAYMENT"]
    /\ GoesOnTo(h, "hold")
    /\ UNCHANGED <<bid, auction, listing, sales, txs, failures, broken>>

HookHolds(h) ==
    /\ Doing(h, "hold")
    /\ sales' = [sales EXCEPT ![work[h].sale] = [status |-> "ESCROW_HOLD",
                                                 buyer |-> work[h].bidder,
                                                 tx |-> work[h].tx]]
    /\ GoesOnTo(h, "settle")
    /\ UNCHANGED <<bid, auction, listing, offers, txs, failures, broken>>

HookSettles(h) ==
    /\ Doing(h, "settle")
    /\ auction' = [status |-> "SETTLED", winner |-> work[h].bidder]
    /\ StopsWork(h)
    /\ UNCHANGED <<bid, listing, sales, offers, txs, failures, broken>>

HookStep(h) ==
    \/ HookSells(h)
    \/ HookFindsSale(h)
    \/ HookFindsOffer(h)
    \/ HookFindsNothing(h)
    \/ HookAccepts(h)
    \/ HookHolds(h)
    \/ HookSettles(h)

-----------------------------------------------------------------------------
(* Failures.                                                               *)

(* Where a function goes on after a database call that returned an error.  *)
AfterError == [penalise   |-> "look",
               cancelSale |-> "endAuction",
               endAuction |-> "relist",
               sell       |-> "find",
               accept     |-> "hold",
               hold       |-> "settle"]

(* The errors after which the cascade still does all of its work.          *)
Harmless == {"penalise", "endAuction", "relist", "sell"}

CallFails(h) ==
    /\ work[h].at \notin {"idle", "look"}
    /\ failures < MaxFailures
    /\ failures' = failures + 1
    /\ IF work[h].at \in DOMAIN AfterError
         THEN GoesOnTo(h, AfterError[work[h].at])
         ELSE IF h \in Checkers THEN NextOffer(h) ELSE StopsWork(h)
    /\ broken' = (broken \/ work[h].at \notin Harmless)
    /\ UNCHANGED <<bid, auction, listing, sales, offers, txs>>

(* The look-up of the next bidder is three calls.  If the first fails, the *)
(* list of those already asked is empty; if the second does, the run goes  *)
(* on with the next claimed offer; if the third does, nobody is left.      *)
LookFails(c) ==
    /\ Doing(c, "look")
    /\ failures < MaxFailures
    /\ failures' = failures + 1
    /\ \/ Chooses(c, get_next_eligible_bidder({}), TRUE) /\ UNCHANGED broken
       \/ NextOffer(c) /\ broken' = TRUE
       \/ GoesOnTo(c, "cancelSale") /\ UNCHANGED broken
    /\ UNCHANGED <<bid, auction, listing, sales, offers, txs>>

(* The function is killed, or its time runs out.                           *)
Dies(h) ==
    /\ ~Doing(h, "idle")
    /\ failures < MaxFailures
    /\ failures' = failures + 1
    /\ broken' = TRUE
    /\ StopsWork(h)
    /\ UNCHANGED <<bid, auction, listing, sales, offers, txs>>

PaymentDies(t) ==
    /\ txs[t].pay \in {"COMPLETED", "PENDING", "FAILED"}
    /\ failures < MaxFailures
    /\ failures' = failures + 1
    /\ txs' = [txs EXCEPT ![t].pay = "done"]
    /\ UNCHANGED <<bid, auction, listing, sales, offers, work, broken>>

CascadeNext ==
    \/ \E s \in Settlers : SettleStep(s)
    \/ \E c \in Checkers : CheckStep(c)
    \/ \E j \in DOMAIN offers : WindowPasses(j)
    \/ \E t \in Txs : PayStep(t) \/ HookRecordsRefusal(t) \/ PaymentDies(t)
    \/ \E h \in Hooks, t \in Txs : HookRecordsPayment(h, t)
    \/ \E h \in Hooks : HookStep(h)
    \/ \E c \in Checkers : LookFails(c)
    \/ \E h \in Workers : CallFails(h) \/ Dies(h)

(* A function that has begun goes on until it ends or dies.  Nobody has to *)
(* settle, to pay, or to start a run of check-payment-window: no migration *)
(* schedules it.                                                           *)
CascadeFairness ==
    /\ \A s \in Settlers : WF_cascadeVars(SettleInsertsSale(s) \/ SettleInsertsOffer(s))
    /\ \A c \in Checkers : WF_cascadeVars(CascadeStep(c))
    /\ \A h \in Hooks : WF_cascadeVars(HookStep(h))

CascadeSpec == CascadeInit /\ [][CascadeNext]_cascadeVars

FairCascade == CascadeSpec /\ CascadeFairness

-----------------------------------------------------------------------------
(* Properties.                                                             *)

(* Every row and every call has its shape, and a handler works on rows     *)
(* that exist.                                                             *)
CascadeTypeOK ==
    /\ bid \in [Bidders -> 0 .. MaxBid]
    /\ auction \in Auction
    /\ listing \in {"ACTIVE", "SOLD"}
    /\ sales \in Seq(Settlement)
    /\ offers \in Seq(Offer)
    /\ \A j \in DOMAIN offers : offers[j].sale \in DOMAIN sales
    /\ txs \in [Txs -> Tx]
    /\ work \in [Workers -> Work]
    /\ \A h \in Workers :
          /\ work[h].todo \subseteq DOMAIN offers
          /\ work[h].sale \in {0} \cup DOMAIN sales
          /\ work[h].offer \in {0} \cup DOMAIN offers
    /\ failures \in 0 .. MaxFailures
    /\ broken \in BOOLEAN

OffersOf(i) == {j \in DOMAIN offers : offers[j].sale = i}

(* However the runs of check-payment-window overlap, a settlement is       *)
(* offered to one bidder at a time, the ranks of its offers leave no gap,  *)
(* and a bidder is asked again only by a run that could not read who had   *)
(* been asked.                                                             *)
OfferChain ==
    \A i \in DOMAIN sales :
       /\ \A j, k \in OpenOffers(i) : j = k
       /\ {offers[j].rank : j \in OffersOf(i)} = 1 .. Cardinality(OffersOf(i))
       /\ \A j, k \in OffersOf(i) :
             offers[j].bidder = offers[k].bidder /\ j < k => offers[k].unlisted

(* A bidder is penalised once at most for an offer, only when its window   *)
(* has passed, and never for an offer whose payment found it open.         *)
PenalisedOnce ==
    \A j \in DOMAIN offers :
       /\ offers[j].penalties <= 1
       /\ offers[j].penalties > 0 => offers[j].over /\ ~offers[j].inTime

(* What is held in escrow, and what is accepted, was paid for: its         *)
(* transaction is one a processor has charged, however often and in what   *)
(* order the notifications arrive.                                         *)
HeldIsCharged ==
    /\ \A i \in DOMAIN sales :
          sales[i].status = "ESCROW_HOLD" => /\ sales[i].tx \in Txs
                                             /\ txs[sales[i].tx].charged
    /\ \A j \in DOMAIN offers :
          offers[j].status = "ACCEPTED" => /\ offers[j].tx \in Txs
                                           /\ txs[offers[j].tx].charged

(* A settlement held for a payment that found its offer open stays held:   *)
(* no run of check-payment-window cancels it behind the payment's back,    *)
(* whatever calls fail on either side.                                     *)
InTimeIsKept ==
    [][ \A i \in DOMAIN sales :
           ( /\ sales[i].status = "ESCROW_HOLD"
             /\ \E j \in OffersOf(i) : offers[j].inTime )
           => sales'[i].status = "ESCROW_HOLD" ]_cascadeVars

Resolved(i) == i \in DOMAIN sales /\ sales[i].status # "PENDING_PAYMENT"

PassedOn(j) ==
    \/ Resolved(offers[j].sale)
    \/ \E k \in OffersOf(offers[j].sale) : offers[k].rank > offers[j].rank

(* The run has claimed the offer and has still to pass it on.              *)
Carries(c, j) ==
    \/ j \in work[c].todo
    \/ work[c].offer = j /\ work[c].at \in {"penalise", "look", "offerNext", "cancelSale"}

(* No bidder who let an offer expire is the last word on a sale: an offer  *)
(* declared expired is in the hands of a run, or it has been passed on,    *)
(* that is, a later one of its settlement follows, or the settlement is    *)
(* cancelled, or held for a payment that came late; unless a call that the *)
(* cascade needs has failed.  However many offers a run claims and however *)
(* runs and payments overlap, none of them drops one.                      *)
NoOfferDropped ==
    broken \/ \A j \in DOMAIN offers :
                 offers[j].status = "EXPIRED" =>
                    PassedOn(j) \/ \E c \in Checkers : Carries(c, j)

(* Rows have their shape, the offers of a settlement form a chain, and     *)
(* nothing is held or accepted unpaid.                                     *)
CascadeInv == CascadeTypeOK /\ OfferChain /\ HeldIsCharged

-----------------------------------------------------------------------------
(* What the repository's comments say and the code does not do.            *)

(* A settlement does not wait for its payment for ever: the header of      *)
(* check-payment-window has cron call it every minute.                     *)
SaleResolves ==
    \A i \in 1 .. Cardinality(Settlers) :
       (i \in DOMAIN sales) ~> (broken \/ Resolved(i))

(* What settle-auction says of a settlement whose offer it could not       *)
(* insert: check-payment-window handles it.                                *)
OrphansAreHandled ==
    \A i \in 1 .. Cardinality(Settlers) :
       (i \in DOMAIN sales) ~> Resolved(i)
=============================================================================
