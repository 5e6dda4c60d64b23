-------------------------- MODULE TapPossession_proofs --------------------------
(***************************************************************************)
(* Proofs about TapPossession, for any number of chips, reads, sessions    *)
(* and overlapping requests.                                               *)
(***************************************************************************)
EXTENDS TapPossession, TLAPS

(* A tap that was burned and has proved nothing yet is held by one party:  *)
(* the request that issues its session, the session while it is live, or   *)
(* the claim that consumed it.                                             *)
SessionHolds(s, t, c) ==
    sessions[s].state = "live" /\ sessions[s].tag = t /\ sessions[s].counter = c

RequestHolds(r, t, c) ==
    /\ requests[r].pc \in {"issue", "load_claim", "claim_session"}
    /\ requests[r].tag = t
    /\ requests[r].counter = c

(* Whoever acts names a chip.                                              *)
ChipsNamed ==
    /\ \A s \in Sessions : sessions[s].state = "live" => sessions[s].tag \in Tags
    /\ \A r \in Requests : requests[r].pc # "idle" => requests[r].tag \in Tags

(* No accepted counter is above the row's.                                 *)
LedgerBounded == \A t \in Tags : \A c \in ledger[t] : c <= sun_counter[t]

ProvedInLedger ==
    \A t \in Tags : \A c \in Counters : proofs[t][c] > 0 => c \in ledger[t]

(* A held tap is in the ledger and has proved nothing.                     *)
HeldUnproved ==
    \A t \in Tags : \A c \in Counters :
       (\/ \E s \in Sessions : SessionHolds(s, t, c)
        \/ \E r \in Requests : RequestHolds(r, t, c)) => c \in ledger[t] /\ proofs[t][c] = 0

HeldByOne ==
    \A t \in Tags : \A c \in Counters :
       /\ \A s, q \in Sessions : SessionHolds(s, t, c) /\ SessionHolds(q, t, c) => s = q
       /\ \A r, q \in Requests : RequestHolds(r, t, c) /\ RequestHolds(q, t, c) => r = q
       /\ \A s \in Sessions, r \in Requests : ~(SessionHolds(s, t, c) /\ RequestHolds(r, t, c))

(* The inductive invariant.                                                *)
IInv ==
    /\ TypeOK
    /\ ChipsNamed
    /\ LedgerBounded
    /\ ProvedInLedger
    /\ ReadProvesOnce
    /\ HeldUnproved
    /\ HeldByOne

LEMMA CountersNat == 0 \in Counters /\ \A c \in Counters : c \in Nat
BY ReadsAssumption DEF Counters

LEMMA InitIInv == Init => IInv
<1> SUFFICES ASSUME Init PROVE IInv
  OBVIOUS
<1>1. NoSession \in Session /\ NoSession.state = "none"
  BY CountersNat DEF NoSession, Session
<1>2. IdleRequest \in RequestSlot /\ IdleRequest.pc = "idle"
  BY CountersNat DEF IdleRequest, RequestSlot
<1>3. TypeOK
  BY <1>1, <1>2 DEF Init, TypeOK
<1>4. ChipsNamed /\ LedgerBounded /\ ProvedInLedger /\ ReadProvesOnce
  BY <1>1, <1>2 DEF Init, ChipsNamed, LedgerBounded, ProvedInLedger, ReadProvesOnce
<1>5. HeldUnproved /\ HeldByOne
  BY <1>1, <1>2 DEF Init, HeldUnproved, HeldByOne, SessionHolds, RequestHolds
<1>. QED
  BY <1>3, <1>4, <1>5 DEF IInv

-----------------------------------------------------------------------------
(* What a step may do to the held taps.                                    *)

(* Nobody holds more than before.                                          *)
HoldNoMore ==
    /\ \A s \in Sessions, t \in Tags, c \in Counters :
          SessionHolds(s, t, c)' => SessionHolds(s, t, c)
    /\ \A r \in Requests, t \in Tags, c \in Counters :
          RequestHolds(r, t, c)' => RequestHolds(r, t, c)

LedgerGrows == \A t \in Tags : ledger[t] \subseteq ledger'[t]

LEMMA QuietHeld ==
    ASSUME HeldUnproved, HeldByOne, HoldNoMore, LedgerGrows, proofs' = proofs
    PROVE  HeldUnproved' /\ HeldByOne'
BY DEF HeldUnproved, HeldByOne, HoldNoMore, LedgerGrows

(* A tap nobody held is now held by one request, or by one session.        *)
LEMMA TakenHeld ==
    ASSUME HeldUnproved, HeldByOne, LedgerGrows, proofs' = proofs,
           NEW r \in Requests, NEW t0 \in Tags, NEW c0 \in Counters,
           \A s \in Sessions : ~SessionHolds(s, t0, c0),
           \A q \in Requests : ~RequestHolds(q, t0, c0),
           c0 \in ledger'[t0], proofs[t0][c0] = 0,
           \A s \in Sessions, t \in Tags, c \in Counters :
              SessionHolds(s, t, c)' => SessionHolds(s, t, c),
           \A q \in Requests, t \in Tags, c \in Counters :
              RequestHolds(q, t, c)' => \/ RequestHolds(q, t, c)
                                        \/ q = r /\ t = t0 /\ c = c0
    PROVE  HeldUnproved' /\ HeldByOne'
BY DEF HeldUnproved, HeldByOne, LedgerGrows

(* A request hands its tap to a session.                                   *)
LEMMA IssuedHeld ==
    ASSUME HeldUnproved, HeldByOne, ledger' = ledger, proofs' = proofs,
           NEW r \in Requests, NEW s0 \in Sessions, NEW t0 \in Tags, NEW c0 \in Counters,
           RequestHolds(r, t0, c0),
           \A t \in Tags, c \in Counters : ~RequestHolds(r, t, c)',
           \A s \in Sessions, t \in Tags, c \in Counters :
              SessionHolds(s, t, c)' => \/ SessionHolds(s, t, c)
                                        \/ s = s0 /\ t = t0 /\ c = c0,
           \A q \in Requests, t \in Tags, c \in Counters :
              RequestHolds(q, t, c)' => RequestHolds(q, t, c)
    PROVE  HeldUnproved' /\ HeldByOne'
BY DEF HeldUnproved, HeldByOne

(* A claim takes the tap of the session it consumes.                       *)
LEMMA ConsumedHeld ==
    ASSUME HeldUnproved, HeldByOne, ledger' = ledger, proofs' = proofs,
           NEW r \in Requests, NEW s0 \in Sessions, NEW t0 \in Tags, NEW c0 \in Counters,
           SessionHolds(s0, t0, c0),
           \A t \in Tags, c \in Counters : ~SessionHolds(s0, t, c)',
           \A s \in Sessions, t \in Tags, c \in Counters :
              SessionHolds(s, t, c)' => SessionHolds(s, t, c),
           \A q \in Requests, t \in Tags, c \in Counters :
              RequestHolds(q, t, c)' => \/ RequestHolds(q, t, c)
                                        \/ q = r /\ t = t0 /\ c = c0
    PROVE  HeldUnproved' /\ HeldByOne'
BY DEF HeldUnproved, HeldByOne

(* A tap nobody holds any more proves possession for the first time.       *)
LEMMA ProvedHeld ==
    ASSUME HeldUnproved, HeldByOne, HoldNoMore, LedgerGrows,
           NEW t0 \in Tags, NEW P \in SUBSET Counters,
           \A c \in P : /\ \A s \in Sessions : ~SessionHolds(s, t0, c)'
                        /\ \A q \in Requests : ~RequestHolds(q, t0, c)',
           \A t \in Tags, c \in Counters :
              t # t0 \/ c \notin P => proofs'[t][c] = proofs[t][c]
    PROVE  HeldUnproved' /\ HeldByOne'
BY DEF HeldUnproved, HeldByOne, HoldNoMore, LedgerGrows

-----------------------------------------------------------------------------
(* What a request step does to its own slot.                               *)

LEMMA BeginSlot ==
    ASSUME TypeOK, ChipsNamed, NEW r \in Requests,
           NEW pc \in {"burn_tap", "load_claim", "claim_raw", "consume", "burn_raw"},
           NEW t \in Tags, NEW c \in Counters, NEW latest \in Counters,
           Begin(r, pc, t, c, latest)
    PROVE  /\ requests' \in [Requests -> RequestSlot]
           /\ \A q \in Requests : requests'[q].pc # "idle" => requests'[q].tag \in Tags
           /\ \A q \in Requests : q # r => requests'[q] = requests[q]
           /\ requests'[r].pc = pc /\ requests'[r].tag = t /\ requests'[r].counter = c
<1> DEFINE slot == [pc |-> pc, tag |-> t, counter |-> c, latest |-> latest]
<1>1. slot \in RequestSlot /\ slot.pc = pc /\ slot.tag = t /\ slot.counter = c
  BY DEF RequestSlot
<1>2. requests' = [requests EXCEPT ![r] = slot]
  BY DEF Begin
<1> HIDE DEF slot
<1>. QED
  BY <1>1, <1>2 DEF TypeOK, ChipsNamed

LEMMA FinishSlot ==
    ASSUME TypeOK, ChipsNamed, NEW r \in Requests, Finish(r)
    PROVE  /\ requests' \in [Requests -> RequestSlot]
           /\ \A q \in Requests : requests'[q].pc # "idle" => requests'[q].tag \in Tags
           /\ \A q \in Requests : q # r => requests'[q] = requests[q]
           /\ requests'[r].pc = "idle"
<1>1. IdleRequest \in RequestSlot /\ IdleRequest.pc = "idle"
  BY CountersNat DEF IdleRequest, RequestSlot
<1>. QED
  BY <1>1 DEF Finish, TypeOK, ChipsNamed

LEMMA GotoSlot ==
    ASSUME TypeOK, ChipsNamed, NEW r \in Requests, requests[r].pc # "idle",
           NEW pc \in {"issue", "claim_session"},
           requests' = [requests EXCEPT ![r].pc = pc]
    PROVE  /\ requests' \in [Requests -> RequestSlot]
           /\ \A q \in Requests : requests'[q].pc # "idle" => requests'[q].tag \in Tags
           /\ \A q \in Requests : q # r => requests'[q] = requests[q]
           /\ requests'[r].pc = pc
           /\ requests'[r].tag = requests[r].tag
           /\ requests'[r].counter = requests[r].counter
<1>1. requests[r] \in RequestSlot
  BY DEF TypeOK
<1>. QED
  BY <1>1 DEF RequestSlot, TypeOK, ChipsNamed

(* A slot that is idle, or about to burn, holds nothing.                   *)
LEMMA OthersHold ==
    ASSUME NEW r \in Requests,
           \A q \in Requests : q # r => requests'[q] = requests[q],
           requests'[r].pc \notin {"issue", "load_claim", "claim_session"}
    PROVE  \A q \in Requests, t \in Tags, c \in Counters :
              RequestHolds(q, t, c)' => q # r /\ RequestHolds(q, t, c)
BY DEF RequestHolds

(* What a burn means for a chip and a counter the row had not yet reached. *)
LEMMA BurnFacts ==
    ASSUME IInv, NEW t \in Tags, NEW c \in Counters, Burn(t, c)
    PROVE  /\ sun_counter' \in [Tags -> Counters]
           /\ ledger' \in [Tags -> SUBSET Counters]
           /\ LedgerBounded'
           /\ LedgerGrows
           /\ c \in ledger'[t] /\ c \notin ledger[t]
           /\ proofs[t][c] = 0
           /\ \A s \in Sessions : ~SessionHolds(s, t, c)
           /\ \A q \in Requests : ~RequestHolds(q, t, c)
<1>1. /\ sun_counter' = [sun_counter EXCEPT ![t] = c]
      /\ ledger' = [ledger EXCEPT ![t] = @ \cup {c}]
      /\ sun_counter[t] < c
  BY DEF Burn
<1>2. sun_counter \in [Tags -> Counters] /\ ledger \in [Tags -> SUBSET Counters]
  BY DEF IInv, TypeOK
<1> sun_counter[t] \in Nat /\ c \in Nat
  BY <1>2, CountersNat
<1>3. LedgerGrows
  BY <1>1, <1>2 DEF LedgerGrows
<1>4. c \notin ledger[t]
  BY <1>1 DEF IInv, LedgerBounded
<1>5. proofs[t][c] = 0
  BY <1>4 DEF IInv, ProvedInLedger, TypeOK
<1>6. LedgerBounded'
  <2> SUFFICES ASSUME NEW u \in Tags, NEW d \in ledger'[u] PROVE d <= sun_counter'[u]
    BY DEF LedgerBounded
  <2>1. CASE u = t
    <3>1. d = c \/ d \in ledger[t]
      BY <1>1, <1>2, <2>1
    <3>2. d = c \/ d <= sun_counter[t]
      BY <3>1 DEF IInv, LedgerBounded
    <3>. QED
      <4>1. d \in Nat
        BY <1>2, <3>1, CountersNat
      <4>2. sun_counter'[t] = c
        BY <1>1, <1>2
      <4>. QED
        BY <1>1, <2>1, <3>2, <4>1, <4>2
  <2>2. CASE u # t
    BY <1>1, <1>2, <2>2 DEF IInv, LedgerBounded
  <2>. QED
    BY <2>1, <2>2
<1>7. /\ \A s \in Sessions : ~SessionHolds(s, t, c)
      /\ \A q \in Requests : ~RequestHolds(q, t, c)
  BY <1>4 DEF IInv, HeldUnproved
<1>. QED
  BY <1>1, <1>2, <1>3, <1>4, <1>5, <1>6, <1>7

(* What a first proof by the counters P of one chip means.                 *)
LEMMA ProofFacts ==
    ASSUME IInv, LedgerGrows, NEW t \in Tags, NEW P \in SUBSET Counters,
           \A c \in P : proofs[t][c] = 0 /\ c \in ledger'[t],
           Proves(t, P)
    PROVE  /\ proofs' \in [Tags -> [Counters -> Nat]]
           /\ ProvedInLedger' /\ ReadProvesOnce'
           /\ \A u \in Tags, c \in Counters :
                 u # t \/ c \notin P => proofs'[u][c] = proofs[u][c]
<1>1. proofs \in [Tags -> [Counters -> Nat]]
  BY DEF IInv, TypeOK
<1>2. proofs' \in [Tags -> [Counters -> Nat]]
  BY <1>1 DEF Proves
<1>3. \A c \in P : proofs'[t][c] = 1
  BY <1>1 DEF Proves
<1>4. \A u \in Tags, c \in Counters :
         u # t \/ c \notin P => proofs'[u][c] = proofs[u][c]
  BY <1>1 DEF Proves
<1>5. ReadProvesOnce'
  BY <1>3, <1>4 DEF IInv, ReadProvesOnce
<1>6. ProvedInLedger'
  BY <1>3, <1>4 DEF IInv, ProvedInLedger, LedgerGrows
<1>. QED
  BY <1>2, <1>4, <1>5, <1>6

-----------------------------------------------------------------------------
(* The invariant is inductive: steps that burn and prove nothing.          *)

(* What such a step leaves to show.                                        *)
LEMMA QuietStep ==
    ASSUME IInv, UNCHANGED <<sun_counter, ledger, proofs>>, TypeOK', ChipsNamed',
           HeldUnproved', HeldByOne'
    PROVE  IInv'
BY DEF IInv, LedgerBounded, ProvedInLedger, ReadProvesOnce

LEMMA ReadChipIInv ==
    ASSUME IInv, NEW t \in Tags, ReadChip(t)
    PROVE  IInv'
<1>1. TypeOK /\ ChipsNamed /\ HeldUnproved /\ HeldByOne
  BY DEF IInv
<1>2. reads' \in [Tags -> Counters]
  <2>1. reads[t] \in Nat /\ reads[t] + 1 \in Counters
    BY <1>1, ReadsAssumption DEF TypeOK, Counters, ReadChip
  <2>. QED
    BY <1>1, <2>1 DEF TypeOK, ReadChip
<1>3. TypeOK' /\ ChipsNamed'
  BY <1>1, <1>2 DEF ReadChip, TypeOK, ChipsNamed
<1>4. HeldUnproved' /\ HeldByOne'
  BY <1>1 DEF ReadChip, HeldUnproved, HeldByOne, SessionHolds, RequestHolds
<1>. QED
  BY <1>3, <1>4, QuietStep DEF ReadChip

LEMMA ExpireIInv ==
    ASSUME IInv, NEW s \in Sessions, ExpireSession(s)
    PROVE  IInv'
<1>1. TypeOK /\ ChipsNamed /\ HeldUnproved /\ HeldByOne
  BY DEF IInv
<1>2. /\ sessions' \in [Sessions -> Session]
      /\ sessions'[s].state = "expired"
      /\ \A q \in Sessions : q # s => sessions'[q] = sessions[q]
  BY <1>1 DEF ExpireSession, TypeOK, Session
<1>3. TypeOK' /\ ChipsNamed'
  BY <1>1, <1>2 DEF ExpireSession, TypeOK, ChipsNamed, chip
<1>4. HoldNoMore
  BY <1>2 DEF ExpireSession, HoldNoMore, SessionHolds, RequestHolds
<1>5. HeldUnproved' /\ HeldByOne'
  BY <1>1, <1>4, QuietHeld DEF ExpireSession, LedgerGrows, chip
<1>. QED
  BY <1>3, <1>5, QuietStep DEF ExpireSession, chip

(* Requests that begin with a read of the row.                             *)
LEMMA BeginIInv ==
    ASSUME IInv, NEW r \in Requests, NEW t \in Tags, NEW c \in Counters,
           NEW latest \in Counters,
           NEW pc \in {"burn_tap", "claim_raw", "consume", "burn_raw"},
           Begin(r, pc, t, c, latest), UNCHANGED <<chip, sessions, proofs>>
    PROVE  IInv'
<1>1. TypeOK /\ ChipsNamed /\ HeldUnproved /\ HeldByOne
  BY DEF IInv
<1>2. /\ requests' \in [Requests -> RequestSlot]
      /\ \A q \in Requests : requests'[q].pc # "idle" => requests'[q].tag \in Tags
      /\ \A q \in Requests : q # r => requests'[q] = requests[q]
      /\ requests'[r].pc = pc
  BY <1>1, BeginSlot
<1>3. TypeOK' /\ ChipsNamed'
  BY <1>1, <1>2 DEF TypeOK, ChipsNamed, chip
<1>4. HoldNoMore
  BY <1>2, OthersHold DEF HoldNoMore, SessionHolds
<1>5. HeldUnproved' /\ HeldByOne'
  BY <1>1, <1>4, QuietHeld DEF LedgerGrows, chip
<1>. QED
  BY <1>3, <1>5, QuietStep DEF chip

LEMMA AbortIInv ==
    ASSUME IInv, NEW r \in Requests, AbortRequest(r)
    PROVE  IInv'
<1>1. TypeOK /\ ChipsNamed /\ HeldUnproved /\ HeldByOne
  BY DEF IInv
<1>2. Finish(r) /\ UNCHANGED <<chip, sessions, proofs>>
  BY DEF AbortRequest
<1>3. /\ requests' \in [Requests -> RequestSlot]
      /\ \A q \in Requests : requests'[q].pc # "idle" => requests'[q].tag \in Tags
      /\ \A q \in Requests : q # r => requests'[q] = requests[q]
      /\ requests'[r].pc = "idle"
  BY <1>1, <1>2, FinishSlot
<1>4. TypeOK' /\ ChipsNamed'
  BY <1>1, <1>2, <1>3 DEF TypeOK, ChipsNamed, chip
<1>5. HoldNoMore
  BY <1>2, <1>3, OthersHold DEF HoldNoMore, SessionHolds
<1>6. HeldUnproved' /\ HeldByOne'
  BY <1>1, <1>2, <1>5, QuietHeld DEF LedgerGrows, chip
<1>. QED
  BY <1>2, <1>4, <1>6, QuietStep DEF chip

LEMMA ClaimLoadsIInv ==
    ASSUME IInv, NEW r \in Requests, ClaimLoads(r)
    PROVE  IInv'
<1>1. TypeOK /\ ChipsNamed /\ HeldUnproved /\ HeldByOne
  BY DEF IInv
<1>2. /\ requests[r].pc = "load_claim"
      /\ requests' = [requests EXCEPT ![r].pc = "claim_session"]
      /\ UNCHANGED <<chip, sessions, proofs>>
  BY DEF ClaimLoads
<1>3. /\ requests' \in [Requests -> RequestSlot]
      /\ \A q \in Requests : requests'[q].pc # "idle" => requests'[q].tag \in Tags
      /\ \A q \in Requests : q # r => requests'[q] = requests[q]
      /\ requests'[r].tag = requests[r].tag
      /\ requests'[r].counter = requests[r].counter
  BY <1>1, <1>2, GotoSlot
<1>4. TypeOK' /\ ChipsNamed'
  BY <1>1, <1>2, <1>3 DEF TypeOK, ChipsNamed, chip
<1>5. HoldNoMore
  BY <1>2, <1>3 DEF HoldNoMore, SessionHolds, RequestHolds
<1>6. HeldUnproved' /\ HeldByOne'
  BY <1>1, <1>2, <1>5, QuietHeld DEF LedgerGrows, chip
<1>. QED
  BY <1>2, <1>4, <1>6, QuietStep DEF chip

LEMMA TapIssuesIInv ==
    ASSUME IInv, NEW r \in Requests, NEW s \in Sessions, TapIssues(r, s)
    PROVE  IInv'
<1> DEFINE t == requests[r].tag
           c == requests[r].counter
<1>1. TypeOK /\ ChipsNamed /\ HeldUnproved /\ HeldByOne
  BY DEF IInv
<1>2. /\ requests[r].pc = "issue"
      /\ sessions' = [sessions EXCEPT ![s] = [state |-> "live", tag |-> t, counter |-> c]]
      /\ Finish(r)
      /\ UNCHANGED <<chip, proofs>>
  BY DEF TapIssues
<1>3. t \in Tags /\ c \in Counters
  BY <1>1, <1>2 DEF TypeOK, ChipsNamed, RequestSlot
<1>4. RequestHolds(r, t, c)
  BY <1>2 DEF RequestHolds
<1>5. /\ requests' \in [Requests -> RequestSlot]
      /\ \A q \in Requests : requests'[q].pc # "idle" => requests'[q].tag \in Tags
      /\ \A q \in Requests : q # r => requests'[q] = requests[q]
      /\ requests'[r].pc = "idle"
  BY <1>1, <1>2, FinishSlot
<1> HIDE DEF t, c
<1>6. /\ sessions' \in [Sessions -> Session]
      /\ \A q \in Sessions : q # s => sessions'[q] = sessions[q]
      /\ sessions'[s].tag = t /\ sessions'[s].counter = c
  BY <1>1, <1>2, <1>3 DEF TypeOK, Session
<1>7. TypeOK' /\ ChipsNamed'
  BY <1>1, <1>2, <1>3, <1>5, <1>6 DEF TypeOK, ChipsNamed, chip
<1>8. \A q \in Sessions, u \in Tags, d \in Counters :
         SessionHolds(q, u, d)' => \/ SessionHolds(q, u, d)
                                   \/ q = s /\ u = t /\ d = c
  BY <1>6 DEF SessionHolds
<1>9. /\ \A q \in Requests, u \in Tags, d \in Counters :
            RequestHolds(q, u, d)' => RequestHolds(q, u, d)
      /\ \A u \in Tags, d \in Counters : ~RequestHolds(r, u, d)'
  BY <1>5, OthersHold
<1>10. HeldUnproved' /\ HeldByOne'
  BY <1>1, <1>2, <1>3, <1>4, <1>8, <1>9, IssuedHeld DEF chip
<1>. QED
  BY <1>2, <1>7, <1>10, QuietStep DEF chip

LEMMA ClaimConsumesIInv ==
    ASSUME IInv, NEW r \in Requests, NEW s \in Sessions, ClaimConsumes(r, s)
    PROVE  IInv'
<1> DEFINE t == sessions[s].tag
           c == sessions[s].counter
<1>1. TypeOK /\ ChipsNamed /\ HeldUnproved /\ HeldByOne
  BY DEF IInv
<1>2. /\ sessions[s].state = "live"
      /\ sessions' = [sessions EXCEPT ![s].state = "consumed"]
      /\ Begin(r, "load_claim", t, c, 0)
      /\ UNCHANGED <<chip, proofs>>
  BY DEF ClaimConsumes, Consume
<1>3. t \in Tags /\ c \in Counters /\ 0 \in Counters
  BY <1>1, <1>2, CountersNat DEF TypeOK, ChipsNamed, Session
<1>4. SessionHolds(s, t, c)
  BY <1>2 DEF SessionHolds
<1> HIDE DEF t, c
<1>5. /\ requests' \in [Requests -> RequestSlot]
      /\ \A q \in Requests : requests'[q].pc # "idle" => requests'[q].tag \in Tags
      /\ \A q \in Requests : q # r => requests'[q] = requests[q]
      /\ requests'[r].tag = t /\ requests'[r].counter = c
  BY <1>1, <1>2, <1>3, BeginSlot
<1>6. /\ sessions' \in [Sessions -> Session]
      /\ \A q \in Sessions : q # s => sessions'[q] = sessions[q]
      /\ sessions'[s].state = "consumed"
  BY <1>1, <1>2 DEF TypeOK, Session
<1>7. TypeOK' /\ ChipsNamed'
  BY <1>1, <1>2, <1>5, <1>6 DEF TypeOK, ChipsNamed, chip
<1>8. /\ \A q \in Sessions, u \in Tags, d \in Counters :
            SessionHolds(q, u, d)' => SessionHolds(q, u, d)
      /\ \A u \in Tags, d \in Counters : ~SessionHolds(s, u, d)'
  BY <1>6 DEF SessionHolds
<1>9. \A q \in Requests, u \in Tags, d \in Counters :
         RequestHolds(q, u, d)' => \/ RequestHolds(q, u, d)
                                   \/ q = r /\ u = t /\ d = c
  BY <1>5 DEF RequestHolds
<1>10. HeldUnproved' /\ HeldByOne'
  BY <1>1, <1>2, <1>3, <1>4, <1>8, <1>9, ConsumedHeld DEF chip
<1>. QED
  BY <1>2, <1>7, <1>10, QuietStep DEF chip

-----------------------------------------------------------------------------
(* Steps that burn a tap or prove possession.                              *)

LEMMA TapBurnsIInv ==
    ASSUME IInv, NEW r \in Requests, TapBurns(r)
    PROVE  IInv'
<1> DEFINE t == requests[r].tag
           c == requests[r].counter
<1>1. TypeOK /\ ChipsNamed /\ HeldUnproved /\ HeldByOne
  BY DEF IInv
<1>2. /\ requests[r].pc = "burn_tap"
      /\ Burn(t, c)
      /\ requests' = [requests EXCEPT ![r].pc = "issue"]
      /\ UNCHANGED <<reads, status, baseline, seals, sessions, proofs>>
  BY DEF TapBurns
<1>3. t \in Tags /\ c \in Counters
  BY <1>1, <1>2 DEF TypeOK, ChipsNamed, RequestSlot
<1>4. /\ requests' \in [Requests -> RequestSlot]
      /\ \A q \in Requests : requests'[q].pc # "idle" => requests'[q].tag \in Tags
      /\ \A q \in Requests : q # r => requests'[q] = requests[q]
      /\ requests'[r].tag = t /\ requests'[r].counter = c
  BY <1>1, <1>2, GotoSlot
<1> HIDE DEF t, c
<1>5. /\ sun_counter' \in [Tags -> Counters]
      /\ ledger' \in [Tags -> SUBSET Counters]
      /\ LedgerBounded'
      /\ LedgerGrows
      /\ c \in ledger'[t] /\ proofs[t][c] = 0
      /\ \A s \in Sessions : ~SessionHolds(s, t, c)
      /\ \A q \in Requests : ~RequestHolds(q, t, c)
  BY <1>2, <1>3, BurnFacts
<1>6. TypeOK' /\ ChipsNamed'
  BY <1>1, <1>2, <1>4, <1>5 DEF TypeOK, ChipsNamed
<1>7. ProvedInLedger' /\ ReadProvesOnce'
  BY <1>2, <1>5 DEF IInv, ProvedInLedger, ReadProvesOnce, LedgerGrows
<1>8. /\ \A q \in Sessions, u \in Tags, d \in Counters :
            SessionHolds(q, u, d)' => SessionHolds(q, u, d)
      /\ \A q \in Requests, u \in Tags, d \in Counters :
            RequestHolds(q, u, d)' => \/ RequestHolds(q, u, d)
                                      \/ q = r /\ u = t /\ d = c
  BY <1>2, <1>4 DEF SessionHolds, RequestHolds
<1>9. HeldUnproved' /\ HeldByOne'
  BY <1>1, <1>2, <1>3, <1>5, <1>8, TakenHeld
<1>. QED
  BY <1>5, <1>6, <1>7, <1>9 DEF IInv

(* A claim, by the session's tap or by burning a message.                  *)
LEMMA ClaimUpdatesIInv ==
    ASSUME IInv, NEW r \in Requests, ClaimUpdates(r)
    PROVE  IInv'
<1>1. TypeOK /\ ChipsNamed /\ HeldUnproved /\ HeldByOne /\ LedgerBounded
  BY DEF IInv
<1>2. requests[r].tag \in Tags /\ requests[r].counter \in Counters
  BY <1>1 DEF ClaimUpdates, TypeOK, ChipsNamed, RequestSlot
<1>3. PICK t \in Tags, c \in Counters : t = requests[r].tag /\ c = requests[r].counter
  BY <1>2
<1>4. /\ \/ /\ requests[r].pc = "claim_session"
            /\ UNCHANGED <<sun_counter, ledger>>
         \/ requests[r].pc = "claim_raw" /\ Burn(t, c)
      /\ status' = [status EXCEPT ![t] = "ACTIVE"]
      /\ Proves(t, {c}) /\ Finish(r)
      /\ UNCHANGED <<reads, baseline, seals, sessions>>
  BY <1>3 DEF ClaimUpdates
<1>5. /\ requests' \in [Requests -> RequestSlot]
      /\ \A q \in Requests : requests'[q].pc # "idle" => requests'[q].tag \in Tags
      /\ \A q \in Requests : q # r => requests'[q] = requests[q]
      /\ requests'[r].pc = "idle"
  BY <1>1, <1>4, FinishSlot
<1>6. requests[r].pc = "claim_session" => RequestHolds(r, t, c)
  BY <1>3 DEF RequestHolds
<1>7. HoldNoMore /\ \A u \in Tags, d \in Counters : ~RequestHolds(r, u, d)'
  BY <1>4, <1>5, OthersHold DEF HoldNoMore, SessionHolds
<1>8. /\ sun_counter' \in [Tags -> Counters]
      /\ ledger' \in [Tags -> SUBSET Counters]
      /\ LedgerBounded' /\ LedgerGrows
      /\ c \in ledger'[t] /\ proofs[t][c] = 0
      /\ \A s \in Sessions : ~SessionHolds(s, t, c)
      /\ \A q \in Requests : q # r => ~RequestHolds(q, t, c)
  <2>1. CASE requests[r].pc = "claim_session"
    <3>1. UNCHANGED <<sun_counter, ledger>>
      BY <1>4, <2>1
    <3>2. RequestHolds(r, t, c)
      BY <1>6, <2>1
    <3>3. sun_counter' \in [Tags -> Counters] /\ ledger' \in [Tags -> SUBSET Counters]
      BY <1>1, <3>1 DEF TypeOK
    <3>4. LedgerBounded' /\ LedgerGrows
      BY <1>1, <3>1 DEF LedgerBounded, LedgerGrows
    <3>5. /\ c \in ledger'[t] /\ proofs[t][c] = 0
          /\ \A s \in Sessions : ~SessionHolds(s, t, c)
          /\ \A q \in Requests : q # r => ~RequestHolds(q, t, c)
      BY <1>1, <3>1, <3>2 DEF HeldUnproved, HeldByOne
    <3>. QED
      BY <3>3, <3>4, <3>5
  <2>2. CASE Burn(t, c)
    BY <2>2, BurnFacts
  <2>. QED
    BY <1>4, <2>1, <2>2
<1>9. /\ proofs' \in [Tags -> [Counters -> Nat]]
      /\ ProvedInLedger' /\ ReadProvesOnce'
      /\ \A u \in Tags, d \in Counters : u # t \/ d \notin {c} => proofs'[u][d] = proofs[u][d]
  <2>1. {c} \in SUBSET Counters /\ \A d \in {c} : proofs[t][d] = 0 /\ d \in ledger'[t]
    BY <1>8
  <2>. QED
    BY <1>4, <1>8, <2>1, ProofFacts
<1>10. TypeOK' /\ ChipsNamed'
  BY <1>1, <1>4, <1>5, <1>8, <1>9 DEF TypeOK, ChipsNamed
<1>11. HeldUnproved' /\ HeldByOne'
  <2>1. \A d \in {c} : /\ \A s \in Sessions : ~SessionHolds(s, t, d)'
                       /\ \A q \in Requests : ~RequestHolds(q, t, d)'
    BY <1>7, <1>8 DEF HoldNoMore
  <2>2. {c} \in SUBSET Counters
    OBVIOUS
  <2>. QED
    BY <1>1, <1>7, <1>8, <1>9, <2>1, <2>2, ProvedHeld
<1>. QED
  BY <1>8, <1>9, <1>10, <1>11 DEF IInv

LEMMA PossessionConsumesIInv ==
    ASSUME IInv, NEW r \in Requests, NEW s \in Sessions, PossessionConsumes(r, s)
    PROVE  IInv'
<1>1. TypeOK /\ ChipsNamed /\ HeldUnproved /\ HeldByOne /\ LedgerBounded
  BY DEF IInv
<1>2. requests[r].tag \in Tags /\ sessions[s].counter \in Counters
  BY <1>1 DEF PossessionConsumes, Consume, TypeOK, ChipsNamed, RequestSlot, Session
<1>3. PICK t \in Tags, c \in Counters : t = requests[r].tag /\ c = sessions[s].counter
  BY <1>2
<1>4. /\ requests[r].pc = "consume"
      /\ sessions[s].state = "live"
      /\ sessions' = [sessions EXCEPT ![s].state = "consumed"]
      /\ (sessions[s].tag = t /\ Proves(t, {c})) \/ UNCHANGED proofs
      /\ Finish(r) /\ UNCHANGED chip
  BY <1>3 DEF PossessionConsumes, Consume
<1>5. sessions[s].tag = t => SessionHolds(s, t, c)
  BY <1>4, <1>3 DEF SessionHolds
<1>6. /\ requests' \in [Requests -> RequestSlot]
      /\ \A q \in Requests : requests'[q].pc # "idle" => requests'[q].tag \in Tags
      /\ \A q \in Requests : q # r => requests'[q] = requests[q]
      /\ requests'[r].pc = "idle"
  BY <1>1, <1>4, FinishSlot
<1>7. /\ sessions' \in [Sessions -> Session]
      /\ \A q \in Sessions : q # s => sessions'[q] = sessions[q]
      /\ sessions'[s].state = "consumed"
  BY <1>1, <1>4 DEF TypeOK, Session
<1>8. HoldNoMore /\ \A u \in Tags, d \in Counters : ~SessionHolds(s, u, d)'
  BY <1>6, <1>7, OthersHold DEF HoldNoMore, SessionHolds
<1>9. LedgerGrows /\ LedgerBounded'
  BY <1>1, <1>4 DEF LedgerGrows, LedgerBounded, chip
<1>10. CASE UNCHANGED proofs
  <2>1. TypeOK' /\ ChipsNamed'
    BY <1>1, <1>4, <1>6, <1>7, <1>10 DEF TypeOK, ChipsNamed, chip
  <2>2. HeldUnproved' /\ HeldByOne'
    BY <1>1, <1>8, <1>9, <1>10, QuietHeld
  <2>. QED
    BY <1>4, <1>10, <2>1, <2>2, QuietStep DEF chip
<1>11. CASE sessions[s].tag = t /\ Proves(t, {c})
  <2>1. {c} \in SUBSET Counters /\ \A d \in {c} : proofs[t][d] = 0 /\ d \in ledger'[t]
    BY <1>1, <1>4, <1>5, <1>11 DEF HeldUnproved, chip
  <2>2. /\ proofs' \in [Tags -> [Counters -> Nat]]
        /\ ProvedInLedger' /\ ReadProvesOnce'
        /\ \A u \in Tags, d \in Counters :
              u # t \/ d \notin {c} => proofs'[u][d] = proofs[u][d]
    BY <1>9, <1>11, <2>1, ProofFacts
  <2>3. TypeOK' /\ ChipsNamed'
    BY <1>1, <1>4, <1>6, <1>7, <2>2 DEF TypeOK, ChipsNamed, chip
  <2>4. \A d \in {c} : /\ \A q \in Sessions : ~SessionHolds(q, t, d)'
                       /\ \A q \in Requests : ~RequestHolds(q, t, d)'
    BY <1>1, <1>5, <1>8, <1>11 DEF HoldNoMore, HeldByOne
  <2>5. HeldUnproved' /\ HeldByOne'
    BY <1>1, <1>8, <1>9, <2>1, <2>2, <2>4, ProvedHeld
  <2>. QED
    BY <1>9, <2>2, <2>3, <2>5 DEF IInv
<1>. QED
  BY <1>4, <1>10, <1>11

LEMMA PossessionBurnsIInv ==
    ASSUME IInv, NEW r \in Requests, PossessionBurns(r)
    PROVE  IInv'
<1>1. TypeOK /\ ChipsNamed /\ HeldUnproved /\ HeldByOne
  BY DEF IInv
<1>2. requests[r].tag \in Tags /\ requests[r].counter \in Counters
  BY <1>1 DEF PossessionBurns, TypeOK, ChipsNamed, RequestSlot
<1>3. PICK t \in Tags, c \in Counters : t = requests[r].tag /\ c = requests[r].counter
  BY <1>2
<1>4. /\ requests[r].pc = "burn_raw"
      /\ Burn(t, c) /\ Proves(t, {c}) /\ Finish(r)
      /\ UNCHANGED <<reads, status, baseline, seals, sessions>>
  BY <1>3 DEF PossessionBurns
<1>5. {c} \in SUBSET Counters
  OBVIOUS
<1>6. /\ requests' \in [Requests -> RequestSlot]
      /\ \A q \in Requests : requests'[q].pc # "idle" => requests'[q].tag \in Tags
      /\ \A q \in Requests : q # r => requests'[q] = requests[q]
      /\ requests'[r].pc = "idle"
  BY <1>1, <1>4, FinishSlot
<1>7. HoldNoMore
  BY <1>4, <1>6, OthersHold DEF HoldNoMore, SessionHolds
<1>8. /\ sun_counter' \in [Tags -> Counters]
      /\ ledger' \in [Tags -> SUBSET Counters]
      /\ LedgerBounded' /\ LedgerGrows
      /\ c \in ledger'[t] /\ proofs[t][c] = 0
      /\ \A s \in Sessions : ~SessionHolds(s, t, c)
      /\ \A q \in Requests : ~RequestHolds(q, t, c)
  BY <1>4, <1>5, BurnFacts
<1>9. \A d \in {c} : proofs[t][d] = 0 /\ d \in ledger'[t]
  BY <1>8
<1>10. /\ proofs' \in [Tags -> [Counters -> Nat]]
      /\ ProvedInLedger' /\ ReadProvesOnce'
      /\ \A u \in Tags, d \in Counters : u # t \/ d \notin {c} => proofs'[u][d] = proofs[u][d]
  BY <1>4, <1>5, <1>8, <1>9, ProofFacts
<1>11. TypeOK' /\ ChipsNamed'
  BY <1>1, <1>4, <1>6, <1>8, <1>10 DEF TypeOK, ChipsNamed
<1>12. \A d \in {c} : /\ \A s \in Sessions : ~SessionHolds(s, t, d)'
                      /\ \A q \in Requests : ~RequestHolds(q, t, d)'
  BY <1>5, <1>7, <1>8 DEF HoldNoMore
<1>13. HeldUnproved' /\ HeldByOne'
  BY <1>1, <1>5, <1>7, <1>8, <1>10, <1>12, ProvedHeld
<1>. QED
  BY <1>8, <1>10, <1>11, <1>13 DEF IInv

(* A seal spends two counters at once, and they may be older than the row's. *)
LEMMA SealIInv ==
    ASSUME IInv, NEW t \in Tags, NEW c \in Counters, commit_seal(t, c)
    PROVE  IInv'
<1> DEFINE P == {c, c + 1}
<1>1. TypeOK /\ ChipsNamed /\ HeldUnproved /\ HeldByOne /\ LedgerBounded
  BY DEF IInv
<1>2. /\ c + 1 <= reads[t]
      /\ ledger[t] \cap P = {}
      /\ ledger' = [ledger EXCEPT ![t] = @ \cup P]
      /\ seals' = seals \cup {t}
      /\ status' = [status EXCEPT ![t] = "ACTIVE"]
      /\ sun_counter' = [sun_counter EXCEPT ![t] = IF @ > c + 1 THEN @ ELSE c + 1]
      /\ Proves(t, P)
      /\ UNCHANGED <<reads, baseline, sessions, requests>>
  BY DEF commit_seal
<1>3. c \in Nat /\ c + 1 \in Counters /\ c + 1 # c /\ P \in SUBSET Counters
  BY <1>1, <1>2, ReadsAssumption DEF TypeOK, Counters
<1>4. \A d \in P : d \notin ledger[t]
  BY <1>2
<1>5. LedgerGrows /\ ledger' \in [Tags -> SUBSET Counters] /\ \A d \in P : d \in ledger'[t]
  BY <1>1, <1>2, <1>3 DEF TypeOK, LedgerGrows
<1>6. /\ sun_counter' \in [Tags -> Counters]
      /\ \A u \in Tags : u # t => sun_counter'[u] = sun_counter[u]
      /\ sun_counter'[t] >= sun_counter[t] /\ sun_counter'[t] >= c + 1
  <2>1. sun_counter \in [Tags -> Counters] /\ sun_counter[t] \in Nat
    BY <1>1, CountersNat DEF TypeOK
  <2>2. CASE sun_counter[t] > c + 1
    BY <1>2, <1>3, <2>1, <2>2
  <2>3. CASE ~(sun_counter[t] > c + 1)
    BY <1>2, <1>3, <2>1, <2>3
  <2>. QED
    BY <2>2, <2>3
<1>7. LedgerBounded'
  <2> SUFFICES ASSUME NEW u \in Tags, NEW d \in ledger'[u] PROVE d <= sun_counter'[u]
    BY DEF LedgerBounded
  <2>1. CASE u = t
    <3>1. d \in Counters /\ (d \in ledger[t] \/ d = c \/ d = c + 1)
      BY <1>1, <1>2, <1>5, <2>1 DEF TypeOK
    <3>2. d \in Nat /\ sun_counter[t] \in Nat /\ sun_counter'[t] \in Nat
      BY <1>1, <1>6, <3>1, CountersNat DEF TypeOK
    <3>3. d <= sun_counter[t] \/ d = c \/ d = c + 1
      BY <1>1, <3>1 DEF LedgerBounded
    <3>. QED
      BY <1>3, <1>6, <2>1, <3>2, <3>3
  <2>2. CASE u # t
    <3>1. d \in ledger[u]
      BY <1>1, <1>2, <2>2 DEF TypeOK
    <3>. QED
      BY <1>1, <1>6, <2>2, <3>1 DEF LedgerBounded
  <2>. QED
    BY <2>1, <2>2
<1>8. \A d \in P : /\ proofs[t][d] = 0
                   /\ \A s \in Sessions : ~SessionHolds(s, t, d)
                   /\ \A q \in Requests : ~RequestHolds(q, t, d)
  BY <1>1, <1>3, <1>4 DEF IInv, ProvedInLedger, HeldUnproved, TypeOK
<1> HIDE DEF P
<1>9. /\ proofs' \in [Tags -> [Counters -> Nat]]
       /\ ProvedInLedger' /\ ReadProvesOnce'
       /\ \A u \in Tags, d \in Counters : u # t \/ d \notin P => proofs'[u][d] = proofs[u][d]
  BY <1>2, <1>3, <1>5, <1>8, ProofFacts
<1>10. TypeOK' /\ ChipsNamed'
  BY <1>1, <1>2, <1>5, <1>6, <1>9 DEF TypeOK, ChipsNamed
<1>11. HoldNoMore
  BY <1>2 DEF HoldNoMore, SessionHolds, RequestHolds
<1>12. \A d \in P : /\ \A s \in Sessions : ~SessionHolds(s, t, d)'
                    /\ \A q \in Requests : ~RequestHolds(q, t, d)'
  BY <1>3, <1>8, <1>11 DEF HoldNoMore
<1>13. HeldUnproved' /\ HeldByOne'
  BY <1>1, <1>3, <1>5, <1>9, <1>11, <1>12, ProvedHeld, ZenonT(30)
<1>. QED
  BY <1>7, <1>9, <1>10, <1>13 DEF IInv

LEMMA RequestStepIInv ==
    ASSUME IInv, NEW r \in Requests, RequestStep(r)
    PROVE  IInv'
<1>1. ASSUME NEW t \in Tags, NEW c \in Counters,
             TapReads(r, t, c) \/ ClaimReads(r, t, c) \/ PossessionReadsMessage(r, t, c)
      PROVE  IInv'
  BY <1>1, CountersNat, BeginIInv DEF TapReads, ClaimReads, PossessionReadsMessage
<1>2. ASSUME NEW t \in Tags, PossessionReads(r, t) PROVE IInv'
  <2>1. sun_counter[t] \in Counters
    BY DEF IInv, TypeOK
  <2>. QED
    BY <1>2, <2>1, CountersNat, BeginIInv DEF PossessionReads
<1>3. ASSUME NEW s \in Sessions,
             TapIssues(r, s) \/ ClaimConsumes(r, s) \/ PossessionConsumes(r, s)
      PROVE  IInv'
  BY <1>3, TapIssuesIInv, ClaimConsumesIInv, PossessionConsumesIInv
<1>. QED
  BY <1>1, <1>2, <1>3, TapBurnsIInv, ClaimLoadsIInv, ClaimUpdatesIInv,
     PossessionBurnsIInv, AbortIInv DEF RequestStep

LEMMA NextIInv == IInv /\ [Next]_vars => IInv'
<1> SUFFICES ASSUME IInv, [Next]_vars PROVE IInv'
  OBVIOUS
<1>1. CASE Next
  BY <1>1, RequestStepIInv, ReadChipIInv, SealIInv, ExpireIInv DEF Next
<1>2. CASE UNCHANGED vars
  BY <1>2 DEF vars, chip, IInv, TypeOK, ChipsNamed, LedgerBounded, ProvedInLedger,
              ReadProvesOnce, HeldUnproved, HeldByOne, SessionHolds, RequestHolds
<1>. QED
  BY <1>1, <1>2

THEOREM Invariant == Spec => []IInv
BY InitIInv, NextIInv, PTL DEF Spec

-----------------------------------------------------------------------------
(* What it implies.                                                        *)

(* The rows, sessions and requests keep their types.                       *)
THEOREM TapTypeCorrect == Spec => []TypeOK
<1>1. IInv => TypeOK
  BY DEF IInv
<1>. QED
  BY <1>1, Invariant, PTL

(* One read of a chip proves possession at most once: as a session, as a   *)
(* message or as half of a seal.                                           *)
THEOREM ReadIsSpentOnce == Spec => []ReadProvesOnce
<1>1. IInv => ReadProvesOnce
  BY DEF IInv
<1>. QED
  BY <1>1, Invariant, PTL

(* Every counter that proved something or that a live session stands for is*)
(* in nfc_counter_ledger, where commit_seal looks for it.                  *)
THEOREM AcceptedIsInLedger == Spec => []LedgerIsComplete
<1>1. IInv => LedgerIsComplete
  <2> SUFFICES ASSUME IInv PROVE LedgerIsComplete
    OBVIOUS
  <2>1. ASSUME NEW s \in Sessions, sessions[s].state = "live"
        PROVE  sessions[s].counter \in ledger[sessions[s].tag]
    <3>1. sessions[s].tag \in Tags /\ sessions[s].counter \in Counters
      BY <2>1 DEF IInv, TypeOK, ChipsNamed, Session
    <3>2. SessionHolds(s, sessions[s].tag, sessions[s].counter)
      BY <2>1 DEF SessionHolds
    <3>. QED
      BY <3>1, <3>2 DEF IInv, HeldUnproved
  <2>. QED
    BY <2>1 DEF IInv, ProvedInLedger, LedgerIsComplete
<1>. QED
  BY <1>1, Invariant, PTL

-----------------------------------------------------------------------------
(* A chip is activated by a seal or by a claim.                            *)

LEMMA OnlyClaimsActivate ==
    ASSUME IInv, [Next]_vars, status' # status
    PROVE  \/ \E r \in Requests : ClaimUpdates(r)
           \/ \E t \in Tags : t \notin seals /\ seals' = seals \cup {t}
<1>1. ASSUME NEW r \in Requests, RequestStep(r) PROVE ClaimUpdates(r)
  BY <1>1 DEF RequestStep, TapReads, ClaimReads, PossessionReadsMessage, TapIssues,
     ClaimConsumes, PossessionConsumes, PossessionReads, TapBurns, ClaimLoads,
     PossessionBurns, AbortRequest, chip
<1>2. ASSUME NEW t \in Tags, NEW c \in Counters, commit_seal(t, c)
      PROVE  t \notin seals /\ seals' = seals \cup {t}
  BY <1>2 DEF commit_seal
<1>. QED
  BY <1>1, <1>2 DEF Next, ReadChip, ExpireSession, vars, chip

(* A claim, by session or by message, is by the newest tap the server has  *)
(* accepted for the chip, although the session was issued, consumed and    *)
(* checked in earlier calls.                                               *)
THEOREM ClaimsAreByLatestTap == Spec => ClaimIsByLatestTap
<1> DEFINE ByLatest ==
      \A t \in Tags : status'[t] # status[t] /\ seals' = seals =>
          /\ proofs'[t][sun_counter'[t]] > proofs[t][sun_counter'[t]]
          /\ \A c \in ledger[t] : c <= sun_counter'[t]
<1>1. ASSUME IInv, [Next]_vars PROVE [ByLatest]_vars
  <2> SUFFICES ASSUME NEW t \in Tags, status'[t] # status[t], seals' = seals
               PROVE  /\ proofs'[t][sun_counter'[t]] > proofs[t][sun_counter'[t]]
                      /\ \A c \in ledger[t] : c <= sun_counter'[t]
    OBVIOUS
  <2>1. PICK r \in Requests : ClaimUpdates(r)
    BY <1>1, OnlyClaimsActivate
  <2>2. /\ requests[r].tag \in Tags /\ requests[r].counter \in Counters
        /\ status \in [Tags -> {"ENROLLED", "ACTIVE"}]
        /\ sun_counter \in [Tags -> Counters]
        /\ proofs \in [Tags -> [Counters -> Nat]]
    BY <1>1, <2>1 DEF IInv, TypeOK, ChipsNamed, RequestSlot, ClaimUpdates
  <2>3. requests[r].tag = t
    BY <2>1, <2>2 DEF ClaimUpdates
  <2>4. PICK c \in Counters : c = requests[r].counter
    BY <2>2
  <2>5. sun_counter'[t] = c
    BY <2>1, <2>2, <2>3, <2>4 DEF ClaimUpdates, Burn
  <2>6. proofs'[t][c] = proofs[t][c] + 1
    BY <2>1, <2>2, <2>3, <2>4 DEF ClaimUpdates, Proves
  <2>7. sun_counter[t] <= c
    <3>1. sun_counter[t] \in Nat /\ c \in Nat
      BY <2>2, CountersNat
    <3>. QED
      BY <2>1, <2>3, <2>4, <3>1 DEF ClaimUpdates, Burn
  <2>8. \A d \in ledger[t] : d <= c
    <3> SUFFICES ASSUME NEW d \in ledger[t] PROVE d <= c
      OBVIOUS
    <3>1. d \in Nat /\ sun_counter[t] \in Nat /\ c \in Nat /\ d <= sun_counter[t]
      BY <1>1, <2>2, CountersNat DEF IInv, TypeOK, LedgerBounded
    <3>. QED
      BY <2>7, <3>1
  <2>9. proofs[t][c] \in Nat
    BY <2>2
  <2>. QED
    BY <2>5, <2>6, <2>8, <2>9
<1>. QED
  BY <1>1, Invariant, PTL DEF Spec, ClaimIsByLatestTap
=============================================================================
