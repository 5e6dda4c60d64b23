------------------------------ MODULE TapPossession -----------------------------
(***************************************************************************)
(* Proof of possession.  Every read of a chip raises the chip's own counter*)
(* and yields a signed message that carries it.  The backend accepts a     *)
(* message by burning its counter, and hands back a single-use session, or *)
(* spends the message itself on a claim, a transfer completion, a          *)
(* replacement request or, two messages at once and late, on a seal.       *)
(*                                                                         *)
(* The signature is not modelled: a message that verifies is one the chip  *)
(* has produced.  Each database call is an action.  Only the ENROLLED /    *)
(* ACTIVE part of a chip's life matters here; the rest is TokenLifecycle.  *)
(***************************************************************************)
EXTENDS Naturals

CONSTANTS
    Tags,      \* chips
    NoTag,     \* an idle slot, a session not yet issued
    Sessions,  \* ids of nfc_tap_sessions rows
    Requests,  \* requests in flight together
    MaxReads   \* bound: times a chip is read

ASSUME NoTagAssumption == NoTag \notin Tags
ASSUME ReadsAssumption == MaxReads \in Nat

VARIABLES
    reads,       \* the chip's own counter (external)
    status,      \* nfc_tags.lifecycle_status
    sun_counter, \* nfc_tags.sun_counter: the highest counter burned
    baseline,    \* nfc_tags.seal_baseline_counter
    ledger,      \* nfc_counter_ledger: every counter accepted
    seals,       \* chips with an nfc_seals row
    sessions,    \* nfc_tap_sessions
    requests,    \* slot -> where the request stands and what it read
    proofs       \* history: how often each read has proved possession

chip == <<reads, status, sun_counter, baseline, ledger, seals>>
vars == <<chip, sessions, requests, proofs>>

Counters == 0..MaxReads

Session ==
    [state   : {"none", "live", "consumed", "expired"},
     tag     : Tags \cup {NoTag},
     counter : Counters]

(* `counter` is the one the request acts on, `latest` the sun_counter that *)
(* completeTransfer or requestReissue read from the row.                   *)
RequestSlot ==
    [pc      : {"idle", "burn_tap", "issue", "load_claim", "claim_session", "claim_raw",
                "consume", "burn_raw"},
     tag     : Tags \cup {NoTag},
     counter : Counters,
     latest  : Counters]

NoSession == [state |-> "none", tag |-> NoTag, counter |-> 0]
IdleRequest == [pc |-> "idle", tag |-> NoTag, counter |-> 0, latest |-> 0]

(* Type correctness; no counter the server holds exceeds the bound.        *)
TypeOK ==
    /\ reads \in [Tags -> Counters]
    /\ status \in [Tags -> {"ENROLLED", "ACTIVE"}]
    /\ sun_counter \in [Tags -> Counters]
    /\ baseline \in [Tags -> Counters]
    /\ ledger \in [Tags -> SUBSET Counters]
    /\ seals \subseteq Tags
    /\ sessions \in [Sessions -> Session]
    /\ requests \in [Requests -> RequestSlot]
    /\ proofs \in [Tags -> [Counters -> Nat]]

(* The migration that adds the ledger starts it empty, with the chip's     *)
(* counter at that time as its baseline.                                   *)
Init ==
    /\ reads \in [Tags -> Counters]
    /\ sun_counter \in [Tags -> Counters]
    /\ \A t \in Tags : sun_counter[t] <= reads[t]
    /\ baseline = sun_counter
    /\ status = [t \in Tags |-> "ENROLLED"]
    /\ ledger = [t \in Tags |-> {}]
    /\ seals = {}
    /\ sessions = [s \in Sessions |-> NoSession]
    /\ requests = [r \in Requests |-> IdleRequest]
    /\ proofs = [t \in Tags |-> [c \in Counters |-> 0]]

-----------------------------------------------------------------------------
Begin(r, pc, t, c, latest) ==
    /\ requests[r].pc = "idle"
    /\ requests' = [requests EXCEPT ![r] =
          [pc |-> pc, tag |-> t, counter |-> c, latest |-> latest]]

Finish(r) == requests' = [requests EXCEPT ![r] = IdleRequest]

(* The reads C of chip t prove possession.                                 *)
Proves(t, C) ==
    proofs' = [proofs EXCEPT ![t] = [c \in Counters |-> IF c \in C THEN @[c] + 1 ELSE @[c]]]

(* A message the server has not yet accepted, as far as the row shows.     *)
Fresh(t, c) == c \in 1..reads[t] /\ c > sun_counter[t]

(* Mutant of Burn: the ledger's trigger is missing.                        *)
BurnOffLedger(t, c) ==
    /\ sun_counter[t] < c
    /\ sun_counter' = [sun_counter EXCEPT ![t] = c]
    /\ UNCHANGED ledger

(* UPDATE nfc_tags SET sun_counter = c ... AND sun_counter < c, with the   *)
(* trigger that writes the ledger.                                         *)
Burn(t, c) ==
    /\ sun_counter[t] < c
    /\ sun_counter' = [sun_counter EXCEPT ![t] = c]
    /\ ledger' = [ledger EXCEPT ![t] = @ \cup {c}]

(* Someone holds a phone to the chip (external).                           *)
ReadChip(t) ==
    /\ reads[t] < MaxReads
    /\ reads' = [reads EXCEPT ![t] = @ + 1]
    /\ UNCHANGED <<status, sun_counter, baseline, ledger, seals, sessions, requests, proofs>>

-----------------------------------------------------------------------------
(* tapTag: verify, burn, issue a session.                                  *)

TapReads(r, t, c) ==
    /\ Fresh(t, c)
    /\ Begin(r, "burn_tap", t, c, 0)
    /\ UNCHANGED <<chip, sessions, proofs>>

TapBurns(r) ==
    /\ requests[r].pc = "burn_tap"
    /\ Burn(requests[r].tag, requests[r].counter)
    /\ requests' = [requests EXCEPT ![r].pc = "issue"]
    /\ UNCHANGED <<reads, status, baseline, seals, sessions, proofs>>

TapIssues(r, s) ==
    /\ requests[r].pc = "issue"
    /\ sessions[s].state = "none"
    /\ sessions' = [sessions EXCEPT ![s] =
          [state |-> "live", tag |-> requests[r].tag, counter |-> requests[r].counter]]
    /\ Finish(r)
    /\ UNCHANGED <<chip, proofs>>

ExpireSession(s) ==
    /\ sessions[s].state = "live"
    /\ sessions' = [sessions EXCEPT ![s].state = "expired"]
    /\ UNCHANGED <<chip, requests, proofs>>

(* consumeTapSession: one conditional UPDATE.                              *)
Consume(s) ==
    /\ sessions[s].state = "live"
    /\ sessions' = [sessions EXCEPT ![s].state = "consumed"]

-----------------------------------------------------------------------------
(* claimTag.                                                               *)

(* With a session: it is consumed first, then the row is loaded and must   *)
(* still show the session's tap as the latest.                             *)
ClaimConsumes(r, s) ==
    /\ Consume(s)
    /\ Begin(r, "load_claim", sessions[s].tag, sessions[s].counter, 0)
    /\ UNCHANGED <<chip, proofs>>

ClaimLoads(r) ==
    LET t == requests[r].tag IN
    /\ requests[r].pc = "load_claim"
    /\ sun_counter[t] = requests[r].counter
    /\ status[t] = "ENROLLED"
    /\ requests' = [requests EXCEPT ![r].pc = "claim_session"]
    /\ UNCHANGED <<chip, sessions, proofs>>

(* With the message itself.                                                *)
ClaimReads(r, t, c) ==
    /\ Fresh(t, c)
    /\ status[t] = "ENROLLED"
    /\ Begin(r, "claim_raw", t, c, 0)
    /\ UNCHANGED <<chip, sessions, proofs>>

(* Mutant of ClaimUpdates: a session's UPDATE has no eq(sun_counter).      *)
ClaimUpdatesAnyTap(r) ==
    LET t == requests[r].tag
        c == requests[r].counter
    IN
    /\ \/ /\ requests[r].pc = "claim_session"
          /\ UNCHANGED <<sun_counter, ledger>>
       \/ /\ requests[r].pc = "claim_raw"
          /\ Burn(t, c)
    /\ status[t] = "ENROLLED"
    /\ status' = [status EXCEPT ![t] = "ACTIVE"]
    /\ Proves(t, {c})
    /\ Finish(r)
    /\ UNCHANGED <<reads, baseline, seals, sessions>>

(* The claim UPDATE: eq(sun_counter) for a session, lt for a message.      *)
ClaimUpdates(r) ==
    LET t == requests[r].tag
        c == requests[r].counter
    IN
    /\ \/ /\ requests[r].pc = "claim_session"
          /\ sun_counter[t] = c
          /\ UNCHANGED <<sun_counter, ledger>>
       \/ /\ requests[r].pc = "claim_raw"
          /\ Burn(t, c)
    /\ status[t] = "ENROLLED"
    /\ status' = [status EXCEPT ![t] = "ACTIVE"]
    /\ Proves(t, {c})
    /\ Finish(r)
    /\ UNCHANGED <<reads, baseline, seals, sessions>>

-----------------------------------------------------------------------------
(* completeTransfer and requestReissue.                                    *)

(* The row is read before the session is consumed.                         *)
PossessionReads(r, t) ==
    /\ status[t] = "ACTIVE"
    /\ Begin(r, "consume", t, 0, sun_counter[t])
    /\ UNCHANGED <<chip, sessions, proofs>>

(* The session must be for this chip and carry the counter that was read.  *)
PossessionConsumes(r, s) ==
    /\ requests[r].pc = "consume"
    /\ Consume(s)
    /\ IF sessions[s].tag = requests[r].tag /\ sessions[s].counter = requests[r].latest
       THEN Proves(requests[r].tag, {sessions[s].counter})
       ELSE UNCHANGED proofs
    /\ Finish(r)
    /\ UNCHANGED chip

(* completeTransfer with the message itself.                               *)
PossessionReadsMessage(r, t, c) ==
    /\ status[t] = "ACTIVE"
    /\ Fresh(t, c)
    /\ Begin(r, "burn_raw", t, c, 0)
    /\ UNCHANGED <<chip, sessions, proofs>>

PossessionBurns(r) ==
    /\ requests[r].pc = "burn_raw"
    /\ Burn(requests[r].tag, requests[r].counter)
    /\ Proves(requests[r].tag, {requests[r].counter})
    /\ Finish(r)
    /\ UNCHANGED <<reads, status, baseline, seals, sessions>>

-----------------------------------------------------------------------------
(* Mutant of commit_seal: the second message need not be the chip's.       *)
SealUnread(t, c) ==
    /\ status[t] = "ENROLLED"
    /\ t \notin seals
    /\ c > baseline[t]
    /\ ledger[t] \cap {c, c + 1} = {}
    /\ ledger' = [ledger EXCEPT ![t] = @ \cup {c, c + 1}]
    /\ seals' = seals \cup {t}
    /\ status' = [status EXCEPT ![t] = "ACTIVE"]
    /\ sun_counter' = [sun_counter EXCEPT ![t] = IF @ > c + 1 THEN @ ELSE c + 1]
    /\ Proves(t, {c, c + 1})
    /\ UNCHANGED <<reads, baseline, sessions, requests>>

(* Mutant of commit_seal: the ledger is not looked at.                     *)
SealOffLedger(t, c) ==
    /\ status[t] = "ENROLLED"
    /\ t \notin seals
    /\ c + 1 <= reads[t]
    /\ c > baseline[t]
    /\ ledger' = [ledger EXCEPT ![t] = @ \cup {c, c + 1}]
    /\ seals' = seals \cup {t}
    /\ status' = [status EXCEPT ![t] = "ACTIVE"]
    /\ sun_counter' = [sun_counter EXCEPT ![t] = IF @ > c + 1 THEN @ ELSE c + 1]
    /\ Proves(t, {c, c + 1})
    /\ UNCHANGED <<reads, baseline, sessions, requests>>

(* commit_seal.  Both messages were checked against the write-once         *)
(* baseline before, and the transaction checks it again.  The counters, c  *)
(* and c + 1 (a gap is refused), may be older than taps already burned.    *)
commit_seal(t, c) ==
    /\ status[t] = "ENROLLED"
    /\ t \notin seals
    /\ c + 1 <= reads[t]
    /\ c > baseline[t]
    /\ ledger[t] \cap {c, c + 1} = {}
    /\ ledger' = [ledger EXCEPT ![t] = @ \cup {c, c + 1}]
    /\ seals' = seals \cup {t}
    /\ status' = [status EXCEPT ![t] = "ACTIVE"]
    /\ sun_counter' = [sun_counter EXCEPT ![t] = IF @ > c + 1 THEN @ ELSE c + 1]
    /\ Proves(t, {c, c + 1})
    /\ UNCHANGED <<reads, baseline, sessions, requests>>

(* A refusal (another request won the conditional UPDATE), a failed call   *)
(* or a crash.                                                             *)
AbortRequest(r) ==
    /\ requests[r].pc # "idle"
    /\ Finish(r)
    /\ UNCHANGED <<chip, sessions, proofs>>

-----------------------------------------------------------------------------
RequestStep(r) ==
    \/ \E t \in Tags, c \in Counters :
          TapReads(r, t, c) \/ ClaimReads(r, t, c) \/ PossessionReadsMessage(r, t, c)
    \/ \E s \in Sessions :
          TapIssues(r, s) \/ ClaimConsumes(r, s) \/ PossessionConsumes(r, s)
    \/ \E t \in Tags : PossessionReads(r, t)
    \/ TapBurns(r)
    \/ ClaimLoads(r)
    \/ ClaimUpdates(r)
    \/ PossessionBurns(r)
    \/ AbortRequest(r)

Next ==
    \/ \E r \in Requests : RequestStep(r)
    \/ \E t \in Tags : ReadChip(t) \/ \E c \in Counters : commit_seal(t, c)
    \/ \E s \in Sessions : ExpireSession(s)

Spec == Init /\ [][Next]_vars

-----------------------------------------------------------------------------
(* Properties.                                                             *)

(* One read of a chip proves possession at most once, whichever way it is  *)
(* spent: through its session, as a message, or late, as part of a seal.   *)
ReadProvesOnce == \A t \in Tags : \A c \in Counters : proofs[t][c] <= 1

(* Every counter accepted since the baseline is in the ledger, so that a   *)
(* late seal cannot take a counter a live session still stands for.        *)
LedgerIsComplete ==
    /\ \A t \in Tags : \A c \in Counters : proofs[t][c] > 0 => c \in ledger[t]
    /\ \A s \in Sessions : sessions[s].state = "live" =>
          sessions[s].counter \in ledger[sessions[s].tag]

(* A claim is by the newest tap the server knows of: only a seal may       *)
(* activate a chip with older ones.                                        *)
ClaimIsByLatestTap ==
    [][\A t \in Tags : status'[t] # status[t] /\ seals' = seals =>
          /\ proofs'[t][sun_counter'[t]] > proofs[t][sun_counter'[t]]
          /\ \A c \in ledger[t] : c <= sun_counter'[t]]_vars

-----------------------------------------------------------------------------
(* What the comments of tapSession.ts say and the code does not do.        *)

(* A newer tap by anyone supersedes every older session: possession is     *)
(* proved by a session only while its tap is the chip's latest.            *)
NewerTapSupersedes ==
    [][\A s \in Sessions : \A t \in Tags : \A c \in Counters :
          /\ sessions[s].state = "live"
          /\ sessions'[s].state = "consumed"
          /\ proofs'[t][c] > proofs[t][c]
          => c = sun_counter[t]]_vars
=============================================================================
