------------------------------ MODULE TokenTables ------------------------------
(***************************************************************************)
(* The three database tables that hold who owns a token, and the part of   *)
(* apply_transfer_fee that moves it.  Every other module of the token      *)
(* platform works on these tables.                                         *)
(*                                                                         *)
(*   nfc_tags             one row per chip: lifecycle_status and           *)
(*                        current_owner_id                                 *)
(*   ownership_proofs     the owner named by the chip's `current` proof    *)
(*   ownership_transfers  one row per transfer                             *)
(*                                                                         *)
(* A database function runs in one transaction under row locks, so it is   *)
(* one atomic operator here.  A backend handler that makes several calls   *)
(* is several actions in the modules that extend this one.                 *)
(***************************************************************************)
CONSTANTS
    Users,        \* accounts
    Tags,         \* chips
    Transfers,    \* ids of ownership_transfers rows
    Intents,      \* ids of Stripe PaymentIntents
    NoUser,       \* NULL in a column that holds an account
    NoTag,        \* NULL in a column that holds a chip
    NoTransfer,   \* no row is being worked on
    NoIntent      \* NULL in stripe_payment_intent_id

ASSUME NullAssumption ==
    /\ NoUser \notin Users
    /\ NoTag \notin Tags
    /\ NoTransfer \notin Transfers
    /\ NoIntent \notin Intents

VARIABLES nfc_tags, ownership_proofs, ownership_transfers

tables == <<nfc_tags, ownership_proofs, ownership_transfers>>

-----------------------------------------------------------------------------
(* Row types.                                                              *)

LifecycleStatus == {"ENROLLED", "ACTIVE", "SUSPENDED", "RELEASED", "RETIRED"}

TransferStatus == {"NONE", "PENDING", "COMPLETED", "CANCELLED"}

TagRow == [status : LifecycleStatus, owner : Users \cup {NoUser}]

(* `to_email` is the account whose confirmed address the row names; the    *)
(* status "NONE" stands for an id no row has been inserted under.          *)
TransferRow ==
    [status    : TransferStatus,
     tag       : Tags \cup {NoTag},
     from      : Users \cup {NoUser},
     to        : Users \cup {NoUser},
     to_email  : Users \cup {NoUser},
     fee_payer : {"BUYER", "SELLER"},
     intent    : Intents \cup {NoIntent}]

NoRow ==
    [status |-> "NONE", tag |-> NoTag, from |-> NoUser, to |-> NoUser,
     to_email |-> NoUser, fee_payer |-> "BUYER", intent |-> NoIntent]

(* The types of the three tables.  A row that exists names a chip and a    *)
(* sender, and a transfer that completed has a recipient, as the table's   *)
(* checks demand.                                                          *)
TablesTypeOK ==
    /\ nfc_tags \in [Tags -> TagRow]
    /\ ownership_proofs \in [Tags -> Users \cup {NoUser}]
    /\ ownership_transfers \in [Transfers -> TransferRow]
    /\ \A x \in Transfers : ownership_transfers[x].status # "NONE" =>
          /\ ownership_transfers[x].tag \in Tags
          /\ ownership_transfers[x].from \in Users
          /\ ownership_transfers[x].status = "COMPLETED" =>
                ownership_transfers[x].to \in Users

-----------------------------------------------------------------------------
(* Reads.                                                                  *)

(* idx_ownership_transfers_one_pending_per_tag: the rows that lock a chip. *)
PendingOn(t) ==
    {x \in Transfers : ownership_transfers[x].status = "PENDING"
                       /\ ownership_transfers[x].tag = t}

(* Who may complete a transfer: the named account, or, while none is named,*)
(* the account that owns the confirmed address.                            *)
IsRecipient(x, u) ==
    LET row == ownership_transfers[x] IN
    \/ row.to = u
    \/ row.to = NoUser /\ row.to_email = u

(* The account whose vouchers pay the fee.                                 *)
FeePayer(x) ==
    LET row == ownership_transfers[x] IN
    IF row.fee_payer = "SELLER" THEN row.from ELSE row.to

(* Mutant of RowOutcome: a cancelled transfer can still be paid.           *)
RowOutcomeIgnoringCancel(x, i) ==
    LET row == ownership_transfers[x] IN
    IF row.intent \notin {NoIntent, i} THEN "intent_mismatch"
    ELSE IF row.status = "COMPLETED" THEN "already_completed"
    ELSE IF row.to = NoUser THEN "no_recipient"
    ELSE "ok"

(* Mutant of RowOutcome: any payment for the transfer will do.             *)
RowOutcomeAnyIntent(x, i) ==
    LET row == ownership_transfers[x] IN
    IF row.status = "COMPLETED" THEN "already_completed"
    ELSE IF row.status # "PENDING" THEN "not_payable"
    ELSE IF row.to = NoUser THEN "no_recipient"
    ELSE "ok"

(* What the row alone says of payment i; "ok" when nothing stands in the   *)
(* way.  i = NoIntent is the voucher source.                               *)
RowOutcome(x, i) ==
    LET row == ownership_transfers[x] IN
    IF row.intent \notin {NoIntent, i} THEN "intent_mismatch"
    ELSE IF row.status = "COMPLETED" THEN "already_completed"
    ELSE IF row.status # "PENDING" THEN "not_payable"
    ELSE IF row.to = NoUser THEN "no_recipient"
    ELSE "ok"

(* Mutant of ApplyOutcome: the chip is not looked at.                      *)
ApplyOutcomeIgnoringChip(x, i) ==
    IF RowOutcome(x, i) # "ok" THEN RowOutcome(x, i) ELSE "applied"

(* The outcome of apply_transfer_fee: the row's, then the chip's.          *)
ApplyOutcome(x, i) ==
    IF RowOutcome(x, i) # "ok" THEN RowOutcome(x, i)
    ELSE IF nfc_tags[ownership_transfers[x].tag].status = "RETIRED" THEN "not_payable"
    ELSE "applied"

-----------------------------------------------------------------------------
(* Writes.                                                                 *)

(* Mutant of CompleteRow: every chip becomes ACTIVE.                       *)
CompleteRowAlwaysActive(x, i) ==
    LET row == ownership_transfers[x] IN
    /\ ownership_transfers' =
          [ownership_transfers EXCEPT
             ![x].status = "COMPLETED",
             ![x].intent = IF i = NoIntent THEN @ ELSE i]
    /\ nfc_tags' = [nfc_tags EXCEPT ![row.tag] = [status |-> "ACTIVE", owner |-> row.to]]
    /\ ownership_proofs' = [ownership_proofs EXCEPT ![row.tag] = row.to]

(* The writes of an apply whose outcome is "applied": the row completes,   *)
(* the chip changes hands (a suspended chip stays suspended, every other   *)
(* becomes ACTIVE) and its current proof names the recipient.              *)
CompleteRow(x, i) ==
    LET row == ownership_transfers[x] IN
    /\ ownership_transfers' =
          [ownership_transfers EXCEPT
             ![x].status = "COMPLETED",
             ![x].intent = IF i = NoIntent THEN @ ELSE i]
    /\ nfc_tags' =
          [nfc_tags EXCEPT ![row.tag] =
             [status |-> IF @.status = "SUSPENDED" THEN "SUSPENDED" ELSE "ACTIVE",
              owner  |-> row.to]]
    /\ ownership_proofs' = [ownership_proofs EXCEPT ![row.tag] = row.to]

(* UPDATE ownership_transfers SET status = 'CANCELLED' WHERE PENDING.      *)
CancelRow(x) ==
    /\ ownership_transfers[x].status = "PENDING"
    /\ ownership_transfers' = [ownership_transfers EXCEPT ![x].status = "CANCELLED"]
    /\ UNCHANGED <<nfc_tags, ownership_proofs>>
=============================================================================
