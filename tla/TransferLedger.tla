---------------------------- MODULE TransferLedger -----------------------------
(***************************************************************************)
(* What the fee machinery promises, without requests, retries or queues: a *)
(* transfer is decided once, either by a free transfer or by one card      *)
(* payment that was really taken for it, and never by both.                *)
(***************************************************************************)
CONSTANTS Transfers, Intents, NoTransfer, NoIntent, Voucher

VARIABLES
    decision, \* transfer -> "open", "done" or "void"
    payment,  \* transfer -> NoIntent, Voucher or the intent that paid for it
    charged   \* intent -> the transfer it took money for, or NoTransfer

ledger == <<decision, payment, charged>>

Init ==
    /\ decision = [x \in Transfers |-> "open"]
    /\ payment = [x \in Transfers |-> NoIntent]
    /\ charged = [i \in Intents |-> NoTransfer]

(* Money is taken for a transfer.  It may come too late, but never for a   *)
(* transfer that was free, and an intent charges once.                     *)
Charge(i, x) ==
    /\ charged[i] = NoTransfer
    /\ payment[x] # Voucher
    /\ charged' = [charged EXCEPT ![i] = x]
    /\ UNCHANGED <<decision, payment>>

SettleByCard(i, x) ==
    /\ decision[x] = "open"
    /\ charged[i] = x
    /\ decision' = [decision EXCEPT ![x] = "done"]
    /\ payment' = [payment EXCEPT ![x] = i]
    /\ UNCHANGED charged

SettleByVoucher(x) ==
    /\ decision[x] = "open"
    /\ \A i \in Intents : charged[i] # x
    /\ decision' = [decision EXCEPT ![x] = "done"]
    /\ payment' = [payment EXCEPT ![x] = Voucher]
    /\ UNCHANGED charged

Void(x) ==
    /\ decision[x] = "open"
    /\ decision' = [decision EXCEPT ![x] = "void"]
    /\ UNCHANGED <<payment, charged>>

Next ==
    \E x \in Transfers :
       \/ SettleByVoucher(x)
       \/ Void(x)
       \/ \E i \in Intents : Charge(i, x) \/ SettleByCard(i, x)

Spec == Init /\ [][Next]_ledger
=============================================================================
