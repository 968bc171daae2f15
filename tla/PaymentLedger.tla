--------------------------- MODULE PaymentLedger ---------------------------
(***************************************************************************)
(* What the payment module promises its callers, whatever the provider: a  *)
(* payment is opened once, settles at most once into one terminal status,  *)
(* and each callback registered for that status is called at most once,    *)
(* never before the status is committed.  Both StarsPayments and           *)
(* TonPayments implement this specification.                               *)
(***************************************************************************)
EXTENDS Naturals

CONSTANTS
    Payment,
    Outcome,    \* the terminal statuses
    Hook,       \* callback names
    HooksOf     \* outcome -> the callbacks registered for it

VARIABLES
    status,     \* the committed status of each payment
    calls       \* how often each callback was called for each payment

vars == <<status, calls>>

Init ==
    /\ status = [p \in Payment |-> "none"]
    /\ calls = [p \in Payment |-> [h \in Hook |-> 0]]

Open(p) ==
    /\ status[p] = "none"
    /\ status' = [status EXCEPT ![p] = "pending"]
    /\ UNCHANGED calls

Settle(p, o) ==
    /\ status[p] = "pending"
    /\ status' = [status EXCEPT ![p] = o]
    /\ UNCHANGED calls

Call(p, h) ==
    /\ status[p] \in Outcome
    /\ h \in HooksOf[status[p]]
    /\ calls[p][h] = 0
    /\ calls' = [calls EXCEPT ![p][h] = 1]
    /\ UNCHANGED status

Next ==
    \E p \in Payment :
        \/ Open(p)
        \/ \E o \in Outcome : Settle(p, o)
        \/ \E h \in Hook : Call(p, h)

Spec == Init /\ [][Next]_vars
=============================================================================
