---------------------------- MODULE PaymentsRepo ----------------------------
(***************************************************************************)
(* The `payments` table as app/core/repositories/payments.py reads and     *)
(* writes it.  A row is named by its payload_id.  Every statement runs in  *)
(* a transaction of its own, so each operator below is one atomic step.    *)
(***************************************************************************)
EXTENDS Naturals

CONSTANTS
    Payment,    \* the payload ids (one row each)
    Charge,     \* telegram_payment_charge_id or TON transaction hash
    NoCharge    \* tx_hash_or_charge_id IS NULL

ASSUME NoChargeIsNotACharge == NoCharge \notin Charge

VARIABLES
    status,     \* payload id -> payments.status, "none" before the INSERT
    charge      \* payload id -> payments.tx_hash_or_charge_id

tableVars == <<status, charge>>

Terminal == {"paid", "expired", "mismatch"}
Status == {"none", "pending"} \cup Terminal

TableInit ==
    /\ status = [p \in Payment |-> "none"]
    /\ charge = [p \in Payment |-> NoCharge]

TableTypeOK ==
    /\ status \in [Payment -> Status]
    /\ charge \in [Payment -> Charge \cup {NoCharge}]

CreatePending(p) ==
    /\ status[p] = "none"
    /\ status' = [status EXCEPT ![p] = "pending"]
    /\ UNCHANGED charge

\* MUTANT: the WHERE clause has lost its status test.
MatchedByPayloadOnly(p) == status[p] # "none"

\* WHERE payload_id = p AND status = pending: the rowcount of each UPDATE.
Matched(p) == status[p] = "pending"

\* mark_paid, mark_mismatch and mark_expired (which has no charge to write).
\* (provider, tx_hash_or_charge_id) is unique in the schema; the constraint
\* never trips, since a charge or a transfer names exactly one payload id.
UpdatePending(p, s, c) ==
    /\ status' = [status EXCEPT ![p] = IF Matched(p) THEN s ELSE @]
    /\ charge' = [charge EXCEPT ![p] = IF Matched(p) /\ c # NoCharge THEN c ELSE @]

\* MUTANT: the charge id is left out of the values.
MarkPaidWithoutCharge(p, c) == UpdatePending(p, "paid", NoCharge)

MarkPaid(p, c) == UpdatePending(p, "paid", c)

ExistsByChargeId(c) == \E p \in Payment : charge[p] = c
=============================================================================
