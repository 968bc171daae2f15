--------------------------- MODULE StarsPayments ---------------------------
(***************************************************************************)
(* Telegram Stars payments (app/features/payments/stars.py): the invoice,  *)
(* the pre_checkout_query handler and the successful_payment handler, the  *)
(* latter cut at its awaits because polling runs every update as its own   *)
(* task.  Around them: Telegram, which charges the user once the checkout  *)
(* was approved and hands out each update until getUpdates confirms it;    *)
(* the middleware chain in front of every message; database failures; and  *)
(* crashes of the process.                                                 *)
(*                                                                         *)
(* A charge id names one checkout of an invoice link.  A link is not used  *)
(* up by a checkout, so several charges may be for one payment.            *)
(***************************************************************************)
EXTENDS PaymentsRepo

CONSTANTS
    NumHooks,   \* callbacks registered with register_hook, called in order
    MaxFaults   \* bound on crashes and database failures together

ASSUME NumHooksType == NumHooks \in Nat
ASSUME MaxFaultsType == MaxFaults \in Nat

VARIABLES
    creating,   \* payments whose create_stars_invoice awaits the link
    links,      \* payments whose invoice link was returned to the caller
    invoice,    \* charge -> the payment its checkout is for
    phase,      \* charge -> where Telegram's checkout stands
    update,     \* charge -> delivery of its successful_payment update
    pc,         \* charge -> where the handler of that update stands
    hook,       \* charge -> the next callback its handler calls
    calls,      \* payment -> callback -> number of calls
    faults      \* crashes and database failures so far

telegramVars == <<links, invoice, phase, update>>
handlerVars == <<pc, hook>>
vars == <<tableVars, creating, telegramVars, handlerVars, calls, faults>>

Hooks == 1..NumHooks
NoInvoice == "none"

\* "read" and "refuse" are the two answers process_pre_checkout_query is
\* about to send; "collected" means Telegram has taken the Stars.
Phase == {"unused", "query", "approve", "refuse",
          "approved", "declined", "collected"}
Update == {"none", "queued", "fetched", "confirmed"}
Waiting == {"gate", "exists", "markPaid", "reread", "hooks"}
Finished == {"dropped", "duplicate", "noop", "failed", "done"}

Init ==
    /\ TableInit
    /\ creating = {}
    /\ links = {}
    /\ invoice = [c \in Charge |-> NoInvoice]
    /\ phase = [c \in Charge |-> "unused"]
    /\ update = [c \in Charge |-> "none"]
    /\ pc = [c \in Charge |-> "idle"]
    /\ hook = [c \in Charge |-> 1]
    /\ calls = [p \in Payment |-> [h \in Hooks |-> 0]]
    /\ faults = 0

Fault ==
    /\ faults < MaxFaults
    /\ faults' = faults + 1

-----------------------------------------------------------------------------
(* create_stars_invoice: the row is committed before the link is asked for. *)

CreateInvoiceRow(p) ==
    /\ CreatePending(p)
    /\ creating' = creating \cup {p}
    /\ UNCHANGED <<telegramVars, handlerVars, calls, faults>>

CreateInvoiceLink(p) ==
    /\ p \in creating
    /\ creating' = creating \ {p}
    /\ links' = links \cup {p}
    /\ UNCHANGED <<tableVars, invoice, phase, update, handlerVars, calls, faults>>

\* The exception is audited and re-raised; the row stays pending.
CreateInvoiceLinkFails(p) ==
    /\ p \in creating
    /\ Fault
    /\ creating' = creating \ {p}
    /\ UNCHANGED <<tableVars, telegramVars, handlerVars, calls>>

-----------------------------------------------------------------------------
(* Telegram's side of a checkout, and process_pre_checkout_query. *)

Checkout(c, p) ==
    /\ phase[c] = "unused"
    /\ p \in links
    /\ invoice' = [invoice EXCEPT ![c] = p]
    /\ phase' = [phase EXCEPT ![c] = "query"]
    /\ UNCHANGED <<tableVars, creating, links, update, handlerVars, calls, faults>>

\* MUTANT: the validation looks the row up and forgets its status.
AcceptsAnyKnownRow(p) == status[p] # "none"

\* _validate_pre_checkout_payload: expires_at is not looked at.
AcceptsPreCheckout(p) == status[p] = "pending"

ValidatePreCheckout(c) ==
    /\ phase[c] = "query"
    /\ phase' = [phase EXCEPT ![c] =
                    IF AcceptsPreCheckout(invoice[c]) THEN "approve" ELSE "refuse"]
    /\ UNCHANGED <<tableVars, creating, links, invoice, update, handlerVars, calls, faults>>

PreCheckoutLookupFails(c) ==
    /\ phase[c] = "query"
    /\ Fault
    /\ phase' = [phase EXCEPT ![c] = "refuse"]
    /\ UNCHANGED <<tableVars, creating, links, invoice, update, handlerVars, calls>>

AnswerPreCheckout(c) ==
    /\ phase[c] \in {"approve", "refuse"}
    /\ phase' = [phase EXCEPT ![c] =
                    IF phase[c] = "approve" THEN "approved" ELSE "declined"]
    /\ UNCHANGED <<tableVars, creating, links, invoice, update, handlerVars, calls, faults>>

\* No answer within Telegram's ten seconds, or the answer itself failed
\* (the handler logs it and returns).
PreCheckoutTimesOut(c) ==
    /\ phase[c] \in {"query", "approve", "refuse"}
    /\ phase' = [phase EXCEPT ![c] = "declined"]
    /\ UNCHANGED <<tableVars, creating, links, invoice, update, handlerVars, calls, faults>>

Collect(c) ==
    /\ phase[c] = "approved"
    /\ phase' = [phase EXCEPT ![c] = "collected"]
    /\ update' = [update EXCEPT ![c] = "queued"]
    /\ UNCHANGED <<tableVars, creating, links, invoice, handlerVars, calls, faults>>

\* getUpdates returns the update and a task starts on it.
Fetch(c) ==
    /\ update[c] = "queued"
    /\ update' = [update EXCEPT ![c] = "fetched"]
    /\ pc' = [pc EXCEPT ![c] = "gate"]
    /\ UNCHANGED <<tableVars, creating, links, invoice, phase, hook, calls, faults>>

\* The next getUpdates carries the new offset, whether or not the task ended.
Confirm(c) ==
    /\ update[c] = "fetched"
    /\ update' = [update EXCEPT ![c] = "confirmed"]
    /\ UNCHANGED <<tableVars, creating, links, invoice, phase, handlerVars, calls, faults>>

-----------------------------------------------------------------------------
(* process_successful_payment, one action per await. *)

Goto(c, label) == pc' = [pc EXCEPT ![c] = label]

\* The update is a message: the status gate, the captcha gate, the rate
\* limiter and the subscription gate all run first, and each may return None.
PassGates(c) ==
    /\ pc[c] = "gate"
    /\ Goto(c, "exists")
    /\ UNCHANGED <<tableVars, creating, telegramVars, hook, calls, faults>>

GatesSwallow(c) ==
    /\ pc[c] = "gate"
    /\ Goto(c, "dropped")
    /\ UNCHANGED <<tableVars, creating, telegramVars, hook, calls, faults>>

CheckExists(c) ==
    /\ pc[c] = "exists"
    /\ Goto(c, IF ExistsByChargeId(c) THEN "duplicate" ELSE "markPaid")
    /\ UNCHANGED <<tableVars, creating, telegramVars, hook, calls, faults>>

CheckExistsFails(c) ==
    /\ pc[c] = "exists"
    /\ Fault
    /\ Goto(c, "failed")
    /\ UNCHANGED <<tableVars, creating, telegramVars, hook, calls>>

\* MUTANT: the handler returns once the row is flipped.
MarkInvoicePaidAndReturn(c) ==
    /\ pc[c] = "markPaid"
    /\ MarkPaid(invoice[c], c)
    /\ Goto(c, IF Matched(invoice[c]) THEN "done" ELSE "noop")
    /\ UNCHANGED <<creating, telegramVars, hook, calls, faults>>

MarkInvoicePaid(c) ==
    /\ pc[c] = "markPaid"
    /\ MarkPaid(invoice[c], c)
    /\ Goto(c, IF Matched(invoice[c]) THEN "reread" ELSE "noop")
    /\ UNCHANGED <<creating, telegramVars, hook, calls, faults>>

\* The statement raises: before it ran, or after it committed and only the
\* acknowledgement was lost.
MarkInvoicePaidFails(c) ==
    /\ pc[c] = "markPaid"
    /\ Fault
    /\ \/ UNCHANGED tableVars
       \/ MarkPaid(invoice[c], c)
    /\ Goto(c, "failed")
    /\ UNCHANGED <<creating, telegramVars, hook, calls>>

Reread(c) ==
    /\ pc[c] = "reread"
    /\ Goto(c, "hooks")
    /\ hook' = [hook EXCEPT ![c] = 1]
    /\ UNCHANGED <<tableVars, creating, telegramVars, calls, faults>>

RereadFails(c) ==
    /\ pc[c] = "reread"
    /\ Fault
    /\ Goto(c, "failed")
    /\ UNCHANGED <<tableVars, creating, telegramVars, hook, calls>>

\* A callback that raises is audited and the loop goes on, so a failing
\* callback and a succeeding one are the same step.
InvokeHook(c) ==
    /\ pc[c] = "hooks"
    /\ hook[c] \in Hooks
    /\ calls' = [calls EXCEPT ![invoice[c]][hook[c]] = @ + 1]
    /\ hook' = [hook EXCEPT ![c] = @ + 1]
    /\ UNCHANGED <<tableVars, creating, telegramVars, pc, faults>>

HooksDone(c) ==
    /\ pc[c] = "hooks"
    /\ hook[c] \notin Hooks
    /\ Goto(c, "done")
    /\ UNCHANGED <<tableVars, creating, telegramVars, hook, calls, faults>>

-----------------------------------------------------------------------------
\* Every task of the process is gone; Telegram hands out again what was
\* fetched and not confirmed, and asks again for an unanswered checkout.
Crash ==
    /\ Fault
    /\ creating' = {}
    /\ pc' = [c \in Charge |->
                IF pc[c] \in Waiting \/ update[c] = "fetched" THEN "idle" ELSE pc[c]]
    /\ hook' = [c \in Charge |-> 1]
    /\ update' = [c \in Charge |-> IF update[c] = "fetched" THEN "queued" ELSE update[c]]
    /\ phase' = [c \in Charge |->
                IF phase[c] \in {"approve", "refuse"} THEN "query" ELSE phase[c]]
    /\ UNCHANGED <<tableVars, links, invoice, calls>>

HandlerStep(c) ==
    \/ PassGates(c)
    \/ GatesSwallow(c)
    \/ CheckExists(c)
    \/ CheckExistsFails(c)
    \/ MarkInvoicePaid(c)
    \/ MarkInvoicePaidFails(c)
    \/ Reread(c)
    \/ RereadFails(c)
    \/ InvokeHook(c)
    \/ HooksDone(c)

TelegramStep(c) ==
    \/ \E p \in Payment : Checkout(c, p)
    \/ ValidatePreCheckout(c)
    \/ PreCheckoutLookupFails(c)
    \/ AnswerPreCheckout(c)
    \/ PreCheckoutTimesOut(c)
    \/ Collect(c)
    \/ Fetch(c)
    \/ Confirm(c)

InvoiceStep(p) ==
    \/ CreateInvoiceRow(p)
    \/ CreateInvoiceLink(p)
    \/ CreateInvoiceLinkFails(p)

Next ==
    \/ \E p \in Payment : InvoiceStep(p)
    \/ \E c \in Charge : TelegramStep(c) \/ HandlerStep(c)
    \/ Crash

Spec == Init /\ [][Next]_vars

\* The dispatcher keeps fetching and the event loop runs every started task;
\* nothing obliges a user to pay, Telegram to collect or a process to crash.
FairSpec == Spec /\ \A c \in Charge : WF_vars(Fetch(c)) /\ WF_vars(HandlerStep(c))

-----------------------------------------------------------------------------
\* Every column, local and counter stays in its domain; in particular a
\* handler calls no callback beyond the last one registered.
TypeOK ==
    /\ TableTypeOK
    /\ creating \subseteq Payment
    /\ links \subseteq Payment
    /\ invoice \in [Charge -> Payment \cup {NoInvoice}]
    /\ phase \in [Charge -> Phase]
    /\ update \in [Charge -> Update]
    /\ pc \in [Charge -> {"idle"} \cup Waiting \cup Finished]
    /\ hook \in [Charge -> 1..NumHooks + 1]
    /\ calls \in [Payment -> [Hooks -> Nat]]
    /\ faults \in 0..MaxFaults

\* No callback runs twice for one payment, whatever the deliveries, the
\* overlapping checkouts of one link, the crashes and the failed statements:
\* the exists gate and mark_paid's WHERE clause leave one winner.
HooksAtMostOnce ==
    \A p \in Payment, h \in Hooks : calls[p][h] <= 1

\* A task that is past mark_paid owns its payment: the recorded charge is the
\* one it handles.  Two tasks never run the callbacks of one payment.
HandlerOwnsPayment ==
    \A c \in Charge :
        pc[c] \in {"reread", "hooks", "done"} =>
            /\ status[invoice[c]] = "paid"
            /\ charge[invoice[c]] = c

\* A paid row names the charge Telegram collected for this very invoice.
PaidMeansCollected ==
    \A p \in Payment :
        status[p] = "paid" =>
            /\ charge[p] \in Charge
            /\ phase[charge[p]] = "collected"
            /\ invoice[charge[p]] = p

\* mark_paid never overwrites: once a charge is recorded, neither a later
\* charge of the same link nor a redelivery changes the row.
FirstChargeKept ==
    [][\A p \in Payment :
        charge[p] # NoCharge => charge'[p] = charge[p] /\ status'[p] = status[p]]_vars

\* Once a payment is recorded, a checkout of its link that has not been
\* validated yet can no longer be charged (only overlapping checkouts can).
SettledInvoiceRefused ==
    \A c \in Charge, p \in Payment :
        [](status[p] = "paid" /\ invoice[c] = p /\ phase[c] = "query"
            => [](phase[c] # "collected"))

\* Req 13.3 as far as the code keeps it: without faults, a collected charge
\* whose update passes the gates has every callback called, or loses its
\* payment to another charge that does.
CleanChargeCompletes ==
    \A c \in Charge :
        phase[c] = "collected" ~>
            \/ faults > 0
            \/ pc[c] = "dropped"
            \/ /\ pc[c] \in {"done", "noop"}
               /\ \/ pc[charge[invoice[c]]] = "hooks"
                  \/ \A h \in Hooks : calls[invoice[c]][h] = 1

\* stars.py and the payments table implement the ledger promised to callers.
Ledger == INSTANCE PaymentLedger WITH
    Outcome <- Terminal,
    Hook <- Hooks,
    HooksOf <- [o \in Terminal |-> IF o = "paid" THEN Hooks ELSE {}]

ImplementsLedger == Ledger!Spec
=============================================================================
