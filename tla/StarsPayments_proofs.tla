------------------------ MODULE StarsPayments_proofs ------------------------
(***************************************************************************)
(* Proofs about StarsPayments, for any set of payments and charges, any    *)
(* number of callbacks and any number of faults.                           *)
(***************************************************************************)
EXTENDS StarsPayments, TLAPS

\* A fault stays within its bound.
LEMMA FaultType ==
    ASSUME faults \in 0..MaxFaults, Fault
    PROVE  faults' \in 0..MaxFaults
BY MaxFaultsType DEF Fault

\* A statement of the repository keeps the table well-typed.
LEMMA UpdateType ==
    ASSUME TableTypeOK, NEW p, NEW s \in Status, NEW c \in Charge \cup {NoCharge},
           UpdatePending(p, s, c)
    PROVE  TableTypeOK'
BY DEF TableTypeOK, UpdatePending, Status, Terminal

-----------------------------------------------------------------------------
\* Type correctness, one lemma per group of actions.
LEMMA TypeInvoice ==
    ASSUME TypeOK, NEW p \in Payment, InvoiceStep(p)
    PROVE  TypeOK'
<1>1. CASE CreateInvoiceRow(p)
  BY <1>1 DEF CreateInvoiceRow, CreatePending, TypeOK, TableTypeOK, Status, telegramVars, handlerVars
<1>2. CASE CreateInvoiceLink(p)
  BY <1>2 DEF CreateInvoiceLink, TypeOK, TableTypeOK, tableVars, handlerVars
<1>3. CASE CreateInvoiceLinkFails(p)
  BY <1>3, FaultType DEF CreateInvoiceLinkFails, TypeOK, TableTypeOK, tableVars, telegramVars, handlerVars
<1>. QED
  BY <1>1, <1>2, <1>3 DEF InvoiceStep

LEMMA TypeTelegram ==
    ASSUME TypeOK, NEW c \in Charge, TelegramStep(c)
    PROVE  TypeOK'
<1>1. ASSUME NEW p \in Payment, Checkout(c, p)
      PROVE  TypeOK'
  BY <1>1 DEF Checkout, TypeOK, TableTypeOK, tableVars, handlerVars, Phase
<1>2. CASE ValidatePreCheckout(c)
  BY <1>2 DEF ValidatePreCheckout, TypeOK, TableTypeOK, tableVars, handlerVars, Phase
<1>3. CASE PreCheckoutLookupFails(c)
  BY <1>3, FaultType DEF PreCheckoutLookupFails, TypeOK, TableTypeOK, tableVars, handlerVars, Phase
<1>4. CASE AnswerPreCheckout(c)
  BY <1>4 DEF AnswerPreCheckout, TypeOK, TableTypeOK, tableVars, handlerVars, Phase
<1>5. CASE PreCheckoutTimesOut(c)
  BY <1>5 DEF PreCheckoutTimesOut, TypeOK, TableTypeOK, tableVars, handlerVars, Phase
<1>6. CASE Collect(c)
  BY <1>6 DEF Collect, TypeOK, TableTypeOK, tableVars, handlerVars, Phase, Update
<1>7. CASE Fetch(c)
  BY <1>7 DEF Fetch, TypeOK, TableTypeOK, tableVars, Update, Waiting
<1>8. CASE Confirm(c)
  BY <1>8 DEF Confirm, TypeOK, TableTypeOK, tableVars, handlerVars, Update
<1>. QED
  BY <1>1, <1>2, <1>3, <1>4, <1>5, <1>6, <1>7, <1>8 DEF TelegramStep

LEMMA TypeHandler ==
    ASSUME TypeOK, NEW c \in Charge, HandlerStep(c)
    PROVE  TypeOK'
<1>1. CASE PassGates(c)
  BY <1>1 DEF PassGates, Goto, TypeOK, TableTypeOK, tableVars, telegramVars, Waiting
<1>2. CASE GatesSwallow(c)
  BY <1>2 DEF GatesSwallow, Goto, TypeOK, TableTypeOK, tableVars, telegramVars, Finished
<1>3. CASE CheckExists(c)
  BY <1>3 DEF CheckExists, Goto, TypeOK, TableTypeOK, tableVars, telegramVars, Waiting, Finished
<1>4. CASE CheckExistsFails(c)
  BY <1>4, FaultType DEF CheckExistsFails, Goto, TypeOK, TableTypeOK, tableVars, telegramVars, Finished
<1>5. CASE MarkInvoicePaid(c)
  <2>1. TableTypeOK'
    BY <1>5, UpdateType DEF MarkInvoicePaid, MarkPaid, TypeOK, Status, Terminal
  <2>. QED
    BY <1>5, <2>1 DEF MarkInvoicePaid, Goto, TypeOK, telegramVars, Waiting, Finished
<1>6. CASE MarkInvoicePaidFails(c)
  <2>1. CASE UNCHANGED tableVars
    BY <1>6, <2>1, FaultType
       DEF MarkInvoicePaidFails, Goto, TypeOK, TableTypeOK, tableVars, telegramVars, Finished
  <2>2. CASE MarkPaid(invoice[c], c)
    <3>1. TableTypeOK'
      BY <2>2, UpdateType DEF MarkPaid, TypeOK, Status, Terminal
    <3>. QED
      BY <1>6, <3>1, FaultType DEF MarkInvoicePaidFails, Goto, TypeOK, telegramVars, Finished
  <2>. QED
    BY <1>6, <2>1, <2>2 DEF MarkInvoicePaidFails
<1>7. CASE Reread(c)
  BY <1>7, NumHooksType DEF Reread, Goto, TypeOK, TableTypeOK, tableVars, telegramVars, Waiting
<1>8. CASE RereadFails(c)
  BY <1>8, FaultType DEF RereadFails, Goto, TypeOK, TableTypeOK, tableVars, telegramVars, Finished
<1>9. CASE InvokeHook(c)
  <2>1. ASSUME NEW p \in Payment, NEW h \in Hooks
        PROVE  calls'[p][h] \in Nat
    BY <1>9 DEF InvokeHook, TypeOK
  <2>2. calls' \in [Payment -> [Hooks -> Nat]]
    BY <1>9, <2>1 DEF InvokeHook, TypeOK
  <2>3. hook' \in [Charge -> 1..NumHooks + 1]
    BY <1>9, NumHooksType DEF InvokeHook, TypeOK, Hooks
  <2>. QED
    BY <1>9, <2>2, <2>3 DEF InvokeHook, TypeOK, TableTypeOK, tableVars, telegramVars
<1>10. CASE HooksDone(c)
  BY <1>10 DEF HooksDone, Goto, TypeOK, TableTypeOK, tableVars, telegramVars, Finished
<1>. QED
  BY <1>1, <1>2, <1>3, <1>4, <1>5, <1>6, <1>7, <1>8, <1>9, <1>10 DEF HandlerStep

LEMMA TypeCrash ==
    ASSUME TypeOK, Crash
    PROVE  TypeOK'
BY FaultType, NumHooksType DEF Crash, TypeOK, TableTypeOK, tableVars, Phase, Update, Waiting, Finished

LEMMA TypeInit == Init => TypeOK
BY NumHooksType, MaxFaultsType
   DEF Init, TableInit, TypeOK, TableTypeOK, Status, Phase, Update

LEMMA TypeNext == TypeOK /\ [Next]_vars => TypeOK'
<1>. SUFFICES ASSUME TypeOK, [Next]_vars
              PROVE  TypeOK'
  OBVIOUS
<1>1. CASE UNCHANGED vars
  BY <1>1 DEF vars, tableVars, telegramVars, handlerVars, TypeOK, TableTypeOK
<1>. QED
  BY <1>1, TypeInvoice, TypeTelegram, TypeHandler, TypeCrash DEF Next

\* Every variable keeps its type in every behaviour: in particular the
\* callback index stays within 1..NumHooks+1 and the faults within their bound.
THEOREM TypeCorrect == Spec => []TypeOK
<1>. QED
  BY TypeInit, TypeNext, PTL DEF Spec

-----------------------------------------------------------------------------
(***************************************************************************)
(* The inductive invariant.  HooksAtMostOnce alone does not survive a      *)
(* step of InvokeHook: one must know that the calling task owns its        *)
(* payment, that no other task can ever own it (its row is no longer       *)
(* pending), and that the callbacks it has called are those below its      *)
(* index.                                                                  *)
(***************************************************************************)
CheckoutInv ==
    \A c \in Charge :
        /\ phase[c] # "unused" => invoice[c] \in Payment
        /\ update[c] # "none" => phase[c] = "collected"
        /\ pc[c] # "idle" => update[c] # "none"

ChargeInv ==
    \A p \in Payment :
        /\ status[p] \in {"none", "pending", "paid"}
        /\ status[p] = "paid" <=> charge[p] \in Charge
        /\ charge[p] \in Charge => phase[charge[p]] = "collected" /\ invoice[charge[p]] = p

CallsInv ==
    \A p \in Payment, h \in Hooks :
        \/ calls[p][h] = 0
        \/ /\ calls[p][h] = 1
           /\ status[p] = "paid"
           /\ pc[charge[p]] # "reread"
           /\ pc[charge[p]] = "hooks" => h < hook[charge[p]]

IInv == TypeOK /\ CheckoutInv /\ ChargeInv /\ HandlerOwnsPayment /\ CallsInv

LEMMA InvImplies == IInv => HooksAtMostOnce /\ HandlerOwnsPayment /\ PaidMeansCollected
BY DEF IInv, CallsInv, ChargeInv, HooksAtMostOnce, HandlerOwnsPayment, PaidMeansCollected, TypeOK, Hooks

LEMMA InvInit == Init => IInv
<1>. SUFFICES ASSUME Init PROVE IInv
  OBVIOUS
<1>1. TypeOK
  BY TypeInit
<1>. QED
  BY <1>1, NoChargeIsNotACharge
     DEF Init, TableInit, IInv, CheckoutInv, ChargeInv, HandlerOwnsPayment, CallsInv

\* Invoices: the table gains a pending row at most.
LEMMA InvInvoice ==
    ASSUME IInv, NEW p \in Payment, InvoiceStep(p)
    PROVE  IInv'
<1>1. TypeOK'
  BY TypeInvoice DEF IInv
<1>2. UNCHANGED <<charge, invoice, phase, update, pc, hook, calls>>
  BY DEF InvoiceStep, CreateInvoiceRow, CreatePending, CreateInvoiceLink,
         CreateInvoiceLinkFails, tableVars, telegramVars, handlerVars
<1>3. UNCHANGED status \/ (status[p] = "none" /\ status' = [status EXCEPT ![p] = "pending"])
  BY DEF InvoiceStep, CreateInvoiceRow, CreatePending, CreateInvoiceLink,
         CreateInvoiceLinkFails, tableVars
<1>4. CheckoutInv'
  BY <1>2 DEF IInv, CheckoutInv
<1>5. ChargeInv'
  BY <1>2, <1>3 DEF IInv, ChargeInv, TypeOK, TableTypeOK
<1>6. HandlerOwnsPayment'
  BY <1>2, <1>3 DEF IInv, HandlerOwnsPayment, CheckoutInv, TypeOK, TableTypeOK
<1>7. CallsInv'
  BY <1>2, <1>3 DEF IInv, CallsInv, TypeOK, TableTypeOK
<1>. QED
  BY <1>1, <1>4, <1>5, <1>6, <1>7 DEF IInv

\* Telegram: the table, the handlers past the gates and the calls stay.
LEMMA InvTelegram ==
    ASSUME IInv, NEW c \in Charge, TelegramStep(c)
    PROVE  IInv'
<1>1. TypeOK'
  BY TypeTelegram DEF IInv
<1>2. UNCHANGED <<status, charge, hook, calls>>
  BY DEF TelegramStep, Checkout, ValidatePreCheckout, PreCheckoutLookupFails, AnswerPreCheckout,
         PreCheckoutTimesOut, Collect, Fetch, Confirm, tableVars, handlerVars
<1>3. \A d \in Charge : phase[d] # "unused" => invoice'[d] = invoice[d]
  BY DEF TelegramStep, Checkout, ValidatePreCheckout, PreCheckoutLookupFails, AnswerPreCheckout,
         PreCheckoutTimesOut, Collect, Fetch, Confirm, IInv, TypeOK
<1>4. \A d \in Charge : phase[d] = "collected" => phase'[d] = "collected"
  BY DEF TelegramStep, Checkout, ValidatePreCheckout, PreCheckoutLookupFails, AnswerPreCheckout,
         PreCheckoutTimesOut, Collect, Fetch, Confirm, IInv, TypeOK
<1>5. \A d \in Charge : pc'[d] = pc[d] \/ (pc'[d] = "gate" /\ update[d] # "none")
  BY DEF TelegramStep, Checkout, ValidatePreCheckout, PreCheckoutLookupFails, AnswerPreCheckout,
         PreCheckoutTimesOut, Collect, Fetch, Confirm, handlerVars, IInv, TypeOK
<1>6. CheckoutInv'
  <2>1. ASSUME NEW d \in Charge, phase'[d] # "unused"
        PROVE  invoice'[d] \in Payment
    BY <2>1 DEF TelegramStep, Checkout, ValidatePreCheckout, PreCheckoutLookupFails,
                AnswerPreCheckout, PreCheckoutTimesOut, Collect, Fetch, Confirm,
                IInv, CheckoutInv, TypeOK
  <2>2. ASSUME NEW d \in Charge, update'[d] # "none"
        PROVE  phase'[d] = "collected"
    BY <2>2 DEF TelegramStep, Checkout, ValidatePreCheckout, PreCheckoutLookupFails,
                AnswerPreCheckout, PreCheckoutTimesOut, Collect, Fetch, Confirm,
                IInv, CheckoutInv, TypeOK
  <2>3. ASSUME NEW d \in Charge, pc'[d] # "idle"
        PROVE  update'[d] # "none"
    BY <2>3 DEF TelegramStep, Checkout, ValidatePreCheckout, PreCheckoutLookupFails,
                AnswerPreCheckout, PreCheckoutTimesOut, Collect, Fetch, Confirm, handlerVars,
                IInv, CheckoutInv, TypeOK
  <2>. QED
    BY <2>1, <2>2, <2>3 DEF CheckoutInv
<1>7. ChargeInv'
  BY <1>2, <1>3, <1>4 DEF IInv, ChargeInv
<1>8. HandlerOwnsPayment'
  <2>. SUFFICES ASSUME NEW d \in Charge, pc'[d] \in {"reread", "hooks", "done"}
                PROVE  status'[invoice'[d]] = "paid" /\ charge'[invoice'[d]] = d
    BY DEF HandlerOwnsPayment
  <2>1. pc[d] = pc'[d]
    BY <1>5
  <2>2. phase[d] = "collected"
    BY <2>1 DEF IInv, CheckoutInv
  <2>. QED
    BY <1>2, <1>3, <2>1, <2>2 DEF IInv, HandlerOwnsPayment
<1>9. CallsInv'
  <2>. SUFFICES ASSUME NEW p \in Payment, NEW h \in Hooks, calls[p][h] # 0
                PROVE  /\ calls[p][h] = 1 /\ status[p] = "paid"
                       /\ pc'[charge[p]] # "reread"
                       /\ pc'[charge[p]] = "hooks" => h < hook[charge[p]]
    BY <1>2 DEF CallsInv
  <2>1. charge[p] \in Charge
    BY DEF IInv, CallsInv, ChargeInv
  <2>. QED
    BY <1>5, <2>1 DEF IInv, CallsInv
<1>. QED
  BY <1>1, <1>6, <1>7, <1>8, <1>9 DEF IInv

\* The steps of a handler that neither write the table nor call: the handler
\* moves, and not into the part that owns the payment unless it was there.
LEMMA InvMove ==
    ASSUME IInv, TypeOK', NEW c \in Charge, NEW l, pc' = [pc EXCEPT ![c] = l],
           l \in {"hooks", "done"} => pc[c] \in {"reread", "hooks"},
           l # "reread", pc[c] # "idle",
           hook' = hook \/ (pc[c] = "reread" /\ hook' = [hook EXCEPT ![c] = 1]),
           l = "hooks" => hook'[c] = 1 /\ pc[c] = "reread",
           UNCHANGED <<status, charge, invoice, phase, update, calls>>
    PROVE  IInv'
<1>1. CheckoutInv'
  BY DEF IInv, CheckoutInv, TypeOK
<1>2. ChargeInv'
  BY DEF IInv, ChargeInv
<1>3. HandlerOwnsPayment'
  BY DEF IInv, HandlerOwnsPayment, TypeOK
<1>4. CallsInv'
  <2>. SUFFICES ASSUME NEW p \in Payment, NEW h \in Hooks, calls[p][h] # 0
                PROVE  /\ calls[p][h] = 1 /\ status[p] = "paid"
                       /\ pc'[charge[p]] # "reread"
                       /\ pc'[charge[p]] = "hooks" => h < hook'[charge[p]]
    BY DEF CallsInv
  <2>1. charge[p] \in Charge
    BY DEF IInv, CallsInv, ChargeInv
  <2>. QED
    BY <2>1 DEF IInv, CallsInv, TypeOK
<1>. QED
  BY <1>1, <1>2, <1>3, <1>4 DEF IInv

\* mark_paid: whoever matches becomes the owner, and nobody was before.
LEMMA InvMarkPaid ==
    ASSUME IInv, TypeOK', NEW c \in Charge, pc[c] = "markPaid", NEW l,
           MarkPaid(invoice[c], c), pc' = [pc EXCEPT ![c] = l],
           l \in {"reread", "noop", "failed"},
           l = "reread" => Matched(invoice[c]),
           UNCHANGED <<invoice, phase, update, calls, hook>>
    PROVE  IInv'
<1>0. /\ invoice[c] \in Payment
      /\ phase[c] = "collected"
  BY DEF IInv, CheckoutInv
<1>1. CheckoutInv'
  BY DEF IInv, CheckoutInv, TypeOK
<1>2. CASE status[invoice[c]] # "pending"
  <2>1. UNCHANGED <<status, charge>>
    BY <1>2 DEF MarkPaid, UpdatePending, Matched, IInv, TypeOK, TableTypeOK
  <2>. QED
    BY <1>2, <2>1, InvMove DEF Matched
<1>3. CASE status[invoice[c]] = "pending"
  <2>1. /\ status' = [status EXCEPT ![invoice[c]] = "paid"]
        /\ charge' = [charge EXCEPT ![invoice[c]] = c]
    BY <1>3, NoChargeIsNotACharge DEF MarkPaid, UpdatePending, Matched
  <2>2. \A d \in Charge : pc[d] \in {"reread", "hooks", "done"} => invoice[d] # invoice[c]
    BY <1>3 DEF IInv, HandlerOwnsPayment
  <2>3. ChargeInv'
    BY <1>0, <2>1 DEF IInv, ChargeInv, TypeOK, TableTypeOK
  <2>4. HandlerOwnsPayment'
    <3>. SUFFICES ASSUME NEW d \in Charge, pc'[d] \in {"reread", "hooks", "done"}
                  PROVE  status'[invoice[d]] = "paid" /\ charge'[invoice[d]] = d
      BY DEF HandlerOwnsPayment
    <3>1. CASE d = c
      BY <1>0, <2>1, <3>1 DEF IInv, TypeOK, TableTypeOK
    <3>2. CASE d # c
      <4>1. pc[d] = pc'[d]
        BY <3>2 DEF IInv, TypeOK
      <4>. QED
        BY <2>1, <2>2, <4>1 DEF IInv, HandlerOwnsPayment, TypeOK, TableTypeOK
    <3>. QED
      BY <3>1, <3>2
  <2>5. CallsInv'
    <3>. SUFFICES ASSUME NEW p \in Payment, NEW h \in Hooks, calls[p][h] # 0
                  PROVE  /\ calls[p][h] = 1 /\ status'[p] = "paid"
                         /\ pc'[charge'[p]] # "reread"
                         /\ pc'[charge'[p]] = "hooks" => h < hook[charge'[p]]
      BY DEF CallsInv
    <3>1. p # invoice[c] /\ calls[p][h] = 1 /\ status[p] = "paid"
      BY <1>3 DEF IInv, CallsInv
    <3>2. charge[p] \in Charge /\ charge[p] # c
      BY <3>1 DEF IInv, ChargeInv
    <3>. QED
      BY <2>1, <3>1, <3>2 DEF IInv, CallsInv, TypeOK, TableTypeOK
  <2>. QED
    BY <1>1, <2>3, <2>4, <2>5 DEF IInv
<1>. QED
  BY <1>2, <1>3

\* A callback is called by the owner, which has not called it yet.
LEMMA InvCall ==
    ASSUME IInv, NEW c \in Charge, InvokeHook(c)
    PROVE  /\ status[invoice[c]] = "paid"
           /\ invoice[c] \in Payment
           /\ calls[invoice[c]][hook[c]] = 0
           /\ calls' = [calls EXCEPT ![invoice[c]][hook[c]] = 1]
<1>1. status[invoice[c]] = "paid" /\ charge[invoice[c]] = c /\ invoice[c] \in Payment
  BY DEF InvokeHook, IInv, HandlerOwnsPayment, CheckoutInv
<1>2. calls[invoice[c]][hook[c]] = 0
  BY <1>1 DEF InvokeHook, IInv, CallsInv, TypeOK, Hooks
<1>. QED
  BY <1>1, <1>2 DEF InvokeHook, IInv, TypeOK

LEMMA InvHandler ==
    ASSUME IInv, NEW c \in Charge, HandlerStep(c)
    PROVE  IInv'
<1>0. TypeOK'
  BY TypeHandler DEF IInv
<1>1. CASE PassGates(c) \/ GatesSwallow(c) \/ CheckExists(c) \/ CheckExistsFails(c)
  BY <1>0, <1>1, InvMove
     DEF PassGates, GatesSwallow, CheckExists, CheckExistsFails, Goto, tableVars, telegramVars
<1>2. CASE MarkInvoicePaid(c)
  BY <1>0, <1>2, InvMarkPaid DEF MarkInvoicePaid, Goto, telegramVars
<1>3. CASE MarkInvoicePaidFails(c)
  <2>1. CASE UNCHANGED tableVars
    BY <1>0, <1>3, <2>1, InvMove DEF MarkInvoicePaidFails, Goto, tableVars, telegramVars
  <2>2. CASE MarkPaid(invoice[c], c)
    BY <1>0, <1>3, <2>2, InvMarkPaid DEF MarkInvoicePaidFails, Goto, telegramVars
  <2>. QED
    BY <1>3, <2>1, <2>2 DEF MarkInvoicePaidFails
<1>4. CASE Reread(c)
  <2>1. hook'[c] = 1
    BY <1>4 DEF Reread, IInv, TypeOK
  <2>. QED
    BY <1>0, <1>4, <2>1, InvMove DEF Reread, Goto, tableVars, telegramVars
<1>5. CASE RereadFails(c) \/ HooksDone(c)
  BY <1>0, <1>5, InvMove DEF RereadFails, HooksDone, Goto, tableVars, telegramVars
<1>6. CASE InvokeHook(c)
  <2>1. UNCHANGED <<status, charge, invoice, phase, update, pc>>
    BY <1>6 DEF InvokeHook, tableVars, telegramVars
  <2>2. CheckoutInv' /\ ChargeInv' /\ HandlerOwnsPayment'
    BY <2>1 DEF IInv, CheckoutInv, ChargeInv, HandlerOwnsPayment
  <2>3. CallsInv'
    <3>. SUFFICES ASSUME NEW p \in Payment, NEW h \in Hooks, calls'[p][h] # 0
                  PROVE  /\ calls'[p][h] = 1 /\ status[p] = "paid"
                         /\ pc[charge[p]] # "reread"
                         /\ pc[charge[p]] = "hooks" => h < hook'[charge[p]]
      BY <2>1 DEF CallsInv
    <3>1. CASE p = invoice[c] /\ h = hook[c]
      <4>1. charge[p] = c /\ pc[c] = "hooks"
        BY <1>6, <3>1 DEF InvokeHook, IInv, HandlerOwnsPayment
      <4>2. calls'[p][h] = 1 /\ status[p] = "paid"
        BY <1>6, <3>1, InvCall DEF IInv, TypeOK
      <4>3. h < hook'[c]
        BY <1>6, <3>1, NumHooksType DEF InvokeHook, IInv, TypeOK, Hooks
      <4>. QED
        BY <4>1, <4>2, <4>3
    <3>2. CASE ~(p = invoice[c] /\ h = hook[c])
      <4>1. calls'[p][h] = calls[p][h]
        BY <1>6, <3>2, InvCall DEF IInv, TypeOK
      <4>2. charge[p] \in Charge
        BY <4>1 DEF IInv, CallsInv, ChargeInv
      <4>. QED
        BY <1>6, <4>1, <4>2, NumHooksType DEF InvokeHook, IInv, CallsInv, TypeOK, Hooks
    <3>. QED
      BY <3>1, <3>2
  <2>. QED
    BY <1>0, <2>2, <2>3 DEF IInv
<1>. QED
  BY <1>1, <1>2, <1>3, <1>4, <1>5, <1>6 DEF HandlerStep

\* A crash only takes tasks away.
LEMMA InvCrash ==
    ASSUME IInv, Crash
    PROVE  IInv'
<1>1. TypeOK'
  BY TypeCrash DEF IInv
<1>2. \A d \in Charge : pc'[d] \in {"idle", pc[d]} \ {"reread", "hooks"}
  BY DEF Crash, IInv, TypeOK, Waiting, Finished
<1>3. \A d \in Charge : /\ phase[d] = "collected" <=> phase'[d] = "collected"
                        /\ phase[d] = "unused" <=> phase'[d] = "unused"
                        /\ update[d] = "none" <=> update'[d] = "none"
  BY DEF Crash, IInv, TypeOK
<1>4. UNCHANGED <<status, charge, invoice, calls>>
  BY DEF Crash, tableVars
<1>5. CheckoutInv'
  BY <1>2, <1>3, <1>4 DEF IInv, CheckoutInv
<1>6. ChargeInv'
  BY <1>3, <1>4 DEF IInv, ChargeInv
<1>7. HandlerOwnsPayment'
  BY <1>2, <1>4 DEF IInv, HandlerOwnsPayment
<1>8. CallsInv'
  <2>. SUFFICES ASSUME NEW p \in Payment, NEW h \in Hooks, calls[p][h] # 0
                PROVE  /\ calls[p][h] = 1 /\ status[p] = "paid"
                       /\ pc'[charge[p]] \notin {"reread", "hooks"}
    BY <1>4 DEF CallsInv
  <2>. QED
    BY <1>2 DEF IInv, CallsInv, ChargeInv
<1>. QED
  BY <1>1, <1>5, <1>6, <1>7, <1>8 DEF IInv

LEMMA InvNext == IInv /\ [Next]_vars => IInv'
<1>. SUFFICES ASSUME IInv, [Next]_vars
              PROVE  IInv'
  OBVIOUS
<1>1. CASE UNCHANGED vars
  BY <1>1 DEF vars, tableVars, telegramVars, handlerVars, IInv, TypeOK, TableTypeOK,
              CheckoutInv, ChargeInv, HandlerOwnsPayment, CallsInv
<1>. QED
  BY <1>1, InvInvoice, InvTelegram, InvHandler, InvCrash DEF Next

LEMMA Invariant == Spec => []IInv
<1>. QED
  BY InvInit, InvNext, PTL DEF Spec

-----------------------------------------------------------------------------
\* Each callback runs at most once per payment, for any number of charges,
\* callbacks, crashes and failed statements (process_successful_payment).
THEOREM HooksOnce == Spec => []HooksAtMostOnce
<1>. QED
  BY Invariant, InvImplies, PTL

\* Two tasks never run the callbacks of one payment.
THEOREM OwnedByOne == Spec => []HandlerOwnsPayment
<1>. QED
  BY Invariant, InvImplies, PTL

\* A paid row names the charge Telegram collected for it.
THEOREM PaidIsCollected == Spec => []PaidMeansCollected
<1>. QED
  BY Invariant, InvImplies, PTL

\* A checkout of a settled invoice that has not been validated stays refused.
Refused(c, p) ==
    status[p] = "paid" /\ invoice[c] = p /\ phase[c] \in {"query", "refuse", "declined"}

LEMMA RefusedKept ==
    ASSUME IInv, [Next]_vars, NEW c \in Charge, NEW p \in Payment, Refused(c, p)
    PROVE  Refused(c, p)'
<1>. USE DEF IInv, TypeOK, TableTypeOK
<1>1. ASSUME NEW q \in Payment, InvoiceStep(q)
      PROVE  Refused(c, p)'
  BY <1>1 DEF InvoiceStep, CreateInvoiceRow, CreateInvoiceLink, CreateInvoiceLinkFails, CreatePending,
     tableVars, telegramVars, Refused
<1>2. ASSUME NEW d \in Charge, TelegramStep(d)
      PROVE  Refused(c, p)'
  <2>1. UNCHANGED status
    BY <1>2 DEF TelegramStep, Checkout, ValidatePreCheckout, PreCheckoutLookupFails, AnswerPreCheckout,
       PreCheckoutTimesOut, Collect, Fetch, Confirm, tableVars
  <2>2. invoice'[c] = invoice[c]
    BY <1>2 DEF TelegramStep, Checkout, ValidatePreCheckout, PreCheckoutLookupFails, AnswerPreCheckout,
       PreCheckoutTimesOut, Collect, Fetch, Confirm, Refused
  <2>3. phase'[c] \in {"query", "refuse", "declined"}
    BY <1>2 DEF TelegramStep, Checkout, ValidatePreCheckout, PreCheckoutLookupFails, AnswerPreCheckout,
       PreCheckoutTimesOut, Collect, Fetch, Confirm, AcceptsPreCheckout, Refused
  <2>. QED
    BY <2>1, <2>2, <2>3 DEF Refused
<1>3. ASSUME NEW d \in Charge, HandlerStep(d)
      PROVE  Refused(c, p)'
  <2>1. UNCHANGED <<invoice, phase>>
    BY <1>3 DEF HandlerStep, PassGates, GatesSwallow, CheckExists, CheckExistsFails, MarkInvoicePaid,
       MarkInvoicePaidFails, Reread, RereadFails, InvokeHook, HooksDone, telegramVars
  <2>2. UNCHANGED tableVars \/ MarkPaid(invoice[d], d)
    BY <1>3 DEF HandlerStep, PassGates, GatesSwallow, CheckExists, CheckExistsFails, MarkInvoicePaid,
       MarkInvoicePaidFails, Reread, RereadFails, InvokeHook, HooksDone
  <2>3. status'[p] = "paid"
    BY <2>2 DEF MarkPaid, UpdatePending, Matched, tableVars, Refused
  <2>. QED
    BY <2>1, <2>3 DEF Refused
<1>4. CASE Crash
  BY <1>4 DEF Crash, tableVars, Refused
<1>5. CASE UNCHANGED vars
  BY <1>5 DEF vars, tableVars, telegramVars, Refused
<1>. QED
  BY <1>1, <1>2, <1>3, <1>4, <1>5 DEF Next

\* on_pre_checkout turns the checkouts of a settled invoice away: none that it
\* has not validated by then is ever charged.
THEOREM SettledIsRefused == Spec => SettledInvoiceRefused
<1>1. ASSUME NEW c \in Charge, NEW p \in Payment
      PROVE  Spec => [](status[p] = "paid" /\ invoice[c] = p /\ phase[c] = "query"
                          => [](phase[c] # "collected"))
  <2>1. status[p] = "paid" /\ invoice[c] = p /\ phase[c] = "query" => Refused(c, p)
    BY DEF Refused
  <2>2. IInv /\ [Next]_vars /\ Refused(c, p) => Refused(c, p)'
    BY RefusedKept
  <2>3. Refused(c, p) => phase[c] # "collected"
    BY DEF Refused
  <2>. QED
    BY <2>1, <2>2, <2>3, Invariant, PTL DEF Spec
<1>. QED
  BY <1>1 DEF SettledInvoiceRefused

\* A recorded charge is never overwritten (the WHERE clause of mark_paid).
THEOREM ChargeNeverOverwritten == Spec => FirstChargeKept
<1>1. ASSUME IInv, [Next]_vars, NEW p \in Payment, charge[p] # NoCharge
      PROVE  charge'[p] = charge[p] /\ status'[p] = status[p]
  <2>1. status[p] = "paid"
    BY <1>1 DEF IInv, ChargeInv, TypeOK, TableTypeOK
  <2>2. CASE UNCHANGED tableVars
    BY <2>2 DEF tableVars
  <2>3. ASSUME NEW q \in Payment, CreatePending(q)
        PROVE  charge'[p] = charge[p] /\ status'[p] = status[p]
    BY <1>1, <2>1, <2>3 DEF CreatePending, IInv, TypeOK, TableTypeOK
  <2>4. ASSUME NEW c \in Charge, MarkPaid(invoice[c], c)
        PROVE  charge'[p] = charge[p] /\ status'[p] = status[p]
    BY <1>1, <2>1, <2>4 DEF MarkPaid, UpdatePending, Matched, IInv, TypeOK, TableTypeOK
  <2>. QED
    BY <1>1, <2>2, <2>3, <2>4
       DEF Next, vars, InvoiceStep, TelegramStep, HandlerStep, Crash,
           CreateInvoiceRow, CreateInvoiceLink, CreateInvoiceLinkFails, Checkout,
           ValidatePreCheckout, PreCheckoutLookupFails, AnswerPreCheckout, PreCheckoutTimesOut,
           Collect, Fetch, Confirm, PassGates, GatesSwallow, CheckExists, CheckExistsFails,
           MarkInvoicePaid, MarkInvoicePaidFails, Reread, RereadFails, InvokeHook, HooksDone
<1>2. IInv /\ [Next]_vars =>
        [\A p \in Payment :
            charge[p] # NoCharge => charge'[p] = charge[p] /\ status'[p] = status[p]]_vars
  BY <1>1
<1>. QED
  BY <1>2, Invariant, PTL DEF Spec, FirstChargeKept

-----------------------------------------------------------------------------
\* Every step of the Stars code is a step of the ledger or leaves it alone.
LEMMA StepImplementsLedger ==
    ASSUME IInv, [Next]_vars
    PROVE  [Ledger!Next]_(Ledger!vars)
<1>1. CASE UNCHANGED <<status, calls>>
  BY <1>1 DEF Ledger!vars
<1>2. ASSUME NEW p \in Payment, CreatePending(p), UNCHANGED calls
      PROVE  Ledger!Next
  BY <1>2 DEF CreatePending, Ledger!Next, Ledger!Open
<1>3. ASSUME NEW c \in Charge, pc[c] = "markPaid", MarkPaid(invoice[c], c), UNCHANGED calls
      PROVE  [Ledger!Next]_(Ledger!vars)
  <2>1. invoice[c] \in Payment
    BY <1>3 DEF IInv, CheckoutInv
  <2>2. CASE status[invoice[c]] = "pending"
    <3>1. Ledger!Settle(invoice[c], "paid")
      BY <1>3, <2>2 DEF MarkPaid, UpdatePending, Matched, Ledger!Settle
    <3>. QED
      BY <2>1, <3>1 DEF Ledger!Next, Terminal
  <2>3. CASE status[invoice[c]] # "pending"
    <3>1. UNCHANGED status
      BY <1>3, <2>3 DEF MarkPaid, UpdatePending, Matched, IInv, TypeOK, TableTypeOK
    <3>. QED
      BY <1>3, <3>1 DEF Ledger!vars
  <2>. QED
    BY <2>2, <2>3
<1>4. ASSUME NEW c \in Charge, InvokeHook(c)
      PROVE  Ledger!Next
  <2>1. Ledger!Call(invoice[c], hook[c])
    BY <1>4, InvCall DEF Ledger!Call, InvokeHook, tableVars, Terminal
  <2>2. invoice[c] \in Payment /\ hook[c] \in Hooks
    BY <1>4, InvCall DEF InvokeHook
  <2>. QED
    BY <2>1, <2>2 DEF Ledger!Next
<1>. QED
  BY <1>1, <1>2, <1>3, <1>4
     DEF Next, vars, tableVars, InvoiceStep, TelegramStep, HandlerStep, Crash,
         CreateInvoiceRow, CreateInvoiceLink, CreateInvoiceLinkFails, Checkout,
         ValidatePreCheckout, PreCheckoutLookupFails, AnswerPreCheckout, PreCheckoutTimesOut,
         Collect, Fetch, Confirm, PassGates, GatesSwallow, CheckExists, CheckExistsFails,
         MarkInvoicePaid, MarkInvoicePaidFails, Reread, RereadFails, HooksDone

\* The Stars service keeps the promise of PaymentLedger: one way statuses,
\* callbacks after the commit, each at most once.
THEOREM RefinesLedger == Spec => ImplementsLedger
<1>1. Init => Ledger!Init
  BY DEF Init, TableInit, Ledger!Init
<1>2. IInv /\ [Next]_vars => [Ledger!Next]_(Ledger!vars)
  BY StepImplementsLedger
<1>. QED
  BY <1>1, <1>2, Invariant, PTL DEF Spec, ImplementsLedger, Ledger!Spec
=============================================================================
