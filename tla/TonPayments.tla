---------------------------- MODULE TonPayments ----------------------------
(***************************************************************************)
(* TON payments: create_ton_payment (app/features/payments/ton.py), the    *)
(* user's transfers as the TonCenter indexer shows them                    *)
(* (app/features/payments/ton_api.py) and the poller ton_payments_poll     *)
(* (app/scheduler/tasks.py), cut at its awaits.  Time is in minutes.       *)
(*                                                                         *)
(* The scheduler runs one pass at a time (max_instances=1), so a pass is   *)
(* a single process with a program counter; what interleaves with it is    *)
(* the clock, the chain, new payments, failures and crashes.               *)
(***************************************************************************)
EXTENDS PaymentsRepo, Integers, Sequences, FiniteSets

CONSTANTS
    PendingTTL,     \* PENDING_TTL, stamped into expires_at
    PollTTL,        \* TON_PENDING_TTL, the poller's own copy of it
    PageLimit,      \* transactions per TonCenter answer
    MaxTime,        \* bound on the clock
    MaxFaults       \* bound on crashes and failed calls together

ASSUME TTLType == PendingTTL \in Nat /\ PollTTL \in Nat
ASSUME PollTTLCovers == PollTTL >= PendingTTL
ASSUME BoundsType == PageLimit \in Nat /\ MaxTime \in Nat /\ MaxFaults \in Nat
\* A transaction's hash is its position on the chain.
ASSUME HashesArePositions == Charge \subseteq Nat \ {0} /\ NoCharge \notin Nat

VARIABLES
    clock,
    createdAt,  \* payment -> payments.created_at
    expiresAt,  \* payment -> payments.expires_at
    creating,   \* payments whose signing request is not out yet
    asked,      \* payments whose signing request reached a wallet
    chain,      \* incoming transactions, oldest first
    indexed,    \* how many of them TonCenter can return
    step,       \* where the poller stands
    now,        \* the pass's single reading of the clock
    todo,       \* rows of the pass not handled yet
    cur,        \* the row being handled
    goal,       \* the status that row is about to get
    found,      \* the transaction that decided it
    calls,      \* payment -> on_<status> callback -> number of calls
    told,       \* payment -> status the user was told of
    faults

rowVars == <<tableVars, createdAt, expiresAt>>
walletVars == <<creating, asked>>
chainVars == <<chain, indexed>>
passVars == <<now, todo, cur, goal, found>>
effectVars == <<calls, told>>
vars == <<clock, rowVars, walletVars, chainVars, step, passVars, effectVars, faults>>

NoPayment == "none"
ASSUME NoPaymentIsNotAPayment == NoPayment \notin Payment

Transaction == [memo: Payment \cup {NoPayment}, exact: BOOLEAN, at: Nat]
Step == {"idle", "next", "settle", "reread", "hooks", "notify"}

Init ==
    /\ TableInit
    /\ clock = 0
    /\ createdAt = [p \in Payment |-> 0]
    /\ expiresAt = [p \in Payment |-> 0]
    /\ creating = {}
    /\ asked = {}
    /\ chain = <<>>
    /\ indexed = 0
    /\ step = "idle"
    /\ now = 0
    /\ todo = {}
    /\ cur = NoPayment
    /\ goal = "none"
    /\ found = NoCharge
    /\ calls = [p \in Payment |-> [h \in Terminal |-> 0]]
    /\ told = [p \in Payment |-> "none"]
    /\ faults = 0

Fault ==
    /\ faults < MaxFaults
    /\ faults' = faults + 1

Tick ==
    /\ clock < MaxTime
    /\ clock' = clock + 1
    /\ UNCHANGED <<rowVars, walletVars, chainVars, step, passVars, effectVars, faults>>

-----------------------------------------------------------------------------
(* create_ton_payment, for a user whose wallet is bound. *)

CreateTonRow(p) ==
    /\ CreatePending(p)
    /\ createdAt' = [createdAt EXCEPT ![p] = clock]
    /\ expiresAt' = [expiresAt EXCEPT ![p] = clock + PendingTTL]
    /\ creating' = creating \cup {p}
    /\ UNCHANGED <<clock, asked, chainVars, step, passVars, effectVars, faults>>

SendTransaction(p) ==
    /\ p \in creating
    /\ creating' = creating \ {p}
    /\ asked' = asked \cup {p}
    /\ UNCHANGED <<clock, rowVars, chainVars, step, passVars, effectVars, faults>>

\* Audited and re-raised; the pending row stays for the poller.
SendTransactionFails(p) ==
    /\ p \in creating
    /\ Fault
    /\ creating' = creating \ {p}
    /\ UNCHANGED <<clock, rowVars, asked, chainVars, step, passVars, effectVars>>

-----------------------------------------------------------------------------
(* The chain: a transfer carries the comment of a payment whose request was *)
(* shown, or another comment; the indexer follows the chain in order.       *)

Transfer(memo, exact) ==
    /\ Len(chain) + 1 \in Charge
    /\ memo \in asked \/ (memo = NoPayment /\ ~exact)
    /\ chain' = Append(chain, [memo |-> memo, exact |-> exact, at |-> clock])
    /\ UNCHANGED <<clock, rowVars, walletVars, indexed, step, passVars, effectVars, faults>>

Index ==
    /\ indexed < Len(chain)
    /\ indexed' = indexed + 1
    /\ UNCHANGED <<clock, rowVars, walletVars, chain, step, passVars, effectVars, faults>>

\* get_incoming_transactions(after = created_at - 60 s, limit, sort asc): one
\* page, the oldest transactions first, whatever their comments are.
Page(p) ==
    LET Since == {k \in 1..indexed : chain[k].at >= createdAt[p] - 1}
    IN  {k \in Since : Cardinality({j \in Since : j <= k}) <= PageLimit}

Matches(p) == {k \in Page(p) : chain[k].memo = p}

\* MUTANT: the newest match is taken instead of the oldest.
FindByPayloadNewest(p) ==
    IF Matches(p) = {} THEN NoCharge
    ELSE CHOOSE k \in Matches(p) : \A j \in Matches(p) : j <= k

FindByPayload(p) ==
    IF Matches(p) = {} THEN NoCharge
    ELSE CHOOSE k \in Matches(p) : \A j \in Matches(p) : k <= j

-----------------------------------------------------------------------------
(* ton_payments_poll *)

FindPendingTon(t) == {p \in Payment : status[p] = "pending" /\ expiresAt[p] > t}

StartPoll ==
    /\ step = "idle"
    /\ FindPendingTon(clock) # {}
    /\ step' = "next"
    /\ now' = clock
    /\ todo' = FindPendingTon(clock)
    /\ UNCHANGED <<clock, rowVars, walletVars, chainVars, cur, goal, found, effectVars, faults>>

StartPollFails ==
    /\ step = "idle"
    /\ Fault
    /\ UNCHANGED <<clock, rowVars, walletVars, chainVars, step, passVars, effectVars>>

\* The locals of the pass go with it.
PassForgotten ==
    /\ now' = 0
    /\ todo' = {}
    /\ cur' = NoPayment
    /\ goal' = "none"
    /\ found' = NoCharge

EndPoll ==
    /\ step = "next"
    /\ todo = {}
    /\ step' = "idle"
    /\ PassForgotten
    /\ UNCHANGED <<clock, rowVars, walletVars, chainVars, effectVars, faults>>

WindowClosed(p) == createdAt[p] + PollTTL <= now

\* The branch _process_ton_payment takes for the answer k of find_by_payload
\* (NoCharge: none, or the call failed): "none" leaves the row pending.
Verdict(p, k) ==
    IF k # NoCharge THEN IF chain[k].exact THEN "paid" ELSE "mismatch"
    ELSE IF WindowClosed(p) THEN "expired"
    ELSE "none"

Decide(p, k) ==
    /\ step = "next"
    /\ p \in todo
    /\ todo' = todo \ {p}
    /\ cur' = p
    /\ goal' = Verdict(p, k)
    /\ found' = k
    /\ step' = IF Verdict(p, k) = "none" THEN "next" ELSE "settle"
    /\ UNCHANGED <<clock, rowVars, walletVars, chainVars, now, effectVars>>

Lookup(p) == Decide(p, FindByPayload(p)) /\ UNCHANGED faults

LookupFails(p) == Decide(p, NoCharge) /\ Fault

\* mark_paid, mark_mismatch or mark_expired of the current row.
MarkCurrent == UpdatePending(cur, goal, found)

Settle ==
    /\ step = "settle"
    /\ MarkCurrent
    /\ step' = IF Matched(cur) THEN "reread" ELSE "next"
    /\ UNCHANGED <<clock, createdAt, expiresAt, walletVars, chainVars, passVars, effectVars, faults>>

\* MUTANT: the except branch of the update forgets to return.
SettleFailsAndGoesOn ==
    /\ step = "settle"
    /\ Fault
    /\ \/ UNCHANGED tableVars
       \/ MarkCurrent
    /\ step' = "reread"
    /\ UNCHANGED <<clock, createdAt, expiresAt, walletVars, chainVars, passVars, effectVars>>

\* The statement raises before it ran, or after it committed.
SettleFails ==
    /\ step = "settle"
    /\ Fault
    /\ \/ UNCHANGED tableVars
       \/ MarkCurrent
    /\ step' = "next"
    /\ UNCHANGED <<clock, createdAt, expiresAt, walletVars, chainVars, passVars, effectVars>>

\* MUTANT: the pass goes on with the next row without the callbacks.
RereadAndSkipHooks ==
    /\ step = "reread"
    /\ step' = "next"
    /\ UNCHANGED <<clock, rowVars, walletVars, chainVars, passVars, effectVars, faults>>

RereadRow ==
    /\ step = "reread"
    /\ step' = "hooks"
    /\ UNCHANGED <<clock, rowVars, walletVars, chainVars, passVars, effectVars, faults>>

\* Not guarded in the poller's helpers: the pass catches it and takes the
\* next row.
RereadRowFails ==
    /\ step = "reread"
    /\ Fault
    /\ step' = "next"
    /\ UNCHANGED <<clock, rowVars, walletVars, chainVars, passVars, effectVars>>

\* invoke_hooks swallows what a callback raises.
InvokeHooks ==
    /\ step = "hooks"
    /\ calls' = [calls EXCEPT ![cur][goal] = @ + 1]
    /\ step' = "notify"
    /\ UNCHANGED <<clock, rowVars, walletVars, chainVars, passVars, told, faults>>

\* _notify_user never raises: the message is sent or it is not.
NotifyUser ==
    /\ step = "notify"
    /\ \/ told' = [told EXCEPT ![cur] = goal]
       \/ UNCHANGED told
    /\ step' = "next"
    /\ UNCHANGED <<clock, rowVars, walletVars, chainVars, passVars, calls, faults>>

Crash ==
    /\ Fault
    /\ creating' = {}
    /\ step' = "idle"
    /\ PassForgotten
    /\ UNCHANGED <<clock, rowVars, asked, chainVars, effectVars>>

PollStep ==
    \/ EndPoll
    \/ \E p \in Payment : Lookup(p) \/ LookupFails(p)
    \/ Settle
    \/ SettleFails
    \/ RereadRow
    \/ RereadRowFails
    \/ InvokeHooks
    \/ NotifyUser

Next ==
    \/ Tick
    \/ \E p \in Payment : CreateTonRow(p) \/ SendTransaction(p) \/ SendTransactionFails(p)
    \/ \E memo \in Payment \cup {NoPayment}, exact \in BOOLEAN : Transfer(memo, exact)
    \/ Index
    \/ StartPoll
    \/ StartPollFails
    \/ PollStep
    \/ Crash

Spec == Init /\ [][Next]_vars

\* APScheduler starts a pass every minute and the event loop finishes it.
FairSpec == Spec /\ WF_vars(Tick) /\ WF_vars(StartPoll) /\ WF_vars(PollStep)

-----------------------------------------------------------------------------
\* Every column, local and counter stays in its domain: expires_at is a time
\* after the epoch, a row gets only statuses the schema knows, and a charge is
\* a transaction that is on the chain.
TypeOK ==
    /\ TableTypeOK
    /\ clock \in 0..MaxTime
    /\ createdAt \in [Payment -> Nat]
    /\ expiresAt \in [Payment -> Nat]
    /\ creating \subseteq Payment
    /\ asked \subseteq Payment
    /\ chain \in Seq(Transaction)
    /\ indexed \in 0..Len(chain)
    /\ step \in Step
    /\ now \in 0..MaxTime
    /\ todo \subseteq Payment
    /\ cur \in Payment \cup {NoPayment}
    /\ goal \in Terminal \cup {"none"}
    /\ found \in Charge \cup {NoCharge}
    /\ calls \in [Payment -> [Terminal -> Nat]]
    /\ told \in [Payment -> Terminal \cup {"none"}]
    /\ faults \in 0..MaxFaults

\* The first transfer that carries a payment's comment decides it, for good:
\* a right amount sent after a wrong one does not make it paid.
FirstTransferDecides ==
    \A p \in Payment :
        status[p] \in {"paid", "mismatch"} =>
            /\ charge[p] \in 1..indexed
            /\ chain[charge[p]].memo = p
            /\ chain[charge[p]].exact <=> status[p] = "paid"
            /\ \A k \in 1..(charge[p] - 1) : chain[k].memo # p

\* Callbacks and notice follow the commit: only the callback of the committed
\* status is called, once, and the user is told of that status after it.
EffectsFollowCommit ==
    \A p \in Payment :
        /\ \A h \in Terminal : calls[p][h] = 0 \/ (calls[p][h] = 1 /\ status[p] = h)
        /\ told[p] # "none" => told[p] = status[p] /\ calls[p][told[p]] = 1

\* A payment that a pass selected while its transfer is on the page settles
\* and has its callback called, unless something fails or the process dies.
SelectedTransferSettles ==
    \A p \in Payment :
        p \in todo /\ Matches(p) # {} ~>
            \/ faults > 0
            \/ status[p] \in Terminal /\ calls[p][status[p]] = 1

\* The poller's docstring and requirement 13.4: without a match a row whose 15
\* minutes are over is marked expired; with one it is settled as paid or as a
\* mismatch.  Either way it does not stay pending.
ClosedWindowExpires ==
    \A p \in Payment :
        status[p] = "pending" /\ createdAt[p] + PollTTL <= clock ~>
            \/ faults > 0
            \/ status[p] # "pending"

Ledger == INSTANCE PaymentLedger WITH
    Outcome <- Terminal,
    Hook <- Terminal,
    HooksOf <- [o \in Terminal |-> {o}]

\* The poller and the payments table implement the ledger.
ImplementsLedger == Ledger!Spec
=============================================================================
