------------------------------ MODULE Referrals ------------------------------
(***************************************************************************)
(* How an invited user earns the inviter one referral: the referrer        *)
(* written at registration (app/core/services/registration.py), the gates  *)
(* the user has to pass - the captcha, seen here only as far as it decides *)
(* about the credit (module AccessGate has all of it), and the mandatory   *)
(* subscriptions (app/features/subscriptions/middleware.py, handlers.py    *)
(* and, in module Subscriptions, checker.py) - and the attempts to settle  *)
(* the credit (app/features/referrals/crediting.py and                     *)
(* UsersRepo.try_credit_referral).                                         *)
(*                                                                         *)
(* One invitee, whose updates are tasks cut at their awaits.  A start is   *)
(* /start ref_<id> of a known inviter: it opens the chat, and may come     *)
(* again.  A press is a press of the right captcha button, a message is    *)
(* anything the subscription gate does not bypass.  The scenario fixes the *)
(* feature flags, and whether the user sends slash commands, which the     *)
(* gate saves, or free text.                                               *)
(***************************************************************************)
EXTENDS Subscriptions, Integers

CONSTANTS
    Scenarios,  \* triples of feature_antispam, feature_subscriptions, slash commands
    NoTask,
    MaxFaults   \* bound on lost answers, exceptions and crashes

ASSUME NoTaskIsNone == NoTask \notin Task
ASSUME MaxFaultsNat == MaxFaults \in Nat
ASSUME ScenariosAreTriples == Scenarios \subseteq BOOLEAN \X BOOLEAN \X BOOLEAN

VARIABLES
    captchaOn,  \* feature_antispam
    subsOn,     \* feature_subscriptions
    slashes,    \* the user's messages are slash commands
    status,     \* users.status, "absent" before the first update
    referrer,   \* users.referrer_id is set
    credited,   \* users.referral_credited_at is set
    count,      \* what this invitee has added to users.referrals_count of the inviter
    lock,       \* the task whose transaction has stamped the row, not yet committed
    challenge,  \* a captcha waits for its answer
    asked,      \* a captcha keyboard is in the chat
    shown,      \* a recheck button is in the chat
    pending,    \* pending_cmd is in the conversation's data
    kind,       \* task -> which update it handles
    row,        \* task -> the row it loaded on arrival
    goal,       \* task -> what its check is for
    gated,      \* history: the captcha gate has written pending_captcha
    vetted,     \* history: a right answer was accepted, or an admin stepped in
    early,      \* history: tasks whose attempt read the row before the gate wrote
    unverified, \* history: channels nobody could verify when the credit was settled
    unread,     \* history: no recheck has read the last command saved
    faults

configVars == <<captchaOn, subsOn, slashes>>
rowVars == <<status, referrer, credited, count, lock>>
captchaVars == <<challenge, asked, gated, vetted>>
commandVars == <<shown, pending, unread>>
localVars == <<kind, row, goal, early>>
checkerVars == <<telegramVars, cached, checkVars>>
vars == <<configVars, rowVars, captchaVars, commandVars, localVars, pc, checkerVars,
          unverified, faults>>

Kind == {"start", "message", "press", "recheck"}
Goal == {"none", "gate", "recheck", "credit"}
Status == {"absent", "active", "pending_captcha"}
Settling == {"credit", "stamp", "commit"}
Label == CheckLabel \cup Settling \cup
         {"idle", "refer", "antispam", "setPending", "delete", "activate",
          "save", "getData", "setData"}
NoRow == [status |-> "absent", created |-> FALSE]

Init ==
    /\ \E s \in Scenarios : captchaOn = s[1] /\ subsOn = s[2] /\ slashes = s[3]
    /\ CheckInit
    /\ status = "absent"
    /\ referrer = FALSE
    /\ credited = FALSE
    /\ count = 0
    /\ lock = NoTask
    /\ challenge = FALSE
    /\ asked = FALSE
    /\ shown = FALSE
    /\ pending = FALSE
    /\ pc = [t \in Task |-> "idle"]
    /\ kind = [t \in Task |-> "message"]
    /\ row = [t \in Task |-> NoRow]
    /\ goal = [t \in Task |-> "none"]
    /\ gated = FALSE
    /\ vetted = FALSE
    /\ early = {}
    /\ unverified = {}
    /\ unread = FALSE
    /\ faults = 0

Goto(t, label) == pc' = [pc EXCEPT ![t] = label]

\* The tasks of S end; what they had loaded goes with them.
End(S) ==
    /\ pc' = [t \in Task |-> IF t \in S THEN "idle" ELSE pc[t]]
    /\ kind' = [t \in Task |-> IF t \in S THEN "message" ELSE kind[t]]
    /\ row' = [t \in Task |-> IF t \in S THEN NoRow ELSE row[t]]
    /\ goal' = [t \in Task |-> IF t \in S THEN "none" ELSE goal[t]]
    /\ todo' = [t \in Task |-> IF t \in S THEN {} ELSE todo[t]]
    /\ asking' = [t \in Task |-> IF t \in S THEN NoChannel ELSE asking[t]]
    /\ lacking' = [t \in Task |-> IF t \in S THEN {} ELSE lacking[t]]
    /\ skipped' = [t \in Task |-> IF t \in S THEN {} ELSE skipped[t]]
    /\ early' = early \ S
    /\ UNCHANGED <<telegramVars, cached>>

\* The copy of the row has served its purpose.
ForgetRow(t) == row' = [row EXCEPT ![t] = NoRow]

\* Nothing but the place of t.
OnlyGoto(t, label) ==
    /\ Goto(t, label)
    /\ UNCHANGED <<localVars, checkerVars>>

\* Check the channels for a purpose.
CheckFor(t, purpose) ==
    /\ BeginCheck(t)
    /\ goal' = [goal EXCEPT ![t] = purpose]
    /\ ForgetRow(t)
    /\ UNCHANGED <<telegramVars, cached, kind>>

\* The check found nothing missing.
Concluded(t, label) ==
    /\ Goto(t, label)
    /\ goal' = [goal EXCEPT ![t] = "none"]
    /\ UNCHANGED <<kind, row, early, checkerVars>>

-----------------------------------------------------------------------------
(* RegistrationMiddleware *)

Load(t, k, created) ==
    /\ pc[t] = "idle"
    /\ status = "absent" => k = "start"
    /\ k = "press" => asked
    /\ k = "recheck" => shown
    /\ status' = IF status = "absent" THEN "active" ELSE status
    /\ kind' = [kind EXCEPT ![t] = k]
    /\ row' = [row EXCEPT ![t] = [status |-> status', created |-> created]]
    /\ Goto(t, IF created /\ k = "start" THEN "refer" ELSE "antispam")
    /\ UNCHANGED <<configVars, referrer, credited, count, lock, captchaVars, commandVars,
                   goal, early, checkerVars, unverified>>

\* MUTANT: the answer is always taken for an existing row.
ArriveAsKnown(t, k) ==
    /\ Load(t, k, FALSE)
    /\ UNCHANGED faults

\* upsert_from_tg: of two racing inserts one is retried and finds the row.
Arrive(t, k) ==
    /\ Load(t, k, status = "absent")
    /\ UNCHANGED faults

\* The insert committed but its answer was lost: with_retry runs it again,
\* and the second run finds the row of the first.
ArriveRetried(t, k) ==
    /\ status = "absent"
    /\ faults < MaxFaults
    /\ faults' = faults + 1
    /\ Load(t, k, FALSE)

\* set_referrer; with a gate to pass the credit is left to the gates.
Refer(t) ==
    /\ pc[t] = "refer"
    /\ referrer' = TRUE
    /\ OnlyGoto(t, IF captchaOn \/ subsOn THEN "antispam" ELSE "credit")
    /\ UNCHANGED <<configVars, status, credited, count, lock, captchaVars, commandVars,
                   unverified, faults>>

-----------------------------------------------------------------------------
(* AntispamMiddleware and the captcha, as far as they matter here *)

AtAntispam(t) ==
    /\ pc[t] = "antispam"
    /\ UNCHANGED <<configVars, rowVars, commandVars, unverified, faults>>

\* The lockout or the rate limiter.
AntispamDrops(t) ==
    /\ AtAntispam(t)
    /\ captchaOn
    /\ kind[t] # "press"
    /\ End({t})
    /\ UNCHANGED captchaVars

MustAnswer(t) == captchaOn /\ (row[t].created \/ row[t].status = "pending_captcha")

\* Ask, or remind of the question already asked.
AntispamAsks(t) ==
    /\ AtAntispam(t)
    /\ kind[t] # "press"
    /\ MustAnswer(t)
    /\ challenge' = TRUE
    /\ asked' = TRUE
    /\ IF challenge \/ row[t].status = "pending_captcha" THEN End({t})
       ELSE /\ Goto(t, "setPending")
            /\ ForgetRow(t)
            /\ UNCHANGED <<kind, goal, early, checkerVars>>
    /\ UNCHANGED <<gated, vetted>>

\* On to the subscription gate, which a start and a recheck bypass, and to
\* the handlers: the recheck's checks again, the start's says hello.
Passes(t) ==
    /\ AtAntispam(t)
    /\ kind[t] # "press"
    /\ ~MustAnswer(t)
    /\ IF subsOn /\ kind[t] \in {"message", "recheck"}
       THEN CheckFor(t, IF kind[t] = "message" THEN "gate" ELSE "recheck") /\ UNCHANGED early
       ELSE End({t})
    /\ UNCHANGED captchaVars

\* MUTANT: a hash that is gone counts as answered.
PressTakesGoneForRight(t) ==
    /\ AtAntispam(t)
    /\ kind[t] = "press"
    /\ vetted' = (vetted \/ challenge)
    /\ Goto(t, "delete")
    /\ ForgetRow(t)
    /\ UNCHANGED <<kind, goal, early, checkerVars, challenge, asked, gated>>

\* verify_answer finds the hash and the answer is right; or the hash is gone.
PressLookup(t) ==
    /\ AtAntispam(t)
    /\ kind[t] = "press"
    /\ vetted' = (vetted \/ challenge)
    /\ IF challenge THEN /\ Goto(t, "delete")
                         /\ ForgetRow(t)
                         /\ UNCHANGED <<kind, goal, early, checkerVars>>
       ELSE End({t})
    /\ UNCHANGED <<challenge, asked, gated>>

PressDelete(t) ==
    /\ pc[t] = "delete"
    /\ challenge' = FALSE
    /\ OnlyGoto(t, "activate")
    /\ UNCHANGED <<configVars, rowVars, asked, gated, vetted, commandVars, unverified, faults>>

\* set_status(active), then on_passed: an attempt to settle the credit.
Activate(t) ==
    /\ pc[t] = "activate"
    /\ status' = "active"
    /\ OnlyGoto(t, "credit")
    /\ UNCHANGED <<configVars, referrer, credited, count, lock, captchaVars, commandVars,
                   unverified, faults>>

SetPending(t) ==
    /\ pc[t] = "setPending"
    /\ status' = "pending_captcha"
    /\ gated' = TRUE
    /\ End({t})
    /\ UNCHANGED <<configVars, referrer, credited, count, lock, challenge, asked, vetted,
                   commandVars, unverified, faults>>

-----------------------------------------------------------------------------
(* SubscriptionsMiddleware and handle_recheck *)

CheckedFor(t, purpose) ==
    /\ Checked(t)
    /\ goal[t] = purpose
    /\ UNCHANGED <<configVars, rowVars, captchaVars, unverified, faults>>

GatePasses(t) ==
    /\ CheckedFor(t, "gate")
    /\ lacking[t] = {}
    /\ End({t})
    /\ UNCHANGED commandVars

GateBlocks(t) ==
    /\ CheckedFor(t, "gate")
    /\ lacking[t] # {}
    /\ OnlyGoto(t, "save")
    /\ UNCHANGED commandVars

\* A slash command is kept for the recheck, free text is not; a failure to
\* keep it is only logged.  Then the keyboard with the recheck button.
\* update_data reads the data and writes it back with the command set: what
\* was written in between is lost from the other fields, never from this one,
\* so that one step is enough here.
SaveCommand(t) ==
    /\ pc[t] = "save"
    /\ \E saved \in {FALSE, slashes} : pending' = (pending \/ saved) /\ unread' = (unread \/ saved)
    /\ shown' = TRUE
    /\ End({t})
    /\ UNCHANGED <<configVars, rowVars, captchaVars, unverified, faults>>

\* MUTANT: the refused recheck clears the command as well.
RecheckRefusesAndClears(t) ==
    /\ CheckedFor(t, "recheck")
    /\ lacking[t] # {}
    /\ pending' = FALSE
    /\ End({t})
    /\ UNCHANGED <<shown, unread>>

RecheckRefuses(t) ==
    /\ CheckedFor(t, "recheck")
    /\ lacking[t] # {}
    /\ End({t})
    /\ UNCHANGED commandVars

RecheckConfirms(t) ==
    /\ CheckedFor(t, "recheck")
    /\ lacking[t] = {}
    /\ Concluded(t, "getData")
    /\ UNCHANGED commandVars

\* MUTANT: a confirmed recheck leaves the credit to the captcha.
GetDataAndRender(t) ==
    /\ pc[t] = "getData"
    /\ unread' = FALSE
    /\ pending' = FALSE
    /\ End({t})
    /\ UNCHANGED <<configVars, rowVars, captchaVars, shown, unverified, faults>>

\* get_data: the command found there is announced at the end.
GetData(t) ==
    /\ pc[t] = "getData"
    /\ unread' = FALSE
    /\ OnlyGoto(t, IF pending THEN "setData" ELSE "credit")
    /\ UNCHANGED <<configVars, rowVars, captchaVars, shown, pending, unverified, faults>>

\* set_data writes back what get_data read, less the command: a command
\* saved meanwhile is lost with it.
SetData(t) ==
    /\ pc[t] = "setData"
    /\ pending' = FALSE
    /\ OnlyGoto(t, "credit")
    /\ UNCHANGED <<configVars, rowVars, captchaVars, shown, unread, unverified, faults>>

\* get_data or set_data raises, and is suppressed.
DataFails(t) ==
    /\ pc[t] \in {"getData", "setData"}
    /\ faults < MaxFaults
    /\ faults' = faults + 1
    /\ OnlyGoto(t, "credit")
    /\ UNCHANGED <<configVars, rowVars, captchaVars, commandVars, unverified>>

-----------------------------------------------------------------------------
(* ReferralCreditingService.try_credit *)

\* The attempt is over: a start goes on through the middlewares, a press or a
\* recheck is answered.  Whatever came of it, nobody but the log is told.
AfterCredit(t) ==
    IF kind[t] = "start" THEN OnlyGoto(t, "antispam") ELSE End({t})

AtCredit(t, label) ==
    /\ pc[t] = label
    /\ UNCHANGED <<configVars, captchaVars, commandVars, faults>>

\* MUTANT: the captcha is not looked at again.
GatesOpenByReferrer == referrer /\ ~credited

GatesOpen == referrer /\ ~credited /\ (captchaOn => status = "active")

\* get_by_tg_id: no referrer, already credited, or the captcha is pending.
CreditRefused(t) ==
    /\ AtCredit(t, "credit")
    /\ ~GatesOpen
    /\ AfterCredit(t)
    /\ UNCHANGED <<rowVars, unverified>>

CreditLookup(t) ==
    /\ AtCredit(t, "credit")
    /\ GatesOpen
    /\ early' = IF gated THEN early ELSE early \cup {t}
    /\ IF subsOn THEN CheckFor(t, "credit")
       ELSE Goto(t, "stamp") /\ UNCHANGED <<kind, row, goal, checkerVars>>
    /\ UNCHANGED <<rowVars, unverified>>

CreditLacks(t) ==
    /\ CheckedFor(t, "credit")
    /\ lacking[t] # {}
    /\ AfterCredit(t)
    /\ UNCHANGED commandVars

CreditChecked(t) ==
    /\ CheckedFor(t, "credit")
    /\ lacking[t] = {}
    /\ Concluded(t, "stamp")
    /\ UNCHANGED commandVars

\* MUTANT: the stamp is written by the primary key alone, after the test.
StampUnconditionally(t) ==
    /\ AtCredit(t, "stamp")
    /\ lock = NoTask
    /\ lock' = t
    /\ OnlyGoto(t, "commit")
    /\ UNCHANGED <<status, referrer, credited, count, unverified>>

\* UPDATE ... WHERE referral_credited_at IS NULL: waits for a transaction that
\* has stamped the row, then tests the row anew.
Stamp(t) ==
    /\ AtCredit(t, "stamp")
    /\ lock = NoTask
    /\ IF credited THEN AfterCredit(t) /\ UNCHANGED lock
       ELSE OnlyGoto(t, "commit") /\ lock' = t
    /\ UNCHANGED <<status, referrer, credited, count, unverified>>

\* The stamp and the inviter's counter, at once.  (If the answer to COMMIT is
\* lost the attempt reports persist_failed, and the credit stands.)
Commit(t) ==
    /\ AtCredit(t, "commit")
    /\ credited' = TRUE
    /\ count' = count + 1
    /\ lock' = NoTask
    /\ unverified' = skipped[t]
    /\ AfterCredit(t)
    /\ UNCHANGED <<status, referrer>>

Crediting(t) == pc[t] \in Settling \/ (pc[t] \in CheckLabel /\ goal[t] = "credit")

\* An exception inside an attempt is audited and kept from the caller; an
\* open transaction is rolled back.
CreditFails(t) ==
    /\ Crediting(t)
    /\ faults < MaxFaults
    /\ faults' = faults + 1
    /\ lock' = IF lock = t THEN NoTask ELSE lock
    /\ AfterCredit(t)
    /\ UNCHANGED <<configVars, status, referrer, credited, count, captchaVars, commandVars,
                   unverified>>

-----------------------------------------------------------------------------
(* Faults, admins and Redis *)

\* An exception nothing isolates ends one task, a crash of the process all.
TasksDie(S) ==
    /\ faults < MaxFaults
    /\ faults' = faults + 1
    /\ \E t \in S : pc[t] # "idle"
    /\ End(S)
    /\ lock' = IF lock \in S THEN NoTask ELSE lock
    /\ UNCHANGED <<configVars, status, referrer, credited, count, captchaVars, commandVars,
                   unverified>>

\* unban and unmute write active over any status.
AdminActivates ==
    /\ status # "absent"
    /\ status' = "active"
    /\ vetted' = TRUE
    /\ UNCHANGED <<configVars, referrer, credited, count, lock, challenge, asked, gated,
                   commandVars, localVars, pc, checkerVars, unverified, faults>>

ChallengeExpires ==
    /\ challenge
    /\ challenge' = FALSE
    /\ UNCHANGED <<configVars, rowVars, asked, gated, vetted, commandVars, localVars, pc,
                   checkerVars, unverified, faults>>

\* The steps of module Subscriptions, and the user's joining and leaving.
ChannelsMove ==
    /\ subsOn
    /\ \/ \E t \in Task : CheckStep(t) \/ Unverifiable(t)
       \/ \E c \in Channel : Join(c) \/ Quit(c) \/ CacheExpires(c)
    /\ UNCHANGED <<configVars, rowVars, captchaVars, commandVars, localVars, unverified, faults>>

GateStep(t) ==
    \/ Refer(t)
    \/ AntispamDrops(t) \/ AntispamAsks(t) \/ Passes(t)
    \/ PressLookup(t) \/ PressDelete(t) \/ Activate(t) \/ SetPending(t)
    \/ GatePasses(t) \/ GateBlocks(t) \/ SaveCommand(t)
    \/ RecheckRefuses(t) \/ RecheckConfirms(t) \/ GetData(t) \/ SetData(t)

CreditStep(t) ==
    \/ CreditRefused(t) \/ CreditLookup(t) \/ CreditLacks(t) \/ CreditChecked(t)
    \/ Stamp(t) \/ Commit(t)

ProbeStep(t) ==
    /\ CheckStep(t)
    /\ UNCHANGED <<configVars, rowVars, captchaVars, commandVars, localVars, unverified, faults>>

Next ==
    \/ \E t \in Task, k \in Kind : Arrive(t, k) \/ ArriveRetried(t, k)
    \/ \E t \in Task : GateStep(t) \/ CreditStep(t) \/ CreditFails(t) \/ DataFails(t)
    \/ \E S \in SUBSET Task : TasksDie(S)
    \/ AdminActivates
    \/ ChallengeExpires
    \/ ChannelsMove

Spec == Init /\ [][Next]_vars

\* The event loop runs every task to its end and Telegram answers within the
\* five seconds' timeout; the user need not do anything.
FairSpec ==
    /\ Spec
    /\ \A t \in Task : WF_vars(GateStep(t) \/ CreditStep(t) \/ ProbeStep(t))

-----------------------------------------------------------------------------
\* Every column, key and local stays in its domain, and the row is locked by
\* a task that is about to commit or by none.
TypeOK ==
    /\ captchaOn \in BOOLEAN
    /\ subsOn \in BOOLEAN
    /\ slashes \in BOOLEAN
    /\ CheckTypeOK
    /\ status \in Status
    /\ referrer \in BOOLEAN
    /\ credited \in BOOLEAN
    /\ count \in Nat
    /\ lock \in Task \cup {NoTask}
    /\ \A t \in Task : pc[t] = "commit" <=> lock = t
    /\ challenge \in BOOLEAN
    /\ asked \in BOOLEAN
    /\ shown \in BOOLEAN
    /\ pending \in BOOLEAN
    /\ pc \in [Task -> Label]
    /\ kind \in [Task -> Kind]
    /\ row \in [Task -> [status : Status, created : BOOLEAN]]
    /\ goal \in [Task -> Goal]
    /\ gated \in BOOLEAN
    /\ vetted \in BOOLEAN
    /\ early \subseteq Task
    /\ unverified \subseteq Channel
    /\ unread \in BOOLEAN
    /\ faults \in 0..MaxFaults

\* The inviter's counter moves once, together with the stamp, though the
\* captcha, several presses of its button and several rechecks all try to
\* settle the credit at the same time and any of them may fail midway.
CreditedOnce == count = IF credited THEN 1 ELSE 0

\* A credit is settled only for an invitee who answered the captcha or was
\* let in by an admin, unless the attempt read the row before the gate had
\* written pending_captcha into it (the window of NewUserAnswersFirst).
CreditAfterCaptcha ==
    [][captchaOn /\ ~credited /\ credited' => vetted \/ lock \in early]_vars

\* A credit stands only if the user has been a member of every required
\* channel, save those that could not be verified when it was settled: not
\* the cache, not a membership given up, not another task's check counts.
CreditAfterJoining == subsOn /\ credited => Channel \subseteq joined \cup unverified

\* Whoever came by a referral link has the referrer recorded, unless a fault
\* struck: no race of the first updates and no later start loses it.
ReferredUnlessFault ==
    status # "absent" => referrer \/ faults > 0 \/ \E t \in Task : pc[t] = "refer"

\* A saved command no recheck has read is dropped only by a recheck between its
\* get_data and its set_data, the write-back of the whole dictionary.
CommandReadOrOverwritten ==
    [][unread /\ pending /\ ~pending' => \E t \in Task : pc[t] = "setData" /\ pc'[t] # pc[t]]_vars

\* A user who was invited, is active, is in all the channels and keeps
\* pressing the recheck button gets the inviter the credit: no earlier
\* attempt that failed, lock or cache entry stands in the way.
Eligible == referrer /\ status = "active" /\ member = Channel
Rechecks == \E t \in Task : kind[t] = "recheck" /\ pc[t] \in CheckLabel
RecheckSettles == []<>Rechecks /\ <>[]Eligible => <>credited

Vet == INSTANCE Vetting WITH open <- challenge

\* The captcha as this module has it keeps the promise of Vetting, as the
\* whole of it in AccessGate does: the credit is judged by no weaker gate.
ImplementsVetting == Vet!Spec
=============================================================================
