------------------------------ MODULE Broadcast ------------------------------
(***************************************************************************)
(* Broadcasts: the /broadcast dialog and /broadcast_cancel                 *)
(* (app/features/broadcasts/producer.py), the Redis list bcast:queue and   *)
(* the worker that drains it (app/features/broadcasts/worker.py).          *)
(*                                                                         *)
(* The dialog's messages are one step each; a press of its Yes button is a *)
(* task cut at its awaits, for two presses may run at once.  The worker is *)
(* one task, cut at every await of _process_job and _send_to_user.         *)
(***************************************************************************)
EXTENDS Integers, Sequences, FiniteSets

CONSTANTS
    Job,         \* job ids (uuid4), each used once
    NoJob,
    User,        \* possible recipients
    NoUser,
    Admin,
    Press,       \* presses of an admin's Yes button in flight at one time
    MaxQueueLen, \* MAX_QUEUE_LEN
    MaxWaits,    \* retry_after_budget
    MaxFaults    \* bound on crashes, failed statements and Redis errors

ASSUME Sentinels == NoJob \notin Job /\ NoUser \notin User
ASSUME BroadcastBounds ==
    /\ MaxQueueLen \in Nat \ {0} /\ MaxWaits \in Nat /\ MaxFaults \in Nat
ASSUME Finiteness == IsFiniteSet(User) /\ IsFiniteSet(Admin) /\ IsFiniteSet(Press)

VARIABLES
    dialog,    \* admin -> state of the FSM in Redis
    press,     \* admin -> press -> where its task stands
    queue,     \* bcast:queue, its head first
    enqueued,  \* history: the jobs ever pushed
    flag,      \* the jobs with a bcast:cancel:{id}
    row,       \* job -> its broadcasts row
    blockedBot,\* the users with is_blocked_bot
    step,      \* where the worker stands
    job,       \* the job it works on
    todo,      \* the recipients its stream has left
    target,    \* the recipient it sends to
    waits,     \* retry_after_budget left
    cnt,       \* _Counters
    stopping,  \* the local `cancelled`
    selected,  \* history: the recipients the stream of this job selected
    tried,     \* history: the recipients a send of this job was begun for
    late,      \* history: messages of this job that arrived under its cancel flag
    sent,      \* history: job -> user -> messages that arrived
    faults

producerVars == <<dialog, press>>
queueVars == <<queue, enqueued>>
localVars == <<job, todo, target, waits, cnt, stopping>>
jobHistory == <<selected, tried, late>>
vars == <<producerVars, queueVars, flag, row, blockedBot, step, localVars, jobHistory, sent, faults>>

Dialog == {"none", "waiting_text", "waiting_filter", "confirming"}
PressLabel == {"idle", "read", "push", "clear"}
Step == {"idle", "create", "stream", "check", "send", "mark", "pace", "flush", "lastFlush", "finish",
         "report"}
Counters == [total : Nat, delivered : Nat, failed : Nat, blocked : Nat]
Zero == [total |-> 0, delivered |-> 0, failed |-> 0, blocked |-> 0]

\* No dialog is open, and no button pressed.
DialogsInit ==
    /\ dialog = [a \in Admin |-> "none"]
    /\ press = [a \in Admin |-> [p \in Press |-> "idle"]]

\* Nothing is queued and the worker waits; some users may have blocked the bot.
JobsInit ==
    /\ queue = <<>>
    /\ enqueued = {}
    /\ flag = {}
    /\ row = [j \in Job |-> [status |-> "none", counts |-> Zero]]
    /\ blockedBot \in SUBSET User
    /\ step = "idle"
    /\ job = NoJob
    /\ todo = {}
    /\ target = NoUser
    /\ waits = 0
    /\ cnt = Zero
    /\ stopping = FALSE
    /\ selected = {}
    /\ tried = {}
    /\ late = 0
    /\ sent = [j \in Job |-> [u \in User |-> 0]]
    /\ faults = 0

Init == DialogsInit /\ JobsInit

Fault ==
    /\ faults < MaxFaults
    /\ faults' = faults + 1

-----------------------------------------------------------------------------
(* producer.py *)

producerFrame == <<flag, row, blockedBot, step, localVars, jobHistory, sent>>

\* MUTANT: the length is not looked at.
EntryAnyLength(a) ==
    /\ enqueued # Job
    /\ dialog' = [dialog EXCEPT ![a] = "waiting_text"]
    /\ UNCHANGED <<press, queueVars, producerFrame, faults>>

\* /broadcast: the length is looked at here and at no later step of the dialog.
\* The guard bounds the dialogs by the ids that are left.
Entry(a) ==
    /\ enqueued # Job
    /\ dialog' = [dialog EXCEPT ![a] = IF Len(queue) >= MaxQueueLen THEN "none" ELSE "waiting_text"]
    /\ UNCHANGED <<press, queueVars, producerFrame, faults>>

\* _safe_llen takes an error for an empty queue.
EntryUncounted(a) ==
    /\ enqueued # Job
    /\ Fault
    /\ dialog' = [dialog EXCEPT ![a] = "waiting_text"]
    /\ UNCHANGED <<press, queueVars, producerFrame>>

\* A text, then a filter, that are accepted.
DialogGoesOn(a) ==
    /\ \/ /\ dialog[a] = "waiting_text"
          /\ dialog' = [dialog EXCEPT ![a] = "waiting_filter"]
       \/ /\ dialog[a] = "waiting_filter"
          /\ dialog' = [dialog EXCEPT ![a] = "confirming"]
    /\ UNCHANGED <<press, queueVars, producerFrame, faults>>

\* The No button, or /cancel.
DialogDropped(a) ==
    /\ dialog[a] # "none"
    /\ dialog' = [dialog EXCEPT ![a] = "none"]
    /\ UNCHANGED <<press, queueVars, producerFrame, faults>>

PressAt(a, p, from, to) ==
    /\ press[a][p] = from
    /\ press' = [press EXCEPT ![a][p] = to]

\* StateFilter passes; the handler reads the data later.
PressYes(a, p) ==
    /\ dialog[a] = "confirming"
    /\ PressAt(a, p, "idle", "read")
    /\ UNCHANGED <<dialog, queueVars, producerFrame, faults>>

\* Another press may have cleared the data: no text, no job.
ReadDialog(a, p) ==
    /\ \/ /\ dialog[a] \in {"waiting_filter", "confirming"}
          /\ PressAt(a, p, "read", "push")
       \/ /\ dialog[a] \in {"none", "waiting_text"}
          /\ PressAt(a, p, "read", "clear")
    /\ UNCHANGED <<dialog, queueVars, producerFrame, faults>>

Enqueue(a, p) ==
    /\ PressAt(a, p, "push", "clear")
    /\ \E j \in Job \ enqueued :
        /\ queue' = <<j>> \o queue
        /\ enqueued' = enqueued \cup {j}
    /\ UNCHANGED <<dialog, producerFrame, faults>>

EnqueueFails(a, p) ==
    /\ PressAt(a, p, "push", "clear")
    /\ Fault
    /\ UNCHANGED <<dialog, queueVars, producerFrame>>

ClearDialog(a, p) ==
    /\ PressAt(a, p, "clear", "idle")
    /\ dialog' = [dialog EXCEPT ![a] = "none"]
    /\ UNCHANGED <<queueVars, producerFrame, faults>>

\* /broadcast_cancel <id>.  The flag of a job that is over is never read: the
\* guard leaves those out.
Cancel(j) ==
    /\ j = job \/ j \in {queue[i] : i \in DOMAIN queue}
    /\ flag' = flag \cup {j}
    /\ UNCHANGED <<producerVars, queueVars, row, blockedBot, step, localVars, jobHistory, sent, faults>>

\* CANCEL_TTL_SECONDS are over.
FlagExpires(j) ==
    /\ j \in flag
    /\ flag' = flag \ {j}
    /\ late' = IF j = job THEN 0 ELSE late
    /\ UNCHANGED <<producerVars, queueVars, row, blockedBot, step, localVars, selected, tried, sent,
                   faults>>

-----------------------------------------------------------------------------
(* worker.py *)

workerFrame == <<producerVars, enqueued, flag>>

\* _process_job has returned or raised: its locals are gone.
DropLocals ==
    /\ step' = "idle"
    /\ job' = NoJob
    /\ todo' = {}
    /\ target' = NoUser
    /\ waits' = 0
    /\ cnt' = Zero
    /\ stopping' = FALSE
    /\ selected' = {}
    /\ tried' = {}
    /\ late' = 0

\* BRPOP: from here on the job is in the worker's memory only.
Pop ==
    /\ step = "idle"
    /\ queue # <<>>
    /\ job' = queue[Len(queue)]
    /\ queue' = SubSeq(queue, 1, Len(queue) - 1)
    /\ step' = "create"
    /\ UNCHANGED <<workerFrame, row, blockedBot, todo, target, waits, cnt, stopping, jobHistory, sent, faults>>

CreateRunning ==
    /\ step = "create"
    /\ row' = [row EXCEPT ![job].status = "running"]
    /\ step' = "stream"
    /\ UNCHANGED <<workerFrame, queue, blockedBot, localVars, jobHistory, sent, faults>>

\* iterate_for_broadcast: one SELECT; nobody who is known to block the bot.
OpenStream ==
    /\ step = "stream"
    /\ todo' \in SUBSET (User \ blockedBot)
    /\ selected' = todo'
    /\ step' = "check"
    /\ UNCHANGED <<workerFrame, queue, row, blockedBot, job, target, waits, cnt, stopping,
                   tried, late, sent, faults>>

\* create_running, the stream or finish raises: audited, and the worker takes
\* the next job.
JobFails ==
    /\ step \in {"create", "stream", "check", "finish"}
    /\ Fault
    /\ DropLocals
    /\ UNCHANGED <<workerFrame, queue, row, blockedBot, sent>>

Attempt ==
    /\ step = "check"
    /\ \E u \in todo :
        /\ todo' = todo \ {u}
        /\ target' = u
        /\ tried' = tried \cup {u}
    /\ cnt' = [cnt EXCEPT !.total = @ + 1]
    /\ waits' = MaxWaits
    /\ step' = "send"
    /\ UNCHANGED <<workerFrame, queue, row, blockedBot, job, stopping, selected, sent, late>>

\* MUTANT: the flag is not looked at.
ProceedUnchecked == Attempt /\ UNCHANGED faults

\* The flag is looked at, and then a send is begun.
Proceed == job \notin flag /\ Attempt /\ UNCHANGED faults

\* EXISTS raises: taken for no flag.
CheckFails == Fault /\ Attempt

\* MUTANT: the job is dropped where it should break out of the loop.
StopForFlagAndReturn ==
    /\ step = "check"
    /\ todo # {}
    /\ job \in flag
    /\ DropLocals
    /\ UNCHANGED <<workerFrame, queue, row, blockedBot, sent, faults>>

StopForFlag ==
    /\ step = "check"
    /\ todo # {}
    /\ job \in flag
    /\ stopping' = TRUE
    /\ step' = "lastFlush"
    /\ UNCHANGED <<workerFrame, queue, row, blockedBot, job, todo, target, waits, cnt, jobHistory, sent, faults>>

StreamEnds ==
    /\ step = "check"
    /\ todo = {}
    /\ step' = "lastFlush"
    /\ UNCHANGED <<workerFrame, queue, row, blockedBot, localVars, jobHistory, sent, faults>>

sendFrame == <<workerFrame, queue, row, blockedBot, job, todo, target, stopping, selected, tried>>

Arrives ==
    /\ sent' = [sent EXCEPT ![job][target] = @ + 1]
    /\ late' = late + IF job \in flag THEN 1 ELSE 0

SendDelivers ==
    /\ step = "send"
    /\ Arrives
    /\ cnt' = [cnt EXCEPT !.delivered = @ + 1]
    /\ step' = "pace"
    /\ UNCHANGED <<sendFrame, waits, faults>>

\* 403: the user has blocked the bot.
SendForbidden ==
    /\ step = "send"
    /\ cnt' = [cnt EXCEPT !.blocked = @ + 1]
    /\ step' = "mark"
    /\ UNCHANGED <<sendFrame, waits, sent, late, faults>>

\* MUTANT: the budget of waits starts anew.
SendMustWaitForEver ==
    /\ step = "send"
    /\ waits' = IF waits > 0 THEN waits - 1 ELSE MaxWaits
    /\ UNCHANGED <<sendFrame, step, cnt, sent, late, faults>>

\* 429: wait and try the same user again, at most MaxWaits times.
SendMustWait ==
    /\ step = "send"
    /\ IF waits > 0 THEN waits' = waits - 1 /\ UNCHANGED <<step, cnt>>
       ELSE cnt' = [cnt EXCEPT !.failed = @ + 1] /\ step' = "pace" /\ UNCHANGED waits
    /\ UNCHANGED <<sendFrame, sent, late, faults>>

\* MUTANT: an error is retried like a 429.
SendErrsAndRetries ==
    /\ step = "send"
    /\ waits > 0
    /\ Arrives \/ UNCHANGED <<sent, late>>
    /\ waits' = waits - 1
    /\ UNCHANGED <<sendFrame, cnt, step, faults>>

\* Any other exception; after a timeout the message may have arrived.
SendErrs ==
    /\ step = "send"
    /\ Arrives \/ UNCHANGED <<sent, late>>
    /\ cnt' = [cnt EXCEPT !.failed = @ + 1]
    /\ step' = "pace"
    /\ UNCHANGED <<sendFrame, waits, faults>>

MarkBlocked ==
    /\ step = "mark"
    /\ blockedBot' = blockedBot \cup {target}
    /\ step' = "pace"
    /\ UNCHANGED <<workerFrame, queue, row, localVars, jobHistory, sent, faults>>

MarkBlockedFails ==
    /\ step = "mark"
    /\ Fault
    /\ step' = "pace"
    /\ UNCHANGED <<workerFrame, queue, row, blockedBot, localVars, jobHistory, sent>>

\* The counters are flushed after 50 sends or ten seconds.
Pace ==
    /\ step = "pace"
    /\ waits' = 0
    /\ target' = NoUser
    /\ step' \in {"flush", "check"}
    /\ UNCHANGED <<workerFrame, queue, row, blockedBot, job, todo, cnt, stopping, jobHistory, sent, faults>>

Flush ==
    /\ step = "flush"
    /\ row' = [row EXCEPT ![job].counts = cnt]
    /\ step' = "check"
    /\ UNCHANGED <<workerFrame, queue, blockedBot, job, todo, target, waits, cnt, stopping, jobHistory, sent, faults>>

FlushFails ==
    /\ step = "flush"
    /\ Fault
    /\ step' = "check"
    /\ UNCHANGED <<workerFrame, queue, row, blockedBot, job, todo, target, waits, cnt, stopping, jobHistory, sent>>

\* MUTANT: a cancelled run leaves the counters of its last periodic flush.
LastFlushIfCompleted ==
    /\ step = "lastFlush"
    /\ row' = IF stopping THEN row ELSE [row EXCEPT ![job].counts = cnt]
    /\ step' = "finish"
    /\ UNCHANGED <<workerFrame, queue, blockedBot, localVars, jobHistory, sent, faults>>

LastFlush ==
    /\ step = "lastFlush"
    /\ row' = [row EXCEPT ![job].counts = cnt]
    /\ step' = "finish"
    /\ UNCHANGED <<workerFrame, queue, blockedBot, localVars, jobHistory, sent, faults>>

LastFlushFails ==
    /\ step = "lastFlush"
    /\ Fault
    /\ step' = "finish"
    /\ UNCHANGED <<workerFrame, queue, row, blockedBot, localVars, jobHistory, sent>>

\* MUTANT: the cancelled run falls through to the completed one.
FinishAsCompleted ==
    /\ step = "finish"
    /\ row' = [row EXCEPT ![job].status = "completed"]
    /\ step' = "report"
    /\ UNCHANGED <<workerFrame, queue, blockedBot, localVars, jobHistory, sent, faults>>

Finish ==
    /\ step = "finish"
    /\ row' = [row EXCEPT ![job].status = IF stopping THEN "cancelled" ELSE "completed"]
    /\ step' = "report"
    /\ UNCHANGED <<workerFrame, queue, blockedBot, localVars, jobHistory, sent, faults>>

\* The report is sent, or fails and is logged.
Report ==
    /\ step = "report"
    /\ DropLocals
    /\ UNCHANGED <<workerFrame, queue, row, blockedBot, sent, faults>>

\* The process dies or is stopped (worker.stop cancels the task at its await).
Crash ==
    /\ Fault
    /\ DropLocals
    /\ press' = [a \in Admin |-> [p \in Press |-> "idle"]]
    /\ UNCHANGED <<dialog, queueVars, flag, row, blockedBot, sent>>

AdminStep(a) ==
    \/ Entry(a) \/ EntryUncounted(a) \/ DialogGoesOn(a) \/ DialogDropped(a)

PressStep(a, p) ==
    \/ ReadDialog(a, p) \/ Enqueue(a, p) \/ EnqueueFails(a, p) \/ ClearDialog(a, p)

WorkerStep ==
    \/ Pop \/ CreateRunning \/ OpenStream \/ JobFails
    \/ Proceed \/ CheckFails \/ StopForFlag \/ StreamEnds
    \/ SendDelivers \/ SendForbidden \/ SendMustWait \/ SendErrs
    \/ MarkBlocked \/ MarkBlockedFails
    \/ Pace \/ Flush \/ FlushFails
    \/ LastFlush \/ LastFlushFails \/ Finish \/ Report

Next ==
    \/ \E a \in Admin : AdminStep(a)
    \/ \E a \in Admin, p \in Press : PressYes(a, p) \/ PressStep(a, p)
    \/ \E j \in Job : Cancel(j) \/ FlagExpires(j)
    \/ WorkerStep
    \/ Crash

Spec == Init /\ [][Next]_vars

\* The worker's loop runs for as long as the process does, and a supervisor
\* restarts it.  Nobody need press a button or cancel a job.
FairSpec == Spec /\ WF_vars(WorkerStep)

-----------------------------------------------------------------------------
\* Every key, row and local stays in its domain; the budget of waits of one
\* send is never exceeded.
TypeOK ==
    /\ dialog \in [Admin -> Dialog]
    /\ press \in [Admin -> [Press -> PressLabel]]
    /\ queue \in Seq(enqueued)
    /\ enqueued \subseteq Job
    /\ flag \subseteq enqueued
    /\ row \in [Job -> [status : {"none", "running", "completed", "cancelled"}, counts : Counters]]
    /\ blockedBot \subseteq User
    /\ step \in Step
    /\ job \in enqueued \cup {NoJob} /\ (job = NoJob <=> step = "idle")
    /\ todo \subseteq User
    /\ target \in User \cup {NoUser}
    /\ step \in {"send", "mark"} => target \in User
    /\ waits \in 0..MaxWaits
    /\ cnt \in Counters
    /\ stopping \in BOOLEAN
    /\ tried \subseteq selected /\ selected \subseteq User
    /\ late \in Nat
    /\ sent \in [Job -> [User -> Nat]]
    /\ faults \in 0..MaxFaults

\* A job's text arrives at most once at a user, through waits, errors whose
\* outcome is unknown, crashes and restarts.
OneMessagePerJob == \A j \in Job, u \in User : sent[j][u] <= 1

\* The numbers of a broadcasts row add up whenever they are read, and bound
\* the messages that arrived: `delivered` from below, and once the row is
\* finished, without a fault, `delivered + failed` from above.
RowAddsUp ==
    \A j \in Job :
        LET n == row[j].counts
            arrived == Cardinality({u \in User : sent[j][u] > 0})
        IN  /\ n.total = n.delivered + n.failed + n.blocked
            /\ n.delivered <= arrived
            /\ row[j].status \in {"completed", "cancelled"} /\ faults = 0 =>
                arrived <= n.delivered + n.failed

Ends(status) == row[job].status = "running" /\ row'[job].status = status

\* A row becomes `completed` when every selected recipient has had an attempt,
\* and `cancelled` only when some have not.
StatusTellsTheTruth ==
    [][job # NoJob => /\ Ends("completed") => tried = selected
                      /\ Ends("cancelled") => tried # selected]_vars

\* While the cancel flag of a job is in Redis at most one more message of it
\* arrives, the one whose send had begun; plus one for each failed look at it.
CancelStops == late <= 1 + faults

\* Whatever becomes of the job before it, a queued job is picked up: there are
\* finitely many jobs, so again and again none is waiting.
QueueDrains == []<>(queue = <<>>)

\* Every job comes to its end, completed or cancelled, unless there was a
\* fault: again and again no pushed job is unfinished.
CleanJobEnds ==
    []<>(\/ faults > 0
         \/ \A j \in enqueued : row[j].status \in {"completed", "cancelled"})

\* The cap is looked at when a dialog opens, jobs are pushed when it ends: all
\* that began below the cap may push, each Yes button as often as it is pressed
\* at one time, and a crash or a failed look lets as many push again.
QueueBounded == Len(queue) < MaxQueueLen + Cardinality(Admin) * Cardinality(Press) * (1 + faults)

\* LPUSH at one end, BRPOP at the other: the head of the list is the newest.
OldestFirst == [i \in 1..Len(queue) |-> queue[Len(queue) + 1 - i]]

Jobs == INSTANCE JobLedger WITH
    submitted <- enqueued,
    waiting <- OldestFirst,
    current <- job,
    status <- [j \in Job |-> row[j].status],
    arrived <- sent

\* The list, the worker and the broadcasts table keep the promise of
\* JobLedger: one job at a time, each once and in order, its messages only
\* while its row runs, once for each user, and a row that is over for good.
ImplementsJobs == Jobs!Spec
=============================================================================
