----------------------------- MODULE AccessGate -----------------------------
(***************************************************************************)
(* Who gets through to the handlers: registration                          *)
(* (app/core/services/registration.py), the status gate                    *)
(* (app/core/middlewares/status_gate.py), the captcha gate and its answers *)
(* (app/features/antispam/middleware.py and captcha.py) and the moderation *)
(* commands (app/admin/user_manager.py), for one ordinary user.            *)
(*                                                                         *)
(* Every update of the user is a task of its own (handle_as_tasks), cut    *)
(* here at its awaits.  A task decides by the row it loaded on arrival,    *)
(* and every status write is an UPDATE without a test of the old status.   *)
(***************************************************************************)
EXTENDS Integers

CONSTANTS
    Task,       \* updates of the user in flight at one time
    Answer,     \* button values
    NoAnswer,   \* the update is a message; or the hash lacks its field
    MaxTries,   \* MAX_TRIES
    MaxTime,    \* bound on the clock
    MaxFaults   \* bound on crashes

ASSUME NoAnswerIsNoButton == NoAnswer \notin Answer
ASSUME AccessBounds == MaxTries \in Nat \ {0} /\ MaxTime \in Nat /\ MaxFaults \in Nat

VARIABLES
    clock,
    status,     \* users.status, "absent" before the first update
    mutedUntil, \* users.muted_until
    challenge,  \* captcha:challenge:{id}: the fields of the hash
    blocked,    \* captcha:block:{id}
    asked,      \* a captcha keyboard is in the chat
    pc,         \* task -> where it stands
    row,        \* task -> the user row it loaded
    answer,     \* task -> the button pressed, NoAnswer for a message
    gated,      \* history: the captcha gate has written pending_captcha
    vetted,     \* history: a right answer was accepted, or an admin stepped in
    racing,     \* history: tasks older than the last moderation
    faults

rowVars == <<status, mutedUntil>>
redisVars == <<challenge, blocked>>
taskVars == <<pc, row, answer, racing>>
vars == <<clock, rowVars, redisVars, asked, taskVars, gated, vetted, faults>>

Status == {"absent", "active", "pending_captcha", "muted", "banned"}
NoChallenge == [correct |-> NoAnswer, tries |-> 0]
Verifying == {"verify", "lookup", "delete", "activate", "count", "unask", "lock"}
Label == Verifying \cup {"idle", "statusGate", "antispam", "exists", "build", "send", "setPending",
          "handler"}

Init ==
    /\ clock = 0
    /\ status = "absent"
    /\ mutedUntil = 0
    /\ challenge = NoChallenge
    /\ blocked = FALSE
    /\ asked = FALSE
    /\ pc = [t \in Task |-> "idle"]
    /\ row = [t \in Task |-> [status |-> "absent", until |-> 0, created |-> FALSE]]
    /\ answer = [t \in Task |-> NoAnswer]
    /\ gated = FALSE
    /\ vetted = FALSE
    /\ racing = {}
    /\ faults = 0

Goto(t, label) ==
    /\ pc' = [pc EXCEPT ![t] = label]
    /\ UNCHANGED <<answer, racing>>

\* The task ends; what it had loaded goes with it.
Leave(t) ==
    /\ pc' = [pc EXCEPT ![t] = "idle"]
    /\ row' = [row EXCEPT ![t] = [status |-> "absent", until |-> 0, created |-> FALSE]]
    /\ answer' = [answer EXCEPT ![t] = NoAnswer]
    /\ racing' = racing \ {t}

-----------------------------------------------------------------------------
(* RegistrationMiddleware and StatusGateMiddleware *)

\* upsert_from_tg: a new row starts active; the task goes on with a copy.
Arrive(t, a) ==
    /\ pc[t] = "idle"
    /\ a = NoAnswer \/ asked
    /\ status' = IF status = "absent" THEN "active" ELSE status
    /\ row' = [row EXCEPT ![t] = [status |-> status', until |-> mutedUntil,
                                  created |-> status = "absent"]]
    /\ pc' = [pc EXCEPT ![t] = "statusGate"]
    /\ answer' = [answer EXCEPT ![t] = a]
    /\ UNCHANGED <<clock, mutedUntil, redisVars, asked, gated, vetted, racing, faults>>

\* MUTANT: a banned user is noticed and then let through.
RefusedIfMuted(t) == row[t].status = "muted" /\ row[t].until > clock

Refused(t) ==
    \/ row[t].status = "banned"
    \/ row[t].status = "muted" /\ row[t].until > clock

StatusGateRefuses(t) ==
    /\ pc[t] = "statusGate"
    /\ Refused(t)
    /\ Leave(t)
    /\ UNCHANGED <<clock, rowVars, redisVars, asked, gated, vetted, faults>>

StatusGatePasses(t) ==
    /\ pc[t] = "statusGate"
    /\ ~Refused(t)
    /\ row[t].status # "muted"
    /\ Goto(t, "antispam")
    /\ UNCHANGED <<clock, rowVars, redisVars, asked, row, gated, vetted, faults>>

\* The mute this task loaded is over: set_status(active), whatever the row
\* says by now.
AutoLift(t) ==
    /\ pc[t] = "statusGate"
    /\ ~Refused(t)
    /\ row[t].status = "muted"
    /\ status' = "active"
    /\ mutedUntil' = 0
    /\ row' = [row EXCEPT ![t].status = "active", ![t].until = 0]
    /\ Goto(t, "antispam")
    /\ UNCHANGED <<clock, redisVars, asked, gated, vetted, faults>>

-----------------------------------------------------------------------------
(* AntispamMiddleware *)

IsMessage(t) == answer[t] = NoAnswer
MustAnswer(t) == row[t].created \/ row[t].status = "pending_captcha"

\* The captcha lockout, or the rate limiter (module RateLimiter).
AntispamDrops(t) ==
    /\ pc[t] = "antispam"
    /\ IsMessage(t)
    /\ Leave(t)
    /\ UNCHANGED <<clock, rowVars, redisVars, asked, gated, vetted, faults>>

AntispamAsks(t) ==
    /\ pc[t] = "antispam"
    /\ IsMessage(t)
    /\ ~blocked
    /\ MustAnswer(t)
    /\ Goto(t, "exists")
    /\ UNCHANGED <<clock, rowVars, redisVars, asked, row, gated, vetted, faults>>

AntispamPasses(t) ==
    /\ pc[t] = "antispam"
    /\ IsMessage(t)
    /\ ~blocked
    /\ ~MustAnswer(t)
    /\ Goto(t, "handler")
    /\ UNCHANGED <<clock, rowVars, redisVars, asked, row, gated, vetted, faults>>

\* A captcha button bypasses the gate.
AntispamBypassed(t) ==
    /\ pc[t] = "antispam"
    /\ ~IsMessage(t)
    /\ Goto(t, "verify")
    /\ UNCHANGED <<clock, rowVars, redisVars, asked, row, gated, vetted, faults>>

Handle(t) ==
    /\ pc[t] = "handler"
    /\ Leave(t)
    /\ UNCHANGED <<clock, rowVars, redisVars, asked, gated, vetted, faults>>

\* EXISTS on the hash: with any hash the user is only reminded.
Remind(t) ==
    /\ pc[t] = "exists"
    /\ challenge # NoChallenge
    /\ Leave(t)
    /\ UNCHANGED <<clock, rowVars, redisVars, asked, gated, vetted, faults>>

NoHash(t) ==
    /\ pc[t] = "exists"
    /\ challenge = NoChallenge
    /\ Goto(t, "build")
    /\ UNCHANGED <<clock, rowVars, redisVars, asked, row, gated, vetted, faults>>

\* One MULTI/EXEC: delete, hset, expire.
BuildChallenge(t) ==
    /\ pc[t] = "build"
    /\ \E c \in Answer : challenge' = [correct |-> c, tries |-> 0]
    /\ Goto(t, "send")
    /\ UNCHANGED <<clock, rowVars, blocked, asked, row, gated, vetted, faults>>

\* MUTANT: the status is written for every user who is asked.
SendQuestionAndWrite(t) ==
    /\ pc[t] = "send"
    /\ asked' = TRUE
    /\ Goto(t, "setPending")
    /\ UNCHANGED <<clock, rowVars, redisVars, row, gated, vetted, faults>>

\* The question goes out before the status is written.
SendQuestion(t) ==
    /\ pc[t] = "send"
    /\ asked' = TRUE
    /\ IF row[t].status = "pending_captcha" THEN Leave(t)
       ELSE Goto(t, "setPending") /\ UNCHANGED row
    /\ UNCHANGED <<clock, rowVars, redisVars, gated, vetted, faults>>

SetPending(t) ==
    /\ pc[t] = "setPending"
    /\ status' = "pending_captcha"
    /\ gated' = TRUE
    /\ Leave(t)
    /\ UNCHANGED <<clock, mutedUntil, redisVars, asked, vetted, faults>>

-----------------------------------------------------------------------------
(* CaptchaService.verify_answer *)

LockedOut(t) ==
    /\ pc[t] = "verify"
    /\ blocked
    /\ Leave(t)
    /\ UNCHANGED <<clock, rowVars, redisVars, asked, gated, vetted, faults>>

NotLockedOut(t) ==
    /\ pc[t] = "verify"
    /\ ~blocked
    /\ Goto(t, "lookup")
    /\ UNCHANGED <<clock, rowVars, redisVars, asked, row, gated, vetted, faults>>

\* MUTANT: a hash that is gone counts as answered.
LookupTakesExpiredForRight(t) ==
    /\ pc[t] = "lookup"
    /\ vetted' = (vetted \/ challenge.correct = answer[t])
    /\ Goto(t, IF challenge.correct \in {NoAnswer, answer[t]} THEN "delete" ELSE "count")
    /\ UNCHANGED <<clock, rowVars, redisVars, asked, row, gated, faults>>

\* HGET correct: absent means expired, even if the hash is there.
LookupCorrect(t) ==
    /\ pc[t] = "lookup"
    /\ vetted' = (vetted \/ challenge.correct = answer[t])
    /\ IF challenge.correct = NoAnswer THEN Leave(t)
       ELSE Goto(t, IF challenge.correct = answer[t] THEN "delete" ELSE "count") /\ UNCHANGED row
    /\ UNCHANGED <<clock, rowVars, redisVars, asked, gated, faults>>

DeleteChallenge(t) ==
    /\ pc[t] = "delete"
    /\ challenge' = NoChallenge
    /\ Goto(t, "activate")
    /\ UNCHANGED <<clock, rowVars, blocked, asked, row, gated, vetted, faults>>

\* set_status(active), then the audit entry and on_passed (module Referrals).
Activate(t) ==
    /\ pc[t] = "activate"
    /\ status' = "active"
    /\ mutedUntil' = 0
    /\ Leave(t)
    /\ UNCHANGED <<clock, redisVars, asked, gated, vetted, faults>>

\* HINCRBY creates the hash, without `correct` and without a TTL, if it has
\* expired or was deleted since LookupCorrect.
CountWrong(t) ==
    /\ pc[t] = "count"
    /\ challenge' = [challenge EXCEPT !.tries = @ + 1]
    /\ IF challenge'.tries >= MaxTries THEN Goto(t, "unask") /\ UNCHANGED row ELSE Leave(t)
    /\ UNCHANGED <<clock, rowVars, blocked, asked, gated, vetted, faults>>

Unask(t) ==
    /\ pc[t] = "unask"
    /\ challenge' = NoChallenge
    /\ Goto(t, "lock")
    /\ UNCHANGED <<clock, rowVars, blocked, asked, row, gated, vetted, faults>>

Lock(t) ==
    /\ pc[t] = "lock"
    /\ blocked' = TRUE
    /\ Leave(t)
    /\ UNCHANGED <<clock, rowVars, challenge, asked, gated, vetted, faults>>

-----------------------------------------------------------------------------
(* Redis TTLs, the clock, moderation, crashes *)

\* Only a hash that build_challenge wrote has a TTL.
ChallengeExpires ==
    /\ challenge.correct # NoAnswer
    /\ challenge' = NoChallenge
    /\ UNCHANGED <<clock, rowVars, blocked, asked, taskVars, gated, vetted, faults>>

BlockExpires ==
    /\ blocked
    /\ blocked' = FALSE
    /\ UNCHANGED <<clock, rowVars, challenge, asked, taskVars, gated, vetted, faults>>

Tick ==
    /\ clock < MaxTime
    /\ clock' = clock + 1
    /\ UNCHANGED <<rowVars, redisVars, asked, taskVars, gated, vetted, faults>>

\* ban, unban, mute, unmute: any status may be written over any other.
SetStatus(s, until) ==
    /\ status # "absent"
    /\ status' = s
    /\ mutedUntil' = until
    /\ vetted' = TRUE
    /\ racing' = {t \in Task : pc[t] # "idle"}
    /\ UNCHANGED <<clock, redisVars, asked, pc, row, answer, gated, faults>>

Ban == SetStatus("banned", mutedUntil)
Mute == SetStatus("muted", clock + 1)
UnbanOrUnmute == SetStatus("active", 0)

Moderate == Ban \/ Mute \/ UnbanOrUnmute

Crash ==
    /\ faults < MaxFaults
    /\ faults' = faults + 1
    /\ pc' = [t \in Task |-> "idle"]
    /\ row' = [t \in Task |-> [status |-> "absent", until |-> 0, created |-> FALSE]]
    /\ answer' = [t \in Task |-> NoAnswer]
    /\ racing' = {}
    /\ UNCHANGED <<clock, rowVars, redisVars, asked, gated, vetted>>

GateStep(t) ==
    \/ StatusGateRefuses(t) \/ StatusGatePasses(t) \/ AutoLift(t)
    \/ AntispamDrops(t) \/ AntispamAsks(t) \/ AntispamPasses(t) \/ AntispamBypassed(t)
    \/ Handle(t)

CaptchaStep(t) ==
    \/ Remind(t) \/ NoHash(t) \/ BuildChallenge(t) \/ SendQuestion(t) \/ SetPending(t)
    \/ LockedOut(t) \/ NotLockedOut(t) \/ LookupCorrect(t)
    \/ DeleteChallenge(t) \/ Activate(t)
    \/ CountWrong(t) \/ Unask(t) \/ Lock(t)

Next ==
    \/ \E t \in Task, a \in Answer \cup {NoAnswer} : Arrive(t, a)
    \/ \E t \in Task : GateStep(t) \/ CaptchaStep(t)
    \/ ChallengeExpires
    \/ BlockExpires
    \/ Tick
    \/ Moderate
    \/ Crash

Spec == Init /\ [][Next]_vars

\* Redis drops what has a TTL and the event loop runs every task to its end.
FairSpec ==
    /\ Spec
    /\ WF_vars(ChallengeExpires)
    /\ WF_vars(BlockExpires)
    /\ \A t \in Task : WF_vars(GateStep(t) \/ CaptchaStep(t))

-----------------------------------------------------------------------------
\* Every column, key and local stays in its domain, and only a button press
\* gets into verify_answer.
TypeOK ==
    /\ clock \in 0..MaxTime
    /\ status \in Status
    /\ mutedUntil \in 0..MaxTime + 1
    /\ challenge \in [correct : Answer \cup {NoAnswer}, tries : Nat]
    /\ blocked \in BOOLEAN
    /\ asked \in BOOLEAN
    /\ pc \in [Task -> Label]
    /\ row \in [Task -> [status : Status, until : 0..MaxTime + 1, created : BOOLEAN]]
    /\ answer \in [Task -> Answer \cup {NoAnswer}]
    /\ \A t \in Task : pc[t] \in Verifying => answer[t] \in Answer
    /\ gated \in BOOLEAN
    /\ vetted \in BOOLEAN
    /\ racing \subseteq Task
    /\ faults \in 0..MaxFaults

\* Once the gate has written pending_captcha, the user becomes active only by
\* a right answer or through an admin; no expiry, lockout, crash, or race of
\* presses with messages lets anyone in without one.
CaptchaNotForgotten == gated /\ status = "active" => vetted

\* pending_captcha is written once in the life of a user: whoever passed is
\* never asked again, not even by an update that loaded the row before.
CaptchaOnce ==
    [][gated => ~(status # "pending_captcha" /\ status' = "pending_captcha")]_vars

UnderModeration == status \in {"banned", "muted"}
ByTime == status = "muted" /\ mutedUntil <= clock
ByRace == \E t \in racing : pc'[t] # pc[t]

\* A ban or a mute is lifted by an admin, by time (mutes), or overwritten by
\* an update that had arrived before the admin acted; an update that arrives
\* later never undoes it.
OnlyRacingUpdatesUndo ==
    [][UnderModeration /\ status' # status => Moderate \/ ByTime \/ ByRace]_vars

\* Requirement 11.1 as captcha.py states it: a new user passes a captcha
\* before any update of theirs reaches another handler.
NewUserAnswersFirst == \A t \in Task : pc[t] = "handler" => vetted

\* captcha.py on requirement 11.2: an abandoned challenge expires in Redis, so
\* that the next message gets a fresh one.
AbandonedChallengeExpires == challenge # NoChallenge ~> challenge = NoChallenge

\* A hash without `correct`, which CountWrong may leave, asks nothing.
Vet == INSTANCE Vetting WITH open <- challenge.correct # NoAnswer

\* The gate, the captcha, its keys in Redis and the moderation commands keep
\* the promise of Vetting: asked once, and in only by a right answer to an open
\* question or through an admin.
ImplementsVetting == Vet!Spec
=============================================================================
