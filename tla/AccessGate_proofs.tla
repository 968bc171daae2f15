------------------------- MODULE AccessGate_proofs -------------------------
(***************************************************************************)
(* Proofs about AccessGate, for any number of updates in flight, any       *)
(* answers and limits, and any number of crashes.                          *)
(***************************************************************************)
EXTENDS AccessGate, TLAPS

\* The gate asks only for the task that created the row, or one that loaded
\* pending_captcha; only the creator writes pending_captcha, and it is alone.
AskInv ==
    /\ status = "absent" => ~gated /\ \A t \in Task : pc[t] = "idle"
    /\ \A t \in Task : pc[t] = "idle" => ~row[t].created /\ row[t].status = "absent"
    /\ \A t, u \in Task : row[t].created /\ row[u].created => t = u
    /\ gated => \A t \in Task : ~row[t].created
    /\ \A t \in Task : pc[t] \in {"exists", "build", "send"} => MustAnswer(t)
    /\ \A t \in Task : pc[t] = "setPending" => row[t].created

\* Whatever makes a user active rests on a right answer or on an admin.
VetInv ==
    /\ UnderModeration => vetted
    /\ \A t \in Task : row[t].status \in {"muted", "banned"} => vetted
    /\ \A t \in Task : pc[t] \in {"delete", "activate"} => vetted
    /\ CaptchaNotForgotten

\* Under a ban or mute, a task that is not racing has only just loaded it.
RaceInv ==
    UnderModeration =>
        \A t \in Task \ racing :
            pc[t] # "idle" =>
                /\ pc[t] = "statusGate"
                /\ row[t].status = status
                /\ row[t].until = mutedUntil

IInv == TypeOK /\ AskInv /\ VetInv /\ RaceInv

Row == [status : Status, until : 0..MaxTime + 1, created : BOOLEAN]

-----------------------------------------------------------------------------
LEMMA InvInit == ASSUME Init PROVE IInv
<1>. USE DEF Init
<1>1. TypeOK
  <2>1. /\ 0 \in 0..MaxTime /\ 0 \in 0..MaxTime + 1 /\ 0 \in 0..MaxFaults
    BY AccessBounds
  <2>2. row \in [Task -> Row]
    BY <2>1 DEF Row, Status
  <2>3. challenge \in [correct : Answer \cup {NoAnswer}, tries : Nat]
    BY DEF NoChallenge
  <2>. QED
    BY <2>1, <2>2, <2>3 DEF TypeOK, Row, Status, Label, Verifying
<1>2. AskInv
  BY DEF AskInv
<1>3. VetInv
  BY DEF VetInv, UnderModeration, CaptchaNotForgotten
<1>4. RaceInv
  BY DEF RaceInv, UnderModeration
<1>. QED
  BY <1>1, <1>2, <1>3, <1>4 DEF IInv

\* A task that moves on without loading or writing the row.
LEMMA InvGoto ==
    ASSUME IInv, NEW t \in Task, NEW label \in Label, Goto(t, label), pc[t] # "idle", label # "idle",
           UNCHANGED <<clock, rowVars, row, gated, faults>>,
           challenge' \in [correct : Answer \cup {NoAnswer}, tries : Nat],
           blocked' \in BOOLEAN, asked' \in BOOLEAN, vetted' \in BOOLEAN, vetted => vetted',
           label \in Verifying => answer[t] \in Answer,
           label \in {"exists", "build", "send"} => MustAnswer(t),
           label = "setPending" => row[t].created,
           label \in {"delete", "activate"} => vetted',
           pc[t] = "statusGate" => row[t].status \notin {"muted", "banned"}
    PROVE  IInv'
<1>. USE DEF IInv, Goto, rowVars
<1>0. /\ pc' = [pc EXCEPT ![t] = label] /\ pc \in [Task -> Label]
      /\ UNCHANGED <<clock, status, mutedUntil, row, answer, racing, gated, faults>>
  BY DEF TypeOK
<1>1. TypeOK'
  BY <1>0 DEF TypeOK
<1>2. AskInv'
  BY <1>0 DEF AskInv, MustAnswer
<1>3. VetInv'
  BY <1>0 DEF VetInv, UnderModeration, CaptchaNotForgotten
<1>4. RaceInv'
  BY <1>0 DEF RaceInv, UnderModeration
<1>. QED
  BY <1>1, <1>2, <1>3, <1>4

\* A task that ends without writing the row.
LEMMA InvLeave ==
    ASSUME IInv, NEW t \in Task, Leave(t),
           UNCHANGED <<clock, rowVars, gated, faults>>,
           challenge' \in [correct : Answer \cup {NoAnswer}, tries : Nat],
           blocked' \in BOOLEAN, asked' \in BOOLEAN, vetted' \in BOOLEAN, vetted => vetted'
    PROVE  IInv'
<1>. USE DEF IInv, Leave, rowVars
<1>1. TypeOK'
  BY AccessBounds DEF TypeOK, Status, Label, Verifying
<1>2. AskInv'
  BY DEF AskInv, MustAnswer, TypeOK
<1>3. VetInv'
  BY DEF VetInv, UnderModeration, CaptchaNotForgotten, TypeOK
<1>4. RaceInv'
  BY DEF RaceInv, UnderModeration, TypeOK
<1>. QED
  BY <1>1, <1>2, <1>3, <1>4

LEMMA InvArrive ==
    ASSUME IInv, NEW t \in Task, NEW a \in Answer \cup {NoAnswer}, Arrive(t, a)
    PROVE  IInv'
<1>. USE DEF IInv, Arrive
<1>0. /\ pc' = [pc EXCEPT ![t] = "statusGate"]
      /\ row' = [row EXCEPT ![t] = [status |-> status', until |-> mutedUntil,
                                    created |-> status = "absent"]]
      /\ status' = IF status = "absent" THEN "active" ELSE status
      /\ status' \in Status /\ mutedUntil \in 0..MaxTime + 1
      /\ pc \in [Task -> Label] /\ row \in [Task -> Row]
      /\ UNCHANGED <<mutedUntil, gated, vetted, racing>>
  BY DEF TypeOK, Status, Row
<1>1. TypeOK'
  BY <1>0 DEF TypeOK, Row, Label, Verifying, redisVars
<1>2. AskInv'
  BY <1>0 DEF AskInv, MustAnswer, Row
<1>3. VetInv'
  BY <1>0 DEF VetInv, UnderModeration, CaptchaNotForgotten, AskInv, Row
<1>4. RaceInv'
  BY <1>0 DEF RaceInv, UnderModeration, Row
<1>. QED
  BY <1>1, <1>2, <1>3, <1>4

LEMMA InvGate ==
    ASSUME IInv, NEW t \in Task, GateStep(t)
    PROVE  IInv'
<1>. USE DEF IInv
<1>0. /\ challenge \in [correct : Answer \cup {NoAnswer}, tries : Nat]
      /\ blocked \in BOOLEAN /\ asked \in BOOLEAN /\ vetted \in BOOLEAN
      /\ answer \in [Task -> Answer \cup {NoAnswer}]
  BY DEF TypeOK
<1>1. CASE StatusGateRefuses(t) \/ AntispamDrops(t) \/ Handle(t)
  BY <1>0, <1>1, InvLeave DEF StatusGateRefuses, AntispamDrops, Handle, redisVars
<1>2. CASE StatusGatePasses(t)
  BY <1>0, <1>2, InvGoto DEF StatusGatePasses, Refused, redisVars, Label, Verifying
<1>3. CASE AutoLift(t)
  <2>0. /\ pc[t] = "statusGate" /\ row[t].status = "muted"
        /\ status' = "active" /\ mutedUntil' = 0
        /\ row' = [row EXCEPT ![t] = [row[t] EXCEPT !.status = "active", !.until = 0]]
        /\ pc' = [pc EXCEPT ![t] = "antispam"]
        /\ pc \in [Task -> Label] /\ row \in [Task -> Row]
        /\ UNCHANGED <<clock, challenge, blocked, asked, answer, racing, gated, vetted, faults>>
    BY <1>3 DEF AutoLift, Goto, redisVars, TypeOK, Row
  <2>1. TypeOK'
    <3>1. 0 \in 0..MaxTime + 1 /\ "active" \in Status /\ "antispam" \in Label
      BY AccessBounds DEF Status, Label
    <3>2. [row[t] EXCEPT !.status = "active", !.until = 0] \in Row
      BY <2>0, <3>1 DEF Row
    <3>3. row' \in [Task -> Row] /\ pc' \in [Task -> Label]
      BY <2>0, <3>1, <3>2
    <3>. QED
      BY <2>0, <3>1, <3>3 DEF TypeOK, Row, Verifying
  <2>2. AskInv'
    BY <2>0 DEF AskInv, MustAnswer, Row
  <2>3. VetInv'
    BY <2>0 DEF VetInv, UnderModeration, CaptchaNotForgotten, Row
  <2>4. RaceInv'
    BY <2>0 DEF RaceInv, UnderModeration
  <2>. QED
    BY <2>1, <2>2, <2>3, <2>4
<1>4. CASE AntispamAsks(t) \/ AntispamPasses(t) \/ AntispamBypassed(t)
  <2>1. answer[t] # NoAnswer => answer[t] \in Answer
    BY <1>0
  <2>. QED
    BY <1>0, <1>4, <2>1, InvGoto DEF AntispamAsks, AntispamPasses, AntispamBypassed, IsMessage,
       redisVars, Label, Verifying
<1>. QED
  BY <1>1, <1>2, <1>3, <1>4 DEF GateStep

LEMMA InvCaptcha ==
    ASSUME IInv, NEW t \in Task, CaptchaStep(t)
    PROVE  IInv'
<1>. USE DEF IInv, redisVars
<1>0. /\ challenge \in [correct : Answer \cup {NoAnswer}, tries : Nat]
      /\ NoChallenge \in [correct : Answer \cup {NoAnswer}, tries : Nat]
      /\ \A c \in Answer :
            [correct |-> c, tries |-> 0] \in [correct : Answer \cup {NoAnswer}, tries : Nat]
      /\ [challenge EXCEPT !.tries = @ + 1] \in [correct : Answer \cup {NoAnswer}, tries : Nat]
      /\ blocked \in BOOLEAN /\ asked \in BOOLEAN /\ vetted \in BOOLEAN
      /\ TRUE \in BOOLEAN
      /\ pc[t] \in Verifying => answer[t] \in Answer
      /\ {"build", "send", "setPending", "lookup", "delete", "activate", "count", "unask",
           "lock"} \subseteq Label
      /\ {"verify", "lookup", "delete", "activate", "count", "unask", "lock"} = Verifying
  BY DEF TypeOK, NoChallenge, Label, Verifying
<1>1. CASE Remind(t) \/ LockedOut(t) \/ Lock(t)
  BY <1>0, <1>1, InvLeave DEF Remind, LockedOut, Lock
<1>2. CASE NoHash(t)
  BY <1>0, <1>2, InvGoto DEF NoHash, AskInv
<1>3. CASE BuildChallenge(t)
  BY <1>0, <1>3, InvGoto DEF BuildChallenge, AskInv
<1>4. CASE SendQuestion(t)
  <2>1. CASE row[t].status = "pending_captcha"
    BY <1>0, <1>4, <2>1, InvLeave DEF SendQuestion
  <2>2. CASE row[t].status # "pending_captcha"
    BY <1>0, <1>4, <2>2, InvGoto DEF SendQuestion, AskInv, MustAnswer
  <2>. QED
    BY <2>1, <2>2
<1>5. CASE SetPending(t)
  <2>0. /\ pc[t] = "setPending" /\ row[t].created
        /\ status' = "pending_captcha" /\ gated' = TRUE
        /\ row' = [row EXCEPT ![t] = [status |-> "absent", until |-> 0, created |-> FALSE]]
        /\ pc' = [pc EXCEPT ![t] = "idle"]
        /\ pc \in [Task -> Label] /\ row \in [Task -> Row]
        /\ answer' = [answer EXCEPT ![t] = NoAnswer]
        /\ racing' = racing \ {t}
        /\ UNCHANGED <<clock, mutedUntil, challenge, blocked, asked, vetted, faults>>
    BY <1>5 DEF SetPending, Leave, TypeOK, Row, AskInv
  <2>1. TypeOK'
    <3>1. row' \in [Task -> Row]
      BY <2>0, AccessBounds DEF Row, Status
    <3>. QED
      BY <2>0, <3>1 DEF TypeOK, Row, Status, Label, Verifying
  <2>2. AskInv'
    BY <2>0 DEF AskInv, MustAnswer, Row
  <2>3. VetInv'
    BY <2>0 DEF VetInv, UnderModeration, CaptchaNotForgotten, Row
  <2>4. RaceInv'
    BY <2>0 DEF RaceInv, UnderModeration
  <2>. QED
    BY <2>1, <2>2, <2>3, <2>4
<1>6. CASE NotLockedOut(t)
  BY <1>0, <1>6, InvGoto DEF NotLockedOut
<1>7. CASE LookupCorrect(t)
  <2>0. answer[t] \in Answer /\ vetted' \in BOOLEAN /\ (vetted => vetted')
    BY <1>0, <1>7 DEF LookupCorrect
  <2>1. CASE challenge.correct = NoAnswer
    BY <1>0, <2>0, <1>7, <2>1, InvLeave DEF LookupCorrect
  <2>2. CASE challenge.correct = answer[t]
    BY <1>0, <2>0, <1>7, <2>2, InvGoto, NoAnswerIsNoButton DEF LookupCorrect
  <2>3. CASE challenge.correct \notin {NoAnswer, answer[t]}
    BY <1>0, <2>0, <1>7, <2>3, InvGoto DEF LookupCorrect
  <2>. QED
    BY <2>1, <2>2, <2>3
<1>8. CASE DeleteChallenge(t)
  BY <1>0, <1>8, InvGoto DEF DeleteChallenge, VetInv
<1>9. CASE Activate(t)
  <2>0. /\ pc[t] = "activate" /\ vetted
        /\ status' = "active" /\ mutedUntil' = 0
        /\ row' = [row EXCEPT ![t] = [status |-> "absent", until |-> 0, created |-> FALSE]]
        /\ pc' = [pc EXCEPT ![t] = "idle"]
        /\ pc \in [Task -> Label] /\ row \in [Task -> Row]
        /\ answer' = [answer EXCEPT ![t] = NoAnswer]
        /\ racing' = racing \ {t}
        /\ UNCHANGED <<clock, challenge, blocked, asked, gated, vetted, faults>>
    BY <1>9 DEF Activate, Leave, TypeOK, Row, VetInv
  <2>1. TypeOK'
    <3>1. row' \in [Task -> Row] /\ 0 \in 0..MaxTime + 1
      BY <2>0, AccessBounds DEF Row, Status
    <3>. QED
      BY <2>0, <3>1 DEF TypeOK, Row, Status, Label, Verifying
  <2>2. AskInv'
    BY <2>0 DEF AskInv, MustAnswer, Row
  <2>3. VetInv'
    BY <2>0 DEF VetInv, UnderModeration, CaptchaNotForgotten, Row
  <2>4. RaceInv'
    BY <2>0 DEF RaceInv, UnderModeration
  <2>. QED
    BY <2>1, <2>2, <2>3, <2>4
<1>10. CASE CountWrong(t)
  <2>1. CASE challenge'.tries >= MaxTries
    BY <1>0, <1>10, <2>1, InvGoto DEF CountWrong
  <2>2. CASE ~(challenge'.tries >= MaxTries)
    BY <1>0, <1>10, <2>2, InvLeave DEF CountWrong
  <2>. QED
    BY <2>1, <2>2
<1>11. CASE Unask(t)
  BY <1>0, <1>11, InvGoto DEF Unask
<1>. QED
  BY <1>1, <1>2, <1>3, <1>4, <1>5, <1>6, <1>7, <1>8, <1>9, <1>10, <1>11 DEF CaptchaStep

\* Steps that touch neither the row of a task nor the place where it stands.
LEMMA InvModerate ==
    ASSUME IInv, NEW s \in {"active", "banned", "muted"}, NEW until \in 0..MaxTime + 1,
           SetStatus(s, until)
    PROVE  IInv'
<1>. USE DEF IInv, SetStatus, redisVars
<1>1. TypeOK'
  BY DEF TypeOK, Status
<1>2. AskInv'
  BY DEF AskInv, MustAnswer
<1>3. VetInv'
  BY DEF VetInv, UnderModeration, CaptchaNotForgotten
<1>4. RaceInv'
  BY DEF RaceInv, UnderModeration
<1>. QED
  BY <1>1, <1>2, <1>3, <1>4

LEMMA InvTime ==
    ASSUME IInv, ChallengeExpires \/ BlockExpires \/ Tick
    PROVE  IInv'
<1>. USE DEF IInv, ChallengeExpires, BlockExpires, Tick, rowVars, redisVars, taskVars
<1>1. TypeOK'
  <2>1. CASE ChallengeExpires
    <3>1. NoChallenge \in [correct : Answer \cup {NoAnswer}, tries : Nat]
      BY DEF NoChallenge
    <3>. QED
      BY <2>1, <3>1 DEF TypeOK
  <2>2. CASE BlockExpires
    BY <2>2 DEF TypeOK
  <2>3. CASE Tick
    <3>1. clock' = clock + 1 /\ clock < MaxTime /\ clock \in 0..MaxTime
      BY <2>3 DEF TypeOK
    <3>2. clock' \in 0..MaxTime
      BY <3>1, AccessBounds
    <3>. QED
      BY <2>3, <3>2 DEF TypeOK
  <2>. QED
    BY <2>1, <2>2, <2>3
<1>2. AskInv'
  BY DEF AskInv, MustAnswer
<1>3. VetInv'
  BY DEF VetInv, UnderModeration, CaptchaNotForgotten
<1>4. RaceInv'
  BY DEF RaceInv, UnderModeration
<1>. QED
  BY <1>1, <1>2, <1>3, <1>4

LEMMA InvCrash ==
    ASSUME IInv, Crash
    PROVE  IInv'
<1>. USE DEF IInv, Crash, rowVars, redisVars
<1>1. TypeOK'
  <2>1. row' \in [Task -> Row]
    BY AccessBounds DEF Row, Status
  <2>2. faults' \in 0..MaxFaults
    BY AccessBounds DEF TypeOK
  <2>. QED
    BY <2>1, <2>2 DEF TypeOK, Row, Label, Verifying
<1>2. AskInv'
  BY DEF AskInv, MustAnswer
<1>3. VetInv'
  BY DEF VetInv, UnderModeration, CaptchaNotForgotten
<1>4. RaceInv'
  BY DEF RaceInv, UnderModeration
<1>. QED
  BY <1>1, <1>2, <1>3, <1>4

LEMMA InvNext == ASSUME IInv, [Next]_vars PROVE IInv'
<1>1. CASE \E t \in Task, a \in Answer \cup {NoAnswer} : Arrive(t, a)
  BY <1>1, InvArrive
<1>2. CASE \E t \in Task : GateStep(t) \/ CaptchaStep(t)
  BY <1>2, InvGate, InvCaptcha
<1>3. CASE ChallengeExpires \/ BlockExpires \/ Tick
  BY <1>3, InvTime
<1>4. CASE Moderate
  <2>1. mutedUntil \in 0..MaxTime + 1 /\ clock + 1 \in 0..MaxTime + 1 /\ 0 \in 0..MaxTime + 1
    BY AccessBounds DEF IInv, TypeOK
  <2>. QED
    BY <1>4, <2>1, InvModerate DEF Moderate, Ban, Mute, UnbanOrUnmute
<1>5. CASE Crash
  BY <1>5, InvCrash
<1>6. CASE UNCHANGED vars
  <2>. USE <1>6 DEF IInv, vars, rowVars, redisVars, taskVars
  <2>1. TypeOK' /\ AskInv'
    BY DEF TypeOK, AskInv, MustAnswer
  <2>2. VetInv' /\ RaceInv'
    BY DEF VetInv, RaceInv, UnderModeration, CaptchaNotForgotten
  <2>. QED
    BY <2>1, <2>2
<1>. QED
  BY <1>1, <1>2, <1>3, <1>4, <1>5, <1>6 DEF Next

LEMMA Invariant == Spec => []IInv
BY InvInit, InvNext, PTL DEF Spec

-----------------------------------------------------------------------------
\* Every column, key and local stays in its domain, and only a button press
\* gets into verify_answer (app/features/antispam/captcha.py).
THEOREM TypeCorrect == Spec => []TypeOK
<1>1. IInv => TypeOK
  BY DEF IInv
<1>. QED
  BY <1>1, Invariant, PTL

\* Once asked, a user becomes active only by a right answer or through an
\* admin, whatever expires, crashes or races (verify_answer, set_status).
THEOREM NotForgotten == Spec => []CaptchaNotForgotten
<1>1. IInv => CaptchaNotForgotten
  BY DEF IInv, VetInv
<1>. QED
  BY <1>1, Invariant, PTL

\* pending_captcha is written once in the life of a user
\* (AntispamMiddleware's set_status).
THEOREM AskedOnce == Spec => CaptchaOnce
<1>1. ASSUME IInv, [Next]_vars
      PROVE  [gated => ~(status # "pending_captcha" /\ status' = "pending_captcha")]_vars
  <2>. SUFFICES ASSUME gated, status # "pending_captcha", status' = "pending_captcha" PROVE FALSE
    OBVIOUS
  <2>1. CASE \E t \in Task, a \in Answer \cup {NoAnswer} : Arrive(t, a)
    BY <2>1 DEF Arrive
  <2>2. CASE \E t \in Task : GateStep(t)
    BY <2>2 DEF GateStep, StatusGateRefuses, StatusGatePasses, AutoLift, AntispamDrops, AntispamAsks,
       AntispamPasses, AntispamBypassed, Handle, rowVars
  <2>3. CASE \E t \in Task : CaptchaStep(t)
    <3>1. PICK t \in Task : CaptchaStep(t)
      BY <2>3
    <3>2. ~SetPending(t)
      BY <1>1 DEF SetPending, IInv, AskInv
    <3>. QED
      BY <3>1, <3>2 DEF CaptchaStep, Remind, NoHash, BuildChallenge, SendQuestion, LockedOut,
         NotLockedOut, LookupCorrect, DeleteChallenge, Activate, CountWrong, Unask, Lock, rowVars
  <2>4. CASE ChallengeExpires \/ BlockExpires \/ Tick \/ Crash \/ UNCHANGED vars
    BY <2>4 DEF ChallengeExpires, BlockExpires, Tick, Crash, vars, rowVars
  <2>5. CASE Moderate
    BY <2>5 DEF Moderate, Ban, Mute, UnbanOrUnmute, SetStatus
  <2>. QED
    BY <1>1, <2>1, <2>2, <2>3, <2>4, <2>5 DEF Next
<1>. QED
  BY <1>1, Invariant, PTL DEF Spec, CaptchaOnce

\* A ban or mute is undone by an admin, by time, or by an update that was
\* already in flight (set_status is unconditional in app/core/repositories/users.py).
THEOREM OnlyRacersUndo == Spec => OnlyRacingUpdatesUndo
<1>1. ASSUME IInv, [Next]_vars
      PROVE  [UnderModeration /\ status' # status => Moderate \/ ByTime \/ ByRace]_vars
  <2>. SUFFICES ASSUME UnderModeration, status' # status, ~Moderate, ~ByRace PROVE ByTime
    OBVIOUS
  <2>0. pc \in [Task -> Label] /\ RaceInv
    BY <1>1 DEF IInv, TypeOK
  <2>1. CASE \E t \in Task, a \in Answer \cup {NoAnswer} : Arrive(t, a)
    BY <2>1 DEF Arrive, UnderModeration
  <2>2. ASSUME NEW t \in Task, AutoLift(t) PROVE ByTime
    <3>1. pc[t] = "statusGate" /\ row[t].status = "muted" /\ pc'[t] = "antispam" /\ ~Refused(t)
      BY <2>0, <2>2 DEF AutoLift, Goto
    <3>2. t \notin racing
      BY <3>1 DEF ByRace
    <3>3. row[t].status = status /\ row[t].until = mutedUntil
      BY <2>0, <3>1, <3>2 DEF RaceInv
    <3>. QED
      BY <1>1, <3>1, <3>3, AccessBounds DEF ByTime, Refused, IInv, TypeOK
  <2>3. ASSUME NEW t \in Task, SetPending(t) \/ Activate(t) PROVE FALSE
    <3>1. pc[t] \in {"setPending", "activate"} /\ pc'[t] = "idle"
      BY <2>0, <2>3 DEF SetPending, Activate, Leave
    <3>2. t \notin racing
      BY <3>1 DEF ByRace
    <3>. QED
      BY <2>0, <3>1, <3>2 DEF RaceInv
  <2>4. ASSUME NEW t \in Task, GateStep(t), ~AutoLift(t) PROVE FALSE
    BY <2>4 DEF GateStep, StatusGateRefuses, StatusGatePasses, AntispamDrops, AntispamAsks,
       AntispamPasses, AntispamBypassed, Handle, rowVars
  <2>5. ASSUME NEW t \in Task, CaptchaStep(t), ~(SetPending(t) \/ Activate(t)) PROVE FALSE
    BY <2>5 DEF CaptchaStep, Remind, NoHash, BuildChallenge, SendQuestion, LockedOut, NotLockedOut,
       LookupCorrect, DeleteChallenge, CountWrong, Unask, Lock, rowVars
  <2>6. CASE ChallengeExpires \/ BlockExpires \/ Tick \/ Crash \/ UNCHANGED vars
    BY <2>6 DEF ChallengeExpires, BlockExpires, Tick, Crash, vars, rowVars
  <2>. QED
    BY <1>1, <2>1, <2>2, <2>3, <2>4, <2>5, <2>6 DEF Next
<1>. QED
  BY <1>1, Invariant, PTL DEF Spec, OnlyRacingUpdatesUndo

-----------------------------------------------------------------------------
\* Every step of the gate, of the captcha and of the admins is a step of
\* Vetting or leaves it alone.
LEMMA StepImplementsVetting ==
    ASSUME IInv, [Next]_vars
    PROVE  [Vet!Next]_(Vet!vars)
<1>. DEFINE Open == challenge.correct # NoAnswer
<1>0. /\ challenge \in [correct : Answer \cup {NoAnswer}, tries : Nat] /\ vetted \in BOOLEAN
      /\ \A t \in Task : pc[t] # "idle" => status # "absent"
      /\ \A t \in Task : pc[t] \in Verifying => answer[t] # NoAnswer
  BY NoAnswerIsNoButton DEF IInv, TypeOK, AskInv
<1>1. ASSUME UNCHANGED <<status, gated, vetted, challenge>> PROVE UNCHANGED Vet!vars
  BY <1>1 DEF Vet!vars
<1>2. ASSUME NEW t \in Task, NEW a \in Answer \cup {NoAnswer}, Arrive(t, a)
      PROVE  [Vet!Next]_(Vet!vars)
  BY <1>2 DEF Arrive, redisVars, Vet!Next, Vet!Register, Vet!vars
<1>3. ASSUME NEW t \in Task, GateStep(t) PROVE [Vet!Next]_(Vet!vars)
  <2>1. CASE AutoLift(t)
    <3>1. vetted
      BY <2>1 DEF AutoLift, IInv, VetInv
    <3>. QED
      BY <2>1, <3>1 DEF AutoLift, redisVars, Vet!Next, Vet!Admit
  <2>2. CASE ~AutoLift(t)
    BY <1>1, <1>3, <2>2 DEF GateStep, StatusGateRefuses, StatusGatePasses, AntispamDrops, AntispamAsks,
       AntispamPasses, AntispamBypassed, Handle, rowVars, redisVars
  <2>. QED
    BY <2>1, <2>2
<1>4. ASSUME NEW t \in Task, CaptchaStep(t) PROVE [Vet!Next]_(Vet!vars)
  <2>1. CASE Remind(t) \/ NoHash(t) \/ SendQuestion(t) \/ LockedOut(t) \/ NotLockedOut(t) \/ Lock(t)
    BY <1>1, <2>1 DEF Remind, NoHash, SendQuestion, LockedOut, NotLockedOut, Lock, rowVars, redisVars
  <2>2. CASE BuildChallenge(t)
    <3>1. Open' /\ UNCHANGED <<status, gated, vetted>> /\ status # "absent"
      BY <1>0, <2>2, NoAnswerIsNoButton DEF BuildChallenge, rowVars
    <3>. QED
      BY <3>1 DEF Vet!Next, Vet!Pose
  <2>3. CASE SetPending(t)
    <3>1. ~gated /\ status # "absent"
      BY <1>0, <2>3 DEF SetPending, IInv, AskInv
    <3>. QED
      BY <2>3, <3>1 DEF SetPending, redisVars, Vet!Next, Vet!Gate
  <2>4. CASE LookupCorrect(t)
    <3>1. UNCHANGED <<status, gated, challenge>> /\ vetted' = (vetted \/ challenge.correct = answer[t])
      BY <2>4 DEF LookupCorrect, rowVars, redisVars
    <3>2. answer[t] # NoAnswer
      BY <1>0, <2>4 DEF LookupCorrect, Verifying
    <3>3. CASE challenge.correct = answer[t]
      BY <3>1, <3>2, <3>3 DEF Vet!Next, Vet!AcceptAnswer
    <3>4. CASE challenge.correct # answer[t]
      <4>1. vetted' = vetted
        BY <1>0, <3>1, <3>4
      <4>. QED
        BY <1>1, <3>1, <4>1
    <3>. QED
      BY <3>3, <3>4
  <2>5. CASE DeleteChallenge(t) \/ Unask(t)
    <3>1. ~Open' /\ UNCHANGED <<status, gated, vetted>>
      BY <2>5 DEF DeleteChallenge, Unask, NoChallenge, rowVars
    <3>. QED
      BY <3>1 DEF Vet!Next, Vet!Close, Vet!vars
  <2>6. CASE Activate(t)
    <3>1. vetted
      BY <2>6 DEF Activate, IInv, VetInv
    <3>. QED
      BY <2>6, <3>1 DEF Activate, redisVars, Vet!Next, Vet!Admit
  <2>7. CASE CountWrong(t)
    <3>1. challenge' = [challenge EXCEPT !.tries = @ + 1] /\ UNCHANGED <<status, gated, vetted>>
      BY <2>7 DEF CountWrong, rowVars
    <3>2. challenge'.correct = challenge.correct
      BY <1>0, <3>1
    <3>. QED
      BY <3>1, <3>2 DEF Vet!vars
  <2>. QED
    BY <1>4, <2>1, <2>2, <2>3, <2>4, <2>5, <2>6, <2>7 DEF CaptchaStep
<1>5. CASE ChallengeExpires
  <2>1. Open /\ ~Open' /\ UNCHANGED <<status, gated, vetted>>
    BY <1>5 DEF ChallengeExpires, NoChallenge, rowVars
  <2>. QED
    BY <2>1 DEF Vet!Next, Vet!Close
<1>6. CASE BlockExpires \/ Tick \/ Crash \/ UNCHANGED vars
  BY <1>1, <1>6 DEF BlockExpires, Tick, Crash, vars, rowVars, redisVars
<1>7. CASE Moderate
  BY <1>7 DEF Moderate, Ban, Mute, UnbanOrUnmute, SetStatus, redisVars, Vet!Next, Vet!Moderate
<1>. QED
  BY <1>2, <1>3, <1>4, <1>5, <1>6, <1>7 DEF Next

\* The captcha keeps the promise of Vetting: asked once, and in only by a
\* right answer to an open question or through an admin
\* (app/features/antispam, app/core/middlewares/status_gate.py).
THEOREM RefinesVetting == Spec => ImplementsVetting
<1>1. Init => Vet!Init
  BY DEF Init, NoChallenge, Vet!Init
<1>2. IInv /\ [Next]_vars => [Vet!Next]_(Vet!vars)
  BY StepImplementsVetting
<1>. QED
  BY <1>1, <1>2, Invariant, PTL DEF Spec, ImplementsVetting, Vet!Spec
=============================================================================
