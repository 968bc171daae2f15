----------------------------- MODULE JobLedger -----------------------------
(***************************************************************************)
(* What broadcasts promise the admins who start them, whatever fails: jobs *)
(* are taken up one at a time, each once and in the order in which they    *)
(* were submitted; a job's messages arrive only while its row says         *)
(* `running`, at each user once at most; and a row that is over stays as   *)
(* it is.  A job may be given up at any moment, for good.  Broadcast       *)
(* implements this specification.                                          *)
(***************************************************************************)
EXTENDS Naturals, Sequences

CONSTANTS Job, NoJob, User

VARIABLES
    submitted,  \* the jobs ever submitted
    waiting,    \* those not yet taken up, the oldest first
    current,    \* the one that is worked on
    status,     \* job -> what its row says
    arrived     \* job -> user -> messages that arrived

vars == <<submitted, waiting, current, status, arrived>>

Outcome == {"completed", "cancelled"}

Init ==
    /\ submitted = {}
    /\ waiting = <<>>
    /\ current = NoJob
    /\ status = [j \in Job |-> "none"]
    /\ arrived = [j \in Job |-> [u \in User |-> 0]]

Submit(j) ==
    /\ j \notin submitted
    /\ submitted' = submitted \cup {j}
    /\ waiting' = Append(waiting, j)
    /\ UNCHANGED <<current, status, arrived>>

TakeUp ==
    /\ current = NoJob
    /\ waiting # <<>>
    /\ current' = Head(waiting)
    /\ waiting' = Tail(waiting)
    /\ UNCHANGED <<submitted, status, arrived>>

\* The row of the current job goes one way.
Move(from, to) ==
    /\ current # NoJob
    /\ status[current] = from
    /\ status' = [status EXCEPT ![current] = to]
    /\ UNCHANGED <<submitted, waiting, current, arrived>>

Begin == Move("none", "running")
Finish == \E s \in Outcome : Move("running", s)

Deliver(u) ==
    /\ current # NoJob
    /\ status[current] = "running"
    /\ arrived[current][u] = 0
    /\ arrived' = [arrived EXCEPT ![current][u] = 1]
    /\ UNCHANGED <<submitted, waiting, current, status>>

\* The job is over, or has failed, or the process died.
PutAside ==
    /\ current # NoJob
    /\ current' = NoJob
    /\ UNCHANGED <<submitted, waiting, status, arrived>>

Next ==
    \/ \E j \in Job : Submit(j)
    \/ TakeUp
    \/ Begin
    \/ \E u \in User : Deliver(u)
    \/ Finish
    \/ PutAside

Spec == Init /\ [][Next]_vars
=============================================================================
