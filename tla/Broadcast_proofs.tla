-------------------------- MODULE Broadcast_proofs --------------------------
(***************************************************************************)
(* Proofs about Broadcast, for any number of jobs, users, admins and       *)
(* presses, any budget of waits and any number of faults.                  *)
(***************************************************************************)
EXTENDS Broadcast, FiniteSetTheorems, TLAPS

Queued == {queue[i] : i \in DOMAIN queue}

\* A job is in one place at a time, and nothing was sent of it before it was
\* picked up.
QueueInv ==
    /\ job \notin Queued
    /\ \A i, k \in DOMAIN queue : queue[i] = queue[k] => i = k
    /\ \A j \in Job : j \in Queued \/ j \notin enqueued => \A u \in User : sent[j][u] = 0

\* A recipient has nothing of the running job before the send to it.
SendInv ==
    /\ selected = tried \cup todo
    /\ tried \cap todo = {}
    /\ step \in {"create", "stream"} => tried = {} /\ todo = {}
    /\ job # NoJob => \A u \in User : u \notin tried => sent[job][u] = 0
    /\ step = "send" => target \in tried /\ sent[job][target] = 0
    /\ OneMessagePerJob

\* The loop is left early exactly when the flag was seen.
StopInv ==
    /\ stopping => step \in {"lastFlush", "finish", "report"} /\ todo # {}
    /\ step \in {"lastFlush", "finish"} /\ ~stopping => todo = {}

\* A send that is under way under the flag has used a fault, or is the first.
LateInv ==
    /\ CancelStops
    /\ job \notin flag => late = 0
    /\ step = "send" => late <= faults

\* An idle worker holds nothing of its last job.
IdleInv == job = NoJob => todo = {} /\ tried = {} /\ late = 0 /\ ~stopping

IInv == TypeOK /\ QueueInv /\ SendInv /\ StopInv /\ LateInv /\ IdleInv
-----------------------------------------------------------------------------
LEMMA FaultBound ==
    ASSUME TypeOK, Fault \/ UNCHANGED faults
    PROVE  faults' \in 0..MaxFaults /\ faults <= faults'
<1>1. faults \in 0..MaxFaults
  BY DEF TypeOK
<1>2. CASE Fault
  BY <1>1, <1>2, BroadcastBounds DEF Fault
<1>3. CASE UNCHANGED faults
  BY <1>1, <1>3, BroadcastBounds
<1>. QED
  BY <1>2, <1>3

LEMMA CountOne ==
    ASSUME NEW c \in Counters
    PROVE  /\ [c EXCEPT !.total = @ + 1] \in Counters
           /\ [c EXCEPT !.delivered = @ + 1] \in Counters
           /\ [c EXCEPT !.failed = @ + 1] \in Counters
           /\ [c EXCEPT !.blocked = @ + 1] \in Counters
BY DEF Counters

\* What BRPOP leaves of a list, and what it takes.
LEMMA Popped ==
    ASSUME NEW S, NEW q \in Seq(S), q # <<>>, NEW r, r = SubSeq(q, 1, Len(q) - 1)
    PROVE  /\ r \in Seq(S) /\ DOMAIN r = 1..(Len(q) - 1) /\ DOMAIN q = 1..Len(q)
           /\ Len(q) \in Nat \ {0} /\ q[Len(q)] \in S
           /\ \A i \in DOMAIN r : r[i] = q[i] /\ i \in DOMAIN q /\ i # Len(q)
<1>1. Len(q) \in Nat /\ DOMAIN q = 1..Len(q) /\ Len(q) # 0
  OBVIOUS
<1>2. Len(q) - 1 \in Nat /\ q[Len(q)] \in S
  BY <1>1
<1>3. r \in Seq(S) /\ Len(r) = Len(q) - 1
  BY <1>1, <1>2
<1>4. DOMAIN r = 1..(Len(q) - 1)
  BY <1>3
<1>5. \A i \in 1..(Len(q) - 1) : r[i] = q[i]
  BY <1>1, <1>2
<1>. QED
  BY <1>1, <1>2, <1>3, <1>4, <1>5

\* What LPUSH makes of a list.
LEMMA Pushed ==
    ASSUME NEW S, NEW q \in Seq(S), NEW e, NEW r, r = <<e>> \o q
    PROVE  /\ DOMAIN q = 1..Len(q) /\ DOMAIN r = 1..Len(r) /\ Len(q) \in Nat /\ Len(r) = Len(q) + 1
           /\ r[1] = e /\ \A i \in 2..Len(r) : i - 1 \in 1..Len(q) /\ r[i] = q[i - 1]
<1>1. q \in Seq(S \cup {e}) /\ <<e>> \in Seq(S \cup {e})
  OBVIOUS
<1>2. r \in Seq(S \cup {e}) /\ Len(r) = Len(q) + 1
  BY <1>1
<1>3. DOMAIN q = 1..Len(q) /\ DOMAIN r = 1..Len(r) /\ Len(q) \in Nat
  BY <1>1, <1>2
<1>4. r[1] = e
  BY <1>1
<1>5. \A i \in 2..Len(r) : i - 1 \in 1..Len(q) /\ r[i] = q[i - 1]
  BY <1>1, <1>2, <1>3
<1>. QED
  BY <1>2, <1>3, <1>4, <1>5

LEMMA InvInit == ASSUME Init PROVE IInv
<1>. USE DEF Init, DialogsInit, JobsInit, IInv
<1>1. TypeOK
  <2>1. press \in [Admin -> [Press -> PressLabel]] /\ dialog \in [Admin -> Dialog]
    BY DEF PressLabel, Dialog
  <2>2. Zero \in Counters
    BY DEF Zero, Counters
  <2>3. row \in [Job -> [status : {"none", "running", "completed", "cancelled"}, counts : Counters]]
    BY <2>2
  <2>4. waits \in 0..MaxWaits /\ faults \in 0..MaxFaults /\ late \in Nat
    BY BroadcastBounds
  <2>5. queue \in Seq(enqueued) /\ sent \in [Job -> [User -> Nat]]
    OBVIOUS
  <2>. QED
    BY <2>1, <2>2, <2>3, <2>4, <2>5, Sentinels DEF TypeOK, Step
<1>2. QueueInv
  BY DEF QueueInv, Queued
<1>3. SendInv
  BY DEF SendInv, OneMessagePerJob
<1>4. StopInv
  BY DEF StopInv
<1>5. LateInv
  BY BroadcastBounds DEF LateInv, CancelStops
<1>6. IdleInv
  BY DEF IdleInv
<1>. QED
  BY <1>1, <1>2, <1>3, <1>4, <1>5, <1>6

LEMMA InvAdmin ==
    ASSUME IInv, NEW a \in Admin, AdminStep(a)
    PROVE  IInv'
<1>. USE DEF IInv, AdminStep, Entry, EntryUncounted, DialogGoesOn, DialogDropped, Dialog, producerVars, queueVars, producerFrame, localVars, jobHistory, workerFrame, sendFrame
<1>1. TypeOK'
  <2>1. dialog' \in [Admin -> Dialog]
    BY DEF TypeOK
  <2>2. faults' \in 0..MaxFaults
    BY FaultBound
  <2>. QED
    BY <2>1, <2>2 DEF TypeOK
<1>2. QueueInv'
  BY DEF QueueInv, Queued, TypeOK
<1>3. SendInv'
  BY DEF SendInv, OneMessagePerJob, TypeOK
<1>4. StopInv'
  BY DEF StopInv, TypeOK
<1>5. LateInv'
  BY FaultBound, BroadcastBounds DEF LateInv, CancelStops, TypeOK
<1>6. IdleInv'
  BY Sentinels DEF IdleInv, TypeOK
<1>. QED
  BY <1>1, <1>2, <1>3, <1>4, <1>5, <1>6

LEMMA InvPress ==
    ASSUME IInv, NEW a \in Admin, NEW p \in Press,
           PressYes(a, p) \/ ReadDialog(a, p) \/ EnqueueFails(a, p) \/ ClearDialog(a, p)
    PROVE  IInv'
<1>. USE DEF IInv, PressYes, ReadDialog, EnqueueFails, ClearDialog, PressAt, producerVars, queueVars, producerFrame, localVars, jobHistory, workerFrame, sendFrame
<1>1. TypeOK'
  <2>1. PICK to \in PressLabel : press' = [press EXCEPT ![a] = [press[a] EXCEPT ![p] = to]]
    BY DEF PressLabel
  <2>2. press' \in [Admin -> [Press -> PressLabel]]
    BY <2>1 DEF TypeOK
  <2>3. dialog' \in [Admin -> Dialog]
    BY DEF TypeOK, Dialog
  <2>4. faults' \in 0..MaxFaults
    BY FaultBound
  <2>. QED
    BY <2>2, <2>3, <2>4 DEF TypeOK
<1>2. QueueInv'
  BY DEF QueueInv, Queued, TypeOK
<1>3. SendInv'
  BY DEF SendInv, OneMessagePerJob, TypeOK
<1>4. StopInv'
  BY DEF StopInv, TypeOK
<1>5. LateInv'
  BY FaultBound, BroadcastBounds DEF LateInv, CancelStops, TypeOK
<1>6. IdleInv'
  BY Sentinels DEF IdleInv, TypeOK
<1>. QED
  BY <1>1, <1>2, <1>3, <1>4, <1>5, <1>6

LEMMA InvEnqueue ==
    ASSUME IInv, NEW a \in Admin, NEW p \in Press, Enqueue(a, p)
    PROVE  IInv'
<1>. USE DEF IInv, Enqueue, PressAt, producerVars, queueVars, producerFrame, localVars, jobHistory, workerFrame, sendFrame
<1>0. PICK j \in Job \ enqueued : queue' = <<j>> \o queue /\ enqueued' = enqueued \cup {j}
  OBVIOUS
<1>a. queue \in Seq(enqueued)
  BY DEF TypeOK
<1>b. /\ queue' \in Seq(enqueued') /\ Len(queue') = Len(queue) + 1
      /\ queue'[1] = j /\ \A i \in 2..Len(queue') : i - 1 \in 1..Len(queue) /\ queue'[i] = queue[i - 1]
  <2>1. queue \in Seq(enqueued') /\ <<j>> \in Seq(enqueued')
    BY <1>0, <1>a
  <2>2. queue' \in Seq(enqueued')
    BY <1>0, <2>1
  <2>. QED
    BY <1>0, <1>a, <2>2, Pushed
<1>c. DOMAIN queue = 1..Len(queue) /\ DOMAIN queue' = 1..Len(queue') /\ Len(queue) \in Nat
  BY <1>a, <1>b
<1>d. Queued \subseteq enqueued /\ Queued' \subseteq Queued \cup {j}
  BY <1>a, <1>b, <1>c DEF Queued
<1>1. TypeOK'
  <2>1. press' = [press EXCEPT ![a] = [press[a] EXCEPT ![p] = "clear"]]
    OBVIOUS
  <2>2. press' \in [Admin -> [Press -> PressLabel]]
    BY <2>1 DEF TypeOK, PressLabel
  <2>. QED
    BY <1>0, <1>b, <2>2 DEF TypeOK
<1>2. QueueInv'
  <2>1. job' \notin Queued'
    BY <1>0, <1>d, Sentinels DEF QueueInv, TypeOK
  <2>2. \A i, k \in DOMAIN queue' : queue'[i] = queue'[k] => i = k
    <3>. SUFFICES ASSUME NEW i \in 1..Len(queue'), NEW k \in 1..Len(queue'), queue'[i] = queue'[k]
         PROVE  i = k
      BY <1>c
    <3>1. \A n \in 1..Len(queue) : queue[n] \in enqueued
      BY <1>a
    <3>2. CASE i = 1 /\ k = 1
      BY <3>2
    <3>3. CASE i = 1 /\ k # 1
      BY <1>0, <1>b, <1>c, <3>1, <3>3
    <3>4. CASE i # 1 /\ k = 1
      BY <1>0, <1>b, <1>c, <3>1, <3>4
    <3>5. CASE i # 1 /\ k # 1
      <4>1. queue[i - 1] = queue[k - 1] /\ i - 1 \in DOMAIN queue /\ k - 1 \in DOMAIN queue
        BY <1>b, <1>c, <3>5
      <4>2. i - 1 = k - 1
        BY <4>1 DEF QueueInv
      <4>. QED
        BY <4>2, <1>c
    <3>. QED
      BY <3>2, <3>3, <3>4, <3>5
  <2>3. \A n \in Job : n \in Queued' \/ n \notin enqueued' => \A u \in User : sent'[n][u] = 0
    BY <1>0, <1>d DEF QueueInv
  <2>. QED
    BY <2>1, <2>2, <2>3 DEF QueueInv
<1>3. SendInv'
  BY DEF SendInv, OneMessagePerJob
<1>4. StopInv'
  BY DEF StopInv
<1>5. LateInv'
  BY DEF LateInv, CancelStops
<1>6. IdleInv'
  BY Sentinels DEF IdleInv, TypeOK
<1>. QED
  BY <1>1, <1>2, <1>3, <1>4, <1>5, <1>6

LEMMA InvFlag ==
    ASSUME IInv, NEW j \in Job, Cancel(j) \/ FlagExpires(j)
    PROVE  IInv'
<1>. USE DEF IInv, Cancel, FlagExpires, producerVars, queueVars, producerFrame, localVars, jobHistory, workerFrame, sendFrame
<1>1. TypeOK'
  <2>1. Queued \subseteq enqueued /\ flag' \subseteq enqueued
    BY Sentinels DEF TypeOK, Queued
  <2>. QED
    BY <2>1 DEF TypeOK
<1>2. QueueInv'
  BY DEF QueueInv, Queued, TypeOK
<1>3. SendInv'
  BY DEF SendInv, OneMessagePerJob, TypeOK
<1>4. StopInv'
  BY DEF StopInv, TypeOK
<1>5. LateInv'
  BY BroadcastBounds DEF LateInv, CancelStops, TypeOK
<1>6. IdleInv'
  BY Sentinels DEF IdleInv, TypeOK
<1>. QED
  BY <1>1, <1>2, <1>3, <1>4, <1>5, <1>6

LEMMA InvDrop ==
    ASSUME IInv, JobFails \/ Report \/ Crash
    PROVE  IInv'
<1>. USE DEF IInv, JobFails, Report, Crash, DropLocals, producerVars, queueVars, producerFrame, localVars, jobHistory, workerFrame, sendFrame
<1>1. TypeOK'
  <2>1. press' \in [Admin -> [Press -> PressLabel]]
    BY DEF TypeOK, PressLabel
  <2>2. waits' \in 0..MaxWaits /\ late' \in Nat /\ cnt' \in Counters /\ step' \in Step
    BY BroadcastBounds DEF Zero, Counters, Step
  <2>3. faults' \in 0..MaxFaults
    BY FaultBound
  <2>. QED
    BY <2>1, <2>2, <2>3 DEF TypeOK
<1>2. QueueInv'
  <2>1. Queued' = Queued /\ Queued \subseteq Job
    BY DEF Queued, TypeOK
  <2>. QED
    BY <2>1, Sentinels DEF QueueInv
<1>3. SendInv'
  BY DEF SendInv, OneMessagePerJob, TypeOK
<1>4. StopInv'
  BY DEF StopInv, TypeOK
<1>5. LateInv'
  BY FaultBound, BroadcastBounds DEF LateInv, CancelStops, TypeOK
<1>6. IdleInv'
  BY Sentinels DEF IdleInv, TypeOK
<1>. QED
  BY <1>1, <1>2, <1>3, <1>4, <1>5, <1>6

LEMMA InvPop == ASSUME IInv, Pop PROVE IInv'
<1>a. /\ queue \in Seq(enqueued) /\ queue # <<>> /\ queue' = SubSeq(queue, 1, Len(queue) - 1)
      /\ job' = queue[Len(queue)] /\ step = "idle" /\ job = NoJob
  BY DEF Pop, IInv, TypeOK
<1>b. /\ queue' \in Seq(enqueued) /\ DOMAIN queue' = 1..(Len(queue) - 1) /\ DOMAIN queue = 1..Len(queue)
      /\ Len(queue) \in Nat \ {0} /\ queue[Len(queue)] \in enqueued
      /\ \A i \in DOMAIN queue' : queue'[i] = queue[i] /\ i \in DOMAIN queue /\ i # Len(queue)
  BY <1>a, Popped
<1>e. Len(queue) \in DOMAIN queue
  BY <1>b
<1>c. job' \in Queued /\ job' \in enqueued /\ job = NoJob
  BY <1>a, <1>b, <1>e DEF Queued
<1>d. Queued' \subseteq Queued \ {job'}
  <2>. SUFFICES ASSUME NEW i \in DOMAIN queue' PROVE queue'[i] \in Queued /\ queue'[i] # job'
    BY DEF Queued
  <2>1. queue'[i] = queue[i] /\ i \in DOMAIN queue /\ i # Len(queue)
    BY <1>b
  <2>2. queue[i] # queue[Len(queue)]
    BY <1>e, <2>1 DEF QueueInv, IInv
  <2>. QED
    BY <1>a, <2>1, <2>2 DEF Queued
<1>f. \A i, k \in DOMAIN queue' : queue'[i] = queue'[k] => i = k
  BY <1>b DEF QueueInv, IInv
<1>. USE DEF IInv, Pop, producerVars, queueVars, producerFrame, localVars, jobHistory, workerFrame, sendFrame
<1>1. TypeOK'
  BY <1>b, <1>c, Sentinels DEF TypeOK, Step
<1>2. QueueInv'
  BY <1>d, <1>f DEF QueueInv
<1>3. SendInv'
  <2>1. \A u \in User : sent[job'][u] = 0
    BY <1>c DEF QueueInv, TypeOK
  <2>2. tried = {} /\ todo = {} /\ selected = {}
    BY <1>c DEF SendInv, IdleInv
  <2>. QED
    BY <2>1, <2>2 DEF SendInv, OneMessagePerJob
<1>4. StopInv'
  BY DEF StopInv
<1>5. LateInv'
  BY <1>c, BroadcastBounds DEF LateInv, CancelStops, IdleInv, TypeOK
<1>6. IdleInv'
  BY Sentinels DEF IdleInv, TypeOK
<1>. QED
  BY <1>1, <1>2, <1>3, <1>4, <1>5, <1>6

LEMMA InvCreate ==
    ASSUME IInv, CreateRunning
    PROVE  IInv'
<1>. USE DEF IInv, CreateRunning, Step, producerVars, queueVars, producerFrame, localVars, jobHistory, workerFrame, sendFrame
<1>1. TypeOK'
  BY BroadcastBounds DEF TypeOK
<1>2. QueueInv'
  BY DEF QueueInv, Queued, TypeOK
<1>3. SendInv'
  BY DEF SendInv, OneMessagePerJob, TypeOK
<1>4. StopInv'
  BY DEF StopInv, TypeOK
<1>5. LateInv'
  BY BroadcastBounds DEF LateInv, CancelStops, TypeOK
<1>6. IdleInv'
  BY Sentinels DEF IdleInv, TypeOK
<1>. QED
  BY <1>1, <1>2, <1>3, <1>4, <1>5, <1>6

LEMMA InvOpen ==
    ASSUME IInv, OpenStream
    PROVE  IInv'
<1>. USE DEF IInv, OpenStream, Step, producerVars, queueVars, producerFrame, localVars, jobHistory, workerFrame, sendFrame
<1>1. TypeOK'
  <2>1. todo' \subseteq User /\ selected' \subseteq User /\ tried' \subseteq selected'
    BY DEF SendInv
  <2>. QED
    BY <2>1 DEF TypeOK
<1>2. QueueInv'
  BY DEF QueueInv, Queued, TypeOK
<1>3. SendInv'
  BY DEF SendInv, OneMessagePerJob, TypeOK
<1>4. StopInv'
  BY DEF StopInv, TypeOK
<1>5. LateInv'
  BY BroadcastBounds DEF LateInv, CancelStops, TypeOK
<1>6. IdleInv'
  BY Sentinels DEF IdleInv, TypeOK
<1>. QED
  BY <1>1, <1>2, <1>3, <1>4, <1>5, <1>6

LEMMA InvAttempt ==
    ASSUME IInv, Proceed \/ CheckFails
    PROVE  IInv'
<1>. USE DEF IInv, Proceed, CheckFails, Attempt, producerVars, queueVars, producerFrame, localVars, jobHistory, workerFrame, sendFrame
<1>1. TypeOK'
  <2>1. cnt' \in Counters
    BY CountOne DEF TypeOK
  <2>2. waits' \in 0..MaxWaits
    BY BroadcastBounds
  <2>3. faults' \in 0..MaxFaults
    BY FaultBound
  <2>4. PICK u \in todo : todo' = todo \ {u} /\ target' = u /\ tried' = tried \cup {u}
    OBVIOUS
  <2>5. todo' \subseteq User /\ target' \in User /\ tried' \subseteq selected'
    BY <2>4 DEF TypeOK, SendInv
  <2>. QED
    BY <2>1, <2>2, <2>3, <2>5, Sentinels DEF TypeOK, Step
<1>2. QueueInv'
  <2>1. Queued' = Queued
    BY DEF Queued
  <2>. QED
    BY <2>1 DEF QueueInv
<1>3. SendInv'
  BY DEF SendInv, OneMessagePerJob, TypeOK
<1>4. StopInv'
  BY DEF StopInv, TypeOK
<1>5. LateInv'
  <2>1. late \in Nat /\ faults \in Nat /\ faults' \in Nat /\ faults <= faults' /\ late' = late
    BY FaultBound, BroadcastBounds DEF TypeOK
  <2>2. CASE Proceed
    BY <2>1, <2>2 DEF LateInv, CancelStops
  <2>3. CASE CheckFails
    <3>1. faults' = faults + 1
      BY <2>3 DEF Fault
    <3>. QED
      BY <2>1, <2>3, <3>1 DEF LateInv, CancelStops
  <2>. QED
    BY <2>2, <2>3
<1>6. IdleInv'
  BY Sentinels DEF IdleInv, TypeOK
<1>. QED
  BY <1>1, <1>2, <1>3, <1>4, <1>5, <1>6

LEMMA InvLoopEnds ==
    ASSUME IInv, StopForFlag \/ StreamEnds
    PROVE  IInv'
<1>. USE DEF IInv, StopForFlag, StreamEnds, Step, producerVars, queueVars, producerFrame, localVars, jobHistory, workerFrame, sendFrame
<1>1. TypeOK'
  BY BroadcastBounds DEF TypeOK
<1>2. QueueInv'
  BY DEF QueueInv, Queued, TypeOK
<1>3. SendInv'
  BY DEF SendInv, OneMessagePerJob, TypeOK
<1>4. StopInv'
  BY DEF StopInv, TypeOK
<1>5. LateInv'
  BY BroadcastBounds DEF LateInv, CancelStops, TypeOK
<1>6. IdleInv'
  BY Sentinels DEF IdleInv, TypeOK
<1>. QED
  BY <1>1, <1>2, <1>3, <1>4, <1>5, <1>6

LEMMA InvArrives ==
    ASSUME IInv, SendDelivers \/ SendErrs
    PROVE  IInv'
<1>. USE DEF IInv, SendDelivers, SendErrs, Arrives, producerVars, queueVars, producerFrame, localVars, jobHistory, workerFrame, sendFrame
<1>0. step = "send" /\ job \in enqueued /\ job \in Job /\ target \in User /\ step' = "pace"
  BY Sentinels DEF TypeOK
<1>a. /\ sent \in [Job -> [User -> Nat]] /\ sent' \in [Job -> [User -> Nat]]
      /\ late \in Nat /\ late' \in Nat
      /\ sent' = sent \/ sent' = [sent EXCEPT ![job] = [sent[job] EXCEPT ![target] = sent[job][target] + 1]]
  <2>1. sent \in [Job -> [User -> Nat]] /\ late \in Nat
    BY DEF TypeOK
  <2>2. CASE UNCHANGED <<sent, late>>
    BY <2>1, <2>2
  <2>3. CASE Arrives
    <3>1. sent' = [sent EXCEPT ![job] = [sent[job] EXCEPT ![target] = sent[job][target] + 1]]
      BY <2>3
    <3>2. [sent[job] EXCEPT ![target] = sent[job][target] + 1] \in [User -> Nat]
      BY <1>0, <2>1
    <3>. QED
      BY <2>1, <2>3, <3>1, <3>2, <1>0
  <2>. QED
    BY <2>2, <2>3
<1>b. \A n \in Job, u \in User : n # job \/ u # target => sent'[n][u] = sent[n][u]
  BY <1>0, <1>a
<1>1. TypeOK'
  <2>1. cnt' \in Counters
    BY CountOne DEF TypeOK
  <2>. QED
    BY <1>0, <1>a, <2>1 DEF TypeOK, Step
<1>2. QueueInv'
  <2>1. Queued' = Queued
    BY DEF Queued
  <2>. QED
    BY <1>0, <1>b, <2>1 DEF QueueInv
<1>3. SendInv'
  <2>1. target \in tried /\ sent[job][target] = 0
    BY <1>0 DEF SendInv
  <2>2. sent'[job][target] <= 1
    BY <1>0, <1>a, <2>1
  <2>3. OneMessagePerJob'
    BY <1>b, <2>2 DEF SendInv, OneMessagePerJob
  <2>4. \A u \in User : u \notin tried => sent'[job][u] = 0
    BY <1>0, <1>b, <2>1, Sentinels DEF SendInv, TypeOK
  <2>. QED
    BY <1>0, <2>3, <2>4 DEF SendInv
<1>4. StopInv'
  BY <1>0 DEF StopInv
<1>5. LateInv'
  <2>1. late <= faults /\ faults \in Nat
    BY <1>0, BroadcastBounds DEF LateInv, TypeOK
  <2>2. late' = late \/ (job \in flag /\ late' = late + 1)
    BY <1>a
  <2>. QED
    BY <1>0, <1>a, <2>1, <2>2 DEF LateInv, CancelStops
<1>6. IdleInv'
  BY Sentinels DEF IdleInv, TypeOK
<1>. QED
  BY <1>1, <1>2, <1>3, <1>4, <1>5, <1>6

LEMMA InvNoArrival ==
    ASSUME IInv, SendForbidden \/ SendMustWait
    PROVE  IInv'
<1>. USE DEF IInv, SendForbidden, SendMustWait, producerVars, queueVars, producerFrame, localVars, jobHistory, workerFrame, sendFrame
<1>1. TypeOK'
  <2>1. cnt' \in Counters
    BY CountOne DEF TypeOK
  <2>2. waits' \in 0..MaxWaits
    BY BroadcastBounds DEF TypeOK
  <2>. QED
    BY <2>1, <2>2 DEF TypeOK, Step
<1>2. QueueInv'
  <2>1. Queued' = Queued /\ (step = "send" => job \in enqueued)
    BY Sentinels DEF Queued, TypeOK
  <2>2. \A n \in Job : n # job => sent'[n] = sent[n]
    BY DEF TypeOK
  <2>. QED
    BY <2>1, <2>2 DEF QueueInv
<1>3. SendInv'
  BY DEF SendInv, OneMessagePerJob, TypeOK
<1>4. StopInv'
  BY DEF StopInv, TypeOK
<1>5. LateInv'
  BY BroadcastBounds DEF LateInv, CancelStops, TypeOK
<1>6. IdleInv'
  BY Sentinels DEF IdleInv, TypeOK
<1>. QED
  BY <1>1, <1>2, <1>3, <1>4, <1>5, <1>6

LEMMA InvMark ==
    ASSUME IInv, MarkBlocked \/ MarkBlockedFails
    PROVE  IInv'
<1>. USE DEF IInv, MarkBlocked, MarkBlockedFails, Step, Fault, producerVars, queueVars, producerFrame, localVars, jobHistory, workerFrame, sendFrame
<1>1. TypeOK'
  BY BroadcastBounds DEF TypeOK
<1>2. QueueInv'
  BY DEF QueueInv, Queued, TypeOK
<1>3. SendInv'
  BY DEF SendInv, OneMessagePerJob, TypeOK
<1>4. StopInv'
  BY DEF StopInv, TypeOK
<1>5. LateInv'
  BY BroadcastBounds DEF LateInv, CancelStops, TypeOK
<1>6. IdleInv'
  BY Sentinels DEF IdleInv, TypeOK
<1>. QED
  BY <1>1, <1>2, <1>3, <1>4, <1>5, <1>6

LEMMA InvPace ==
    ASSUME IInv, Pace
    PROVE  IInv'
<1>. USE DEF IInv, Pace, Step, producerVars, queueVars, producerFrame, localVars, jobHistory, workerFrame, sendFrame
<1>1. TypeOK'
  BY BroadcastBounds DEF TypeOK
<1>2. QueueInv'
  BY DEF QueueInv, Queued, TypeOK
<1>3. SendInv'
  BY DEF SendInv, OneMessagePerJob, TypeOK
<1>4. StopInv'
  BY DEF StopInv, TypeOK
<1>5. LateInv'
  BY BroadcastBounds DEF LateInv, CancelStops, TypeOK
<1>6. IdleInv'
  BY Sentinels DEF IdleInv, TypeOK
<1>. QED
  BY <1>1, <1>2, <1>3, <1>4, <1>5, <1>6

LEMMA InvFlush ==
    ASSUME IInv, Flush \/ LastFlush \/ Finish
    PROVE  IInv'
<1>. USE DEF IInv, Flush, LastFlush, Finish, Step, producerVars, queueVars, producerFrame, localVars, jobHistory, workerFrame, sendFrame
<1>1. TypeOK'
  <2>. DEFINE Row == [status : {"none", "running", "completed", "cancelled"}, counts : Counters]
  <2>1. job # NoJob /\ job \in Job
    BY DEF TypeOK
  <2>2. row \in [Job -> Row] /\ cnt \in Counters
    BY DEF TypeOK
  <2>3. CASE Flush \/ LastFlush
    <3>1. row' = [row EXCEPT ![job].counts = cnt]
      BY <2>3
    <3>2. row' \in [Job -> Row]
      BY <2>1, <2>2, <3>1 DEF Counters
    <3>. QED
      BY <2>3, <3>2 DEF TypeOK
  <2>4. CASE Finish
    <3>1. row' = [row EXCEPT ![job].status = IF stopping THEN "cancelled" ELSE "completed"]
      BY <2>4
    <3>2. row' \in [Job -> Row]
      BY <2>1, <2>2, <3>1
    <3>. QED
      BY <2>4, <3>2 DEF TypeOK
  <2>. QED
    BY <2>3, <2>4
<1>2. QueueInv'
  BY DEF QueueInv, Queued, TypeOK
<1>3. SendInv'
  BY DEF SendInv, OneMessagePerJob, TypeOK
<1>4. StopInv'
  BY DEF StopInv, TypeOK
<1>5. LateInv'
  BY BroadcastBounds DEF LateInv, CancelStops, TypeOK
<1>6. IdleInv'
  BY Sentinels DEF IdleInv, TypeOK
<1>. QED
  BY <1>1, <1>2, <1>3, <1>4, <1>5, <1>6

LEMMA InvFlushFails ==
    ASSUME IInv, FlushFails \/ LastFlushFails
    PROVE  IInv'
<1>. USE DEF IInv, FlushFails, LastFlushFails, Step, Fault, producerVars, queueVars, producerFrame, localVars, jobHistory, workerFrame, sendFrame
<1>1. TypeOK'
  BY BroadcastBounds DEF TypeOK
<1>2. QueueInv'
  BY DEF QueueInv, Queued, TypeOK
<1>3. SendInv'
  BY DEF SendInv, OneMessagePerJob, TypeOK
<1>4. StopInv'
  BY DEF StopInv, TypeOK
<1>5. LateInv'
  BY BroadcastBounds DEF LateInv, CancelStops, TypeOK
<1>6. IdleInv'
  BY Sentinels DEF IdleInv, TypeOK
<1>. QED
  BY <1>1, <1>2, <1>3, <1>4, <1>5, <1>6

LEMMA InvNext == ASSUME IInv, [Next]_vars PROVE IInv'
<1>1. CASE \E a \in Admin : AdminStep(a)
  BY <1>1, InvAdmin
<1>2. CASE \E a \in Admin, p \in Press : PressYes(a, p) \/ PressStep(a, p)
  BY <1>2, InvPress, InvEnqueue DEF PressStep
<1>3. CASE \E j \in Job : Cancel(j) \/ FlagExpires(j)
  BY <1>3, InvFlag
<1>4. CASE WorkerStep
  BY <1>4, InvDrop, InvPop, InvCreate, InvOpen, InvAttempt, InvLoopEnds, InvArrives, InvNoArrival, InvMark,
     InvPace, InvFlush, InvFlushFails DEF WorkerStep
<1>5. CASE Crash
  BY <1>5, InvDrop
<1>6. CASE UNCHANGED vars
  BY <1>6 DEF vars, producerVars, queueVars, localVars, jobHistory, IInv, TypeOK, QueueInv, Queued, SendInv,
     OneMessagePerJob, StopInv, LateInv, CancelStops, IdleInv
<1>. QED
  BY <1>1, <1>2, <1>3, <1>4, <1>5, <1>6 DEF Next

LEMMA Invariant == Spec => []IInv
BY InvInit, InvNext, PTL DEF Spec

-----------------------------------------------------------------------------
\* Every key, row and local stays in its domain, and a send waits for at most
\* retry_after_budget 429s (app/features/broadcasts/worker.py).
THEOREM TypeCorrect == Spec => []TypeOK
<1>1. IInv => TypeOK
  BY DEF IInv
<1>. QED
  BY <1>1, Invariant, PTL

\* A job's text arrives at most once at a user: BRPOP hands a job out once,
\* and _send_to_user repeats a send only after a 429.
THEOREM AtMostOneMessage == Spec => []OneMessagePerJob
<1>1. IInv => OneMessagePerJob
  BY DEF IInv, SendInv
<1>. QED
  BY <1>1, Invariant, PTL

\* Under a cancel flag at most one message more arrives, and one more for
\* each failed look at the flag (_cancel_flag_set).
THEOREM CancelIsObeyed == Spec => []CancelStops
<1>1. IInv => CancelStops
  BY DEF IInv, LateInv
<1>. QED
  BY <1>1, Invariant, PTL

\* `completed` means that every selected recipient had its attempt and
\* `cancelled` that some had not (_process_job).
THEOREM StatusIsTrue == Spec => StatusTellsTheTruth
<1>1. ASSUME IInv, [Next]_vars
      PROVE  [job # NoJob => /\ Ends("completed") => tried = selected
                             /\ Ends("cancelled") => tried # selected]_vars
  <2>. SUFFICES ASSUME job # NoJob, Ends("completed") \/ Ends("cancelled")
       PROVE  (Ends("completed") => tried = selected) /\ (Ends("cancelled") => tried # selected)
    OBVIOUS
  <2>1. job \in Job /\ row[job].status = "running" /\ row'[job].status # "running"
    BY <1>1 DEF IInv, TypeOK, Ends
  <2>2. Finish
    BY <1>1, <2>1 DEF Next, AdminStep, PressStep, WorkerStep, vars, Entry, EntryUncounted, DialogGoesOn,
       DialogDropped, PressYes, ReadDialog, Enqueue, EnqueueFails, ClearDialog, Cancel, FlagExpires, Pop,
       CreateRunning, OpenStream, JobFails, Proceed, CheckFails, Attempt, StopForFlag, StreamEnds,
       SendDelivers, SendForbidden, SendMustWait, SendErrs, MarkBlocked, MarkBlockedFails, Pace, Flush,
       FlushFails, LastFlush, LastFlushFails, Report, Crash, producerFrame, sendFrame, IInv, TypeOK
  <2>3. row'[job].status = IF stopping THEN "cancelled" ELSE "completed"
    BY <1>1, <2>1, <2>2 DEF Finish, IInv, TypeOK
  <2>4. IF stopping THEN todo # {} ELSE todo = {}
    BY <1>1, <2>2 DEF Finish, IInv, StopInv
  <2>5. selected = tried \cup todo /\ tried \cap todo = {}
    BY <1>1 DEF IInv, SendInv
  <2>. QED
    BY <2>3, <2>4, <2>5 DEF Ends
<1>. QED
  BY <1>1, Invariant, PTL DEF Spec, StatusTellsTheTruth

-----------------------------------------------------------------------------
(* The length of the queue.                                                *)

\* The presses that may still push: those whose task has passed the filter,
\* and those to come while the dialog is open.
Slots ==
    {s \in Admin \X Press : \/ press[s[1]][s[2]] \in {"read", "push"}
                            \/ dialog[s[1]] # "none" /\ press[s[1]][s[2]] = "idle"}

Buttons == Cardinality(Admin) * Cardinality(Press)

\* A job pushed uses up its press; a dialog, which is opened below the cap, and
\* a fault bring at most all of them back.
CapInv == Len(queue) + Cardinality(Slots) < MaxQueueLen + Buttons * (1 + faults)

LEMMA SlotsCount ==
    /\ Buttons \in Nat
    /\ IsFiniteSet(Slots) /\ Cardinality(Slots) \in Nat /\ Cardinality(Slots) <= Buttons
    /\ Slots' \subseteq Admin \X Press
       => IsFiniteSet(Slots') /\ Cardinality(Slots') \in Nat /\ Cardinality(Slots') <= Buttons
<1>1. IsFiniteSet(Admin \X Press) /\ Cardinality(Admin \X Press) = Buttons
  BY FS_Product, Finiteness DEF Buttons
<1>2. Buttons \in Nat
  BY <1>1, FS_CardinalityType
<1>3. \A S : S \subseteq Admin \X Press => IsFiniteSet(S) /\ Cardinality(S) \in Nat /\ Cardinality(S) <= Buttons
  BY <1>1, FS_Subset, FS_CardinalityType
<1>4. Slots \subseteq Admin \X Press
  BY DEF Slots
<1>. QED
  BY <1>2, <1>3, <1>4

\* A step that opens no dialog, pushes no job and is no fault takes slots away
\* or leaves them.
LEMMA CapFewer ==
    ASSUME IInv, CapInv, Slots' \subseteq Slots, Len(queue') <= Len(queue), Len(queue') \in Nat,
           faults' \in Nat, faults <= faults'
    PROVE  CapInv'
<1>1. Cardinality(Slots') \in Nat /\ Cardinality(Slots) \in Nat /\ Cardinality(Slots') <= Cardinality(Slots)
  BY SlotsCount, FS_Subset, FS_CardinalityType
<1>2. Len(queue) \in Nat /\ faults \in Nat /\ Buttons \in Nat /\ MaxQueueLen \in Nat
  BY SlotsCount, BroadcastBounds DEF IInv, TypeOK
<1>3. \A b, f, g \in Nat : f <= g => b * (1 + f) <= b * (1 + g)
  OBVIOUS
<1>4. Buttons * (1 + faults) \in Nat /\ Buttons * (1 + faults') \in Nat
  <2>1. \A b, f \in Nat : b * (1 + f) \in Nat
    OBVIOUS
  <2>. QED
    BY <1>2, <2>1
<1>5. Buttons * (1 + faults) <= Buttons * (1 + faults')
  BY <1>2, <1>3
<1>6. Cardinality(Slots)' = Cardinality(Slots') /\ Len(queue)' = Len(queue')
  OBVIOUS
<1>7. Len(queue') + Cardinality(Slots') < MaxQueueLen + Buttons * (1 + faults')
  <2>1. \A x, y, s, t, m, l, r \in Nat :
          /\ x + s < m + l /\ y <= x /\ t <= s /\ l <= r => y + t < m + r
    OBVIOUS
  <2>. QED
    BY <1>1, <1>2, <1>4, <1>5, <2>1 DEF CapInv
<1>. QED
  BY <1>7 DEF CapInv, Buttons

\* A fault is worth all the buttons there are.
LEMMA CapFault ==
    ASSUME IInv, CapInv, Slots' \subseteq Admin \X Press, UNCHANGED queue, faults' = faults + 1
    PROVE  CapInv'
<1>1. Cardinality(Slots') \in Nat /\ Cardinality(Slots) \in Nat /\ Cardinality(Slots') <= Buttons
  BY SlotsCount
<1>2. Len(queue) \in Nat /\ faults \in Nat /\ Buttons \in Nat /\ MaxQueueLen \in Nat
  BY SlotsCount, BroadcastBounds DEF IInv, TypeOK
<1>3. \A b, f \in Nat : b * (1 + (f + 1)) = b * (1 + f) + b /\ b * (1 + f) \in Nat
  OBVIOUS
<1>4. Buttons * (1 + faults') = Buttons * (1 + faults) + Buttons /\ Buttons * (1 + faults) \in Nat
  BY <1>2, <1>3
<1>5. Len(queue') + Cardinality(Slots') < MaxQueueLen + Buttons * (1 + faults')
  BY <1>1, <1>2, <1>4 DEF CapInv
<1>. QED
  BY <1>5 DEF CapInv, Buttons

LEMMA CapInit == ASSUME Init PROVE CapInv
<1>1. Slots = {} /\ Len(queue) = 0 /\ faults = 0
  BY DEF Init, DialogsInit, JobsInit, Slots
<1>2. Buttons \in Nat /\ Cardinality(Slots) = 0
  BY <1>1, SlotsCount, FS_EmptySet
<1>. QED
  BY <1>1, <1>2, BroadcastBounds DEF CapInv

LEMMA CapAdmin ==
    ASSUME IInv, CapInv, NEW a \in Admin, AdminStep(a)
    PROVE  CapInv'
<1>a. /\ dialog \in [Admin -> Dialog] /\ press \in [Admin -> [Press -> PressLabel]]
      /\ Len(queue) \in Nat /\ faults \in Nat
  BY BroadcastBounds DEF IInv, TypeOK
<1>b. Slots' \subseteq Admin \X Press
  BY DEF Slots
<1>1. CASE Entry(a) /\ Len(queue) < MaxQueueLen
  <2>1. UNCHANGED <<queue, faults>>
    BY <1>1 DEF Entry, queueVars
  <2>2. Cardinality(Slots') \in Nat /\ Cardinality(Slots') <= Buttons /\ Buttons \in Nat
    BY <1>b, SlotsCount
  <2>3. \A b, f \in Nat : b * (1 + f) \in Nat /\ b <= b * (1 + f)
    OBVIOUS
  <2>4. Buttons * (1 + faults) \in Nat /\ Buttons <= Buttons * (1 + faults)
    BY <1>a, <2>2, <2>3
  <2>5. Len(queue) + Cardinality(Slots') < MaxQueueLen + Buttons * (1 + faults)
    <3>1. \A x, t, m, l, r \in Nat : x < m /\ t <= l /\ l <= r => x + t < m + r
      OBVIOUS
    <3>. QED
      BY <1>1, <1>a, <2>2, <2>4, <3>1, BroadcastBounds
  <2>. QED
    BY <2>1, <2>5 DEF CapInv, Buttons
<1>2. CASE (Entry(a) /\ ~(Len(queue) < MaxQueueLen)) \/ DialogGoesOn(a) \/ DialogDropped(a)
  <2>1. UNCHANGED <<press, queue, faults>>
    BY <1>2 DEF Entry, DialogGoesOn, DialogDropped, queueVars
  <2>2. \A b \in Admin : dialog'[b] # "none" => dialog[b] # "none"
    BY <1>2, <1>a, BroadcastBounds DEF Entry, DialogGoesOn, DialogDropped
  <2>3. Slots' \subseteq Slots
    BY <2>1, <2>2 DEF Slots
  <2>. QED
    BY <1>a, <2>1, <2>3, CapFewer
<1>3. CASE EntryUncounted(a)
  BY <1>3, <1>b, CapFault DEF EntryUncounted, Fault, queueVars
<1>. QED
  BY <1>1, <1>2, <1>3 DEF AdminStep

\* A press that has not pushed keeps its slot or loses it.
LEMMA CapPress ==
    ASSUME IInv, CapInv, NEW a \in Admin, NEW p \in Press,
           PressYes(a, p) \/ ReadDialog(a, p) \/ EnqueueFails(a, p) \/ ClearDialog(a, p)
    PROVE  CapInv'
<1>a. /\ dialog \in [Admin -> Dialog] /\ press \in [Admin -> [Press -> PressLabel]]
      /\ Len(queue) \in Nat /\ faults \in Nat
  BY BroadcastBounds DEF IInv, TypeOK
<1>1. UNCHANGED queue
  BY DEF PressYes, ReadDialog, EnqueueFails, ClearDialog, queueVars
<1>2. faults' \in Nat /\ faults <= faults'
  BY <1>a DEF PressYes, ReadDialog, EnqueueFails, ClearDialog, Fault
<1>3. \A s \in Admin \X Press : s # <<a, p>> => press'[s[1]][s[2]] = press[s[1]][s[2]]
  <2>1. PICK to \in PressLabel : press' = [press EXCEPT ![a] = [press[a] EXCEPT ![p] = to]]
    BY DEF PressYes, ReadDialog, EnqueueFails, ClearDialog, PressAt, PressLabel
  <2>. QED
    BY <1>a, <2>1
<1>4. \A b \in Admin : dialog'[b] # "none" => dialog[b] # "none"
  BY <1>a DEF PressYes, ReadDialog, EnqueueFails, ClearDialog
<1>5. <<a, p>> \in Slots' => <<a, p>> \in Slots
  BY <1>a DEF Slots, PressYes, ReadDialog, EnqueueFails, ClearDialog, PressAt
<1>6. Slots' \subseteq Slots
  BY <1>3, <1>4, <1>5 DEF Slots
<1>. QED
  BY <1>a, <1>1, <1>2, <1>6, CapFewer

\* A job pushed takes the slot of its press.
LEMMA CapEnqueue ==
    ASSUME IInv, CapInv, NEW a \in Admin, NEW p \in Press, Enqueue(a, p)
    PROVE  CapInv'
<1>a. /\ press \in [Admin -> [Press -> PressLabel]] /\ queue \in Seq(enqueued) /\ Len(queue) \in Nat
      /\ faults \in Nat
  BY BroadcastBounds DEF IInv, TypeOK
<1>1. PICK j \in Job \ enqueued : queue' = <<j>> \o queue
  BY DEF Enqueue
<1>2. Len(queue') = Len(queue) + 1
  BY <1>a, <1>1
<1>3. press[a][p] = "push" /\ press' = [press EXCEPT ![a] = [press[a] EXCEPT ![p] = "clear"]]
      /\ UNCHANGED <<dialog, faults>>
  BY DEF Enqueue, PressAt
<1>4. <<a, p>> \in Slots
  BY <1>3 DEF Slots
<1>5. Slots' = Slots \ {<<a, p>>}
  <2>1. \A s \in Admin \X Press : s # <<a, p>> => press'[s[1]][s[2]] = press[s[1]][s[2]]
    BY <1>a, <1>3
  <2>2. press'[a][p] = "clear"
    BY <1>a, <1>3
  <2>. QED
    BY <1>3, <2>1, <2>2 DEF Slots
<1>6. Cardinality(Slots') = Cardinality(Slots) - 1 /\ Cardinality(Slots) \in Nat
  BY <1>4, <1>5, SlotsCount, FS_RemoveElement
<1>7. Buttons * (1 + faults) \in Nat
  BY <1>a, SlotsCount
<1>8. Len(queue') + Cardinality(Slots') < MaxQueueLen + Buttons * (1 + faults)
  BY <1>a, <1>2, <1>6, <1>7, BroadcastBounds DEF CapInv
<1>. QED
  BY <1>3, <1>8 DEF CapInv, Buttons

LEMMA CapElse ==
    ASSUME IInv, CapInv, (\E j \in Job : Cancel(j) \/ FlagExpires(j)) \/ WorkerStep \/ UNCHANGED vars
    PROVE  CapInv'
<1>a. Len(queue) \in Nat /\ queue \in Seq(enqueued) /\ faults \in Nat
  BY BroadcastBounds DEF IInv, TypeOK
<1>1. UNCHANGED <<dialog, press>>
  BY DEF Cancel, FlagExpires, WorkerStep, Pop, CreateRunning, OpenStream, JobFails, Proceed, CheckFails,
     Attempt, StopForFlag, StreamEnds, SendDelivers, SendForbidden, SendMustWait, SendErrs, MarkBlocked,
     MarkBlockedFails, Pace, Flush, FlushFails, LastFlush, LastFlushFails, Finish, Report, producerVars,
     workerFrame, sendFrame, vars
<1>2. faults' \in Nat /\ faults <= faults'
  BY <1>a DEF Cancel, FlagExpires, WorkerStep, Pop, CreateRunning, OpenStream, JobFails, Proceed, CheckFails,
     Attempt, StopForFlag, StreamEnds, SendDelivers, SendForbidden, SendMustWait, SendErrs, MarkBlocked,
     MarkBlockedFails, Pace, Flush, FlushFails, LastFlush, LastFlushFails, Finish, Report, Fault, vars
<1>3. UNCHANGED queue \/ Pop
  BY DEF Cancel, FlagExpires, WorkerStep, CreateRunning, OpenStream, JobFails, Proceed, CheckFails,
     Attempt, StopForFlag, StreamEnds, SendDelivers, SendForbidden, SendMustWait, SendErrs, MarkBlocked,
     MarkBlockedFails, Pace, Flush, FlushFails, LastFlush, LastFlushFails, Finish, Report, sendFrame,
     queueVars, vars
<1>4. Len(queue') \in Nat /\ Len(queue') <= Len(queue)
  <2>1. CASE UNCHANGED queue
    BY <1>a, <2>1
  <2>2. CASE Pop
    <3>1. queue # <<>> /\ queue' = SubSeq(queue, 1, Len(queue) - 1)
      BY <2>2 DEF Pop
    <3>2. queue' \in Seq(enqueued) /\ DOMAIN queue' = 1..(Len(queue) - 1) /\ Len(queue) \in Nat \ {0}
      BY <1>a, <3>1, Popped
    <3>3. Len(queue') = Len(queue) - 1
      BY <3>2
    <3>. QED
      BY <1>a, <3>2, <3>3
  <2>. QED
    BY <1>3, <2>1, <2>2
<1>5. Slots' \subseteq Slots
  BY <1>1 DEF Slots
<1>. QED
  BY <1>2, <1>4, <1>5, CapFewer

LEMMA CapNext == ASSUME IInv, CapInv, [Next]_vars PROVE CapInv'
<1>1. CASE \E a \in Admin : AdminStep(a)
  BY <1>1, CapAdmin
<1>2. CASE \E a \in Admin, p \in Press : PressYes(a, p) \/ PressStep(a, p)
  BY <1>2, CapPress, CapEnqueue DEF PressStep
<1>3. CASE Crash
  <2>1. UNCHANGED queue /\ faults' = faults + 1
    BY <1>3 DEF Crash, Fault, queueVars
  <2>2. Slots' \subseteq Admin \X Press
    BY DEF Slots
  <2>. QED
    BY <2>1, <2>2, CapFault
<1>4. CASE (\E j \in Job : Cancel(j) \/ FlagExpires(j)) \/ WorkerStep \/ UNCHANGED vars
  BY <1>4, CapElse
<1>. QED
  BY <1>1, <1>2, <1>3, <1>4 DEF Next

\* bcast:queue never holds more than MAX_QUEUE_LEN - 1 jobs plus one for each
\* press there may be at one time, as often as there was a fault and once more
\* (app/features/broadcasts/producer.py, broadcast_command and
\* handle_confirm_yes).
THEOREM QueueIsBounded == Spec => []QueueBounded
<1>1. IInv /\ CapInv => QueueBounded
  <2>. SUFFICES ASSUME IInv, CapInv PROVE QueueBounded
    OBVIOUS
  <2>1. Len(queue) \in Nat /\ faults \in Nat /\ Buttons \in Nat /\ Cardinality(Slots) \in Nat
    BY SlotsCount, BroadcastBounds DEF IInv, TypeOK
  <2>2. Buttons * (1 + faults) \in Nat
    BY <2>1
  <2>3. Len(queue) < MaxQueueLen + Buttons * (1 + faults)
    BY <2>1, <2>2, BroadcastBounds DEF CapInv
  <2>. QED
    BY <2>3 DEF QueueBounded, Buttons
<1>. QED
  BY <1>1, CapInit, CapNext, Invariant, PTL DEF Spec

-----------------------------------------------------------------------------
(* The counters of a broadcasts row.                                       *)

Arrived(j) == {u \in User : sent[j][u] > 0}
Over(j) == row[j].status \in {"completed", "cancelled"}

\* What one job's row says agrees with what arrived of it.
RowFits(j) ==
    LET n == row[j].counts
    IN  /\ n.total = n.delivered + n.failed + n.blocked
        /\ n.delivered <= Cardinality(Arrived(j))
        /\ Over(j) /\ faults = 0 => Cardinality(Arrived(j)) <= n.delivered + n.failed

RowInv == \A j \in Job : RowFits(j)

\* So do the worker's counters; a send under way is counted in total alone.
CntInv ==
    /\ cnt.total = cnt.delivered + cnt.failed + cnt.blocked + IF step = "send" THEN 1 ELSE 0
    /\ job = NoJob => cnt = Zero
    /\ job # NoJob =>
        /\ cnt.delivered <= Cardinality(Arrived(job))
        /\ faults = 0 => Cardinality(Arrived(job)) <= cnt.delivered + cnt.failed

\* A row is over only once its job is; before it finishes, the counters are
\* flushed.
StatusInv ==
    /\ \A j \in Job : j \in Queued \/ j \notin enqueued => row[j].status = "none"
    /\ job # NoJob /\ step # "report" => ~Over(job)
    /\ faults = 0 /\ step = "finish" => row[job].counts = cnt

BooksInv == RowInv /\ CntInv /\ StatusInv

LEMMA ArrivedCount ==
    /\ \A j : IsFiniteSet(Arrived(j)) /\ Cardinality(Arrived(j)) \in Nat
    /\ \A j : IsFiniteSet(Arrived(j)') /\ Cardinality(Arrived(j)') \in Nat
<1>1. \A S : S \subseteq User => IsFiniteSet(S) /\ Cardinality(S) \in Nat
  BY FS_Subset, FS_CardinalityType, Finiteness
<1>2. \A j : Arrived(j) \subseteq User /\ Arrived(j)' \subseteq User
  BY DEF Arrived
<1>. QED
  BY <1>1, <1>2

LEMMA BooksInit == ASSUME Init PROVE BooksInv
<1>1. RowInv
  <2>. SUFFICES ASSUME NEW j \in Job PROVE RowFits(j)
    BY DEF RowInv
  <2>1. row[j].counts = Zero /\ row[j].status = "none"
    BY DEF Init, DialogsInit, JobsInit
  <2>2. Cardinality(Arrived(j)) \in Nat
    BY ArrivedCount
  <2>. QED
    BY <2>1, <2>2 DEF RowFits, Over, Zero
<1>2. CntInv
  BY DEF Init, DialogsInit, JobsInit, CntInv, Zero
<1>3. StatusInv
  BY DEF Init, DialogsInit, JobsInit, StatusInv
<1>. QED
  BY <1>1, <1>2, <1>3 DEF BooksInv

\* A row whose job got nothing, in a step that changes neither it nor adds
\* faults away, still fits.
LEMMA RowFitsKept ==
    ASSUME TypeOK, NEW j \in Job, RowFits(j), row'[j] = row[j], sent'[j] = sent[j], faults' # 0 \/ UNCHANGED faults
    PROVE  RowFits(j)'
<1>1. Arrived(j)' = Arrived(j)
  BY DEF Arrived
<1>2. Cardinality(Arrived(j))' = Cardinality(Arrived(j))
  BY <1>1
<1>3. Over(j)' = Over(j)
  BY DEF Over
<1>. QED
  BY <1>2, <1>3 DEF RowFits

\* The steps that touch neither the row nor the counters nor what arrived.
LEMMA BooksQuiet ==
    ASSUME IInv, BooksInv, UNCHANGED <<row, sent, cnt, job>>, faults' # 0 \/ UNCHANGED faults,
           step' = "send" <=> step = "send", step = "report" => step' = "report",
           step' = "finish" => step = "finish" \/ faults' # 0,
           \A j : j \in Queued' \/ j \notin enqueued' => j \in Queued \/ j \notin enqueued
    PROVE  BooksInv'
<1>1. RowInv'
  BY RowFitsKept DEF RowInv, BooksInv, IInv
<1>2. CntInv'
  <2>1. Cardinality(Arrived(job))' = Cardinality(Arrived(job))
    BY DEF Arrived
  <2>. QED
    BY <2>1 DEF CntInv, BooksInv
<1>3. StatusInv'
  BY DEF StatusInv, BooksInv, Over
<1>. QED
  BY <1>1, <1>2, <1>3 DEF BooksInv

\* A job that is pushed was not there before.
LEMMA NewlyQueued ==
    ASSUME IInv, NEW a \in Admin, NEW p \in Press, Enqueue(a, p)
    PROVE  \A j : j \in Queued' \/ j \notin enqueued' => j \in Queued \/ j \notin enqueued
<1>1. PICK n \in Job \ enqueued : queue' = <<n>> \o queue /\ enqueued' = enqueued \cup {n}
  BY DEF Enqueue
<1>2. queue \in Seq(enqueued)
  BY DEF IInv, TypeOK
<1>. DEFINE r == <<n>> \o queue
<1>3. /\ DOMAIN queue = 1..Len(queue) /\ DOMAIN r = 1..Len(r) /\ Len(queue) \in Nat /\ Len(r) = Len(queue) + 1
      /\ r[1] = n /\ \A i \in 2..Len(r) : i - 1 \in 1..Len(queue) /\ r[i] = queue[i - 1]
  BY <1>2, Pushed
<1>. HIDE DEF r
<1>4. \A i \in DOMAIN r : r[i] \in Queued \cup {n}
  BY <1>3 DEF Queued
<1>5. Queued' \subseteq Queued \cup {n}
  BY <1>1, <1>4 DEF Queued, r
<1>. QED
  BY <1>1, <1>5

LEMMA BooksProducer ==
    ASSUME IInv, BooksInv,
           \/ \E a \in Admin : AdminStep(a)
           \/ \E a \in Admin, p \in Press : PressYes(a, p) \/ PressStep(a, p)
           \/ \E j \in Job : Cancel(j) \/ FlagExpires(j)
           \/ UNCHANGED vars
    PROVE  BooksInv'
<1>. USE DEF producerVars, queueVars, producerFrame, localVars, jobHistory
<1>1. UNCHANGED <<row, sent, cnt, job, step>>
  BY DEF AdminStep, Entry, EntryUncounted, DialogGoesOn, DialogDropped, PressYes, PressStep, ReadDialog,
     Enqueue, EnqueueFails, ClearDialog, Cancel, FlagExpires, vars
<1>2. faults' # 0 \/ UNCHANGED faults
  <2>1. faults \in Nat
    BY BroadcastBounds DEF IInv, TypeOK
  <2>. QED
    BY <2>1 DEF AdminStep, Entry, EntryUncounted, DialogGoesOn, DialogDropped, PressYes, PressStep, ReadDialog,
       Enqueue, EnqueueFails, ClearDialog, Cancel, FlagExpires, vars, Fault
<1>3. \A j : j \in Queued' \/ j \notin enqueued' => j \in Queued \/ j \notin enqueued
  <2>1. CASE \E a \in Admin, p \in Press : Enqueue(a, p)
    BY <2>1, NewlyQueued
  <2>2. CASE UNCHANGED queueVars
    BY <2>2 DEF Queued
  <2>3. UNCHANGED queueVars \/ \E a \in Admin, p \in Press : Enqueue(a, p)
    BY DEF AdminStep, Entry, EntryUncounted, DialogGoesOn, DialogDropped, PressYes, PressStep, ReadDialog,
       EnqueueFails, ClearDialog, Cancel, FlagExpires, vars
  <2>. QED
    BY <2>1, <2>2, <2>3
<1>. QED
  BY <1>1, <1>2, <1>3, BooksQuiet

LEMMA BooksWorkerQuiet ==
    ASSUME IInv, BooksInv,
           \/ OpenStream \/ StopForFlag \/ StreamEnds \/ MarkBlocked \/ MarkBlockedFails \/ Pace
           \/ FlushFails \/ LastFlushFails
    PROVE  BooksInv'
<1>. USE DEF OpenStream, StopForFlag, StreamEnds, MarkBlocked, MarkBlockedFails, Pace, FlushFails,
       LastFlushFails, workerFrame, localVars, jobHistory, Fault
<1>1. UNCHANGED <<row, sent, cnt, job, queue, enqueued>>
  OBVIOUS
<1>2. faults' # 0 \/ UNCHANGED faults
  <2>1. faults \in Nat
    BY BroadcastBounds DEF IInv, TypeOK
  <2>. QED
    BY <2>1
<1>3. step' = "send" <=> step = "send"
  OBVIOUS
<1>4. step' = "finish" => faults' # 0
  <2>1. faults \in Nat
    BY BroadcastBounds DEF IInv, TypeOK
  <2>. QED
    BY <2>1
<1>5. step # "report"
  OBVIOUS
<1>6. Queued' = Queued /\ enqueued' = enqueued
  BY <1>1 DEF Queued
<1>. QED
  BY <1>1, <1>2, <1>3, <1>4, <1>5, <1>6, BooksQuiet

\* The locals are gone; the row stays as it was last written.
LEMMA BooksDrop ==
    ASSUME IInv, BooksInv, JobFails \/ Report \/ Crash
    PROVE  BooksInv'
<1>1. UNCHANGED <<row, sent, queue, enqueued>> /\ job' = NoJob /\ step' = "idle" /\ cnt' = Zero
  BY DEF JobFails, Report, Crash, DropLocals, workerFrame, queueVars
<1>2. faults' # 0 \/ UNCHANGED faults
  <2>1. faults \in Nat
    BY BroadcastBounds DEF IInv, TypeOK
  <2>. QED
    BY <2>1 DEF JobFails, Report, Crash, Fault
<1>3. RowInv'
  BY <1>1, <1>2, RowFitsKept DEF RowInv, BooksInv, IInv
<1>4. CntInv'
  BY <1>1 DEF CntInv, Zero
<1>5. StatusInv'
  BY <1>1 DEF StatusInv, BooksInv, Queued
<1>. QED
  BY <1>3, <1>4, <1>5 DEF BooksInv

\* Of a job in the queue nothing has arrived, as its counters say.
LEMMA BooksPop == ASSUME IInv, BooksInv, Pop PROVE BooksInv'
<1>0. UNCHANGED <<row, sent, enqueued, cnt, faults>> /\ step = "idle" /\ step' = "create" /\ job = NoJob
  BY DEF Pop, workerFrame, IInv, TypeOK
<1>1. /\ queue \in Seq(enqueued) /\ queue # <<>> /\ queue' = SubSeq(queue, 1, Len(queue) - 1)
      /\ job' = queue[Len(queue)]
  BY DEF Pop, IInv, TypeOK
<1>2. /\ DOMAIN queue = 1..Len(queue) /\ Len(queue) \in Nat \ {0}
      /\ \A i \in DOMAIN queue' : queue'[i] = queue[i] /\ i \in DOMAIN queue
  BY <1>1, Popped
<1>3. job' \in Queued /\ Queued' \subseteq Queued
  BY <1>1, <1>2 DEF Queued
<1>4. Queued \subseteq enqueued /\ enqueued \subseteq Job
  BY <1>1 DEF Queued, IInv, TypeOK
<1>5. RowInv'
  BY <1>0, RowFitsKept DEF RowInv, BooksInv, IInv
<1>6. CntInv'
  <2>1. cnt' = Zero
    BY <1>0 DEF BooksInv, CntInv
  <2>2. \A u \in User : sent'[job'][u] = 0
    BY <1>0, <1>3, <1>4 DEF IInv, QueueInv
  <2>3. Arrived(job)' = {}
    BY <2>2 DEF Arrived
  <2>4. Cardinality(Arrived(job))' = 0
    BY <2>3, FS_EmptySet
  <2>. QED
    BY <1>0, <2>1, <2>4 DEF CntInv, Zero
<1>7. StatusInv'
  BY <1>0, <1>3, <1>4 DEF StatusInv, BooksInv, Over
<1>. QED
  BY <1>5, <1>6, <1>7 DEF BooksInv

LEMMA BooksCreate == ASSUME IInv, BooksInv, CreateRunning PROVE BooksInv'
<1>0. /\ UNCHANGED <<sent, cnt, job, queue, enqueued, faults>> /\ step = "create" /\ step' = "stream"
      /\ row' = [row EXCEPT ![job].status = "running"]
  BY DEF CreateRunning, workerFrame, localVars
<1>1. job \in Job /\ job # NoJob /\ job \notin Queued /\ job \in enqueued
  BY <1>0, Sentinels DEF IInv, TypeOK, QueueInv
<1>2. /\ \A j \in Job : j # job => row'[j] = row[j]
      /\ row'[job].counts = row[job].counts /\ row'[job].status = "running"
  BY <1>0, <1>1 DEF IInv, TypeOK
<1>3. RowInv'
  <2>. SUFFICES ASSUME NEW j \in Job PROVE RowFits(j)'
    BY DEF RowInv
  <2>1. CASE j # job
    BY <1>0, <1>2, <2>1, RowFitsKept DEF BooksInv, RowInv, IInv
  <2>2. CASE j = job
    <3>1. Arrived(j)' = Arrived(j)
      BY <1>0 DEF Arrived
    <3>2. Cardinality(Arrived(j))' = Cardinality(Arrived(j))
      BY <3>1
    <3>. QED
      BY <1>2, <2>2, <3>2 DEF RowFits, Over, BooksInv, RowInv
  <2>. QED
    BY <2>1, <2>2
<1>4. CntInv'
  <2>1. Cardinality(Arrived(job))' = Cardinality(Arrived(job))
    BY <1>0 DEF Arrived
  <2>. QED
    BY <1>0, <2>1 DEF CntInv, BooksInv
<1>5. StatusInv'
  BY <1>0, <1>1, <1>2 DEF StatusInv, BooksInv, Over, Queued
<1>. QED
  BY <1>3, <1>4, <1>5 DEF BooksInv

LEMMA BooksAttempt == ASSUME IInv, BooksInv, Proceed \/ CheckFails PROVE BooksInv'
<1>0. /\ UNCHANGED <<row, sent, job, queue, enqueued>> /\ step = "check" /\ step' = "send"
      /\ cnt' = [cnt EXCEPT !.total = @ + 1]
  BY DEF Proceed, CheckFails, Attempt, workerFrame
<1>1. faults' # 0 \/ UNCHANGED faults
  <2>1. faults \in Nat
    BY BroadcastBounds DEF IInv, TypeOK
  <2>. QED
    BY <2>1 DEF Proceed, CheckFails, Fault
<1>2. cnt \in Counters /\ job # NoJob
  BY <1>0 DEF IInv, TypeOK
<1>3. RowInv'
  BY <1>0, <1>1, RowFitsKept DEF RowInv, BooksInv, IInv
<1>4. CntInv'
  <2>1. Cardinality(Arrived(job))' = Cardinality(Arrived(job))
    BY <1>0 DEF Arrived
  <2>2. cnt'.total = cnt.total + 1 /\ cnt'.delivered = cnt.delivered /\ cnt'.failed = cnt.failed
        /\ cnt'.blocked = cnt.blocked
    BY <1>0, <1>2 DEF Counters
  <2>3. cnt.total \in Nat /\ cnt.delivered \in Nat /\ cnt.failed \in Nat /\ cnt.blocked \in Nat
    BY <1>2 DEF Counters
  <2>. QED
    BY <1>0, <1>1, <1>2, <2>1, <2>2, <2>3 DEF CntInv, BooksInv
<1>5. StatusInv'
  BY <1>0, <1>1 DEF StatusInv, BooksInv, Over, Queued
<1>. QED
  BY <1>3, <1>4, <1>5 DEF BooksInv

\* The outcomes of a send: what arrives is new at its target, and the counters
\* grow by one beside total.
LEMMA BooksSend ==
    ASSUME IInv, BooksInv, SendDelivers \/ SendForbidden \/ SendMustWait \/ SendErrs
    PROVE  BooksInv'
<1>0. /\ UNCHANGED <<row, job, queue, enqueued, faults>> /\ step = "send"
      /\ step' \in {"send", "pace", "mark"}
  BY DEF SendDelivers, SendForbidden, SendMustWait, SendErrs, sendFrame, workerFrame
<1>1. /\ job \in Job /\ job # NoJob /\ target \in User /\ cnt \in Counters /\ faults \in Nat
      /\ sent \in [Job -> [User -> Nat]] /\ sent[job][target] = 0
  BY <1>0, Sentinels, BroadcastBounds DEF IInv, TypeOK, SendInv
<1>2. cnt.total \in Nat /\ cnt.delivered \in Nat /\ cnt.failed \in Nat /\ cnt.blocked \in Nat
  BY <1>1 DEF Counters
<1>. DEFINE k == Cardinality(Arrived(job))
            k1 == Cardinality(Arrived(job)')
<1>3. k \in Nat /\ k1 \in Nat
  BY ArrivedCount
<1>4. ASSUME Arrives PROVE k1 = k + 1
  <2>1. sent' = [sent EXCEPT ![job] = [sent[job] EXCEPT ![target] = sent[job][target] + 1]]
    BY <1>4 DEF Arrives
  <2>2. sent'[job][target] = 1 /\ \A u \in User : u # target => sent'[job][u] = sent[job][u]
    BY <1>1, <2>1
  <2>3. Arrived(job)' = Arrived(job) \cup {target} /\ target \notin Arrived(job)
    BY <1>0, <1>1, <2>2 DEF Arrived
  <2>4. IsFiniteSet(Arrived(job))
    BY ArrivedCount
  <2>. HIDE DEF k1
  <2>5. Cardinality(Arrived(job) \cup {target}) = k + 1
    BY <2>3, <2>4, FS_AddElement
  <2>. QED
    BY <2>3, <2>5 DEF k1
<1>5. ASSUME UNCHANGED sent PROVE k1 = k
  BY <1>0, <1>5 DEF Arrived
<1>6. Arrives \/ UNCHANGED sent
  BY DEF SendDelivers, SendForbidden, SendMustWait, SendErrs
<1>7. \A j \in Job : j # job => sent'[j] = sent[j]
  BY <1>1, <1>6 DEF Arrives
<1>8. /\ cnt'.total = cnt'.delivered + cnt'.failed + cnt'.blocked + IF step' = "send" THEN 1 ELSE 0
      /\ cnt'.delivered \in Nat /\ cnt'.failed \in Nat
      /\ k1 + cnt.delivered >= k + cnt'.delivered
      /\ k1 + cnt.delivered + cnt.failed <= k + cnt'.delivered + cnt'.failed
  <2>0. cnt.total = cnt.delivered + cnt.failed + cnt.blocked + 1
    BY <1>0 DEF CntInv, BooksInv
  <2>. HIDE DEF k, k1
  <2>1. CASE SendDelivers
    <3>1. step' = "pace" /\ cnt' = [cnt EXCEPT !.delivered = cnt.delivered + 1] /\ k1 = k + 1
      BY <2>1, <1>4 DEF SendDelivers
    <3>. QED
      BY <1>1, <1>2, <1>3, <2>0, <3>1 DEF Counters
  <2>2. CASE SendForbidden
    <3>1. step' = "mark" /\ cnt' = [cnt EXCEPT !.blocked = cnt.blocked + 1] /\ k1 = k
      BY <2>2, <1>5 DEF SendForbidden
    <3>. QED
      BY <1>1, <1>2, <1>3, <2>0, <3>1 DEF Counters
  <2>3. CASE SendMustWait
    <3>1. k1 = k /\ \/ UNCHANGED <<step, cnt>>
                    \/ step' = "pace" /\ cnt' = [cnt EXCEPT !.failed = cnt.failed + 1]
      BY <2>3, <1>5 DEF SendMustWait
    <3>. QED
      BY <1>0, <1>1, <1>2, <1>3, <2>0, <3>1 DEF Counters
  <2>4. CASE SendErrs
    <3>1. step' = "pace" /\ cnt' = [cnt EXCEPT !.failed = cnt.failed + 1] /\ (k1 = k + 1 \/ k1 = k)
      BY <2>4, <1>4, <1>5 DEF SendErrs
    <3>. QED
      BY <1>1, <1>2, <1>3, <2>0, <3>1 DEF Counters
  <2>. QED
    BY <2>1, <2>2, <2>3, <2>4
<1>9. k <= k1
  BY <1>3, <1>4, <1>5, <1>6
<1>. HIDE DEF k, k1
<1>10. RowInv'
  <2>. SUFFICES ASSUME NEW j \in Job PROVE RowFits(j)'
    BY DEF RowInv
  <2>1. CASE j # job
    BY <1>0, <1>7, <2>1, RowFitsKept DEF BooksInv, RowInv, IInv
  <2>2. CASE j = job
    <3>1. ~Over(j) /\ Over(j)' = Over(j)
      BY <1>0, <1>1, <2>2 DEF BooksInv, StatusInv, Over
    <3>2. RowFits(j)
      BY DEF BooksInv, RowInv
    <3>3. row[j].counts.delivered \in Nat
      BY DEF IInv, TypeOK, Counters
    <3>4. Cardinality(Arrived(j)) = k /\ Cardinality(Arrived(j))' = k1
      BY <1>0, <2>2 DEF k, k1
    <3>5. row[j].counts.delivered <= k1
      BY <1>3, <1>9, <3>2, <3>3, <3>4 DEF RowFits
    <3>. QED
      BY <1>0, <3>1, <3>2, <3>4, <3>5 DEF RowFits
  <2>. QED
    BY <2>1, <2>2
<1>11. CntInv'
  <2>1. cnt.delivered <= k /\ (faults = 0 => k <= cnt.delivered + cnt.failed)
    BY <1>1 DEF BooksInv, CntInv, k
  <2>2. Cardinality(Arrived(job))' = k1
    BY <1>0 DEF k1
  <2>3. cnt'.delivered <= k1 /\ (faults = 0 => k1 <= cnt'.delivered + cnt'.failed)
    BY <1>2, <1>3, <1>8, <2>1
  <2>. QED
    BY <1>0, <1>1, <1>8, <2>2, <2>3 DEF CntInv
<1>12. StatusInv'
  BY <1>0 DEF StatusInv, BooksInv, Over, Queued
<1>. QED
  BY <1>10, <1>11, <1>12 DEF BooksInv

\* A flush writes counters that fit.
LEMMA BooksFlush == ASSUME IInv, BooksInv, Flush \/ LastFlush PROVE BooksInv'
<1>0. /\ UNCHANGED <<sent, cnt, job, queue, enqueued, faults>> /\ row' = [row EXCEPT ![job].counts = cnt]
      /\ step \in {"flush", "lastFlush"} /\ step' \in {"check", "finish"}
  BY DEF Flush, LastFlush, workerFrame, localVars
<1>1. job \in Job /\ job # NoJob /\ job \notin Queued /\ job \in enqueued
  BY <1>0, Sentinels DEF IInv, TypeOK, QueueInv
<1>2. /\ \A j \in Job : j # job => row'[j] = row[j]
      /\ row'[job].counts = cnt /\ row'[job].status = row[job].status
  BY <1>0, <1>1 DEF IInv, TypeOK
<1>3. Cardinality(Arrived(job))' = Cardinality(Arrived(job))
  BY <1>0 DEF Arrived
<1>4. RowInv'
  <2>. SUFFICES ASSUME NEW j \in Job PROVE RowFits(j)'
    BY DEF RowInv
  <2>1. CASE j # job
    BY <1>0, <1>2, <2>1, RowFitsKept DEF BooksInv, RowInv, IInv
  <2>2. CASE j = job
    <3>1. cnt.total = cnt.delivered + cnt.failed + cnt.blocked /\ cnt.delivered <= Cardinality(Arrived(job))
      <4>1. cnt \in Counters
        BY DEF IInv, TypeOK
      <4>. QED
        BY <1>0, <1>1, <4>1 DEF BooksInv, CntInv, Counters
    <3>2. ~Over(job)
      BY <1>0, <1>1 DEF BooksInv, StatusInv
    <3>3. Cardinality(Arrived(j))' = Cardinality(Arrived(job)) /\ ~Over(j)'
      BY <1>0, <1>2, <2>2, <3>2 DEF Arrived, Over
    <3>. QED
      BY <1>2, <2>2, <3>1, <3>3 DEF RowFits
  <2>. QED
    BY <2>1, <2>2
<1>5. CntInv'
  BY <1>0, <1>3 DEF CntInv, BooksInv
<1>6. StatusInv'
  BY <1>0, <1>1, <1>2 DEF StatusInv, BooksInv, Over, Queued
<1>. QED
  BY <1>4, <1>5, <1>6 DEF BooksInv

\* Without a fault the last flush has succeeded, and the row is over with the
\* counters of the whole run.
LEMMA BooksFinish == ASSUME IInv, BooksInv, Finish PROVE BooksInv'
<1>0. /\ UNCHANGED <<sent, cnt, job, queue, enqueued, faults>> /\ step = "finish" /\ step' = "report"
      /\ row' = [row EXCEPT ![job].status = IF stopping THEN "cancelled" ELSE "completed"]
  BY DEF Finish, workerFrame, localVars
<1>1. job \in Job /\ job # NoJob /\ job \notin Queued /\ job \in enqueued
  BY <1>0, Sentinels DEF IInv, TypeOK, QueueInv
<1>2. (\A j \in Job : j # job => row'[j] = row[j]) /\ row'[job].counts = row[job].counts
  BY <1>0, <1>1 DEF IInv, TypeOK
<1>3. Cardinality(Arrived(job))' = Cardinality(Arrived(job))
  BY <1>0 DEF Arrived
<1>4. RowInv'
  <2>. SUFFICES ASSUME NEW j \in Job PROVE RowFits(j)'
    BY DEF RowInv
  <2>1. CASE j # job
    BY <1>0, <1>2, <2>1, RowFitsKept DEF BooksInv, RowInv, IInv
  <2>2. CASE j = job
    <3>1. Cardinality(Arrived(j))' = Cardinality(Arrived(job))
      BY <1>0, <2>2 DEF Arrived
    <3>2. faults = 0 => Cardinality(Arrived(job)) <= row[job].counts.delivered + row[job].counts.failed
      BY <1>0, <1>1 DEF BooksInv, CntInv, StatusInv
    <3>. QED
      BY <1>0, <1>2, <2>2, <3>1, <3>2 DEF RowFits, BooksInv, RowInv
  <2>. QED
    BY <2>1, <2>2
<1>5. CntInv'
  BY <1>0, <1>3 DEF CntInv, BooksInv
<1>6. StatusInv'
  BY <1>0, <1>1, <1>2 DEF StatusInv, BooksInv, Over, Queued
<1>. QED
  BY <1>4, <1>5, <1>6 DEF BooksInv

LEMMA BooksNext == ASSUME IInv, BooksInv, [Next]_vars PROVE BooksInv'
<1>1. CASE WorkerStep
  BY <1>1, BooksPop, BooksCreate, BooksWorkerQuiet, BooksDrop, BooksAttempt, BooksSend, BooksFlush, BooksFinish
     DEF WorkerStep
<1>2. CASE Crash
  BY <1>2, BooksDrop
<1>3. CASE ~WorkerStep /\ ~Crash
  BY <1>3, BooksProducer DEF Next
<1>. QED
  BY <1>1, <1>2, <1>3

\* The counters a reader finds in a broadcasts row add up and bound the
\* messages that arrived (_process_job, _send_to_user and _flush_counters in
\* app/features/broadcasts/worker.py).
THEOREM CountersAreTrue == Spec => []RowAddsUp
<1>1. BooksInv => RowAddsUp
  BY DEF BooksInv, RowInv, RowFits, Arrived, Over, RowAddsUp
<1>. QED
  BY <1>1, BooksInit, BooksNext, Invariant, PTL DEF Spec

-----------------------------------------------------------------------------
(* The refinement of JobLedger.                                            *)

\* The row of the current job follows the worker.
RunInv ==
    /\ \A j \in Job : j \in Queued \/ j \notin enqueued => row[j].status = "none"
    /\ step = "create" => row[job].status = "none"
    /\ step \notin {"idle", "create", "report"} => row[job].status = "running"

\* What LPUSH and BRPOP do to the list read from its oldest end.
LEMMA OldestPushed ==
    ASSUME NEW a \in Admin, NEW p \in Press, IInv, Enqueue(a, p)
    PROVE  \E j \in Job \ enqueued :
               enqueued' = enqueued \cup {j} /\ OldestFirst' = Append(OldestFirst, j)
<1>1. PICK j \in Job \ enqueued : queue' = <<j>> \o queue /\ enqueued' = enqueued \cup {j}
  BY DEF Enqueue
<1>2. queue \in Seq(enqueued)
  BY DEF IInv, TypeOK
<1>3. /\ Len(queue) \in Nat /\ Len(queue') = Len(queue) + 1
      /\ queue'[1] = j /\ \A i \in 2..Len(queue') : queue'[i] = queue[i - 1]
  BY <1>1, <1>2, Pushed
<1>. DEFINE n == Len(queue)
            f == [i \in 1..n |-> queue[n + 1 - i]]
            g == [i \in 1..(n + 1) |-> queue'[n + 2 - i]]
<1>4. OldestFirst = f
  BY DEF OldestFirst
<1>5. OldestFirst' = g
  <2>1. OldestFirst' = [i \in 1..Len(queue') |-> queue'[Len(queue') + 1 - i]]
    BY DEF OldestFirst
  <2>2. \A i \in 1..(n + 1) : n + 1 + 1 - i = n + 2 - i
    BY <1>3
  <2>. QED
    BY <1>3, <2>1, <2>2
<1>6. g = Append(f, j)
  <2>1. f \in Seq(enqueued) /\ Len(f) = n
    <3>1. \A i \in 1..n : n + 1 - i \in 1..n /\ queue[n + 1 - i] \in enqueued
      BY <1>2, <1>3
    <3>. QED
      BY <1>3, <3>1
  <2>2. Append(f, j) = [i \in 1..(n + 1) |-> IF i = n + 1 THEN j ELSE f[i]]
    BY <1>3, <2>1
  <2>3. ASSUME NEW i \in 1..(n + 1) PROVE queue'[n + 2 - i] = IF i = n + 1 THEN j ELSE f[i]
    <3>1. CASE i = n + 1
      BY <1>3, <3>1
    <3>2. CASE i # n + 1
      <4>1. i \in 1..n /\ n + 2 - i \in 2..Len(queue') /\ (n + 2 - i) - 1 = n + 1 - i
        BY <1>3, <3>2
      <4>2. queue'[n + 2 - i] = queue[n + 1 - i]
        BY <1>3, <4>1
      <4>. QED
        BY <3>2, <4>1, <4>2
    <3>. QED
      BY <3>1, <3>2
  <2>. QED
    BY <2>2, <2>3
<1>. QED
  BY <1>1, <1>4, <1>5, <1>6

LEMMA OldestPopped ==
    ASSUME IInv, Pop
    PROVE  OldestFirst # <<>> /\ job' = Head(OldestFirst) /\ OldestFirst' = Tail(OldestFirst)
<1>1. /\ queue \in Seq(enqueued) /\ queue # <<>> /\ queue' = SubSeq(queue, 1, Len(queue) - 1)
      /\ job' = queue[Len(queue)]
  BY DEF Pop, IInv, TypeOK
<1>2. /\ queue' \in Seq(enqueued) /\ DOMAIN queue' = 1..(Len(queue) - 1) /\ Len(queue) \in Nat \ {0}
      /\ \A i \in DOMAIN queue' : queue'[i] = queue[i]
  BY <1>1, Popped
<1>3. Len(queue') = Len(queue) - 1
  BY <1>2
<1>. DEFINE n == Len(queue)
            f == [i \in 1..n |-> queue[n + 1 - i]]
            g == [i \in 1..(n - 1) |-> queue'[n - i]]
<1>4. OldestFirst = f
  BY DEF OldestFirst
<1>5. OldestFirst' = g
  <2>1. OldestFirst' = [i \in 1..Len(queue') |-> queue'[Len(queue') + 1 - i]]
    BY DEF OldestFirst
  <2>2. \A i \in 1..(n - 1) : (n - 1) + 1 - i = n - i
    BY <1>2
  <2>. QED
    BY <1>3, <2>1, <2>2
<1>6. f \in Seq(enqueued) /\ Len(f) = n
  <2>1. \A i \in 1..n : n + 1 - i \in 1..n /\ queue[n + 1 - i] \in enqueued
    BY <1>1, <1>2
  <2>. QED
    BY <1>2, <2>1
<1>7. f # <<>> /\ Head(f) = queue[n]
  <2>1. n + 1 - 1 = n /\ 1 \in 1..n
    BY <1>2
  <2>. QED
    BY <1>2, <1>6, <2>1
<1>8. g = Tail(f)
  <2>1. Tail(f) = [i \in 1..(n - 1) |-> f[i + 1]]
    BY <1>2, <1>6
  <2>2. ASSUME NEW i \in 1..(n - 1) PROVE queue'[n - i] = f[i + 1]
    <3>1. n - i \in DOMAIN queue' /\ i + 1 \in 1..n /\ n + 1 - (i + 1) = n - i
      BY <1>2
    <3>. QED
      BY <1>2, <3>1
  <2>. QED
    BY <2>1, <2>2
<1>. QED
  BY <1>1, <1>4, <1>5, <1>7, <1>8

LEMMA RunInit == ASSUME Init PROVE RunInv
BY DEF Init, DialogsInit, JobsInit, RunInv

\* The steps that write no status.
LEMMA RunKept ==
    ASSUME RunInv, UNCHANGED job, \A j \in Job : row'[j].status = row[j].status,
           job \in Job \/ step' \in {"idle", "report"},
           step' = "create" => step = "create",
           step' \notin {"idle", "create", "report"} => step \notin {"idle", "create", "report"},
           \A j : j \in Queued' \/ j \notin enqueued' => j \in Queued \/ j \notin enqueued
    PROVE  RunInv'
BY DEF RunInv

\* A flush leaves every row's status alone.
LEMMA SameStatus ==
    ASSUME TypeOK, job \in Job, row' = row \/ row' = [row EXCEPT ![job].counts = cnt]
    PROVE  \A j \in Job : row'[j].status = row[j].status
<1>1. row \in [Job -> [status : {"none", "running", "completed", "cancelled"}, counts : Counters]]
  BY DEF TypeOK
<1>. QED
  BY <1>1

LEMMA RunProducer ==
    ASSUME IInv, RunInv,
           \/ \E a \in Admin : AdminStep(a)
           \/ \E a \in Admin, p \in Press : PressYes(a, p) \/ PressStep(a, p)
           \/ \E j \in Job : Cancel(j) \/ FlagExpires(j)
           \/ UNCHANGED vars
    PROVE  RunInv'
<1>. USE DEF producerVars, queueVars, producerFrame, localVars, jobHistory
<1>1. UNCHANGED <<row, job, step>>
  BY DEF AdminStep, Entry, EntryUncounted, DialogGoesOn, DialogDropped, PressYes, PressStep, ReadDialog,
     Enqueue, EnqueueFails, ClearDialog, Cancel, FlagExpires, vars
<1>2. \A j : j \in Queued' \/ j \notin enqueued' => j \in Queued \/ j \notin enqueued
  <2>1. CASE \E a \in Admin, p \in Press : Enqueue(a, p)
    BY <2>1, NewlyQueued
  <2>2. CASE UNCHANGED queueVars
    BY <2>2 DEF Queued
  <2>3. UNCHANGED queueVars \/ \E a \in Admin, p \in Press : Enqueue(a, p)
    BY DEF AdminStep, Entry, EntryUncounted, DialogGoesOn, DialogDropped, PressYes, PressStep, ReadDialog,
       EnqueueFails, ClearDialog, Cancel, FlagExpires, vars
  <2>. QED
    BY <2>1, <2>2, <2>3
<1>3. job \in Job \/ step' = "idle"
  BY <1>1, Sentinels DEF IInv, TypeOK
<1>. QED
  BY <1>1, <1>2, <1>3, RunKept

LEMMA RunPop == ASSUME IInv, RunInv, Pop PROVE RunInv'
<1>1. /\ queue \in Seq(enqueued) /\ queue # <<>> /\ queue' = SubSeq(queue, 1, Len(queue) - 1)
      /\ job' = queue[Len(queue)] /\ step' = "create" /\ UNCHANGED <<row, enqueued>>
  BY DEF Pop, workerFrame, IInv, TypeOK
<1>2. /\ DOMAIN queue = 1..Len(queue) /\ Len(queue) \in Nat \ {0}
      /\ \A i \in DOMAIN queue' : queue'[i] = queue[i] /\ i \in DOMAIN queue
  BY <1>1, Popped
<1>3. job' \in Queued /\ Queued' \subseteq Queued
  BY <1>1, <1>2 DEF Queued
<1>4. Queued \subseteq enqueued /\ enqueued \subseteq Job
  BY <1>1 DEF Queued, IInv, TypeOK
<1>. QED
  BY <1>1, <1>3, <1>4 DEF RunInv

\* The steps of the worker that leave its job and its row's status alone.
LEMMA RunWorking ==
    ASSUME IInv, RunInv,
           \/ OpenStream \/ Proceed \/ CheckFails \/ StopForFlag \/ StreamEnds
           \/ SendDelivers \/ SendForbidden \/ SendMustWait \/ SendErrs
           \/ MarkBlocked \/ MarkBlockedFails \/ Pace \/ Flush \/ FlushFails
           \/ LastFlush \/ LastFlushFails
    PROVE  RunInv'
<1>. USE DEF OpenStream, Proceed, CheckFails, Attempt, StopForFlag, StreamEnds, SendDelivers, SendForbidden,
       SendMustWait, SendErrs, MarkBlocked, MarkBlockedFails, Pace, Flush, FlushFails, LastFlush,
       LastFlushFails, sendFrame, workerFrame, localVars, jobHistory
<1>1. UNCHANGED <<job, queue, enqueued>>
  OBVIOUS
<1>2. step \notin {"idle", "create", "report"} /\ step' \notin {"idle", "create", "report"}
  OBVIOUS
<1>3. job \in Job
  BY <1>2, Sentinels DEF IInv, TypeOK
<1>4. \A j \in Job : row'[j].status = row[j].status
  <2>1. row' = row \/ row' = [row EXCEPT ![job].counts = cnt]
    OBVIOUS
  <2>. QED
    BY <1>3, <2>1, SameStatus DEF IInv
<1>5. Queued' = Queued
  BY <1>1 DEF Queued
<1>. QED
  BY <1>1, <1>2, <1>3, <1>4, <1>5, RunKept

LEMMA RunMoves == ASSUME IInv, RunInv, CreateRunning \/ Finish PROVE RunInv'
<1>1. /\ UNCHANGED <<job, queue, enqueued>> /\ step \in {"create", "finish"}
      /\ step' = IF step = "create" THEN "stream" ELSE "report"
  BY DEF CreateRunning, Finish, workerFrame, localVars
<1>2. job \in Job /\ job \notin Queued /\ job \in enqueued
  BY <1>1, Sentinels DEF IInv, TypeOK, QueueInv
<1>3. \A j \in Job : j # job => row'[j] = row[j]
  BY <1>2 DEF CreateRunning, Finish, IInv, TypeOK
<1>4. step = "create" => row'[job].status = "running"
  BY <1>2 DEF CreateRunning, Finish, IInv, TypeOK
<1>5. Queued' = Queued
  BY <1>1 DEF Queued
<1>6. \A j \in Job : j \in Queued' \/ j \notin enqueued' => row'[j].status = "none"
  BY <1>1, <1>2, <1>3, <1>5 DEF RunInv
<1>7. step' = "report" \/ (step' = "stream" /\ row'[job'].status = "running")
  BY <1>1, <1>4
<1>. QED
  BY <1>6, <1>7 DEF RunInv

LEMMA RunDrop == ASSUME RunInv, JobFails \/ Report \/ Crash PROVE RunInv'
<1>1. UNCHANGED <<row, queue, enqueued>> /\ step' = "idle"
  BY DEF JobFails, Report, Crash, DropLocals, workerFrame, queueVars
<1>. QED
  BY <1>1 DEF RunInv, Queued

LEMMA RunNext == ASSUME IInv, RunInv, [Next]_vars PROVE RunInv'
<1>1. CASE WorkerStep
  BY <1>1, RunPop, RunMoves, RunDrop, RunWorking DEF WorkerStep
<1>2. CASE Crash
  BY <1>2, RunDrop
<1>3. CASE ~WorkerStep /\ ~Crash
  BY <1>3, RunProducer DEF Next
<1>. QED
  BY <1>1, <1>2, <1>3

\* Every step of the dialogs, the queue and the worker is a step of the ledger
\* or leaves it alone.
LEMMA StepImplementsJobs ==
    ASSUME IInv, RunInv, [Next]_vars
    PROVE  [Jobs!Next]_(Jobs!vars)
<1>. DEFINE Status == [j \in Job |-> row[j].status]
<1>q. UNCHANGED queue => UNCHANGED OldestFirst
  BY DEF OldestFirst
<1>r. UNCHANGED row => UNCHANGED Status
  OBVIOUS
<1>1. ASSUME UNCHANGED <<queue, enqueued, row, job, sent>>
      PROVE  UNCHANGED Jobs!vars
  BY <1>1, <1>q, <1>r DEF Jobs!vars
<1>2. ASSUME NEW a \in Admin, NEW p \in Press, Enqueue(a, p)
      PROVE  Jobs!Next
  <2>1. PICK j \in Job \ enqueued :
            enqueued' = enqueued \cup {j} /\ OldestFirst' = Append(OldestFirst, j)
    BY <1>2, OldestPushed
  <2>2. UNCHANGED <<job, row, sent>>
    BY <1>2 DEF Enqueue, producerFrame, localVars
  <2>3. Jobs!Submit(j)
    BY <2>1, <2>2, <1>r DEF Jobs!Submit
  <2>. QED
    BY <2>1, <2>3 DEF Jobs!Next
<1>3. ASSUME Pop PROVE Jobs!Next
  <2>1. OldestFirst # <<>> /\ job' = Head(OldestFirst) /\ OldestFirst' = Tail(OldestFirst)
    BY <1>3, OldestPopped
  <2>2. UNCHANGED <<enqueued, row, sent>> /\ job = NoJob
    BY <1>3 DEF Pop, workerFrame, IInv, TypeOK
  <2>3. Jobs!TakeUp
    BY <2>1, <2>2, <1>r DEF Jobs!TakeUp
  <2>. QED
    BY <2>3 DEF Jobs!Next
<1>4. ASSUME CreateRunning \/ Finish PROVE Jobs!Next
  <2>1. UNCHANGED <<queue, enqueued, job, sent>> /\ step \in {"create", "finish"}
    BY <1>4 DEF CreateRunning, Finish, workerFrame, localVars
  <2>2. job \in Job /\ job # NoJob
    BY <2>1, Sentinels DEF IInv, TypeOK
  <2>3. CASE CreateRunning
    <3>1. Status[job] = "none"
      BY <2>2, <2>3 DEF RunInv, CreateRunning
    <3>2. Status' = [Status EXCEPT ![job] = "running"]
      BY <2>2, <2>3 DEF CreateRunning, IInv, TypeOK
    <3>3. Jobs!Begin
      BY <1>q, <2>1, <2>2, <3>1, <3>2 DEF Jobs!Begin, Jobs!Move
    <3>. QED
      BY <3>3 DEF Jobs!Next
  <2>4. CASE Finish
    <3>1. Status[job] = "running"
      BY <2>2, <2>4 DEF RunInv, Finish
    <3>2. PICK s \in {"completed", "cancelled"} : row' = [row EXCEPT ![job].status = s]
      BY <2>4 DEF Finish
    <3>5. Status' = [Status EXCEPT ![job] = s]
      BY <2>2, <3>2 DEF IInv, TypeOK
    <3>3. Jobs!Move("running", s) /\ s \in Jobs!Outcome
      BY <1>q, <2>1, <2>2, <3>1, <3>5 DEF Jobs!Move, Jobs!Outcome
    <3>4. Jobs!Finish
      BY <3>3 DEF Jobs!Finish
    <3>. QED
      BY <3>4 DEF Jobs!Next
  <2>. QED
    BY <1>4, <2>3, <2>4
<1>5. ASSUME SendDelivers \/ SendErrs PROVE [Jobs!Next]_(Jobs!vars)
  <2>1. UNCHANGED <<queue, enqueued, row, job>> /\ step = "send"
    BY <1>5 DEF SendDelivers, SendErrs, sendFrame, workerFrame
  <2>2. job \in Job /\ job # NoJob /\ target \in User /\ sent[job][target] = 0 /\ Status[job] = "running"
    BY <2>1, Sentinels DEF IInv, TypeOK, SendInv, RunInv
  <2>3. CASE UNCHANGED sent
    BY <1>1, <2>1, <2>3
  <2>4. CASE Arrives
    <3>1. sent' = [sent EXCEPT ![job] = [sent[job] EXCEPT ![target] = 1]]
      BY <2>2, <2>4 DEF Arrives
    <3>2. Jobs!Deliver(target)
      BY <1>q, <1>r, <2>1, <2>2, <3>1 DEF Jobs!Deliver
    <3>. QED
      BY <2>2, <3>2 DEF Jobs!Next
  <2>. QED
    BY <1>5, <2>3, <2>4 DEF SendDelivers, SendErrs
<1>6. ASSUME JobFails \/ Report \/ Crash PROVE [Jobs!Next]_(Jobs!vars)
  <2>1. UNCHANGED <<queue, enqueued, row, sent>> /\ job' = NoJob
    BY <1>6 DEF JobFails, Report, Crash, DropLocals, workerFrame, queueVars
  <2>2. CASE job = NoJob
    BY <1>1, <2>1, <2>2
  <2>3. CASE job # NoJob
    <3>1. Jobs!PutAside
      BY <1>q, <1>r, <2>1, <2>3 DEF Jobs!PutAside
    <3>. QED
      BY <3>1 DEF Jobs!Next
  <2>. QED
    BY <2>2, <2>3
<1>7. ASSUME \/ OpenStream \/ Proceed \/ CheckFails \/ StopForFlag \/ StreamEnds
             \/ SendForbidden \/ SendMustWait \/ MarkBlocked \/ MarkBlockedFails
             \/ Pace \/ FlushFails \/ LastFlushFails
      PROVE  UNCHANGED Jobs!vars
  <2>1. UNCHANGED <<queue, enqueued, row, job, sent>>
    BY <1>7 DEF OpenStream, Proceed, CheckFails, Attempt, StopForFlag, StreamEnds, SendForbidden, SendMustWait,
       MarkBlocked, MarkBlockedFails, Pace, FlushFails, LastFlushFails, sendFrame, workerFrame, localVars,
       jobHistory
  <2>. QED
    BY <1>1, <2>1
<1>8. ASSUME Flush \/ LastFlush PROVE UNCHANGED Jobs!vars
  <2>1. UNCHANGED <<queue, enqueued, job, sent>> /\ row' = [row EXCEPT ![job].counts = cnt]
    BY <1>8 DEF Flush, LastFlush, workerFrame, localVars
  <2>2. UNCHANGED Status
    BY <2>1 DEF IInv, TypeOK
  <2>. QED
    BY <1>q, <2>1, <2>2 DEF Jobs!vars
<1>9. ASSUME \/ \E a \in Admin : AdminStep(a)
             \/ \E a \in Admin, p \in Press : \/ PressYes(a, p) \/ ReadDialog(a, p)
                                              \/ EnqueueFails(a, p) \/ ClearDialog(a, p)
             \/ \E j \in Job : Cancel(j) \/ FlagExpires(j)
             \/ UNCHANGED vars
      PROVE  UNCHANGED Jobs!vars
  <2>1. UNCHANGED <<queue, enqueued, row, job, sent>>
    BY <1>9 DEF AdminStep, Entry, EntryUncounted, DialogGoesOn, DialogDropped, PressYes, ReadDialog,
       EnqueueFails, ClearDialog, Cancel, FlagExpires, vars, producerVars, queueVars, producerFrame, localVars,
       jobHistory
  <2>. QED
    BY <1>1, <2>1
<1>. QED
  BY <1>2, <1>3, <1>4, <1>5, <1>6, <1>7, <1>8, <1>9 DEF Next, WorkerStep, PressStep

\* The list, the worker and the broadcasts table keep the promise of
\* JobLedger: each job once and in order, its messages only while its row
\* runs and once for each user, its row one way (app/features/broadcasts).
THEOREM RefinesJobLedger == Spec => ImplementsJobs
<1>1. Init => Jobs!Init
  <2>. SUFFICES ASSUME Init PROVE Jobs!Init
    OBVIOUS
  <2>1. OldestFirst = <<>>
    BY DEF Init, DialogsInit, JobsInit, OldestFirst
  <2>. QED
    BY <2>1 DEF Init, DialogsInit, JobsInit, Jobs!Init
<1>2. IInv /\ RunInv /\ [Next]_vars => [Jobs!Next]_(Jobs!vars)
  BY StepImplementsJobs
<1>. QED
  BY <1>1, <1>2, RunInit, RunNext, Invariant, PTL DEF Spec, ImplementsJobs, Jobs!Spec
=============================================================================
