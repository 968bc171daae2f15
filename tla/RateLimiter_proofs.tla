------------------------- MODULE RateLimiter_proofs -------------------------
(***************************************************************************)
(* Proofs about RateLimiter, for any finite number of messages, any limits *)
(* and any delay.  What needs a delay below the window, or a block that    *)
(* outlives it, says so: no such thing is assumed of the constants.        *)
(***************************************************************************)
EXTENDS RateLimiter, FiniteSetTheorems, TLAPS

\* A round trip that takes a whole window is counted in the wrong one.
DelayBelowWindow == MaxDelay < Window
\* The defaults are 30 and 3.
BlockOutlivesWindow == Window <= Block

Done(e) == pc[e] \in {"allowed", "refused"}

\* What is in the window has been decided and, if no message takes a Window to
\* arrive, lies within one.
WindowInv ==
    /\ \A x \in window \cup culprits : Done(x)
    /\ DelayBelowWindow => \A x, y \in window : stamp[x] - stamp[y] < Window
    /\ \A x \in window : stamp[x] + Window <= windowEnd

\* An allowed message is in the window as long as it counts.
Remembered == \A e \in Event : pc[e] = "allowed" => e \in window \/ stamp[e] + Window <= clock

\* A window that holds culprits does not outlive their block.
CulpritsLeave ==
    BlockOutlivesWindow /\ (\E x \in window : x \in culprits) => windowEnd <= blockEnd

\* Whoever is or was blocked has sent a burst.
BlockedAfterBurst ==
    DelayBelowWindow /\ (blockEnd > 0 \/ \E e \in Event : pc[e] \in {"turnedAway", "refused"})
        => \E B \in SUBSET Sent : Burst(B)

IInv == TypeOK /\ WindowInv /\ Remembered /\ CulpritsLeave /\ BlockedAfterBurst /\ BurstCapped

\* The messages allowed in a stretch of time.
AllowedIn(a) == {e \in Event : pc[e] = "allowed" /\ Within(a, Window - MaxDelay, e)}

-----------------------------------------------------------------------------
\* The constants as integers.
LEMMA Bounds ==
    /\ Window \in Nat \ {0} /\ MaxEvents \in Nat \ {0} /\ Block \in Nat \ {0}
    /\ MaxDelay \in Nat /\ MaxTime \in Nat
BY LimitsPositive, BoundsNat

LEMMA InvInit == ASSUME Init PROVE IInv
<1>. USE DEF Init
<1>1. TypeOK
  BY Bounds DEF TypeOK, Place
<1>2. WindowInv /\ Remembered /\ CulpritsLeave /\ BlockedAfterBurst
  BY DEF WindowInv, Remembered, CulpritsLeave, BlockedAfterBurst
<1>3. BurstCapped
  <2>1. \A a \in -1..MaxTime : {e \in Event : pc[e] = "allowed" /\ Within(a, Window - MaxDelay, e)} = {}
    OBVIOUS
  <2>. QED
    BY <2>1, FS_EmptySet, Bounds DEF BurstCapped
<1>. QED
  BY <1>1, <1>2, <1>3 DEF IInv

\* A burst stays one while its messages keep their times.
LEMMA BurstStays ==
    ASSUME \A e \in Sent : e \in Sent' /\ stamp'[e] = stamp[e],
           \E B \in SUBSET Sent : Burst(B)
    PROVE  (\E B \in SUBSET Sent : Burst(B))'
<1>1. PICK B \in SUBSET Sent : Burst(B)
  OBVIOUS
<1>2. B \in SUBSET Sent' /\ \A x \in B : stamp'[x] = stamp[x]
  BY <1>1
<1>3. Burst(B)'
  BY <1>1, <1>2 DEF Burst
<1>. QED
  BY <1>2, <1>3

\* A message that moves outside the script.
LEMMA InvOutside ==
    ASSUME IInv, NEW e \in Event, PreCheck(e) \/ TakeTime(e) \/ ScriptBlocked(e)
    PROVE  IInv'
<1>. USE Bounds DEF IInv
<1>1. /\ pc' \in [Event -> Place] /\ stamp' \in [Event -> 0..MaxTime]
      /\ pc[e] \in {"idle", "checked", "sent"}
      /\ pc'[e] \in {"turnedAway", "checked", "sent", "refused"}
      /\ \A x \in Event \ {e} : pc'[x] = pc[x] /\ stamp'[x] = stamp[x]
      /\ UNCHANGED <<clock, window, windowEnd, blockEnd, culprits>>
  BY DEF PreCheck, TakeTime, ScriptBlocked, Goto, TypeOK, Place, redisVars
<1>2. /\ stamp'[e] <= clock
      /\ pc'[e] = "sent" => clock <= stamp'[e] + MaxDelay
      /\ pc[e] = "sent" => pc'[e] = "refused" /\ stamp'[e] = stamp[e]
      /\ pc'[e] \in {"turnedAway", "refused"} => clock < blockEnd
  BY DEF PreCheck, TakeTime, ScriptBlocked, Goto, TypeOK, Blocked
<1>3. TypeOK'
  <2>1. \A x \in Event : stamp'[x] <= clock
    BY <1>1, <1>2 DEF TypeOK
  <2>2. \A x \in Event : pc'[x] = "sent" => clock <= stamp'[x] + MaxDelay
    BY <1>1, <1>2 DEF TypeOK
  <2>. QED
    BY <1>1, <2>1, <2>2 DEF TypeOK
<1>4. \A x \in window \cup culprits : x # e /\ x \in Event
  BY <1>1 DEF WindowInv, Done, TypeOK
<1>5. WindowInv'
  BY <1>1, <1>4 DEF WindowInv, Done
<1>6. Remembered'
  BY <1>1 DEF Remembered
<1>7. CulpritsLeave'
  BY <1>1 DEF CulpritsLeave
<1>8. BlockedAfterBurst'
  <2>1. \A x \in Sent : x \in Sent' /\ stamp'[x] = stamp[x]
    BY <1>1, <1>2 DEF Sent
  <2>2. blockEnd' > 0 \/ (\E x \in Event : pc'[x] \in {"turnedAway", "refused"})
          => blockEnd > 0 \/ \E x \in Event : pc[x] \in {"turnedAway", "refused"}
    BY <1>1, <1>2 DEF TypeOK
  <2>. QED
    BY <2>1, <2>2, BurstStays DEF BlockedAfterBurst
<1>9. BurstCapped'
  <2>1. \A a \in -1..MaxTime : AllowedIn(a)' = AllowedIn(a)
    BY <1>1 DEF AllowedIn, Within
  <2>. QED
    BY <2>1 DEF BurstCapped, AllowedIn
<1>. QED
  BY <1>3, <1>5, <1>6, <1>7, <1>8, <1>9

LEMMA InvTick == ASSUME IInv, Tick PROVE IInv'
<1>. USE Bounds DEF IInv, Tick, redisVars
<1>1. TypeOK'
  BY DEF TypeOK
<1>2. WindowInv' /\ CulpritsLeave'
  BY DEF WindowInv, CulpritsLeave, Done
<1>3. Remembered'
  BY DEF Remembered, TypeOK
<1>4. BlockedAfterBurst'
  BY DEF BlockedAfterBurst, Sent, Burst
<1>5. BurstCapped'
  BY DEF BurstCapped, Within
<1>. QED
  BY <1>1, <1>2, <1>3, <1>4, <1>5

\* What the script leaves in the window, and what it counts.
LEMMA KeptIsRecent ==
    ASSUME IInv, NEW e \in Event, pc[e] = "sent"
    PROVE  /\ e \in Kept(e) /\ Kept(e) \subseteq window \cup {e} /\ IsFiniteSet(Kept(e))
           /\ DelayBelowWindow => \A x, y \in Kept(e) : stamp[x] - stamp[y] < Window
           /\ \A x \in Kept(e) : stamp[x] <= clock /\ x \in Event
           /\ clock >= windowEnd => Kept(e) = {e}
<1>. USE Bounds DEF IInv
<1>0. /\ window \subseteq Event /\ stamp \in [Event -> 0..MaxTime] /\ clock \in 0..MaxTime
      /\ windowEnd \in Int
      /\ \A x \in Event : stamp[x] <= clock
      /\ clock <= stamp[e] + MaxDelay
  BY DEF TypeOK
<1>1. e \in Kept(e) /\ Kept(e) \subseteq window \cup {e}
  BY <1>0 DEF Kept
<1>2. IsFiniteSet(Kept(e))
  BY <1>0, <1>1, EventsFinite, FS_Subset
<1>3. \A x \in Kept(e) : stamp[x] <= clock /\ x \in Event /\ stamp[e] - stamp[x] < Window
  BY <1>0 DEF Kept
<1>4. ASSUME DelayBelowWindow, NEW x \in Kept(e), NEW y \in Kept(e)
      PROVE  stamp[x] - stamp[y] < Window
  <2>1. CASE x \in window /\ y \in window
    BY <1>4, <2>1 DEF WindowInv
  <2>2. CASE x = e
    BY <1>3, <1>4, <2>2
  <2>3. CASE y = e
    <3>1. stamp[x] \in Int /\ stamp[x] <= clock /\ MaxDelay < Window
      BY <1>0, <1>3, <1>4 DEF DelayBelowWindow
    <3>. QED
      BY <2>3, <1>0, <3>1
  <2>. QED
    BY <1>1, <2>1, <2>2, <2>3
<1>5. clock >= windowEnd => Kept(e) = {e}
  BY <1>0 DEF Kept
<1>. QED
  BY <1>1, <1>2, <1>3, <1>4, <1>5

\* Members the script drops are over, as are all when the key has expired.
LEMMA DroppedIsOver ==
    ASSUME IInv, NEW e \in Event, pc[e] = "sent", NEW x \in window, x \notin Kept(e)
    PROVE  stamp[x] + Window <= clock
<1>. USE Bounds
<1>1. /\ stamp[x] + Window <= windowEnd /\ stamp[e] <= clock
      /\ stamp[x] \in Int /\ stamp[e] \in Int /\ clock \in Int /\ windowEnd \in Int
  BY DEF IInv, TypeOK, WindowInv
<1>. QED
  BY <1>1 DEF Kept

\* What every run of the script that records does to the window.
LEMMA InvRecord ==
    ASSUME IInv, NEW e \in Event, Record(e), NEW place \in {"allowed", "refused"}, Goto(e, place),
           blockEnd' \in 0..MaxTime + Block, culprits' \subseteq culprits \cup Kept(e)
    PROVE  /\ TypeOK' /\ WindowInv' /\ Remembered'
           /\ \A x \in Sent : x \in Sent' /\ stamp'[x] = stamp[x]
           /\ pc'[e] = place /\ \A x \in Event \ {e} : pc'[x] = pc[x]
<1>. USE Bounds
<1>1. /\ pc[e] = "sent" /\ window' = Kept(e) /\ windowEnd' = clock + Window
      /\ UNCHANGED <<clock, stamp>> /\ ~Blocked
  BY DEF Record
<1>2. /\ e \in Kept(e) /\ Kept(e) \subseteq window \cup {e}
      /\ DelayBelowWindow => \A x, y \in Kept(e) : stamp[x] - stamp[y] < Window
      /\ \A x \in Kept(e) : stamp[x] <= clock /\ x \in Event
  BY <1>1, KeptIsRecent
<1>3. /\ pc' \in [Event -> Place]
      /\ pc'[e] = place /\ \A x \in Event \ {e} : pc'[x] = pc[x]
  BY DEF IInv, TypeOK, Goto, Place
<1>4. TypeOK'
  BY <1>1, <1>2, <1>3 DEF IInv, TypeOK
<1>5. WindowInv'
  <2>1. \A x \in window' \cup culprits' : Done(x)'
    BY <1>1, <1>2, <1>3 DEF IInv, TypeOK, WindowInv, Done
  <2>2. \A x \in Kept(e) : stamp[x] \in Int /\ clock \in Int
    BY <1>2 DEF IInv, TypeOK
  <2>3. \A x \in window' : stamp'[x] + Window <= windowEnd'
    BY <1>1, <1>2, <2>2
  <2>. QED
    BY <1>1, <1>2, <2>1, <2>3 DEF WindowInv
<1>6. Remembered'
  <2>. SUFFICES ASSUME NEW x \in Event, pc'[x] = "allowed", x \notin Kept(e)
                PROVE  stamp[x] + Window <= clock
    BY <1>1 DEF Remembered
  <2>1. pc[x] = "allowed"
    BY <1>2, <1>3
  <2>2. CASE x \in window
    BY <1>1, <2>2, DroppedIsOver
  <2>3. CASE x \notin window
    BY <2>1, <2>3 DEF IInv, Remembered
  <2>. QED
    BY <2>2, <2>3
<1>7. \A x \in Sent : x \in Sent' /\ stamp'[x] = stamp[x]
  BY <1>1, <1>3 DEF Sent
<1>. QED
  BY <1>3, <1>4, <1>5, <1>6, <1>7

\* A window that still holds culprits has run out when the block has.
LEMMA NoCulpritKept ==
    ASSUME BlockOutlivesWindow, IInv, NEW e \in Event, pc[e] = "sent", ~Blocked
    PROVE  \A x \in Kept(e) : x \notin culprits
<1>. USE Bounds
<1>1. e \notin culprits
  BY DEF IInv, WindowInv, Done
<1>2. Kept(e) \subseteq window \cup {e} /\ (clock >= windowEnd => Kept(e) = {e})
  BY KeptIsRecent
<1>3. clock >= blockEnd /\ clock \in Int /\ blockEnd \in Int /\ windowEnd \in Int
  BY DEF IInv, TypeOK, Blocked
<1>4. CASE \E x \in window : x \in culprits
  <2>1. clock >= windowEnd
    BY <1>3, <1>4 DEF IInv, CulpritsLeave
  <2>. QED
    BY <1>1, <1>2, <2>1
<1>5. CASE ~\E x \in window : x \in culprits
  BY <1>1, <1>2, <1>5
<1>. QED
  BY <1>4, <1>5

LEMMA InvScriptAllows ==
    ASSUME IInv, NEW e \in Event, ScriptAllows(e)
    PROVE  IInv'
<1>. USE Bounds
<1>1. /\ Record(e) /\ Goto(e, "allowed") /\ UNCHANGED <<blockEnd, culprits>>
      /\ pc[e] = "sent" /\ ~Blocked /\ window' = Kept(e) /\ UNCHANGED <<clock, stamp>>
      /\ Cardinality(Kept(e)) <= MaxEvents
      /\ blockEnd' \in 0..MaxTime + Block
  BY DEF ScriptAllows, Record, IInv, TypeOK
<1>2. /\ TypeOK' /\ WindowInv' /\ Remembered'
      /\ \A x \in Sent : x \in Sent' /\ stamp'[x] = stamp[x]
      /\ pc'[e] = "allowed" /\ \A x \in Event \ {e} : pc'[x] = pc[x]
  BY <1>1, InvRecord
<1>3. CulpritsLeave'
  BY <1>1, NoCulpritKept DEF CulpritsLeave
<1>4. BlockedAfterBurst'
  BY <1>1, <1>2, BurstStays DEF IInv, BlockedAfterBurst
<1>5. BurstCapped'
  <2>. SUFFICES ASSUME NEW a \in -1..MaxTime PROVE Cardinality(AllowedIn(a)') <= MaxEvents
    BY DEF BurstCapped, AllowedIn
  <2>1. Cardinality(AllowedIn(a)) <= MaxEvents
    BY DEF IInv, BurstCapped, AllowedIn
  <2>2. CASE ~Within(a, Window - MaxDelay, e)
    <3>1. AllowedIn(a)' = AllowedIn(a)
      BY <1>1, <1>2, <2>2 DEF AllowedIn, Within
    <3>. QED
      BY <2>1, <3>1
  <2>3. CASE Within(a, Window - MaxDelay, e)
    <3>1. ASSUME NEW x \in AllowedIn(a)' PROVE x \in Kept(e)
      <4>1. CASE x = e
        BY <1>1, <4>1, KeptIsRecent
      <4>2. CASE x # e
        <5>1. x \in Event /\ pc[x] = "allowed" /\ Within(a, Window - MaxDelay, x)
          BY <1>1, <1>2, <3>1, <4>2 DEF AllowedIn, Within
        <5>2. /\ stamp[x] \in Int /\ stamp[e] \in Int /\ clock \in Int
              /\ clock <= stamp[e] + MaxDelay /\ stamp[e] <= clock
          BY <1>1, <5>1 DEF IInv, TypeOK
        <5>3. ~(stamp[x] + Window <= clock)
          BY <2>3, <5>1, <5>2 DEF Within
        <5>4. x \in window
          BY <5>1, <5>3 DEF IInv, Remembered
        <5>. QED
          BY <1>1, <5>3, <5>4, DroppedIsOver
      <4>. QED
        BY <4>1, <4>2
    <3>2. IsFiniteSet(Kept(e))
      BY <1>1, KeptIsRecent
    <3>3. AllowedIn(a)' \in SUBSET Kept(e)
      BY <3>1
    <3>4. /\ Cardinality(AllowedIn(a)') <= Cardinality(Kept(e))
          /\ IsFiniteSet(AllowedIn(a)')
      BY <3>2, <3>3, FS_Subset
    <3>5. Cardinality(AllowedIn(a)') \in Nat /\ Cardinality(Kept(e)) \in Nat
      BY <3>2, <3>4, FS_CardinalityType
    <3>. QED
      BY <1>1, <3>4, <3>5
  <2>. QED
    BY <2>2, <2>3
<1>. QED
  BY <1>2, <1>3, <1>4, <1>5 DEF IInv

LEMMA InvScriptBlocks ==
    ASSUME IInv, NEW e \in Event, ScriptBlocks(e)
    PROVE  IInv'
<1>. USE Bounds
<1>1. /\ Record(e) /\ Goto(e, "refused")
      /\ blockEnd' = clock + Block /\ culprits' = culprits \cup Kept(e)
      /\ pc[e] = "sent" /\ window' = Kept(e) /\ windowEnd' = clock + Window
      /\ UNCHANGED <<clock, stamp>>
      /\ Cardinality(Kept(e)) > MaxEvents
  BY DEF ScriptBlocks, Record
<1>2. blockEnd' \in 0..MaxTime + Block /\ clock \in Nat
  BY <1>1 DEF IInv, TypeOK
<1>3. /\ TypeOK' /\ WindowInv' /\ Remembered'
      /\ \A x \in Sent : x \in Sent' /\ stamp'[x] = stamp[x]
      /\ pc'[e] = "refused" /\ \A x \in Event \ {e} : pc'[x] = pc[x]
  BY <1>1, <1>2, InvRecord
<1>4. CulpritsLeave'
  BY <1>1, <1>2 DEF CulpritsLeave, BlockOutlivesWindow
<1>5. BlockedAfterBurst'
  <2>. SUFFICES ASSUME DelayBelowWindow PROVE BlockedAfterBurst'
    BY DEF BlockedAfterBurst
  <2>. DEFINE B == Kept(e)
  <2>1. \A x \in B : x \in window \cup {e} /\ x \in Event
    BY <1>1, KeptIsRecent
  <2>2. \A x \in B : x \in Sent'
    BY <1>1, <1>3, <2>1 DEF IInv, WindowInv, Done, Sent
  <2>3. \A x, y \in B : stamp'[x] - stamp'[y] < Window
    BY <1>1, KeptIsRecent
  <2>4. Cardinality(B) > MaxEvents
    BY <1>1
  <2>. HIDE DEF B
  <2>5. \E C \in SUBSET Sent' : Cardinality(C) > MaxEvents /\ \A x, y \in C : stamp'[x] - stamp'[y] < Window
    BY <2>2, <2>3, <2>4
  <2>. QED
    BY <2>5 DEF BlockedAfterBurst, Burst
<1>6. BurstCapped'
  <2>1. \A a \in -1..MaxTime : AllowedIn(a)' = AllowedIn(a)
    BY <1>1, <1>3 DEF AllowedIn, Within
  <2>. QED
    BY <2>1 DEF IInv, BurstCapped, AllowedIn
<1>. QED
  BY <1>3, <1>4, <1>5, <1>6 DEF IInv

LEMMA InvNext == ASSUME IInv, [Next]_vars PROVE IInv'
<1>1. ASSUME NEW e \in Event, PreCheck(e) \/ TakeTime(e) \/ ScriptBlocked(e) PROVE IInv'
  BY <1>1, InvOutside
<1>2. ASSUME NEW e \in Event, ScriptAllows(e) \/ ScriptBlocks(e) PROVE IInv'
  BY <1>2, InvScriptAllows, InvScriptBlocks
<1>3. CASE Tick
  BY <1>3, InvTick
<1>4. CASE UNCHANGED vars
  <2>. USE <1>4 DEF vars, redisVars, IInv
  <2>1. TypeOK' /\ WindowInv' /\ Remembered' /\ CulpritsLeave'
    BY DEF TypeOK, WindowInv, Done, Remembered, CulpritsLeave
  <2>2. BlockedAfterBurst' /\ BurstCapped'
    BY DEF BlockedAfterBurst, Burst, Sent, BurstCapped, Within
  <2>. QED
    BY <2>1, <2>2
<1>. QED
  BY <1>1, <1>2, <1>3, <1>4 DEF Next

\* The inductive invariant holds.
THEOREM InvHolds == Spec => []IInv
BY InvInit, InvNext, PTL DEF Spec

-----------------------------------------------------------------------------
\* Every key and local stays in its domain, and a message reaches the script
\* within a round trip.
THEOREM TypeCorrect == Spec => []TypeOK
<1>1. IInv => TypeOK
  BY DEF IInv
<1>. QED
  BY <1>1, InvHolds, PTL

\* In any stretch of Window - MaxDelay at most MaxEvents messages pass, for any
\* delay and any block.
THEOREM BurstsAreCapped == Spec => []BurstCapped
<1>1. IInv => BurstCapped
  BY DEF IInv
<1>. QED
  BY <1>1, InvHolds, PTL

\* Nobody is refused who has not sent more than MaxEvents within a Window, if a
\* round trip takes less than a Window.
THEOREM PatientPass ==
  ASSUME DelayBelowWindow
  PROVE  Spec => []RefusedOnlyAfterBurst
<1>1. IInv => RefusedOnlyAfterBurst
  BY DEF IInv, BlockedAfterBurst, RefusedOnlyAfterBurst
<1>. QED
  BY <1>1, InvHolds, PTL

\* No message counts towards two blocks, if a block is not shorter than a Window.
THEOREM BlocksAreEarned ==
  ASSUME BlockOutlivesWindow
  PROVE  Spec => BlockEarned
<1>1. ASSUME IInv, [Next]_vars, blockEnd' # blockEnd
      PROVE  Cardinality(window' \ culprits) > MaxEvents
  <2>1. PICK e \in Event : ScriptBlocks(e)
    BY <1>1 DEF Next, vars, redisVars, PreCheck, TakeTime, ScriptBlocked, ScriptAllows, Tick
  <2>2. /\ pc[e] = "sent" /\ ~Blocked /\ window' = Kept(e)
        /\ Cardinality(Kept(e)) > MaxEvents
    BY <2>1 DEF ScriptBlocks, Record
  <2>3. Kept(e) \ culprits = Kept(e)
    BY <1>1, <2>2, NoCulpritKept
  <2>. QED
    BY <2>2, <2>3
<1>. QED
  BY <1>1, InvHolds, PTL DEF Spec, BlockEarned

=============================================================================
