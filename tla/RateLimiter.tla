----------------------------- MODULE RateLimiter -----------------------------
(***************************************************************************)
(* The sliding-window limiter (app/features/antispam/ratelimit.py) and its *)
(* two uses in the antispam middleware, for the messages of one user who   *)
(* has passed the captcha.                                                 *)
(*                                                                         *)
(* Each message is a task.  It reads the block marker, takes the time, and *)
(* sends the time with the Lua script, which Redis runs in one step: so    *)
(* messages may reach the script in another order than their times have.   *)
(* The clock is that of the bot and of Redis: the bot sends times, Redis   *)
(* only counts down TTLs.  A round trip that fails ends the update.        *)
(***************************************************************************)
EXTENDS Integers, FiniteSets

CONSTANTS
    Event,      \* messages
    Window,     \* window_seconds
    MaxEvents,  \* max_events
    Block,      \* block_seconds
    MaxDelay,   \* from taking the time to the script: bound on a round trip
    MaxTime     \* bound on the clock

ASSUME EventsFinite == IsFiniteSet(Event)
ASSUME LimitsPositive == Window \in Nat \ {0} /\ MaxEvents \in Nat \ {0} /\ Block \in Nat \ {0}
ASSUME BoundsNat == MaxDelay \in Nat /\ MaxTime \in Nat

VARIABLES
    clock,
    pc,         \* message -> where it stands
    stamp,      \* message -> now_ms, its score
    window,     \* rl:{id}: the members of the ZSET
    windowEnd,  \* rl:{id}: when its PEXPIRE is over
    blockEnd,   \* rl:block:{id}: when its EX is over
    culprits    \* history: the messages that have counted towards a block

redisVars == <<window, windowEnd, blockEnd, culprits>>
vars == <<clock, pc, stamp, redisVars>>

Place == {"idle", "turnedAway", "checked", "sent", "allowed", "refused"}
Blocked == clock < blockEnd

Init ==
    /\ clock = 0
    /\ pc = [e \in Event |-> "idle"]
    /\ stamp = [e \in Event |-> 0]
    /\ window = {}
    /\ windowEnd = 0
    /\ blockEnd = 0
    /\ culprits = {}

Goto(e, place) == pc' = [pc EXCEPT ![e] = place]

\* is_blocked, the middleware's step (a): nothing is recorded.
PreCheck(e) ==
    /\ pc[e] = "idle"
    /\ Goto(e, IF Blocked THEN "turnedAway" ELSE "checked")
    /\ UNCHANGED <<clock, stamp, redisVars>>

\* check_and_record takes the time before the round trip.
TakeTime(e) ==
    /\ pc[e] = "checked"
    /\ stamp' = [stamp EXCEPT ![e] = clock]
    /\ Goto(e, "sent")
    /\ UNCHANGED <<clock, redisVars>>

\* The script's fast path.
ScriptBlocked(e) ==
    /\ pc[e] = "sent"
    /\ Blocked
    /\ Goto(e, "refused")
    /\ UNCHANGED <<clock, stamp, redisVars>>

\* MUTANT: the member is the time alone, and two of one time are one.
KeptByTime(e) ==
    LET live == IF clock < windowEnd THEN window ELSE {}
    IN  {e} \cup {x \in live : stamp[x] > stamp[e] - Window /\ stamp[x] # stamp[e]}

\* MUTANT: nothing is ever evicted from a key that lives on.
KeptForever(e) == window \cup {e}

\* ZADD, ZREMRANGEBYSCORE: what is in the window as seen from e.
Kept(e) ==
    LET live == IF clock < windowEnd THEN window ELSE {}
    IN  {x \in live \cup {e} : stamp[x] > stamp[e] - Window}

Record(e) ==
    /\ pc[e] = "sent"
    /\ ~Blocked
    /\ window' = Kept(e)
    /\ windowEnd' = clock + Window
    /\ UNCHANGED <<clock, stamp>>

ScriptAllows(e) ==
    /\ Record(e)
    /\ Cardinality(Kept(e)) <= MaxEvents
    /\ Goto(e, "allowed")
    /\ UNCHANGED <<blockEnd, culprits>>

\* MUTANT: the TTL of the block is given in the wrong unit.
ScriptBlocksBriefly(e) ==
    /\ Record(e)
    /\ Cardinality(Kept(e)) > MaxEvents
    /\ blockEnd' = clock + 1
    /\ culprits' = culprits \cup Kept(e)
    /\ Goto(e, "refused")

\* SET NX finds no marker, or the fast path would have been taken.
ScriptBlocks(e) ==
    /\ Record(e)
    /\ Cardinality(Kept(e)) > MaxEvents
    /\ blockEnd' = clock + Block
    /\ culprits' = culprits \cup Kept(e)
    /\ Goto(e, "refused")

\* A round trip does not take longer than MaxDelay.
Tick ==
    /\ clock < MaxTime
    /\ \A e \in Event : pc[e] = "sent" => clock < stamp[e] + MaxDelay
    /\ clock' = clock + 1
    /\ UNCHANGED <<pc, stamp, redisVars>>

Next ==
    \/ \E e \in Event : PreCheck(e) \/ TakeTime(e) \/ ScriptBlocked(e) \/ ScriptAllows(e)
                        \/ ScriptBlocks(e)
    \/ Tick

Spec == Init /\ [][Next]_vars

-----------------------------------------------------------------------------
\* Every key and local stays in its domain, and no message waits for the
\* script longer than a round trip takes.
TypeOK ==
    /\ clock \in 0..MaxTime
    /\ pc \in [Event -> Place]
    /\ stamp \in [Event -> 0..MaxTime]
    /\ window \subseteq Event
    /\ windowEnd \in 0..MaxTime + Window
    /\ blockEnd \in 0..MaxTime + Block
    /\ culprits \subseteq Event
    /\ \A e \in Event : stamp[e] <= clock
    /\ \A e \in Event : pc[e] = "sent" => clock <= stamp[e] + MaxDelay

Sent == {e \in Event : pc[e] \in {"sent", "allowed", "refused"}}
Within(a, width, e) == a < stamp[e] /\ stamp[e] <= a + width

\* However the messages overtake each other on their way to Redis, at most
\* MaxEvents of those sent in a time of Window - MaxDelay reach the handlers:
\* eviction by another message's older or newer time and the expiry of the
\* whole key forget nothing that still counts.
BurstCapped ==
    \A a \in -1..MaxTime :
        Cardinality({e \in Event : pc[e] = "allowed" /\ Within(a, Window - MaxDelay, e)})
            <= MaxEvents

\* Nobody who sends at most MaxEvents messages in any Window is ever refused:
\* no expired, evicted or late member is counted against them, as long as a
\* round trip is shorter than a window.
Burst(B) ==
    /\ Cardinality(B) > MaxEvents
    /\ \A x, y \in B : stamp[x] - stamp[y] < Window
RefusedOnlyAfterBurst ==
    (\E e \in Event : pc[e] \in {"turnedAway", "refused"}) => \E B \in SUBSET Sent : Burst(B)

\* A block is earned anew: more than MaxEvents messages start it, none of
\* which has counted towards an earlier one.  So with any block that is not
\* shorter than the window; the constructor does not ask for that.
BlockEarned ==
    [][blockEnd' # blockEnd => Cardinality(window' \ culprits) > MaxEvents]_vars
=============================================================================
