---------------------------- MODULE Subscriptions ----------------------------
(***************************************************************************)
(* SubscriptionChecker (app/features/subscriptions/checker.py) for one     *)
(* user: a check walks the required channels, asks the positive cache and  *)
(* then Telegram about each, and ends with the set of missing ones.        *)
(*                                                                         *)
(* A check runs inside a task (an update of the user being handled), whose *)
(* place is pc; the callers - the gate, the recheck button and the         *)
(* referral credit - are in module Referrals.  The order of the channels   *)
(* only decides the layout of a keyboard, so a check takes them in any.    *)
(***************************************************************************)
CONSTANTS
    Task,       \* updates of the user in flight at one time
    Channel,    \* required_channels
    NoChannel

ASSUME NoChannelIsNone == NoChannel \notin Channel

VARIABLES
    member,     \* channels the user is a member of, as Telegram knows it
    cached,     \* channels with a positive entry subs:ok:{user}:{channel}
    joined,     \* history: channels the user has ever been a member of
    pc,         \* task -> where it stands
    todo,       \* task -> channels its check has yet to probe
    asking,     \* task -> the channel get_chat_member is asked about
    lacking,    \* task -> channels its check found missing
    skipped     \* task -> channels its check could not verify

telegramVars == <<member, joined>>
checkVars == <<todo, asking, lacking, skipped>>

CheckLabel == {"probe", "getMember"}

CheckInit ==
    /\ member \in SUBSET Channel
    /\ joined = member
    /\ cached = {}
    /\ todo = [t \in Task |-> {}]
    /\ asking = [t \in Task |-> NoChannel]
    /\ lacking = [t \in Task |-> {}]
    /\ skipped = [t \in Task |-> {}]

\* check(): nothing probed, nothing missing yet.
BeginCheck(t) ==
    /\ pc' = [pc EXCEPT ![t] = "probe"]
    /\ todo' = [todo EXCEPT ![t] = Channel]
    /\ lacking' = [lacking EXCEPT ![t] = {}]
    /\ skipped' = [skipped EXCEPT ![t] = {}]
    /\ UNCHANGED asking

Checked(t) == pc[t] = "probe" /\ todo[t] = {}

\* The cache knows the user as subscribed: no question to Telegram.
ProbeCached(t) ==
    /\ pc[t] = "probe"
    /\ \E c \in todo[t] \cap cached : todo' = [todo EXCEPT ![t] = @ \ {c}]
    /\ UNCHANGED <<telegramVars, cached, pc, asking, lacking, skipped>>

ProbeUncached(t) ==
    /\ pc[t] = "probe"
    /\ \E c \in todo[t] \ cached :
        /\ asking' = [asking EXCEPT ![t] = c]
        /\ todo' = [todo EXCEPT ![t] = @ \ {c}]
    /\ pc' = [pc EXCEPT ![t] = "getMember"]
    /\ UNCHANGED <<telegramVars, cached, lacking, skipped>>

Answered(t) ==
    /\ pc' = [pc EXCEPT ![t] = "probe"]
    /\ asking' = [asking EXCEPT ![t] = NoChannel]
    /\ UNCHANGED <<telegramVars, todo>>

\* Cached by what Telegram said.  (SET is a round trip of its own; a later
\* one shows only as an earlier probe or a later leaving.)
AnsweredMember(t) ==
    /\ pc[t] = "getMember"
    /\ asking[t] \in member
    /\ cached' = cached \cup {asking[t]}
    /\ Answered(t)
    /\ UNCHANGED <<lacking, skipped>>

\* MUTANT: an answer that is not a membership ends the probe as if it were.
AnsweredAndForgotten(t) ==
    /\ pc[t] = "getMember"
    /\ asking[t] \notin member
    /\ Answered(t)
    /\ UNCHANGED <<cached, lacking, skipped>>

\* left, kicked and restricted count as not subscribed, and are not cached.
AnsweredMissing(t) ==
    /\ pc[t] = "getMember"
    /\ asking[t] \notin member
    /\ lacking' = [lacking EXCEPT ![t] = @ \cup {asking[t]}]
    /\ Answered(t)
    /\ UNCHANGED <<cached, skipped>>

\* A timeout or an error of Telegram: audited, and the channel is passed over.
Unverifiable(t) ==
    /\ pc[t] = "getMember"
    /\ skipped' = [skipped EXCEPT ![t] = @ \cup {asking[t]}]
    /\ Answered(t)
    /\ UNCHANGED <<cached, lacking>>

\* What a check does as long as Telegram answers.
CheckStep(t) ==
    \/ ProbeCached(t) \/ ProbeUncached(t)
    \/ AnsweredMember(t) \/ AnsweredMissing(t)

\* The user's own doing, in Telegram.
Join(c) ==
    /\ member' = member \cup {c}
    /\ joined' = joined \cup {c}
    /\ UNCHANGED <<cached, pc, checkVars>>

Quit(c) ==
    /\ c \in member
    /\ member' = member \ {c}
    /\ UNCHANGED <<joined, cached, pc, checkVars>>

\* The TTL of an entry, five minutes, is over.
CacheExpires(c) ==
    /\ c \in cached
    /\ cached' = cached \ {c}
    /\ UNCHANGED <<telegramVars, pc, checkVars>>

CheckTypeOK ==
    /\ member \subseteq Channel
    /\ joined \subseteq Channel
    /\ cached \subseteq Channel
    /\ todo \in [Task -> SUBSET Channel]
    /\ asking \in [Task -> Channel \cup {NoChannel}]
    /\ lacking \in [Task -> SUBSET Channel]
    /\ skipped \in [Task -> SUBSET Channel]

=============================================================================
