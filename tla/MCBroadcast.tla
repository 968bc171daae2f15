----------------------------- MODULE MCBroadcast -----------------------------
(***************************************************************************)
(* Broadcast in three scenarios, each with the part of the producers that  *)
(* its questions are about.  The worker does whatever it can in all.       *)
(*                                                                         *)
(* "queue": every dialog of two admins with two presses each, up to five   *)
(* jobs, no faults and no cancels.  All users are known to block the bot,  *)
(* so that a job is short.                                                 *)
(*                                                                         *)
(* "send": two presses of one Yes button are at their push, from which     *)
(* come two jobs at any time; cancels and faults everywhere.               *)
(*                                                                         *)
(* "dialog": one admin and one press, two jobs, one fault anywhere, so also *)
(* in the dialog; no cancels, and all users block the bot.                 *)
(***************************************************************************)
EXTENDS Broadcast, TLC

VARIABLE scenario

OneAdmin == CHOOSE a \in Admin : TRUE
OnePress == CHOOSE p \in Press : TRUE
OneUser == CHOOSE u \in User : TRUE

MCInit ==
    /\ JobsInit
    /\ \/ /\ scenario \in {"queue", "dialog"}
          /\ DialogsInit
          /\ blockedBot = User
       \/ /\ scenario = "send"
          /\ dialog = [a \in Admin |-> IF a = OneAdmin THEN "confirming" ELSE "none"]
          /\ press = [a \in Admin |-> [p \in Press |-> IF a = OneAdmin THEN "push" ELSE "idle"]]
          /\ blockedBot = {}

\* What the producers, Redis and the faults do in a scenario.
Focus ==
    \/ /\ scenario = "queue"
       /\ UNCHANGED <<flag, faults>>
    \/ /\ scenario = "send"
       /\ UNCHANGED dialog
       /\ \A a \in Admin, p \in Press : press'[a][p] # "read"
    \/ /\ scenario = "dialog"
       /\ Cardinality(enqueued') <= 2
       /\ UNCHANGED flag
       /\ \A a \in Admin : dialog'[a] # "none" => a = OneAdmin
       /\ \A a \in Admin, p \in Press : press'[a][p] # "idle" => p = OnePress

\* Job ids are interchangeable: they are used in the order 1, 2, ...  So are
\* the recipients, as long as nothing was sent: the first job takes OneUser
\* before the others.
Canonical ==
    /\ enqueued' = 1..Cardinality(enqueued')
    /\ job = 1 /\ step = "stream" => todo' = {} \/ OneUser \in todo' \/ step' = "idle"
    /\ job = 1 /\ step = "check" /\ OneUser \in todo => target' \in {OneUser, NoUser}

MCNext == Next /\ Focus /\ Canonical /\ UNCHANGED scenario

MCSpec == MCInit /\ [][MCNext]_<<vars, scenario>> /\ WF_vars(WorkerStep)
=============================================================================
