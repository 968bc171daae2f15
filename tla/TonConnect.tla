---------------------------- MODULE TonConnect ----------------------------
(***************************************************************************)
(* The TON Connect sessions of one user: /connect_wallet and the           *)
(* background task it starts, the wallet's approval, /disconnect_wallet    *)
(* (or the profile's button) and the job ton_session_cleanup.              *)
(*                                                                         *)
(* Everything a user's sessions share is kept per user, not per session:   *)
(* one nonce, one set of SDK keys and one message record in Redis, one     *)
(* entry in the connector's dictionary and one wallet in the row.  Each is *)
(* modelled by the session that wrote it last, the keys by whether there   *)
(* are any.  An action ends at an await of the code, so that sessions,     *)
(* teardowns and the job interleave there.                                 *)
(***************************************************************************)
EXTENDS Naturals

CONSTANTS Session,      \* one /connect_wallet each
          None,
          AskLimit,     \* bound: /disconnect_wallet and button presses
          CrashLimit    \* bound: restarts of the process

ASSUME NoneAssumption == None \notin Session
ASSUME LimitAssumption == AskLimit \in Nat /\ CrashLimit \in Nat

VARIABLES
    wallet,      \* users.ton_address, by the session that bound it
    nonce,       \* tc:nonce:{id}
    keys,        \* whether there are any tc:session:{id}:*
    meta,        \* tc:connect_meta:{id}: the message to mark as expired
    connector,   \* _connectors[id]
    link,        \* the SDK object of a session and the bridge behind it
    stage,       \* where the handler of a session and its task are
    waits,       \* the SDK object the task of a session waits for
    late,        \* the sessions begun more than ten minutes ago
    elder,       \* per session: the others that will be late before it
    teardown,    \* where each caller of disconnect() is
    victim,      \* the connector disconnect() has popped
    overdue,     \* what was late when the cleanup pass began
    asks,
    crashes,
    spent,       \* history: the sessions whose proof was accepted
    ended,       \* history: the others, begun before a disconnect was over
    rivals,      \* history: the sessions begun before the wallet was bound
    crossed      \* history: those another session or a disconnect() crossed

stored == <<wallet, nonce, keys, meta>>
task == <<stage, waits>>
clock == <<elder, late>>
job == <<teardown, victim, overdue>>
history == <<spent, ended, rivals, crossed>>
counts == <<asks, crashes>>
vars == <<stored, connector, link, task, clock, job, counts, history>>

MaybeSession == Session \cup {None}

(* disconnect() has two callers: the user's handlers and the job.          *)
Caller == {"user", "job"}

Stages == {"idle", "read", "nonced", "linking", "linked", "await",
           "wait", "verify", "bind", "leave", "reply", "done", "failed"}

Links == {"none", "open", "approved", "closed"}

(* The awaits of disconnect(), and those of the job around the call.       *)
Teardowns == {"idle", "scan", "check", "pop", "close", "clear", "keys",
              "nonce", "meta", "drop"}

(* Redis and the row name sessions, and whoever waits holds an object.     *)
TypeOK ==
    /\ {wallet, nonce, meta, connector} \subseteq MaybeSession
    /\ keys \in BOOLEAN
    /\ link \in [Session -> Links]
    /\ stage \in [Session -> Stages]
    /\ waits \in [Session -> MaybeSession]
    /\ elder \in [Session -> SUBSET Session]
    /\ late \subseteq Session
    /\ teardown \in [Caller -> Teardowns]
    /\ victim \in [Caller -> MaybeSession]
    /\ overdue \subseteq Session
    /\ asks \in 0..AskLimit
    /\ crashes \in 0..CrashLimit
    /\ spent \subseteq Session
    /\ ended \subseteq Session
    /\ rivals \subseteq Session
    /\ crossed \subseteq Session
    /\ \A s \in Session : stage[s] \in {"wait", "verify", "bind"} => waits[s] \in Session

Init ==
    /\ wallet = None /\ nonce = None /\ keys = FALSE /\ meta = None
    /\ connector = None
    /\ link = [s \in Session |-> "none"]
    /\ stage = [s \in Session |-> "idle"]
    /\ waits = [s \in Session |-> None]
    /\ elder = [s \in Session |-> {}]
    /\ late = {}
    /\ teardown = [a \in Caller |-> "idle"]
    /\ victim = [a \in Caller |-> None]
    /\ overdue = {}
    /\ asks = 0 /\ crashes = 0
    /\ spent = {} /\ ended = {} /\ rivals = {} /\ crossed = {}

Goto(s, there) == stage' = [stage EXCEPT ![s] = there]

(* The clock of a session is read just before its nonce is written.        *)
Begun == {s \in Session : stage[s] \notin {"idle", "read"}}

(* While a handler or a task is still to take a connector out.             *)
LookedAfter == {"linking", "linked", "await", "wait", "verify", "bind", "leave"}

(* The sessions that rely on what the user's sessions share, and whether a *)
(* disconnect() has popped the connector and is still to delete the nonce. *)
Relying == {s \in Session : stage[s] \in {"nonced"} \cup LookedAfter}
Purging == \E a \in Caller : teardown[a] \in {"close", "clear", "keys", "nonce"}

---------------------------------------------------------------------------
(* start_connection and the rest of /connect_wallet.                       *)

Refuse(s) ==
    /\ stage[s] = "idle"
    /\ wallet # None
    /\ Goto(s, "done")
    /\ UNCHANGED <<stored, connector, link, waits, clock, job, counts, history>>

\* MUTANT: /connect_wallet without the check for a wallet.
ReadUserUnchecked(s) ==
    /\ stage[s] = "idle"
    /\ Goto(s, "read")
    /\ UNCHANGED <<stored, connector, link, waits, clock, job, counts, history>>

ReadUser(s) ==
    /\ stage[s] = "idle"
    /\ wallet = None
    /\ Goto(s, "read")
    /\ UNCHANGED <<stored, connector, link, waits, clock, job, counts, history>>

SetNonce(s) ==
    /\ stage[s] = "read"
    /\ Goto(s, "nonced")
    /\ nonce' = s
    /\ elder' = [elder EXCEPT ![s] = Begun \ late]
    /\ crossed' = IF Purging \/ Relying # {}
                    THEN crossed \cup Relying \cup {s} ELSE crossed
    /\ UNCHANGED <<wallet, keys, meta, connector, link, waits, late, job,
                   counts, spent, ended, rivals>>

\* MUTANT: an SDK object that is there already is used again.
PutConnectorOnce(s) ==
    /\ stage[s] = "nonced"
    /\ Goto(s, "linking")
    /\ connector' = IF connector = None THEN s ELSE connector
    /\ UNCHANGED <<stored, link, waits, clock, job, counts, history>>

PutConnector(s) ==
    /\ stage[s] = "nonced"
    /\ Goto(s, "linking")
    /\ connector' = s
    /\ UNCHANGED <<stored, link, waits, clock, job, counts, history>>

(* The SDK opens the bridge and stores the session.                        *)
Link(s) ==
    /\ stage[s] = "linking"
    /\ Goto(s, "linked")
    /\ keys' = TRUE
    /\ link' = [link EXCEPT ![s] = "open"]
    /\ UNCHANGED <<wallet, nonce, meta, connector, waits, clock, job, counts,
                   history>>

(* Redis (also by losing the answer to the SET of the nonce), the bridge   *)
(* or Telegram fails: the handler gives up and leaves everything it has    *)
(* written where it is, "failed" with the SDK object in the dictionary.    *)
StartFails(s) ==
    /\ stage[s] \in {"read", "nonced", "linking", "linked"}
    /\ Goto(s, IF stage[s] \in {"read", "nonced"} THEN "done" ELSE "failed")
    /\ UNCHANGED <<stored, connector, link, waits, clock, job, counts, history>>

(* After the message with the link; a failure to save the record is        *)
(* logged and ignored.                                                     *)
SaveMeta(s) ==
    /\ stage[s] = "linked"
    /\ Goto(s, "await")
    /\ meta' \in {s, meta}
    /\ UNCHANGED <<wallet, nonce, keys, connector, link, waits, clock, job,
                   counts, history>>

---------------------------------------------------------------------------
(* _await_and_reply, the background task of a session.                     *)

NoSession(s) ==
    /\ stage[s] = "await"
    /\ connector = None
    /\ Goto(s, "reply")
    /\ UNCHANGED <<stored, connector, link, waits, clock, job, counts, history>>

TakeConnector(s) ==
    /\ stage[s] = "await"
    /\ connector # None
    /\ Goto(s, "wait")
    /\ waits' = [waits EXCEPT ![s] = connector]
    /\ UNCHANGED <<stored, connector, link, clock, job, counts, history>>

(* The wallet approves in its own time; the SDK stores that.               *)
Approve(c) ==
    /\ link[c] = "open"
    /\ link' = [link EXCEPT ![c] = "approved"]
    /\ keys' = TRUE
    /\ UNCHANGED <<wallet, nonce, meta, connector, task, clock, job, counts,
                   history>>

StopWaiting(s) ==
    /\ Goto(s, "leave")
    /\ waits' = [waits EXCEPT ![s] = None]

(* The wait lasts ten minutes from after the session began.                *)
AwaitTimesOut(s) ==
    /\ stage[s] = "wait"
    /\ s \in late
    /\ StopWaiting(s)
    /\ UNCHANGED <<stored, connector, link, clock, job, counts, history>>

(* The object says connected, and its proof has the right shape, id and    *)
(* age.  From here on the SDK object is not looked at any more.            *)
PresentProof(s) ==
    /\ stage[s] = "wait"
    /\ link[waits[s]] = "approved"
    /\ waits[s] \notin late
    /\ Goto(s, "verify")
    /\ UNCHANGED <<stored, connector, link, waits, clock, job, counts, history>>

(* The proof has the wrong shape, id or age, or Redis fails: the nonce is  *)
(* left as it is.                                                          *)
RejectProof(s) ==
    /\ \/ stage[s] = "wait" /\ link[waits[s]] \in {"approved", "closed"}
       \/ stage[s] = "verify"
    /\ StopWaiting(s)
    /\ UNCHANGED <<stored, connector, link, clock, job, counts, history>>

\* MUTANT: GET, with the deletion left to the expiry.
LookAtNonce(s) ==
    /\ stage[s] = "verify"
    /\ nonce' = nonce

(* GETDEL takes whatever nonce is there.                                   *)
ConsumeNonce(s) ==
    /\ stage[s] = "verify"
    /\ nonce' = None

(* Another nonce, or none, or a bad signature.                             *)
RefuseProof(s) ==
    /\ ConsumeNonce(s)
    /\ StopWaiting(s)
    /\ UNCHANGED <<wallet, keys, meta, connector, link, clock, job,
                   counts, history>>

AcceptProof(s) ==
    /\ ConsumeNonce(s)
    /\ nonce = waits[s]
    /\ Goto(s, "bind")
    /\ spent' = spent \cup {waits[s]}
    /\ UNCHANGED <<wallet, keys, meta, connector, link, waits, clock, job,
                   counts, ended, rivals, crossed>>

(* set_wallet writes whatever the row says by now.                         *)
SetWallet(s) ==
    /\ stage[s] = "bind"
    /\ StopWaiting(s)
    /\ wallet' = waits[s]
    /\ rivals' = {t \in Session : stage[t] # "idle"}
    /\ UNCHANGED <<nonce, keys, meta, connector, link, clock, job,
                   counts, spent, ended, crossed>>

SetWalletFails(s) ==
    /\ stage[s] = "bind"
    /\ StopWaiting(s)
    /\ UNCHANGED <<stored, connector, link, clock, job, counts, history>>

\* MUTANT: an await without the finally.
LeaveItThere(s) ==
    /\ stage[s] = "leave"
    /\ Goto(s, "reply")
    /\ UNCHANGED <<stored, connector, link, waits, clock, job, counts, history>>

(* The finally of await_connection, after the audit entry.                 *)
Leave(s) ==
    /\ stage[s] = "leave"
    /\ Goto(s, "reply")
    /\ connector' = None
    /\ UNCHANGED <<stored, link, waits, clock, job, counts, history>>

(* The user is told, then the record is dropped; a failure is logged.      *)
ReplyAndClearMeta(s) ==
    /\ stage[s] = "reply"
    /\ Goto(s, "done")
    /\ meta' \in {None, meta}
    /\ UNCHANGED <<wallet, nonce, keys, connector, link, waits, clock, job,
                   counts, history>>

---------------------------------------------------------------------------
(* disconnect(), for either caller.                                        *)

TeardownGoto(a, there) == teardown' = [teardown EXCEPT ![a] = there]

(* The handler decides by the row that was loaded with the update.         *)
AskDisconnect ==
    /\ teardown["user"] = "idle"
    /\ wallet # None
    /\ asks < AskLimit
    /\ asks' = asks + 1
    /\ TeardownGoto("user", "pop")
    /\ UNCHANGED <<stored, connector, link, task, clock, victim, overdue, crashes,
                   history>>

PopConnector(a) ==
    /\ teardown[a] = "pop"
    /\ TeardownGoto(a, "close")
    /\ victim' = [victim EXCEPT ![a] = connector]
    /\ connector' = None
    /\ crossed' = crossed \cup Relying
    /\ UNCHANGED <<stored, link, task, clock, overdue, counts, spent, ended,
                   rivals>>

(* The SDK only closes an object that is connected; it removes its keys.   *)
(* Without an object, one restored from the keys does it.  Errors are      *)
(* ignored.                                                                *)
CloseLink(a) ==
    /\ teardown[a] = "close"
    /\ TeardownGoto(a, "clear")
    /\ victim' = [victim EXCEPT ![a] = None]
    /\ link' = IF victim[a] # None /\ link[victim[a]] = "approved"
                 THEN [link EXCEPT ![victim[a]] = "closed"] ELSE link
    /\ keys' \in IF victim[a] = None \/ link[victim[a]] = "approved"
                   THEN {FALSE, keys} ELSE {keys}
    /\ UNCHANGED <<wallet, nonce, meta, connector, task, clock, overdue,
                   counts, history>>

ClearWallet(a) ==
    /\ teardown[a] = "clear"
    /\ TeardownGoto(a, "keys")
    /\ wallet' = None
    /\ rivals' = {}
    /\ UNCHANGED <<nonce, keys, meta, connector, link, task, clock, victim,
                   overdue, counts, spent, ended, crossed>>

(* Where disconnect() returns or raises to: the handler is done, the job   *)
(* goes on to the message.                                                 *)
Return(a) == TeardownGoto(a, IF a = "user" THEN "idle" ELSE "drop")

(* The database or Redis fails: what is left stays.                        *)
TeardownFails(a) ==
    /\ teardown[a] \in {"clear", "keys", "nonce", "meta"}
    /\ Return(a)
    /\ UNCHANGED <<stored, connector, link, task, clock, victim, overdue, counts,
                   history>>

PurgeKeys(a) ==
    /\ teardown[a] = "keys"
    /\ TeardownGoto(a, "nonce")
    /\ keys' = FALSE
    /\ UNCHANGED <<wallet, nonce, meta, connector, link, task, clock, victim,
                   overdue, counts, history>>

\* MUTANT: only the session keys and the record are purged.
LeaveNonce(a) ==
    /\ teardown[a] = "nonce"
    /\ TeardownGoto(a, "meta")
    /\ ended' = ended \cup (Begun \ spent)
    /\ UNCHANGED <<stored, connector, link, task, clock, victim, overdue, counts,
                   spent, rivals, crossed>>

PurgeNonce(a) ==
    /\ teardown[a] = "nonce"
    /\ TeardownGoto(a, "meta")
    /\ nonce' = None
    /\ ended' = ended \cup (Begun \ spent)
    /\ UNCHANGED <<wallet, keys, meta, connector, link, task, clock, victim,
                   overdue, counts, spent, rivals, crossed>>

PurgeMeta(a) ==
    /\ teardown[a] = "meta"
    /\ Return(a)
    /\ meta' = None
    /\ UNCHANGED <<wallet, nonce, keys, connector, link, task, clock, victim,
                   overdue, counts, history>>

---------------------------------------------------------------------------
(* ton_session_cleanup.  The time is read once for all users.              *)

BeginPass ==
    /\ teardown["job"] = "idle"
    /\ meta # None
    /\ TeardownGoto("job", "scan")
    /\ overdue' = late
    /\ UNCHANGED <<stored, connector, link, task, clock, victim, counts, history>>

(* The record of an overdue session is enough; else the job looks for keys. *)
(* It asks for them in both cases, and skips the record if Redis fails.     *)
ReadMeta ==
    /\ teardown["job"] = "scan"
    /\ \E there \in CASE meta = None -> {"idle"}
                      [] meta \in overdue -> {"pop", "idle"}
                      [] OTHER -> {"check"} :
          TeardownGoto("job", there)
    /\ overdue' = {}
    /\ UNCHANGED <<stored, connector, link, task, clock, victim, counts, history>>

(* A failing Redis makes it skip the record.                               *)
CheckKeys ==
    /\ teardown["job"] = "check"
    /\ \E there \in IF ~keys THEN {"pop", "idle"} ELSE {"idle"} :
          TeardownGoto("job", there)
    /\ UNCHANGED <<stored, connector, link, task, clock, victim, overdue, counts,
                   history>>

(* After the message has been marked as expired, or that has failed.       *)
DropMeta ==
    /\ teardown["job"] = "drop"
    /\ TeardownGoto("job", "idle")
    /\ meta' \in {None, meta}
    /\ UNCHANGED <<wallet, nonce, keys, connector, link, task, clock, victim,
                   overdue, counts, history>>

Disconnect(a) ==
    \/ PopConnector(a) \/ CloseLink(a) \/ ClearWallet(a) \/ TeardownFails(a)
    \/ PurgeKeys(a) \/ PurgeNonce(a) \/ PurgeMeta(a)

Cleanup == BeginPass \/ ReadMeta \/ CheckKeys \/ DropMeta

---------------------------------------------------------------------------
(* Time, Redis and restarts.                                               *)

(* Sessions get late in the order in which they began.  The nonce of a     *)
(* session lives for as long as its proof is young enough.                 *)
GetLate(s) ==
    /\ s \in Begun \ late
    /\ elder[s] = {}
    /\ late' = late \cup {s}
    /\ elder' = [t \in Session |-> elder[t] \ {s}]
    /\ nonce' = IF nonce = s THEN None ELSE nonce
    /\ UNCHANGED <<wallet, keys, meta, connector, link, task, job, counts,
                   history>>

(* The keys live for ten minutes from the last write, and every session    *)
(* writes them when it is linked.                                          *)
KeysExpire ==
    /\ keys
    /\ \A s \in Session : link[s] # "none" => s \in late
    /\ keys' = FALSE
    /\ UNCHANGED <<wallet, nonce, meta, connector, link, task, clock, job,
                   counts, history>>

MetaExpires ==
    /\ meta \in late
    /\ meta' = None
    /\ UNCHANGED <<wallet, nonce, keys, connector, link, task, clock, job,
                   counts, history>>

(* A process with nothing in hand may as well not be restarted.            *)
Busy ==
    \/ connector # None \/ overdue # {}
    \/ \E s \in Session : stage[s] \notin {"idle", "done"} \/ link[s] \in {"open", "approved"}
    \/ \E a \in Caller : teardown[a] # "idle"

(* Redis and the row survive; the tasks and the SDK objects do not.        *)
Crash ==
    /\ Busy
    /\ crashes < CrashLimit
    /\ crashes' = crashes + 1
    /\ connector' = None
    /\ stage' = [s \in Session |-> IF stage[s] = "idle" THEN "idle" ELSE "done"]
    /\ link' = [s \in Session |-> IF link[s] = "none" THEN "none" ELSE "closed"]
    /\ teardown' = [a \in Caller |-> "idle"]
    /\ waits' = [s \in Session |-> None]
    /\ victim' = [a \in Caller |-> None]
    /\ overdue' = {}
    /\ UNCHANGED <<stored, clock, asks, history>>

Connect(s) ==
    \/ Refuse(s) \/ ReadUser(s) \/ SetNonce(s) \/ PutConnector(s) \/ Link(s)
    \/ StartFails(s) \/ SaveMeta(s)

Await(s) ==
    \/ NoSession(s) \/ TakeConnector(s) \/ AwaitTimesOut(s) \/ PresentProof(s)
    \/ RejectProof(s) \/ RefuseProof(s) \/ AcceptProof(s)
    \/ SetWallet(s) \/ SetWalletFails(s) \/ Leave(s) \/ ReplyAndClearMeta(s)

Next ==
    \/ \E s \in Session : Connect(s) \/ Await(s) \/ Approve(s) \/ GetLate(s)
    \/ \E a \in Caller : Disconnect(a)
    \/ AskDisconnect
    \/ Cleanup
    \/ KeysExpire \/ MetaExpires
    \/ Crash

Spec == Init /\ [][Next]_vars

---------------------------------------------------------------------------
(* The proof a task accepts is that of the SDK object it waits for.        *)
Accepts(s) == stage[s] = "verify" /\ stage'[s] = "bind"

(* A proof is accepted at most once, though two tasks may wait for one SDK *)
(* object, because the second /connect_wallet replaced the first one's in  *)
(* the dictionary, and see its approval at the same moment: the nonce is   *)
(* read and deleted in one step.                                           *)
ProofCountsOnce == [][\A s \in Session : Accepts(s) => waits[s] \notin spent]_vars

(* After disconnect() has deleted the nonce no session begun before it is  *)
(* accepted, although its SDK object may still listen and its task still   *)
(* wait: disconnect() closes neither one that is not yet approved.         *)
DisconnectEndsSessions ==
    [][\A s \in Session : Accepts(s) => waits[s] \notin ended]_vars

(* A user has one wallet, and /connect_wallet refuses while there is one.  *)
(* set_wallet does not look again: it replaces a wallet only for a session *)
(* that began before that wallet was bound.                                *)
OnlyRivalsReplace ==
    [][wallet # None /\ wallet' # wallet /\ wallet' # None => wallet' \in rivals]_vars

(* An SDK object stays in the dictionary only as long as a handler or a    *)
(* task of its session is still to take it out, or for good if the session *)
(* failed to start: no order in which two sessions replace, take and pop   *)
(* each other's objects leaves one behind.                                 *)
OnlyFailedStartsLeak ==
    connector # None => stage[connector] \in LookedAfter \cup {"failed"}

(* The dictionary, the nonce and the keys belong to the user and not to a  *)
(* session.  A session finds its own all the same, from the message with   *)
(* the link to the end of its wait, unless another one was under way at    *)
(* the same time or a disconnect() ran: no_session, or a proof judged by a *)
(* nonce of others, is never due to what an earlier session, one that      *)
(* failed to start or a restart has left behind.                           *)
UncrossedFindsItsOwn ==
    \A s \in Relying \ crossed :
        /\ stage[s] # "nonced" => connector = s
        /\ stage[s] \in {"wait", "verify", "bind"} => waits[s] = s
        /\ stage[s] \notin {"bind", "leave"} => nonce = s \/ s \in late

JobClearsWallet == teardown["job"] = "clear" /\ teardown'["job"] = "keys"

(* Requirement 3.5, as ton_session_cleanup cites it: the job closes the    *)
(* sessions that the user did not complete in time, and so never takes     *)
(* away a wallet that has been bound.                                      *)
CompletedSessionKept == [][JobClearsWallet => wallet = None]_vars

=============================================================================
