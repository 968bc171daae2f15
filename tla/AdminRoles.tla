----------------------------- MODULE AdminRoles -----------------------------
(***************************************************************************)
(* Who may command whom: roles in the users table with a copy in Redis     *)
(* (app/admin/authorization.py), the filters in front of the admin         *)
(* commands (app/admin/filters.py), the commands that act on a user by     *)
(* role (app/admin/handlers.py, user_manager.py), and the superadmins      *)
(* seeded from the environment at every start.                             *)
(*                                                                         *)
(* Every command is a task, cut at its awaits.  It asks get_role about its *)
(* actor, and for a change of role about its target, and get_role answers  *)
(* from the cache or fills it.  What a punishment does to the user's       *)
(* status is in module AccessGate; here it matters who gets it from whom.  *)
(* Every user has a row: the refusal of a target that has none, and the    *)
(* placeholder row seed_superadmins makes, are left out.                   *)
(***************************************************************************)
EXTENDS Integers

CONSTANTS
    Task,       \* commands in flight at one time
    User,
    NoUser,     \* what the locals of an idle task name
    NoRole,     \* no entry in the cache
    MaxStarts,  \* bound on starts of the process
    MaxFaults   \* bound on lost invalidations and failing calls to Telegram

ASSUME RoleBounds == MaxStarts \in Nat /\ MaxFaults \in Nat
ASSUME NoUserIsNone == NoUser \notin User
ASSUME NoRoleIsNone == NoRole \notin {"user", "admin", "superadmin"}

VARIABLES
    role,       \* users.role
    cache,      \* auth:role:{id}
    chat,       \* users banned in the group chat, as Telegram knows it
    pc,         \* task -> where it stands
    command,    \* task -> what its admin asked for
    actor,      \* task -> who asked
    target,     \* task -> of whom
    stage,      \* task -> what its get_role is for
    loaded,     \* task -> the role get_role read from the database
    outdated,   \* history: tasks whose loaded role has been written over since
    spoiled,    \* history: users whose entry survived its invalidation or was filled outdated
    doubtful,   \* history: tasks overtaken by a role change, or answered by a stale entry
    stranded,   \* history: users whose kick failed half way
    starts,
    faults

historyVars == <<outdated, spoiled, doubtful, stranded>>
localVars == <<command, actor, target>>
vars == <<role, cache, chat, pc, localVars, stage, loaded, historyVars, starts, faults>>

Role == {"user", "admin", "superadmin"}
Admins == {"admin", "superadmin"}
Command == {"punish", "kick", "grant", "revoke"}
Stage == {"filter", "manager", "change"}
Label == {"idle", "get", "fill", "target", "punish", "banInChat", "unbanInChat",
          "write", "invalidate"}

Init ==
    /\ role = [u \in User |-> "user"]
    /\ cache = [u \in User |-> NoRole]
    /\ chat = {}
    /\ pc = [t \in Task |-> "idle"]
    /\ command = [t \in Task |-> "punish"]
    /\ actor = [t \in Task |-> NoUser]
    /\ target = [t \in Task |-> NoUser]
    /\ stage = [t \in Task |-> "filter"]
    /\ loaded = [t \in Task |-> NoRole]
    /\ outdated = {}
    /\ spoiled = {}
    /\ doubtful = {}
    /\ stranded = {}
    /\ starts = 0
    /\ faults = 0

Local(f, t, label, none) == [f EXCEPT ![t] = IF label = "idle" THEN none ELSE @]

\* The task goes on to label; at idle it is over and its locals are gone.
Goto(t, label) ==
    /\ pc' = [pc EXCEPT ![t] = label]
    /\ command' = Local(command, t, label, "punish")
    /\ actor' = Local(actor, t, label, NoUser)
    /\ target' = Local(target, t, label, NoUser)
    /\ stage' = [stage EXCEPT ![t] = IF label = "fill" THEN @ ELSE "filter"]

AskRole(t, purpose) ==
    /\ pc' = [pc EXCEPT ![t] = "get"]
    /\ stage' = [stage EXCEPT ![t] = purpose]
    /\ UNCHANGED localVars

\* Whose role the task asks about.
Subject(t) == IF stage[t] = "change" THEN target[t] ELSE actor[t]

\* The entry of u is about to be dropped, or should have been.
InDoubt(u) == u \in spoiled \/ \E t \in Task : pc[t] = "invalidate" /\ target[t] = u

-----------------------------------------------------------------------------
(* Filters and get_role *)

Receive(t, c, a, x) ==
    /\ starts > 0
    /\ pc[t] = "idle"
    /\ pc' = [pc EXCEPT ![t] = "get"]
    /\ stage' = [stage EXCEPT ![t] = "filter"]
    /\ command' = [command EXCEPT ![t] = c]
    /\ actor' = [actor EXCEPT ![t] = a]
    /\ target' = [target EXCEPT ![t] = x]
    /\ UNCHANGED <<role, cache, chat, loaded, historyVars, starts, faults>>

MayCommand(t, r) == r = "superadmin" \/ (r = "admin" /\ command[t] \in {"punish", "kick"})

\* MUTANT: only plain admins are left alone by a grant.
GrantSparesAdminsOnly(t, r) == IF command[t] = "grant" THEN r # "admin" ELSE r = "admin"

\* Authorization's grant_admin and revoke_admin: a no-op otherwise.
MayChange(t, r) == r = IF command[t] = "grant" THEN "user" ELSE "admin"

\* get_role has answered r: IsAdminFilter or IsSuperadminFilter, the second
\* look of grant_admin and revoke_admin at their actor, and their look at the
\* role they are to change.
Resume(t, r) ==
    \/ /\ stage[t] = "change"
       /\ Goto(t, IF MayChange(t, r) THEN "write" ELSE "idle")
    \/ /\ stage[t] # "change"
       /\ ~MayCommand(t, r)
       /\ Goto(t, "idle")
    \/ /\ stage[t] = "filter"
       /\ MayCommand(t, r)
       /\ IF command[t] \in {"grant", "revoke"} THEN AskRole(t, "manager") ELSE Goto(t, "target")
    \/ /\ stage[t] = "manager"
       /\ MayCommand(t, r)
       /\ Goto(t, "target")

Remember(t, d) == doubtful' = IF pc'[t] = "idle" THEN doubtful \ {t} ELSE doubtful \cup d

Cached(t) ==
    /\ pc[t] = "get"
    /\ cache[Subject(t)] # NoRole
    /\ Resume(t, cache[Subject(t)])
    /\ Remember(t, IF InDoubt(Subject(t)) THEN {t} ELSE {})
    /\ UNCHANGED <<role, cache, chat, loaded, outdated, spoiled, stranded, starts, faults>>

\* No entry, or Redis does not answer: the row is read.
LoadRole(t) ==
    /\ pc[t] = "get"
    /\ loaded' = [loaded EXCEPT ![t] = role[Subject(t)]]
    /\ Goto(t, "fill")
    /\ UNCHANGED <<role, cache, chat, historyVars, starts, faults>>

\* What was read goes into the cache, whatever the row says by now.
FillCache(t) ==
    /\ pc[t] = "fill"
    /\ cache' = [cache EXCEPT ![Subject(t)] = loaded[t]]
    /\ spoiled' = IF t \in outdated THEN spoiled \cup {Subject(t)} ELSE spoiled \ {Subject(t)}
    /\ Resume(t, loaded[t])
    /\ loaded' = [loaded EXCEPT ![t] = NoRole]
    /\ outdated' = outdated \ {t}
    /\ Remember(t, {})
    /\ UNCHANGED <<role, chat, stranded, starts, faults>>

\* Redis does not take it; the task goes on with what it read.
FillFails(t) ==
    /\ pc[t] = "fill"
    /\ Resume(t, loaded[t])
    /\ loaded' = [loaded EXCEPT ![t] = NoRole]
    /\ outdated' = outdated \ {t}
    /\ Remember(t, {})
    /\ UNCHANGED <<role, cache, chat, spoiled, stranded, starts, faults>>

-----------------------------------------------------------------------------
(* The commands *)

\* MUTANT: only superadmins are spared.
SparedIfSuper(t) == role[target[t]] = "superadmin"

\* The target's row: who punishes spares admins, who revokes superadmins.
Spared(t) ==
    \/ command[t] \in {"punish", "kick"} /\ role[target[t]] \in Admins
    \/ command[t] = "revoke" /\ role[target[t]] = "superadmin"

TargetSpared(t) ==
    /\ pc[t] = "target"
    /\ Spared(t)
    /\ Goto(t, "idle")
    /\ doubtful' = doubtful \ {t}
    /\ UNCHANGED <<role, cache, chat, loaded, outdated, spoiled, stranded, starts, faults>>

TargetFound(t) ==
    /\ pc[t] = "target"
    /\ ~Spared(t)
    /\ CASE command[t] = "punish" -> Goto(t, "punish")
         [] command[t] = "kick"   -> Goto(t, "banInChat")
         [] OTHER                 -> AskRole(t, "change")
    /\ UNCHANGED <<role, cache, chat, loaded, historyVars, starts, faults>>

\* ban: set_status, then the role's entry is dropped as well.
Ban(t) ==
    /\ pc[t] = "punish"
    /\ Goto(t, "invalidate")
    /\ UNCHANGED <<role, cache, chat, loaded, historyVars, starts, faults>>

\* mute: set_status alone.
Mute(t) ==
    /\ pc[t] = "punish"
    /\ Goto(t, "idle")
    /\ doubtful' = doubtful \ {t}
    /\ UNCHANGED <<role, cache, chat, loaded, outdated, spoiled, stranded, starts, faults>>

\* MUTANT: the ban is not undone.
BanInChatForGood(t) ==
    /\ pc[t] = "banInChat"
    /\ chat' = chat \cup {target[t]}
    /\ Goto(t, "idle")
    /\ doubtful' = doubtful \ {t}
    /\ UNCHANGED <<role, cache, loaded, outdated, spoiled, stranded, starts, faults>>

\* kick: a ban at once undone.
BanInChat(t) ==
    /\ pc[t] = "banInChat"
    /\ chat' = chat \cup {target[t]}
    /\ Goto(t, "unbanInChat")
    /\ UNCHANGED <<role, cache, loaded, historyVars, starts, faults>>

UnbanInChat(t) ==
    /\ pc[t] = "unbanInChat"
    /\ chat' = chat \ {target[t]}
    /\ stranded' = stranded \ {target[t]}
    /\ Goto(t, "idle")
    /\ doubtful' = doubtful \ {t}
    /\ UNCHANGED <<role, cache, loaded, outdated, spoiled, starts, faults>>

\* An error or a timeout of either call, which Telegram may have obeyed: the
\* admin is told that the kick failed, and the ban may stand.
KickFails(t) ==
    /\ pc[t] \in {"banInChat", "unbanInChat"}
    /\ faults < MaxFaults
    /\ faults' = faults + 1
    /\ chat' \in {chat, IF pc[t] = "banInChat" THEN chat \cup {target[t]} ELSE chat \ {target[t]}}
    /\ stranded' = stranded \cup {target[t]}
    /\ Goto(t, "idle")
    /\ doubtful' = doubtful \ {t}
    /\ UNCHANGED <<role, cache, loaded, outdated, spoiled, starts>>

\* set_role, by the primary key alone.
WriteRole(t) ==
    /\ pc[t] = "write"
    /\ role' = [role EXCEPT ![target[t]] = IF command[t] = "grant" THEN "admin" ELSE "user"]
    /\ outdated' = outdated \cup {s \in Task : pc[s] = "fill" /\ Subject(s) = target[t]}
    /\ doubtful' = doubtful \cup {s \in Task \ {t} : pc[s] # "idle" /\ target[t] \in {actor[s], target[s]}}
    /\ Goto(t, "invalidate")
    /\ UNCHANGED <<cache, chat, loaded, spoiled, stranded, starts, faults>>

Invalidate(t) ==
    /\ pc[t] = "invalidate"
    /\ cache' = [cache EXCEPT ![target[t]] = NoRole]
    /\ spoiled' = spoiled \ {target[t]}
    /\ Goto(t, "idle")
    /\ doubtful' = doubtful \ {t}
    /\ UNCHANGED <<role, chat, loaded, outdated, stranded, starts, faults>>

\* Redis does not answer: only logged.
InvalidateFails(t) ==
    /\ pc[t] = "invalidate"
    /\ faults < MaxFaults
    /\ faults' = faults + 1
    /\ spoiled' = spoiled \cup {target[t]}
    /\ Goto(t, "idle")
    /\ doubtful' = doubtful \ {t}
    /\ UNCHANGED <<role, cache, chat, loaded, outdated, stranded, starts>>

CacheExpires(u) ==
    /\ cache[u] # NoRole
    /\ cache' = [cache EXCEPT ![u] = NoRole]
    /\ spoiled' = spoiled \ {u}
    /\ UNCHANGED <<role, chat, pc, localVars, stage, loaded, outdated, doubtful, stranded,
                   starts, faults>>

-----------------------------------------------------------------------------
(* A start, after a crash or a shutdown *)

\* No task of the former process is left; an invalidation it owed is lost.
StartAfresh ==
    /\ starts < MaxStarts
    /\ starts' = starts + 1
    /\ pc' = [t \in Task |-> "idle"]
    /\ command' = [t \in Task |-> "punish"]
    /\ actor' = [t \in Task |-> NoUser]
    /\ target' = [t \in Task |-> NoUser]
    /\ stage' = [t \in Task |-> "filter"]
    /\ loaded' = [t \in Task |-> NoRole]
    /\ outdated' = {}
    /\ doubtful' = {}
    /\ stranded' = stranded \cup {target[t] : t \in {s \in Task : pc[s] = "unbanInChat"}}

Owed == {target[t] : t \in {s \in Task : pc[s] = "invalidate"}}

\* MUTANT: the seeded users keep the entries they had.
SeedWithoutInvalidating(env) ==
    /\ StartAfresh
    /\ role' = [u \in User |-> IF u \in env THEN "superadmin" ELSE role[u]]
    /\ spoiled' = spoiled \cup Owed
    /\ UNCHANGED <<cache, chat, faults>>

\* seed_superadmins for the ids of the environment, before any update is taken.
Seed(env) ==
    LET promoted == {u \in env : role[u] # "superadmin"}
    IN  /\ StartAfresh
        /\ role' = [u \in User |-> IF u \in env THEN "superadmin" ELSE role[u]]
        /\ cache' = [u \in User |-> IF u \in promoted THEN NoRole ELSE cache[u]]
        /\ spoiled' = (spoiled \cup Owed) \ promoted
        /\ UNCHANGED <<chat, faults>>

\* Redis does not answer, or the process ends between set_role and invalidate.
SeedFails(env) ==
    /\ faults < MaxFaults
    /\ faults' = faults + 1
    /\ StartAfresh
    /\ role' = [u \in User |-> IF u \in env THEN "superadmin" ELSE role[u]]
    /\ spoiled' = spoiled \cup Owed \cup {u \in env : role[u] # "superadmin"}
    /\ UNCHANGED <<cache, chat>>

RoleStep(t) ==
    \/ Cached(t) \/ LoadRole(t) \/ FillCache(t) \/ FillFails(t)
    \/ TargetSpared(t) \/ TargetFound(t) \/ WriteRole(t)
    \/ Invalidate(t) \/ InvalidateFails(t)

PunishStep(t) == Ban(t) \/ Mute(t) \/ BanInChat(t) \/ UnbanInChat(t) \/ KickFails(t)

Next ==
    \/ \E t \in Task, c \in Command, a, x \in User : Receive(t, c, a, x)
    \/ \E t \in Task : RoleStep(t) \/ PunishStep(t)
    \/ \E u \in User : CacheExpires(u)
    \/ \E env \in SUBSET User : Seed(env) \/ SeedFails(env)

Spec == Init /\ [][Next]_vars

-----------------------------------------------------------------------------
\* Every column, entry and local stays in its domain.
TypeOK ==
    /\ role \in [User -> Role]
    /\ cache \in [User -> Role \cup {NoRole}]
    /\ chat \subseteq User
    /\ pc \in [Task -> Label]
    /\ command \in [Task -> Command]
    /\ actor \in [Task -> User \cup {NoUser}]
    /\ target \in [Task -> User \cup {NoUser}]
    /\ \A t \in Task : pc[t] # "idle" => actor[t] \in User /\ target[t] \in User
    /\ stage \in [Task -> Stage]
    /\ loaded \in [Task -> Role \cup {NoRole}]
    /\ \A t \in Task : pc[t] = "fill" => loaded[t] \in Role
    /\ outdated \subseteq Task
    /\ spoiled \subseteq User
    /\ doubtful \subseteq Task
    /\ stranded \subseteq User
    /\ starts \in 0..MaxStarts
    /\ faults \in 0..MaxFaults

\* The cache disagrees with the table only while the change is being made, or
\* after its invalidation was lost, or when a reader filled in what it had
\* read before the change: the doubt lasts until the entry is gone, up to
\* the 60 seconds of its TTL.
StaleOnlyInDoubt == \A u \in User : cache[u] \in {NoRole, role[u]} \/ InDoubt(u)

\* As long as no invalidation is lost, a superadmin stays one, and every
\* change of a role is made by who is a superadmin at that moment, though the
\* check went through the cache and lies several awaits back.
SuperadminsRule ==
    [][faults = 0 =>
        /\ \A u \in User : role[u] = "superadmin" => role'[u] = "superadmin"
        /\ role' # role => \/ starts' # starts
                           \/ \E t \in Task : pc[t] = "write" /\ role[actor[t]] = "superadmin"]_vars

\* An admin punishes a user, and never a user an admin or an admin an admin,
\* unless a change of role has overtaken the command or a stale entry has
\* answered it.
Punishes(t) ==
    \/ pc[t] = "punish" /\ pc'[t] # "punish" /\ starts' = starts
    \/ pc[t] = "banInChat" /\ pc'[t] = "unbanInChat"
AdminsPunishUsers ==
    [][\A t \in Task : Punishes(t) /\ t \notin doubtful =>
        role[actor[t]] \in Admins /\ role[target[t]] = "user"]_vars

\* A kicked user can come back: a ban in the chat stands only while a kick is
\* under way or after one failed, even when several kick the same user.
KickedMayReturn ==
    \A u \in chat : u \in stranded \/ \E t \in Task : pc[t] = "unbanInChat" /\ target[t] = u
=============================================================================
