------------------------- MODULE AdminRoles_proofs -------------------------
(***************************************************************************)
(* Proofs about AdminRoles, for any number of commands in flight, users,   *)
(* starts and faults.                                                      *)
(***************************************************************************)
EXTENDS AdminRoles, TLAPS

\* A command to punish that has passed its filter, and one to change a role.
Punishing(t) == pc[t] \in {"target", "punish", "banInChat"} /\ command[t] \in {"punish", "kick"}
Changing(t) ==
    \/ pc[t] \in {"get", "fill"} /\ stage[t] # "filter"
    \/ pc[t] = "target" /\ command[t] \in {"grant", "revoke"}
    \/ pc[t] = "write"

\* What a reader holds is true or outdated, and who is outdated is doubtful.
ReadInv(t) ==
    /\ pc[t] = "fill" => loaded[t] = role[Subject(t)] \/ t \in outdated
    /\ t \in outdated => pc[t] = "fill" /\ t \in doubtful

\* What a command rests on still holds, unless it is doubtful.
VouchInv(t) ==
    /\ t \notin doubtful /\ Punishing(t) => role[actor[t]] \in Admins
    /\ pc[t] \in {"punish", "banInChat"} =>
        command[t] \in {"punish", "kick"} /\ (t \notin doubtful => role[target[t]] = "user")

\* Without faults nobody errs about superadmins, doubtful or not.
SuperInv(t) ==
    /\ Changing(t) => command[t] \in {"grant", "revoke"}
    /\ faults = 0 =>
        /\ Changing(t) => role[actor[t]] = "superadmin"
        /\ pc[t] = "fill" => (loaded[t] = "superadmin" <=> role[Subject(t)] = "superadmin")
        /\ pc[t] = "write" => role[target[t]] # "superadmin"

TaskInv(t) == ReadInv(t) /\ VouchInv(t) /\ SuperInv(t)

SuperCached ==
    faults = 0 =>
        \A u \in User : cache[u] # NoRole => (cache[u] = "superadmin" <=> role[u] = "superadmin")

IInv ==
    /\ TypeOK
    /\ \A t \in Task : TaskInv(t)
    /\ StaleOnlyInDoubt
    /\ SuperCached
    /\ KickedMayReturn

\* A step of t leaves the other tasks alone.
OthersKeep(t) ==
    \A s \in Task \ {t} :
        /\ pc'[s] = pc[s]
        /\ command'[s] = command[s]
        /\ actor'[s] = actor[s]
        /\ target'[s] = target[s]
        /\ stage'[s] = stage[s]
        /\ loaded'[s] = loaded[s]
        /\ s \in outdated' <=> s \in outdated
        /\ s \in doubtful' <=> s \in doubtful

LocalsTyped ==
    /\ pc \in [Task -> Label]
    /\ command \in [Task -> Command]
    /\ actor \in [Task -> User \cup {NoUser}]
    /\ target \in [Task -> User \cup {NoUser}]
    /\ stage \in [Task -> Stage]
    /\ \A t \in Task : pc[t] # "idle" => actor[t] \in User /\ target[t] \in User

-----------------------------------------------------------------------------
LEMMA InvInit == ASSUME Init PROVE IInv
<1>. USE DEF Init
<1>1. TypeOK
  BY RoleBounds DEF TypeOK, Role, Label, Command, Stage
<1>2. \A t \in Task : TaskInv(t)
  BY DEF TaskInv, ReadInv, VouchInv, SuperInv, Punishing, Changing
<1>3. StaleOnlyInDoubt /\ SuperCached /\ KickedMayReturn
  BY DEF StaleOnlyInDoubt, SuperCached, KickedMayReturn
<1>. QED
  BY <1>1, <1>2, <1>3 DEF IInv

\* The invariant of a task that does not move rests on the roles and faults.
LEMMA OtherTasks ==
    ASSUME IInv, NEW t \in Task, OthersKeep(t), role' = role, faults' = 0 => faults = 0
    PROVE  \A s \in Task \ {t} : TaskInv(s)'
BY DEF IInv, OthersKeep, TaskInv, ReadInv, VouchInv, SuperInv, Punishing, Changing, Subject

\* Where a task goes with Goto.
LEMMA GotoMoves ==
    ASSUME TypeOK, NEW t \in Task, NEW label \in Label, Goto(t, label), pc[t] # "idle"
    PROVE  /\ LocalsTyped'
           /\ pc'[t] = label
           /\ label # "idle" => command'[t] = command[t] /\ actor'[t] = actor[t] /\ target'[t] = target[t]
           /\ stage'[t] = IF label = "fill" THEN stage[t] ELSE "filter"
           /\ \A s \in Task \ {t} :
                /\ pc'[s] = pc[s]
                /\ command'[s] = command[s]
                /\ actor'[s] = actor[s]
                /\ target'[s] = target[s]
                /\ stage'[s] = stage[s]
<1>1. /\ pc \in [Task -> Label] /\ command \in [Task -> Command] /\ stage \in [Task -> Stage]
      /\ actor \in [Task -> User \cup {NoUser}] /\ target \in [Task -> User \cup {NoUser}]
      /\ \A s \in Task : pc[s] # "idle" => actor[s] \in User /\ target[s] \in User
  BY DEF TypeOK
<1>2. "punish" \in Command /\ "filter" \in Stage
  BY DEF Command, Stage
<1>. QED
  BY <1>1, <1>2 DEF Goto, Local, LocalsTyped

\* Where a task goes with AskRole.
LEMMA AskRoleMoves ==
    ASSUME TypeOK, NEW t \in Task, NEW purpose \in Stage, AskRole(t, purpose), pc[t] # "idle"
    PROVE  /\ LocalsTyped'
           /\ pc'[t] = "get" /\ stage'[t] = purpose
           /\ command' = command /\ actor' = actor /\ target' = target
           /\ \A s \in Task \ {t} : pc'[s] = pc[s] /\ stage'[s] = stage[s]
<1>1. /\ pc \in [Task -> Label] /\ command \in [Task -> Command] /\ stage \in [Task -> Stage]
      /\ actor \in [Task -> User \cup {NoUser}] /\ target \in [Task -> User \cup {NoUser}]
      /\ \A s \in Task : pc[s] # "idle" => actor[s] \in User /\ target[s] \in User
  BY DEF TypeOK
<1>2. "get" \in Label
  BY DEF Label
<1>. QED
  BY <1>1, <1>2 DEF AskRole, localVars, LocalsTyped

\* Where a task goes with the role it asked for.
LEMMA ResumeMoves ==
    ASSUME TypeOK, NEW t \in Task, NEW r \in Role, Resume(t, r), pc[t] \in {"get", "fill"}
    PROVE  /\ LocalsTyped'
           /\ pc'[t] \in {"idle", "get", "target", "write"}
           /\ pc'[t] # "idle" => command'[t] = command[t] /\ actor'[t] = actor[t] /\ target'[t] = target[t]
           /\ pc'[t] = "get" => /\ stage[t] = "filter" /\ stage'[t] = "manager"
                                /\ command[t] \in {"grant", "revoke"} /\ r = "superadmin"
           /\ pc'[t] = "target" => /\ MayCommand(t, r) /\ stage[t] # "change"
                                   /\ stage[t] = "filter" => command[t] \in {"punish", "kick"}
           /\ pc'[t] = "write" => stage[t] = "change" /\ MayChange(t, r)
           /\ \A s \in Task \ {t} :
                /\ pc'[s] = pc[s]
                /\ command'[s] = command[s]
                /\ actor'[s] = actor[s]
                /\ target'[s] = target[s]
                /\ stage'[s] = stage[s]
<1>1. {"idle", "target", "write"} \subseteq Label /\ "manager" \in Stage
  BY DEF Label, Stage
<1>2. command[t] \in {"punish", "kick", "grant", "revoke"}
  BY DEF TypeOK, Command
<1>3. CASE stage[t] = "change"
  BY <1>1, <1>3, GotoMoves DEF Resume
<1>4. CASE stage[t] # "change" /\ ~MayCommand(t, r) /\ Goto(t, "idle")
  BY <1>1, <1>4, GotoMoves
<1>5. CASE stage[t] = "filter" /\ MayCommand(t, r) /\ command[t] \in {"grant", "revoke"} /\ AskRole(t, "manager")
  <2>1. r = "superadmin"
    BY <1>5 DEF MayCommand
  <2>. QED
    BY <1>1, <1>5, <2>1, AskRoleMoves
<1>6. CASE stage[t] = "filter" /\ MayCommand(t, r) /\ command[t] \notin {"grant", "revoke"} /\ Goto(t, "target")
  BY <1>1, <1>2, <1>6, GotoMoves
<1>7. CASE stage[t] = "manager" /\ MayCommand(t, r) /\ Goto(t, "target")
  BY <1>1, <1>7, GotoMoves
<1>. QED
  BY <1>3, <1>4, <1>5, <1>6, <1>7 DEF Resume

-----------------------------------------------------------------------------
LEMMA InvReceive ==
    ASSUME IInv, NEW t \in Task, NEW c \in Command, NEW a \in User, NEW x \in User, Receive(t, c, a, x)
    PROVE  IInv'
<1>. USE DEF IInv, Receive, historyVars
<1>1. TypeOK'
  BY DEF TypeOK, Label, Stage
<1>2. OthersKeep(t)
  BY DEF OthersKeep, TypeOK
<1>3. TaskInv(t)'
  BY DEF TypeOK, TaskInv, ReadInv, VouchInv, SuperInv, Punishing, Changing
<1>4. StaleOnlyInDoubt' /\ SuperCached' /\ KickedMayReturn'
  BY DEF TypeOK, StaleOnlyInDoubt, InDoubt, SuperCached, KickedMayReturn
<1>. QED
  BY <1>1, <1>2, <1>3, <1>4, OtherTasks

\* What get_role answers from the cache: true, or answered in doubt; and true
\* of superadmins as long as there is no fault.
LEMMA InvCached ==
    ASSUME IInv, NEW t \in Task, Cached(t)
    PROVE  IInv'
<1>. DEFINE u == Subject(t)
            r == cache[u]
<1>1. u \in User /\ r \in Role /\ pc[t] = "get" /\ TypeOK
  BY DEF IInv, TypeOK, Cached, Subject
<1>2. Resume(t, r) /\ t \notin outdated
  BY <1>1 DEF IInv, Cached, TaskInv, ReadInv
<1>3. /\ LocalsTyped'
      /\ pc'[t] \in {"idle", "get", "target", "write"}
      /\ pc'[t] # "idle" => command'[t] = command[t] /\ actor'[t] = actor[t] /\ target'[t] = target[t]
      /\ pc'[t] = "get" => /\ stage[t] = "filter" /\ stage'[t] = "manager"
                           /\ command[t] \in {"grant", "revoke"} /\ r = "superadmin"
      /\ pc'[t] = "target" => /\ MayCommand(t, r) /\ stage[t] # "change"
                              /\ stage[t] = "filter" => command[t] \in {"punish", "kick"}
      /\ pc'[t] = "write" => stage[t] = "change" /\ MayChange(t, r)
      /\ \A s \in Task \ {t} :
           /\ pc'[s] = pc[s]
           /\ command'[s] = command[s]
           /\ actor'[s] = actor[s]
           /\ target'[s] = target[s]
           /\ stage'[s] = stage[s]
  <2>. HIDE DEF u, r
  <2>. QED
    BY <1>1, <1>2, ResumeMoves
<1>4. /\ UNCHANGED <<role, cache, chat, loaded, outdated, spoiled, stranded, starts, faults>>
      /\ doubtful' = IF pc'[t] = "idle" THEN doubtful \ {t}
                     ELSE doubtful \cup (IF InDoubt(u) THEN {t} ELSE {})
  BY DEF Cached, Remember
<1>5. TypeOK'
  BY <1>1, <1>3, <1>4 DEF TypeOK, LocalsTyped
<1>6. OthersKeep(t)
  BY <1>3, <1>4 DEF OthersKeep
<1>7. /\ r = role[u] \/ InDoubt(u)
      /\ faults = 0 => (r = "superadmin" <=> role[u] = "superadmin")
  BY <1>1 DEF IInv, Cached, StaleOnlyInDoubt, SuperCached
<1>8. TaskInv(t)'
  <2>1. ReadInv(t)'
    BY <1>2, <1>3, <1>4 DEF ReadInv
  <2>2. VouchInv(t)'
    <3>1. CASE pc'[t] # "target"
      BY <1>3, <3>1 DEF VouchInv, Punishing
    <3>2. CASE pc'[t] = "target"
      BY <1>3, <1>4, <1>7, <3>2 DEF VouchInv, Punishing, MayCommand, Admins, Subject
    <3>. QED
      BY <3>1, <3>2
  <2>3. SuperInv(t)
    BY DEF IInv, TaskInv
  <2>4. SuperInv(t)'
    <3>1. CASE pc'[t] = "idle"
      BY <3>1 DEF SuperInv, Changing
    <3>2. CASE pc'[t] = "get"
      BY <1>3, <1>4, <1>7, <3>2 DEF SuperInv, Changing, Subject
    <3>3. CASE pc'[t] = "target"
      <4>1. command[t] \in {"grant", "revoke"} => stage[t] = "manager"
        BY <1>1, <1>3, <3>3 DEF TypeOK, Stage
      <4>. QED
        BY <1>1, <1>3, <1>4, <2>3, <3>3, <4>1 DEF SuperInv, Changing
    <3>4. CASE pc'[t] = "write"
      BY <1>1, <1>3, <1>4, <1>7, <2>3, <3>4 DEF SuperInv, Changing, Subject, MayChange
    <3>. QED
      BY <1>3, <3>1, <3>2, <3>3, <3>4
  <2>. QED
    BY <2>1, <2>2, <2>4 DEF TaskInv
<1>9. StaleOnlyInDoubt' /\ SuperCached' /\ KickedMayReturn'
  BY <1>1, <1>3, <1>4 DEF IInv, StaleOnlyInDoubt, InDoubt, SuperCached, KickedMayReturn
<1>. QED
  BY <1>4, <1>5, <1>6, <1>8, <1>9, OtherTasks DEF IInv

LEMMA InvLoadRole ==
    ASSUME IInv, NEW t \in Task, LoadRole(t)
    PROVE  IInv'
<1>1. TypeOK /\ TaskInv(t) /\ pc[t] = "get" /\ Goto(t, "fill") /\ "fill" \in Label /\ Subject(t) \in User
  BY DEF IInv, LoadRole, Label, TypeOK, Subject
<1>2. /\ LocalsTyped'
      /\ pc'[t] = "fill" /\ stage'[t] = stage[t]
      /\ command'[t] = command[t] /\ actor'[t] = actor[t] /\ target'[t] = target[t]
      /\ \A s \in Task \ {t} :
           /\ pc'[s] = pc[s]
           /\ command'[s] = command[s]
           /\ actor'[s] = actor[s]
           /\ target'[s] = target[s]
           /\ stage'[s] = stage[s]
  BY <1>1, GotoMoves
<1>3. UNCHANGED <<role, cache, chat, outdated, spoiled, doubtful, stranded, starts, faults>>
  BY DEF LoadRole, historyVars
<1>4. /\ loaded' \in [Task -> Role \cup {NoRole}]
      /\ loaded'[t] = role[Subject(t)] /\ loaded'[t] \in Role
      /\ \A s \in Task \ {t} : loaded'[s] = loaded[s]
  BY <1>1 DEF LoadRole, TypeOK
<1>5. TypeOK'
  BY <1>1, <1>2, <1>3, <1>4 DEF TypeOK, LocalsTyped
<1>6. OthersKeep(t)
  BY <1>2, <1>3, <1>4 DEF OthersKeep
<1>7. TaskInv(t)'
  BY <1>1, <1>2, <1>3, <1>4 DEF TaskInv, ReadInv, VouchInv, SuperInv, Punishing, Changing, Subject
<1>8. StaleOnlyInDoubt' /\ SuperCached' /\ KickedMayReturn'
  BY <1>1, <1>2, <1>3 DEF IInv, StaleOnlyInDoubt, InDoubt, SuperCached, KickedMayReturn
<1>. QED
  BY <1>3, <1>5, <1>6, <1>7, <1>8, OtherTasks DEF IInv

\* The end of get_role after a read of the row, whatever becomes of the cache.
LEMMA FillMoves ==
    ASSUME IInv, NEW t \in Task, pc[t] = "fill", Resume(t, loaded[t]),
           loaded' = [loaded EXCEPT ![t] = NoRole], outdated' = outdated \ {t}, Remember(t, {}),
           UNCHANGED <<role, chat, stranded, starts, faults>>,
           cache' \in [User -> Role \cup {NoRole}], spoiled' \subseteq User
    PROVE  /\ TypeOK' /\ OthersKeep(t) /\ TaskInv(t)'
           /\ \A s \in Task : pc[s] \in {"invalidate", "unbanInChat"} =>
                                pc'[s] = pc[s] /\ target'[s] = target[s]
<1>. DEFINE r == loaded[t]
<1>1. /\ r \in Role /\ TypeOK /\ TaskInv(t) /\ Subject(t) \in User
      /\ r = role[Subject(t)] \/ t \in doubtful
      /\ faults = 0 => (r = "superadmin" <=> role[Subject(t)] = "superadmin")
  BY DEF IInv, TypeOK, TaskInv, ReadInv, SuperInv, Subject
<1>2. /\ LocalsTyped'
      /\ pc'[t] \in {"idle", "get", "target", "write"}
      /\ pc'[t] # "idle" => command'[t] = command[t] /\ actor'[t] = actor[t] /\ target'[t] = target[t]
      /\ pc'[t] = "get" => /\ stage[t] = "filter" /\ stage'[t] = "manager"
                           /\ command[t] \in {"grant", "revoke"} /\ r = "superadmin"
      /\ pc'[t] = "target" => /\ MayCommand(t, r) /\ stage[t] # "change"
                              /\ stage[t] = "filter" => command[t] \in {"punish", "kick"}
      /\ pc'[t] = "write" => stage[t] = "change" /\ MayChange(t, r)
      /\ \A s \in Task \ {t} :
           /\ pc'[s] = pc[s]
           /\ command'[s] = command[s]
           /\ actor'[s] = actor[s]
           /\ target'[s] = target[s]
           /\ stage'[s] = stage[s]
  BY <1>1, ResumeMoves
<1>3. doubtful' = IF pc'[t] = "idle" THEN doubtful \ {t} ELSE doubtful
  BY DEF Remember
<1>4. TypeOK'
  BY <1>1, <1>2, <1>3 DEF TypeOK, LocalsTyped
<1>5. OthersKeep(t)
  BY <1>1, <1>2, <1>3 DEF OthersKeep, TypeOK
<1>6. ReadInv(t)'
  BY <1>2 DEF ReadInv
<1>7. VouchInv(t)'
  <2>1. CASE pc'[t] # "target"
    BY <1>2, <2>1 DEF VouchInv, Punishing
  <2>2. CASE pc'[t] = "target"
    BY <1>1, <1>2, <1>3, <2>2 DEF VouchInv, Punishing, MayCommand, Admins, Subject
  <2>. QED
    BY <2>1, <2>2
<1>8. SuperInv(t)'
  <2>1. SuperInv(t)
    BY <1>1 DEF TaskInv
  <2>2. CASE pc'[t] = "idle"
    BY <2>2 DEF SuperInv, Changing
  <2>3. CASE pc'[t] = "get"
    BY <1>1, <1>2, <2>3 DEF SuperInv, Changing, Subject
  <2>4. CASE pc'[t] = "target"
    <3>1. command[t] \in {"grant", "revoke"} => stage[t] = "manager"
      BY <1>1, <1>2, <2>4 DEF TypeOK, Stage
    <3>. QED
      BY <1>1, <1>2, <2>1, <2>4, <3>1 DEF SuperInv, Changing
  <2>5. CASE pc'[t] = "write"
    BY <1>1, <1>2, <2>1, <2>5 DEF SuperInv, Changing, Subject, MayChange
  <2>. QED
    BY <1>2, <2>2, <2>3, <2>4, <2>5
<1>. QED
  BY <1>2, <1>4, <1>5, <1>6, <1>7, <1>8 DEF TaskInv

LEMMA InvFillCache ==
    ASSUME IInv, NEW t \in Task, FillCache(t)
    PROVE  IInv'
<1>1. /\ Subject(t) \in User /\ loaded[t] \in Role /\ pc[t] = "fill" /\ NoRole \notin Role
      /\ loaded[t] = role[Subject(t)] \/ t \in outdated
      /\ faults = 0 => (loaded[t] = "superadmin" <=> role[Subject(t)] = "superadmin")
      /\ cache \in [User -> Role \cup {NoRole}]
  BY NoRoleIsNone DEF IInv, TypeOK, FillCache, Subject, TaskInv, ReadInv, SuperInv, Role
<1>2. /\ cache' = [cache EXCEPT ![Subject(t)] = loaded[t]]
      /\ spoiled' = IF t \in outdated THEN spoiled \cup {Subject(t)} ELSE spoiled \ {Subject(t)}
      /\ UNCHANGED <<role, chat, stranded, starts, faults>>
  BY DEF FillCache
<1>3. cache' \in [User -> Role \cup {NoRole}] /\ spoiled' \subseteq User
  BY <1>1, <1>2 DEF IInv, TypeOK
<1>4. /\ TypeOK' /\ OthersKeep(t) /\ TaskInv(t)'
      /\ \A s \in Task : pc[s] \in {"invalidate", "unbanInChat"} =>
                           pc'[s] = pc[s] /\ target'[s] = target[s]
  BY <1>1, <1>2, <1>3, FillMoves DEF FillCache
<1>5. StaleOnlyInDoubt'
  BY <1>1, <1>2, <1>4 DEF IInv, StaleOnlyInDoubt, InDoubt
<1>6. SuperCached' /\ KickedMayReturn'
  BY <1>1, <1>2, <1>4 DEF IInv, SuperCached, KickedMayReturn
<1>. QED
  BY <1>2, <1>4, <1>5, <1>6, OtherTasks DEF IInv

LEMMA InvFillFails ==
    ASSUME IInv, NEW t \in Task, FillFails(t)
    PROVE  IInv'
<1>1. pc[t] = "fill" /\ UNCHANGED <<role, cache, chat, spoiled, stranded, starts, faults>>
  BY DEF FillFails
<1>2. cache' \in [User -> Role \cup {NoRole}] /\ spoiled' \subseteq User
  BY <1>1 DEF IInv, TypeOK
<1>3. /\ TypeOK' /\ OthersKeep(t) /\ TaskInv(t)'
      /\ \A s \in Task : pc[s] \in {"invalidate", "unbanInChat"} =>
                           pc'[s] = pc[s] /\ target'[s] = target[s]
  BY <1>1, <1>2, FillMoves DEF FillFails
<1>4. StaleOnlyInDoubt' /\ SuperCached' /\ KickedMayReturn'
  BY <1>1, <1>3 DEF IInv, StaleOnlyInDoubt, InDoubt, SuperCached, KickedMayReturn
<1>. QED
  BY <1>1, <1>3, <1>4, OtherTasks DEF IInv

\* A command that ends, with its task, whatever it did to the chat or the cache.
LEMMA InvEnd ==
    ASSUME IInv, NEW t \in Task, pc[t] # "idle", pc[t] # "fill", Goto(t, "idle"),
           doubtful' = doubtful \ {t}, faults' \in 0..MaxFaults, faults' = 0 => faults = 0,
           UNCHANGED <<role, loaded, outdated, starts>>,
           cache' \in [User -> Role \cup {NoRole}], chat' \subseteq User,
           spoiled' \subseteq User, stranded' \subseteq User,
           StaleOnlyInDoubt', SuperCached', KickedMayReturn'
    PROVE  IInv'
<1>1. TypeOK /\ TaskInv(t) /\ "idle" \in Label
  BY DEF IInv, Label
<1>2. /\ LocalsTyped'
      /\ pc'[t] = "idle"
      /\ \A s \in Task \ {t} :
           /\ pc'[s] = pc[s]
           /\ command'[s] = command[s]
           /\ actor'[s] = actor[s]
           /\ target'[s] = target[s]
           /\ stage'[s] = stage[s]
  BY <1>1, GotoMoves
<1>3. t \notin outdated
  BY <1>1 DEF TaskInv, ReadInv
<1>4. TypeOK'
  BY <1>1, <1>2 DEF TypeOK, LocalsTyped
<1>5. OthersKeep(t)
  BY <1>2 DEF OthersKeep
<1>6. TaskInv(t)'
  BY <1>2, <1>3 DEF TaskInv, ReadInv, VouchInv, SuperInv, Punishing, Changing
<1>. QED
  BY <1>4, <1>5, <1>6, OtherTasks DEF IInv

\* Where the others stand when one ends.
LEMMA EndMoves ==
    ASSUME TypeOK, NEW t \in Task, pc[t] # "idle", Goto(t, "idle")
    PROVE  pc'[t] = "idle" /\ \A s \in Task \ {t} : pc'[s] = pc[s] /\ target'[s] = target[s]
<1>1. "idle" \in Label
  BY DEF Label
<1>. QED
  BY <1>1, GotoMoves

LEMMA InvTargetSpared ==
    ASSUME IInv, NEW t \in Task, TargetSpared(t)
    PROVE  IInv'
<1>1. TypeOK /\ pc[t] \in Label \ {"idle", "fill"} /\ Goto(t, "idle") /\ target[t] \in User
  BY DEF IInv, TypeOK, TargetSpared, Label
<1>2. pc'[t] = "idle" /\ \A s \in Task \ {t} : pc'[s] = pc[s] /\ target'[s] = target[s]
  BY <1>1, EndMoves
<1>3. StaleOnlyInDoubt'
  BY <1>1, <1>2 DEF IInv, TargetSpared, StaleOnlyInDoubt, InDoubt
<1>4. SuperCached'
  BY <1>1 DEF IInv, TargetSpared, SuperCached, TypeOK
<1>5. KickedMayReturn'
  BY <1>1, <1>2 DEF IInv, TargetSpared, KickedMayReturn
<1>. QED
  BY <1>1, <1>3, <1>4, <1>5, InvEnd DEF IInv, TargetSpared, TypeOK

LEMMA InvMute ==
    ASSUME IInv, NEW t \in Task, Mute(t)
    PROVE  IInv'
<1>1. TypeOK /\ pc[t] \in Label \ {"idle", "fill"} /\ Goto(t, "idle") /\ target[t] \in User
  BY DEF IInv, TypeOK, Mute, Label
<1>2. pc'[t] = "idle" /\ \A s \in Task \ {t} : pc'[s] = pc[s] /\ target'[s] = target[s]
  BY <1>1, EndMoves
<1>3. StaleOnlyInDoubt'
  BY <1>1, <1>2 DEF IInv, Mute, StaleOnlyInDoubt, InDoubt
<1>4. SuperCached'
  BY <1>1 DEF IInv, Mute, SuperCached, TypeOK
<1>5. KickedMayReturn'
  BY <1>1, <1>2 DEF IInv, Mute, KickedMayReturn
<1>. QED
  BY <1>1, <1>3, <1>4, <1>5, InvEnd DEF IInv, Mute, TypeOK

LEMMA InvUnbanInChat ==
    ASSUME IInv, NEW t \in Task, UnbanInChat(t)
    PROVE  IInv'
<1>1. TypeOK /\ pc[t] \in Label \ {"idle", "fill"} /\ Goto(t, "idle") /\ target[t] \in User
  BY DEF IInv, TypeOK, UnbanInChat, Label
<1>2. pc'[t] = "idle" /\ \A s \in Task \ {t} : pc'[s] = pc[s] /\ target'[s] = target[s]
  BY <1>1, EndMoves
<1>3. StaleOnlyInDoubt'
  BY <1>1, <1>2 DEF IInv, UnbanInChat, StaleOnlyInDoubt, InDoubt
<1>4. SuperCached'
  BY <1>1 DEF IInv, UnbanInChat, SuperCached, TypeOK
<1>5. KickedMayReturn'
  BY <1>1, <1>2 DEF IInv, UnbanInChat, KickedMayReturn
<1>. QED
  BY <1>1, <1>3, <1>4, <1>5, InvEnd DEF IInv, UnbanInChat, TypeOK

LEMMA InvKickFails ==
    ASSUME IInv, NEW t \in Task, KickFails(t)
    PROVE  IInv'
<1>1. TypeOK /\ pc[t] \in Label \ {"idle", "fill"} /\ Goto(t, "idle") /\ target[t] \in User
  BY DEF IInv, TypeOK, KickFails, Label
<1>2. pc'[t] = "idle" /\ \A s \in Task \ {t} : pc'[s] = pc[s] /\ target'[s] = target[s]
  BY <1>1, EndMoves
<1>3. StaleOnlyInDoubt'
  BY <1>1, <1>2 DEF IInv, KickFails, StaleOnlyInDoubt, InDoubt
<1>4. SuperCached'
  BY <1>1 DEF IInv, KickFails, SuperCached, TypeOK
<1>5. KickedMayReturn'
  BY <1>1, <1>2 DEF IInv, KickFails, KickedMayReturn
<1>6. faults' \in 0..MaxFaults /\ faults' # 0
  BY <1>1, RoleBounds DEF TypeOK, KickFails
<1>7. /\ cache' \in [User -> Role \cup {NoRole}] /\ chat' \subseteq User
      /\ spoiled' \subseteq User /\ stranded' \subseteq User
  BY <1>1 DEF TypeOK, KickFails
<1>. QED
  BY <1>1, <1>3, <1>4, <1>5, <1>6, <1>7, InvEnd DEF KickFails

LEMMA InvInvalidate ==
    ASSUME IInv, NEW t \in Task, Invalidate(t)
    PROVE  IInv'
<1>1. TypeOK /\ pc[t] \in Label \ {"idle", "fill"} /\ Goto(t, "idle") /\ target[t] \in User
  BY DEF IInv, TypeOK, Invalidate, Label
<1>2. pc'[t] = "idle" /\ \A s \in Task \ {t} : pc'[s] = pc[s] /\ target'[s] = target[s]
  BY <1>1, EndMoves
<1>3. StaleOnlyInDoubt'
  BY <1>1, <1>2 DEF IInv, Invalidate, StaleOnlyInDoubt, InDoubt, TypeOK
<1>4. SuperCached'
  BY <1>1 DEF IInv, Invalidate, SuperCached, TypeOK
<1>5. KickedMayReturn'
  BY <1>1, <1>2 DEF IInv, Invalidate, KickedMayReturn
<1>. QED
  BY <1>1, <1>3, <1>4, <1>5, InvEnd DEF IInv, Invalidate, TypeOK

LEMMA InvInvalidateFails ==
    ASSUME IInv, NEW t \in Task, InvalidateFails(t)
    PROVE  IInv'
<1>1. TypeOK /\ pc[t] \in Label \ {"idle", "fill"} /\ Goto(t, "idle") /\ target[t] \in User
  BY DEF IInv, TypeOK, InvalidateFails, Label
<1>2. pc'[t] = "idle" /\ \A s \in Task \ {t} : pc'[s] = pc[s] /\ target'[s] = target[s]
  BY <1>1, EndMoves
<1>3. StaleOnlyInDoubt'
  BY <1>1, <1>2 DEF IInv, InvalidateFails, StaleOnlyInDoubt, InDoubt
<1>4. SuperCached'
  BY <1>1 DEF IInv, InvalidateFails, SuperCached, TypeOK
<1>5. KickedMayReturn'
  BY <1>1, <1>2 DEF IInv, InvalidateFails, KickedMayReturn
<1>6. faults' \in 0..MaxFaults /\ faults' # 0
  BY <1>1, RoleBounds DEF TypeOK, InvalidateFails
<1>7. /\ cache' \in [User -> Role \cup {NoRole}] /\ chat' \subseteq User
      /\ spoiled' \subseteq User /\ stranded' \subseteq User
  BY <1>1 DEF TypeOK, InvalidateFails
<1>. QED
  BY <1>1, <1>3, <1>4, <1>5, <1>6, <1>7, InvEnd DEF InvalidateFails

\* A command that goes on without a change of roles, cache or history.
LEMMA InvGoesOn ==
    ASSUME IInv, NEW t \in Task, NEW label \in {"punish", "banInChat", "unbanInChat", "invalidate"},
           Goto(t, label), pc[t] \in {"target", "punish", "banInChat"},
           chat' \subseteq User, KickedMayReturn',
           UNCHANGED <<role, cache, loaded, historyVars, starts, faults>>,
           label \in {"punish", "banInChat"} =>
             /\ command[t] \in {"punish", "kick"}
             /\ t \notin doubtful => role[target[t]] = "user"
    PROVE  IInv'
<1>1. TypeOK /\ TaskInv(t) /\ label \in Label
  BY DEF IInv, Label
<1>2. /\ LocalsTyped'
      /\ pc'[t] = label
      /\ command'[t] = command[t] /\ actor'[t] = actor[t] /\ target'[t] = target[t]
      /\ \A s \in Task \ {t} :
           /\ pc'[s] = pc[s]
           /\ command'[s] = command[s]
           /\ actor'[s] = actor[s]
           /\ target'[s] = target[s]
           /\ stage'[s] = stage[s]
  BY <1>1, GotoMoves
<1>3. UNCHANGED <<outdated, spoiled, doubtful, stranded>>
  BY DEF historyVars
<1>4. TypeOK'
  BY <1>1, <1>2, <1>3 DEF TypeOK, LocalsTyped
<1>5. OthersKeep(t)
  BY <1>2, <1>3 DEF OthersKeep
<1>6. TaskInv(t)'
  BY <1>1, <1>2, <1>3 DEF TaskInv, ReadInv, VouchInv, SuperInv, Punishing, Changing
<1>7. StaleOnlyInDoubt' /\ SuperCached'
  BY <1>1, <1>2, <1>3 DEF IInv, StaleOnlyInDoubt, InDoubt, SuperCached
<1>. QED
  BY <1>4, <1>5, <1>6, <1>7, OtherTasks DEF IInv

\* Where the others stand when one goes on.
LEMMA GoesOnMoves ==
    ASSUME TypeOK, NEW t \in Task, NEW label \in Label, pc[t] # "idle", label # "idle", Goto(t, label)
    PROVE  /\ pc'[t] = label /\ target'[t] = target[t]
           /\ \A s \in Task \ {t} : pc'[s] = pc[s] /\ target'[s] = target[s]
BY GotoMoves

LEMMA InvBan ==
    ASSUME IInv, NEW t \in Task, Ban(t)
    PROVE  IInv'
<1>1. TypeOK /\ pc[t] = "punish" /\ Goto(t, "invalidate") /\ "invalidate" \in Label
  BY DEF IInv, Ban, Label
<1>2. KickedMayReturn'
  BY <1>1, GoesOnMoves DEF IInv, Ban, historyVars, KickedMayReturn
<1>. QED
  BY <1>1, <1>2, InvGoesOn DEF TypeOK, Ban

LEMMA InvBanInChat ==
    ASSUME IInv, NEW t \in Task, BanInChat(t)
    PROVE  IInv'
<1>1. /\ TypeOK /\ pc[t] = "banInChat" /\ Goto(t, "unbanInChat") /\ "unbanInChat" \in Label
      /\ target[t] \in User
  BY DEF IInv, TypeOK, BanInChat, Label
<1>2. KickedMayReturn'
  <2>1. /\ pc'[t] = "unbanInChat" /\ target'[t] = target[t]
        /\ \A s \in Task \ {t} : pc'[s] = pc[s] /\ target'[s] = target[s]
    BY <1>1, GoesOnMoves
  <2>. QED
    BY <1>1, <2>1 DEF IInv, BanInChat, historyVars, KickedMayReturn
<1>. QED
  BY <1>1, <1>2, InvGoesOn DEF TypeOK, BanInChat

LEMMA InvTargetFound ==
    ASSUME IInv, NEW t \in Task, TargetFound(t)
    PROVE  IInv'
<1>1. /\ TypeOK /\ TaskInv(t) /\ pc[t] = "target" /\ ~Spared(t)
      /\ role[target[t]] \in Role
      /\ {"punish", "banInChat", "get"} \subseteq Label /\ "change" \in Stage
      /\ UNCHANGED <<role, cache, chat, loaded, historyVars, starts, faults>>
  BY DEF IInv, TypeOK, TargetFound, Label, Stage
<1>2. ASSUME NEW label \in {"punish", "banInChat"}, command[t] \in {"punish", "kick"}, Goto(t, label)
      PROVE  IInv'
  <2>1. role[target[t]] = "user"
    BY <1>1, <1>2 DEF Spared, Role, Admins
  <2>2. KickedMayReturn'
    BY <1>1, <1>2, GoesOnMoves DEF IInv, historyVars, KickedMayReturn
  <2>3. chat' \subseteq User
    BY <1>1 DEF TypeOK
  <2>. QED
    BY <1>1, <1>2, <2>1, <2>2, <2>3, InvGoesOn
<1>3. CASE command[t] \notin {"punish", "kick"} /\ AskRole(t, "change")
  <2>1. /\ LocalsTyped'
        /\ pc'[t] = "get" /\ stage'[t] = "change"
        /\ command' = command /\ actor' = actor /\ target' = target
        /\ \A s \in Task \ {t} : pc'[s] = pc[s] /\ stage'[s] = stage[s]
    BY <1>1, <1>3, AskRoleMoves
  <2>2. command[t] \in {"grant", "revoke"}
    BY <1>1, <1>3 DEF TypeOK, Command
  <2>3. UNCHANGED <<outdated, spoiled, doubtful, stranded>>
    BY <1>1 DEF historyVars
  <2>4. TypeOK'
    BY <1>1, <2>1, <2>3 DEF TypeOK, LocalsTyped
  <2>5. OthersKeep(t)
    BY <1>1, <2>1, <2>3 DEF OthersKeep
  <2>6. TaskInv(t)'
    BY <1>1, <2>1, <2>2, <2>3 DEF TaskInv, ReadInv, VouchInv, SuperInv, Punishing, Changing
  <2>7. StaleOnlyInDoubt' /\ SuperCached' /\ KickedMayReturn'
    BY <1>1, <2>1, <2>3 DEF IInv, StaleOnlyInDoubt, InDoubt, SuperCached, KickedMayReturn
  <2>. QED
    BY <1>1, <2>4, <2>5, <2>6, <2>7, OtherTasks DEF IInv
<1>4. CASE command[t] = "punish"
  BY <1>2, <1>4 DEF TargetFound
<1>5. CASE command[t] = "kick"
  BY <1>2, <1>5 DEF TargetFound
<1>. QED
  BY <1>3, <1>4, <1>5 DEF TargetFound

LEMMA InvWriteRole ==
    ASSUME IInv, NEW t \in Task, WriteRole(t)
    PROVE  IInv'
<1>. DEFINE x == target[t]
            new == IF command[t] = "grant" THEN "admin" ELSE "user"
<1>1. /\ TypeOK /\ TaskInv(t) /\ pc[t] = "write" /\ Goto(t, "invalidate") /\ "invalidate" \in Label
      /\ x \in User /\ new \in {"admin", "user"} /\ new \in Role
  BY DEF IInv, TypeOK, WriteRole, Label, Role
<1>2. /\ role' = [role EXCEPT ![x] = new]
      /\ outdated' = outdated \cup {s \in Task : pc[s] = "fill" /\ Subject(s) = x}
      /\ doubtful' = doubtful \cup {s \in Task \ {t} : pc[s] # "idle" /\ x \in {actor[s], target[s]}}
      /\ UNCHANGED <<cache, chat, loaded, spoiled, stranded, starts, faults>>
  BY DEF WriteRole
<1>. HIDE DEF x, new
<1>3. role' \in [User -> Role] /\ \A u \in User : role'[u] = IF u = x THEN new ELSE role[u]
  BY <1>1, <1>2 DEF TypeOK
<1>4. faults = 0 => role[x] # "superadmin"
  BY <1>1 DEF TaskInv, SuperInv, x
<1>5. /\ LocalsTyped'
      /\ pc'[t] = "invalidate" /\ target'[t] = x
      /\ \A s \in Task \ {t} :
           /\ pc'[s] = pc[s]
           /\ command'[s] = command[s]
           /\ actor'[s] = actor[s]
           /\ target'[s] = target[s]
           /\ stage'[s] = stage[s]
  BY <1>1, GotoMoves DEF x
<1>6. TypeOK'
  BY <1>1, <1>2, <1>3, <1>5 DEF TypeOK, LocalsTyped
<1>7. TaskInv(t)'
  BY <1>1, <1>2, <1>5 DEF TaskInv, ReadInv, VouchInv, SuperInv, Punishing, Changing
<1>8. ASSUME NEW s \in Task \ {t} PROVE TaskInv(s)'
  <2>1. /\ TaskInv(s)
        /\ pc[s] # "idle" => actor[s] \in User /\ target[s] \in User
        /\ pc[s] # "idle" => Subject(s) \in {actor[s], target[s]}
    BY <1>1 DEF IInv, TypeOK, Subject
  <2>2. Subject(s)' = Subject(s) /\ loaded'[s] = loaded[s]
    BY <1>2, <1>5 DEF Subject
  <2>3. /\ s \in outdated' <=> s \in outdated \/ (pc[s] = "fill" /\ Subject(s) = x)
        /\ s \in doubtful' <=> s \in doubtful \/ (pc[s] # "idle" /\ x \in {actor[s], target[s]})
    BY <1>2
  <2>4. ReadInv(s)'
    BY <1>3, <1>5, <2>1, <2>2, <2>3 DEF TaskInv, ReadInv
  <2>5. VouchInv(s)'
    BY <1>3, <1>5, <2>1, <2>3 DEF TaskInv, VouchInv, Punishing
  <2>6. SuperInv(s)'
    <3>1. /\ pc'[s] = pc[s] /\ command'[s] = command[s] /\ actor'[s] = actor[s]
          /\ target'[s] = target[s] /\ stage'[s] = stage[s] /\ faults' = faults
      BY <1>2, <1>5
    <3>2. \A u \in User : faults = 0 => (role'[u] = "superadmin" <=> role[u] = "superadmin")
      BY <1>1, <1>3, <1>4
    <3>3. Changing(s)' <=> Changing(s)
      BY <3>1 DEF Changing
    <3>4. Changing(s) => pc[s] # "idle"
      BY DEF Changing
    <3>. QED
      BY <2>1, <2>2, <3>1, <3>2, <3>3, <3>4 DEF TaskInv, SuperInv
  <2>. QED
    BY <2>4, <2>5, <2>6 DEF TaskInv
<1>9. StaleOnlyInDoubt'
  BY <1>1, <1>2, <1>3, <1>5 DEF IInv, StaleOnlyInDoubt, InDoubt
<1>10. SuperCached'
  BY <1>1, <1>2, <1>3, <1>4 DEF IInv, SuperCached
<1>11. KickedMayReturn'
  BY <1>1, <1>2, <1>5 DEF IInv, KickedMayReturn
<1>. QED
  BY <1>6, <1>7, <1>8, <1>9, <1>10, <1>11 DEF IInv

LEMMA InvCacheExpires ==
    ASSUME IInv, NEW u \in User, CacheExpires(u)
    PROVE  IInv'
<1>. USE DEF IInv, CacheExpires, localVars
<1>1. TypeOK'
  BY DEF TypeOK
<1>2. \A t \in Task : TaskInv(t)'
  BY DEF TaskInv, ReadInv, VouchInv, SuperInv, Punishing, Changing, Subject
<1>3. StaleOnlyInDoubt' /\ SuperCached' /\ KickedMayReturn'
  BY DEF TypeOK, StaleOnlyInDoubt, InDoubt, SuperCached, KickedMayReturn
<1>. QED
  BY <1>1, <1>2, <1>3

\* No task is left by a start; what remains is about the cache.
LEMMA InvStartAfresh ==
    ASSUME IInv, StartAfresh, role' \in [User -> Role], cache' \in [User -> Role \cup {NoRole}],
           spoiled' \subseteq User, faults' \in 0..MaxFaults, chat' = chat,
           \A u \in User : cache'[u] \in {NoRole, role'[u]} \/ u \in spoiled',
           SuperCached'
    PROVE  IInv'
<1>. USE DEF IInv, StartAfresh
<1>1. starts' \in 0..MaxStarts
  BY RoleBounds DEF TypeOK
<1>2. stranded' \subseteq User
  BY DEF TypeOK
<1>3. TypeOK'
  BY <1>1, <1>2 DEF TypeOK, Label, Command, Stage
<1>4. \A t \in Task : TaskInv(t)'
  BY DEF TaskInv, ReadInv, VouchInv, SuperInv, Punishing, Changing
<1>5. StaleOnlyInDoubt'
  BY DEF StaleOnlyInDoubt, InDoubt
<1>6. KickedMayReturn'
  BY DEF KickedMayReturn
<1>. QED
  BY <1>3, <1>4, <1>5, <1>6

LEMMA InvSeed ==
    ASSUME IInv, NEW env \in SUBSET User, Seed(env)
    PROVE  IInv'
<1>. DEFINE promoted == {u \in env : role[u] # "superadmin"}
<1>1. /\ TypeOK /\ StartAfresh /\ UNCHANGED <<chat, faults>>
      /\ role' = [u \in User |-> IF u \in env THEN "superadmin" ELSE role[u]]
      /\ cache' = [u \in User |-> IF u \in promoted THEN NoRole ELSE cache[u]]
      /\ spoiled' = (spoiled \cup Owed) \ promoted
  BY DEF IInv, Seed
<1>2. Owed \subseteq User
  BY <1>1 DEF TypeOK, Owed
<1>3. \A u \in User : InDoubt(u) => u \in spoiled \cup Owed
  BY DEF InDoubt, Owed
<1>4. /\ role' \in [User -> Role] /\ cache' \in [User -> Role \cup {NoRole}]
      /\ spoiled' \subseteq User /\ faults' \in 0..MaxFaults
  BY <1>1, <1>2 DEF TypeOK, Role
<1>5. \A u \in User : cache'[u] \in {NoRole, role'[u]} \/ u \in spoiled'
  BY <1>1, <1>3 DEF IInv, StaleOnlyInDoubt
<1>6. SuperCached'
  BY <1>1 DEF IInv, SuperCached
<1>. QED
  BY <1>1, <1>4, <1>5, <1>6, InvStartAfresh

LEMMA InvSeedFails ==
    ASSUME IInv, NEW env \in SUBSET User, SeedFails(env)
    PROVE  IInv'
<1>1. /\ TypeOK /\ StartAfresh /\ UNCHANGED <<cache, chat>>
      /\ faults < MaxFaults /\ faults' = faults + 1
      /\ role' = [u \in User |-> IF u \in env THEN "superadmin" ELSE role[u]]
      /\ spoiled' = spoiled \cup Owed \cup {u \in env : role[u] # "superadmin"}
  BY DEF IInv, SeedFails
<1>2. Owed \subseteq User
  BY <1>1 DEF TypeOK, Owed
<1>3. \A u \in User : InDoubt(u) => u \in spoiled \cup Owed
  BY DEF InDoubt, Owed
<1>4. faults' \in 0..MaxFaults /\ faults' # 0
  BY <1>1, RoleBounds DEF TypeOK
<1>5. role' \in [User -> Role] /\ cache' \in [User -> Role \cup {NoRole}] /\ spoiled' \subseteq User
  BY <1>1, <1>2 DEF TypeOK, Role
<1>6. \A u \in User : cache'[u] \in {NoRole, role'[u]} \/ u \in spoiled'
  BY <1>1, <1>3 DEF IInv, StaleOnlyInDoubt
<1>7. SuperCached'
  BY <1>4 DEF SuperCached
<1>. QED
  BY <1>1, <1>4, <1>5, <1>6, <1>7, InvStartAfresh

LEMMA InvStutter == ASSUME IInv, UNCHANGED vars PROVE IInv'
<1>. USE DEF IInv, vars, localVars, historyVars
<1>1. TypeOK'
  BY DEF TypeOK
<1>2. \A t \in Task : TaskInv(t)'
  BY DEF TaskInv, ReadInv, VouchInv, SuperInv, Punishing, Changing, Subject
<1>3. StaleOnlyInDoubt' /\ SuperCached' /\ KickedMayReturn'
  BY DEF StaleOnlyInDoubt, InDoubt, SuperCached, KickedMayReturn
<1>. QED
  BY <1>1, <1>2, <1>3

LEMMA InvNext == ASSUME IInv, [Next]_vars PROVE IInv'
<1>1. CASE \E t \in Task, c \in Command, a, x \in User : Receive(t, c, a, x)
  BY <1>1, InvReceive
<1>2. CASE \E t \in Task : RoleStep(t)
  BY <1>2, InvCached, InvLoadRole, InvFillCache, InvFillFails, InvTargetSpared, InvTargetFound,
     InvWriteRole, InvInvalidate, InvInvalidateFails DEF RoleStep
<1>3. CASE \E t \in Task : PunishStep(t)
  BY <1>3, InvBan, InvMute, InvBanInChat, InvUnbanInChat, InvKickFails DEF PunishStep
<1>4. CASE \E u \in User : CacheExpires(u)
  BY <1>4, InvCacheExpires
<1>5. CASE \E env \in SUBSET User : Seed(env) \/ SeedFails(env)
  BY <1>5, InvSeed, InvSeedFails
<1>6. CASE UNCHANGED vars
  BY <1>6, InvStutter
<1>. QED
  BY <1>1, <1>2, <1>3, <1>4, <1>5, <1>6 DEF Next

\* The inductive invariant holds.
THEOREM InvHolds == Spec => []IInv
BY InvInit, InvNext, PTL DEF Spec

-----------------------------------------------------------------------------
\* Every column, entry and local stays in its domain.
THEOREM TypeCorrect == Spec => []TypeOK
<1>1. IInv => TypeOK
  BY DEF IInv
<1>. QED
  BY <1>1, InvHolds, PTL

\* The cache of roles disagrees with the table only in doubt.
THEOREM CacheTrueUnlessInDoubt == Spec => []StaleOnlyInDoubt
<1>1. IInv => StaleOnlyInDoubt
  BY DEF IInv
<1>. QED
  BY <1>1, InvHolds, PTL

\* A ban in the chat stands only while a kick is under way or after one failed.
THEOREM KicksEnd == Spec => []KickedMayReturn
<1>1. IInv => KickedMayReturn
  BY DEF IInv
<1>. QED
  BY <1>1, InvHolds, PTL

\* Who is punished outside of doubt is a user, and who punishes an admin.
THEOREM OnlyUsersPunished == Spec => AdminsPunishUsers
<1>1. ASSUME IInv
      PROVE  \A t \in Task : Punishes(t) /\ t \notin doubtful =>
                role[actor[t]] \in Admins /\ role[target[t]] = "user"
  <2>. TAKE t \in Task
  <2>1. Punishes(t) => pc[t] \in {"punish", "banInChat"}
    BY DEF Punishes
  <2>2. VouchInv(t)
    BY <1>1 DEF IInv, TaskInv
  <2>. QED
    BY <2>1, <2>2 DEF VouchInv, Punishing
<1>. QED
  BY <1>1, InvHolds, PTL DEF AdminsPunishUsers

\* Roles change by set_role of a grant or revoke, and at a start.
LEMMA RoleWriters ==
    ASSUME IInv, Next, faults = 0
    PROVE  \/ role' = role
           \/ \E t \in Task : WriteRole(t)
           \/ /\ starts' # starts
              /\ \A u \in User : role[u] = "superadmin" => role'[u] = "superadmin"
<1>1. CASE \E t \in Task, c \in Command, a, x \in User : Receive(t, c, a, x)
  BY <1>1 DEF Receive
<1>2. CASE \E t \in Task : RoleStep(t)
  BY <1>2 DEF RoleStep, Cached, LoadRole, FillCache, FillFails, TargetSpared, TargetFound, Invalidate,
     InvalidateFails
<1>3. CASE \E t \in Task : PunishStep(t)
  BY <1>3 DEF PunishStep, Ban, Mute, BanInChat, UnbanInChat, KickFails
<1>4. CASE \E u \in User : CacheExpires(u)
  BY <1>4 DEF CacheExpires
<1>5. CASE \E env \in SUBSET User : Seed(env) \/ SeedFails(env)
  <2>1. starts' = starts + 1 /\ starts \in Nat
    BY <1>5, RoleBounds DEF IInv, TypeOK, Seed, SeedFails, StartAfresh
  <2>2. \A u \in User : role[u] = "superadmin" => role'[u] = "superadmin"
    BY <1>5 DEF Seed, SeedFails
  <2>. QED
    BY <2>1, <2>2
<1>. QED
  BY <1>1, <1>2, <1>3, <1>4, <1>5 DEF Next

\* Without faults superadmins stay, and only a superadmin changes a role.
THEOREM SuperadminsHold == Spec => SuperadminsRule
<1>1. ASSUME IInv, [Next]_vars, faults = 0
      PROVE  /\ \A u \in User : role[u] = "superadmin" => role'[u] = "superadmin"
             /\ role' # role => \/ starts' # starts
                                \/ \E t \in Task : pc[t] = "write" /\ role[actor[t]] = "superadmin"
  <2>1. CASE UNCHANGED vars
    BY <2>1 DEF vars
  <2>2. CASE role' = role
    BY <2>2
  <2>3. ASSUME NEW t \in Task, WriteRole(t)
        PROVE  /\ \A u \in User : role[u] = "superadmin" => role'[u] = "superadmin"
               /\ pc[t] = "write" /\ role[actor[t]] = "superadmin"
    <3>1. TaskInv(t) /\ pc[t] = "write"
      BY <1>1, <2>3 DEF IInv, WriteRole
    <3>2. role[target[t]] # "superadmin" /\ role[actor[t]] = "superadmin"
      BY <1>1, <3>1 DEF TaskInv, SuperInv, Changing
    <3>3. \A u \in User : u # target[t] => role'[u] = role[u]
      BY <1>1, <2>3 DEF IInv, TypeOK, WriteRole
    <3>. QED
      BY <3>1, <3>2, <3>3
  <2>. QED
    BY <1>1, <2>1, <2>2, <2>3, RoleWriters
<1>. QED
  BY <1>1, InvInit, InvNext, InvHolds, PTL DEF Spec, SuperadminsRule

=============================================================================
