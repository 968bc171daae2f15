------------------------- MODULE TonConnect_proofs -------------------------
(***************************************************************************)
(* Proofs about TonConnect, for any number of sessions, disconnects and    *)
(* restarts.                                                               *)
(***************************************************************************)
EXTENDS TonConnect, TLAPS

\* The nonce in Redis is that of a session whose proof has not been accepted
\* and that no disconnect has ended.
NonceInv ==
    /\ spent \cup ended \subseteq Begun
    /\ nonce # None => nonce \in Begun /\ nonce \notin spent /\ nonce \notin ended

\* A session that can still bind a wallet, or whose SDK object a task may take.
Alive(c) ==
    \/ stage[c] \notin {"idle", "done", "failed"}
    \/ connector = c
    \/ \E s \in Session : waits[s] = c

\* A session that has not begun has no SDK object, and while a wallet is bound
\* only those that began before it are alive.
RivalInv ==
    /\ \A c \in Session : stage[c] = "idle" => ~Alive(c)
    /\ wallet # None => \A c \in Session : Alive(c) => c \in rivals

\* A session that was not crossed is alone, and no disconnect() is on its way
\* to the nonce.
CrossInv ==
    /\ ~Purging \/ Relying \subseteq crossed
    /\ \A s \in Relying \ crossed : Relying = {s}
    /\ UncrossedFindsItsOwn

IInv == TypeOK /\ NonceInv /\ RivalInv /\ OnlyFailedStartsLeak /\ CrossInv

-----------------------------------------------------------------------------
LEMMA InvInit == ASSUME Init PROVE IInv
<1>. USE NoneAssumption, LimitAssumption DEF Init
<1>1. TypeOK
  <2>1. {wallet, nonce, meta, connector} \subseteq MaybeSession /\ keys \in BOOLEAN
    BY DEF MaybeSession
  <2>2. link \in [Session -> Links] /\ stage \in [Session -> Stages]
    BY DEF Links, Stages
  <2>3. waits \in [Session -> MaybeSession] /\ elder \in [Session -> SUBSET Session]
    BY DEF MaybeSession
  <2>4. /\ teardown \in [Caller -> Teardowns]
        /\ victim \in [Caller -> MaybeSession]
    BY DEF Teardowns, MaybeSession
  <2>5. asks \in 0..AskLimit /\ crashes \in 0..CrashLimit
    OBVIOUS
  <2>. QED
    BY <2>1, <2>2, <2>3, <2>4, <2>5 DEF TypeOK
<1>2. NonceInv
  BY DEF NonceInv
<1>3. RivalInv
  BY DEF RivalInv, Alive
<1>4. CrossInv
  BY DEF CrossInv, UncrossedFindsItsOwn, Relying, LookedAfter, Purging
<1>. QED
  BY <1>1, <1>2, <1>3, <1>4 DEF IInv, OnlyFailedStartsLeak

-----------------------------------------------------------------------------
LEMMA TypeStep == ASSUME TypeOK, [Next]_vars PROVE TypeOK'
<1>. USE NoneAssumption, LimitAssumption DEF TypeOK, MaybeSession
<1>. USE DEF stored, clock, job, counts, history, Goto, TeardownGoto
<1>1. ASSUME NEW s \in Session, Connect(s) PROVE TypeOK'
  <2>1. CASE Refuse(s)
    BY <2>1 DEF Refuse, Stages
  <2>2. CASE ReadUser(s)
    BY <2>2 DEF ReadUser, Stages
  <2>3. CASE SetNonce(s)
    BY <2>3 DEF SetNonce, Stages, Begun, Relying
  <2>4. CASE PutConnector(s)
    BY <2>4 DEF PutConnector, Stages
  <2>5. CASE Link(s)
    BY <2>5 DEF Link, Stages, Links
  <2>6. CASE StartFails(s)
    BY <2>6 DEF StartFails, Stages
  <2>7. CASE SaveMeta(s)
    BY <2>7 DEF SaveMeta, Stages
  <2>. QED
    BY <1>1, <2>1, <2>2, <2>3, <2>4, <2>5, <2>6, <2>7 DEF Connect
<1>2. ASSUME NEW s \in Session, Await(s) PROVE TypeOK'
  <2>. USE DEF Stages
  <2>1. CASE NoSession(s)
    BY <2>1 DEF NoSession
  <2>2. CASE TakeConnector(s)
    BY <2>2 DEF TakeConnector
  <2>3. CASE AwaitTimesOut(s)
    BY <2>3 DEF AwaitTimesOut, StopWaiting
  <2>4. CASE PresentProof(s) \/ RejectProof(s)
    BY <2>4 DEF PresentProof, RejectProof, StopWaiting
  <2>5. CASE RefuseProof(s)
    BY <2>5 DEF RefuseProof, ConsumeNonce, StopWaiting
  <2>6. CASE AcceptProof(s)
    BY <2>6 DEF AcceptProof, ConsumeNonce
  <2>7. CASE SetWallet(s)
    BY <2>7 DEF SetWallet, StopWaiting
  <2>8. CASE SetWalletFails(s)
    BY <2>8 DEF SetWalletFails, StopWaiting
  <2>9. CASE Leave(s)
    BY <2>9 DEF Leave
  <2>10. CASE ReplyAndClearMeta(s)
    BY <2>10 DEF ReplyAndClearMeta
  <2>. QED
    BY <1>2, <2>1, <2>2, <2>3, <2>4, <2>5, <2>6, <2>7, <2>8, <2>9, <2>10 DEF Await
<1>3. ASSUME NEW s \in Session, Approve(s) PROVE TypeOK'
  BY <1>3 DEF Approve, Links, task
<1>4. ASSUME NEW s \in Session, GetLate(s) PROVE TypeOK'
  BY <1>4 DEF GetLate, Begun, task
<1>5. ASSUME NEW a \in Caller, Disconnect(a) PROVE TypeOK'
  <2>. USE DEF Teardowns, task, Return
  <2>1. CASE PopConnector(a)
    BY <2>1 DEF PopConnector, Relying
  <2>2. CASE CloseLink(a)
    BY <2>2 DEF CloseLink, Links
  <2>3. CASE ClearWallet(a)
    BY <2>3 DEF ClearWallet
  <2>4. CASE TeardownFails(a)
    BY <2>4 DEF TeardownFails
  <2>5. CASE PurgeKeys(a)
    BY <2>5 DEF PurgeKeys
  <2>6. CASE PurgeNonce(a)
    BY <2>6 DEF PurgeNonce, Begun
  <2>7. CASE PurgeMeta(a)
    BY <2>7 DEF PurgeMeta
  <2>. QED
    BY <1>5, <2>1, <2>2, <2>3, <2>4, <2>5, <2>6, <2>7 DEF Disconnect
<1>6. CASE AskDisconnect
  <2>1. asks + 1 \in 0..AskLimit
    BY <1>6 DEF AskDisconnect
  <2>. QED
    BY <1>6, <2>1 DEF AskDisconnect, Teardowns, task
<1>7. CASE Cleanup
  BY <1>7 DEF Cleanup, BeginPass, ReadMeta, CheckKeys, DropMeta, Teardowns, task
<1>8. CASE KeysExpire \/ MetaExpires
  BY <1>8 DEF KeysExpire, MetaExpires, task
<1>9. CASE Crash
  BY <1>9 DEF Crash, Stages, Links, Teardowns
<1>10. CASE UNCHANGED vars
  BY <1>10 DEF vars, task
<1>. QED
  BY <1>1, <1>2, <1>3, <1>4, <1>5, <1>6, <1>7, <1>8, <1>9, <1>10 DEF Next

-----------------------------------------------------------------------------
\* No step takes a session back to where its clock has not been read.
LEMMA BegunGrows == ASSUME TypeOK, [Next]_vars PROVE Begun \subseteq Begun'
<1>. USE DEF TypeOK, Begun, Goto
<1>1. ASSUME NEW s \in Session, Connect(s) PROVE Begun \subseteq Begun'
  BY <1>1 DEF Connect, Refuse, ReadUser, SetNonce, PutConnector, Link, StartFails, SaveMeta
<1>2. ASSUME NEW s \in Session, Await(s) PROVE Begun \subseteq Begun'
  BY <1>2 DEF Await, NoSession, TakeConnector, AwaitTimesOut, PresentProof, RejectProof,
     RefuseProof, AcceptProof,
     SetWallet, SetWalletFails, Leave, ReplyAndClearMeta, StopWaiting
<1>3. CASE Crash
  BY <1>3 DEF Crash
<1>4. CASE UNCHANGED stage
  BY <1>4
<1>5. ASSUME NEW a \in Caller, Disconnect(a) PROVE UNCHANGED stage
  BY <1>5 DEF Disconnect, PopConnector, CloseLink, ClearWallet, TeardownFails, PurgeKeys, PurgeNonce,
     PurgeMeta, task
<1>6. ASSUME \/ \E s \in Session : Approve(s) \/ GetLate(s)
             \/ AskDisconnect \/ Cleanup \/ KeysExpire \/ MetaExpires \/ UNCHANGED vars
      PROVE  UNCHANGED stage
  BY <1>6 DEF Approve, GetLate, AskDisconnect, Cleanup, BeginPass, ReadMeta, CheckKeys, DropMeta,
     KeysExpire, MetaExpires, vars, task
<1>. QED
  BY <1>1, <1>2, <1>3, <1>4, <1>5, <1>6 DEF Next

\* Whatever leaves the histories alone and sets no nonce keeps NonceInv.
LEMMA NonceKept ==
    ASSUME NonceInv, Begun \subseteq Begun', nonce' \in {nonce, None},
           UNCHANGED <<spent, ended>>
    PROVE  NonceInv'
BY DEF NonceInv

LEMMA NonceStep == ASSUME TypeOK, NonceInv, [Next]_vars PROVE NonceInv'
<1>. USE DEF stored, history, task, Goto
<1>0. Begun \subseteq Begun'
  BY BegunGrows
<1>1. ASSUME NEW s \in Session, SetNonce(s) PROVE NonceInv'
  <2>1. s \notin Begun /\ s \in Begun'
    BY <1>1 DEF SetNonce, Begun, TypeOK
  <2>. QED
    BY <1>0, <1>1, <2>1 DEF SetNonce, NonceInv
<1>2. ASSUME NEW s \in Session, Connect(s), ~SetNonce(s)
      PROVE  nonce' \in {nonce, None} /\ UNCHANGED <<spent, ended>>
  BY <1>2 DEF Connect, Refuse, ReadUser, PutConnector, Link, StartFails, SaveMeta
<1>3. ASSUME NEW s \in Session, AcceptProof(s) PROVE NonceInv'
  <2>1. waits[s] \in Begun /\ nonce' = None /\ ended' = ended /\ spent' = spent \cup {waits[s]}
    BY <1>3, NoneAssumption DEF AcceptProof, ConsumeNonce, NonceInv, TypeOK
  <2>. QED
    BY <1>0, <2>1 DEF NonceInv
<1>4. ASSUME NEW s \in Session, Await(s), ~AcceptProof(s)
      PROVE  nonce' \in {nonce, None} /\ UNCHANGED <<spent, ended>>
  BY <1>4 DEF Await, NoSession, TakeConnector, AwaitTimesOut, PresentProof, RejectProof,
     RefuseProof, ConsumeNonce,
     SetWallet, SetWalletFails, Leave, ReplyAndClearMeta
<1>5. ASSUME NEW a \in Caller, PurgeNonce(a) PROVE NonceInv'
  BY <1>0, <1>5 DEF PurgeNonce, NonceInv
<1>6. ASSUME NEW a \in Caller, Disconnect(a), ~PurgeNonce(a)
      PROVE  nonce' \in {nonce, None} /\ UNCHANGED <<spent, ended>>
  BY <1>6 DEF Disconnect, PopConnector, CloseLink, ClearWallet, TeardownFails, PurgeKeys, PurgeMeta
<1>7. ASSUME \/ \E s \in Session : Approve(s) \/ GetLate(s)
             \/ AskDisconnect \/ Cleanup \/ KeysExpire \/ MetaExpires \/ Crash \/ UNCHANGED vars
      PROVE  nonce' \in {nonce, None} /\ UNCHANGED <<spent, ended>>
  BY <1>7 DEF Approve, GetLate, AskDisconnect, Cleanup, BeginPass, ReadMeta, CheckKeys, DropMeta,
     KeysExpire, MetaExpires, Crash, vars
<1>. QED
  BY <1>0, <1>1, <1>2, <1>3, <1>4, <1>5, <1>6, <1>7, NonceKept DEF Next

-----------------------------------------------------------------------------
\* Nobody comes to life, and no wallet is bound.
LEMMA RivalKept ==
    ASSUME RivalInv, wallet' \in {wallet, None}, wallet' # None => UNCHANGED rivals,
           \A c \in Session : Alive(c)' => Alive(c),
           \A c \in Session : stage'[c] = "idle" => stage[c] = "idle"
    PROVE  RivalInv'
BY DEF RivalInv

LEMMA RivalStep == ASSUME TypeOK, RivalInv, [Next]_vars PROVE RivalInv'
<1>. USE DEF stored, history, task, Goto
<1>t. stage \in [Session -> Stages] /\ waits \in [Session -> MaybeSession]
  BY DEF TypeOK
<1>1. ASSUME NEW s \in Session, ReadUser(s) PROVE RivalInv'
  BY <1>t, <1>1 DEF ReadUser, RivalInv, Alive
<1>2. ASSUME NEW s \in Session, Connect(s), ~ReadUser(s) PROVE RivalInv'
  <2>1. \A c \in Session : Alive(c)' => Alive(c)
    BY <1>t, <1>2 DEF Connect, Refuse, SetNonce, PutConnector, Link, StartFails, SaveMeta, Alive
  <2>2. \A c \in Session : stage'[c] = "idle" => stage[c] = "idle"
    BY <1>t, <1>2 DEF Connect, Refuse, SetNonce, PutConnector, Link, StartFails, SaveMeta
  <2>3. UNCHANGED <<wallet, rivals>>
    BY <1>2 DEF Connect, Refuse, SetNonce, PutConnector, Link, StartFails, SaveMeta
  <2>. QED
    BY <2>1, <2>2, <2>3, RivalKept
<1>3. ASSUME NEW s \in Session, SetWallet(s) PROVE RivalInv'
  <2>1. \A c \in Session : Alive(c)' => Alive(c)
    BY <1>t, <1>3, NoneAssumption DEF SetWallet, StopWaiting, Alive
  <2>2. \A c \in Session : stage'[c] = "idle" => stage[c] = "idle"
    BY <1>t, <1>3 DEF SetWallet, StopWaiting
  <2>3. rivals' = {t \in Session : stage[t] # "idle"}
    BY <1>3 DEF SetWallet
  <2>. QED
    BY <2>1, <2>2, <2>3 DEF RivalInv
<1>4. ASSUME NEW s \in Session, Await(s), ~SetWallet(s) PROVE RivalInv'
  <2>1. \A c \in Session : Alive(c)' => Alive(c)
    <3>1. CASE NoSession(s) \/ TakeConnector(s) \/ Leave(s) \/ ReplyAndClearMeta(s)
      BY <1>t, <3>1, NoneAssumption DEF NoSession, TakeConnector, Leave, ReplyAndClearMeta, Alive
    <3>2. CASE AwaitTimesOut(s) \/ PresentProof(s) \/ RejectProof(s) \/ RefuseProof(s) \/ SetWalletFails(s)
      BY <1>t, <3>2, NoneAssumption DEF AwaitTimesOut, PresentProof, RejectProof,
     RefuseProof, SetWalletFails,
         ConsumeNonce, StopWaiting, Alive
    <3>3. CASE AcceptProof(s)
      BY <1>t, <3>3 DEF AcceptProof, ConsumeNonce, Alive
    <3>. QED
      BY <1>4, <3>1, <3>2, <3>3 DEF Await
  <2>2. \A c \in Session : stage'[c] = "idle" => stage[c] = "idle"
    BY <1>t, <1>4 DEF Await, NoSession, TakeConnector, AwaitTimesOut, PresentProof, RejectProof,
     RefuseProof,
       AcceptProof, ConsumeNonce, SetWalletFails, Leave, ReplyAndClearMeta, StopWaiting
  <2>3. UNCHANGED <<wallet, rivals>>
    BY <1>4 DEF Await, NoSession, TakeConnector, AwaitTimesOut, PresentProof, RejectProof,
     RefuseProof,
       AcceptProof, ConsumeNonce, SetWalletFails, Leave, ReplyAndClearMeta
  <2>. QED
    BY <2>1, <2>2, <2>3, RivalKept
<1>5. ASSUME NEW a \in Caller, Disconnect(a) PROVE RivalInv'
  <2>1. wallet' \in {wallet, None} /\ (wallet' # None => UNCHANGED rivals)
    BY <1>5 DEF Disconnect, PopConnector, CloseLink, ClearWallet, TeardownFails, PurgeKeys,
       PurgeNonce, PurgeMeta
  <2>2. UNCHANGED <<stage, waits>> /\ connector' \in {connector, None}
    BY <1>5 DEF Disconnect, PopConnector, CloseLink, ClearWallet, TeardownFails, PurgeKeys,
       PurgeNonce, PurgeMeta
  <2>. QED
    BY <2>1, <2>2, RivalKept, NoneAssumption DEF Alive
<1>6. CASE Crash
  <2>1. \A c \in Session : Alive(c)' => Alive(c)
    BY <1>t, <1>6, NoneAssumption DEF Crash, Alive
  <2>. QED
    BY <1>t, <1>6, <2>1, RivalKept DEF Crash
<1>7. ASSUME \/ \E s \in Session : Approve(s) \/ GetLate(s)
             \/ AskDisconnect \/ Cleanup \/ KeysExpire \/ MetaExpires \/ UNCHANGED vars
      PROVE  RivalInv'
  <2>1. UNCHANGED <<wallet, rivals, stage, waits, connector>>
    BY <1>7 DEF Approve, GetLate, AskDisconnect, Cleanup, BeginPass, ReadMeta, CheckKeys, DropMeta,
       KeysExpire, MetaExpires, vars
  <2>. QED
    BY <2>1, RivalKept DEF Alive
<1>. QED
  BY <1>1, <1>2, <1>3, <1>4, <1>5, <1>6, <1>7 DEF Next

-----------------------------------------------------------------------------
\* A session leaves the places from which its object is looked after only by
\* taking it, or another, out of the dictionary.
LEMMA LeakStep == ASSUME TypeOK, OnlyFailedStartsLeak, [Next]_vars PROVE OnlyFailedStartsLeak'
<1>. DEFINE Held == LookedAfter \cup {"failed"}
<1>t. /\ stage \in [Session -> Stages] /\ connector \in MaybeSession
      /\ connector # None => stage[connector] \in Held
  BY DEF TypeOK, OnlyFailedStartsLeak
<1>k. ASSUME connector' \in {connector, None},
             \A c \in Session : stage[c] \in Held => stage'[c] \in Held
      PROVE  OnlyFailedStartsLeak'
  BY <1>t, <1>k, NoneAssumption DEF OnlyFailedStartsLeak, MaybeSession
<1>g. ASSUME NEW s \in Session, NEW there, Goto(s, there),
             there \in Held \/ stage[s] \notin Held
      PROVE  \A c \in Session : stage[c] \in Held => stage'[c] \in Held
  BY <1>t, <1>g DEF Goto
<1>u. "linking" \in Held /\ "linked" \in Held /\ "await" \in Held /\ "wait" \in Held /\ "verify" \in Held
      /\ "bind" \in Held /\ "leave" \in Held /\ "failed" \in Held
      /\ "idle" \notin Held /\ "read" \notin Held /\ "nonced" \notin Held /\ "reply" \notin Held
  BY DEF LookedAfter
<1>. HIDE DEF Held
<1>1. ASSUME NEW s \in Session, PutConnector(s) PROVE OnlyFailedStartsLeak'
  BY <1>t, <1>1 DEF PutConnector, Goto, OnlyFailedStartsLeak, LookedAfter
<1>2. ASSUME NEW s \in Session,
             \/ Refuse(s) \/ ReadUser(s) \/ SetNonce(s) \/ Link(s) \/ StartFails(s) \/ SaveMeta(s)
      PROVE  OnlyFailedStartsLeak'
  <2>1. UNCHANGED connector
    BY <1>2 DEF Refuse, ReadUser, SetNonce, Link, StartFails, SaveMeta
  <2>2. CASE Refuse(s) \/ ReadUser(s) \/ SetNonce(s)
    BY <1>u, <1>g, <1>k, <2>1, <2>2 DEF Refuse, ReadUser, SetNonce
  <2>3. CASE Link(s) \/ SaveMeta(s)
    BY <1>u, <1>g, <1>k, <2>1, <2>3 DEF Link, SaveMeta
  <2>4. CASE StartFails(s)
    <3>1. CASE stage[s] \in {"read", "nonced"}
      BY <1>u, <1>g, <1>k, <2>1, <2>4, <3>1 DEF StartFails
    <3>2. CASE stage[s] \notin {"read", "nonced"}
      BY <1>u, <1>g, <1>k, <2>1, <2>4, <3>2 DEF StartFails
    <3>. QED
      BY <3>1, <3>2
  <2>. QED
    BY <1>2, <2>2, <2>3, <2>4
<1>3. ASSUME NEW s \in Session, Await(s) PROVE OnlyFailedStartsLeak'
  <2>1. CASE NoSession(s)
    BY <2>1 DEF NoSession, OnlyFailedStartsLeak
  <2>2. CASE Leave(s)
    BY <2>2 DEF Leave, OnlyFailedStartsLeak
  <2>3. CASE ReplyAndClearMeta(s)
    BY <1>u, <1>g, <1>k, <2>3 DEF ReplyAndClearMeta
  <2>4. CASE TakeConnector(s)
    BY <1>u, <1>g, <1>k, <2>4 DEF TakeConnector
  <2>5. CASE AcceptProof(s)
    BY <1>u, <1>g, <1>k, <2>5 DEF AcceptProof, ConsumeNonce
  <2>6. CASE AwaitTimesOut(s) \/ PresentProof(s) \/ RejectProof(s) \/ RefuseProof(s)
    BY <1>u, <1>g, <1>k, <2>6 DEF AwaitTimesOut, PresentProof, RejectProof,
     RefuseProof, ConsumeNonce, StopWaiting
  <2>7. CASE SetWallet(s) \/ SetWalletFails(s)
    BY <1>u, <1>g, <1>k, <2>7 DEF SetWallet, SetWalletFails, StopWaiting
  <2>. QED
    BY <1>3, <2>1, <2>2, <2>3, <2>4, <2>5, <2>6, <2>7 DEF Await
<1>4. ASSUME NEW a \in Caller, Disconnect(a) PROVE OnlyFailedStartsLeak'
  <2>1. UNCHANGED stage /\ connector' \in {connector, None}
    BY <1>4 DEF Disconnect, PopConnector, CloseLink, ClearWallet, TeardownFails, PurgeKeys,
       PurgeNonce, PurgeMeta, task
  <2>. QED
    BY <1>k, <2>1
<1>5. ASSUME \/ \E s \in Session : Approve(s) \/ GetLate(s)
             \/ AskDisconnect \/ Cleanup \/ KeysExpire \/ MetaExpires \/ UNCHANGED vars
      PROVE  OnlyFailedStartsLeak'
  <2>1. UNCHANGED <<stage, connector>>
    BY <1>5 DEF Approve, GetLate, AskDisconnect, Cleanup, BeginPass, ReadMeta, CheckKeys, DropMeta,
       KeysExpire, MetaExpires, vars, task
  <2>. QED
    BY <1>k, <2>1
<1>6. CASE Crash
  BY <1>6 DEF Crash, OnlyFailedStartsLeak
<1>. QED
  BY <1>1, <1>2, <1>3, <1>4, <1>5, <1>6 DEF Next, Connect

-----------------------------------------------------------------------------
\* No session begins to rely on anything, and the others still find their own.
LEMMA CrossKept ==
    ASSUME CrossInv, Relying' \subseteq Relying, crossed \subseteq crossed',
           Purging' => Purging \/ Relying' \subseteq crossed',
           \A s \in Relying' \ crossed' : Relying = {s} =>
               /\ stage'[s] # "nonced" => connector' = s
               /\ stage'[s] \in {"wait", "verify", "bind"} => waits'[s] = s
               /\ stage'[s] \notin {"bind", "leave"} => nonce' = s \/ s \in late'
    PROVE  CrossInv'
BY DEF CrossInv, UncrossedFindsItsOwn

\* What a session finds does not change while it stays where it is.
LEMMA CrossQuiet ==
    ASSUME CrossInv, UNCHANGED <<stage, waits, connector, crossed>>,
           Purging' => Purging, late \subseteq late',
           nonce' = nonce \/ (nonce' = None /\ nonce \in late')
    PROVE  CrossInv'
<1>1. Relying' = Relying
  BY DEF Relying
<1>. QED
  BY <1>1 DEF CrossInv, UncrossedFindsItsOwn

LEMMA CrossConnect ==
    ASSUME TypeOK, CrossInv, NEW s \in Session, Connect(s)
    PROVE  CrossInv'
<1>. USE DEF stored, clock, job, history, task, Goto
<1>t. stage \in [Session -> Stages] /\ crossed \subseteq Session
  BY DEF TypeOK
<1>c. CrossInv
  OBVIOUS
<1>1. CASE Refuse(s) \/ ReadUser(s) \/ StartFails(s)
  <2>1. \A c \in Session \ {s} : stage'[c] = stage[c]
    BY <1>t, <1>1 DEF Refuse, ReadUser, StartFails
  <2>2. s \notin Relying'
    BY <1>t, <1>1 DEF Refuse, ReadUser, StartFails, Relying, LookedAfter
  <2>3. UNCHANGED <<waits, connector, crossed, nonce, late, teardown>>
    BY <1>1 DEF Refuse, ReadUser, StartFails
  <2>4. Relying' \subseteq Relying
    BY <2>1, <2>2 DEF Relying
  <2>. QED
    BY <1>c, <2>1, <2>2, <2>3, <2>4, CrossKept DEF CrossInv, UncrossedFindsItsOwn, Purging, Relying
<1>2. CASE SetNonce(s)
  <2>1. Relying' = Relying \cup {s} /\ s \notin Relying /\ stage'[s] = "nonced"
    BY <1>t, <1>2 DEF SetNonce, Relying, LookedAfter
  <2>2. Purging' = Purging /\ nonce' = s
    BY <1>2 DEF SetNonce, Purging
  <2>3. CASE Purging \/ Relying # {}
    <3>1. Relying' \subseteq crossed'
      BY <1>2, <2>1, <2>3 DEF SetNonce
    <3>. QED
      BY <3>1 DEF CrossInv, UncrossedFindsItsOwn
  <2>4. CASE ~Purging /\ Relying = {}
    BY <2>1, <2>2, <2>4 DEF CrossInv, UncrossedFindsItsOwn
  <2>. QED
    BY <2>3, <2>4
<1>3. CASE PutConnector(s)
  <2>1. s \in Relying /\ Relying' = Relying /\ stage' = [stage EXCEPT ![s] = "linking"]
    BY <1>t, <1>3 DEF PutConnector, Relying, LookedAfter
  <2>2. connector' = s /\ UNCHANGED <<waits, crossed, nonce, late, teardown>>
    BY <1>3 DEF PutConnector
  <2>3. stage[s] = "nonced"
    BY <1>3 DEF PutConnector
  <2>4. ASSUME NEW c \in Relying \ crossed PROVE c = s
    BY <2>1, <2>4 DEF CrossInv
  <2>5. s \in crossed \/ nonce = s \/ s \in late
    BY <2>1, <2>3 DEF CrossInv, UncrossedFindsItsOwn
  <2>. QED
    BY <1>t, <1>c, <2>1, <2>2, <2>4, <2>5, CrossKept DEF Purging
<1>4. CASE Link(s) \/ SaveMeta(s)
  <2>1. /\ s \in Relying /\ Relying' = Relying
        /\ \A c \in Session : c # s => stage'[c] = stage[c]
        /\ stage[s] \in {"linking", "linked"} /\ stage'[s] \in {"linked", "await"}
    BY <1>t, <1>4 DEF Link, SaveMeta, Relying, LookedAfter
  <2>2. UNCHANGED <<waits, connector, crossed, nonce, late, teardown>>
    BY <1>4 DEF Link, SaveMeta
  <2>3. s \in crossed \/ (connector = s /\ (nonce = s \/ s \in late))
    BY <2>1 DEF CrossInv, UncrossedFindsItsOwn
  <2>. QED
    BY <1>c, <2>1, <2>2, <2>3, CrossKept DEF CrossInv, Purging
<1>. QED
  BY <1>1, <1>2, <1>3, <1>4 DEF Connect

LEMMA CrossAwait ==
    ASSUME TypeOK, CrossInv, NEW s \in Session, Await(s)
    PROVE  CrossInv'
<1>. USE DEF stored, clock, job, history, task, Goto
<1>t. stage \in [Session -> Stages] /\ waits \in [Session -> MaybeSession]
  BY DEF TypeOK
<1>c. CrossInv /\ \A c \in Relying \ crossed : s \in Relying => c = s
  BY DEF CrossInv
<1>1. UNCHANGED <<crossed, late, teardown>> /\ (Purging' => Purging)
  BY DEF Await, NoSession, TakeConnector, AwaitTimesOut, PresentProof, RejectProof,
     RefuseProof, AcceptProof,
     SetWallet, SetWalletFails, Leave, ReplyAndClearMeta, Purging
<1>2. CASE TakeConnector(s)
  <2>1. /\ s \in Relying /\ Relying' = Relying /\ stage[s] = "await" /\ stage'[s] = "wait"
        /\ waits'[s] = connector
    BY <1>t, <1>2 DEF TakeConnector, Relying, LookedAfter
  <2>2. s \in crossed \/ (connector = s /\ (nonce = s \/ s \in late))
    BY <2>1 DEF CrossInv, UncrossedFindsItsOwn
  <2>3. UNCHANGED <<connector, nonce>>
    BY <1>2 DEF TakeConnector
  <2>. QED
    BY <1>c, <1>1, <2>1, <2>2, <2>3, CrossKept
<1>3. CASE AcceptProof(s) \/ AwaitTimesOut(s) \/ PresentProof(s) \/ RejectProof(s) \/ RefuseProof(s)
           \/ SetWallet(s) \/ SetWalletFails(s)
  <2>1. /\ s \in Relying /\ Relying' = Relying /\ stage[s] \in {"wait", "verify", "bind"}
        /\ stage'[s] \in {"verify", "bind", "leave"}
        /\ stage'[s] \in {"verify", "bind"} => waits'[s] = waits[s]
        /\ stage'[s] = "verify" => stage[s] = "wait" /\ nonce' = nonce
    BY <1>t, <1>3 DEF AcceptProof, ConsumeNonce, AwaitTimesOut, PresentProof, RejectProof,
     RefuseProof, SetWallet,
       SetWalletFails, StopWaiting, Relying, LookedAfter
  <2>2. \/ s \in crossed
        \/ connector = s /\ waits[s] = s /\ (stage[s] = "wait" => nonce = s \/ s \in late)
    BY <2>1 DEF CrossInv, UncrossedFindsItsOwn
  <2>3. UNCHANGED connector
    BY <1>3 DEF AcceptProof, ConsumeNonce, AwaitTimesOut, PresentProof, RejectProof,
     RefuseProof, SetWallet,
       SetWalletFails
  <2>. QED
    BY <1>c, <1>1, <2>1, <2>2, <2>3, CrossKept
<1>4. CASE NoSession(s) \/ Leave(s)
  <2>1. s \in Relying /\ Relying' = Relying \ {s}
    BY <1>t, <1>4 DEF NoSession, Leave, Relying, LookedAfter
  <2>2. Relying' \subseteq crossed'
    BY <1>c, <1>1, <2>1
  <2>. QED
    BY <1>c, <1>1, <2>1, <2>2, CrossKept
<1>5. CASE ReplyAndClearMeta(s)
  <2>1. s \notin Relying /\ Relying' = Relying /\ \A c \in Relying : stage'[c] = stage[c]
    BY <1>t, <1>5 DEF ReplyAndClearMeta, Relying, LookedAfter
  <2>2. UNCHANGED <<waits, connector, nonce>>
    BY <1>5 DEF ReplyAndClearMeta
  <2>. QED
    BY <1>c, <1>1, <2>1, <2>2, CrossKept DEF CrossInv, UncrossedFindsItsOwn
<1>. QED
  BY <1>2, <1>3, <1>4, <1>5 DEF Await

LEMMA CrossDisconnect ==
    ASSUME TypeOK, CrossInv, NEW a \in Caller, Disconnect(a)
    PROVE  CrossInv'
<1>. USE DEF stored, clock, job, history, task, TeardownGoto
<1>t. teardown \in [Caller -> Teardowns]
  BY DEF TypeOK
<1>c. CrossInv
  OBVIOUS
<1>1. UNCHANGED <<stage, waits, late>> /\ Relying' = Relying /\ crossed \subseteq crossed'
  BY DEF Disconnect, PopConnector, CloseLink, ClearWallet, TeardownFails, PurgeKeys, PurgeNonce,
     PurgeMeta, Relying
<1>2. CASE PopConnector(a)
  <2>1. Relying' \subseteq crossed'
    BY <1>1, <1>2 DEF PopConnector
  <2>. QED
    BY <1>c, <1>1, <2>1, CrossKept
<1>3. CASE PurgeNonce(a)
  <2>1. Purging
    BY <1>3 DEF PurgeNonce, Purging
  <2>2. Relying' \subseteq crossed'
    BY <1>c, <1>1, <2>1 DEF CrossInv
  <2>. QED
    BY <1>c, <1>1, <2>2, CrossKept
<1>4. CASE CloseLink(a) \/ ClearWallet(a) \/ TeardownFails(a) \/ PurgeKeys(a) \/ PurgeMeta(a)
  <2>1. UNCHANGED <<connector, crossed, nonce>>
    BY <1>4 DEF CloseLink, ClearWallet, TeardownFails, PurgeKeys, PurgeMeta
  <2>2. Purging' => Purging
    BY <1>t, <1>4 DEF CloseLink, ClearWallet, TeardownFails, Return, PurgeKeys, PurgeMeta, Purging
  <2>. QED
    BY <1>c, <1>1, <2>1, <2>2, CrossQuiet
<1>. QED
  BY <1>2, <1>3, <1>4 DEF Disconnect

LEMMA CrossStep == ASSUME TypeOK, CrossInv, [Next]_vars PROVE CrossInv'
<1>. USE DEF stored, clock, job, history, task, TeardownGoto
<1>t. /\ teardown \in [Caller -> Teardowns]
      /\ nonce \in MaybeSession
  BY DEF TypeOK
<1>c. CrossInv
  OBVIOUS
<1>1. ASSUME NEW s \in Session, GetLate(s) PROVE CrossInv'
  <2>1. UNCHANGED <<stage, waits, connector, crossed>> /\ (Purging' => Purging)
    BY <1>1 DEF GetLate, Purging
  <2>2. late \subseteq late' /\ (nonce' = nonce \/ (nonce' = None /\ nonce \in late'))
    BY <1>1 DEF GetLate
  <2>. QED
    BY <1>c, <2>1, <2>2, CrossQuiet
<1>2. ASSUME AskDisconnect \/ Cleanup PROVE CrossInv'
  <2>1. UNCHANGED <<stage, waits, connector, crossed, late, nonce>>
    BY <1>2 DEF AskDisconnect, Cleanup, BeginPass, ReadMeta, CheckKeys, DropMeta
  <2>2. Purging' => Purging
    <3>1. PICK b \in Caller, there \in {"pop", "idle", "scan", "check"} :
             teardown' = [teardown EXCEPT ![b] = there]
      BY <1>2 DEF AskDisconnect, Cleanup, BeginPass, ReadMeta, CheckKeys, DropMeta, Caller
    <3>. QED
      BY <1>t, <3>1 DEF Purging
  <2>. QED
    BY <1>c, <2>1, <2>2, CrossQuiet
<1>3. ASSUME (\E s \in Session : Approve(s)) \/ KeysExpire \/ MetaExpires \/ UNCHANGED vars
      PROVE  CrossInv'
  <2>1. UNCHANGED <<stage, waits, connector, crossed, late, nonce, teardown>>
    BY <1>3 DEF Approve, KeysExpire, MetaExpires, vars
  <2>. QED
    BY <1>c, <2>1, CrossQuiet DEF Purging
<1>4. CASE Crash
  <2>1. Relying' = {}
    BY <1>4 DEF Crash, Relying, LookedAfter
  <2>. QED
    BY <2>1 DEF CrossInv, UncrossedFindsItsOwn
<1>. QED
  BY <1>1, <1>2, <1>3, <1>4, CrossConnect, CrossAwait, CrossDisconnect DEF Next

-----------------------------------------------------------------------------
\* The inductive invariant holds throughout.
THEOREM Invariant == Spec => []IInv
<1>1. Init => IInv
  BY InvInit
<1>2. IInv /\ [Next]_vars => IInv'
  BY TypeStep, NonceStep, RivalStep, LeakStep, CrossStep DEF IInv
<1>. QED
  BY <1>1, <1>2, PTL DEF Spec

\* Every key, column and dictionary entry names a session, and a task that
\* waits (await_connection) holds an SDK object.
THEOREM TypeCorrect == Spec => []TypeOK
<1>1. IInv => TypeOK
  BY DEF IInv
<1>. QED
  BY <1>1, Invariant, PTL

\* await_connection pops whatever is in the dictionary, and that suffices.
THEOREM NothingElseLeaks == Spec => []OnlyFailedStartsLeak
<1>1. IInv => OnlyFailedStartsLeak
  BY DEF IInv
<1>. QED
  BY <1>1, Invariant, PTL

\* The keys of a user serve one session at a time, and only sessions under way
\* together, or a disconnect(), take them from each other.
THEOREM UncrossedSessionsHold == Spec => []UncrossedFindsItsOwn
<1>1. IInv => UncrossedFindsItsOwn
  BY DEF IInv, CrossInv
<1>. QED
  BY <1>1, Invariant, PTL

\* Only verify_proof's success takes a task from waiting to binding.
LEMMA AcceptStep ==
    ASSUME TypeOK, [Next]_vars, NEW s \in Session, Accepts(s)
    PROVE  AcceptProof(s)
<1>. USE DEF TypeOK, Goto, Accepts
<1>1. ASSUME NEW t \in Session, Connect(t) PROVE FALSE
  BY <1>1 DEF Connect, Refuse, ReadUser, SetNonce, PutConnector, Link, StartFails, SaveMeta
<1>2. ASSUME NEW t \in Session, Await(t) PROVE AcceptProof(t) /\ t = s
  BY <1>2 DEF Await, NoSession, TakeConnector, AwaitTimesOut, PresentProof, RejectProof,
     RefuseProof, AcceptProof,
     ConsumeNonce, SetWallet, SetWalletFails, Leave, ReplyAndClearMeta, StopWaiting
<1>3. ASSUME NEW a \in Caller, Disconnect(a) PROVE FALSE
  BY <1>3 DEF Disconnect, PopConnector, CloseLink, ClearWallet, TeardownFails, PurgeKeys, PurgeNonce,
     PurgeMeta, task
<1>4. ASSUME \/ \E t \in Session : Approve(t) \/ GetLate(t)
             \/ AskDisconnect \/ Cleanup \/ KeysExpire \/ MetaExpires \/ Crash \/ UNCHANGED vars
      PROVE  FALSE
  BY <1>4 DEF Approve, GetLate, AskDisconnect, Cleanup, BeginPass, ReadMeta, CheckKeys, DropMeta,
     KeysExpire, MetaExpires, Crash, vars, task
<1>. QED
  BY <1>1, <1>2, <1>3, <1>4 DEF Next

\* The proof of a session is accepted at most once (the GETDEL of verify_proof).
THEOREM ProofsCountOnce == Spec => ProofCountsOnce
<1>1. ASSUME IInv, [Next]_vars
      PROVE  [\A s \in Session : Accepts(s) => waits[s] \notin spent]_vars
  <2>. SUFFICES ASSUME NEW s \in Session, Accepts(s) PROVE waits[s] \notin spent
    OBVIOUS
  <2>1. AcceptProof(s)
    BY <1>1, AcceptStep DEF IInv
  <2>2. nonce = waits[s] /\ waits[s] \in Session
    BY <1>1, <2>1 DEF AcceptProof, ConsumeNonce, IInv, TypeOK
  <2>. QED
    BY <1>1, <2>2, NoneAssumption DEF IInv, NonceInv
<1>. QED
  BY <1>1, Invariant, PTL DEF Spec, ProofCountsOnce

\* A disconnect that has deleted the nonce (_purge_redis_keys) ends every
\* session begun until then, whether or not its task still waits.
THEOREM DisconnectsEndSessions == Spec => DisconnectEndsSessions
<1>1. ASSUME IInv, [Next]_vars
      PROVE  [\A s \in Session : Accepts(s) => waits[s] \notin ended]_vars
  <2>. SUFFICES ASSUME NEW s \in Session, Accepts(s) PROVE waits[s] \notin ended
    OBVIOUS
  <2>1. AcceptProof(s)
    BY <1>1, AcceptStep DEF IInv
  <2>2. nonce = waits[s] /\ waits[s] \in Session
    BY <1>1, <2>1 DEF AcceptProof, ConsumeNonce, IInv, TypeOK
  <2>. QED
    BY <1>1, <2>2, NoneAssumption DEF IInv, NonceInv
<1>. QED
  BY <1>1, Invariant, PTL DEF Spec, DisconnectEndsSessions

\* set_wallet replaces a bound wallet only for a session that had passed the
\* check of start_connection before that wallet was bound.
THEOREM RivalsReplace == Spec => OnlyRivalsReplace
<1>1. ASSUME IInv, [Next]_vars
      PROVE  [wallet # None /\ wallet' # wallet /\ wallet' # None => wallet' \in rivals]_vars
  <2>. SUFFICES ASSUME wallet # None, wallet' # wallet, wallet' # None PROVE wallet' \in rivals
    OBVIOUS
  <2>. USE DEF stored, task
  <2>1. ASSUME NEW s \in Session, SetWallet(s) PROVE wallet' \in rivals
    <3>1. wallet' = waits[s] /\ waits[s] \in Session
      BY <1>1, <2>1 DEF SetWallet, IInv, TypeOK
    <3>. QED
      BY <1>1, <3>1 DEF IInv, RivalInv, Alive
  <2>2. ASSUME NEW s \in Session, Connect(s) PROVE FALSE
    BY <2>2 DEF Connect, Refuse, ReadUser, SetNonce, PutConnector, Link, StartFails, SaveMeta
  <2>3. ASSUME NEW s \in Session, Await(s), ~SetWallet(s) PROVE FALSE
    BY <2>3 DEF Await, NoSession, TakeConnector, AwaitTimesOut, PresentProof, RejectProof,
     RefuseProof,
       AcceptProof, SetWalletFails, Leave, ReplyAndClearMeta
  <2>4. ASSUME NEW a \in Caller, Disconnect(a) PROVE FALSE
    BY <2>4 DEF Disconnect, PopConnector, CloseLink, ClearWallet, TeardownFails, PurgeKeys,
       PurgeNonce, PurgeMeta
  <2>5. ASSUME \/ \E t \in Session : Approve(t) \/ GetLate(t)
               \/ AskDisconnect \/ Cleanup \/ KeysExpire \/ MetaExpires \/ Crash \/ UNCHANGED vars
        PROVE  FALSE
    BY <2>5 DEF Approve, GetLate, AskDisconnect, Cleanup, BeginPass, ReadMeta, CheckKeys, DropMeta,
       KeysExpire, MetaExpires, Crash, vars
  <2>. QED
    BY <1>1, <2>1, <2>2, <2>3, <2>4, <2>5 DEF Next
<1>. QED
  BY <1>1, Invariant, PTL DEF Spec, OnlyRivalsReplace
=============================================================================
