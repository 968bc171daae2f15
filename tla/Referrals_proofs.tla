-------------------------- MODULE Referrals_proofs --------------------------
(***************************************************************************)
(* Proofs about Referrals, for any number of updates in flight, any        *)
(* required channels and scenarios, and any number of faults.              *)
(***************************************************************************)
EXTENDS Referrals, TLAPS

\* The row is stamped once, by one transaction at a time.
CountInv == CreditedOnce /\ (lock # NoTask => ~credited)

\* Whoever got past the gate has answered, or an admin has stepped in.
VetInv ==
    /\ status = "absent" => ~gated
    /\ gated /\ status = "active" => vetted

\* An attempt to settle that has read the row.
Settles(t) == pc[t] \in {"stamp", "commit"} \/ (pc[t] \in CheckLabel /\ goal[t] = "credit")

\* What a task rests on: the captcha, and the channels its check has seen.
TaskInv(t) ==
    /\ pc[t] \in {"delete", "activate"} => vetted
    /\ captchaOn /\ Settles(t) => vetted \/ t \in early
    /\ pc[t] = "probe" => Channel \subseteq todo[t] \cup lacking[t] \cup skipped[t] \cup joined
    /\ pc[t] = "getMember" =>
        /\ asking[t] \in Channel
        /\ Channel \subseteq todo[t] \cup lacking[t] \cup skipped[t] \cup joined \cup {asking[t]}
    /\ subsOn /\ pc[t] \in {"stamp", "commit"} => Channel \subseteq joined \cup skipped[t]

ChannelInv == member \subseteq joined /\ cached \subseteq joined /\ CreditAfterJoining

\* No task runs before the row is there.
RowFirst == status = "absent" => \A t \in Task : pc[t] = "idle"

IInv ==
    /\ TypeOK
    /\ RowFirst
    /\ CountInv
    /\ VetInv
    /\ \A t \in Task : TaskInv(t)
    /\ ChannelInv
    /\ ReferredUnlessFault

LocalsTyped ==
    /\ pc \in [Task -> Label]
    /\ kind \in [Task -> Kind]
    /\ row \in [Task -> [status : Status, created : BOOLEAN]]
    /\ goal \in [Task -> Goal]
    /\ early \subseteq Task
    /\ CheckTypeOK

\* A step of the tasks in S leaves the others alone.
OthersKeep(S) ==
    \A s \in Task \ S :
        /\ pc'[s] = pc[s]
        /\ goal'[s] = goal[s]
        /\ todo'[s] = todo[s]
        /\ asking'[s] = asking[s]
        /\ lacking'[s] = lacking[s]
        /\ skipped'[s] = skipped[s]
        /\ s \in early' <=> s \in early

\* The places at which a task rests on nothing.
Plain == {"idle", "refer", "antispam", "setPending", "save", "getData", "setData", "credit"}

-----------------------------------------------------------------------------
LEMMA InvInit == ASSUME Init PROVE IInv
<1>. USE DEF Init, CheckInit
<1>1. TypeOK
  <2>1. NoRow \in [status : Status, created : BOOLEAN]
    BY DEF NoRow, Status
  <2>2. captchaOn \in BOOLEAN /\ subsOn \in BOOLEAN /\ slashes \in BOOLEAN
    BY ScenariosAreTriples
  <2>3. 0 \in 0..MaxFaults
    BY MaxFaultsNat
  <2>. QED
    BY <2>1, <2>2, <2>3, NoTaskIsNone DEF TypeOK, CheckTypeOK, Status, Kind, Goal, Label
<1>2. CountInv /\ VetInv /\ RowFirst
  BY DEF CountInv, CreditedOnce, VetInv, RowFirst
<1>3. \A t \in Task : TaskInv(t)
  BY DEF TaskInv, Settles, CheckLabel
<1>4. ChannelInv /\ ReferredUnlessFault
  BY DEF ChannelInv, CreditAfterJoining, ReferredUnlessFault
<1>. QED
  BY <1>1, <1>2, <1>3, <1>4 DEF IInv

\* The invariant of a task that does not move survives what the others do.
LEMMA OtherTasks ==
    ASSUME IInv, NEW S, OthersKeep(S), UNCHANGED <<captchaOn, subsOn>>, vetted => vetted',
           joined \subseteq joined'
    PROVE  \A s \in Task \ S : TaskInv(s)'
BY DEF IInv, OthersKeep, TaskInv, Settles

LEMMA PlainTask ==
    ASSUME NEW t \in Task, pc[t] \in Plain
    PROVE  TaskInv(t)
BY DEF Plain, TaskInv, Settles, CheckLabel

-----------------------------------------------------------------------------
\* Where a task goes with OnlyGoto.
LEMMA GotoMoves ==
    ASSUME TypeOK, NEW t \in Task, NEW label \in Label, OnlyGoto(t, label)
    PROVE  /\ LocalsTyped' /\ pc'[t] = label /\ OthersKeep({t})
           /\ UNCHANGED <<telegramVars, cached, todo, lacking, skipped, early, goal>>
<1>1. /\ pc' = [pc EXCEPT ![t] = label] /\ pc \in [Task -> Label]
      /\ UNCHANGED <<kind, row, goal, early, member, joined, cached, todo, asking, lacking, skipped>>
  BY DEF OnlyGoto, Goto, localVars, checkerVars, telegramVars, checkVars, TypeOK
<1>. QED
  BY <1>1 DEF TypeOK, CheckTypeOK, LocalsTyped, OthersKeep, telegramVars

\* Where tasks go with End.
LEMMA EndMoves ==
    ASSUME TypeOK, NEW S \in SUBSET Task, End(S)
    PROVE  /\ LocalsTyped' /\ OthersKeep(S) /\ \A s \in S : pc'[s] = "idle"
           /\ UNCHANGED <<telegramVars, cached>>
<1>1. NoRow \in [status : Status, created : BOOLEAN] /\ "idle" \in Label /\ "message" \in Kind /\ "none" \in Goal
  BY DEF NoRow, Status, Label, Kind, Goal
<1>2. /\ pc' \in [Task -> Label] /\ kind' \in [Task -> Kind] /\ goal' \in [Task -> Goal]
      /\ early' \subseteq Task
  BY <1>1 DEF TypeOK, End
<1>3. row' \in [Task -> [status : Status, created : BOOLEAN]]
  BY <1>1 DEF TypeOK, End
<1>4. CheckTypeOK'
  BY DEF TypeOK, CheckTypeOK, End, telegramVars
<1>5. OthersKeep(S) /\ \A s \in S : pc'[s] = "idle"
  BY DEF End, OthersKeep, TypeOK
<1>. QED
  BY <1>2, <1>3, <1>4, <1>5 DEF LocalsTyped, End

\* Where a task goes with CheckFor.
LEMMA CheckForMoves ==
    ASSUME TypeOK, NEW t \in Task, NEW purpose \in Goal, CheckFor(t, purpose),
           early' \subseteq Task, \A s \in Task \ {t} : s \in early' <=> s \in early
    PROVE  /\ LocalsTyped' /\ OthersKeep({t})
           /\ pc'[t] = "probe" /\ goal'[t] = purpose /\ todo'[t] = Channel
           /\ UNCHANGED <<telegramVars, cached>>
<1>1. NoRow \in [status : Status, created : BOOLEAN] /\ "probe" \in Label
  BY DEF NoRow, Status, Label, CheckLabel
<1>2. /\ pc' = [pc EXCEPT ![t] = "probe"] /\ goal' = [goal EXCEPT ![t] = purpose]
      /\ row' = [row EXCEPT ![t] = NoRow]
      /\ todo' = [todo EXCEPT ![t] = Channel] /\ lacking' = [lacking EXCEPT ![t] = {}]
      /\ skipped' = [skipped EXCEPT ![t] = {}]
      /\ UNCHANGED <<member, joined, cached, kind, asking>>
  BY DEF CheckFor, BeginCheck, ForgetRow, telegramVars
<1>3. row' \in [Task -> [status : Status, created : BOOLEAN]]
  BY <1>1, <1>2 DEF TypeOK
<1>4. CheckTypeOK'
  BY <1>2 DEF TypeOK, CheckTypeOK
<1>5. pc' \in [Task -> Label] /\ goal' \in [Task -> Goal] /\ kind' \in [Task -> Kind]
  BY <1>1, <1>2 DEF TypeOK
<1>6. OthersKeep({t}) /\ pc'[t] = "probe" /\ goal'[t] = purpose /\ todo'[t] = Channel
  BY <1>2 DEF OthersKeep, TypeOK, CheckTypeOK
<1>. QED
  BY <1>2, <1>3, <1>4, <1>5, <1>6 DEF LocalsTyped, telegramVars

\* Where a task goes with Concluded.
LEMMA ConcludedMoves ==
    ASSUME TypeOK, NEW t \in Task, NEW label \in Label, Concluded(t, label)
    PROVE  /\ LocalsTyped' /\ OthersKeep({t}) /\ pc'[t] = label
           /\ UNCHANGED <<telegramVars, cached, todo, lacking, skipped, early>>
<1>1. "none" \in Goal
  BY DEF Goal
<1>2. /\ pc' = [pc EXCEPT ![t] = label] /\ goal' = [goal EXCEPT ![t] = "none"]
      /\ UNCHANGED <<kind, row, early, member, joined, cached, todo, asking, lacking, skipped>>
  BY DEF Concluded, Goto, checkerVars, telegramVars, checkVars
<1>. QED
  BY <1>1, <1>2 DEF TypeOK, CheckTypeOK, LocalsTyped, OthersKeep, telegramVars

\* Where a task goes with AfterCredit.
LEMMA AfterCreditMoves ==
    ASSUME TypeOK, NEW t \in Task, AfterCredit(t)
    PROVE  /\ LocalsTyped' /\ OthersKeep({t}) /\ pc'[t] \in {"idle", "antispam"}
           /\ UNCHANGED <<telegramVars, cached>>
<1>1. "antispam" \in Label
  BY DEF Label
<1>. QED
  BY <1>1, GotoMoves, EndMoves DEF AfterCredit

-----------------------------------------------------------------------------
\* A step that leaves the row alone.
LEMMA InvQuiet ==
    ASSUME IInv, NEW t \in Task, LocalsTyped', OthersKeep({t}),
           UNCHANGED <<configVars, rowVars, gated, unverified, telegramVars, cached>>,
           vetted => vetted', vetted' \in BOOLEAN, challenge' \in BOOLEAN, asked' \in BOOLEAN,
           shown' \in BOOLEAN, pending' \in BOOLEAN, unread' \in BOOLEAN,
           faults' \in 0..MaxFaults, faults <= faults',
           pc[t] \notin {"commit", "refer", "idle"}, pc'[t] # "commit", TaskInv(t)'
    PROVE  IInv'
<1>1. /\ UNCHANGED <<captchaOn, subsOn, slashes, status, referrer, credited, count, lock>>
      /\ UNCHANGED <<member, joined, cached, unverified, gated>>
  BY DEF configVars, rowVars, telegramVars
<1>2. TypeOK'
  <2>1. \A s \in Task : pc'[s] = "commit" <=> lock' = s
    BY <1>1 DEF IInv, TypeOK, OthersKeep
  <2>. QED
    BY <1>1, <2>1 DEF IInv, TypeOK, LocalsTyped
<1>3. CountInv' /\ VetInv' /\ ChannelInv' /\ RowFirst'
  BY <1>1 DEF IInv, CountInv, CreditedOnce, VetInv, ChannelInv, CreditAfterJoining, RowFirst
<1>4. \A s \in Task : TaskInv(s)'
  BY <1>1, OtherTasks
<1>5. ReferredUnlessFault'
  <2>1. faults > 0 => faults' > 0
    BY MaxFaultsNat DEF IInv, TypeOK
  <2>2. \A s \in Task : pc[s] = "refer" => pc'[s] = "refer"
    BY DEF OthersKeep
  <2>. QED
    BY <1>1, <2>1, <2>2 DEF IInv, ReferredUnlessFault
<1>. QED
  BY <1>2, <1>3, <1>4, <1>5 DEF IInv

\* The variables about the row's neighbours keep their types.
LEMMA QuietTypes ==
    ASSUME IInv
    PROVE  /\ vetted \in BOOLEAN /\ challenge \in BOOLEAN /\ asked \in BOOLEAN /\ gated \in BOOLEAN
           /\ shown \in BOOLEAN /\ pending \in BOOLEAN /\ unread \in BOOLEAN /\ slashes \in BOOLEAN
           /\ faults \in 0..MaxFaults /\ faults <= faults
           /\ faults < MaxFaults => faults + 1 \in 0..MaxFaults /\ faults <= faults + 1 /\ faults + 1 > 0
BY MaxFaultsNat DEF IInv, TypeOK

\* A step like that to a place where the task rests on nothing.
LEMMA InvQuietPlain ==
    ASSUME IInv, NEW t \in Task, LocalsTyped', OthersKeep({t}), UNCHANGED <<telegramVars, cached>>,
           UNCHANGED <<configVars, rowVars, gated, unverified>>,
           vetted => vetted', vetted' \in BOOLEAN, challenge' \in BOOLEAN, asked' \in BOOLEAN,
           shown' \in BOOLEAN, pending' \in BOOLEAN, unread' \in BOOLEAN,
           faults' \in 0..MaxFaults, faults <= faults',
           pc[t] \notin {"commit", "refer", "idle"}, pc'[t] \in Plain
    PROVE  IInv'
<1>1. TaskInv(t)'
  BY DEF Plain, TaskInv, Settles, CheckLabel
<1>2. pc'[t] # "commit"
  BY DEF Plain
<1>. QED
  BY <1>1, <1>2, InvQuiet

-----------------------------------------------------------------------------
LEMMA InvAntispam ==
    ASSUME IInv, NEW t \in Task, AntispamDrops(t) \/ AntispamAsks(t)
    PROVE  IInv'
<1>1. /\ TypeOK /\ {t} \in SUBSET Task /\ pc[t] = "antispam" /\ "setPending" \in Label
      /\ {"idle", "setPending"} \subseteq Plain
  BY DEF IInv, AntispamDrops, AntispamAsks, AtAntispam, Label, Plain
<1>2. /\ UNCHANGED <<configVars, rowVars, commandVars, unverified, faults, gated, vetted>>
      /\ challenge' \in BOOLEAN /\ asked' \in BOOLEAN
  BY QuietTypes DEF AntispamDrops, AntispamAsks, AtAntispam, captchaVars
<1>3. UNCHANGED <<shown, pending, unread>>
  BY <1>2 DEF commandVars
<1>4. CASE End({t})
  <2>1. /\ LocalsTyped' /\ OthersKeep({t}) /\ pc'[t] = "idle"
        /\ UNCHANGED <<telegramVars, cached>>
    BY <1>1, <1>4, EndMoves
  <2>. QED
    BY <1>1, <1>2, <1>3, <2>1, InvQuietPlain, QuietTypes
<1>5. CASE Goto(t, "setPending") /\ ForgetRow(t) /\ UNCHANGED <<kind, goal, early, checkerVars>>
  <2>1. UNCHANGED <<member, joined, cached, todo, asking, lacking, skipped, kind, goal, early>>
    BY <1>5 DEF checkerVars, telegramVars, checkVars
  <2>2. NoRow \in [status : Status, created : BOOLEAN]
    BY DEF NoRow, Status
  <2>3. pc' \in [Task -> Label] /\ pc'[t] = "setPending" /\ \A s \in Task \ {t} : pc'[s] = pc[s]
    BY <1>1, <1>5 DEF Goto, TypeOK
  <2>4. row' \in [Task -> [status : Status, created : BOOLEAN]]
    BY <1>1, <1>5, <2>2 DEF ForgetRow, TypeOK
  <2>5. LocalsTyped' /\ OthersKeep({t})
    BY <1>1, <2>1, <2>3, <2>4 DEF LocalsTyped, CheckTypeOK, TypeOK, OthersKeep
  <2>. QED
    BY <1>1, <1>2, <1>3, <2>1, <2>3, <2>5, InvQuietPlain, QuietTypes DEF telegramVars
<1>. QED
  BY <1>4, <1>5 DEF AntispamDrops, AntispamAsks

LEMMA InvPasses ==
    ASSUME IInv, NEW t \in Task, Passes(t)
    PROVE  IInv'
<1>1. /\ TypeOK /\ {t} \in SUBSET Task /\ pc[t] = "antispam" /\ "idle" \in Plain
      /\ {"gate", "recheck"} \subseteq Goal
  BY DEF IInv, Passes, AtAntispam, Plain, Goal
<1>2. /\ UNCHANGED <<configVars, rowVars, commandVars, unverified, faults, captchaVars>>
      /\ UNCHANGED <<shown, pending, unread, challenge, asked, gated, vetted>>
  BY DEF Passes, AtAntispam, captchaVars, commandVars
<1>3. CASE End({t})
  <2>1. /\ LocalsTyped' /\ OthersKeep({t}) /\ pc'[t] = "idle"
        /\ UNCHANGED <<telegramVars, cached>>
    BY <1>1, <1>3, EndMoves
  <2>. QED
    BY <1>1, <1>2, <2>1, InvQuietPlain, QuietTypes
<1>4. ASSUME NEW purpose \in {"gate", "recheck"}, CheckFor(t, purpose), UNCHANGED early
      PROVE  IInv'
  <2>1. early' \subseteq Task /\ \A s \in Task \ {t} : s \in early' <=> s \in early
    BY <1>1, <1>4 DEF TypeOK
  <2>2. /\ LocalsTyped' /\ OthersKeep({t})
        /\ pc'[t] = "probe" /\ goal'[t] = purpose /\ todo'[t] = Channel
        /\ UNCHANGED <<telegramVars, cached>>
    BY <1>1, <1>4, <2>1, CheckForMoves
  <2>3. TaskInv(t)'
    BY <2>2 DEF TaskInv, Settles, CheckLabel
  <2>. QED
    BY <1>1, <1>2, <2>2, <2>3, InvQuiet, QuietTypes
<1>. QED
  BY <1>3, <1>4 DEF Passes

LEMMA InvPressLookup ==
    ASSUME IInv, NEW t \in Task, PressLookup(t)
    PROVE  IInv'
<1>1. /\ TypeOK /\ {t} \in SUBSET Task /\ pc[t] = "antispam" /\ "idle" \in Plain
      /\ "delete" \in Label
  BY DEF IInv, PressLookup, AtAntispam, Plain, Label
<1>2. /\ UNCHANGED <<configVars, rowVars, unverified, faults>>
      /\ UNCHANGED <<shown, pending, unread, challenge, asked, gated>>
      /\ vetted' = (vetted \/ challenge)
  BY DEF PressLookup, AtAntispam, commandVars
<1>3. vetted' \in BOOLEAN /\ (vetted => vetted')
  BY <1>2, QuietTypes
<1>4. CASE End({t})
  <2>1. /\ LocalsTyped' /\ OthersKeep({t}) /\ pc'[t] = "idle"
        /\ UNCHANGED <<telegramVars, cached>>
    BY <1>1, <1>4, EndMoves
  <2>. QED
    BY <1>1, <1>2, <1>3, <2>1, InvQuietPlain, QuietTypes
<1>5. CASE challenge /\ Goto(t, "delete") /\ ForgetRow(t) /\ UNCHANGED <<kind, goal, early, checkerVars>>
  <2>1. UNCHANGED <<member, joined, cached, todo, asking, lacking, skipped, kind, goal, early>>
    BY <1>5 DEF checkerVars, telegramVars, checkVars
  <2>2. NoRow \in [status : Status, created : BOOLEAN]
    BY DEF NoRow, Status
  <2>3. pc' \in [Task -> Label] /\ pc'[t] = "delete" /\ \A s \in Task \ {t} : pc'[s] = pc[s]
    BY <1>1, <1>5 DEF Goto, TypeOK
  <2>4. row' \in [Task -> [status : Status, created : BOOLEAN]]
    BY <1>1, <1>5, <2>2 DEF ForgetRow, TypeOK
  <2>5. LocalsTyped' /\ OthersKeep({t})
    BY <1>1, <2>1, <2>3, <2>4 DEF LocalsTyped, CheckTypeOK, TypeOK, OthersKeep
  <2>6. TaskInv(t)'
    BY <1>2, <1>5, <2>3 DEF TaskInv, Settles, CheckLabel
  <2>. QED
    BY <1>1, <1>2, <1>3, <2>1, <2>3, <2>5, <2>6, InvQuiet, QuietTypes DEF telegramVars
<1>. QED
  BY <1>4, <1>5 DEF PressLookup

LEMMA InvPressDelete ==
    ASSUME IInv, NEW t \in Task, PressDelete(t)
    PROVE  IInv'
<1>1. TypeOK /\ pc[t] = "delete" /\ OnlyGoto(t, "activate") /\ "activate" \in Label /\ vetted
  BY DEF IInv, PressDelete, Label, TaskInv
<1>2. /\ UNCHANGED <<configVars, rowVars, unverified, faults>>
      /\ UNCHANGED <<shown, pending, unread, asked, gated, vetted>>
      /\ challenge' = FALSE
  BY DEF PressDelete, commandVars
<1>3. /\ LocalsTyped' /\ pc'[t] = "activate" /\ OthersKeep({t})
      /\ UNCHANGED <<telegramVars, cached>>
  BY <1>1, GotoMoves
<1>4. TaskInv(t)'
  BY <1>1, <1>2, <1>3 DEF TaskInv, Settles, CheckLabel
<1>. QED
  BY <1>1, <1>2, <1>3, <1>4, InvQuiet, QuietTypes

\* The gate and the recheck, as far as they end or go to a plain place.
LEMMA InvSubscriptions ==
    ASSUME IInv, NEW t \in Task,
           \/ GatePasses(t) \/ GateBlocks(t) \/ SaveCommand(t)
           \/ RecheckRefuses(t) \/ RecheckConfirms(t) \/ GetData(t) \/ SetData(t) \/ DataFails(t)
    PROVE  IInv'
<1>1. /\ TypeOK /\ {t} \in SUBSET Task
      /\ {"idle", "save", "getData", "setData", "credit"} \subseteq Plain
      /\ {"save", "getData", "setData", "credit"} \subseteq Label
  BY DEF IInv, Label, Settling, Plain
<1>2. /\ UNCHANGED <<configVars, rowVars, captchaVars, unverified>>
      /\ pc[t] \in {"probe", "save", "getData", "setData"}
  BY DEF GatePasses, GateBlocks, SaveCommand, RecheckRefuses, RecheckConfirms, GetData, SetData,
     DataFails, CheckedFor, Checked
<1>3. UNCHANGED <<challenge, asked, gated, vetted>>
  BY <1>2 DEF captchaVars
<1>4. /\ shown' \in BOOLEAN /\ pending' \in BOOLEAN /\ unread' \in BOOLEAN
      /\ faults' \in 0..MaxFaults /\ faults <= faults'
  BY QuietTypes DEF GatePasses, GateBlocks, SaveCommand, RecheckRefuses, RecheckConfirms, GetData,
     SetData, DataFails, CheckedFor, commandVars
<1>5. \/ End({t})
      \/ OnlyGoto(t, "save") \/ OnlyGoto(t, "setData") \/ OnlyGoto(t, "credit")
      \/ Concluded(t, "getData")
  BY DEF GatePasses, GateBlocks, SaveCommand, RecheckRefuses, RecheckConfirms, GetData, SetData,
     DataFails
<1>6. /\ LocalsTyped' /\ OthersKeep({t}) /\ pc'[t] \in Plain
      /\ UNCHANGED <<telegramVars, cached>>
  BY <1>1, <1>5, EndMoves, GotoMoves, ConcludedMoves
<1>. QED
  BY <1>2, <1>3, <1>4, <1>6, InvQuietPlain, QuietTypes

LEMMA InvCreditEnds ==
    ASSUME IInv, NEW t \in Task, CreditRefused(t) \/ CreditLacks(t)
    PROVE  IInv'
<1>1. TypeOK /\ {"idle", "antispam"} \subseteq Plain /\ pc[t] \in {"credit", "probe"} /\ AfterCredit(t)
  BY DEF IInv, Plain, CreditRefused, CreditLacks, AtCredit, CheckedFor, Checked
<1>2. UNCHANGED <<configVars, rowVars, captchaVars, commandVars, unverified, faults>>
  BY DEF CreditRefused, CreditLacks, AtCredit, CheckedFor
<1>3. UNCHANGED <<challenge, asked, gated, vetted, shown, pending, unread>>
  BY <1>2 DEF captchaVars, commandVars
<1>4. /\ LocalsTyped' /\ OthersKeep({t}) /\ pc'[t] \in {"idle", "antispam"}
      /\ UNCHANGED <<telegramVars, cached>>
  BY <1>1, AfterCreditMoves
<1>. QED
  BY <1>1, <1>2, <1>3, <1>4, InvQuietPlain, QuietTypes

\* The row is read: the gates stand open, or the gate has not written yet.
LEMMA InvCreditLookup ==
    ASSUME IInv, NEW t \in Task, CreditLookup(t)
    PROVE  IInv'
<1>1. /\ TypeOK /\ pc[t] = "credit" /\ GatesOpen /\ "stamp" \in Label /\ "credit" \in Goal
      /\ early' = IF gated THEN early ELSE early \cup {t}
      /\ UNCHANGED <<configVars, captchaVars, commandVars, faults, rowVars, unverified>>
  BY DEF IInv, CreditLookup, AtCredit, Label, Settling, Goal
<1>2. UNCHANGED <<captchaOn, subsOn, challenge, asked, gated, vetted, shown, pending, unread>>
  BY <1>1 DEF captchaVars, commandVars, configVars
<1>3. early' \subseteq Task /\ \A s \in Task \ {t} : s \in early' <=> s \in early
  BY <1>1 DEF TypeOK
<1>4. captchaOn => vetted \/ t \in early'
  BY <1>1 DEF GatesOpen, IInv, VetInv, TypeOK
<1>5. CASE subsOn
  <2>1. CheckFor(t, "credit")
    BY <1>5 DEF CreditLookup
  <2>2. /\ LocalsTyped' /\ OthersKeep({t})
        /\ pc'[t] = "probe" /\ todo'[t] = Channel
        /\ UNCHANGED <<telegramVars, cached>>
    BY <1>1, <1>3, <2>1, CheckForMoves
  <2>3. TaskInv(t)'
    BY <1>2, <1>4, <2>2 DEF TaskInv
  <2>. QED
    BY <1>1, <1>2, <2>2, <2>3, InvQuiet, QuietTypes
<1>6. CASE ~subsOn
  <2>1. /\ pc' = [pc EXCEPT ![t] = "stamp"]
        /\ UNCHANGED <<member, joined, cached, todo, asking, lacking, skipped, kind, row, goal>>
    BY <1>6 DEF CreditLookup, Goto, checkerVars, telegramVars, checkVars
  <2>2. LocalsTyped' /\ OthersKeep({t}) /\ pc'[t] = "stamp"
    BY <1>1, <1>3, <2>1 DEF LocalsTyped, TypeOK, CheckTypeOK, OthersKeep
  <2>3. TaskInv(t)'
    BY <1>2, <1>4, <1>6, <2>2 DEF TaskInv
  <2>. QED
    BY <1>1, <1>2, <2>1, <2>2, <2>3, InvQuiet, QuietTypes DEF telegramVars
<1>. QED
  BY <1>5, <1>6

LEMMA InvCreditChecked ==
    ASSUME IInv, NEW t \in Task, CreditChecked(t)
    PROVE  IInv'
<1>1. /\ TypeOK /\ TaskInv(t) /\ pc[t] = "probe" /\ todo[t] = {} /\ goal[t] = "credit"
      /\ lacking[t] = {} /\ Concluded(t, "stamp") /\ "stamp" \in Label
  BY DEF IInv, CreditChecked, CheckedFor, Checked, Label, Settling
<1>2. UNCHANGED <<configVars, rowVars, captchaVars, commandVars, unverified, faults>>
  BY DEF CreditChecked, CheckedFor
<1>3. UNCHANGED <<captchaOn, subsOn, challenge, asked, gated, vetted, shown, pending, unread>>
  BY <1>2 DEF captchaVars, commandVars, configVars
<1>4. /\ LocalsTyped' /\ OthersKeep({t}) /\ pc'[t] = "stamp"
      /\ UNCHANGED <<telegramVars, cached, joined, skipped, early>>
  BY <1>1, ConcludedMoves DEF telegramVars
<1>5. TaskInv(t)'
  BY <1>1, <1>3, <1>4 DEF TaskInv, Settles, CheckLabel
<1>. QED
  BY <1>1, <1>2, <1>3, <1>4, <1>5, InvQuiet, QuietTypes

-----------------------------------------------------------------------------
\* The lock, the stamp and the counter.

LEMMA InvStamp ==
    ASSUME IInv, NEW t \in Task, Stamp(t)
    PROVE  IInv'
<1>1. /\ TypeOK /\ TaskInv(t) /\ pc[t] = "stamp" /\ lock = NoTask /\ "commit" \in Label
      /\ {"idle", "antispam"} \subseteq Plain
      /\ UNCHANGED <<configVars, captchaVars, commandVars, faults, unverified>>
      /\ UNCHANGED <<status, referrer, credited, count>>
  BY DEF IInv, Stamp, AtCredit, Label, Settling, Plain
<1>2. UNCHANGED <<captchaOn, subsOn, slashes, challenge, asked, gated, vetted, shown, pending, unread>>
  BY <1>1 DEF captchaVars, commandVars, configVars
<1>3. CASE credited
  <2>1. AfterCredit(t) /\ UNCHANGED rowVars
    BY <1>1, <1>3 DEF Stamp, rowVars
  <2>2. /\ LocalsTyped' /\ OthersKeep({t}) /\ pc'[t] \in {"idle", "antispam"}
        /\ UNCHANGED <<telegramVars, cached>>
    BY <1>1, <2>1, AfterCreditMoves
  <2>. QED
    BY <1>1, <1>2, <2>1, <2>2, InvQuietPlain, QuietTypes
<1>4. CASE ~credited
  <2>1. OnlyGoto(t, "commit") /\ lock' = t
    BY <1>4 DEF Stamp
  <2>2. /\ LocalsTyped' /\ OthersKeep({t}) /\ pc'[t] = "commit"
        /\ UNCHANGED <<member, joined, cached, skipped, early>>
    BY <1>1, <2>1, GotoMoves DEF telegramVars
  <2>3. TypeOK'
    <3>1. \A s \in Task : pc'[s] = "commit" <=> lock' = s
      BY <1>1, <2>1, <2>2, NoTaskIsNone DEF TypeOK, OthersKeep
    <3>. QED
      BY <1>1, <1>2, <2>1, <2>2, <3>1 DEF TypeOK, LocalsTyped
  <2>4. CountInv' /\ VetInv' /\ ChannelInv' /\ RowFirst'
    BY <1>1, <1>2, <1>4, <2>2 DEF IInv, CountInv, CreditedOnce, VetInv, ChannelInv, CreditAfterJoining, RowFirst
  <2>5. TaskInv(t)'
    BY <1>1, <1>2, <2>2 DEF TaskInv, Settles, CheckLabel
  <2>6. \A s \in Task : TaskInv(s)'
    BY <1>2, <2>2, <2>5, OtherTasks
  <2>7. ReferredUnlessFault'
    BY <1>1, <2>2 DEF IInv, ReferredUnlessFault, OthersKeep
  <2>. QED
    BY <2>3, <2>4, <2>6, <2>7 DEF IInv
<1>. QED
  BY <1>3, <1>4

LEMMA InvCommit ==
    ASSUME IInv, NEW t \in Task, Commit(t)
    PROVE  IInv'
<1>1. /\ TypeOK /\ TaskInv(t) /\ pc[t] = "commit" /\ lock = t /\ ~credited /\ AfterCredit(t)
      /\ UNCHANGED <<configVars, captchaVars, commandVars, faults, status, referrer>>
      /\ credited' = TRUE /\ count' = count + 1 /\ lock' = NoTask /\ unverified' = skipped[t]
  BY NoTaskIsNone DEF IInv, Commit, AtCredit, TypeOK, CountInv
<1>2. UNCHANGED <<captchaOn, subsOn, slashes, challenge, asked, gated, vetted, shown, pending, unread>>
  BY <1>1 DEF captchaVars, commandVars, configVars
<1>3. /\ LocalsTyped' /\ OthersKeep({t}) /\ pc'[t] \in {"idle", "antispam"}
      /\ UNCHANGED <<member, joined, cached>>
  BY <1>1, AfterCreditMoves DEF telegramVars
<1>4. TypeOK'
  <2>1. \A s \in Task : pc'[s] # "commit"
    BY <1>1, <1>3 DEF TypeOK, OthersKeep
  <2>2. skipped[t] \subseteq Channel /\ count' \in Nat
    BY <1>1 DEF TypeOK, CheckTypeOK
  <2>. QED
    BY <1>1, <1>2, <1>3, <2>1, <2>2, NoTaskIsNone DEF TypeOK, LocalsTyped
<1>5. CountInv' /\ VetInv' /\ RowFirst'
  BY <1>1, <1>2 DEF IInv, CountInv, CreditedOnce, VetInv, RowFirst
<1>6. ChannelInv'
  BY <1>1, <1>2, <1>3 DEF IInv, ChannelInv, CreditAfterJoining, TaskInv
<1>7. TaskInv(t)'
  BY <1>3 DEF TaskInv, Settles, CheckLabel
<1>8. \A s \in Task : TaskInv(s)'
  BY <1>2, <1>3, <1>7, OtherTasks
<1>9. ReferredUnlessFault'
  BY <1>1, <1>3 DEF IInv, ReferredUnlessFault, OthersKeep
<1>. QED
  BY <1>4, <1>5, <1>6, <1>8, <1>9 DEF IInv

\* An attempt fails, and its transaction with it.
LEMMA InvCreditFails ==
    ASSUME IInv, NEW t \in Task, CreditFails(t)
    PROVE  IInv'
<1>1. /\ TypeOK /\ AfterCredit(t) /\ Crediting(t) /\ faults < MaxFaults /\ faults' = faults + 1
      /\ lock' = IF lock = t THEN NoTask ELSE lock
      /\ UNCHANGED <<configVars, captchaVars, commandVars, status, referrer, credited, count, unverified>>
  BY DEF IInv, CreditFails
<1>2. UNCHANGED <<captchaOn, subsOn, slashes, challenge, asked, gated, vetted, shown, pending, unread>>
  BY <1>1 DEF captchaVars, commandVars, configVars
<1>3. /\ LocalsTyped' /\ OthersKeep({t}) /\ pc'[t] \in {"idle", "antispam"}
      /\ UNCHANGED <<member, joined, cached>>
  BY <1>1, AfterCreditMoves DEF telegramVars
<1>4. faults' \in 0..MaxFaults /\ faults' > 0
  BY <1>1, QuietTypes
<1>5. TypeOK'
  <2>1. \A s \in Task : pc'[s] = "commit" <=> lock' = s
    BY <1>1, <1>3, NoTaskIsNone DEF TypeOK, OthersKeep
  <2>. QED
    BY <1>1, <1>2, <1>3, <1>4, <2>1 DEF TypeOK, LocalsTyped
<1>6. CountInv' /\ VetInv' /\ ChannelInv'
  BY <1>1, <1>2, <1>3 DEF IInv, CountInv, CreditedOnce, VetInv, ChannelInv, CreditAfterJoining
<1>7. TaskInv(t)'
  BY <1>3 DEF TaskInv, Settles, CheckLabel
<1>8. \A s \in Task : TaskInv(s)'
  BY <1>2, <1>3, <1>7, OtherTasks
<1>9. ReferredUnlessFault' /\ RowFirst'
  BY <1>1, <1>3, <1>4 DEF ReferredUnlessFault, RowFirst, IInv, OthersKeep, Crediting, Settling, CheckLabel
<1>. QED
  BY <1>5, <1>6, <1>8, <1>9 DEF IInv

LEMMA InvTasksDie ==
    ASSUME IInv, NEW S \in SUBSET Task, TasksDie(S)
    PROVE  IInv'
<1>1. /\ TypeOK /\ End(S) /\ faults < MaxFaults /\ faults' = faults + 1
      /\ lock' = IF lock \in S THEN NoTask ELSE lock
      /\ UNCHANGED <<configVars, captchaVars, commandVars, status, referrer, credited, count, unverified>>
  BY DEF IInv, TasksDie
<1>2. UNCHANGED <<captchaOn, subsOn, slashes, challenge, asked, gated, vetted, shown, pending, unread>>
  BY <1>1 DEF captchaVars, commandVars, configVars
<1>3. /\ LocalsTyped' /\ OthersKeep(S) /\ \A s \in S : pc'[s] = "idle"
      /\ UNCHANGED <<member, joined, cached>>
  BY <1>1, EndMoves DEF telegramVars
<1>4. faults' \in 0..MaxFaults /\ faults' > 0
  BY <1>1, QuietTypes
<1>5. TypeOK'
  <2>1. \A s \in Task : pc'[s] = "commit" <=> lock' = s
    BY <1>1, <1>3, NoTaskIsNone DEF TypeOK, OthersKeep
  <2>2. lock' \in Task \cup {NoTask}
    BY <1>1 DEF TypeOK
  <2>. QED
    BY <1>1, <1>2, <1>3, <1>4, <2>1, <2>2 DEF TypeOK, LocalsTyped
<1>6. CountInv' /\ VetInv' /\ ChannelInv'
  BY <1>1, <1>2, <1>3 DEF IInv, CountInv, CreditedOnce, VetInv, ChannelInv, CreditAfterJoining
<1>7. \A s \in S : TaskInv(s)'
  BY <1>3 DEF TaskInv, Settles, CheckLabel
<1>8. \A s \in Task : TaskInv(s)'
  BY <1>2, <1>3, <1>7, OtherTasks
<1>9. ReferredUnlessFault' /\ RowFirst'
  BY <1>1, <1>3, <1>4 DEF ReferredUnlessFault, RowFirst, IInv, OthersKeep, Crediting, Settling, CheckLabel
<1>. QED
  BY <1>5, <1>6, <1>8, <1>9 DEF IInv

-----------------------------------------------------------------------------
\* The row is written: the status, the referrer.

\* A step of t to a plain place that writes the row but not the lock.
LEMMA InvRow ==
    ASSUME IInv, NEW t \in Task, LocalsTyped', OthersKeep({t}), UNCHANGED <<telegramVars, cached>>,
           UNCHANGED <<configVars, credited, count, lock, commandVars, unverified>>,
           UNCHANGED <<challenge, asked>>,
           status' \in Status, status' # "absent", referrer' \in BOOLEAN, gated' \in BOOLEAN, vetted' \in BOOLEAN,
           vetted => vetted', VetInv', faults' \in 0..MaxFaults,
           pc[t] # "commit", pc'[t] \in Plain, ReferredUnlessFault'
    PROVE  IInv'
<1>1. UNCHANGED <<captchaOn, subsOn, slashes, shown, pending, unread, member, joined, cached>>
  BY DEF commandVars, configVars, telegramVars
<1>2. TypeOK'
  <2>1. \A s \in Task : pc'[s] = "commit" <=> lock' = s
    BY DEF IInv, TypeOK, OthersKeep, Plain
  <2>. QED
    BY <1>1, <2>1 DEF IInv, TypeOK, LocalsTyped
<1>3. CountInv' /\ ChannelInv' /\ RowFirst'
  BY <1>1 DEF IInv, CountInv, CreditedOnce, ChannelInv, CreditAfterJoining, RowFirst
<1>4. TaskInv(t)'
  BY DEF Plain, TaskInv, Settles, CheckLabel
<1>5. \A s \in Task : TaskInv(s)'
  BY <1>1, <1>4, OtherTasks
<1>. QED
  BY <1>2, <1>3, <1>5 DEF IInv

LEMMA InvLoad ==
    ASSUME IInv, NEW t \in Task, NEW k \in Kind, NEW created \in BOOLEAN, Load(t, k, created),
           faults' \in 0..MaxFaults, faults <= faults',
           status = "absent" => created \/ faults' > 0
    PROVE  IInv'
<1>1. /\ TypeOK /\ pc[t] = "idle"
      /\ status = "absent" => k = "start"
      /\ status' = IF status = "absent" THEN "active" ELSE status
      /\ kind' = [kind EXCEPT ![t] = k]
      /\ row' = [row EXCEPT ![t] = [status |-> status', created |-> created]]
      /\ pc' = [pc EXCEPT ![t] = IF created /\ k = "start" THEN "refer" ELSE "antispam"]
      /\ UNCHANGED <<configVars, referrer, credited, count, lock, captchaVars, commandVars, unverified>>
      /\ UNCHANGED <<goal, early, checkerVars>>
  BY DEF IInv, Load, Goto
<1>2. /\ UNCHANGED <<challenge, asked, gated, vetted, goal, early, telegramVars, cached>>
      /\ UNCHANGED <<member, joined, todo, asking, lacking, skipped>>
  BY <1>1 DEF captchaVars, checkerVars, telegramVars, checkVars
<1>3. status' \in Status /\ status' # "absent"
  BY <1>1 DEF TypeOK, Status
<1>4. LocalsTyped' /\ OthersKeep({t})
  <2>1. {"refer", "antispam"} \subseteq Label
    BY DEF Label
  <2>2. pc' \in [Task -> Label] /\ kind' \in [Task -> Kind]
    BY <1>1, <2>1 DEF TypeOK
  <2>3. row' \in [Task -> [status : Status, created : BOOLEAN]]
    BY <1>1, <1>3 DEF TypeOK
  <2>4. CheckTypeOK' /\ goal' \in [Task -> Goal] /\ early' \subseteq Task
    BY <1>1, <1>2 DEF TypeOK, CheckTypeOK
  <2>5. OthersKeep({t})
    BY <1>1, <1>2 DEF TypeOK, OthersKeep
  <2>. QED
    BY <2>2, <2>3, <2>4, <2>5 DEF LocalsTyped
<1>5. pc'[t] = IF created /\ k = "start" THEN "refer" ELSE "antispam"
  BY <1>1 DEF TypeOK
<1>6. pc'[t] \in Plain
  BY <1>5 DEF Plain
<1>7. VetInv'
  BY <1>1, <1>2 DEF IInv, VetInv
<1>8. ReferredUnlessFault'
  <2>1. CASE status = "absent"
    BY <1>1, <1>5, <2>1 DEF ReferredUnlessFault
  <2>2. CASE status # "absent"
    <3>1. faults > 0 => faults' > 0
      BY MaxFaultsNat DEF IInv, TypeOK
    <3>2. \A s \in Task : pc[s] = "refer" => pc'[s] = "refer"
      BY <1>1, <1>4 DEF OthersKeep
    <3>. QED
      BY <1>1, <2>2, <3>1, <3>2 DEF IInv, ReferredUnlessFault
  <2>. QED
    BY <2>1, <2>2
<1>. QED
  BY <1>1, <1>2, <1>3, <1>4, <1>6, <1>7, <1>8, InvRow, QuietTypes DEF IInv, TypeOK

LEMMA InvArrive ==
    ASSUME IInv, NEW t \in Task, NEW k \in Kind, Arrive(t, k) \/ ArriveRetried(t, k)
    PROVE  IInv'
<1>1. CASE Arrive(t, k)
  <2>1. Load(t, k, status = "absent") /\ faults' = faults
    BY <1>1 DEF Arrive
  <2>. QED
    BY <2>1, InvLoad, QuietTypes
<1>2. CASE ArriveRetried(t, k)
  <2>1. Load(t, k, FALSE) /\ faults' = faults + 1 /\ faults < MaxFaults
    BY <1>2 DEF ArriveRetried
  <2>. QED
    BY <2>1, InvLoad, QuietTypes
<1>. QED
  BY <1>1, <1>2

LEMMA InvRefer ==
    ASSUME IInv, NEW t \in Task, Refer(t)
    PROVE  IInv'
<1>1. /\ TypeOK /\ pc[t] = "refer" /\ referrer' = TRUE /\ status # "absent"
      /\ {"antispam", "credit"} \subseteq Label /\ {"antispam", "credit"} \subseteq Plain
      /\ UNCHANGED <<configVars, status, credited, count, lock, captchaVars, commandVars,
                     unverified, faults>>
  BY DEF IInv, RowFirst, Refer, Label, Settling, Plain
<1>2. UNCHANGED <<challenge, asked, gated, vetted>>
  BY <1>1 DEF captchaVars
<1>3. /\ LocalsTyped' /\ OthersKeep({t}) /\ pc'[t] \in {"antispam", "credit"}
      /\ UNCHANGED <<telegramVars, cached>>
  BY <1>1, GotoMoves DEF Refer
<1>4. VetInv' /\ ReferredUnlessFault'
  BY <1>1, <1>2 DEF IInv, VetInv, ReferredUnlessFault
<1>. QED
  BY <1>1, <1>2, <1>3, <1>4, InvRow, QuietTypes DEF TypeOK

LEMMA InvActivate ==
    ASSUME IInv, NEW t \in Task, Activate(t)
    PROVE  IInv'
<1>1. /\ TypeOK /\ pc[t] = "activate" /\ status' = "active" /\ vetted /\ OnlyGoto(t, "credit")
      /\ "credit" \in Label /\ "credit" \in Plain
      /\ UNCHANGED <<configVars, referrer, credited, count, lock, captchaVars, commandVars,
                     unverified, faults>>
  BY DEF IInv, Activate, TaskInv, Label, Settling, Plain
<1>2. UNCHANGED <<challenge, asked, gated, vetted>>
  BY <1>1 DEF captchaVars
<1>3. /\ LocalsTyped' /\ OthersKeep({t}) /\ pc'[t] = "credit"
      /\ UNCHANGED <<telegramVars, cached>>
  BY <1>1, GotoMoves
<1>4. VetInv' /\ ReferredUnlessFault'
  <2>1. status # "absent"
    BY <1>1 DEF IInv, RowFirst
  <2>. QED
    BY <1>1, <1>2, <1>3, <2>1 DEF IInv, VetInv, ReferredUnlessFault, OthersKeep
<1>. QED
  BY <1>1, <1>2, <1>3, <1>4, InvRow, QuietTypes DEF TypeOK, Status

LEMMA InvSetPending ==
    ASSUME IInv, NEW t \in Task, SetPending(t)
    PROVE  IInv'
<1>1. /\ TypeOK /\ pc[t] = "setPending" /\ status' = "pending_captcha" /\ gated' = TRUE
      /\ End({t}) /\ {t} \in SUBSET Task /\ "idle" \in Plain /\ status # "absent"
      /\ UNCHANGED <<configVars, referrer, credited, count, lock, challenge, asked, vetted,
                     commandVars, unverified, faults>>
  BY DEF IInv, RowFirst, SetPending, Plain
<1>2. /\ LocalsTyped' /\ OthersKeep({t}) /\ pc'[t] = "idle"
      /\ UNCHANGED <<telegramVars, cached>>
  BY <1>1, EndMoves
<1>3. VetInv' /\ ReferredUnlessFault'
  BY <1>1, <1>2 DEF IInv, VetInv, ReferredUnlessFault, OthersKeep
<1>. QED
  BY <1>1, <1>2, <1>3, InvRow, QuietTypes DEF TypeOK, Status

LEMMA InvAdminActivates ==
    ASSUME IInv, AdminActivates
    PROVE  IInv'
<1>1. /\ TypeOK /\ status # "absent" /\ status' = "active" /\ vetted' = TRUE
      /\ UNCHANGED <<captchaOn, subsOn, slashes, referrer, credited, count, lock, challenge,
                     asked, gated, shown, pending, unread, kind, row, goal, early, pc, member,
                     joined, cached, todo, asking, lacking, skipped, unverified, faults>>
  BY DEF IInv, AdminActivates, configVars, commandVars, localVars, checkerVars, telegramVars, checkVars
<1>2. TypeOK'
  BY <1>1 DEF TypeOK, CheckTypeOK, Status
<1>3. CountInv' /\ VetInv' /\ ChannelInv' /\ RowFirst' /\ ReferredUnlessFault'
  BY <1>1 DEF IInv, CountInv, CreditedOnce, VetInv, ChannelInv, CreditAfterJoining, RowFirst,
     ReferredUnlessFault
<1>4. \A t \in Task : TaskInv(t)'
  BY <1>1 DEF IInv, TaskInv, Settles
<1>. QED
  BY <1>2, <1>3, <1>4 DEF IInv

LEMMA InvChallengeExpires ==
    ASSUME IInv, ChallengeExpires
    PROVE  IInv'
<1>1. /\ challenge' = FALSE
      /\ UNCHANGED <<captchaOn, subsOn, slashes, status, referrer, credited, count, lock,
                     asked, gated, vetted, shown, pending, unread, kind, row, goal, early, pc,
                     member, joined, cached, todo, asking, lacking, skipped, unverified, faults>>
  BY DEF ChallengeExpires, configVars, rowVars, commandVars, localVars, checkerVars, telegramVars, checkVars
<1>2. TypeOK'
  <2>1. TypeOK /\ CheckTypeOK /\ CheckTypeOK'
    BY <1>1 DEF IInv, TypeOK, CheckTypeOK
  <2>2. \A t \in Task : pc'[t] = "commit" <=> lock' = t
    BY <1>1, <2>1 DEF TypeOK
  <2>3. challenge' \in BOOLEAN
    BY <1>1
  <2>4. /\ captchaOn' \in BOOLEAN /\ subsOn' \in BOOLEAN /\ slashes' \in BOOLEAN
        /\ status' \in Status /\ referrer' \in BOOLEAN /\ credited' \in BOOLEAN
        /\ count' \in Nat /\ lock' \in Task \cup {NoTask} /\ asked' \in BOOLEAN
    BY <1>1, <2>1 DEF TypeOK
  <2>5. /\ shown' \in BOOLEAN /\ pending' \in BOOLEAN /\ pc' \in [Task -> Label]
        /\ kind' \in [Task -> Kind] /\ row' \in [Task -> [status : Status, created : BOOLEAN]]
        /\ goal' \in [Task -> Goal] /\ gated' \in BOOLEAN /\ vetted' \in BOOLEAN
        /\ early' \subseteq Task /\ unverified' \subseteq Channel /\ unread' \in BOOLEAN
        /\ faults' \in 0..MaxFaults
    BY <1>1, <2>1 DEF TypeOK
  <2>. QED
    BY <2>1, <2>2, <2>3, <2>4, <2>5 DEF TypeOK
<1>3. CountInv' /\ VetInv' /\ ChannelInv' /\ RowFirst' /\ ReferredUnlessFault'
  BY <1>1 DEF IInv, CountInv, CreditedOnce, VetInv, ChannelInv, CreditAfterJoining, RowFirst,
     ReferredUnlessFault
<1>4. \A t \in Task : TaskInv(t)'
  BY <1>1 DEF IInv, TaskInv, Settles
<1>. QED
  BY <1>2, <1>3, <1>4 DEF IInv

-----------------------------------------------------------------------------
\* The checker and the channels.

\* A step of the checker, or of the user in the channels, that keeps the books.
LEMMA InvChannels ==
    ASSUME IInv,
           UNCHANGED <<configVars, rowVars, captchaVars, commandVars, localVars, unverified, faults>>,
           pc' \in [Task -> Label], CheckTypeOK', joined \subseteq joined',
           member' \subseteq joined', cached' \subseteq joined',
           \A t \in Task : TaskInv(t)',
           \A t \in Task : pc'[t] # pc[t] => pc[t] \in CheckLabel /\ pc'[t] \in CheckLabel
    PROVE  IInv'
<1>1. UNCHANGED <<captchaOn, subsOn, slashes, status, referrer, credited, count, lock, challenge,
                  asked, gated, vetted, shown, pending, unread, kind, row, goal, early,
                  unverified, faults>>
  BY DEF configVars, rowVars, captchaVars, commandVars, localVars
<1>2. TypeOK'
  <2>1. \A s \in Task : pc'[s] = "commit" <=> lock' = s
    BY <1>1 DEF IInv, TypeOK, CheckLabel
  <2>. QED
    BY <1>1, <2>1 DEF IInv, TypeOK
<1>3. RowFirst' /\ ReferredUnlessFault'
  BY <1>1 DEF IInv, RowFirst, ReferredUnlessFault, CheckLabel
<1>4. CountInv' /\ VetInv' /\ ChannelInv'
  BY <1>1 DEF IInv, CountInv, CreditedOnce, VetInv, ChannelInv, CreditAfterJoining
<1>. QED
  BY <1>2, <1>3, <1>4 DEF IInv

\* A probe is begun: from the cache at once, or with a question to Telegram.
LEMMA InvProbe ==
    ASSUME IInv, NEW t \in Task, ProbeCached(t) \/ ProbeUncached(t),
           UNCHANGED <<configVars, rowVars, captchaVars, commandVars, localVars, unverified, faults>>
    PROVE  IInv'
<1>1. /\ TypeOK /\ TaskInv(t) /\ pc[t] = "probe" /\ {"getMember", "probe"} \subseteq Label
      /\ UNCHANGED <<member, joined, cached, lacking, skipped>>
      /\ UNCHANGED <<captchaOn, subsOn, vetted, goal, early>>
  BY DEF IInv, ProbeCached, ProbeUncached, telegramVars, Label, CheckLabel, configVars, captchaVars,
     localVars
<1>2. PICK c \in todo[t] :
        /\ todo' = [todo EXCEPT ![t] = @ \ {c}]
        /\ \/ c \in cached /\ UNCHANGED <<pc, asking>>
           \/ asking' = [asking EXCEPT ![t] = c] /\ pc' = [pc EXCEPT ![t] = "getMember"]
  BY DEF ProbeCached, ProbeUncached
<1>3. c \in Channel /\ todo'[t] = todo[t] \ {c}
  BY <1>1, <1>2 DEF TypeOK, CheckTypeOK
<1>4. CheckTypeOK' /\ pc' \in [Task -> Label]
  <2>1. todo' \in [Task -> SUBSET Channel]
    BY <1>1, <1>2 DEF TypeOK, CheckTypeOK
  <2>2. asking \in [Task -> Channel \cup {NoChannel}] /\ pc \in [Task -> Label]
    BY <1>1 DEF TypeOK, CheckTypeOK
  <2>3. CASE UNCHANGED <<pc, asking>>
    BY <1>1, <2>1, <2>2, <2>3 DEF TypeOK, CheckTypeOK
  <2>4. CASE asking' = [asking EXCEPT ![t] = c] /\ pc' = [pc EXCEPT ![t] = "getMember"]
    <3>1. asking' \in [Task -> Channel \cup {NoChannel}]
      BY <1>3, <2>2, <2>4
    <3>2. pc' \in [Task -> Label]
      BY <1>1, <2>2, <2>4
    <3>. QED
      BY <1>1, <2>1, <3>1, <3>2 DEF TypeOK, CheckTypeOK
  <2>. QED
    BY <1>2, <2>3, <2>4
<1>5. TaskInv(t)'
  <2>1. CASE c \in cached /\ UNCHANGED <<pc, asking>>
    BY <1>1, <1>3, <2>1 DEF IInv, ChannelInv, TaskInv, Settles
  <2>2. CASE asking' = [asking EXCEPT ![t] = c] /\ pc' = [pc EXCEPT ![t] = "getMember"]
    <3>1. asking'[t] = c /\ pc'[t] = "getMember"
      BY <1>1, <2>2 DEF TypeOK, CheckTypeOK
    <3>. QED
      BY <1>1, <1>3, <3>1 DEF TaskInv, Settles, CheckLabel
  <2>. QED
    BY <1>2, <2>1, <2>2
<1>6. OthersKeep({t}) /\ \A s \in Task : pc'[s] # pc[s] => pc[s] \in CheckLabel /\ pc'[s] \in CheckLabel
  BY <1>1, <1>2 DEF TypeOK, CheckTypeOK, OthersKeep, CheckLabel
<1>7. \A s \in Task : TaskInv(s)'
  BY <1>1, <1>5, <1>6, OtherTasks
<1>. QED
  BY <1>1, <1>4, <1>6, <1>7, InvChannels DEF IInv, ChannelInv

\* Telegram has answered, or has not.
LEMMA InvAnswered ==
    ASSUME IInv, NEW t \in Task, AnsweredMember(t) \/ AnsweredMissing(t) \/ Unverifiable(t),
           UNCHANGED <<configVars, rowVars, captchaVars, commandVars, localVars, unverified, faults>>
    PROVE  IInv'
<1>1. /\ TypeOK /\ TaskInv(t) /\ pc[t] = "getMember" /\ "probe" \in Label
      /\ pc' = [pc EXCEPT ![t] = "probe"] /\ asking' = [asking EXCEPT ![t] = NoChannel]
      /\ UNCHANGED <<member, joined, todo>>
      /\ UNCHANGED <<captchaOn, subsOn, vetted, goal, early>>
  BY DEF IInv, AnsweredMember, AnsweredMissing, Unverifiable, Answered, telegramVars, Label,
     CheckLabel, configVars, captchaVars, localVars
<1>2. asking[t] \in Channel /\ pc'[t] = "probe"
  BY <1>1 DEF TaskInv, TypeOK
<1>3. /\ lacking' \in [Task -> SUBSET Channel] /\ skipped' \in [Task -> SUBSET Channel]
      /\ cached' \subseteq joined
      /\ lacking[t] \subseteq lacking'[t] /\ skipped[t] \subseteq skipped'[t]
      /\ asking[t] \in lacking'[t] \cup skipped'[t] \cup joined
      /\ \A s \in Task \ {t} : lacking'[s] = lacking[s] /\ skipped'[s] = skipped[s]
  <2>1. CASE AnsweredMember(t)
    BY <1>1, <1>2, <2>1 DEF AnsweredMember, IInv, ChannelInv, TypeOK, CheckTypeOK
  <2>2. CASE AnsweredMissing(t)
    BY <1>1, <1>2, <2>2 DEF AnsweredMissing, IInv, ChannelInv, TypeOK, CheckTypeOK
  <2>3. CASE Unverifiable(t)
    BY <1>1, <1>2, <2>3 DEF Unverifiable, IInv, ChannelInv, TypeOK, CheckTypeOK
  <2>. QED
    BY <2>1, <2>2, <2>3
<1>4. CheckTypeOK' /\ pc' \in [Task -> Label]
  BY <1>1, <1>3 DEF TypeOK, CheckTypeOK
<1>5. TaskInv(t)'
  BY <1>1, <1>2, <1>3 DEF TaskInv, Settles, CheckLabel
<1>6. OthersKeep({t}) /\ \A s \in Task : pc'[s] # pc[s] => pc[s] \in CheckLabel /\ pc'[s] \in CheckLabel
  BY <1>1, <1>3 DEF TypeOK, CheckTypeOK, OthersKeep, CheckLabel
<1>7. \A s \in Task : TaskInv(s)'
  BY <1>1, <1>5, <1>6, OtherTasks
<1>. QED
  BY <1>1, <1>3, <1>4, <1>6, <1>7, InvChannels DEF IInv, ChannelInv

\* The user joins and leaves, and entries of the cache expire.
LEMMA InvUserMoves ==
    ASSUME IInv, NEW c \in Channel, Join(c) \/ Quit(c) \/ CacheExpires(c),
           UNCHANGED <<configVars, rowVars, captchaVars, commandVars, localVars, unverified, faults>>
    PROVE  IInv'
<1>1. /\ UNCHANGED <<pc, todo, asking, lacking, skipped, captchaOn, subsOn, vetted, goal, early>>
      /\ joined \subseteq joined' /\ joined' \subseteq Channel
      /\ member' \subseteq joined' /\ cached' \subseteq joined'
  BY DEF IInv, TypeOK, CheckTypeOK, ChannelInv, Join, Quit, CacheExpires, telegramVars, checkVars,
     configVars, captchaVars, localVars
<1>2. CheckTypeOK' /\ pc' \in [Task -> Label]
  BY <1>1 DEF IInv, TypeOK, CheckTypeOK
<1>3. OthersKeep({})
  BY <1>1 DEF OthersKeep
<1>4. \A s \in Task : TaskInv(s)'
  BY <1>1, <1>3, OtherTasks
<1>. QED
  BY <1>1, <1>2, <1>4, InvChannels

-----------------------------------------------------------------------------
LEMMA InvStutter == ASSUME IInv, UNCHANGED vars PROVE IInv'
<1>1. UNCHANGED <<configVars, rowVars, captchaVars, commandVars, localVars, unverified, faults>>
  BY DEF vars
<1>2. /\ UNCHANGED <<pc, member, joined, cached, todo, asking, lacking, skipped>>
      /\ UNCHANGED <<captchaOn, subsOn, vetted, goal, early>>
  BY DEF vars, checkerVars, telegramVars, checkVars, configVars, captchaVars, localVars
<1>3. CheckTypeOK' /\ pc' \in [Task -> Label]
  BY <1>2 DEF IInv, TypeOK, CheckTypeOK
<1>4. OthersKeep({})
  BY <1>2 DEF OthersKeep
<1>5. \A s \in Task : TaskInv(s)'
  BY <1>2, <1>4, OtherTasks
<1>. QED
  BY <1>1, <1>2, <1>3, <1>5, InvChannels DEF IInv, ChannelInv

LEMMA InvNext == ASSUME IInv, [Next]_vars PROVE IInv'
<1>1. ASSUME NEW t \in Task, NEW k \in Kind, Arrive(t, k) \/ ArriveRetried(t, k) PROVE IInv'
  BY <1>1, InvArrive
<1>2. ASSUME NEW t \in Task, GateStep(t) PROVE IInv'
  BY <1>2, InvRefer, InvAntispam, InvPasses, InvPressLookup, InvPressDelete, InvActivate,
     InvSetPending, InvSubscriptions DEF GateStep
<1>3. ASSUME NEW t \in Task, CreditStep(t) PROVE IInv'
  BY <1>3, InvCreditEnds, InvCreditLookup, InvCreditChecked, InvStamp, InvCommit DEF CreditStep
<1>4. ASSUME NEW t \in Task, CreditFails(t) \/ DataFails(t) PROVE IInv'
  BY <1>4, InvCreditFails, InvSubscriptions
<1>5. CASE ChannelsMove
  BY <1>5, InvProbe, InvAnswered, InvUserMoves DEF ChannelsMove, CheckStep
<1>. QED
  BY <1>1, <1>2, <1>3, <1>4, <1>5, InvTasksDie, InvAdminActivates, InvChallengeExpires, InvStutter
  DEF Next

\* The inductive invariant holds in every reachable state.
THEOREM InvHolds == Spec => []IInv
<1>. QED
  BY InvInit, InvNext, PTL DEF Spec

\* Every column, key and local keeps its domain, and the row's lock belongs to
\* a task that is about to commit.
THEOREM TypeCorrect == Spec => []TypeOK
<1>1. IInv => TypeOK
  BY DEF IInv
<1>. QED
  BY <1>1, InvHolds, PTL

\* try_credit_referral adds one to the inviter's counter, whoever settles.
THEOREM CountedOnce == Spec => []CreditedOnce
<1>1. IInv => CreditedOnce
  BY DEF IInv, CountInv
<1>. QED
  BY <1>1, InvHolds, PTL

\* No credit without the channels, as they were seen by the attempt itself.
THEOREM JoinedBeforeCredit == Spec => []CreditAfterJoining
<1>1. IInv => CreditAfterJoining
  BY DEF IInv, ChannelInv
<1>. QED
  BY <1>1, InvHolds, PTL

\* set_referrer reaches the row of every invitee, short of a fault.
THEOREM ReferrerKept == Spec => []ReferredUnlessFault
<1>1. IInv => ReferredUnlessFault
  BY DEF IInv
<1>. QED
  BY <1>1, InvHolds, PTL

\* Only Commit settles, by the task that holds the lock.
THEOREM VettedBeforeCredit == Spec => CreditAfterCaptcha
<1>1. ASSUME IInv, [Next]_vars, captchaOn, ~credited, credited'
      PROVE  vetted \/ lock \in early
  <2>1. ASSUME NEW t \in Task, CreditStep(t) PROVE Commit(t)
    BY <1>1, <2>1 DEF rowVars, CreditStep, CreditRefused, CreditLookup, CreditLacks, CreditChecked,
       CheckedFor, Stamp, AtCredit
  <2>2. ASSUME NEW t \in Task, GateStep(t) \/ CreditFails(t) \/ DataFails(t) PROVE FALSE
    BY <1>1, <2>2 DEF rowVars, GateStep, Refer, AntispamDrops, AntispamAsks, Passes, PressLookup,
       AtAntispam, PressDelete, Activate, SetPending, CheckedFor, GatePasses, GateBlocks, SaveCommand,
       RecheckRefuses, RecheckConfirms, GetData, SetData, DataFails, CreditFails
  <2>3. \E t \in Task : CreditStep(t)
    BY <1>1, <2>2 DEF vars, rowVars, Next, ChannelsMove, Arrive, ArriveRetried, Load, TasksDie,
       AdminActivates, ChallengeExpires
  <2>4. PICK t \in Task : Commit(t)
    BY <2>1, <2>3
  <2>5. pc[t] = "commit" /\ lock = t /\ TaskInv(t)
    BY <1>1, <2>4 DEF Commit, AtCredit, IInv, TypeOK
  <2>. QED
    BY <1>1, <2>5 DEF TaskInv, Settles
<1>2. IInv /\ [Next]_vars => [captchaOn /\ ~credited /\ credited' => vetted \/ lock \in early]_vars
  BY <1>1
<1>. QED
  BY <1>2, InvHolds, PTL DEF Spec, CreditAfterCaptcha

\* Only SetData clears a command nobody has read.
THEOREM CommandKept == Spec => CommandReadOrOverwritten
<1>1. ASSUME IInv, [Next]_vars, unread, pending, ~pending'
      PROVE  \E t \in Task : pc[t] = "setData" /\ pc'[t] # pc[t]
  <2>1. ASSUME NEW t \in Task, GateStep(t) PROVE SetData(t)
    BY <1>1, <2>1 DEF commandVars, GateStep, Refer, AntispamDrops, AntispamAsks, Passes, PressLookup,
       AtAntispam, PressDelete, Activate, SetPending, CheckedFor, GatePasses, GateBlocks, SaveCommand,
       RecheckRefuses, RecheckConfirms, GetData
  <2>2. ASSUME NEW t \in Task, CreditStep(t) \/ CreditFails(t) \/ DataFails(t) PROVE FALSE
    BY <1>1, <2>2 DEF commandVars, CreditStep, CreditRefused, CreditLookup, CreditLacks, CreditChecked,
       CheckedFor, Stamp, Commit, AtCredit, CreditFails, DataFails
  <2>3. \E t \in Task : GateStep(t)
    BY <1>1, <2>2 DEF vars, commandVars, Next, ChannelsMove, Arrive, ArriveRetried, Load, TasksDie,
       AdminActivates, ChallengeExpires
  <2>4. PICK t \in Task : SetData(t)
    BY <2>1, <2>3
  <2>5. pc[t] = "setData" /\ pc'[t] = "credit"
    BY <1>1, <2>4 DEF SetData, OnlyGoto, Goto, IInv, TypeOK
  <2>. QED
    BY <2>5
<1>2. IInv /\ [Next]_vars =>
        [unread /\ pending /\ ~pending' => \E t \in Task : pc[t] = "setData" /\ pc'[t] # pc[t]]_vars
  BY <1>1
<1>. QED
  BY <1>2, InvHolds, PTL DEF Spec, CommandReadOrOverwritten

-----------------------------------------------------------------------------
(* The refinement of Vetting.                                              *)

\* A task whom the gate may still ask in the name of the row's creation.
Fresh(t) == row[t].created \/ pc[t] = "setPending"

\* Only the update that created the row makes the gate write, and it is alone.
GateInv ==
    /\ \A t \in Task : pc[t] = "idle" => ~row[t].created
    /\ \A t, u \in Task : Fresh(t) /\ Fresh(u) => t = u
    /\ gated => \A t \in Task : ~Fresh(t)

\* No task becomes fresh.
NoneFresher ==
    \A s \in Task : /\ Fresh(s)' => Fresh(s)
                    /\ pc'[s] = "idle" => ~row'[s].created

LEMMA GateKept == ASSUME GateInv, NoneFresher, UNCHANGED gated PROVE GateInv'
BY DEF GateInv, NoneFresher

LEMMA FreshSteps ==
    ASSUME TypeOK, GateInv, NEW t \in Task
    PROVE  /\ \A label \in Label \ {"idle", "setPending"} : OnlyGoto(t, label) => NoneFresher
           /\ \A label \in Label \ {"idle", "setPending"} : Concluded(t, label) => NoneFresher
           /\ \A purpose \in Goal : CheckFor(t, purpose) => NoneFresher
           /\ AfterCredit(t) => NoneFresher
           /\ \A S \in SUBSET Task : End(S) => NoneFresher
<1>0. pc \in [Task -> Label] /\ row \in [Task -> [status : Status, created : BOOLEAN]]
  BY DEF TypeOK
<1>1. \A label \in Label \ {"idle", "setPending"} :
          pc' = [pc EXCEPT ![t] = label] /\ (row' = row \/ row' = [row EXCEPT ![t] = NoRow]) => NoneFresher
  BY <1>0 DEF NoneFresher, Fresh, GateInv, NoRow
<1>2. "probe" \in Label \ {"idle", "setPending"} /\ "antispam" \in Label \ {"idle", "setPending"}
  BY DEF Label, CheckLabel
<1>3. \A label \in Label \ {"idle", "setPending"} : OnlyGoto(t, label) => NoneFresher
  BY <1>1 DEF OnlyGoto, Goto, localVars
<1>4. \A S \in SUBSET Task : End(S) => NoneFresher
  BY <1>0 DEF End, NoneFresher, Fresh, GateInv, NoRow
<1>. QED
  BY <1>1, <1>2, <1>3, <1>4 DEF Concluded, Goto, CheckFor, BeginCheck, ForgetRow, AfterCredit

LEMMA GateInit == ASSUME Init PROVE GateInv
BY DEF Init, GateInv, Fresh, NoRow

LEMMA GateArrive ==
    ASSUME IInv, GateInv, NEW t \in Task, NEW k \in Kind, Arrive(t, k) \/ ArriveRetried(t, k)
    PROVE  GateInv'
<1>1. PICK created \in BOOLEAN : Load(t, k, created) /\ (created => status = "absent")
  BY DEF Arrive, ArriveRetried
<1>2. /\ pc \in [Task -> Label] /\ row \in [Task -> [status : Status, created : BOOLEAN]]
      /\ pc' = [pc EXCEPT ![t] = IF created /\ k = "start" THEN "refer" ELSE "antispam"]
      /\ row' = [row EXCEPT ![t] = [status |-> status', created |-> created]]
      /\ gated' = gated
  BY <1>1 DEF Load, Goto, captchaVars, IInv, TypeOK
<1>3. CASE created
  <2>1. \A s \in Task : ~Fresh(s) /\ ~gated
    BY <1>1, <1>3 DEF IInv, RowFirst, VetInv, GateInv, Fresh
  <2>2. \A s \in Task \ {t} : ~Fresh(s)'
    BY <1>2, <2>1 DEF Fresh
  <2>. QED
    BY <1>2, <2>1, <2>2 DEF GateInv, Fresh
<1>4. CASE ~created
  <2>1. NoneFresher
    BY <1>2, <1>4 DEF NoneFresher, Fresh, GateInv
  <2>. QED
    BY <1>2, <2>1, GateKept
<1>. QED
  BY <1>3, <1>4

LEMMA GateAsks ==
    ASSUME IInv, GateInv, NEW t \in Task, AntispamAsks(t)
    PROVE  GateInv'
<1>0. /\ pc \in [Task -> Label] /\ row \in [Task -> [status : Status, created : BOOLEAN]]
      /\ UNCHANGED gated /\ TypeOK
  BY DEF AntispamAsks, IInv, TypeOK
<1>1. CASE End({t})
  BY <1>0, <1>1, FreshSteps, GateKept
<1>2. CASE ~(challenge \/ row[t].status = "pending_captcha")
  <2>1. /\ row[t].created /\ pc' = [pc EXCEPT ![t] = "setPending"]
        /\ row' = [row EXCEPT ![t] = NoRow]
    BY <1>2 DEF AntispamAsks, MustAnswer, Goto, ForgetRow
  <2>2. NoneFresher
    BY <1>0, <2>1 DEF NoneFresher, Fresh, GateInv
  <2>. QED
    BY <1>0, <2>2, GateKept
<1>. QED
  BY <1>1, <1>2 DEF AntispamAsks

LEMMA GateSetPending ==
    ASSUME IInv, GateInv, NEW t \in Task, SetPending(t)
    PROVE  GateInv'
<1>0. /\ pc \in [Task -> Label] /\ row \in [Task -> [status : Status, created : BOOLEAN]]
      /\ pc' = [s \in Task |-> IF s \in {t} THEN "idle" ELSE pc[s]]
      /\ row' = [s \in Task |-> IF s \in {t} THEN NoRow ELSE row[s]]
      /\ Fresh(t)
  BY DEF SetPending, End, Fresh, IInv, TypeOK
<1>1. \A s \in Task : ~Fresh(s)'
  BY <1>0 DEF Fresh, GateInv, NoRow
<1>. QED
  BY <1>0, <1>1 DEF GateInv, Fresh

\* Every other step of a task.
LEMMA GateElse ==
    ASSUME IInv, GateInv, NEW t \in Task,
           \/ Refer(t) \/ AntispamDrops(t) \/ Passes(t) \/ PressLookup(t) \/ PressDelete(t) \/ Activate(t)
           \/ GatePasses(t) \/ GateBlocks(t) \/ SaveCommand(t)
           \/ RecheckRefuses(t) \/ RecheckConfirms(t) \/ GetData(t) \/ SetData(t)
           \/ CreditStep(t) \/ CreditFails(t) \/ DataFails(t)
    PROVE  GateInv'
<1>0. /\ {"antispam", "credit", "stamp", "commit", "delete", "activate", "save", "getData", "setData"}
           \subseteq Label \ {"idle", "setPending"}
      /\ {"gate", "recheck", "credit"} \subseteq Goal /\ {t} \in SUBSET Task /\ TypeOK
      /\ pc \in [Task -> Label] /\ row \in [Task -> [status : Status, created : BOOLEAN]]
  <2>1. {"antispam", "credit", "stamp", "commit", "delete", "activate", "save", "getData", "setData"}
            \subseteq Label \ {"idle", "setPending"}
    BY DEF Label, Settling
  <2>2. {"gate", "recheck", "credit"} \subseteq Goal
    BY DEF Goal
  <2>3. TypeOK /\ pc \in [Task -> Label] /\ row \in [Task -> [status : Status, created : BOOLEAN]]
    BY DEF IInv, TypeOK
  <2>. QED
    BY <2>1, <2>2, <2>3
<1>1. UNCHANGED gated
  BY DEF Refer, AntispamDrops, Passes, PressLookup, PressDelete, Activate, GatePasses, GateBlocks, SaveCommand,
     RecheckRefuses, RecheckConfirms, GetData, SetData, CreditStep, CreditRefused, CreditLookup, CreditLacks,
     CreditChecked, Stamp, Commit, CreditFails, DataFails, CheckedFor, AtCredit, captchaVars
<1>2. ASSUME NEW label \in Label \ {"idle", "setPending"}, Goto(t, label), ForgetRow(t) \/ UNCHANGED row
      PROVE  NoneFresher
  BY <1>0, <1>2 DEF Goto, ForgetRow, NoneFresher, Fresh, GateInv, NoRow
<1>3. CASE Refer(t) \/ PressDelete(t) \/ Activate(t) \/ GateBlocks(t) \/ GetData(t) \/ SetData(t) \/ DataFails(t)
  <2>1. \E label \in Label \ {"idle", "setPending"} : OnlyGoto(t, label)
    BY <1>0, <1>3 DEF Refer, PressDelete, Activate, GateBlocks, GetData, SetData, DataFails
  <2>. QED
    BY <1>0, <1>1, <2>1, FreshSteps, GateKept
<1>4. CASE AntispamDrops(t) \/ GatePasses(t) \/ SaveCommand(t) \/ RecheckRefuses(t)
  <2>1. End({t})
    BY <1>4 DEF AntispamDrops, GatePasses, SaveCommand, RecheckRefuses
  <2>. QED
    BY <1>0, <1>1, <2>1, FreshSteps, GateKept
<1>5. CASE Passes(t) \/ RecheckConfirms(t)
  <2>1. \/ End({t}) \/ CheckFor(t, "gate") \/ CheckFor(t, "recheck") \/ Concluded(t, "getData")
    BY <1>5 DEF Passes, RecheckConfirms
  <2>. QED
    BY <1>0, <1>1, <2>1, FreshSteps, GateKept
<1>6. CASE PressLookup(t)
  <2>1. End({t}) \/ (Goto(t, "delete") /\ ForgetRow(t))
    BY <1>6 DEF PressLookup
  <2>. QED
    BY <1>0, <1>1, <1>2, <2>1, FreshSteps, GateKept
<1>7. CASE CreditStep(t) \/ CreditFails(t)
  <2>1. \/ AfterCredit(t) \/ CheckFor(t, "credit") \/ Concluded(t, "stamp") \/ OnlyGoto(t, "commit")
        \/ (Goto(t, "stamp") /\ UNCHANGED row)
    BY <1>7 DEF CreditStep, CreditRefused, CreditLookup, CreditLacks, CreditChecked, Stamp, Commit, CreditFails
  <2>. QED
    BY <1>0, <1>1, <1>2, <2>1, FreshSteps, GateKept
<1>. QED
  BY <1>3, <1>4, <1>5, <1>6, <1>7

LEMMA GateElsewhere ==
    ASSUME IInv, GateInv,
           \/ \E S \in SUBSET Task : TasksDie(S)
           \/ AdminActivates \/ ChallengeExpires \/ ChannelsMove \/ UNCHANGED vars
    PROVE  GateInv'
<1>0. UNCHANGED gated /\ TypeOK
  BY DEF TasksDie, AdminActivates, ChallengeExpires, ChannelsMove, captchaVars, vars, IInv
<1>1. CASE \E S \in SUBSET Task : TasksDie(S)
  BY <1>0, <1>1, FreshSteps, GateKept DEF TasksDie, GateInv
<1>2. CASE AdminActivates \/ ChallengeExpires \/ UNCHANGED vars
  <2>1. UNCHANGED <<pc, row>>
    BY <1>2 DEF AdminActivates, ChallengeExpires, vars, localVars
  <2>2. NoneFresher
    BY <2>1 DEF NoneFresher, Fresh, GateInv
  <2>. QED
    BY <1>0, <2>2, GateKept
<1>3. CASE ChannelsMove
  <2>1. UNCHANGED row /\ pc \in [Task -> Label]
    BY <1>3 DEF ChannelsMove, localVars, IInv, TypeOK
  <2>2. pc' = pc \/ \E t \in Task : pc' = [pc EXCEPT ![t] = "probe"] \/ pc' = [pc EXCEPT ![t] = "getMember"]
    BY <1>3 DEF ChannelsMove, CheckStep, ProbeCached, ProbeUncached, AnsweredMember, AnsweredMissing,
       Unverifiable, Answered, Join, Quit, CacheExpires
  <2>3. NoneFresher
    BY <2>1, <2>2 DEF NoneFresher, Fresh, GateInv
  <2>. QED
    BY <1>0, <2>3, GateKept
<1>. QED
  BY <1>1, <1>2, <1>3

LEMMA GateNext == ASSUME IInv, GateInv, [Next]_vars PROVE GateInv'
<1>1. ASSUME NEW t \in Task, NEW k \in Kind, Arrive(t, k) \/ ArriveRetried(t, k) PROVE GateInv'
  BY <1>1, GateArrive
<1>2. ASSUME NEW t \in Task, GateStep(t) \/ CreditStep(t) \/ CreditFails(t) \/ DataFails(t) PROVE GateInv'
  BY <1>2, GateAsks, GateSetPending, GateElse DEF GateStep
<1>. QED
  BY <1>1, <1>2, GateElsewhere DEF Next

\* Every step of an invitee's updates, of the admins and of the channels is a
\* step of Vetting or leaves it alone.
LEMMA StepImplementsVetting ==
    ASSUME IInv, GateInv, [Next]_vars
    PROVE  [Vet!Next]_(Vet!vars)
<1>0. /\ challenge \in BOOLEAN /\ vetted \in BOOLEAN
      /\ \A t \in Task : pc[t] # "idle" => status # "absent"
  BY DEF IInv, TypeOK, RowFirst
<1>1. ASSUME UNCHANGED <<status, gated, vetted, challenge>> PROVE UNCHANGED Vet!vars
  BY <1>1 DEF Vet!vars
<1>2. ASSUME NEW t \in Task, NEW k \in Kind, Arrive(t, k) \/ ArriveRetried(t, k)
      PROVE  [Vet!Next]_(Vet!vars)
  BY <1>2 DEF Arrive, ArriveRetried, Load, captchaVars, Vet!Next, Vet!Register, Vet!vars
<1>3. ASSUME NEW t \in Task, AntispamAsks(t) PROVE Vet!Pose
  BY <1>0, <1>3 DEF AntispamAsks, AtAntispam, rowVars, Vet!Pose
<1>4. ASSUME NEW t \in Task, PressLookup(t) PROVE [Vet!Next]_(Vet!vars)
  <2>1. UNCHANGED <<status, gated, challenge>> /\ vetted' = (vetted \/ challenge)
    BY <1>4 DEF PressLookup, AtAntispam, rowVars
  <2>2. CASE challenge
    BY <2>1, <2>2 DEF Vet!Next, Vet!AcceptAnswer
  <2>3. CASE ~challenge
    <3>1. vetted' = vetted
      BY <1>0, <2>1, <2>3
    <3>. QED
      BY <1>1, <2>1, <3>1
  <2>. QED
    BY <2>2, <2>3
<1>5. ASSUME (\E t \in Task : PressDelete(t)) \/ ChallengeExpires PROVE [Vet!Next]_(Vet!vars)
  <2>1. ~challenge' /\ UNCHANGED <<status, gated, vetted>>
    BY <1>5 DEF PressDelete, ChallengeExpires, rowVars
  <2>2. challenge' = FALSE
    BY <1>5 DEF PressDelete, ChallengeExpires
  <2>3. CASE challenge
    BY <2>1, <2>2, <2>3 DEF Vet!Next, Vet!Close
  <2>4. CASE ~challenge
    <3>1. challenge' = challenge
      BY <1>0, <2>2, <2>4
    <3>. QED
      BY <1>1, <2>1, <3>1
  <2>. QED
    BY <2>3, <2>4
<1>6. ASSUME NEW t \in Task, Activate(t) PROVE Vet!Admit
  <2>1. vetted
    BY <1>6 DEF Activate, IInv, TaskInv
  <2>. QED
    BY <1>6, <2>1 DEF Activate, captchaVars, Vet!Admit
<1>7. ASSUME NEW t \in Task, SetPending(t) PROVE Vet!Gate
  <2>1. ~gated /\ status # "absent"
    BY <1>0, <1>7 DEF SetPending, GateInv, Fresh
  <2>. QED
    BY <1>7, <2>1 DEF SetPending, Vet!Gate
<1>8. ASSUME AdminActivates PROVE Vet!Moderate
  BY <1>8 DEF AdminActivates, Vet!Moderate
<1>9. ASSUME NEW t \in Task,
             \/ Refer(t) \/ AntispamDrops(t) \/ Passes(t) \/ GatePasses(t) \/ GateBlocks(t) \/ SaveCommand(t)
             \/ RecheckRefuses(t) \/ RecheckConfirms(t) \/ GetData(t) \/ SetData(t) \/ DataFails(t)
             \/ CreditStep(t) \/ CreditFails(t)
      PROVE  UNCHANGED Vet!vars
  <2>1. UNCHANGED <<status, gated, vetted, challenge>>
    BY <1>9 DEF Refer, AntispamDrops, AtAntispam, Passes, GatePasses, GateBlocks, SaveCommand,
       RecheckRefuses, RecheckConfirms, GetData, SetData, DataFails, CreditStep, CreditRefused, CreditLookup,
       CreditLacks, CreditChecked, Stamp, Commit, CreditFails, CheckedFor, AtCredit, captchaVars, rowVars
  <2>. QED
    BY <1>1, <2>1
<1>10. ASSUME (\E S \in SUBSET Task : TasksDie(S)) \/ ChannelsMove \/ UNCHANGED vars
       PROVE  UNCHANGED Vet!vars
  BY <1>1, <1>10 DEF TasksDie, ChannelsMove, vars, rowVars, captchaVars
<1>11. ASSUME NEW t \in Task, GateStep(t) PROVE [Vet!Next]_(Vet!vars)
  BY <1>3, <1>4, <1>5, <1>6, <1>7, <1>9, <1>11 DEF GateStep, Vet!Next
<1>. QED
  BY <1>2, <1>5, <1>8, <1>9, <1>10, <1>11 DEF Next, Vet!Next

\* The captcha as the credit sees it keeps the promise of Vetting, which the
\* whole captcha keeps in AccessGate (app/features/antispam).
THEOREM RefinesVetting == Spec => ImplementsVetting
<1>1. Init => Vet!Init
  BY DEF Init, Vet!Init
<1>2. IInv /\ GateInv /\ [Next]_vars => [Vet!Next]_(Vet!vars)
  BY StepImplementsVetting
<1>. QED
  BY <1>1, <1>2, GateInit, GateNext, InvHolds, PTL DEF Spec, ImplementsVetting, Vet!Spec
=============================================================================
