# A verified model of telegram-bot-template

This directory holds TLA+ modules that model the stateful core of the bot
(`src/app`), the TLC configurations that check them on small instances, and
proofs, checked by TLAPS, that the main safety properties hold for every size of
the system. Every definition is translated from the Python source; `PROJECT.json`
names the lines each one stands for.

Contents: [the system](#the-system), [components](#components),
[modules and the code they model](#modules-and-the-code-they-model),
[runs](#runs), [fairness](#fairness), [proofs](#proofs),
[where the code departs from its documents](#where-the-code-departs-from-its-documents),
[what is not modelled](#what-is-not-modelled), [plan](#plan).

## The system

One asyncio process runs an aiogram dispatcher, a broadcast worker and an
APScheduler. Its state is in PostgreSQL (`users`, `payments`, `broadcasts`, ...) and
Redis (captcha hashes, the broadcast queue and cancel flags, TON Connect keys and
nonces, conversation states, caches), and, for TON Connect, in one dictionary of the
process. Five facts about the runtime shape every model.

1. *Every update is a task of its own.* Polling uses aiogram's default
   `handle_as_tasks=True`, so updates of one user run concurrently and interleave at
   every `await`. An action therefore ends where the code awaits a database
   statement, a Redis command or a Telegram call.
2. *An update is confirmed by the next `getUpdates`.* A crash before that delivers it
   again, and its first task may have stopped anywhere.
3. *The gates are outer middlewares of messages and callback queries only*: registration,
   status gate, antispam, i18n, mandatory subscriptions, in that order. A
   `pre_checkout_query` passes none of them, a `successful_payment`, being a message,
   passes all.
4. *Every repository method is a transaction of its own*, so a statement is one atomic
   step, and a sequence of two is not.
5. *Jobs do not overlap themselves* (`max_instances=1`): the TON poller and the TON
   Connect clean-up (each minute) and the audit clean-up (daily) are each a single
   process that interleaves with everything else. Shutdown stops the worker, waits ten
   seconds, and cancels whatever still runs: a crash at any await.

## Components

For each: the state it keeps, its operations, whom it talks to, what is hard about
it, and what makes it correct.

**Payments table** (`core/repositories/payments.py`). Rows with a status, a charge id or
transaction hash, and two times. INSERT pending; `mark_paid`, `mark_mismatch`,
`mark_expired`, each `UPDATE ... WHERE status = 'pending'`; `exists_by_charge_id`;
`find_pending_ton`. Shared by both payment flows. Correct when a row settles once and its
charge is never overwritten.

**Stars payments** (`features/payments/stars.py`). Creates an invoice row and a reusable
link, answers `pre_checkout_query`, and on `successful_payment` marks the row and calls
the registered callbacks. Hard: redelivery, two checkouts of one link, a stop between any
two awaits. Correct when callbacks run at most once per payment, by the task that owns it,
and an undisturbed charge gets them all.

**TON payments** (`features/payments/ton.py`, `ton_api.py`, `ton_payments_poll` in
`scheduler/tasks.py`). Opens a row, asks the wallet for a transfer with the row's
payload as its comment, and polls one page of the indexer each minute for rows whose
window is open. Hard: transfers that are late, wrong, repeated or pushed off the page,
a crash between commit and callback. Correct when the first matching transfer decides,
and effects follow the commit.

**Access gate** (`core/services/registration.py`, `core/middlewares/`,
`features/antispam/`). The users row, the challenge hash and the lockout key. An update
registers the user, is refused if banned or muted, and a new user is asked a captcha.
Hard: an update decides by the row it loaded on arrival, and no write tests the old
status. Correct when nobody gets active past the gate without a right answer or an
admin, and a ban is undone only as described.

**Moderation** (`admin/user_manager.py`). ban, unban, mute, unmute write the status;
kick is two Telegram calls, a ban at once undone. It shares `users.status` with the gate and the
role cache with authorization. Correct when the commands reach the users they may reach, and a
kicked user can come back.

**Roles** (`admin/authorization.py`, `admin/filters.py`, the admin commands of
`admin/handlers.py`). The role column with a copy in Redis for 60 s; `get_role` reads the copy or
fills it; grant, revoke and the seeding at start write the column and then drop the copy. Hard: a
reader may fill in what it read before a change, an invalidation may be lost, and a command rests
on several looks at roles that lie awaits apart. Correct when a wrong answer is confined to the
time the copy lives, and no command outranks its author.

**Broadcasts** (`features/broadcasts/producer.py`, `worker.py`). A dialog per admin, a Redis list,
a flag per cancelled job, a row per job with counters, one worker. Hard: a job leaves the
queue before anything is persisted, flags come and expire at any moment, 429 waits,
failed flushes. Correct when nobody gets a job twice, the numbers are true, a cancel
stops the sending, and the queue always moves on.

**TON Connect** (`ton/connector.py`, `ton/handlers.py`, `core/handlers/profile.py`,
`ton_session_cleanup`). A nonce, SDK keys and a message record per user in Redis, a
connector per user in the process, a wallet per user in the row. Hard: all of it is kept
per user and two sessions overlap; disconnect closes what it finds, not what
still waits. Correct when a proof binds once, never after a disconnect, and no
wallet is replaced behind the user's back.

**Referrals** (`features/referrals/`, the referrer of `core/services/registration.py`). A referrer written
at registration, a credit tried at /start, at the captcha's end and at the subscription recheck, in
one transaction that stamps the row and counts. Hard: the attempts race, an insert whose answer is lost
is repeated and finds the row, an attempt that fails is tried again only by accident. Correct when
the credit counts once, only after captcha and channels, and comes at last.

**Mandatory subscriptions** (`features/subscriptions/`). A check per required channel with a
cache of positive answers, a gate, a command remembered in the conversation's data, a
recheck button. Hard: a channel that cannot be verified is passed over, the data is read and written
back whole. Correct when a recheck does not lose a command it should announce.

**Rate limiter** (`features/antispam/ratelimit.py`). A Lua script on a window (a sorted set with a TTL)
and a block key. Hard: the time of a message is taken before the round trip, so the script sees times
out of order. Correct when the cap holds, and nobody is refused who kept to it.

**Retry helper** (`core/services/retry.py`): attempts and a 429 budget around single calls.

**Audit log, languages, statistics, help and cancel, conversation storage, admin commands and
menus, start-up and wiring, HTTP endpoints, schema**: append-only rows, formatting, reads, wrappers,
construction.

The interactions: both payment flows meet in the table; the captcha's success and the recheck call the
referral credit; registration, captcha and subscription gate decide whether it is due; moderation, the status gate and the captcha meet in `users.status`;
producer and worker meet in the list, the flag and the row; handlers, waiting tasks and
the clean-up job meet in the keys of a user; and the gates decide which
`successful_payment` reaches the payments at all.

## Modules and the code they model

| Module | Role |
|---|---|
| `PaymentsRepo` | the payments table, extended by both payment modules |
| `PaymentLedger` | abstract: what the payment module promises its callers |
| `StarsPayments`, `TonPayments` | the two flows, each implementing `PaymentLedger` |
| `Vetting` | abstract: what the captcha gate promises |
| `AccessGate` | registration, status gate, captcha, moderation; implements `Vetting` |
| `JobLedger` | abstract: what broadcasts promise the admins who start them |
| `Broadcast` | dialog, queue, cancel flag, worker; implements `JobLedger` |
| `TonConnect` | sessions, disconnect, clean-up job |
| `Subscriptions` | one check of the required channels, extended by `Referrals` |
| `Referrals` | registration, captcha and subscription gate as far as they decide about a credit, and the credit; implements `Vetting` as well |
| `RateLimiter` | the sliding window and its block |
| `AdminRoles` | roles, their cache, the admin commands, seeding |
| `X_proofs` | the theorems of `X`, which it extends |
| `MCX` | `X` as TLC runs it: symmetry sets, for `TonConnect` a view, for `Broadcast` three scenarios (below) |

Two conventions hold throughout. `faults` counts crashes and failed calls against
`MaxFaults` (`crashes` against `CrashLimit` in `TonConnect`). A failed *write* whose outcome
the code cannot know, a commit whose answer is lost, has both outcomes.
A few variables record history only, so that a property can speak of
it: `asked`, `gated`, `vetted`, `racing` in `AccessGate`, `selected`, `tried`, `late` in
`Broadcast`, `spent`, `ended`, `rivals`, `crossed` in `TonConnect`, `gated`, `vetted`, `early`, `unverified`,
`unread`, `joined` in `Referrals` and `Subscriptions`, `culprits` in `RateLimiter`, `outdated`, `spoiled`,
`doubtful`, `stranded` in `AdminRoles`, `calls`, `told` and `sent` where the effect is outside the bot.

### PaymentsRepo and PaymentLedger

`status` and `charge` are the two columns that decisions rest on. `UpdatePending`
is the guarded UPDATE; `MarkPaid` and `TonPayments!MarkCurrent` are its uses.
`PaymentLedger` has three actions: `Open`, `Settle` once into one outcome, `Call` a
callback of that outcome at most once and not before. The refinement mapping of both
flows is the identity on `status` and `calls`; they differ in which callbacks an
outcome has.

### StarsPayments

| Code | Model |
|---|---|
| `create_stars_invoice` | `CreateInvoiceRow`, `CreateInvoiceLink`, `CreateInvoiceLinkFails` |
| Telegram: a user opens a link, Telegram charges | `Checkout`, `Collect` (external) |
| `on_pre_checkout` | `ValidatePreCheckout`, `AnswerPreCheckout`, `PreCheckoutLookupFails`, `PreCheckoutTimesOut` |
| `getUpdates` and its confirmation | `Fetch`, `Confirm`, `Crash` (redelivers) |
| the middleware chain before a message | `PassGates`, `GatesSwallow` |
| `on_successful_payment` | `CheckExists`, `MarkInvoicePaid`, `Reread`, `InvokeHook`, `HooksDone`, and the failure of each statement |

`phase[c]` is Telegram's side of a checkout, `pc[c]` and `hook[c]` the handler's. Charges
are ids of checkouts, and two may be of one payment, because links are reusable.

### TonPayments

| Code | Model |
|---|---|
| `create_ton_payment` | `CreateTonRow`, `SendTransaction`, `SendTransactionFails` |
| chain and indexer | `Transfer`, `Index`; `Page` is one answer of at most `PageLimit` |
| `find_by_payload` | `FindByPayload`: the oldest match of the page |
| `ton_payments_poll` | `StartPoll`, `StartPollFails`, `Lookup`, `LookupFails`, `Settle`, `SettleFails`, `RereadRow`, `RereadRowFails`, `InvokeHooks`, `NotifyUser`, `EndPoll` |
| process | `Tick`, `Crash` |

A pass reads the clock once (`now`) and goes through `todo`. A transfer is a comment, a
bit that says whether the amount is the exact one, and a time; its hash is its position on
the chain. Time is in minutes, and a pass may take any number of them.

### Vetting and AccessGate

`Vetting` knows the row's status, whether the gate has asked, whether a question is open and whether
the user is `vetted`: `Gate` asks once, `AcceptAnswer` takes an open question, `Admit` makes a vetted
user active, `Moderate` is an admin (or an auto-lift, which ends what an admin decided). Questions may be
posed, replaced and forgotten at will. `AccessGate` maps `open` to a hash that has its `correct` field,
since a hash that `HINCRBY` revived asks nothing; `Referrals` maps it to its flag `challenge`. The other
three variables keep their names.

One ordinary user; each `Task` is an update in flight, with the row it loaded (`row[t]`).

| Code | Model |
|---|---|
| `ensure_user` | `Arrive` |
| `StatusGateMiddleware` | `StatusGateRefuses`, `StatusGatePasses`, `AutoLift` |
| `AntispamMiddleware` | `AntispamDrops`, `AntispamAsks`, `AntispamPasses`, `Remind`, `BuildChallenge`, `SendQuestion`, `SetPending`, `NoHash`, `Handle` |
| `verify_answer` | `LockedOut`, `NotLockedOut`, `LookupCorrect`, `DeleteChallenge`, `Activate`, `CountWrong`, `Unask`, `Lock` |
| Redis TTLs | `ChallengeExpires`, `BlockExpires` |
| `UserManager` | `Ban`, `Mute`, `UnbanOrUnmute` |

The rate limiter is `AntispamDrops`, which may drop any message that it may drop in the code;
`RateLimiter` says which ones it does.

### JobLedger and Broadcast

`JobLedger` has six actions: `Submit` and `TakeUp` in order and one at a time, `Begin` and `Finish`
of a row, `Deliver` to a user once and only while the row says running, `PutAside` for a job that is over, failed
or lost with the process. Queue order, the flag, waits, counters and dialogs are not in it.
`Broadcast` maps `submitted` to `enqueued`, `waiting` to the Redis list read from the end BRPOP takes
(`OldestFirst`), `current` to the worker's job, `status` to the column and `arrived` to `sent`.

| Code | Model |
|---|---|
| `/broadcast`, its text and filter steps, `/cancel` | `Entry`, `DialogGoesOn`, `DialogDropped` |
| `handle_confirm_yes` | `PressYes`, `ReadDialog`, `Enqueue`, `EnqueueFails`, `ClearDialog` |
| `/broadcast_cancel` and the flag's TTL | `Cancel`, `FlagExpires` |
| `BroadcastWorker._run`, `_process_job` | `Pop`, `CreateRunning`, `OpenStream`, `Proceed`, `CheckFails`, `StopForFlag`, `StreamEnds`, `Pace`, `Flush`, `FlushFails`, `LastFlush`, `LastFlushFails`, `Finish`, `Report`, `JobFails` |
| `_send_to_user` | `SendDelivers`, `SendForbidden`, `SendMustWait`, `SendErrs`, `MarkBlocked`, `MarkBlockedFails` |

A filter is any subset of the reachable users. Whether a send that ended in an error
arrived is unknown to the code, so the model has both. The worker is one
program counter (`step`); the presses of a Yes button are tasks of their own, since two
may run at once.

### TonConnect

One user, any number of `/connect_wallet`. Each shared thing is modelled by the
session that wrote it last.

| Code | Model |
|---|---|
| `/connect_wallet`, `generate_connect_link` | `Refuse`, `ReadUser`, `SetNonce`, `PutConnector`, `Link`, `StartFails`, `SaveMeta` |
| `await_connect` | `NoSession`, `TakeConnector`, `StopWaiting`, `AwaitTimesOut`, `PresentProof`, `RejectProof`, `LookAtNonce`, `ConsumeNonce`, `RefuseProof`, `AcceptProof`, `SetWallet`, `SetWalletFails`, `Leave`, `ReplyAndClearMeta` |
| the wallet | `Approve` (external) |
| `disconnect` by `Caller` "user" or "job" | `AskDisconnect`, `PopConnector`, `CloseLink`, `ClearWallet`, `PurgeKeys`, `PurgeNonce`, `PurgeMeta`, `TeardownFails` |
| `ton_session_cleanup` | `BeginPass`, `ReadMeta`, `CheckKeys`, `DropMeta` |
| time and TTLs | `GetLate`, `KeysExpire`, `MetaExpires` |

A record whose time has passed is enough for the job; for any other it asks whether the
SDK's keys are still there. A Redis that fails at that moment makes it skip the record
until the next pass. A restart (`Crash`) is a step only while the process has something to lose:
a connector, an SDK object, a task or a half-done pass or disconnect (`Busy`). A session that fails to start while the user's connector is already in the
dictionary is `failed`: nobody takes the connector out again.

A session is `Relying` on the user's shared keys from its nonce to the `finally` of its task; it is
`crossed` if another one was relying at the same time, or a disconnect took the connector or was still to
delete the nonce.

### Referrals and Subscriptions

One invited user; each `Task` is an update in flight. `Subscriptions` is one
`SubscriptionChecker.check`, which the gate, the recheck and the credit each run inside a task.

| Code | Model |
|---|---|
| `upsert_from_tg`, `set_referrer` | `Arrive`, `ArriveRetried`, `Refer` |
| antispam gate and captcha, as far as a credit depends on them | `AntispamDrops`, `AntispamAsks`, `Passes`, `PressLookup`, `PressDelete`, `Activate`, `SetPending` |
| `check`, `_is_member`, the positive cache | `BeginCheck`, `ProbeCached`, `ProbeUncached`, `AnsweredMember`, `AnsweredMissing`, `Unverifiable`, `CacheExpires` |
| subscription gate and `handle_recheck` | `GatePasses`, `GateBlocks`, `SaveCommand`, `RecheckRefuses`, `RecheckConfirms`, `GetData`, `SetData`, `DataFails` |
| `try_credit`, `try_credit_referral` | `CreditRefused`, `CreditLookup`, `CreditLacks`, `CreditChecked`, `Stamp`, `Commit`, `CreditFails` |
| the user in Telegram | `Join`, `Quit` (external) |

A scenario fixes the two feature flags and whether the user sends slash commands. `lock` is
the transaction that has stamped the row and not committed yet: a second stamp waits for it.

### RateLimiter

Each message is a task: `PreCheck` (`is_blocked`), `TakeTime` (the bot's clock), and one of
`ScriptBlocked`, `ScriptAllows`, `ScriptBlocks`, the script's three ends, atomic in Redis.
Between the last two steps any other message may pass. TTLs are times on the clock at which
a key is gone; `MaxDelay` is the longest round trip.

### AdminRoles

| Code | Model |
|---|---|
| `IsAdminFilter`, `IsSuperadminFilter`, `get_role` | `Receive`, `Cached`, `LoadRole`, `FillCache`, `FillFails`, `CacheExpires` |
| `grant_admin`, `revoke_admin`, `set_role`, `invalidate` | `TargetFound`, `TargetSpared`, `WriteRole`, `Invalidate`, `InvalidateFails` |
| `ban`, `mute`, `kick` | `Ban`, `Mute`, `BanInChat`, `UnbanInChat`, `KickFails` |
| `seed_superadmins` at start | `Seed`, `SeedFails` |

`Goto(t, label)` moves a command on, and clears its locals at the end. A user is in doubt
(`InDoubt`) between the write of a role and the end of its invalidation, and after one that was
lost or overtaken by a reader. `unban` and `unmute` ask nothing about their target's role; they only
write a status and are in `AccessGate`.

## Runs

Passing runs:

| Run | Instance | What it shows |
|---|---|---|
| `stars` | 2 payments, 2 charges, 2 callbacks, 2 faults | The recorded charge is Telegram's for this invoice (`PaidMeansCollected`) and stays (`FirstChargeKept`); a settled invoice refuses new checkouts (`SettledInvoiceRefused`); an undisturbed charge completes (`CleanChargeCompletes`); the flow implements the ledger (`ImplementsLedger`), in which a callback is called at most once |
| `ton` | 2 payments, 2 transfers, windows of 1 minute, clock to 2, 1 fault | The oldest matching transfer decides (`FirstTransferDecides`); effects follow the commit and happen once (`EffectsFollowCommit`); a transfer the pass can see settles its payment if nothing fails (`SelectedTransferSettles`); the ledger again |
| `access` | 2 updates in flight, 2 button values, 2 tries, clock to 1, 1 fault | Past the gate, active means vetted (`CaptchaNotForgotten`); the gate implements `Vetting` (`ImplementsVetting`), which asks once; a ban or mute is undone by an admin, by time, or by an update that was in flight before it (`OnlyRacingUpdatesUndo`) |
| `broadcast` | "queue": 2 admins with 2 presses each, 5 jobs, cap 1; "send": 2 jobs, 2 users, 1 wait, 1 fault, cancels; "dialog": 1 admin, 1 press, 2 jobs, 1 fault | By how much several dialogs and double presses push the queue past its cap (`QueueBounded`); the queue, the worker and the rows implement `JobLedger` (`ImplementsJobs`): each job once and in order, at most one message per job and user; the row's numbers add up and bound the truth (`RowAddsUp`); a cancel lets one begun send through (`CancelStops`); `completed` and `cancelled` mean what they say (`StatusTellsTheTruth`); every queued job is picked up (`QueueDrains`), and ends if nothing fails (`CleanJobEnds`) |
| `tonconnect` | 2 sessions, 1 disconnect, 1 restart | A proof counts once (`ProofCountsOnce`), and not after a disconnect has deleted the nonce (`DisconnectEndsSessions`); a wallet is replaced only by a session that began before it was bound (`OnlyRivalsReplace`); a session that no other session and no disconnect crosses finds its own object and nonce (`UncrossedFindsItsOwn`); only a failed start leaves a connector behind (`OnlyFailedStartsLeak`) |
| `referrals` | 2 updates, 1 channel, 4 scenarios, 1 fault | The credit counts once (`CreditedOnce`), after the captcha (`CreditAfterCaptcha`; but for an attempt that read the row before the gate had written pending_captcha, the window of `access_bypass`) and the channels, but for those nobody could verify (`CreditAfterJoining`); the referrer is kept unless a fault hides the insert (`ReferredUnlessFault`); a saved command stays until a recheck reads it, or one between its read and its write-back overwrites it (`CommandReadOrOverwritten`); the captcha as this module has it implements `Vetting` (`ImplementsVetting`); who keeps pressing recheck as a member is credited in the end (`RecheckSettles`) |
| `ratelimit` | 6 messages, 2 in 3 units of time, block of 4, delay up to 1, clock to 9 | The cap holds over `Window - MaxDelay` (`BurstCapped`); nobody is refused without a burst (`RefusedOnlyAfterBurst`); each block needs a burst of its own (`BlockEarned`) |
| `roles` | 2 commands, 2 users, 2 starts, 1 fault | The cached role is wrong only in doubt (`StaleOnlyInDoubt`); without a fault roles are changed by superadmins, and never a superadmin's (`SuperadminsRule`); admins punish users, unless a change or a stale entry interferes (`AdminsPunishUsers`); a ban in the chat outlasts no kick that did not fail (`KickedMayReturn`) |

Four further runs end in a counterexample each (`ton_expiry`, `access_bypass`, `access_stuck`,
`tonconnect_cleanup`); see [below](#where-the-code-departs-from-its-documents).

Several of these properties have an exception: no fault (`CleanChargeCompletes`, `SelectedTransferSettles`,
`CleanJobEnds`, `ReferredUnlessFault`, `SuperadminsRule`), a role in doubt or a command overtaken (`StaleOnlyInDoubt`,
`AdminsPunishUsers`), a kick that failed (`KickedMayReturn`), an early reader (`CreditAfterCaptcha`), a failed start
(`OnlyFailedStartsLeak`). What happens in the exception is what the code does; such a property says that nothing else
has the same effect, and does not catch the exception itself. The notes of the hazards in `PROJECT.json`
say where that leaves a hazard without a property.

The type invariant of each module, `TypeOK`, is a theorem (`TypeCorrect`) for all values of
the constants, so the runs do not check it on small ones again.

*Scenarios of `broadcast`.* What the producers do and what the worker does with a job meet only in the
queue, so `MCBroadcast` asks about them one at a time; the worker is free in all three. "queue" has all interleavings of four
presses with a worker whose jobs are short (all users block the bot), and neither faults nor
cancels: `QueueBounded` then says `Len(queue) < 5` at a cap of 1, a queue of four is reached, and the five job ids
let a longer one come about if the code allowed it. The faults in the bound of `QueueBounded` would need nine jobs
and are left to the proof (`QueueIsBounded`). "send" begins with two presses at their push, a state the dialog leads
to, and has everything else in full. "dialog" lets a fault strike anywhere in a dialog.

*Bounds.* Two is the number that matters: two charges of one link, two updates of one
user, two jobs in a row, two sessions in one dictionary entry, a command and the reader or
the command that overtakes it are what the code's guards protect against, and a third of them meets the
same guards. One fault stops a task at any
of its awaits and leaves the rest of the run to show the consequence; `stars` has two, so
that a redelivery can itself be disturbed. `MaxTries = 2` has a first wrong answer that is
counted and a last one that locks out. Windows of one minute and a clock to 2 reach a time
before, at and after the deadline. `MaxWaits = 1` has a wait and an exhausted budget.
`PageLimit = 2` equals the number of transfers of the `ton` run: a page too small to
show a transfer differs, for the code, in nothing from a transfer that is not indexed yet.
Six messages and a clock to 9 hold a burst, its block, the end of it and a second burst, and a
window with a message that arrives late. One channel suffices, because a check treats its channels
independently and its verdict is their conjunction; slash commands occur in the scenario without
captcha, whose gate they do not reach. Two starts are one to seed and one to seed anew while the first
one's commands are cut off. Every safety property of these runs is also proved without
the bounds.

*Symmetry* is used in `access`, `tonconnect`, `ratelimit` and `roles`, which check
safety; the values permuted are treated alike by the code. `broadcast` checks liveness as well and therefore
takes interchangeable values in one order instead (`Canonical`): job ids as they are pushed, and the
recipients of the first job. *Deadlock* is not checked where the
system may stop: nobody need pay, write or press, and the bounded clock ends.
The view of `MCTonConnect` drops from the histories `spent` and `ended` the sessions that are
late and not being verified, whose proofs are refused for their age: no step can accept them any more, so no
property reads those entries again. Of `crossed` it keeps the sessions under way, the only ones the property asks about.

Each property is tied to the code by a *mutant*: the definition with a dropped guard, an
off-by-one, a missing write, a swapped order, which makes the same run violate the
property. `PROJECT.json` lists them; the mutated forms are in the modules right before the
definitions they replace.

## Fairness

Assumed is only what the process does by itself.

- `StarsPayments`: `WF(Fetch(c))`, `WF(HandlerStep(c))`. The dispatcher polls for as long as
  it runs, and the event loop resumes a task whose await has returned. No fairness for
  Telegram's collection or the user.
- `TonPayments`: `WF(Tick)`, `WF(StartPoll)`, `WF(PollStep)`. The scheduler starts a pass each
  minute; a pass, whose awaits all have timeouts, goes on.
- `AccessGate`: `WF(ChallengeExpires)`, `WF(BlockExpires)` and each task. Redis drops what has
  a TTL; `ChallengeExpires` is enabled only for a hash that has one.
- `Broadcast`: `WF(WorkerStep)`. The worker's loop catches what a job raises and the supervisor
  restarts the loop. No fairness for presses and cancels.
- `Referrals`: `WF(GateStep(t) \/ CreditStep(t) \/ ProbeStep(t))` for each task: an update that is being
  handled goes on, for every await of its chain returns or times out. No fairness for
  arrivals, memberships and cache expiry: `RecheckSettles` says in its own words that the user presses
  again and stays a member.
- `TonConnect`, `RateLimiter`, `AdminRoles`: none; their properties are safety. That a connector of
  a failed start stays is a fact about the code, and `OnlyFailedStartsLeak` says so.

Weak fairness is enough everywhere, and crashes are bounded and never fair.

## Proofs

`X_proofs` proves theorems of `X!Spec` for every value of the constants that satisfies
the module's named assumptions. Each follows one argument: `IInv` is a conjunction of
named parts, `Init => IInv`, `IInv /\ [Next]_vars => IInv'` with a step for each action,
and the property from `IInv`.

| Module | Theorems | Inductive invariant, and why it is needed |
|---|---|---|
| `StarsPayments_proofs` | `TypeCorrect`, `HooksOnce`, `OwnedByOne`, `PaidIsCollected`, `SettledIsRefused`, `ChargeNeverOverwritten`, `RefinesLedger` | "At most once" does not follow from itself: `HandlerOwnsPayment` says what a handler's position implies about the row (past `mark_paid`, it is paid with *this* charge, so the owner is unique), `CallsInv` that the callbacks already called are those before the owner's `hook`, `CheckoutInv` and `ChargeInv` that a recorded charge is a collected one of this invoice. `SettledIsRefused` speaks of all later states; it rests on `Refused`, that a checkout in hand of a settled row is past the point of charging or will be refused, which every step keeps |
| `TonPayments_proofs` | `TypeCorrect`, `FirstTransferRules`, `CommitFirst`, `RefinesLedger`, `ExpiryBranchIsDead`, `ClosedRowsAreStuck` | `ChainInv`: a row's two times are a window apart, and no transfer is older than the row its comment names; `PassInv`: the rows still to do are pending and were open at `now`, the row in hand was decided by the oldest match and its callback has been called exactly if the step says so; `SettledInv`: the same decision for every settled row; and `EffectsFollowCommit`. The last two theorems say why `ton_expiry` finds its counterexample; they rest on `PollTTL >= PendingTTL`, and the two are equal in the code |
| `AccessGate_proofs` | `TypeCorrect`, `NotForgotten`, `AskedOnce`, `OnlyRacersUndo`, `RefinesVetting` | `AskInv`: at most one task in flight created the row, none once pending_captcha was written, and only that task writes it; `VetInv`: whatever can write active (a right press in progress, a loaded mute) rests on a right answer or an admin; `RaceInv`: under a ban or mute, a task that is not racing has just loaded the current row and has decided nothing yet. The refinement takes the same invariant: who writes active past the gate is vetted |
| `Broadcast_proofs` | `TypeCorrect`, `AtMostOneMessage`, `CancelIsObeyed`, `StatusIsTrue`, `QueueIsBounded`, `CountersAreTrue`, `RefinesJobLedger` | `QueueInv`: a job is in the queue once, not at the worker as well, and has sent nothing before it is popped; `SendInv`: who has had no attempt has got nothing of this job; `StopInv`: the loop is left early exactly when the flag was seen; `LateInv`: a send under way under the flag is the first or has used a fault; `IdleInv`: an idle worker holds nothing of its last job. On top of it, `CapInv`: the queue plus the presses that may still push stay below the cap plus one button each, once more per fault; `BooksInv`: the worker's counters fit what arrived, a send under way is counted in `total` alone, and without a fault the row of a job about to finish holds them. For the refinement, `RunInv`: a job that was not taken up has no row, and one past `create` has a row that says running until it is finished; two lemmas say what LPUSH and BRPOP do to `OldestFirst` |
| `TonConnect_proofs` | `TypeCorrect`, `NothingElseLeaks`, `ProofsCountOnce`, `DisconnectsEndSessions`, `RivalsReplace`, `UncrossedSessionsHold` | `NonceInv`: the nonce in Redis is of a begun session that is neither spent nor ended; `RivalInv`: while a wallet is bound, every session that can still bind one, or whose SDK object a task may still take, began before it; `CrossInv`: a session under way that was not crossed is the only one under way, and no disconnect is still to delete the nonce; and `OnlyFailedStartsLeak` |
| `Referrals_proofs` | `InvHolds`, `TypeCorrect`, `CountedOnce`, `JoinedBeforeCredit`, `ReferrerKept`, `VettedBeforeCredit`, `CommandKept`, `RefinesVetting` | `CountInv`: the row under a transaction's lock is not credited yet; `VetInv`: active behind the gate means vetted; `TaskInv`: an attempt past its look at the row is vetted or read it before the gate wrote, and every channel is still to probe, missing, passed over, being asked about or was joined once; `ChannelInv`: so are the cached ones; `RowFirst`: no task runs before the row is there. For the refinement, `GateInv`: at most one task that created the row may still write pending_captcha, and none once it is written |
| `RateLimiter_proofs` | `InvHolds`, `TypeCorrect`, `BurstsAreCapped`, `PatientPass`, `BlocksAreEarned` | `WindowInv`: what is in the set is decided and lies within one window; `Remembered`: an allowed message is in the set for as long as it counts, through evictions by later times and the key's TTL; `CulpritsLeave`: a set with members that have counted towards a block is gone when the block is; `BlockedAfterBurst` |
| `AdminRoles_proofs` | `InvHolds`, `TypeCorrect`, `CacheTrueUnlessInDoubt`, `KicksEnd`, `OnlyUsersPunished`, `SuperadminsHold` | `ReadInv`: what a reader is about to fill in is true or it is outdated, and its task doubtful; `VouchInv`: what a command has been told still holds unless it is doubtful; `SuperInv` and `SuperCached`: without a fault neither cache nor reader errs about who is superadmin |

*Refinements.* `ImplementsLedger` (Stars, TON), `ImplementsJobs` and `ImplementsVetting` (`AccessGate`,
`Referrals`) are proved step by step: each action of the detailed module is one abstract action or a
stutter. They imply three properties that are stated, and proved, on their own as well and that the runs
therefore do not check a second time: `HooksAtMostOnce` (`HooksOnce`), `OneMessagePerJob`
(`AtMostOneMessage`) and `CaptchaOnce` (`AskedOnce`). Nor do they check `HandlerOwnsPayment`
(`OwnedByOne`), the part of the Stars invariant on which `ImplementsLedger` rests.

*Assumptions.* `NoCharge \notin Charge` and like sentinels; bounds that are naturals;
`MaxTries > 0`; finitely many users, admins and buttons; `PollTTL >= PendingTTL`; in `TonPayments`, hashes are positions, which
says no more than that a transaction has one place on the chain. `RateLimiter` assumes nothing of its limits but
that they are naturals, the counts and times among them positive: `BurstsAreCapped` holds for any of them (and says
nothing where a round trip lasts as long as the window). Two of its theorems name what they need:
`PatientPass` has `MaxDelay < Window` as a hypothesis, `BlocksAreEarned` `Window <= Block`, which the
defaults (3 s and 30 s) satisfy and the constructor does not ask for.

*Only model-checked.* `CleanChargeCompletes`, `SelectedTransferSettles`, `QueueDrains`,
`CleanJobEnds` and `RecheckSettles` are liveness under fairness, which TLAPS does not reach. The
counterexamples come from TLC.

## Where the code departs from its documents

Four runs check a sentence of the repository and find a run of the code that breaks it.
None uses a fault that the sentence excludes.

1. `ton_expiry` (a bug against requirement 13.4). The poller's docstring (`scheduler/tasks.py:188`): without a
   match, a row older than 15 minutes is marked expired. `find_pending_ton`
   (`core/repositories/payments.py:132`) selects only rows with `expires_at > now`, the exact complement of the
   branch's condition on the same reading of the clock. A payment nobody pays, or whose transfer is indexed
   late, stays pending and its user is told nothing (`ClosedWindowExpires`). Without the second condition of
   the query the same run finds no error. It is not a matter of the run's constants: `ExpiryBranchIsDead`
   and `ClosedRowsAreStuck` prove it for all.
2. `access_bypass`. captcha.py: a new user must pass a captcha before reaching other commands.
   The status is written after the question was sent; a second message in between
   finds an active row it did not create.
3. `access_stuck`. captcha.py: an abandoned challenge expires and a fresh one is issued. `HINCRBY`
   on a hash that just expired creates one without an answer and without a TTL.
4. `tonconnect_cleanup` (a bug against requirement 3.5). The job takes any record whose
   time has passed for a session nobody completed and calls `disconnect()`, which also
   clears the wallet that a session approved at the last moment has just bound.

Others came up while modelling. The properties that hold are stated so that the
difference is visible in them.

- *A collected charge may go unrecorded.* Requirement 13.3: a confirmed payment is saved. The gates
  (`bot.py:95`) treat `successful_payment` as a message and may swallow it (`GatesSwallow`), while the
  checkout before it passed no gate. `CleanChargeCompletes` speaks only of charges that reach the handler;
  two overlapping checkouts of one link lose the second one's charge as well.
- *The queue's cap.* `features/broadcasts/producer.py:509`: at most one job slips past the cap, and only when
  Redis is flaky. The length is compared when the dialog opens, not at the push (`:331`); `QueueBounded`
  has the bound that holds.
- *A grant may demote.* `admin/authorization.py:95`: a grant does nothing for an admin or superadmin. It
  asks the cache; if the seeding's invalidation was lost, a stale `user` entry lets it write
  `admin` over a superadmin. Hence `faults = 0` in `SuperadminsRule`. A superadmin taken out of the
  environment, on the other hand, is never demoted.
- *Five seconds.* `admin/authorization.py:9` promises that a change of role is seen within five seconds. A reader that
  fills in what it read before the change makes it the 60 s of the cache's TTL
  (`spoiled` in `StaleOnlyInDoubt`, no fault needed).
- *A passed captcha twice.* `features/antispam/captcha.py:140` has `on_passed` called exactly once; two right presses that
  both find the hash call it twice, and a crash before it not at all. `CreditedOnce` holds because the
  credit is stamped, not because of the caller.
- *A connector left behind.* `ton/connector.py`: the cached connector is always popped. A start that fails after
  it was put there leaves it: `OnlyFailedStartsLeak`.
- *The cap of the rate limiter* holds over `Window - MaxDelay`, and over no longer time: a message that takes
  `MaxDelay` to arrive is forgotten by the key's TTL that much before it stops to count.

## What is not modelled

- *Telegram, the wallet, the indexer, Redis, PostgreSQL* are external: they do what the code
  can observe of them. Isolation anomalies do not arise, for a transaction is one
  statement wherever the models use it.
- *Texts, filters, amounts, signatures*: abstracted to what decisions depend on. The proof
  check of `verifier.py` is a proof that is accepted or not.
- *The retry helper* is modelled where a decision rests on it (`SendMustWait`, `SendErrs` in `Broadcast`,
  `ArriveRetried` in `Referrals`), not as a component.
- *Admin commands* from their filters on; parsing, the lookup of a target by name, replies, audit pages and
  command menus are left out. `require_admin`, `require_superadmin`, `invalidate()` of the
  checker, `reset()` of the limiter and `list_active_sessions` have no caller in the bot.
- *Audit log, languages, statistics, menus, conversation storage, health check, manifest,
  schema, wiring*: no state on which another component's decision rests, pure I/O, or
  taken as given by the models.
- `find_expired_pending` has no caller.
- Only one instance of the bot: the worker and the jobs assume it, and so do the models.

## Plan

The order followed the harm a mistake does: payments (table, ledger, Stars, TON), the access
gate, broadcasts, TON Connect, referrals with subscriptions, the rate limiter, roles.

Each safety property of a passing run is a theorem, and each flow that has an abstract specification
is proved to implement it. What could be added:

1. An abstract specification of the wallet binding (a proof opens, is accepted once, binds) that
   `TonConnect` implements, as `JobLedger` and `Vetting` are for their components; one of the role
   column as its readers see it.
2. The composition of `Referrals` with the whole of `AccessGate`: the former has the captcha only
   as far as it decides about the credit, without wrong answers, lockout and moderation. Both implement
   `Vetting`, which is what the credit rests on.
3. A fair specification of `TonConnect`: every session ends, by an answer or a timeout.
4. The audit log's bounded retry and fallback, if a decision ever comes to rest on it.
