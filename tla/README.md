# A formal model of Jiku

Jiku is a work-management system: requirements, tasks, hours, files, and the mails and events that
follow from them. This directory holds TLA+ modules of the parts of it in which concurrency, failures
and ordering decide whether it is correct, the TLC configurations that check them on small instances,
and TLAPS proofs of the properties that matter most, for every value of the constants. Everything is
translated from the source; where a document or a comment says something else, that is a finding.

1. [The system](#1-the-system) - its parts, their state and what may go wrong in them
2. [The modules](#2-the-modules) - which models what, and how
3. [The runs](#3-the-runs) - what TLC checks, within which bounds, with which fairness
4. [The proofs](#4-the-proofs) - what is proved, from what, and how
5. [Findings](#5-findings) - where code and text disagree, and what the code does not keep
6. [What is not modelled](#6-what-is-not-modelled) - and the plan

## 1. The system

    browser --HTTP--> api --reads--------------------------> PostgreSQL
                       |                                        ^
                       | request (NATS, at most once)           | one transaction
                       v                                        | per command
                     core: service -> dispatcher -> command ----+
                       |                                        ^
                       | events (JetStream), after the commit   | claims batches
                       v                                        |
                  other services              notification cycle --SMTP--> people

`api` answers HTTP. It reads the database itself and sends every write to `core` as a command over
NATS. `core` is the only writer; any number of its replicas share a queue group and the database. A
command runs in one transaction, in which it also leaves rows for the mails it causes; each replica has
a timer that empties that outbox. Optional modules (today `docs`) register in a NATS bucket, and `api`
forwards requests to them while they are alive.

| Part | State | Operations | Hard because | Correct when | Module |
|---|---|---|---|---|---|
| Command dispatch (`core/src/bus`, `api/lib/utils/bus`) | handlers at work, connections, open transactions, replies in flight | send, deliver, mirror, authorize, run, commit, emit, reply, stop | the caller gives up before the handler; every step may fail; replicas die | a command is all or nothing and the caller is told the truth | `CommandPipeline` |
| Notification outbox (`core/src/notifications/dispatch`) | `notification_outbox`, settings, the batch of each replica | enqueue, claim, send, mark, fail, discard, commit | several replicas; a mail cannot be rolled back; one commit per batch | no mail is lost, duplicates are paid for, attempts are honest | `NotificationOutbox` |
| Notification scheduler (`scheduler.ts`, `index.ts`) | flag, timer, cycle at work | start, tick, stop, exit | three functions interleave at every `await` | one tick at a time, for ever, until stopped for good | `DispatchScheduler`, `CoreProcess` |
| Connection and token (`bus/host.ts`, `zitadel-auth`) | cached token, request in flight | token, refresh, leave | late, slow and failed requests; a caller that cannot wait | there is always a valid token, and no failure is remembered | `CoreProcess` |
| Requirement workflow (`commands/requirements`, the hook of the model) | row, history, stamps | new, edit, resolve | reads without locks, `save()` writes differences | history, mails and stamps agree with the row | `RequirementLifecycle` |
| Who gets a mail (`core/src/notifications`, subscribers, comments) | subscribers, addresses, permissions, visibility | new, edit, comment, subscribe, unsubscribe | every question is a query of its own | nobody gets what was never theirs, nobody is forgotten | `RequirementMails` |
| Files and tasks (`link-files.ts`, `commands/files`, `tasks-edit.ts`) | files, store, links, the log of a card | upload, put, new, edit, comment, unlink | two systems, three calls, overlapping edits, stale reads | a file is linked once, stays linked, and is there; the log is what happened | `FileLinks` |
| Hours (`commands/times`) | worked, unworked and assigned rows | new, delete, replace a week | sum, then insert; delete, then insert | limits and whole weeks, as far as overlap allows | `TimeCommands` |
| User mirror (`user-mirror.ts`, `events/auth`) | `users` | mirror on a command, on an event | two kinds of writers, one that falls back, events of one person on several replicas | an author has a row; the row ends up as the identity | `UserMirror` |
| Authorization (`authorize-caller.ts`, `caller-class.ts`, `entity-project.ts`) | none; reads roles, links, permissions | authorize, resolve, check | channels, roles that add up, three reads at three moments | no external person acts outside their projects | `Authorization`, `CommandAccess` |
| Query engine (`queries/engine`) | none; a cursor in the hands of the caller | ask, answer, reject | rows change between pages; nulls, ties, bytes | every row that stays is seen once | `QueryPages` |
| Module discovery (`api/lib/modules`) | record, status, watcher, pings | open, apply, ping, tick, call | callbacks of a watch, a timer and requests | the status is of the last record, and becomes true | `ModuleRegistry` |
| Projects, clients | rows | new, edit | little | what a unit test says | no |
| HTTP routes, docs routes, frontends, migrations, deployment | none that others read | | | | no |

How they interact. A command enters `CommandPipeline`. Its gates, one refusal there, are `CommandAccess` in
detail: the identity is mirrored (`UserMirror`), roles and projects are looked at (`Authorization`). Its
`execute()` is one of the transactions of `RequirementLifecycle`, `RequirementMails`, `FileLinks` or
`TimeCommands`. The rows that `RequirementMails` decides on are the `Enqueue` of `NotificationOutbox`, whose
cycles are the `BeginCycle` of `DispatchScheduler`; `CoreProcess` runs that loop and keeps the token of the
process. `QueryPages` reads what commands write, and `ModuleRegistry` lives in `api` and meets the rest only
at the bus.

## 2. The modules

Conventions: a component is a module with its CONSTANTS and named assumptions, one action per step, a
`TypeOK`, its properties, and where it is proved an inductive invariant. `MC*` modules add only what a
`.cfg` needs. `*Proofs` modules hold theorems; where one is about two components, the definitions that both
have (`Init`, `Next`, `Spec`, `TypeOK`, `vars`) bear the name of the component in one of them: `LoopInit`
and so on in `DispatchScheduler`, `WorkflowInit` and so on in `RequirementLifecycle`. An operator whose
comment begins with "Fault:" is a plausible bug, put beside the definition it would replace: nothing uses
it, and it is there to show that the property named after it in `PROJECT.json` notices. Variables called
*history* are written and never read by an action.

### CommandPipeline, CommandPromise

From `sendCommand()` in `api` to the HTTP status, through `service.ts`, `dispatcher.ts`, `emit-events.ts`
and `host.ts`. `pc[c]` is the place of the handler of command `c` between two awaits; `lease` the pool
connections it holds (`mirror`, `command`), `dirty` and `db` what its transaction has written and what is
committed, `reply` the Reply it will send, `client` what the caller sees. Actions have the names of the
steps of `dispatch()`: `MirrorOpen`, `MirrorClose`, `Authorize`, `GrantEntity`, `Open`, `ExecuteSucceeds`/
`Refuses`/`Throws`, `Notify`, `Commit`, `Emit`, `Respond`, each with what it does when the database or the
bus fails. `Lose`, `Timeout`, `Crash`, `Stop`, `Exit`, `Restart` and `Die` are what happens around it.
All refusals before the transaction are one outcome.

`CommandPromise` is what a caller may rely on, in four verbs (ask, apply, announce, answer): the effect,
which is what the command writes and the outbox rows of its mails, happens at most once and as a whole (the
mapping gives the promise what is in the database of it, `effect <- db`, and its parts, `Whole`), its event
follows it, and "success", "failure" and 503 mean what they say while 504 means either. `CommandPipeline`
implements it by `KeepsCommandPromise`; the mapping calls a failed COMMIT whose effect was applied
"unknown", because the code cannot tell it from one that was not.

### NotificationOutbox, NotificationPromise

The table and the cycle of `run-cycle.ts` on every replica: settings, `FOR UPDATE SKIP LOCKED`, one mail
after the other, the outcome written in the open transaction (`image`), one commit. A mail may be taken by
the SMTP server although `sendMail()` rejects (`late`). Any access to the database may fail and any replica
may die; the operator changes settings meanwhile. Time is in units of the first backoff. A database session may
also fall while a mail is on its way (`LoseSession`): the locks are gone at once, but `run-cycle.ts` learns of it at
the next UPDATE, so the mail still lands (`Land`), perhaps after another replica has mailed and settled the row.
`NotificationPromise` is at-least-once delivery with bounded patience, with no replicas and no locks: a notification
settles for a reason, and once it is settled only a *stray* arrives, a send begun before of which nobody keeps account
any more. There are as many strays as batches that lost their transaction, which are faults.

### DispatchScheduler, CoreProcess

`tick()`, `stopDispatchLoop()`, the timer and the shutdown of `index.ts`. Nothing in the code keeps two
ticks apart but the order of its steps, so the model counts the ticks at each await instead of assuming
one. How long a timer lasts is left out. A signal may come at any moment, that of `host.start()` included: then the
stop finds nothing to wait for, while `main()` may still call `startDispatchLoop()`, which resets the flag (`early`
remembers this). Only the first signal is modelled: another calls
`shutdown()` again, whose stop waits for the same cycle.

`CoreProcess` EXTENDS it with the token of the service user, from `host.start()` to `host.stop()`: `token()`
with its cache and its shared promise, the interval of `startAutoRefresh()` that looks every half margin,
and requests that succeed, fail or last. Time passes in steps (`Pass`), and a moment the code computes from
the clock is kept as the time `left`. The expiry is counted from the arrival of the token, so `lag` remembers
how much too late that is. A timer that is due fires before time goes on. The deployment has a service user.

### RequirementLifecycle

One requirement under overlapping edits and resolves. A transaction is two steps: the read, without a
lock, and all the rest, because what it writes depends on its own read and on the row it updates only. The
three values a key of a payload may have besides a text (absent, null, empty) are kept apart, since the
guard uses `??` and the update `pickPresent()`. `Saved` is what `save()` writes: the differences. `Stamped`
is the `BeforeUpdate` hook. Title, description, responsibles, files and comments are left out.

### ModuleRegistry

The registry of one replica of `api` from `start()` on: `open()` in its two halves (get, watch), the loop of
the watch, `apply()`, pings by generation and the one others join, the interval, and calls that find nobody.
A change of the bucket, a service that starts or dies, an error of the bus may come between any two awaits.

### TimeCommands

The five commands on worked, unworked and assigned time, as READ COMMITTED transactions on one person's
day and one week. A query sees what is committed when it starts; a DELETE waits for the transactions that
are deleting what it saw (`locked`), and takes what is left; an INSERT waits for nobody. `before` remembers
who had ended when a transaction began, which is what the properties need to speak of overlap.

### FileLinks

Uploads (`RequestUpload`, `Put`) and the commands that give a card or a comment its list of files, in the
same kind of transactions. `syncFiles()` is `ReadLinks`, `Valid` and `RemoveLinks`; the rows it adds appear
with `Commit`. What keeps two edits of one entity apart is the UPDATE of its row (`UpdateRow`), which a
comment always has and a card only if something differs from what was read: `Writes` is that difference and
decides everything else. `log` is `objective_activities`, written from the copy read at first, and on
purpose not when a text is emptied (`tasks-edit.ts:139-143`; `Logged`). So `LogIsHistory` does not say that
the log ends in the value of the card: it may end in an older one if the card is empty and an edit has
emptied it, and an entry may start from the empty text. `Empty` are the values that count as such, null and
''. Nobody looks in the store; a client that links after its upload is one of the `Careful` people.

### UserMirror, Authorization, CommandAccess

`UserMirror` is the row of one person in `users`, written by the events of the auth-callout on each replica
and by the commands of the person. The identity provider goes through versions. An event carries the roles
of the token the person connected with and the profile the auth-callout has cached for some minutes
(`docs/flows/sincronizacion-de-identidades.md:90-98`), each of any version from `oldest` to `current`, so
that a later event may well carry an older identity, even one of two versions; a command carries what its
token says. What is stale expires. A writer reads, and then creates, collides, updates the columns that
differ, or fails.

`Authorization` has no state: the roles, what each may do over each channel, the class of a caller and the
project of every kind of entity. `CommandAccess` EXTENDS both: a command is authorized, its entity is resolved
to projects and the permission is read, each at a moment of its own, while events rewrite the roles and an
operator the permissions, and links come and go. `held` and `had` remember what there was meanwhile.

### QueryPages

A walk over a list. A request is two steps because it reads the database twice (the rows; their included
collections, which decide how many fit in the bytes). `keysetSql`, `After`, `EqualTo`, `fingerprint`,
`pageLimit` and `Fitting` are the functions of the engine; a filter is a set of projects. Between any two steps rows
are written and permissions change. Rows that stayed in one place all along are those not in `moved`.

### RequirementMails

One requirement, its subscribers, and the people's addresses and permissions. After its writes a command may
declare a notification, and `recipients.ts` asks whether it is visible, who the candidates are, who has an
address and who has a permission: `Visible`, `Candidates`, `Users`, `Permission`, with anything in between. A
transaction sees its own writes (`own`), waits for whoever has inserted or deleted the same key, and for
whoever has updated the same row. `ever` and `always` remember which facts were true at some moment, and at
every moment, between the declaration and the commit. Whether an edit announces something is a choice here
and decided in `RequirementLifecycle`.

## 3. The runs

TLC visits every reachable state of these instances. Bounds are constants of the modules (`MaxFaults`,
`MaxChanges`, `MaxWait`) or sizes of sets; no run uses a state constraint, and no configuration replaces
a definition.

| Run | Instance | Shows |
|---|---|---|
| `outbox` | 2 replicas, 2 rows, batches of 1 and 2, 2 attempts, 1 fault (a crash, an error of the database, or a session lost with a mail on its way) | batches are disjoint; duplicates have a cause; attempts are honest; `NotificationPromise` is implemented; every row settles |
| `pipeline` | 2 commands (one with an actor, mails and events; one of an external caller), 2 replicas with one connection each, 2 faults | connections are returned; every handler ends; `CommandPromise` is implemented |
| `core` | steps of 50 s, a margin of 6, tokens of 6, 9 or 72 steps, requests of up to 4 | cycles never overlap and keep coming; none is at work or comes once a stop of the started loop has resolved; the token is valid, and recovers |
| `requirement` | 3 transactions, 4 states, incidents and requirements without a type | history, mails and stamps match the row; the rules of reopening hold where nobody was overtaken |
| `requirement_lost` | 2 transactions, the same with empty texts | violation: a resolve that succeeds leaves the requirement open |
| `mails` | 3 transactions of 8 kinds, 2 people, 1 change of an address or a permission, 1 fault | a mail is for somebody it was meant for; nobody is forgotten; the answers add up to the subscriptions |
| `files` | any 3 commands on a card and a comment with lists of up to 2 places, 1 file, a person and a bot, a field with two texts and the empty one | one link per file; edits last; what is linked is stored; the log is the history |
| `times` | any 3 commands, minutes of 1 or 2, a limit of 2, a week of 2 cells | what the limits and the weeks keep under overlap; what a success means later |
| `users` | 2 replicas, 1 command with a bare token, 2 versions, events of any mixture of them, 1 event waiting, 1 fault | an author has a row; a known name is never replaced by the fallback; the row converges |
| `access` | 1 replica, 1 command, 2 versions, 2 projects, a file linked to both, 4 requests on 3 channels | an external person acts only with a permission there was |
| `queries` | 3 rows of 2 projects, 2 keys and null, 5 queries, pages of 1 and 2, items of 1 or 3 bytes for a budget of 2, 2 changes, 1 fault | each row once, none missing, the walk ends |
| `modules` | 2 records, an unreadable entry, 3 changes, 2 faults | the status is of the last record; no change is lost; the status becomes true |

Most type invariants are not in a run, because a theorem proves them and every other theorem rests on it; they are
where a plausible bug breaks nothing else (`mails`, `queries`). Some other invariants
are not in a run either, because a theorem states them for every instance and a property of the run says more:
`AllOrNothing`, `SuccessIsDurable`, `FailureChangedNothing` and `RetryAfter503IsSafe` are aspects of
`KeepsCommandPromise`, as `SentWasMailed` and `RowsOnlyMoveForward` are of `KeepsPromise`.

**Why these bounds are enough to be interesting.** Two replicas with one connection each make handlers wait
for each other and let one take over when the other dies; two faults make a failing rollback after a failing
commit. Two rows and batches of one or two make one replica skip what another has locked and a batch fail
after a mail has left; two attempts make a row fail once, wait and be given up. A token of 6 steps never
outlives the margin, one of 9 is looked at once before it is renewed, one of 72 lives through many looks; a
request of 4 steps lasts longer than the 3 between two looks. Three transactions on a requirement are needed
for a resolve, a reopening and a third that overtakes both; with three time commands a deletion can free
room between two sums, and a third replacement comes after two that overlapped; with three commands on files
one undoes or edits what two others linked at once; of three that subscribe and unsubscribe, two overlap and
the third tells people of it. One event waits while two are handled and a command is between its read and
its write, each of an older or the current version. Three rows and pages of one make two cursors, one of
them in the middle of a tie or of the nulls. Three changes of the bucket give a record, its replacement and
a deletion, with a service that dies in between. Minutes of 1 and 2 under a limit of 2 are a day that is
half full, full, and exceeded. The proofs of section 4 lift most of it to every size.

**Fairness.** Safety needs none. Liveness assumes weak fairness (strong in one place), and only of what the
runtime or a peer does by itself:

- `CommandPipeline`: each handler takes its next step, because the database answers or fails, the pool
  hands out connections in the order of the requests, and commands are finite. A process that is
  stopping exits. Nothing is assumed of messages, which may all be lost, nor of restarts.
- `NotificationOutbox`: time passes, and the cycle of each replica goes on, which is `DispatchScheduler`'s
  `CyclesKeepComing` and an SMTP transport with timeouts. Faults are bounded; a replica that dies starts again.
- `CoreProcess`: the awaited cycle and the awaited read end (they catch their own errors), timers fire, time
  passes, and a process whose stop has resolved leaves. No signal is assumed. Strong fairness of `FetchSucceeds` says
  that Zitadel does not refuse every request for ever; without it no token could recover.
- `UserMirror`: tokens and what is cached of a profile expire, the person connects again, and some replica takes events
  and goes on. Nothing is assumed of commands. Faults and changes of the identity are bounded.
- `QueryPages`: the client asks as long as it has a cursor, and core answers. Faults and changes are bounded.
- `ModuleRegistry`: `setInterval()` fires, requests end by an answer or a timeout, the bus delivers. Which
  of the two a ping ends by is not assumed, except that faults are bounded.

`CHECK_DEADLOCK FALSE` is said where the system really stops: all commands answered, the process exited,
all transactions ended, the walk over, no change left to make. In `outbox`, `users` and `access` it is checked.

**Every property can fail.** Each has a mutant in `PROJECT.json`: a definition replaced by its "Fault:"
form, with which TLC finds that property violated in the same run.

## 4. The proofs

TLAPS checks every leaf; there is no unproved statement. All theorems hold for any number of commands,
replicas, rows, transactions, records or cells and any bounds, under the ASSUMEs of the modules, which say
no more than that sets are finite where they are counted, that special values are special and that bounds
are numbers. TLC evaluates them in each run.

| Module | Theorems | Argument |
|---|---|---|
| `CommandPipelineProofs` | `TypeCorrect`, `AllOrNothingHolds`, `SuccessDurable`, `FailureHarmless`, `RetrySafe`, `NoConnectionLeaks`, `InvariantHolds`, `PromiseKept` | None of the properties is inductive: "success is durable" needs that a handler about to reply has committed. `IndInv` says of every place of the handler what its transaction holds (`EffectMatchesStep`), whether its Reply is already true (`ReplyMatchesEffect`), and that the caller's answer is its own (`CallerMatchesHandler`). One lemma per step. |
| `NotificationDispatchProofs`, the outbox | `TypeCorrect`, `DisjointBatches`, `NothingSentUnmailed`, `HonestAttempts`, `DuplicatesArePaidFor`, `RowsMoveForward`, `InvariantHolds`, `PromiseKept` | `CycleInv` ties the place of a cycle to what it holds; `MailInv`, `AttemptsInv` and `CopiesInv` say of the uncommitted view (`image`) what the properties say of the table. Copies are bounded by late answers, faults, and one delivery that is recorded or about to be (`Delivered`): a rollback trades the delivery for a fault, and so does a lost session, before its mail lands (`Adrift`). |
| `NotificationDispatchProofs`, the loop and the process | `LoopInvariant`, `LoopTypesHold`, `NeverTwoTicks`, `StopsForGood`; `CoreRunsTheLoop`, `CoreInvariant`, `CoreTypesHold`, `NeverTwoRequests`, `TokenServes` | The module's own variables tell the truth about its ticks (`FlagsAreTrue`), so that stopping waits for the right thing, except for a stop before the loop is started, which is the exception `StopsForGood` names. Every step of `CoreProcess` is one of the loop or leaves it alone, which carries those theorems over. While nothing is amiss, what is left of the token when one looks covers a request, and in between the time until the next look (`CoreInv`). |
| `RequirementProofs`, the workflow | `TypesHold`, `HistoryIsTrue`, `MailsAreTrue`, `StampsAreTrue`, `FreshWritesAreSequential` | The history ends in the state of the row because both change together or not at all; mails are counted along the history, one entry at a time. A resolution that was written or read is before now, so that a new stamp is always a difference and is saved, and a first date of entry that somebody has read is never gone again (`StampInv`). A write that nobody overtook is made of the row as it is. |
| `RequirementProofs`, the mails | `MailsTypes`, `MailsOnlyToWhoMay`, `MailsForgetNobody`, `SubscriptionsAddUp`, `NobodyIsTwice` | While a transaction looks for recipients, everybody it has found so far was meant at some moment, and nobody is missing who was at every moment (`Rightly` and `Fully` of `MailInv`), stage by stage. The unique index and the locks of rows leave every key to one transaction at a time (`KeyInv`): what it adds is not there yet and what it deletes still is, so that each commit changes the number of rows by what its answer says. |
| `ModuleRegistryProofs` | `InductiveInvariant`, `TypesHold`, `StatusHolds`, `NothingLost` | Pings are of the past (`PingsInv`), so one of the last generation is about the last record; a watcher that is behind has the last entry at the end of its queue (`WatchInv`). |
| `TimeCommandsProofs` | `InductiveInvariant`, `WholeReplacements`, `WeekInvariantHolds`, `TypesHold`; `DayLimitHolds`, `AbsenceLimitHolds`, `SuccessesLast` | Two transactions never delete the same row; a replacement has seen all rows of the replacements that ended before it, and if it deletes one row of a replacement it deletes them all (`WeekInv`). What a transaction has summed is at least what had been committed when it began and is still there, and who has written had room for it (`SumInv`); the minutes of rows are the elements of a finite set, so that their sum is a cardinality. A deletion that found something has found all of it, since the transaction that wrote it has ended (`LastInv`). |
| `FileLinksProofs` | `InductiveInvariant`, `TypeCorrect`, `LinkInvariantHolds`, `LinksAreUnique`; `LinkedFilesAreStored`, `LogsAreHistory`, `EditsLast` | An entity has one creator and at most one edit that has written its row (`OneHolder`), so an edit has seen every link but those of edits that overlapped with it without a lock between them (`NothingUnseen`); it only adds what it has not seen. The files a careful client names have an uploader for good, and their bytes if it is that client (`StoreInv`). An edit has read the value the log ends in, unless somebody who had not ended when it began wrote the last entry, or somebody who had ended emptied the text (`LogInv`). What an edit has seen is still linked unless somebody has removed it since it began (`SeenInv`). |
| `QueryPagesProofs` | `PagesTypes`, `RowsComeOnce`, `WalksMissNothing`, `CursorsAdvance` | The keys of a query are in a strict total order, whatever the directions and nulls of its criteria, as one criterion is the id (`AheadIsTransitive`, `AheadIsTotal`), and both `keysetSql` and ORDER BY say that order (`KeysetIs`, `PrecedesIs`). So the rows of a page are the first ones beyond the cursor (`RankIs`, `SelectedIs`), one at least fits (`FittingIs`), and of the rows that stay those that have come are behind the cursor and the others beyond it (`WalkInv`); between the two reads the entries are in order, are the rows as they are, and leave none out (`InOrder`, `Actual`, `Whole`). |
| `AccessProofs` | `MirrorInvariant`, `MirrorTypes`, `AuthorIsThere`, `NameStays`, `EventsReplace`; `AccessInvariant`, `AccessTypes`, `PermissionHolds`, `GateRemembers` | A row once read is never deleted, and who is at work has the message it began with, that of an event with a profile (`MirrorInv`); nothing is said of the versions they carry. What is permitted and attached is among what is remembered, and only projects that count are looked at (`GateInv`), so the last look decides. |

The two `PromiseKept` theorems are refinements: initial states map to initial states, and every step of
the detailed module to a step of the promise or to a stutter.

Every invariant and every action property of a passing run is proved.

Only model-checked: liveness, which is out of the prover's reach: `EveryHandlerEnds`, `EveryRowSettles`,
`CyclesKeepComing`, `TokenRecovers`, `StatusConverges`, `RowConverges`, `WalkEnds`. The promises
are safety specifications, so nothing of them is left to these. What is proved of a page holds for any function
`UsedBy` of the sizes, since a sum along a list would need induction: only that one item at least goes on a page,
and none that is not there, is used of it.

## 5. Findings

What the violation run shows:

- **A resolve that resolves nothing** (`requirement_lost`). It read `resuelto` before a reopening committed,
  so `save()` finds no difference in the state: the caller is told that the requirement is resolved, and it is open.

Where the text and the code disagree and the models follow the code:

- `dispatcher.ts:32` says that `dispatch()` never throws. `sequelize.transaction()` at line 458 is outside the
  `try`, and the `catch` at 541 awaits a rollback that rejects once a COMMIT has failed, which `mirrorActor` in the
  same file takes care to swallow. `handle()` saves the caller; the original error is not logged.
- `index.ts:107` says that a shutdown cuts no command. Handlers are started with `void` and nobody awaits
  them before `process.exit(0)`. The effect of such a command is still all or nothing, and the caller sees a timeout.
- `index.ts:109-111` says that a shutdown waits for the batch in hand. A signal during `host.start()` calls
  `stopDispatchLoop()` before there is a loop; `main()` may go on and call `startDispatchLoop()`, which sets the flag
  back (`scheduler.ts:85-88`), and the exit cuts the first cycle. `StopIsFinal` excepts that signal by name (`early`).
- The guard of `settings.ts:66-73` exists so that a pause is never a busy loop. An interval above 2147483
  seconds passes it and overflows the `setTimeout()` of `scheduler.ts:81`.
- `docs/db-schemas/jiku.md:272-273` wants a resolution of a resolved incident. The guard of
  `requirements-edit.ts:111-122` falls back to the stored one when the payload says null, and then null is written.
- `user-mirror.ts:26` says that an event replaces the whole row. `update()` writes what differs from the read, so two
  writers that overlap may leave the name of one and the roles of the other; `RowConverges` says that it is mended.
- `recipients.ts:69` says that `requirement_subscriptors` has no composite unique index. The migration
  `20260605_02` creates one, and `AnswersAddUp` rests on it.

What the code does not promise, and the properties are stated to allow:

- Overlapping records may together exceed the 24 hours of a day, since a sum is not a lock. `DayHasLimit` says
  what is left: records of which no two overlapped never do. An absence counts worked time, worked time does
  not count absences (on purpose).
- Two overlapping replacements may leave the rows of both in a week. `WeekIsOneReplacement` says that each is
  whole and that they did overlap.
- A second of two overlapping transitions into a state replaces the "write-once" stamp of the first;
  `StampsMatchHistory` says that it is the date of some entry, not of the first.
- Duplicated mails: `run-cycle.ts:26` puts the window between `sendMail()` and the UPDATE. As the batch has one
  commit, the window reaches to the end of the batch; `DuplicatesHaveACause` counts what it costs.
- A mail may leave after its row is settled: if the database session of a batch falls during `sendMail()`, another
  replica settles the row meanwhile. No timeout is set in `transport.ts`. `KeepsPromise` allows it to such a mail only.
- The log of a task does not tell that its description was emptied, so it need not end in what the task says.
- A fractional batch size between 0 and 1 passes the check of `settings.ts:73` and makes `LIMIT` round to no
  row at all; settings are positive integers in the model.
- A requirement that goes from resolved to cancelled and back into work (`requirements-edit.ts:139`) keeps its old
  resolution and nobody gets a mail; reopening is only what leaves `resuelto`.
- The expiry of a token is counted from its arrival, and after a request that failed an expired one may stay until
  the next look (`zitadel-auth`, `index.ts:114`). `TokenIsValid` allows for that and `TokenRecovers` bounds it.
- A file may have two links on a card, and the log of a card may tell a change that was never made, if two edits
  overlap and one of them changes no field or reads before the other commits.
- A list of files believes whoever says that an upload was made; only the order of the web client makes it true.
- The conditions for a mail, or for an act of an external person, each held at some moment while the command ran, not
  all at once; and a mail goes out although visibility or permission has changed since it was written.
- The roles or the profile of a person may go back to those of an older version, by an event of an older token or of the
  cached profile, even on one replica, or by events that two replicas handle out of order. `RowConverges` says that
  it ends.

What the properties assume:

- `AnswersAddUp` counts answers of commits that are acknowledged; one that is applied without it is in
  `CommandPipeline`, whose promise calls it unknown.
- `EachOnce` and the other properties of pages assume one row per entry. The list of users joins people to
  users, and no index keeps a user from having two people (`users-spec.ts:63-66`).

## 6. What is not modelled

Inside the modelled parts: the text and the links of mails, the payload of events, the wording of errors, the
order of a batch, `stop()` of the registry (only tests call it), the checks of the time commands on references,
owners and dates, the fields of requirements and tasks that nothing else depends on, the operators and the
projection of a query, the signing of tokens and of downloads, and the moment at which the client of NATS connects
again, which is its own business.

Not modelled, and not planned: projects and clients (single-row writes whose rules a unit test reaches), query
specifications (declarations), HTTP routes and frontends (no state that others read, and most of the lines of the
repository), migrations and deployment (run once, or configuration), and the auth-callout, whose source is not in
the repository.

What is left to do:

1. Proofs: the parts of the liveness arguments that are safety, as a measure that each step of a handler or of a walk
   decreases (`EveryHandlerEnds`: steps left), as `CursorsAdvance` is for `WalkEnds`.
2. The filter of a query as an operator: the validation and what the SQL of each comparison says of null.
3. Domain events of requirements and tasks: that the snapshot of an event is of the state its command has committed.
4. The people responsible for a requirement or a task, whose log is written beside that of the state.

The hazards of the code are listed in `PROJECT.json`, each at the line where it bites, with the properties that
would notice.
