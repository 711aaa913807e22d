# TLA+ models of the HRMS API

A verification development kept beside `apps/api`, a NestJS modular monolith
(PostgreSQL by way of Drizzle, Redis for events). The modules model the code that must
be right when several things happen at once: the transactional event outbox,
the Redis stream that carries the events, the approval engine, the leave, payroll
and asset integrations built on them, refresh tokens, the idempotency keys of
HTTP requests and the periods of attendance. TLC checks small instances
(`*.cfg`); TLAPS proves theorems for every value of the constants
(`*Proofs.tla`). `PROJECT.json` holds the index: which lines each definition
stands for, what each run checks, one plausible bug per property, the findings
and the hazards.

## 1. Inventory

Every bounded context is one NestJS module under `apps/api/src/modules`; contexts
do not call each other but stage events in the table `event_outbox`, inside the
transaction that changes their own rows, and handlers under
`apps/api/src/integration` react to them.

| Component | State | Operations | What makes it correct | Modelled by |
|---|---|---|---|---|
| Event outbox, `core/events/event-outbox*` | rows with attempts, lease, backoff, published/failed marks; the batch of each running dispatch | stage, recover leases, claim, publish, record, throttle, replay, discard | no committed event is lost; a lease excludes; every row ends where somebody looks | `EventOutbox` |
| Redis stream bus, `core/events/redis-durable-event-bus` | stream, consumer group, pending list, delivery counts, dead-letter stream | publish, read, reclaim, dispatch, acknowledge, give up | no entry is lost or given up early; a poisonous one costs a bounded number of deliveries and blocks nobody | `EventStream` |
| In-process bus, `core/events/internal-event-bus` | handler lists | publish runs the handlers | — | inside `EventOutbox.PublishFails` |
| Approval engine, `modules/platform-approval-engine` | requests, steps, uncommitted writes and row locks | request, decide a step, cancel | step by step; one final outcome, announced once | `ApprovalEngine`, `ApprovalDecision` |
| Leave, `modules/leave` | requests, a balance per type and year | create, update, cancel; a termination cancels pending leaves | balance equals approved leave; quota; no double booking | `LeaveApproval` |
| Leave-approval integration, `integration/leave-approval` | links, processed-event marks | three event handlers | the two sides agree in the end, whatever is redelivered or crashes | `LeaveApproval` |
| Idempotency of consumers | `consumer_idempotency` | isProcessed, markProcessed | effects once although delivery is at least once | `LeaveApproval.processed` |
| HTTP idempotency keys, `infrastructure/idempotency` | `request_idempotency`: pending, completed, failed | begin, reset, complete, fail | a key's handler takes effect once; a key that turns retries away is being worked on | `RequestIdempotency` |
| Payroll runs and payslips, `modules/payroll`; `integration/payroll-approval` | a run with its figures, inputs, payslips and approval history; the engine's request for it | generate, enter, confirm, update, request, approve, reject, post, publish; look up, insert, decide, apply | nobody approves his own run or posts his own approval; a posted run is traceable to its inputs; an approved one is frozen; published once | `PayrollRuns` |
| Assets, `modules/asset-management`; `integration/asset-approval` | stock and its history, statuses, issue lines, requests, links | receive, adjust, change, issue, return; submit, cancel, ask, decide, fulfil | stock accounts for every unit; one holder per asset; a request is fulfilled once, and only if approved | `AssetIssues` |
| Sessions, `modules/identity/auth` | `refresh_tokens`, cookie jars, running refreshes | sign in, refresh, sign out, revoke, clean up | sessions do not multiply; concurrent tabs stay signed in | `RefreshTokens` |
| Attendance, `modules/attendance/timekeeping`; reconciliation of leave, `modules/leave` | a period's status and snapshots, verifications, adjustments; a day's events, summary, override, exception | review, approve, lock, unlock, close, reopen; verify; adjust; clock, save, override, resolve, punch; reconcile a leave | a locked period's snapshot is what its days say; a closed one is verified; adjustments are founded; days carry the leave that was granted | `AttendancePeriods` |
| Scheduling, workflow engine | see `PROJECT.json` | rosters, transitions | — | not modelled |
| Everything else | mostly one row per command | CRUD | — | not modelled |

What is hard in this code:

* *Crashes and failing statements between two awaits.* Publishing and marking
  an outbox row published are two steps, as are the handlers and XACK, the dead
  letter and its XACK, inserting an approval request and linking it.
* *Values read before and used after.* A claimed row's attempt count, the
  attempts XPENDING returned, the leave a use case read outside its transaction.
* *Leases and idle times* that run out under somebody who is slow but alive.
* *Check-then-insert* without a unique index, and races between a decision, a
  cancellation and a redelivery.
* *Two sides that disagree about which round it is*: a decision names an
  approval request, and may come after the run was rejected and submitted again.
* *Answers that overtake each other*: the tabs of one browser share a cookie jar.
* *Something must happen in the end*, although every attempt may fail.

`PROJECT.json` "hazards" lists each at its line with the properties that would
catch it going wrong.

## 2. Modules

```
EventDelivery  (abstract)
      ^ refined by both
EventOutbox  <- MCEventOutbox         EventStream  <- MCEventStream
             <- EventOutboxProofs                  <- EventStreamProofs
ApprovalDecision  (abstract)  <- LeaveApproval  <- MCLeaveApproval
      ^ refined by                              <- LeaveApprovalProofs
ApprovalEngine  <- MCApprovalEngine  <-\
                   AttendancePeriods <-- MCApprovalsAndAttendance
                                             |
ApprovalEngine  <- ApprovalEngineProofs <-- AttendancePeriodsProofs

PayrollRuns         \                    PayrollRuns <- PayrollRunsProofs  <-\
AssetIssues          |  <- MCBackOffice   AssetIssues <- AssetIssuesProofs  <-- BackOfficeProofs
RefreshTokens        |                    MCBackOffice                     <-/
RequestIdempotency  /
```

`PayrollRuns` and `AssetIssues` use the actions of `ApprovalDecision` as the engine, as
`LeaveApproval` does.

**EventOutbox.** One action per SQL statement of `dispatchBatch` and of the
operator's dead-letter commands. `row` holds the columns the statements
compare; `lease` and `due` abstract instants to what `now()` would say.
`step`, `batch`, `cur` and `seen` are the local variables of a running
dispatch. Three history variables (`staged`, `sent`, `dropped`) are for the
properties. Two constants choose the environment: `SlowWorkers` lets a lease
expire under a worker that is alive, `OverlappingOperators` lets a replay run
between discard's look-up and its write.

**EventStream.** One action per Redis command of `consumeLoop`,
`reclaimPendingMessages`, `processStreamEntry` and `moveToDlq`. Idle times are
abstracted to `idle`, the entries that reached `reclaimIdleMs`. Dispatch to the
handlers is one step, because nothing else sees how far it has come; a crash
inside it is part of `StartOver`. `failures` and `overruns` count what went
wrong, so that the properties can say what each costs.

**EventDelivery.** What both stages promise: an accepted event is owed until it was
delivered or is parked with the dead letters; a dead letter is only retried or deleted.
The outbox maps a staged row to an accepted event, an unpublished row that is no dead
letter to an owed one and an envelope on the bus to a delivery; the stream an entry,
one that the group has not acknowledged, and one whose handlers all returned. `Orderly`
says that only what is owed is sent or parked, and only a dead letter is deleted: nothing in the
code checks this, so the outbox keeps it where leases outlast batches and
operators wait for each other (`~SlowWorkers /\ ~OverlappingOperators`), the stream not at all, since two
instances may have one entry.

**ApprovalEngine.** Transactions at READ COMMITTED, one action per statement.
Uncommitted writes and row locks are functions of how far a transaction has
come. A statement that would wait for a lock is not enabled; `Rollback` covers
exceptions, lost connections and the victim PostgreSQL picks in a deadlock.

**ApprovalDecision.** What the engine promises: approval step by step, one
final outcome, announced when it becomes final. `ApprovalEngine` implements it
under the mapping at its end; `LeaveApproval`, `PayrollRuns` and `AssetIssues` use its actions
as the engine.

**LeaveApproval.** Use cases read the leave before their transaction, so each
is a Begin action and a write; the integration's handlers take one step per
statement, and a transaction is one step from its first lock to its commit.
`ApprovalRules` are the values administrators give `requires_approval`, `LateWrites` lets
reads and writes of one leave overlap, `EarlyEvents` lets a decision or a
cancellation be delivered before the leave is linked. The module's subscriber to
`employee.terminated` is a fourth writer: `ReadPending` reads the pending leaves once and
`CancelPending` cancels them one by one, by id alone and without any event, so it may overwrite an
approval committed in between; `AbandonTermination` is its swallowed exception, or a crash.
`silenced` records the leaves it cancelled; no action reads it, only properties do.
The subscriber's mark is left out: it ends the redelivery of one event, and a rehired
employee's next termination is another. Sums of days (`UnitsOf`) are
the cardinality of a set of pairs of a leave and a number, which lets them be
reasoned about without induction; the leaves are a finite set for that reason. The units that
lines of a consumable hold (`AssetIssues.Outstanding`) are counted in the same way.

**PayrollRuns.** `run` holds the status, the figures and the input hash of a
payroll run, `history` its approval actions, `payslip` what a payslip was calculated
from. Generation, request, approval, rejection and posting lock the run and are
one action each; the update and the publication read first and write later, and
so are calls with two steps. The listener's decision is read, applied in a
transaction and marked, so that a decision can be repeated, or handled twice at once,
and can meet a run that is in a later cycle. `FitsCycle` and `Applicable` are
the checks that the handler makes of the engine's request against the run's history.

**AssetIssues.** Every use case reads rows without a lock and later writes
them by id, except the guarded decrement of stock; each is a call, and `crossed`
remembers the rows that such a write found changed since its read, which is
what the properties except. `asset`, `line`, `onHand` and `historySum` are the
columns of assets, issue lines, stock levels and history; "disposed" stands for
retired and lost too. The request's side (submit, cancel, ask the engine,
link, decide, fulfil) has the same form.

**RefreshTokens.** One user, the rows of `refresh_tokens` and the cookie jar of
each browser, of which several tabs may refresh at once. A refresh reads
the row, decides, and rotates in a later transaction; reuse detection reads and
deletes in two steps; its answer changes the jar in a step of its own, may be
overtaken, or lost. Once a row has expired nothing else it says is read.
`forks` counts rotations of a row that had changed since it was read, and
`excused` collects the browsers whose session was ended, has expired, or lost the
answer that carried its new cookie.

**RequestIdempotency.** The interceptor around a handler: insert, find, reset,
run, complete or fail, each statement a transaction of its own. `stale`
are the keys that two retries of a failed call both reset, `unrecorded` those with an
effect whose call then failed, `abandoned` those whose call died. The actor is
a signed-in user, as at every decorated endpoint: the unique index does not
compare rows whose actor is NULL.

**AttendancePeriods.** One period, and one day of each employee. A clerk is a
call on the period: a move of its status checks the transition map on a read of its
own, `close` runs the two validators, the snapshot's figures are read
outside the transaction, and `Move` is that transaction, which updates the row by id.
An editor is a call that writes a day: clock events, batch saves and resolved
exceptions take the day's advisory lock, read the events in `LockDay` and write in `CommitDay`; an
override writes each thing on its own; a granted or withdrawn leave is
reconciled after its commit, by a read and a write. A web punch is one action.
Most writers look at the period's status first and never again. `stray` remembers what was
written although the period was not editable any more, or between the read and the write of a
snapshot, and `misled` the days whose reconciliation failed, met the other one, or
wrote over a change: the properties set these aside, so that they say that nothing
else can go wrong.

**MCBackOffice** composes `PayrollRuns`, `AssetIssues`, `RefreshTokens` and
`RequestIdempotency`, which share no row. A variable `scene` chooses at the start whose
operations a behaviour runs, so that one run checks them side by side and its states add
up instead of multiplying; every property holds of every scene, trivially of those that do not move its variables.
`AssetIssues` has two scenes, stock without requests and requests up to their fulfilment.

**MCApprovalsAndAttendance** does the same with `ApprovalEngine` and `AttendancePeriods`,
and divides the latter by who is at work: two clerks and an editor of the day, two
clerks and the verification, adjustments with a status that moves and leave, or two editors.

## 3. Runs

All runs check deadlock except those with `CHECK_DEADLOCK FALSE`: an engine
whose requests are all final, or leaves that are all cancelled, may stop.

| Run | What it asks | States (about) |
|---|---|---|
| `outbox_rough` | Slow workers, crashes, overlapping operators: an unsent event stays claimable or a dead letter, and settles | 90 thousand |
| `outbox_calm` | Leases longer than batches, operators one at a time: leases exclude, dead letters are terminal, discarded ones stay discarded, every row settles; refinement of `EventDelivery` without stragglers | 153 thousand |
| `stream` | At least once, as refinement of `EventDelivery`; not given up early, bounded retries, one consumer per entry, every entry settles | 74 thousand |
| `approvals_and_attendance` | Three transactions race on one request of three steps: steps and status agree, one completion, one decision per step; refinement of `ApprovalDecision`. Locked and closed periods: the snapshot says what the days say, everybody tracked is verified, adjustments are of published figures and approved before they are applied; days carry the leave that was granted | 466 thousand |
| `engine_subject` | *Violation.* Two requests for one subject | — |
| `leave_rough` | One leave, two deliveries at a time, a failure, a termination, every interleaving: events tell what the row says unless a termination silenced the leave, links match leaves | 878 thousand |
| `leave_quota` | Two leaves on one balance: `used_amount` is the sum of approved leaves, pending requests never overcommit, terminations included | 759 thousand |
| `leave_live` | Decisions reach the leave and somebody's cancellation reaches the engine, although handlers fail, events come twice and a termination may come between | 108 thousand |
| `back_office` | Payroll: segregation of duties, traceable postings, frozen approvals, one publication. Assets: stock accounts, one holder, requests honoured. Sessions: they do not multiply, browsers stay signed in. Keys: one effect, pending ones are owned | 1.0 million |
| `attendance_payroll` | *Violation.* What payroll reads of a closed period differs from its snapshot | — |
| `leave_overlap` | *Violation.* Two overlapping leaves created at once | — |
| `leave_update` | *Violation.* An update lands on a leave that was approved meanwhile | — |

Bounds, and why they suffice for what is asked. Two workers, consumers or
deliveries show every race between an actor and a stale or redelivered other;
the engine has three, so that a decision, another decision and a cancellation can
meet. The rough outbox needs one event, since rows share nothing but batches; the
calm one has two of one type, so that batches, the LIMIT and the throttle
matter. `MaxAttempts` 2 or 3 leaves room for a retry and for exhaustion.
The stream has two entries with `ReclaimCount` 1, so that a poisonous entry can
stand in front of the other; `MaxRetries` 2 separates the first delivery, the
retries and the last. One crash or failing command and one overrun are enough
to meet every other step at least once; its safety properties were also checked with
two of each. Three steps in the engine give a first, a middle and a last one.
Two approval requests for one leave are as many as two deliveries can insert. The rough
leave has one unit and a balance of 0 or 1, so that an approval can be unaffordable; one
termination at a time suffices, since two would write the same to the same leaves.
The back office has one run, two users and two employees, so that a requester, an
approver and an employee who is not calculated any more can differ, two calculations and two
approval cycles, so that a decision of the first can meet the second; one asset, a
consumable of at most two units, two lines and two calls, so that a call can
cross another; two browsers with two refreshes, which may be two tabs of
one, and three tokens; three requests on one key, so that two retries can meet
after a first. Two values that are interchangeable are exchanged together with
others, which keeps the symmetry group at four permutations (TLC wants it whole).
Attendance has one employee, since nothing but the status joins the days of two; two
clerks, so that a move can meet a move, a verification or a decision on the same adjustment; two
editors for the same reason; snapshots up to version 2, so that one of an
earlier lock can be out of date.
Replays are bounded by `MaxReplays`, handler failures by `MaxFailures`.
Symmetry is used only in runs without liveness.

The four violation runs are disagreements between the code and what a comment says of
it; `PROJECT.json` "findings" quotes both sides.

* `create-leave-request`: the overlap check runs before the transaction and
  takes no lock, so two overlapping requests both pass.
* `update-leave-request`: the status is checked on an earlier read and the
  update is by id alone.
* `requestApproval`: reuse of the subject's request is check-then-insert with
  no unique index.
* `PayrollRunsUseCases` reads the live summaries, where the schema says that payroll
  reads the snapshots.

## 4. Fairness

* *Outbox*: `runScheduledDispatch` reschedules itself in a `finally`, so every
  worker keeps stepping; leases and backoffs run out. Neither the bus nor the
  database is assumed to work. The liveness properties assume in addition that
  crashes cease, and that leases do not for ever expire in the instant between
  `recoverExpiredLeases`, which charges an attempt, and the claim, which does
  not (`CrashesCease`, `LeasesMissTheGap`): without the first a row can be
  claimed and dropped for ever, without the second too.
* *Stream*: `consumeLoop` is a `while (this.running)`; the reclaim is skipped
  while less than `reclaimIdleMs` have passed, so it is strongly fair that it
  runs; entries left alone grow idle. Handlers may throw every time. Crashes
  are bounded by `MaxFailures`.
* *Leave*: a staged event is delivered until a handler returns, which is what
  the outbox and the stream promise (`EveryEventSettles`, `EveryEntrySettles`), as long as
  fewer failures happen than attempts are allowed. Nobody is assumed to decide, and no
  termination to happen or to go on.
* *Engine*, *attendance*: safety only; a transaction may always roll back.
* *Back office*: safety only; its calls are a user's, who may give up. What its
  events promise in the end is the same as for leave.

## 5. Proofs

Every invariant, action property and refinement that a passing run checks is a theorem, for any
number of workers, consumers, calls, rows and retries (finite where a property
counts). Each proof has the same frame: an invariant stronger than the
properties, first checked by TLC on the run's instance, that the initial states satisfy and every step
keeps; one lemma per action, or per group of actions that change the same variables;
and the properties read off it.

**EventOutboxProofs.** In every environment: `OutboxInvariant`, `TypeCorrect`,
`NoEventIsLost`. `UnsentIsRecoverable` is not inductive: a worker at `sent` is about to count an
attempt, and that may exhaust a row without marking it failed. This is harmless only because the event is
then on the bus, which is `BookkeepingFollowsSend`; and a row that was deleted
must not be resurrected by a statement that names its id, which is
`UnstoredIsFresh`. Where batches end within their leases and operators wait for each
other (`~SlowWorkers`, `~OverlappingOperators`, hypotheses of the theorems):
`CalmInvariant`, `LeasesExclude`, `DeadLettersAreUnpublished`, `DiscardsLast`,
`DeadLettersAreTerminal`. These follow from what a lease means, `HeldInv`: whoever holds
a row finds it stored, under lease, neither published nor a dead letter, and in no
other worker's hands or twice in its own batch. So no bookkeeping ever touches a dead letter
(`DeadLetterInv`), and who is about to discard one still finds it there. The refinement
`OutboxImplementsDelivery` is one theorem for all environments. That a worker's copies are of
staged events (`CopiesAreStaged`) is enough for what stragglers may do; that nothing else is sent, parked
or deleted in the calm environment is what `CalmInv` says of held rows and dead letters. A statement
that moves neither mark of a row is a stutter (`FlagsKept`), a failure is one of four abstract
steps, depending on what the row says by now (`FailureKeepsPromise`). `OutboxLosesNothing` and
`OutboxSettlesForGood` read off what the refinement is for.

**EventStreamProofs.** `StreamInvariant`, `TypeCorrect`, `NoEntryEverIsLost`,
`DeadLettersAlwaysWereRetried`, `RetryInvariant`, `RetriesAlwaysAreBounded`,
`OwnersInvariant`, `OneConsumerAtATime`. That acknowledging loses nothing needs
`AcknowledgesInTurn`: at `ack` all handlers have returned for the current entry, at
`drop` its dead letter exists. That nothing is given up early needs
`WorkWasDelivered`: the attempts a consumer has in memory are fewer than the entry's
deliveries from the claim on, although they were read before it.
`DeadLettersWereRead` keeps XREADGROUP from resetting the count of an entry that has
a dead letter. That retries are bounded is the reverse, `AttemptsAreRecent`: the
attempts in memory lag behind the deliveries by what crashes, failing commands and
overruns have cost so far (`Cost`), and one. Whoever is working on an entry may still deliver
it or write its dead letter, and so may whoever claims it next; `DeliveriesAllowed`
and `LettersAllowed` count them with those there are. While no batch overruns, what a
consumer has is neither idle nor anybody else's (`OwnedInv`). `StreamImplementsDelivery`
says that an entry is acknowledged for one of two reasons: all handlers have returned
(`HandlersDeliver`), or its dead letter is written; `StreamLosesNothing` follows.

**LeaveApprovalProofs.** In every environment, with late writes and early events:
`LeaveInvariant`, `LeaveTypeCorrect`, `EventsTellTheStatus`, `LinksTellTheStatus`. A handler's
steps are far apart, so it may rely only on what nobody takes back: a staged event, a
link, a cancellation, a final decision. `HandlerSound` says which of these a handler has met
at which step, `CallSound` the same of use cases, `SubscriberSound` of terminations (the leaves they hold are
rows that exist), and `Lasts` that steps do not undo them. `EventsTellTheStatus`
has one exception, which the code has: a leave that a termination cancelled. Nobody is told of
that; it stays cancelled for good, whatever decision or cancellation is still on its way.
Where reads and writes of one leave do not overlap (`~LateWrites`): `CalmInvariant`,
`BalanceIsTheApprovals`, `QuotaIsKept` and `UpdatesArePending`. Whoever has read a leave, a termination included, is alone with
it until it writes (`Alone`), so what it saw is what the row says (`SeenIsCurrent`); then
each write moves `used_amount` and the sum by the same units (`SumsMove`). `UpdatesArePending`
states the property that `leave_update` refutes with late writes: that they overlap is
the whole reason.

**AttendancePeriodsProofs.** `AttendanceTypeInvariant`, `AttendanceTypeCorrect`,
`SnapshotsAreTrue`, `ClosedPeriodsAreVerified`, `AdjustmentsAlwaysAreFounded`,
`LeavesAreShown`. Every call reads first and writes later, so each invariant says of
the calls on their way what its property says of the rows: what a clerk has read for a snapshot
is what the days say, or the call is marked with who wrote since (`ReadOfDays`); the same of
verifications (`ReadOfVerifications`) and of the adjustment that is applied
(`ReadOfAdjustment`); of two reconciliations of one day, at most one is running and it is of
the leave's fate, or the day is in `misled` (`LeaveSound`). The four rest on the
types, and not on each other. `ScenesAreIndependent`, `SceneTypes` and `ScenesAreSafe` carry
these and the engine's theorems over to `MCApprovalsAndAttendance`.

**BackOfficeProofs.** Of sessions: `TokenInvariant`, `BrowsersStaySignedIn`,
`SessionsStayFew`. `StaysSignedIn` speaks of cookie jars; `InGoodHands` says the same of
requests and answers on their way, and `HeldByOne` that a token is in one browser's hands, so
that another's sign-out does not reach it. `SessionInv` adds that who is about to rotate has read
a row as it was inserted: while it is still so, the rotation replaces one live session by
another, and otherwise it is one of `forks`. Of keys: `KeyInvariant`, `HandlersTakeEffectOnce`,
`PendingKeysAreOwned`. `Exclusive` says that of a key that no two retries reset at most
one call is past `begin`, and only while the record is pending; `Bookkept` reads
off that call's next statement whether the handler has taken effect; `ResetSawFailed`
is what a call that is about to reset has read. Of the composition: no scene allows a
step that the component alone would not (`StepOfOne`), so every behaviour of
`MCBackOffice` is one of payroll, of assets, of sessions and of keys (`ComponentsAreIndependent`), and what is
proved of them holds of it (`BackOfficeTypes`, `BackOfficeIsSafe`).

**ApprovalEngineProofs.** `EngineTypes`, `StepsTellTheStory`, `OneCompletion`,
`OneDecisionPerStep` and the refinement `EngineImplementsDecision`. The invariant `EngineInv` adds to
the properties `Story`, which says of a request's
status what each of its steps may be, `TxSound`, which says what a transaction has learned by
each of its statements and what of it is still true, and `Exclusive`: the
transaction that has written a step, or the request, holds its row. What a
transaction read before its first write may be out of date; `CommitterHoldsCurrent`
is the lemma that it is not when it commits. A decision's first write is guarded by the
step being pending and holds the step's row from then on; whoever would finish the request
or go on to the next step in between needs that row or the request's. Then `Committed`
says what a commit does to the rows, and each of the three commits is one
step of `ApprovalDecision`; every other statement, and every rollback, is a stutter. From
the refinement alone follows `EngineIsFinal`: the outcome is announced once and with the decision, an
approval took every step, and a final request stays as it is.

*The engine's users.* `LeaveKeepsEngineContract`, `PayrollKeepsEngineContract` and
`AssetsKeepEngineContract`, each in the module of its component: whatever their handlers repeat or overtake, the
integrations take no step that `ApprovalDecision` does not allow. So the engine may be put in its
place, and what its users rely on is what it does.

**PayrollRunsProofs.** `PayrollInvariant`, `DutiesAreSegregated`, `ApprovalsAreFrozen`,
`PayslipInvariant`, `PostingsAreTraceable`, `PayslipsGoOutOnce`. `Separated` needs
`DecisionsAreSomebodys`, since the person who approves may be the one whom a
decision of the engine names; `Frozen` needs `FiguresComplete`, that an approved run has
no provisional figures, since publication confirms every payslip it writes. `PayslipSound` says of a
payslip whose publication is between its read and its write what `PublishedOnce` says of a published one,
and where its figures come from in every status, not only when posted.

**AssetIssuesProofs.** `AssetHasOneHolder`, `AssetInvariant`, `AssetTypeCorrect`,
`RequestsAreHonoured`, `StockAlwaysAccounts`. `Held` says of one asset what `OneHolder` counts: at most
one open line, and one exactly while it is assigned. `SoundCall` is what a call carries from the row it
read: a status change neither saw nor writes "assigned", a hand-over is of an asset,
a return is of a line it saw open. For requests, an approval is `Backed` by a linked
approval request that the engine approved, which no step takes back (`Standing`); an issue that
has read "approved" carries that on, however late it writes, and whoever writes a request that was not
written since has seen it short of fulfilment. For stock, a write changes one line, and
`OutstandingMoves` says by how much the units in use then change; a return whose line is still
what it read puts back what it takes off.

Assumptions: the named ASSUMEs of the modules, which TLC evaluates in
every run (positive limits, types of the constants, finite sets of event ids, leaves and
issue lines, a consumable is not an asset, "no request" is not a request), and where a theorem says so the
environment it is about. No theorem bounds a counter by more than the CONSTANTs that name the bounds.

Only model-checked is liveness (`EveryEventSettles`, `EveryRowSettles`, `EveryEntrySettles`,
`DecisionReachesLeave`, `CancellationReachesEngine`): with fairness and ENABLED it is out of this prover's reach.

The types of stream, outbox and leave, `StreamInv`, `OutboxInv` and `NoEntryIsLost` (which
`StreamInv` contains, and `StreamImplementsDelivery` restates) are left to the proofs; no run repeats them.

## 6. What is left out

* *Data.* Payloads, envelopes, names, dates (an overlap relation stands for
  them), audit rows, metrics, logs and traces.
* *Outbox.* `LIMIT 100` of lease recovery (no batch is as large); the
  quarantine branch, which the claim's `attempt_count < max_attempts` makes
  unreachable; a failing statement is one that was not applied, except for
  publishing, which may have been.
* *Stream.* MAXLEN trimming: entries that nobody has acknowledged can be
  trimmed, which the model does not show. Entries without data, which `publish`
  never writes. Upcasters are part of the handlers.
* *Engine.* Policies and delegations do not change while a request runs; the
  SLA service writes comments only; authorisation is a set of approvers a step.
* *Leave.* One employee, one paid leave type and one year; leave types without
  a policy, accrual jobs and holidays. An approval request that a lost race left without a link stays
  open; it is the subject of `engine_subject`. Other modules' subscribers to
  `employee.terminated` only log or notify.
* *Payroll.* Amounts, periods, salary structures, exports and the dashboard;
  what a calculation reads is its version and the set of employees.
* *Assets.* An issue has one line; the lines of a request, the catalog,
  warehouses, attachments. Recruitment's approval integration has the same form.
* *Sessions.* Access tokens with their authorization version, passwords, TOTP,
  single sign-on, disabled accounts; a token whose hash does not match.
* *Keys.* Requests without a key or an actor; what is replayed.
* *Attendance.* Overtime requests, sessions and breaks, the verification of a punch,
  timesheet queries and the comparison with payroll; of the exceptions only the missing
  punch, of an override only its status and minutes. A snapshot's figures are whether the
  day counts and its minutes. The history rows of a period say what its status says.
  A reconciliation that failed stays undone in the code, and `LeaveShows` sets it aside.
* *Noted, without a run*: `docs/runbooks/deployment-migration-and-recovery.md` calls
  the outbox processors state-guarded, but their bookkeeping is by id alone, so a worker
  that outlived its lease may dead-letter a row that another has published.
  `TRANSITION_MAP` calls itself the single source of a period's transitions, but is
  checked before the transaction that sets the status by id: a review and a lock of one
  open period both pass, and the period goes from locked back to in review.
  `AttendanceDayTransactionService` says that overrides flow through it; they do not
  take its lock. `LeaveEmployeeLifecycleSubscriber` swallows exceptions with the comment that
  idempotency ensures a retry on the next delivery, but a handler that returns is not
  delivered to again, so the leaves it had not reached stay pending. A leave it did cancel has
  no event and no cancelled link, its approval stays open until an approver decides it, and
  where it overwrote an approval the units stay used. The models have all four behaviours.
* *Noted for later modules*: an auto-approved leave of an unpaid type consumes
  a balance its cancellation does not give back; the decide-step use case lets
  administrators decide where the service of the same name does not.
* *Components not modelled* are listed with the reason in `PROJECT.json`.

## 7. Plan

What would come next, most important first:

1. The outbox and the stream put together: what the outbox delivers is what the
   stream accepts, so that a staged event is owed by one of the two until its handlers returned.
2. The platform workflow engine; rosters and shift swaps; overtime requests.
3. Recruitment's approval integration, which has the form of the others.

## 8. Running

```
tlc -workers 4 -config EventStream.cfg MCEventStream.tla
tlapm EventStreamProofs.tla
```
