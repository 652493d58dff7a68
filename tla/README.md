# Verification of kandev-plugin-coordinator

TLA+ modules, TLC runs and TLAPS proofs kept beside the coordinator plugin.
The subject is the code under `src/`; `PROJECT.json` maps every definition to
the lines it stands for.

## The system

The plugin watches Kandev workspaces on a schedule, wakes an agent conversation
that inspects them, and keeps what the agent reports. Its parts:

| Part (source) | State | Operations | Hard parts |
|---|---|---|---|
| **Durable store** (`server/durablestate`) | SQLite: `current_state`, `mutation_log`, `snapshots`, `compaction_receipts`, `archive`, `workspace_fencing`, `content_store` | `AcquireLease`, `AppendAdd`, `AppendUpdate`, `CompareAndSwapRecord`, `CaptureSnapshot`, `Compact`, `ReactivateRecord`, `ResumeCompactions` | rollups and reactivations are two transactions; crashes between them; superseded leaders; retries |
| **Replay** (`replay.go`) | none, reads the store | `Replay` from a snapshot to a mutation | snapshots captured around rollups; correlation of receipts |
| **Retention** (`retention.go`) | deletes snapshots and mutations, stores checkpoints | `PruneSnapshots`, `PruneMutations`, `SaveReplayCheckpoint`, `ReplayFromCheckpoint` | deleting what is still needed; ids and watermarks at 0 |
| **Shadow governor** (`server/governor`) | one record of the store | `Observe`, `PutContract`, `RecordSolRecovery`, `VerifySolRecoveryEffectReceipt`, `RecordSolRecurrenceReceipt` | compare-and-swap retries, duplicate and late events, receipts in order over superseded observations |
| **Scheduler** (`server/coordinator/scheduler.go`, `plugin.go`) | `schedule` of the workspace document | `RunDue` each minute, `RunManual` | a dispatch and its record are two calls to the host; crash or error between them; midnight |
| **Workspace document** (`state.go`, `reports.go`, `tools.go`) | one JSON document per workspace, held by the host | `updateDocument`, `publishReport`, `listReports` | load-edit-save by several goroutines; bounded lists |
| **Policy, actions** (`workflow_policy.go`, `actions.go`, `shadow.go`) | one record of the store | `savePolicy`, `shadow-observe`, `status` | each save takes a lease of its own |
| **Fixture proof of concept** (`fixture_poc.go`, `cmd/fixture-poc`) | grant, operation and board records of the store | apply a grant, read back, finish | interruption between any two steps |
| **Source-control recipe** (`recipes/source-control`) | provider's change requests, task links, the browser's snapshots | create, link, unlink, refresh, teardown | a link that fails after a creation; lost, late and overlapping answers |
| **Coordinator UI** (`ui/src`) | page state | refresh, load more, run | overlapping requests |
| Configuration, prompts, migrations, canonical JSON and hashes, health counters, scripts | | | sequential |

How they interact: the host calls the plugin (`HandleAction`,
`InvokeAgentTool`) and answers its calls (`GetState`, `SetState`, conversation
`Dispatch`). The scheduler reads the policy from the durable store and the
schedule from the workspace document, dispatches to the host and records the
outcome in the document. The agent that was woken publishes reports into the
same document. The governor, the policy and the fixture keep their records in
the durable store, each under a fencing token.

What makes each part correct:

- Durable store: rows, log, snapshots, archive and receipts agree after any
  crash; a record leaves the live rows only into the archive; a superseded
  writer writes nothing; an interrupted rollup is finished.
- Replay: returns what the rows were, or aborts.
- Retention: takes nothing a retained snapshot or an unfinished receipt needs.
- Scheduler: no cycle before an accepted standup, no occurrence dispatched twice
  without need, none skipped; nobody's record is lost; every run ends.
- Governor: concurrent calls act on its checkpoint one after the other, reviews
  only go forward, one call wins each version of a contract, what is remembered
  stays in order.
- Recoveries: the receipts of a recovery tell one story under one observation,
  its effect is a later one's, and it recurs once and after its effect.
- Fixture: of the operations that ask for one effect one is decided for, its
  intent is on record before the board changes, and an interrupted one is
  brought to one verified readback.
- Recipe: what is answered as linked is linked; what a page shows never goes
  back to an older reading, nor to one asked for before a teardown.
- Policy, UI page: see the plan.

## Modules

| Module | Models |
|---|---|
| `RecordMap` | abstract: a map of records that leave it atomically |
| `DurableStore` | every write transaction of one workspace, one action each |
| `DurableStoreProperties` | its safety and liveness properties, the refinement of `RecordMap` |
| `DurableStoreProofs` | TLAPS proofs, whatever the callers do |
| `DurableStoreRuleProofs` | TLAPS proofs of callers that follow the rule of `ResumeCompactions` |
| `Replay` | `Replay`, as operators over the store's state |
| `Retention` | the pruning actions added to the store; replay from a checkpoint |
| `RetentionProofs` | TLAPS proofs of pruning and of what replay returns |
| `Cadence` | when a standup or cycle is due and its occurrence key |
| `CadenceProofs` | TLAPS proofs |
| `Scheduler` | the runner, manual runs and publications over one document, and their properties |
| `SchedulerProofs` | TLAPS proofs |
| `GovernorState` | the governor's checkpoint, what a call makes of it, and the abstract specification in which calls happen at once |
| `Governor` | the loop that reads, transforms and swaps the checkpoint, and its properties |
| `GovernorProofs` | TLAPS proofs |
| `Recovery` | the recoveries of the checkpoint with their effect and recurrence receipts, and their properties |
| `GrantedEffect` | abstract: one of several operations is decided for, intended, applied and verified |
| `FixtureGrant` | the fixture's grant over `Recovery`, the board and the operation records, step by step |
| `FixtureGrantProofs` | TLAPS proofs of `Recovery` and `FixtureGrant` |
| `ChangeRequests` | the source-control recipe: mutations at the server, the browser's snapshot stores and refreshes |
| `ChangeRequestsProofs` | TLAPS proofs |
| `MCDurableStore`, `MCRetention`, `MCCadence`, `MCScheduler`, `MCGovernor`, `MCFixtureGrant`, `MCChangeRequests` | settings for TLC; `MCCadence` also holds the properties of `Cadence` |

`Retention` extends `Replay`, which extends `DurableStoreProperties`, which
extends `DurableStore`. `Scheduler` extends `Cadence`, and `Governor` extends
`GovernorState`. `FixtureGrant` extends `Recovery`, which extends
`GovernorState`: the fixture calls the governor. `DurableStoreRuleProofs` extends
`DurableStoreProofs`, and `RetentionProofs` extends `Retention` and both.

Some definitions end in a variant named `... Mutant:` in its comment: a
plausible bug of the same code, used to confirm that a property notices it.

### Durable store

One workspace; workspaces share nothing but the connection. A write method is
one or two `BEGIN IMMEDIATE` transactions on a pool of one connection, hence
one or two atomic actions. `Compact` is `ArchiveCompaction` then
`FinishCompactionSwap`; `ReactivateRecord` is `AppendReactivationMutation` then
`FinishReactivationApply`; `pending[l]` is the call leader `l` is in the middle
of, and `Interrupt` is everything that can end it there (a crash, a cancelled
context), which also makes the leader forget that it recovered. A repeated call
with the same id is `RetryReceipt`. `ResumeNext` and `ResumeDone` are the
iterations and the end of `ResumeCompactions`.

The log is a set of entries with their ids. A body stands for a record's kind
and canonical JSON, and equal hashes for equal bodies. Calls that fail and
change nothing are not steps. Receipts of pruned snapshots, content stored by
reference and health counters are left out.

`SoleWriter` is the rule stated at `ResumeCompactions` ("call it after
acquiring the lease or restarting, before anything else"; `compaction.go`):
with it, a leader that is elected or interrupted recovers first, and writes of
one token take turns. The code enforces neither: the comment asks for the
first, and nothing asks for the second (`concurrency_test.go:11-15` has parallel
writers of one token). Without it callers share the current token (`ShareLease`
models `CurrentFencingToken`) and write at any moment; what then breaks is
`lost_update`. Snapshots are captured by any holder of the current token at any
moment, with `SoleWriter` or without, also between the two steps of a rollup,
as `CaptureSnapshot` allows (`snapshot.go:23-34`). `moving` remembers, as
history, which records were between their two steps just then.

The order of receipts (`at`) is the order of their creation. The code orders
by textual timestamps; as long as at most one receipt waits, which `OneAtATime`
shows under the rule, the order decides nothing.

### Replay and retention

`ReplaySnapshot(s, k)` is `Replay` up to mutation `k`; replay up to a time is
the same function with another bound. `PruneSnapshots` reads its list before
its transaction; deleting that older list equals deleting a current list for
another `keepCount`, so it is one action. A checkpoint may be saved at any
mutation id, so it is a parameter of the property rather than a variable; one
below a snapshot's watermark belongs to the run of an older snapshot, since
checkpoints are keyed by it.

A snapshot captured between the two steps of a rollup holds the row of a record
whose remove entry is at or below its watermark, so the content is not "the last
mutation_id already reflected in this content" (`snapshot.go:20-21`).
`SnapshotsMatchLog`, `ReplayIsFaithful` and `ReplayReconstructsCurrent` say
exactly how far that goes: only a record that was moving may differ, and only by
being as it was captured; from every other snapshot they promise everything.
`PrunesWithCare` restricts `PruneMutations` to callers that name every retained
snapshot, none of them without a watermark, and keep at least one mutation; the
runs without it show why each condition is needed.

### Schedule and scheduler

A moment is a minute of local time. `Cadence` is `dailyOccurrence` and
`CycleOccurrenceKey`; time zones and daylight saving are left out (the code
maps a repeated local hour to the same keys, which `scheduler_test.go` states).

In `Scheduler` a job is one goroutine inside `runWorkspaceDue`, `RunManual` or
`publishReport`. `Dispatch` and the record are separate steps, and the record
is a `LoadDocument` and a `SaveDocument` under the workspace lock, each of which
can fail. `Crash` ends the process, also by `Close`. The host is external: it
accepts an occurrence key at most once (`pluginsdk.AgentConversationManager`),
may be busy, may fail, and its answer may be lost after it accepted. `attempted`
and `lost` are history variables. A save that the host stores and answers with
an error all the same is a `SaveDocument`: only the caller of the action or tool
is told, and the job ends either way. Out of the document, the schedule, the
telemetry's keys and the kinds of reports are kept; `LastDispatch` repeats the
newest telemetry entry.

### Governor

`rec` is the record `shadow-governor/v1` of one workspace, `call` the goroutines
inside `transform`. `Begin` and `Load` are one `GetRecord` with the transform
applied to the copy (`Observe`, `AcknowledgeStrategy`, `PutContract`; a refused
or duplicate call ends there), `Swap` and `Retry` are one `CompareAndSwapRecord`
or `AppendAdd`, atomic by the store's write lane, and `Fail` is every error that
ends a call. Bodies are compared instead of hashes; an observation that is taken
over a second time with the same content makes the record equal again, and the
swap of an older copy is then as harmless as in the code. `Events`, `EventBodies`
and `Observations` of the code hold the same events and are one sequence here.
Time zero is Go's zero time. A contract is its version and its `Terms`, one
value for everything else in it. `call[c].others` and `answered`, the contracts
that calls were told are stored, are history.

### Recoveries

`Recovery` adds `Recoveries`, `RecoveryReceipts` and `RecurrenceReceipts` to the
checkpoint. Its calls happen at once, which is what `Governor` shows of every
call that goes through `transform`. A submission is what a caller sends, its
receipt id the request and the status, as the callers of the repository build
it. The strategy and plan versions are one generation, fixed for each event.
The older `VerifySolRecoveryEffect`, which names an incident without a receipt
and asks no status, is an action of its own; therefore the properties about
order speak of effects that have a receipt. A caller may also record a recovery
directly as `effect_verified` (the code takes a first record in any status);
`RecurrencesFollowEffects` excepts the recoveries whose caller claimed that.
Refusals of malformed calls, and of receipts that name another task or head
than the observation shows, are left out.

### Fixture grant

`FixtureGrant` is `applyFixtureGrantWithHooks`, `applyReady` and
`finishFixtureGrant`, one action per call of the governor or the store: the
operation record is read (`Start`), an interrupted effect is looked for
(`Look`), the origin is validated (`Validate`), the acceptance recorded
(`Accept`), the intent added (`Intend`), the acceptance confirmed (`Check`), the
board read and swapped (`Read`, `Write`, a missing row is added first), the
effect observed, verified by receipt and the record finished (`ObserveEffect`,
`VerifyReadback`, `Finalize`). `Interrupt` ends a call between any two, and the
same operation may be asked for again by any caller. Meanwhile everybody else
may observe and record through all actions of `Recovery`, on other incidents.
A board object that callers share remembers its own effect and denies a second
one (`fixture_poc.go:347`), which `Check` may therefore do once the task is
Ready. `board` is the row of the task projection. `fresh` counts the answers that claim
the effect as their own; `crashes` counts interruptions, up to `MaxCrashes`.

The module implements `GrantedEffect`: the decision is the acceptance the
governor holds, the outcome the operation record, the task the board. Left out:
`RunFixturePOC` and the fixture host, the digest of the observations, and calls
denied for their own fields (revoked, another target, action or evidence).

### Source-control recipe

`ChangeRequests` has one workspace and one task. A mutation is at the server
and in the browser at once: `calls[c].server` is where `createChangeRequest`,
`linkChangeRequest` or `unlinkChangeRequest` stands, `calls[c].ui` what the
browser made of it. The provider, the association store and the transport are
external: each may fail, also after it took effect, and the browser may give up
(`Throw`) while the server goes on. A snapshot store is `createSnapshotStore`:
an epoch that counts teardowns and a version that counts refreshes; only the
token of the newest refresh publishes. The two stores of the recipe are the
views; one `destroy` tears both down. A refresh takes its version before it
looks at its signal, so one that is aborted has taken one too
(`BeginRefresh`). After create and link both views are refreshed, after unlink
none is; the host refreshes whenever it likes. Read-only pass-throughs
(repositories, branches, cursors), the resolution of references, listeners and
dialogs are left out. Two abstractions of what a refresh reads: `ReviewReader`
and `AssociationStore` are separate ports of the host (`recipe.go:150-158`), and
of each view one is read in one step, the associations as they are stored; and
`register.ts:142-199` drops entries without a review key, title, URL or task
before the commit, so the properties are about listings of well-formed entries.

## Runs

| Run | Shows | Bounds |
|---|---|---|
| `durable_store` | types; tokens never decrease along the log and ids are unique; rows (with archived receipts finished) and snapshots, captured at any moment, are what the log says; entries chain; a second step is never refused; at most one receipt waits; the store implements `RecordMap` | 2 leaders, 2 records, 1 body, 2 receipts, 2 elections, 4 mutations, 2 snapshots (each rollup takes one) |
| `retention` | careless pruning by callers sharing a token takes nothing from an archived rollup, and changes no replay from a retained snapshot that has a watermark; an interrupted rollup is committed, whatever is pruned meanwhile | 2 callers, 1 record, 1 receipt, 2 elections, 2 mutations, 2 snapshots |
| `careful_retention` | replay from any snapshot to any id of an unpruned log returns the rows of that moment; with careful pruning replay to the end still returns the live rows (both but for records that were moving at the capture); replay from a checkpoint returns the same or aborts | 1 leader, 2 records, 2 bodies, 2 receipts, 5 mutations, 2 snapshots |
| `cadence` | eligible minutes are exactly those of a window opened on an allowed day; keys name its intervals | every window and both day modes of 6-minute days, intervals 1, 2 and 4, 53 minutes (a week and a day); the time of the standup is fixed, `StandupDue` is only exercised by `scheduler` |
| `governor` | every write is one call applied to the stored record; remembered observations are distinct and in order while old ones are forgotten; the strategic watermark and its baseline go forward; each version of a contract is won by one call, whose contract is then the stored one; a call gives up only after that many writes of others | 2 callers, 3 events of which 2 are remembered, 2 times, 1 task with 2 contract versions of 2 contents, 2 attempts |
| `scheduler` | no accepted cycle before some accepted standup (arming persists over days); an occurrence is dispatched once unless its record was lost; a day or slot is marked only by its own attempt; no record is dropped; every job ends | 2-minute days, 3 minutes, 1 caller with 1 key, lists of 2 entries |
| `fixture` | receipts tell one story, effects and recurrences are later, superseded recoveries rest; one operation is decided, applied and verified (`GrantedEffect`); operation record and governor agree; one answer at most claims the effect; a pending operation is reconciled unless it is overtaken | 2 callers, 2 operations of successive observations, 1 interruption, a foreign incident with its decision, effect and legacy verification, 1 recurrence, 3 times |
| `change_requests` | views never go back; nothing from before a teardown is shown; what was told linked is shown by a current refresh | 2 mutations, 1 change request, 2 views of which the host refreshes one, 3 refreshes of a view, 1 teardown |

Runs that TLC finds violated, each a disagreement between the code and what the
repository says of it (`findings` in `PROJECT.json` quotes the lines):

| Run | What happens |
|---|---|
| `lost_update` | a write with the same token between the two transactions of `Compact` is deleted by the second one and archived nowhere |
| `resume_stuck` | an interrupted reactivation is selected by `ResumeCompactions`, refused as not being a rollup, and never finished; only repeating `ReactivateRecord` finishes it |
| `reused_id` | after every mutation is pruned, ids restart at 1, below the watermarks of retained snapshots, and replay skips the new mutations |
| `null_watermark` | a retained snapshot captured before the first mutation does not count when mutations are pruned, and its replay is destroyed |

More behaviours the models show and no run singles out:

- A snapshot captured between the two transactions of a rollup holds the rolled
  rows below its watermark: replay from it brings them back, or aborts at a
  later entry of the same record, contrary to `snapshot.go:20-21`. One captured
  in the middle of a reactivation lacks the reactivated row. `SnapshotsMatchLog`
  and the two replay properties name this as their only exception (`LoggedAhead`, `AsCaptured`).
- A checkpoint between two remove entries of one rollup makes the resumed replay
  abort, at every retry: `CheckpointNeverLies` allows exactly that.
- A standup the host started, whose record was lost, is dispatched again,
  answered `duplicate_occurrence`, and recorded as done without arming the
  cycles, as `scheduler_test.go` expects of a duplicate: on a workspace never
  armed, no cycle runs that day.
- A recovery call that leaves out its due date is stored with the inherited
  one, so the same call again no longer equals its receipt and is refused
  (`governor.go:487`, `governor.go:510`). The callers give the date.
- An effect receipt that was taken is refused when it is presented again after
  a later observation (`governor.go:598`). A fixture operation whose effect is
  on the board then stays pending, at every retry (`fixture_poc.go:613`), where
  `docs/stage-0-fixture-poc.md:14` says an interruption after the effect is
  reconciled. `PendingIsReconciled` excepts it by name (`Overtaken`).
- Of two adapters in `applyReady` the loser may run out of its two attempts and
  answer that the outcome is unknown although the operation succeeds.
- The recipe's README (`recipes/source-control/README.md:115`) asks for a
  refresh after mutations; an unlink refreshes nothing. A creation whose answer
  was lost, asked for again, is a second change request: the actions carry no
  request id.

### Why these bounds

Two leaders and two elections give one superseded writer, one recovering leader
and one that was never elected. Four mutations are the shortest log in which a
two-record rollup completes, or a record is added, rolled out, reactivated and
changed; five leave one more for replay to go on from between two snapshots.
Two receipts are the least for a rollup and a reactivation, or a second rollup,
to overlap. Two snapshots allow two rollups, or an explicit snapshot beside a
rollup's own, also between its two steps. Two bodies, which let an update differ
from what was archived, are in `careful_retention`; `durable_store` has one,
and tells a row from no row. The bounds
are in the guards of `AcquireLease`, of the actions that append, and of the
captures, and nowhere else. Records, bodies, receipt ids and leaders are only
compared, so the runs without liveness use symmetry.

A short day keeps all cases of the schedule: windows within a day, past
midnight, as long as a day but one minute, with a remainder of the interval.
Three minutes of two-minute days let the scheduler cross midnight between a
tick, its dispatch and its record. The scheduler never stops, and a store whose
bounds are used up still has elections' retries and interruptions; the time of
`cadence` does stop, so deadlock is not checked there, nor in
`change_requests`, where refreshes and teardowns are used up.

Three events of which two are remembered are the least for a forgotten event to
come again next to one that is still known, and two attempts the least for a
call to lose, load again and lose once more. Two versions of a contract let a
call come with an expectation that is behind an existing one, and two contents
let the winner's be told from another's. Incomplete observations come at the
first time only: a second one would only be another body that no review accepts.

Two operations of which the second belongs to the observation that supersedes
the first one's make them compete for one decision and one task, in either
order; two callers are the least for the intent, the board and the answer to be
raced for. One interruption per behaviour is enough for each step to be the
interrupted one, and the other caller and the retries still race around it.
Two mutations of one change request are the least for a link and an unlink of
the same, or two refreshes of one view, to overlap; three versions let a
mutation's, another's and the host's refresh overlap, or one come again after
the teardown with a version already used before it; a second view, which the
host leaves alone, lets a mutation's two refreshes end differently.

`retention` needs two elections for a caller whose token is superseded, and two
mutations, one that adds the record and one that rolls it up, with snapshots and
pruning before, between and after. It has one receipt
only: without the recovery rule a second receipt can rightly keep a rollup from
being committed, by moving the row on, and callers that ignore the rule are
promised nothing.

## Fairness

- `ResumeFairness`: a call that began its second transaction is carried on by
  the Go scheduler, and a leader in recovery keeps calling `ResumeCompactions`
  until it returns nothing, as its comment demands. Nothing makes a leader
  write, be elected or crash. `RollupsAreFinished` assumes in its own statement
  that crashes stop (`Calm`); elections are bounded by `MaxFence`. Pruning has
  no fairness and may come at any moment.
- `Fairness` of `Scheduler`: an actor that can go on again and again does go
  on, which is strong fairness because of the lock; a Go mutex hands over to a
  starving waiter. The host answers every call: the runner's context has no
  deadline, so a call that never returns would stop the runner. Ticks, manual
  runs, publications, time and crashes have no fairness.
- `Fairness` of `FixtureGrant`: each call is carried on by the Go scheduler
  (weak fairness of its `Step`), and an operation whose record is pending is
  asked for again even when callers are busy with others in between (strong
  fairness of its `Start`), which is the retry `docs/stage-0-fixture-poc.md`
  describes. Interruptions are bounded by `MaxCrashes`; observing and recording
  have no fairness.

## Proofs

Each theorem is of the module's whole specification and holds for all values of
the constants that its `ASSUME`s allow: any finite sets of records and receipts,
any bodies, leaders, callers, operations, calls, views and limits. What runs show
on small instances they show of every one.

### Durable store

`DurableStoreProofs`, with `SoleWriter` either way:

- `TypeCorrect == Spec => []TypeOK`. `TypeOK` alone is not inductive:
  `LastMutationID` is a maximum, a number only when the log has a last entry,
  so the invariant is `TypeInv`, which adds `LogHasLast`. It needs finite
  records and receipts, since one transaction of `Compact` appends one entry
  per record.
- `Fencing == Spec => []FencedLog`: along the log tokens never decrease, and no
  two entries share an id. The invariant `FenceInv` adds that no token exceeds
  the lease and no entry's token exceeds it either (`TokensFromLeases`): what a
  caller that passes `CheckFencing` appends carries the current token, the
  largest there is.

`DurableStoreRuleProofs`, of callers that follow the rule of
`ResumeCompactions` (`SoleWriter => (Spec => ...)`): `RowsMatchTheLog`,
`SnapshotsMatchTheLog`, `MutationsFormAChain`, `SecondStepsCanFinish`,
`OneReceiptAtATime`, `StoreImplementsRecordMap`, and `RowsOnlyLeaveIntoArchive`,
of which `lost_update` shows that it needs the rule. One invariant carries them
all, `IInv`, in two parts:

- `StoreInv`, who may write and what receipts promise: the current lease has
  one holder, what it is in the middle of is archived, and once it has recovered
  and is in the middle of nothing, nothing is archived (`LeaseInv`); log and
  archive name receipts that exist, the rows of an archived rollup stay as they
  were archived, and its second step can finish (`ReceiptsInv`).
- `LogInv`, what the log says: of the rows, of each snapshot at its watermark,
  and of each entry's body before it.

The bridge between them is `StepWrites`: whatever step is taken, it appends
entries beyond the last id, each from the effective row before to the effective
row after, and every other effective row stays. `LogInv` and the refinement
follow from that alone, without another look at the actions.

### Replay and retention

`RetentionProofs`, of any callers, whether they follow the rule and prune with
care or not:

- `RollupsVerify == RetentionSpec => []ArchivedRollupsVerify`; its invariant
  `RInv` adds that an entry never speaks of a rollup that is still to come.
- `FencingWithRetention`: `FencedLog` although pruning may free the largest id.
  That the log has a last entry again is shown by a smallest distance to the
  bound on ids.
- `MarkedReplaysSurvivePruning == RetentionSpec => PruningKeepsMarkedReplay`.

Of callers that follow the rule, however they prune: `RecoveryWithRetention`,
`RowsLeaveWithRetention` and `RetentionImplementsRecordMap`. What the rule gives
the store it gives it with retention, because a leader that may prune finds
nothing archived.

Of callers that do both (`SoleWriter /\ PrunesWithCare => ...`):

- `ReplaysAreFaithful`: a log that was never pruned replays from any retained
  snapshot to any id, and returns the rows of that moment.
- `ReplaysReconstruct`: pruned or not, replay from any retained snapshot to the
  end succeeds and returns the effective rows.
- `CheckpointsNeverLie`: of a replay resumed from a checkpoint and the
  uninterrupted one, one aborts or both return the same rows.

The first two except, of a snapshot captured in the middle of a rollup or a
reactivation, the records that were moving: replay may abort or leave them as
captured. The proofs treat such a snapshot apart (`UnmovedGoesOn`,
`UnmovedReplays` for the rest, `SaysOfOtherRows` for its other rows).
- `CarefulPruningKeepsReplay` (from `PrunesWithCare` alone) and
  `NewMutationsAreSeen`, the two properties that `null_watermark` and
  `reused_id` show violated by callers without that care.

What a replay returns is proved by induction over the positions of the log, as
the smallest set of numbers that holds 0 and successors (`AllNumbers`): after
position `i` the rows are what the entries up to `i` say (`Says`, `ReplayShows`),
and no entry is refused if each starts from what the ones before it say
(`ReplayGoesOn`). `LogInv` is lost as soon as the log is pruned, so `CareInv`
states it of the part a snapshot needs: the entries after its watermark continue
its content, end in the effective rows and carry whole rollups
(`ReplaysToEffective`). It survives pruning because care leaves a last entry, so
the last id stays, and nothing is archived while a leader may prune. That a
checkpoint agrees needs `EndsEffective`: the last entry of a record ends in its
effective row, whatever happened before the checkpoint.

### Schedule and scheduler

`CadenceProofs`: `EligibleMinutes` and `OneKeyPerSlot`. The code's schedule, in
days, minutes of the day and a case for midnight, is compared with the one in
absolute minutes; the quotients and remainders involved are the lemmas.

`SchedulerProofs`, for every schedule: `TypeCorrect`, `CyclesWaitForAStandup`,
`EachOccurrenceOnce`, `MarksAreAttempts`, and `NothingRecordedIsDropped ==
Spec => RecordsAreKept`. `DispatchedOnce` is not inductive: it needs that an
attempted occurrence is lost, in flight or recorded, and that what is recorded
belongs to a minute that is not after the one the runner works with
(`HistoryInv`), so that what a later tick finds due is new. For that later
minutes have later keys, by day for standups, by window and slot for cycles
(`NotAfter`). What an actor saves is the stored document with its own edit
(`SaverHoldsLock`).

### Governor

`GovernorProofs`, for any callers, tasks, observations and bounds:

- `TypeCorrect == Spec => []TypeOK`, with the bound on remembered events.
- `Atomicity == Spec => CallsAreAtomic`, the refinement of `AtomicSpec`: a step
  of the loop that changes the record is one call applied to the stored record.
- `AttemptsLost == Spec => []AttemptsAreLostToWrites`.
- `OneCallWins == Spec => []OneCallWinsEachVersion`.
- `EventsStayInOrder` and `WatermarksAdvance`.

The first four follow from one invariant, `IInv`: a call about to swap holds a
copy its request may transform, and if that copy is stale, the call has seen more
writes than it has lost attempts. Without the latter `AttemptsAreLostToWrites`
is not inductive: a failed comparison would not imply a write to blame. That the
copy is the stored record when it is swapped is also why the version a winner is
told is the next one. The other two are proved of `AtomicSpec`, one call after the other, and carried to
the loop by `Atomicity`. Their invariant is `Sound`: remembered observations are
ordered, `Last` is the last of them, and the baseline of a review is not later
than it; the order alone would let the baseline go back.

### Recoveries and fixture

`FixtureGrantProofs` proves `StoriesHold`, `EffectsComeLater`,
`RecurrencesComeLast` and `SupersededRest` of `RecoverySpec`, in which anybody
calls the governor, and of the fixture. `RInv` is their invariant. A receipt that
is added is the latest one only if statuses grow in rank, and a recovery's status
is its latest receipt's unless an effect was verified (`Story`, `Coherent`).
That effects are later needs that a remembered event has one body and that the
last observation is not before the effect (`OneBodyEach`, `Later`): otherwise an
event forgotten and observed again could be its own effect.

Of the fixture: `TypeCorrect`, `OneAnswerClaims`, `BothRecordsAgree`, and
`GrantImplementsEffect == Spec => ImplementsGrantedEffect`, the refinement of
`GrantedEffect`. `GrantInv` adds what the place of a call vouches for (past the
acceptance, its operation is the accepted one; past the intent, it is on record;
past the board, the task is ready; at the end, the receipt is the recovery's),
what the operation record vouches for, and that one call at most claims the
effect. Whoever else calls the governor meanwhile only has to keep `RInv` and
leave the incident alone.

### Source-control recipe

`ChangeRequestsProofs`, for any calls, views and change requests and any number
of refreshes and teardowns: `TypeCorrect`, `Unloaded == Spec =>
[]NothingFromBeforeUnload`, `NeverBack == Spec => SnapshotsNeverGoBack` and
`LinkedShows == Spec => []LinkedIsShown`.

The invariant `IInv` says why tokens work: a refresh that has begun holds a
token no newer than its store (`TokensAreIssued`), one refresh of a view at most
holds the current one (`OneIsCurrent`), and what it was answered is no older
than what the view shows (`AnswersAreNewer`). `OneIsCurrent` is what carries
`AnswersAreNewer` over a commit: whoever else waits with an answer is not
current any more. `LinkInv` follows what a call was told is linked through the
association store, its own refresh's answer and the view that shows it, each
time unless it was unlinked since.

### Assumptions

All are named `ASSUME`s that TLC evaluates on every run: sentinels differ from
what they stand in for; records and receipt ids are finite; limits, times,
versions and bounds are numbers, positive where the code's constants are; the
configuration is one that `Config.Validate` accepts (window ends differ, the
interval is positive); observations, submissions and receipts that callers send
are well-formed, and every event has a generation; the host of the recipe is no
mutation. Of the fixture: an operation is decided on a complete observation that
an effect can still follow, all its observations are of one strategy and plan
version (`fixture_poc.go:639`), and other callers name other incidents and
requests. `SoleWriter` and `PrunesWithCare` are hypotheses of the theorems that
need them, never assumptions.

### Only model-checked

Liveness under fairness is outside the prover: `RollupsAreFinished`, `JobsEnd`
and `PendingIsReconciled` are shown by the runs only, and so are the
counterexamples of the runs expected to be violated. Every other property of the
runs is a theorem, the two pruning properties and `RowsLeaveIntoArchive` under
the rule and care that the violated runs leave out.

## Plan

1. `ReportPages`: listing by offset against a growing list, and the UI page
   that refreshes and loads more at the same time.
2. Cycle-log compaction in the document; a change of settings while the
   scheduler runs, which renumbers slots.
3. `Policy`: `savePolicy` and the shadow observer, each with its own lease, over
   `DurableStore`'s fencing; `evaluate` (the digest) as pure operators against
   its documented limits.

## Not modelled

Content of bodies and their hashes (no tampering, no collisions), content by
reference, schema migrations, health counters and queries, prompts, time zones,
the legacy migration of documents, the governor's digest of an observation, the
workflow policy, the fixture's driver and host, the recipe's repositories,
branches, cursors and references, the UI page, the scripts. `withWriteTx` rolls
back with the caller's context, which may be the cancelled one; what the SQLite
driver then does is outside the repository.
