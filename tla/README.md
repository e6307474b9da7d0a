# A verification project for ClawLore

ClawLore is a long-term memory plugin for an agent host: it stores memories in SQL,
ranks them with a vector companion and full-text search, captures and recalls them
around conversations, and learns playbooks from past tasks. This directory holds TLA+
modules of its core protocols, the TLC configurations that check them on small
instances, and TLAPS proofs of what matters most for every instance. Paths below are
those of the repository with the prefix `src/`.

    tlc -config gateway.cfg MCGateway              # one run
    tlapm MemoryStoreDebt_proofs.tla               # one proof module

`PROJECT.json` lists the components, the hazards of the code with the properties that
cover them, the runs, a mutant for every property, the theorems, the findings, and the
lines of code each definition stands for.

## 1. The system

The code has two generations side by side. **V1** (`src/src/store.ts` and what hangs off
it) is the store the plugin uses; **V2** (`src/src/v2/`) is a newer truth store with
revisions and projections that migration, mirror and operator code writes.

| Part | State it keeps | Operations | Interacts with |
|---|---|---|---|
| Memory store, V1 (`store.ts`) | none of its own: a lock file, an initialisation promise | store, importEntry, update, patchMetadata, supersede, delete, bulkDelete, rebuildVectorCompanion | SQL truth and vector companion, other processes through the lock |
| SQL truth store (`sql-truth-store.ts`) | `memory_truth`, its full-text rows, `vector_companion_repair_outbox` | one synchronous SQL transaction per mutation | called under the write lock, with exceptions (forgetting) |
| Vector companion (LanceDB, `sqlite-vector-store.ts`) | one row per embedding | add, delete, list, query: each awaited, each may fail | derived from truth, never read as truth |
| Truth V2 (`v2/storage/sqlite-truth-v2.ts`) | items, revisions, relations, events, projection outbox and claims | remember, correct, forget (archive, hard delete), claim, renew, mark, fail | several processes through `BEGIN IMMEDIATE` |
| Projection workers (`v2/workers/projection-worker.ts`) | the rows a run has tried, the lease it believes in | run | outbox claims, fence lock files, adapters |
| Convergence receipts (`v2/operator/projection-convergence.ts`) | none | read the outbox rows of a mutation | Truth V2 |
| V1 to V2 mirror (`runtime-v1-v2-mirror.ts`, `memory-write-tools.ts`) | none | mirror a write, compensate by deleting | both stores |
| Experience stores (`experience-store.ts`, `sqlite-experience-v2.ts`) | episodes, playbooks, snapshots, scratch | review, promote, supersede, finalise, revoke | subagents, memory tools |
| Access tracker (`access-tracker.ts`) | a map of pending deltas, a timer | record, flush, destroy | nothing: no module creates one |
| Memory tools and extractor (`memory-*-tools.ts`, `smart-extractor.ts`, `llm-memory-merge.ts`) | what a call has read | store, update, archive, promote, compact, forget, merge, supersede, support, contradict | V1 store, its mirror, language model |
| Forgetting, cleanup, promotion of candidates (`forgetting.ts`, `governance-cleanup.ts`, `candidate-promotion.ts`) | audit events | archive, hard delete, clean up, roll back, promote | SQL truth without the lock, vectors one by one |
| Operator lanes (`v2/operator/live-*.ts`) | plans, snapshots and receipts in files, rollouts in SQL | plan, snapshot, execute, replay, finalize | V1 and V2 rows of the live database |
| Reflection (`reflection-*.ts`) | slice cache, session map | load, invalidate, prune, retry | store, language model |
| Auto-recall and auto-capture (`auto-*.ts`) | session ledgers, pending ingress | hooks per turn, timeouts | retriever, extractor |
| Login (`cli/auth-config-transaction.ts`, `llm-client.ts`) | configuration, session and backup files | login, logout, refresh | file system, token endpoint |
| Authority migration (`sql-authority-migration.ts`) | a marker in SQL, receipts in files | migrate, recover | V1 and V2 stores |
| Savepoints (`sqlite-savepoint.ts`) | the nesting of a connection, whether it is poisoned | run in a savepoint | every SQL writer |
| Everything else: extraction, retrieval, scopes, privacy, operator scripts, tools, CLI | see `components` | | |

**What is hard here.** Two durable stores with no common transaction (SQL and vectors),
several processes with one lock file, reads made before a lock or transaction and used
after it, leases with timers, adapters that finish late, lock files that go stale, rows
that fail again and again, and multi-file operations that a crash can cut anywhere.

**What makes each part correct.** For V1: no vector row differs from SQL truth unless a
durable debt row says so; deleted memories stay deleted; a repair that reports success
has repaired. For Truth V2: one line of revisions per item, complete purges, archives
that are final, an outbox whose last word is the truth. For the workers: what is
processed is projected, projections never go backwards, rows are processed in order and
all of them in the end. For the tools and jobs: one current version of a fact, no revival of
what was deleted, archived or secret. For the experience store: one episode per snapshot,
earned promotions, a line of versions. For operator lanes: only what was reviewed changes,
and receipts are true. For login, migration and moves: whatever was cut off, what is left
can be completed or undone.

## 2. Modules

| Module | Extends | Stands for |
|---|---|---|
| `MemoryStore` | | the V1 store, its SQL truth, its companion and the repair debt |
| `MCMemoryStore` | `MemoryStore` | instances for four runs and for `MCGateway` |
| `DerivedIndex` | | what the store promises of its companion, without calls, locks and tasks; `MemoryStore` instantiates it |
| `MemoryStore_proofs` | `MemoryStore` | types, deleted rows stay deleted, what full repairs do |
| `MemoryStoreDebt_proofs` | `MemoryStore_proofs` | the inductive invariant, drift and presence are covered by debt, the refinement of `DerivedIndex` |
| `TruthV2` | | Truth V2: items, revisions, outbox, writers with stale reads |
| `SerialTruth` | | what the mutations promise, one at a time and without stale reads; `TruthV2` instantiates it |
| `MCTruthV2` | `TruthV2` | its instance |
| `TruthV2_proofs` | `TruthV2` | the inductive invariant of Truth V2, what follows from it, and the refinement of `SerialTruth` |
| `ProjectionWorkers` | `TruthV2` | workers, claims, fences and adapters beside those writers |
| `MCProjectionWorkers` | `ProjectionWorkers` | instances for three runs |
| `ProjectionContract` | | what the workers promise, without workers; `ProjectionWorkers` instantiates it under its refinement mapping |
| `ProjectionWorkers_proofs` | `ProjectionWorkers`, `TruthV2_proofs` | order, what processed means, and the refinement of the contract |
| `MemoryLifecycle_proofs` | `MemoryLifecycle` | the invariant of a row's life and its eight properties |
| `Operator_proofs` | the four modules of the operator's commands | migration, lanes, principal scopes and OAuth |
| `Experience_proofs` | `Experience`, `ReflectionState`, `AutoRecall` | what the gateway learns, reflects on and shows |
| `ProjectionContract_proofs` | `ProjectionContract` | what the promise is good for |
| `MemoryLifecycle` | | memory tools, extractor handlers, forgetting, cleanup, promotion and the V2 mirror over one table |
| `MCMemoryLifecycle` | `MemoryLifecycle` | instances for two runs |
| `Experience` | | snapshots, episodes and playbooks of the V2 experience store |
| `LiveMaintenance` | | the operator's plan, snapshot, transaction and receipt beside the gateway |
| `PrincipalScope` | | the move of rows to a principal's scope and its finalizer |
| `OAuthConfig` | | login and logout over three files |
| `AuthorityMigration` | | the upgrade of a legacy database with backup and receipts |
| `ReflectionState` | | the error list and the cache of reflections |
| `AutoRecall` | | the turns and shown memories of sessions under overlapping recalls |
| `MCGateway` | `MCMemoryStore`, `ReflectionState`, `AutoRecall` | one instance in which one of them moves |
| `MCComponents` | `Experience`, `LiveMaintenance`, `PrincipalScope`, `OAuthConfig`, `AuthorityMigration` | one instance in which one of them moves |

Some definitions stand right before another of the same parameters and are used by
nothing. Each is a bug the code could plausibly have in the place of the one that follows,
and PROJECT.json says which property notices it.

### 2.1 MemoryStore

*State.* `truth` is the table of memories, `debt` the repair outbox, `companion[i]` the
vector rows of an id, `used` the ids any call has named, `lock` the lock file; per process
`pc`, `job`, `todo`, `cur`, `clean` and `snap` are the local variables of the call it is
in. A memory is its text and an embedding is the text it embeds: that is all the
properties tell apart. With `Appends` the companion keeps several rows of one id, as
LanceDB's `add` does; without it a row is replaced, as sqlite-bruteforce does.

*Calls.* A call is submitted with its arguments (`CallStore` ... `CallSupersede`), waits
(`AcquireLock`, `LockTimeout`), runs the transaction that pairs truth with intents
(`CommitInsert`, `CommitDelete`, `CommitBulkDelete`, `CommitUpdate`, `CommitSupersede`)
and then works off its companion tasks one awaited call at a time: `StartTask`,
`DeleteVector` and `AddVector` or their failures, `Reconcile` where the code marks the
debt, `ClearDebt` where it clears it. `update` and `supersede` resolve their row under the
lock, and without a new vector they await the companion for the old one: `ResolveRow`. A
repair reads truth (`CallRebuild`), awaits the vector ids (`ListVectorIds`) and reads
the debt (`ReadRepairDebt`), all before the lock, and computes its work from that
(`BeginRebuild`).

*Failures.* A call may refuse before it commits (`Refuse`), each companion call may fail,
each write of the debt after the transaction may fail and is swallowed as the code swallows
it (`MarkDebt`), and a process may die between any two steps (`Crash`).

*Abstractions.* Compare-and-set options, argument checks and scopes are part of `Refuse`.
Which rows a bulk delete selects is any subset. Embedding failures of a repair are chosen
together when its work is computed; they do not depend on what happens in between. Every
process runs one call at a time: two asynchronous calls of one process are two elements
of `Procs`, since the lock file excludes those as well. A lock that goes stale under a
live holder is not modelled here; ProjectionWorkers shows what that does.

*The promise* (`DerivedIndex`). Truth changes and is owed to the index in one step
(`Change`); the rows of an id that is owed are dropped, replaced by what truth holds or
joined by it (`Touch`); the debt goes when the two agree (`Settle`). Truth and companion are
mapped to themselves and the repair outbox to the ids it names; `ImplementsIndex` says that
the rest of the protocol cannot be seen from there.

### 2.2 TruthV2

*State.* `item[i]` is the current row, `revisions[i]` its history, `known` the ids that
were ever used, `outbox` the projection outbox in row order, `reading[u]` what writer `u`
has read before its transaction. Revision ids count commits, so `rev` is also an order in
time; of the lifecycles only `archived` is told apart.

*Actions.* `Remember` is one transaction. `correct` and `forget` read first (`ReadItem`)
and open `BEGIN IMMEDIATE` afterwards (`Correct`, `Archive`, `Purge`); between the two,
others commit. What stops a stale write is the schema: `UNIQUE(item_id, revision_no)`
(`Taken`), the foreign key from revision to item (`Archive` requires `Present`) and from
the relation to the superseded revision (`Correct`). `Purge` deletes by id whatever is
there, cascades to the revisions and leaves the queued rows without a revision
(`Detached`, from `ON DELETE SET NULL`). A failed constraint, a busy database and a crash
all roll back: `GiveUp`.

*Abstractions.* Sources, ACL, events, verification and queries are left out.
`Remember` uses ids that were never used: the callers in `src/src` leave the id to the
store or import into a new database.

*The promise* (`SerialTruth`). An item is unused, live, archived or purged, and has a line of
revisions. `Create`, `Amend`, `Retire` and `Erase` each act on the item as it is and put one
new revision behind the newest, or take all away. The mapping puts the revisions of an item
in the order of their numbers (`LineBar`) and reads off its place in life (`StatusBar`); the
reads, the constraints and the rollbacks vanish. `Erase` is possible again after a purge, as
the code's hard delete then finds nothing and still succeeds.

### 2.3 ProjectionWorkers

*State.* `owner` holds the unexpired claims, `fence` the lock file of an item and
projection, `shown` what the last adapter call that took effect left in a projection;
per worker `pc`, `claim`, `copy` (the row as claimed), `memory` (the item as read under
the fence), `lost`, `failed` and `attempted` (the rows this run has tried).

*Actions.* A run is `ClaimNext` - `TakeFence` - `CheckClaim` - `ReadTruth` - `Apply` -
`Mark` - `Release`, with `RecordFailure` when something threw and `EndRun` at its limit
or when no row is left; each is one await of `projection-worker.ts`. `Write` interleaves
the mutations of TruthV2. Time and mishaps are actions of their own: a lease of nobody's
work runs out (`ExpireAbandoned`), a lease in use runs out (`ExpireInUse`), the renewal
timer notices (`NoticeLoss`) or throws (`RenewFails`), the fence times out
(`FenceTimeout`), the adapter throws before or after its effect (`ApplyFails`), the
process dies (`Crash`), a suspended process loses its lock file (`FenceGoesStale`).

*Abstractions.* Adapters are external: `Apply` records the memory it was handed, or its
removal. Retry delays are absent, as the worker never passes one and a failed row is due
at once. A fence is per item and projection; that two places may share a lock file
(the code hashes them to stripes) only shows in `FenceTimeout`.

### 2.4 ProjectionContract

*State.* A queue of mutations, each of a place (an item and a projection) and finished or
not; what truth wants at each place; what was last projected there. Its actions are a
transaction of truth (`Enqueue`), a projection that may show an older revision only if a
newer mutation is queued (`ProjectDue`), and `Finish`. `ProjectionWorkers` maps its outbox
rows, current revisions and `shown` to these; claims, leases, fences, reads and faults
vanish, and `ImplementsContract` says that what is left are steps of the contract.

### 2.5 MemoryLifecycle

*State.* `rows` is `memory_truth` with text, lifecycle, currency, fact key and cleanup batch;
`vecs` and `v2` are the ids with a vector and with a V2 copy; `call[c]` is what a gateway
call has read and will write, `job` the same of the operator's job; `audit` the rows a
cleanup replaced. `purged`, `orphans` and `bypassed` are history for the properties.

*Actions.* A call reads its row (`MemoryArchive`, `MemoryPromote`, `MemoryUpdate`,
`MemoryForget`, `MemoryCompact`, `HandleMerge`, `HandleSupport`, `HandleContradict`,
`HandleSupersede`), takes the lock and resolves the row again (`UpdateResolve`, where a
merge also compares), and commits (`UpdateCommit`, `SupersedeCommit`, `StoreCommit`,
`DeleteCommit`); `memory_store` goes on to `Mirror` and `Compensate`, forgetting in the
gateway deletes vectors one at a time (`ForgetVector`). A job is a read and a transaction
that do not take the lock. The gateway may die between any two steps. What a store
call does to debt and companion is the matter of `MemoryStore`.

*Start.* The first `Legacy` ids may hold rows an earlier version left, of any lifecycle and
text, with the fact key its text derives; the rest of the table is empty. Rows from before
are how a secret gets into a table whose writers refuse secrets.

*Abstractions.* A text is clean, noise or secret, and the classifiers are these sets. Ids
are in order of their timestamps. One scope: the triggers and the duplicate search work
within a scope. `bypassed` is set when a job commits while a call holds the lock; the
properties name it where the code gives no guarantee then.

### 2.6 The smaller components

`Experience`: the read of a service call and its transaction are two steps where the row
can change in between (`RequireSnapshot` and `FinalizeSnapshot`, `DecideOn` and the saves),
and one where it cannot (a verdict is given once, evidence is final).

`LiveMaintenance`: V1 rows have versions, V2 rows a lifecycle, a text and a revision; the
gateway stores, edits, deletes and mirrors (`StoreV1`, `EditV1`, `DeleteV1`, `MirrorV1`).
Every lane is `PlanLane` - `SnapshotV1` - `CheckSnapshot` - `Apply` - `Receipt`, each on a
connection or file of its own, but the lanes compare different things. Before the
transaction an archive or a rewrite looks at the counts and at each bound row
(`CheckPlan`), and does both again inside it. The append lane plans anew with the snapshot's
check (`PlanIsCurrent`), reads all of V1 on another connection (`ReadLegacy`), keeps the rows
V2 lacks and compares their number alone (`CheckDelta`); its transaction wants the V2 rows
as they were and each V1 row still there (`BoundaryHolds`). `ReplayReceipt` is for the one
lane that looks for its rollout.

`PrincipalScope`: one transaction for truth, the V2 copy and debts (`ApplyMove`); then four
awaits per row (`ReadTruth`, `ReadVector`, `MoveVector`, `ConfirmVector`), between any of which the
gateway may write, and the transaction that closes the migration.

`OAuthConfig`: one action per durable write of login and logout, `CommandKilled` between them,
and a user who edits the configuration. Logout takes any path in either mode, as
`--oauth-path` lets it. `AuthorityMigration`: backup, receipts and upgrade, with
`MigrationThrows` (cleanup runs) apart from `MigrationKilled` (it does not).

`ReflectionState`: `errors` is the code's record of a session, `told` the specification's
own account of the errors some prompt was told of: `PendingErrors` counts every pending entry
and tells the last `MaxReminder` (`FirstTold`). `loading` holds the awaits of `loadAgentSlices`,
each of which reads the agent's own reflections and those of `Main`, which stands also for
nobody's; `storing` counts the stores whose calls have not come back. `excused` has the keys whose
value no drop has reached: a load that had read before the drop set it, or the store failed.
A key leaves it with its next load, drop or expiry.

`AutoRecall`: `sessionStates` is the bounded map and names an object by the prompt that made
it, as recalls share and keep it; `turn` and `history` are the object's fields. A recall is
`BeforePromptBuild`, an await, and `RecallWork` or `RecallTimeout`; filter, selection and
record are one step, as no await lies between them, and the governance and budget filters
leave any part of what may be shown. `DropState` is a session's end or an eviction;
`outlived` marks the sessions to which a recall from before brought its own object back.

## 3. Runs

| Run | Instance | Checks |
|---|---|---|
| `gateway` | one of: 2 processes, 2 ids, 2 texts, LanceDB; store, update, delete, bulkDelete. 6 errors in a list of 3, 2 told at once. 2 agents, one of them `Main`, 2 filters, 2 loads, 3 versions. 2 sessions, 4 prompts, 1 memory, 2 turns between showings, 1 end of each session | `DriftIsIndebted`, `ImplementsIndex`, `PendingIsUntold`, `StaleOnlyByRace`, `NotShownAgainSoon` |
| `store_all_writes` | 2 processes, 2 ids, 2 texts, LanceDB; those calls, metadata updates and supersedes | `PresenceIsIndebted`, `DeletedStaysDeleted` |
| `store_repair` | 1 process, 2 ids, 2 texts, sqlite-bruteforce; every call | `TypeOK`, `CleanFullRepair` |
| `store_metadata_drift` | 1 process, 1 id, 2 texts | violates `NoSilentDrift` |
| `store_repair_race` | 2 processes, 1 id, 2 texts | violates `NoSilentDrift` |
| `truth_writers` | 2 items, 3 writers, 5 commits | `TruthTypeOK`, `PurgeLeavesNothing`, `HistoryIsLine`, `LastRowIsTruth`, `ArchivedStaysArchived`, `ImplementsSerial` |
| `projection_workers` | 1 item, 1 projection, 2 workers, 3 commits, 3 faults | `TypeOK`, `ProcessedIsProjected`, `NeverOlder`, `NeverAppliedAgain`, `ImplementsContract` |
| `projection_progress` | 1 item, 2 projections of which one has no adapter, 2 workers, 2 commits, 1 fault, suspension | `OldestFirst`, `Drained`, `RunEnds` |
| `projection_suspended` | 2 workers, 3 commits, 2 faults, suspension | violates `ProcessedIsProjected` |
| `memory_lifecycle` | 3 rows of which the first may be older, 2 calls of any of 12 kinds, 1 job at a time of any of 4 kinds, 4 texts of which two are versions of a fact, one noise, one secret | `LifecycleTypeOK`, `OneCurrentFact`, `SecretForgotten`, `RevivedOnPurpose`, `MergeReplacesWhatItRead`, `DeletedStaysGone`, `ForgetKeepsACopy`, `MirroredOrUndone` |
| `forgetting_versions` | 2 rows, none from before, 2 calls, forgetting | violates `FactKept` |
| `components` | one of: 3 snapshots of 2 runs, 3 episodes, 3 playbooks, 2 processes. 2 rows, 2 lanes, 2 versions. 2 paths, 2 keys. 2 outputs, 4 contents. 3 rows to move | `OneEpisodePerSnapshot`, `PromotedIsEarned`, `LineageIsLine`, `ReceiptIsTrue`, `CommitIsBoundToReview`, `LogoutIsPossible`, `UpgradeCanBeUndone`, `CompletedReceiptIsTrue`, `CompleteMeansConverged` |

*What they show.* Every write that brings its own embedding keeps drift and debt
together through any failure or crash, also against LanceDB's appending add
(`gateway`): seen from truth, debt and companion it is a derived index that is never
touched without a debt. Once writes copy vectors back from the companion, text drift escapes
(finding 1) but presence does not: a memory without debt has vectors exactly when it has
a truth row, and a call that waited while its row was deleted does not write it back
(`store_all_writes`). A full repair that reports no error leaves every id as truth has
it, whatever state it met (`store_repair`, one process: beside a writer this fails,
finding 2). Stale reads of Truth V2 cannot fork a history, outlive a purge or revive an
archive, although nothing but the schema stops them: the writers might as well take turns
(`truth_writers`). Late, repeated and
skipped applies end in the right projection as long as no fence is lost
(`projection_workers`); order and progress hold even then (`projection_progress`).
However two calls and a job interleave, the lock's second look at the row, the comparison of
merges, the triggers and the write policy keep facts single and the deleted gone; what
the operator's jobs can break by going round the lock is what the properties except
(`memory_lifecycle`). `ForgetKeepsACopy` is about rows archived as duplicates: the other
reasons of a soft archive are not modelled. The components' comparisons under their
transactions are enough for what their properties say, and each mutant shows that the step
before them is not (`components`). For the append lane that is less than one would like:
`CommitIsBoundToReview` gives it the reviewed rows only while V1 is what its snapshot
holds, and `ReceiptIsTrue` excepts one order of events (section 7). Error reminders and
cached reflections likewise keep what the code keeps, cuts and drops as it is
(`PendingIsUntold`, `StaleOnlyByRace` in `gateway`).

*Bounds.* Two texts tell the text a row has from the one it had. Two ids let a supersede
have both of its rows and a repair meet one id per direction of drift. Two processes are
a call and the one it races; the lock admits no more at a time. In TruthV2 five commits
let an item be written, read, changed twice and purged under a third writer's read. In
ProjectionWorkers three commits give a row that is applied late, the one that overtakes
it and one to purge; two workers are the holder and the takeover; three faults let a
lease run out, an adapter fail and a process die in one behaviour. `MaxCommits` and
`MaxFaults` only cap how much happens, and every bound is a guard. The state spaces are
exhausted. In MemoryLifecycle two calls and a job are a writer, the one it races and the one
that goes round the lock; three rows hold a fact, its successor and a duplicate;
one row from before is a secret, noise or a superseded version that no call could write any more. In the
components two actors race and a third thing (run, path, output, row) is there to be mixed up;
two rows of a lane are the one reviewed and the one that takes its place; 6 errors pass a
list of 3 twice over (30 in the code), and 2 per prompt is less than the list holds; three
versions are an agent's, `Main`'s and a later one. Symmetry is used for texts, calls,
writers, workers, lanes and their rows where they are interchangeable, and never with liveness.

*Deadlock.* `store_all_writes` and `store_repair` check it: no call waits for ever, as the
lock can time out. The V2 runs turn it off because the system really stops: once the commits are spent, every
row processed and every run ended, nothing is left to do. So do `memory_lifecycle`,
`components` and `gateway`: each call, plan, episode, output, error and prompt is used once,
and then the system rests.

## 4. Fairness

`FairSpec` assumes weak fairness of `Work(w)`, for each worker, and of
`ExpireAbandoned(k)`, for each row. The first says that a host keeps calling `run` and
that awaits come back: adapter calls either return or throw. In this commit only tests
instantiate `ProjectionWorkerV2`, so the host is the one its interface asks for. The
second says that the clock moves: a claim nobody renews is due after its lease. Nothing
is assumed of writers or faults. `Drained` needs a run to attempt more rows than
there are items that fail for ever: the instance has `RunLimit` 2 and one such item, the
code's default limit is 100. Since a failed row is due again at once and claims go by row
order, a hundred failing rows ahead of it would starve a good one.

## 5. Proofs

Those about the V1 store assume only `StoreAssumption` (some id exists, `NoText` and `NoProc` are
none of the texts and processes, `Ops` says which calls a process makes); `Procs`, `Ids`
and `Texts` are arbitrary sets.

* `TypeCorrect`: `Spec => []TypeOK`, for every mix of calls and both backends.
* `DeletedIsFinal`: `Spec => DeletedStaysDeleted`, for every mix of calls.
* `InvCorrect`: `Spec => []Inv`, under `WritesOnly`.
* `DriftCovered`: `Spec => []DriftIsIndebted`, under `WritesOnly`, from the former.
* `StoreImplementsIndex`: `Spec => ImplementsIndex`, under `WritesOnly`, from the former.
* `PresenceCovered`: `Spec => []PresenceIsIndebted`, under `NoRepairs`: any writes, metadata
  updates, supersedes and imports included, but no repair.
* `RepairsDoWhatTheyRead`: a full repair without an error has made the companion what it read
  of truth before the lock, whatever runs beside it; rows that were neither listed nor in
  debt when it read are excepted.
* `FullRepairsRepair`: `Spec => CleanFullRepair`, under `OneProcess`, from the former.

Those about Truth V2 assume only `TruthAssumption` (some item exists, `Projections` is a
sequence without repetitions, `MaxCommits` is a number, however large):

* `TruthInvCorrect`: `TruthSpec => []TruthInv`.
* `TruthTypeCorrect`, `PurgesAreComplete`, `HistoriesCorrect`, `OutboxCorrect`,
  `ArchivesAreFinal`: from it, types, purges are complete and histories lines, the outbox has
  the last word, archives are final.
* `TruthIsSerial`: `TruthSpec => ImplementsSerial`, the refinement of `SerialTruth`.

`WritesOnly` restricts the calls to those that bring their own embedding: store, update
with a vector, delete, bulkDelete, and import when the backend upserts. It cannot be
dropped, as findings 1 and 2 show, and an import into LanceDB over a leftover vector row
appends a second one. `NoRepairs` and `OneProcess` keep a repair and a writer apart: a repair
that read before the lock puts back or takes away what the writer has changed (finding 2).

*The argument for V1.* `DriftIsIndebted` alone is not inductive: it says nothing of a process
about to clear a debt. `Inv` adds what such a process knows. Only the holder of the lock
is past its wait (`LockIsHeld`), so only one process touches truth, debt or companion.
Every task it still has is of an id in debt, and what it will write is what truth holds
(`WorkIsSound`); of the task in hand the same is known step by step, up to `clearing`,
where the vector rows are already those of truth (`CurrentIsSound`). With an appending
backend an add must meet no row, hence `FreshIsBlank` and `UnusedIsBlank`: the id of
a store that has not committed is blank and nobody else's. `JobIsSound` carries the
arguments from submission to commit. `Outsiders` then says of all other processes that
they idle or wait, and each lemma of the proof is about one step of one process. The
refinement of `DerivedIndex` reads its steps off the same invariant: a commit is a `Change`
(`CommitChanges`), a companion call that goes through is a `Touch` of an id in debt, the
lifting of a debt a `Settle`, and everything else moves nothing of the three
(`SyncTouches`).

*Presence, deletes and repairs.* `PresenceInv` forgets which text a vector is of and keeps
that it is one: a task in hand is of an id in debt, a replace or an add brings a text for a
row that is there, a delete is of a row that is gone. A deletion is final because a call
that resolved its row holds the lock, so the row is still there when it commits
(`ResolvedStep`), and only inserts and supersedes name a row that is not. A repair works
through deletes before replaces. `RepairIsSound` says that as long as no error was met
every id is as it was read or still has its task, and that an id once replaced has no
delete left. With one process what was read stays true until the repair returns
(`CurrentStep`).

*The argument for Truth V2.* What the properties leave open is what a writer may hold from
before its transaction, so `TruthInv` adds `ReadsAreSound`: what was read is of a used
id and, while the item is there, one of its revisions; if its number is still the newest
it is the current row itself. Histories without gaps then turn the constraint on revision
numbers into a compare-and-set: whoever finds the next number free has read the newest row
(`ReadIsNewest`). `KnownIsComplete` keeps new items apart from purged ones, and
`RevisionsAreCommits` makes the order of commits that of revisions. A correction, an
archive and a first revision are then instances of one lemma about a successor
(`ReviseInv`); a purge is the other case. The same facts give the refinement: in a history
without gaps a number names one revision (`TheRevision`), so the next one is appended to the
line (`InOrderAppend`, `ReviseAdvances`), under an id that is a new commit
(`CommitIsFresh`); a correction meets a live item (`CorrectFollows`), an archive a present
one, a purge one that was used.

*The life of a row* (`MemoryLifecycle_proofs`, under `LifecycleAssumption` alone, which names
the sets and says that the markers are none of their elements, and that the rows from before
have ids among the others; the last theorem has a premise of its own). `LifecycleTypeCorrect`,
`OneFactIsCurrent`, `SecretsStayForgotten`, `MergesReplaceWhatTheyRead`, `DeletedIsGone`,
`StoresAreMirrored`, `ArchivedIsRevivedOnPurpose` and `ForgettingKeepsACopy` state the run's
properties for any number of ids, rows from before, texts, calls and batches. `LifecycleInv` adds what the properties leave open: a call carries no secret
to write (`SayIsSafe`), so only copies of rows can bring one back and the write policy
meets each; and the row of a call inside the lock is still present, and for a merge the
very one it compared, unless a job committed since it was resolved (`HeldIsFresh`). Every
write of a row then goes through one of four lemmas: a step that only changes what a call
carries (`LocalInv`), a transaction under the lock (`WriteInv`), a forgetting transaction
(`RunForgettingInv`) and a job's commit (`CommitInv`). For archived rows `RevivalInv` follows
what each call carries (`Fits`): the status it will write is the one of the row it read, or
archives it, or is the one the row still has; and ids not yet used are absent. Only a job
moves a row while a call holds it (`HeldFrame`). A forgetting run keeps the oldest row of each
group of duplicates (`OldestOf`, `ForgettingKeeps`), and the oldest is not among those it
deletes as secrets, as long as no secret shares a fact key (`SecretsHaveNoKey`,
`KeylessSecrets`): that is the premise, and section 7 says what happens without it.

*The operator's commands* (`Operator_proofs`, under `MigrationAssumption`,
`MaintenanceAssumption`, `ScopeAssumption` and `OAuthAssumption`).
`UpgradesCanBeUndone` and `ReceiptsAreTrue` rest on what a running migration knows of its
outputs. `LaneReceiptsAreTrue` rests on the order of V1 versions: a row's snapshot comes
before the copy taken of it, which comes before the row (`CopyIsBetween`), so when the
snapshot still is the row at the end, nothing came in between; this needs versions never
to come back, which is what an edit's new timestamp and a final deletion give. What an append
writes beside its targets the snapshot has not got (`WrittenIsSound`), as the targets were all that V2
lacked when the two were compared (`LaneIsSound`); so such a row was stored later, and
V1 can look like the snapshot only once it is gone again. `ReviewedOnly` needs, for an archive or a
rewrite, only the comparison inside the transaction. For the append lane it takes from
`LaneIsSound` that as many rows are written as were planned (`AppendIsBound`): with V1 as in the
snapshot each of them is a target, and a subset of the same finite size is the whole.
`CompleteConverged` rests on `VerifiedIsSound` (what has been verified either stayed or left a debt that
is not the assignment's) and, for the row in hand, on `RowIsSound`: truth was found in the
target scope and never goes back. `LogoutStaysPossible` rests on what a login or logout has
written so far (`CommandInv`).

*The projection workers* (`ProjectionWorkers_proofs`, under `TruthAssumption` and
`WorkerAssumption`, for any number of items, projections, workers, commits and faults).
`WorkersTypeCorrect` and `RowsGoInOrder` hold whoever is suspended; `ProcessedMeansProjected`,
`NothingGoesBack`, `NothingTwice` and `WorkersImplementContract` have the premise `~Suspends`,
which finding 3 shows cannot be dropped. `ClaimInv` says that a worker works on the oldest
unfinished row of its place (`ClaimIsOldest`), as it read it, unless a purge has detached that
row since, which always queues a newer one. It builds on `TruthInv`: every mutation queues a
row for each projection behind the ones there are (`TruthStep`). `FenceInv` adds what the fence
gives (`WorkerIsSafe`): who is under it holds it, the row in hand is not processed behind
its back, and what the worker is about to apply or has applied is what truth holds, or a
newer row is queued. A skipped row is the delicate case: by `LastRowIsTruth` the last row
of a place announces truth, so an obsolete last row can only be the upsert of an item that
was remembered as archived, of which nothing was ever shown (`BornArchived`). `ShownIsARow`
bounds what is shown by the row in hand. Each step of the code that changes the outbox, truth
or a projection is then one action of the contract (`WriteContract`, `ApplyContract`,
`MarkContract`), and `ContractSettles` holds of the workers too.

*What the gateway learns* (`Experience_proofs`, under `ExperienceAssumption` and
`ReflectionAssumption`). `EpisodesAreSingle`, `PromotionsAreEarned` and `LineagesAreLines` follow from
`ExperienceInv`, which adds that unused ids carry nothing (`RowsAreSound`) and that a call
about to save a playbook read it in a state its operation accepts (`CallsAreSound`), so that
the comparison under the transaction is enough. `PromptsTellTheUntold` rests on the entries
of a session carrying the last numbers there are (`EntriesAreTheLast`): cutting the list then
cuts what was counted as told before what was not, and what a prompt's limit cut off stands
behind `MaxReminder` newer numbers. `SlicesAreFresh` rests on `LoadsAreFresh`: a load that has read carries
what is stored of its agent, unless it is late or a store of the agent has not come back.
`NothingIsShownAgainSoon`, under `RecallAssumption`, rests
on the history of an object never being behind what was shown (`ShownIsRecorded`): a recall
that answers late finds a later turn there and drops the memory. `LivesShareObjects` says that
the prompts of a session's life use one object, which is what a recall that outlives its
session breaks.

*The projection contract* (`ProjectionContract_proofs`, no assumption): `ContractSettles`
says that order and settling are enough for a place whose mutations are all finished to
show what truth wants.

*Out of the prover's reach*, and left to TLC: liveness under fairness and ENABLED
(`Drained`, `RunEnds`); they are the only properties of passing runs that no theorem
states. `Inv` and `TruthInv` were exhausted by TLC on the instances of `gateway` and
`truth_writers` before they were proved; the runs now check the refinements that rest on
them.
`MaintenanceTypeOK` is a type for the proofs: it has records over all numbers, which TLC
cannot enumerate.

## 6. Findings

1. `store_metadata_drift`: after an interrupted text update a metadata update writes the
   vector of the earlier text back and clears the debt that recorded it
   (`store.ts:1283`). Three calls of one process; nothing finds the row afterwards.
2. `store_repair_race`: a repair reads before it takes the lock; an update in between is
   overwritten with the earlier text's vector and the debt is cleared (`store.ts:1763`).
3. `projection_suspended`: a comment promises that a takeover cannot apply before the older
   adapter call has finished (`projection-apply-fence.ts:22`); a suspended holder loses its
   lock file and applies late.
4. `forgetting_versions`: forgetting takes two versions of a fact for duplicates and keeps
   the older one, which a supersede has invalidated (`forgetting.ts:94`); nothing of the
   fact can be recalled afterwards, though one recallable row is what its test expects.

## 7. Not modelled

* Retrieval, embedding, prompts, scoring and admission: numerical work and text.
* Scopes, privacy scans and secret detection: pure decisions, in the models a set of texts.
* Snapshots, redaction, encrypted archives: cryptography and I/O.
* Tools and the CLI beyond the state they change: argument checks and answers.
* The access tracker: exported, but no module creates one.
* Savepoints: one synchronous function whose cases are the outcomes of four statements.
* The older experience store (`experience-store.ts`): single synchronous statements; the
  V2 store is modelled.
* Session refresh in `llm-client.ts`: what a second refresh with one token does is up to
  the service.
* Auto-capture, and how auto-recall matches prompts to events: string matching whose hard
  cases depend on the host's order of events.
* The reasons to archive a row softly other than being a duplicate (`forgetting.ts:164-178`).
* `persisted-secret-remediation.ts`: two databases and a vector directory without a common
  transaction; it reports `rollbackRequired`, and the recovery is the operator's.

Inside the modelled parts: the second compare-and-set with which a merge updates the counters
of support (`smart-extractor.ts:909-928`), the fact key that a rewrite of metadata derives for a row
without one (`smart-metadata.ts:296-303`), the LanceDB-only mode without SQL truth, initialisation and
reopening of the store, full-text rows and the lifecycle projection of SQL truth, sources, ACL
and events of Truth V2, scratch rows and events of the experience store, the digests of
operator plans (equality of what they cover instead).

Met while modelling, reproduced by no run: `handleSupersede` of the extractor inserts the new version
before it invalidates the old one, so that the trigger refuses it whenever both carry the
fact key (`smart-extractor.ts:941`); the cleanup's `jsonStable` passes an array as replacer and
loses nested values, which a rollback then does not restore (`governance-cleanup.ts:64`);
`memory_compact` keeps the newest duplicate and forgetting the oldest; when an earlier version
left a secret as the oldest version of a fact, forgetting hard-deletes it and archives the
newer, safe version as its duplicate (`forgetting.ts:94`, `:191`), so neither is left; a migration killed
between `VACUUM INTO` and its first receipt leaves a backup in the way of the next try;
a replacement of a vector whose delete fails leaves a `delete` debt on a live memory until its
add is reconciled (`store.ts:479`), and if the process ends in between, a rebuild that is not
full deletes that memory's vector, clears the debt and reports no error (`store.ts:1780`): the next
rebuild finds the vector missing.

Met likewise, and reached by the runs that hold: the append lane commits a row that was not reviewed
when, after it has planned again, one planned row is mirrored and another stored
(`live-v1-append-delta-apply.ts:298-302`, `:315-407`): only the receipt is refused then, and issued
after all if that other row has been deleted from V1 by the time it is looked at again.
Errors beyond `errorReminderMaxEntries` between two prompts are told to none
(`reflection-runtime-state.ts:116-117`). A reflection of main or of nobody is read by every agent
(`reflection-store.ts:434-438`), and storing one drops main's cached slices only
(`reflection-runtime-state.ts:142-146`): the other agents serve the older ones until they expire.
A logout in OAuth mode with `--oauth-path` restores the configuration saved next to that
path, which may be of an earlier login, and leaves the session and backup of the path that was
configured (`auth-config-transaction.ts:548-576`).

## 8. Plan

What would add most next, in this order:

1. **MemoryStore inside MemoryLifecycle**: a store call with its debt and companion in
   place of its lock and commit, for the vectors of a forgetting run cut off half way.
2. **The V2 import and rollout switches** beside the operator's lanes.
3. **The lifecycle of a row as an abstract module** that `MemoryLifecycle` implements where no
   job goes round the lock.
