# Baron Nexus: TLA+ models, checks and proofs

Baron Nexus gives coding agents a local memory that survives sessions. An agent
host (Codex, DSH) runs `baron hook` for every lifecycle event; each hook is a
short process of its own that records the event in a per-project SQLite
database, keeps a *work state* for the next session, writes it out as
`checkpoint.json`, tells the agent what there is to resume, and queues summaries
for a remote memory service. Around that core the program provisions the remote
account and knowledge assets, runs security scans as jobs, and installs, updates
and removes itself and the tools the agents run on. The models are about what
several such processes do to shared tables, files and remote services when they
interleave, fail half-way, are killed, or meet a slow or unreliable provider.

## 1. Inventory

| Part (source) | State | Operations | Hard behaviour | What makes it correct | Module |
|---|---|---|---|---|---|
| Task ledger (`storage/task_ledger.go`, `contracts/contracts.go`) | events, tasks, task_verifications, active_tasks | one transaction per task event | optional fields, redelivery, order of verification, update and completion | completion is earned by evidence for the current tree and policy | `TaskLedger`, `CompletionAuthority` |
| Sync queue and flush (`storage/storage.go`, `continuity/sync.go`) | sync_queue, queue_receipts | enqueue, claim, deliver, retry, dead-letter, requeue, lease recovery | concurrent flushes, lost answers, expired contexts, kills, clock steps | exclusive claims; delivered = receipt; bounded attempts; claims are released | `SyncQueue` |
| Checkpoint engine and lock (`continuity/continuity.go`, `lock.go`) | work_state version, checkpoint.json, checkpoint.lock | Save, SaveLocal, lock, stale-lock removal | file-system steps of several processes, killed owners, wall-clock ages | serialized, monotone checkpoints; an abandoned lock is reclaimed | `CheckpointLock` |
| Hook runtime (`hooks/hooks.go`) | the above, sessions, handoff_receipts | Handle | five transactions per event, load and save apart, redelivery, kills | work state and remote queue follow from the journal; no lost updates | `HookRuntime` |
| Resume gate, transcript, recall and its cache (`continuity/resume_gate.go`, `context.go`, `knowledge/retrieve.go`, `storage/remote_recall.go`, `timeline.go`) | remote_recall_cache, event counts | decide, converse, look up, ask layers, store | ledger, tree, setup and provider change under the hook; layers fail one by one, page, or answer unreadably | overlap is announced; a cached packet lacks only what an answer without an error left out; the transcript comes once | `ResumeRecall` |
| Stored timestamps (`storage/storage.go`) | TEXT columns | compare with a cutoff | layout drops trailing zeros | lease misjudged by less than a second | `StoredTime` |
| Knowledge provisioning (`knowledge/provision.go`, `queue.go`, `memory/tencent/knowledge.go`, `assets.go`) | knowledge_registry, retries, remote wiki and code graph | ensure, create, register, bind, write, ingest, poll; queue handler | creation before the local record, lost answers, branches, a list of a hundred, a handler with a stale row | one wiki, one graph per branch; ready was ready; a delivered retry took effect | `KnowledgeSync` |
| Identity, setup and restore (`memory/tencent/client.go`, `identity_rollback.go`, `app/app.go`, `backup.go`, `restore_tencent.go`, `project/project.go`) | remote users, keys, teams, agents; global.json; .env | init, setup, restore, rollback | two commands at once, lost answers, failing rollback, kills between renames | identity of one piece; own rollback only; previous state kept | `Provisioning` |
| Pentest jobs (`pentest/`, `storage/pentest.go`, `app/pentest.go`) | pentest_jobs, pentest_findings, pentest_events, snapshots | execute, remediate, stop, fail | stop racing completion, two jobs over one finding, failing writes, kills | completed means resolved; terminal states stay; events are truthful | `PentestJobs` |
| Bundle, self update, credentials, permissions, uninstaller (`app/`, `install/`, `release/`, `permissions/`, `uninstall/`) | files on the host, global.json, credential stores, executable and backups | install, update, rotate, enable, disable, uninstall | any operation fails or is killed, Docker does not offer what an operation goes by, re-runs over what is left | recoverable binary; keys change together; what success means | `HostLifecycle` |
| Managed runtime (`managedruntime/manager.go`, `launchers.go`, `app/managed_runtime.go`) | generations, receipts, pointers, operation records, launchers | stage, activate, undo, roll back, verify | kill or failure between any two file writes, failing undo, resumption | finished generations are kept; success verifies; what is named is complete | `ManagedRuntime` |
| Catalog, downloads, CLI, doctor, recovery reports, host adapters | | | network and process I/O, parsing, read-only reports | | not modelled |

How the parts interact: `Handle` inserts the event (the ledger projects it in
the same transaction), updates the session row, loads the work state, applies
the event to its copy, mirrors the ledger's task into it, and saves it with a
merge under the checkpoint lock (or without, for high-frequency events). It then
decides what the agent is told: the gate over the ledger, the transcript, the
recalled packet or its cached copy; records a handoff and queues a capture. Some
events make the hook flush the queue within a budget of seconds; a flush also
carries out the retries that `baron setup` left for the knowledge service. The
commands `init`, `setup`, `restore`, `install`, `update`, `uninstall` share
global.json, which each reads at its start and writes whole at its end. All
processes share only the databases, files and the remote services.

`PROJECT.json` lists every part with its status, every definition with the lines
it models, and the hazards: the places in the code where such behaviour bites.

## 2. Modules and their correspondence to the code

**TaskLedger** (`projectTaskEvent` and what it calls). An event is one step,
because `insertTaskEvent` inserts and projects it in one transaction; a refused
event is rolled back and is a step that is not enabled. `tasks[t]` has the
columns the rules read: status, git_head, diff_hash, completion_verified,
completion_policy, latest_verification_event_id. Optional payload fields range
over their values, `Absent` (not in the JSON) and `Empty` (blank). The ordering
of rules is the code's: `TaskUnresolved` assigns its own status first and lets
`applyTaskFields` overwrite it; `TaskVerified` looks for its evidence in a
journal that already contains the verification event itself. An event has two
names, the key the client gives and the id of `newID` (`IdOf`), and either will
do as a reference, while the unique constraint is on the text of the reference:
one event can stand as evidence for two verifications of a task.
`LatestVerification` takes the greatest `observed_at` and any of several equal
ones. `CompletionAuthority` is the abstract promise; `TaskLedger` instantiates
it with done tasks, trees, policies and evidence as a refinement mapping.

**SyncQueue** (`Syncer.Flush` and the queue statements). A worker is one flush
of one process; each SQL statement or transaction and each provider call is one
step. Timestamps are replaced by the time since the claim (`age`), the time
until the next retry (`wait`) and what is left of the flush context (`left`),
which all move with `Tick`. A statement on an expired context fails. `snap`
holds the attempts that were read with the batch, because `retryQueueItem`
decides on those. `CallFails` covers refusal, missing handler, timeout and a
lost answer (accepted by the provider, reported as failed). `registry` is the
registry row a typed handler was built with and writes back.

**CheckpointLock** (`withCheckpointLock`, `save`). Every file-system call is a
step. The lock is a path: `RemoveStale` and `Release` remove whatever file is
there. The work state is its version number. `GrowStale` is the five minutes
that pass after an owner has died; a live owner works under the hook's context
of seconds. But `lock.go:64` compares wall-clock times, so a step of the clock,
or a machine or owner that is suspended, makes a live owner's file look stale, or
a stale one fresh: that is `Lapse`, counted by `lapses`. The properties of the
lock say what they hold under: no lapse, and not `contended`, the history of two
processes about to remove a stale file at once.

**HookRuntime** (`Runtime.Handle`), which extends `TaskLedger`: each transaction
of `Handle` is a step and a hook may stop between any two. The work state keeps
one field for each rule of `mergeWorkState`: replaced (session), kept when the
new one is blank (active task, test), sticky (completion), united and bounded
(errors). `Requests` is the set of normalized requests the clients send; a key
always carries the same request, and may be sent again at any time. `Refused`
covers every error of the event's transaction.

**ManagedRuntime** (`Manager.Apply`, `Rollback`, `Verify`, the launcher
transaction, `runFullBundle`). Each write of a file is a step (`Write`): it
succeeds, or fails before or after the rename, since `AtomicWriteFile` syncs the
directory last. `job.pc` is the place in `Apply`; `job` also holds what `Apply`
keeps in memory for undoing. A component's content is what its probe accepts;
whether a staged component is reused or staged again is open, because the cache
and the probe decide. The deferred `RemoveAll` removes entry by entry and may
stop. Operation records whose error the code ignores (`Noted`) may get lost.
`Crash` loses `job`. The program calls only `Rollback(ctx, "")`; a launcher is
the generation its file starts, under whichever name `selectLauncherPath` chose,
and `Foreign` are the names for which that is the alias.

**PentestJobs** (`Orchestrator.Execute`, `remediate` and the statements they
make). A job is a process; each write of a table is a step (`Write`) that may
fail, after which the job goes through `fail`, whose own two writes are
attempted whatever happens. `Stop` is another process that writes the row. A
finding's row is keyed by its id alone, as in the schema, so two jobs share it.
`NormalizeFindings` gives the ids as the code does (position for a missing name,
name and position for a repeated one); `StrongOverlap` compares paths by prefix.
Scanner, agent and Git are outcomes; the tree is the number of edits made to it.
Of the nine dispositions that leave a finding unresolved the model keeps one,
since what becomes of the job is the same.

**KnowledgeSync** (`ProvisionProject`, `QueueHandler.Handle`). `setup.row` is the
copy of the registry row the setup works on, `flush.row` the one the handler was
built with; either writes its copy back whole. The wiki half is followed by the
code graph half unless the repository has no remote. A remote call takes effect
or not, and is answered or not (`Call`). `queue` has one row per retry, because
the idempotency keys are constant. Claims and leases of that queue are in
`SyncQueue`. Setup finds the recorded asset whatever its branch, or else the one
match among the first hundred listed, where a graph matches if it has no branch
or the branch checked out (`Matches`); it creates a graph on that branch, or on
the default one when git told none. `blind` counts the occasions on which setup
could not see what there was: git gave no branch, or the list left out a match.

**Provisioning** (`TencentInit`, `SetupProject`, `RestoreArchiveWithOptions`,
`EnsureIdentityWithExistingUserKey`). Each remote call is a step that succeeds,
fails, or succeeds and loses its answer. An entity carries its maker, so that
one sees who deletes what. `run[p].state` is the global.json a command read when
it began. A restore's two renames are two steps; the directory it moves aside
takes the deployment below it along. A write that fails may have made the
directory, or struck after the rename (`Unsure`). What an archive does not name
(a team, a user, an agent) is not compared with what is found (`Agrees`). Each command is a process of its own, named
once: what it makes carries its name, as the provider never gives an id twice.
`MaxRunning` bounds how many run at once.

**HostLifecycle** (`runFullBundle`, `InstallLatest`, `UpdateBinary`,
`RotateDeepSeek`, `SetCredential`, `permissions.Enable`/`Disable`,
`uninstall.Execute`). One command at a time; every write, rename and removal is
a step that may fail, and the command may be killed between any two. `parts` says
what of Baron's is on the host, `listed` what global.json names, `resolved`
whether Tencent's manifest has the image digests of its containers. `cmd.todo` is
the rest of a command's fixed order of steps. A rotation stages, commits and
undoes store by store; a failure after the rename is a case of its own, since
`AtomicWriteFile` syncs the directory last. `Resolves` takes the key of the
environment, if there is one, then DSH's, then Tencent's, then any the user types
in. `removeTencent` goes by what Docker offers (`Docker`, `Reaches`): it takes the
containers down with a compose file, or removes one whose digests are in the
manifest and whose labels fit; all others it leaves, without a warning. A stack
is often deployed without a digest to record, so `WriteManifest` leaves
`resolved` open.

**ResumeRecall** (`Handle` after the event is recorded). A hook's record `had`,
`knew` and `open` are history: what was at the provider and in the ledger when it
asked. Layers answer in any order, or not. The cache key is session, fingerprint
and query, where the fingerprint covers the tree, the scope and the tasks read,
and the query the state only when there is no prompt. The packet is made of the
sources the project is set up with (`setup`, as the process found it at its
start): the three layers if there is a memory binding, wiki and code graph as
the registry names them. A layer finds what the text of the query matches
(`match`, open) and, in the atomic layer, what is of the query's kinds
(`Finds`); it answers with all of it, with `Page` of it, or with something that
`decodeRecords` cannot read, which is no record and no error. `short` are the
sources that left something out without an error. A query without a text asks
neither wiki nor graph but at the start of a session. When `ListTasks` fails,
`Decide` goes for remote recovery with no task.

**StoredTime**: `Format(time.RFC3339Nano)` and SQLite's text comparison, with
`Base` and `Places` instead of ten digits and nine places. `Power` is the
recursive function of the powers of the base, so that a second has as many ticks
as the fraction has values.

## 3. Runs

All runs finish within three minutes with two workers.

| Run | Config | Checks |
|---|---|---|
| task_ledger | MCTaskLedger.cfg | EarnedCompletion, EvidenceInJournal, ImplementsAuthority |
| sync_queue | MCSyncQueue.cfg | ExclusiveClaim, DeliveredHasReceipt, AttemptsBounded, NoTakeover |
| sync_queue_live | MCSyncQueueLive.cfg | ClaimReleased |
| checkpoint_lock | MCCheckpointLock.cfg | MutualExclusion, CheckpointMonotone, AbandonedLockReclaimed |
| hooks | MCHookRuntime.cfg | WorkStateGrounded, RemoteAfterLocal, ErrorsReflected, ErrorsKept |
| resume_recall | MCResumeRecall.cfg | OverlapAnnounced, CacheWhole, TranscriptOnce |
| stored_time | MCStoredTime.cfg | SkewBelowOneSecond |
| knowledge | MCKnowledgeSync.cfg | NoDuplicates, ReadyWasReady, DeliveredTookEffect |
| provisioning | MCProvisioning.cfg | IdentityConsistent, FailedLeavesNothing, RestoredSameAccount, OwnRollback, PreviousKept |
| pentest_jobs | MCPentestJobs.cfg | CompletedResolved, RetestedHasChain, CompletedEventTruthful, FindingsKept, TerminalKept |
| host_lifecycle | MCHostLifecycle.cfg | BinaryRecoverable, RotationAtomic, BundleComplete, UninstallComplete, OnlyVerifiedUpgrades |
| managed_runtime | MCManagedRuntime.cfg | FinishedKept, SuccessVerifies, NamedComplete |

All hold. Some say less than their names, because the code does:
`MutualExclusion` and `CheckpointMonotone` hold until an age is misread or an
abandoned file is contended for; `EvidenceInJournal` allows one event two
verifications of a task, one by each name; `NoDuplicates` is per branch and for
setups that could see; `UninstallComplete` separates what is at fixed places,
which every successful uninstall has removed, from what only global.json names,
which one of a complete installation has, save for containers out of reach;
`CacheWhole` excepts the layers whose answer was short without an error.

Every property has a mutant in `PROJECT.json`: the change of one
definition, of the kind a bug in that code would be, that violates it.

### Counterexamples, not part of the regular runs

These configs reproduce disagreements between the code and what its documents,
comments or names promise; run them with `tlc -config <cfg> <module>`. A config
that stands in several rows names its properties one at a time: the others are
in it as comments.

| Config (module) | Property | Behaviour |
|---|---|---|
| MCHookRuntimeMirror.cfg (MCHookRuntime) | MirrorsLedger | complete t1, start t2: the merge's sticky completion (continuity.go:179) marks t2 completed and verified in the work state, while the ledger says in_progress; the ledger design document says at line 209 that completion is accepted only with a verification |
| MCSyncQueueSlow.cfg (MCSyncQueue) | EventuallySettled | the outcome of a call that used up the flush context is marked with that same context (sync.go:198): the mark fails, the attempt is not counted, and the row is sent again for ever; storage.go:970 says that "a poison payload cannot create an unbounded retry loop" |
| MCCheckpointLockStale.cfg (CheckpointLock) | CheckpointSerialized | two waiters see one stale lock, of a killed owner; the second removes the lock the first has just created, and both save; or a misread age makes a waiter remove a live owner's lock (lock.go:64-65, against the promise at lock.go:17) |
| MCManagedRuntimeCrash.cfg (ManagedRuntime) | ActiveComplete | an update killed after writing current.json is still recorded as staging; the next one resumes, resets or removes the active generation (manager.go:647; the design document says at line 849 "never a partial mix") |
| MCManagedRuntimeRecord.cfg (ManagedRuntime) | ActiveComplete | without any kill: recording the operation complete fails, and the deferred cleanup removes the generation that is active by then |
| MCManagedRuntimeRollback.cfg (ManagedRuntime) | OldRuntimeUsable | a failed bootstrap rolls the pointers back, but the launchers and global.json stay with the new generation and Verify refuses both |
| MCManagedRuntimeCollision.cfg (ManagedRuntime) | SuccessVerifies | with a foreign file under a launcher's name the launcher gets its baron- alias, which verifyGenerationLaunchers rejects |
| MCHostLifecycleDocs.cfg (MCHostLifecycle) | UninstallRepeatable | an uninstall that fails after global.json is removed is repeated and reports success, while the parts global.json named are still there ("The command is idempotent", uninstall design document line 47) |
| MCHostLifecycleDocs.cfg (MCHostLifecycle) | ContainersRemoved | no failure at all: the manifest lists the containers as unresolved and there is no compose file, so they are kept, and the uninstall reports success (uninstall.go:433-436; "The default removes [...] Tencent containers/deployment", lines 40 to 42 of the same document) |
| MCHostLifecycleDocs.cfg (MCHostLifecycle) | DeploymentOwned | a bundle stops between starting the services and writing the deployment manifest; the next one finds the services healthy and reports success without it, and the uninstaller then leaves the containers alone |
| MCProvisioningFresh.cfg (MCProvisioning) | RestoreSucceeds | a restore on a machine without Baron makes its own checkout below the directory it then refuses to replace |
| MCKnowledgeSyncDocs.cfg (MCKnowledgeSync) | PendingIsPolled | a readiness retry that was delivered once is not enqueued again by a later setup, although it says that "baron repair will poll it again" |
| MCKnowledgeSyncDocs.cfg (MCKnowledgeSync) | ReadyIsOfTheRow | `Handle` polls the id of the payload and marks the half of the row ready, whichever asset the row names (queue.go:69-80): after a setup on another branch the row names a graph that never was ready (the implementation roadmap, line 870, has it poll readiness and report the state) |
| MCKnowledgeSyncDocs.cfg (MCKnowledgeSync) | GraphOfBranch | a second setup on another branch reuses the recorded graph of the first branch (provision.go:274-278; the roadmap's line 868 says "by project ID/repository/branch") |
| MCResumeRecallCurrent.cfg (MCResumeRecall) | RecallCurrent | the cache has no time to live: a record captured since, which the query matches, is not in the answer as long as tree, tasks and query stay |
| MCResumeLineCurrent.cfg (MCResumeRecall) | LineCurrent | with a prompt the key does not cover the work state, so a cached packet carries an older task line |
| MCTaskLedgerFailed.cfg (MCTaskLedger) | CompletedHasEvidence | task_failed with `"status": "completed"` in its payload stores a completed task without evidence (completion_verified stays false); the ledger design document says at line 201 that these events preserve the task as unresolved |
| MCTaskLedgerRestarted.cfg (MCTaskLedger) | VerifiedIsCurrent | task_started again with another head, diff or policy keeps completion_verified (the promotion re-checks the tree) |
| MCSyncQueue.cfg with `MaxJumps = 1` (MCSyncQueue) | ExclusiveClaim | a forward step of the wall clock makes a live claim look stale; the row is sent twice at once |
| MCSyncQueueFreshness.cfg (MCSyncQueue) | FreshnessMonotone | a typed operation writes back its registry snapshot and with it an older last_memory_sync_at |
| MCHookRuntimeAbort.cfg (MCHookRuntime) | ErrorsRecovered | a hook stops between the event's transaction and the work state's; the retry is acknowledged as a duplicate and the work state never learns of the event |
| MCHookRuntimeStale.cfg (MCHookRuntime) | TestNotReverted | a hook that loaded early and saves late puts the older latest test back |
| MCHookRuntimeClose.cfg (MCHookRuntime) | TrailingFinalKeepsClose | a final answer whose hook loaded before the close was saved reopens the session |

Observations without a property: a `task_verified` event may name itself as its
evidence (`verificationEvidenceExists` runs after the insert); `ClaimQueue` does
not look at next_retry_at again; no runner makes a `StrixExitError`, so the
scanner's exit status 2 ends a job as failed although `ClassifyStrixExit` means
it to be findings; output that is no report counts as a scan without findings; a
killed job stays `running`; a user prompt of a session without a start gets the
transcript every time, not once (the comment in `localConversationContext` says
"one fallback delivery"); of two concurrent first checkpoints neither may get it.

### Bounds and why they are enough

* `MCTaskLedger`: tasks do not influence one another (only `active` is shared),
  so one task; two heads to move away and back; three kinds, one per answer of
  `Allows`; four events, the length of start, verify, complete, move. Keys are used
  in order (`EventsInOrder`), and the heads are symmetric. Of the events' names
  (`MCIdOf`) two have a key that defaults to the id, and one key is the text of
  another event's id. The proofs cover every size.
* `MCSyncQueue`: two workers make every race between claims, leases and marks;
  one memory row and one typed row make both paths; a batch of one (`Limit`)
  leaves the second row to the other worker or the next flush; two attempts make
  a retry and a dead letter; `Lease` 2 and `Budget` 1 keep the order of the code's
  60 s and 5 s. One killed worker. Workers are symmetric.
* `sync_queue_live` uses one worker, which starts again and again, so that
  liveness needs no symmetry, and a corrupt row and a clock step.
* `CheckpointLock`: three processes, because the stale-lock race takes a killed
  owner and two waiters; four versions let each save and one be overtaken; two
  kills make a lock abandoned twice; one lapse.
* `MCHookRuntime`: two hooks, three events, every event type of `Handle` that
  has a rule of its own, among them task, test and error events (`AllRequests`
  leaves out those that take the path of another); two errors fill the list; one
  hook stops half-way.
* `ManagedRuntime`: two plans and two generations give an old and a new runtime
  and a resumption of either plan; two components and two launchers give a
  half-staged generation and a half-applied transaction; one failed write (of
  any file, before or after its rename) and one kill. The proofs cover every
  size and number.
* `StoredTime`: base 3 and two places give fractions with no, one and two
  digits; the range covers several seconds on both sides of the cutoff.
* `MCPentestJobs`: two jobs, one that remediates and one that does not, share
  one finding id; reports are empty, with an id given twice, and with an unnamed
  finding; one edit, one job whose store fails, one kill.
* `MCKnowledgeSync`: two setups (the second over what the first left), a flush
  over all seven retries, a provider that names branches, and at most one
  complication (`OneComplication`): the other of two branches checked out, a
  code graph of another project over the same remote, an asset setup cannot see
  (`MaxBlind`), or a kill. The three properties also hold with `NamesBranch`
  FALSE. The proofs cover any number of assets, branches, setups and kills, all
  at once.
* `MCProvisioning`: three commands, two at once: one initialises, one
  initialises, restores or replaces, one sets up; machines never set up and set
  up, with the provider's data there or lost; one kill, any number of failures.
  The proofs cover any number of commands, side by side or one after another.
* `MCHostLifecycle`: two commands on hosts without and with (`Owned`) parts of
  an earlier Baron, which stand for the command before them; two failures and
  two kills make a failing undo and a killed repair; four releases, see the
  module, and one of them withdrawn or replaced (`MaxRevoked`); two keys.
* `MCResumeRecall`: two hooks of one session and one change under them. One half
  of the instance (`Apart`) is about the gate: two tasks and a request each with
  no, weak and strong scope, without a provider. The other is about recall: a
  prompt with a symbol, a hook without a text and a session's start; projects
  with a memory binding, with and without a wiki; one record of this project,
  one of no project, which counts as this one's, and one of another, which may
  take its place, for `Page` is 1. `Limit` 2 shows both tasks; the code's 100
  hides the 101st.

Deadlock is checked where the system never stops by itself: in the runs of the
ledger, the queue, the hooks, the jobs and the stored times. The others stop when
the bound on versions, commands, setups or hooks is reached.

### Fairness

* `CheckpointLock!Fairness`: a process that is not killed takes its next step,
  and time passes. Giving up, saving and crashing carry no fairness.
* `SyncQueue!Fairness`: time passes, hooks keep coming (each may flush), a
  running flush keeps running, and the first two local statements are not too
  slow for their budget every single time (strong fairness; they take
  milliseconds of at least half a second). The provider may be slow for ever.
* `DatabaseFairness`, for MCSyncQueueSlow.cfg only, adds that every local statement
  that is possible again and again succeeds sometimes, so that the
  counterexample blames nothing but the provider's slowness.

## 4. Proofs

TLAPS checks these for every value of the constants that satisfies the named
assumptions (`LedgerConstants`, `QueueConstants`, `LockConstants`, `HookConstants`,
`RuntimeConstants`, `RecallConstants`, `PentestConstants`,
`ProvisioningConstants`, `KnowledgeConstants`, `HostConstants`, `TimeConstants`,
`NameConstants`, `NoneIsNothing`). They say what the code's types, schema and constants
say: no row is named `None`, no two events have one id (`newID` draws at random), the flush budget is at most the lease, the pool of
workers is not empty, the error list has room for one, at most one code graph of
another project shares the remote at first (with two `ensureCodeGraph` gives up,
and this setup makes none). What a
theorem assumes beyond them is in its row: no wall-clock jumps (`MaxJumps = 0`),
no foreign file under a launcher's name, no more tasks than `ListTasks` looks
at, no scanner id that looks like a derived one (`PlainIds`). Each of these can
fail in the field, and what the code does then is in section 3 or under the
hazards. Other theorems' properties state what they hold under themselves: no
lapse and no contention (`MutualExclusion`, `CheckpointMonotone`), no blind spot
(`NoDuplicates`).

| Theorem | Says | Argument |
|---|---|---|
| ContinuityProofs!TypeCorrect | `Spec => []TypeOK` | inductive as it stands; one step per event type |
| ContinuityProofs!EarnedCompletionHolds | `Spec => []EarnedCompletion` | with TypeOK. Lemma `OneRowStep`: a step that changes one row and only adds verifications keeps every other task's support, so each action owes an argument for its own task only |
| ContinuityProofs!EvidenceInJournalHolds | `Spec => []EvidenceInJournal` | inductive given TypeOK; a reference is fresh by its text and an event has two, so of three verifications of a task that name one event two have the same reference (`NameConstants`); lemma `NoNewEvidence` for the events that add no verification |
| ContinuityProofs!LedgerImplementsAuthority | `Spec => ImplementsAuthority` (the refinement of CompletionAuthority) | with TypeOK. Lemmas for the row each event leaves (`StartedRow` to `CompletedRow`), `MappedRow` for what that means under the refinement mapping; task_started and the unresolved events are Rework, task_updated is Rework or a stutter, task_verified is Collect, task_completed is Promote |
| SyncQueueProofs!QueueTypeCorrect | `Spec => []TypeOK` | inductive as it stands |
| SyncQueueProofs!ExclusiveClaimHolds | no wall-clock jumps: `Spec => []ExclusiveClaim` | needs `LiveClaim`: a live holder's row is sending and its age plus the context left is within Budget <= Lease, so the row is neither claimable nor recoverable |
| SyncQueueProofs!DeliveredHasReceiptHolds | no wall-clock jumps: `Spec => []DeliveredHasReceipt` | from the same invariant: only a live holder marks, hence never a row that another has delivered |
| SyncQueueProofs!NoTakeoverHolds | no wall-clock jumps: `Spec => NoTakeover` | from the same invariant before and after the step, and `HoldingStep`: receipts stay, and a flush that holds a row goes on with that row or none |
| SyncQueueProofs!AttemptsBoundedHolds | no wall-clock jumps: `Spec => []AttemptsBounded` | `AttemptsInvariant`: the attempts of a row that is not given up, plus its retriers (the flushes that have read it with attempts to spare and have yet to decide), stay within the bound: every further retry uses up one of its retriers |
| ContinuityProofs!MutualExclusionHolds | `LockSpec => []MutualExclusion` | `LockInvariant`: without a lapse, until a stale file is contended for, a process between lock and release owns the file and it is fresh, a stale file has no live owner, and who is about to remove it is alone and finds it stale (`LockHeld`); and without a kill no file grows stale, so it takes one to contend (`LockAlive`) |
| ContinuityProofs!CheckpointMonotoneHolds | `LockSpec => CheckpointMonotone` | from the same invariant: the checkpoint and the version in hand are at most db, and the writer's version is at least the checkpoint |
| ManagedRuntimeProofs!RuntimeTypeCorrect | `Spec => []TypeOK` | from `GenerationInvariant`, below |
| ManagedRuntimeProofs!FinishedKeptHolds | `Spec => []FinishedKept` | `GenerationInvariant`: plans own their generations (no two records name one), a record that can be resumed names one that was never finished, the update under way works on its own plan's generation, and what is staged so far is in its directory. Hence no step changes a finished generation, and only a complete one is ever recorded finished |
| ManagedRuntimeProofs!SuccessVerifiesHolds | no foreign files: `Spec => []SuccessVerifies` | `ActivationInvariant`, on top of the former: receipts up to the component in hand, launchers up to the one in hand, current.json, global.json, step by step; a step that fails leaves the road (`AsideKeeps`) |
| ManagedRuntimeProofs!NamedCompleteHolds | `Spec => []NamedComplete` | `NamedInvariant`: what is named is a finished generation, but for the one the update is switching to, and what the update remembers to put back was finished, too |
| PentestJobsProofs!CompletedEventTruthfulHolds | `Spec => []CompletedEventTruthful` | `JobsInvariant`: what is known of the row at each step of the job's process (`JobFits`): the evidence is there from "complete" on, the status fits at the steps before the event, the event is there only at the end, and a failure is journalled only by a process that returns and had not completed. Needed because the property says nothing of the steps that lead to the event. Steps that say nothing of the end are one lemma (`OnTheWayKeeps`); `OneJobKeeps` leaves each of the others its own job only |
| PentestJobsProofs!TerminalKeptHolds | `Spec => TerminalKept` | the same invariant (a job that has not begun has no row) and, for every write of a status, `AllowedKeeps` |
| PentestJobsProofs!PentestTypeCorrect | `Spec => []TypeOK` | from `ShapeInvariant`: the finding in hand is one of the scan's |
| PentestJobsProofs!CompletedResolvedHolds | `Spec => []CompletedResolved` | `FindingsInvariant`: of the findings named so far, each is retested, still to come, taken by another job, or counted against the job |
| PentestJobsProofs!RetestedHasChainHolds | `Spec => []RetestedHasChain` | the same invariant: the journal grows with the steps of the finding in hand |
| PentestJobsProofs!FindingsKeptHolds | `PlainIds`: `Spec => []FindingsKept` | the names of a report are distinct (lemma `NormalizeNames`) |
| ContinuityProofs!WorkStateGroundedHolds | `HookSpec => []WorkStateGrounded` | `HookInvariant`: a hook past the insertion has its event in the journal, and the copy it carries is accounted for, field by field, by the journal and the ledger, which only grow; hence so is what it saves or merges |
| ContinuityProofs!RemoteAfterLocalHolds | `HookSpec => []RemoteAfterLocal` | the same invariant: a hook that has saved has its error in the row, or the row's list is full, and no later save takes it away |
| ContinuityProofs!ErrorsKeptHolds | `HookSpec => ErrorsKept` | lemma `MergeErrors`: merging into a list without repetitions keeps it as a prefix. The row has none: the first save, which merges nothing, brings one error at most |
| ContinuityProofs!ErrorsReflectedHolds | `HookSpec => []ErrorsReflected` | `ErrorsOnTheirWay`, on top of the invariant: unless a hook stops, the one that inserted the error carries it to its save |
| ResumeRecallProofs!TranscriptOnceHolds | `Spec => []TranscriptOnce` | `TranscriptInvariant`: while a session has one checkpoint event, at most one hook of it has yet to count, and none once the transcript was given; the event commits before the count, so with a second event nobody is first |
| ResumeRecallProofs!CacheWholeHolds | `Spec => []CacheWhole` | `CacheInvariant`: every record a layer found when the hook asked is in its packet, or the layer has yet to answer, or left something out (`short`), or the hook has noted an error (`Packet`); what a layer finds it still finds when it answers, since records only come (`Found`); only a packet without an error is stored |
| ResumeRecallProofs!OverlapAnnouncedHolds | at most `Limit` tasks: `Spec => []OverlapAnnounced` | `GateInvariant`: a hook's `open` are the tasks that were unresolved at every moment since its request, so that the gate's one read of the ledger sees them, whenever it falls |
| ProvisioningProofs!IdentityConsistentHolds | `Spec => []IdentityConsistent` | `ProvisioningInvariant`: an entity is at the provider only if its maker made it and had come that far (`Maker`), a command's state from verification on is of one piece, and so is every state on disk, also one moved aside |
| ProvisioningProofs!FailedLeavesNothingHolds | `Spec => []FailedLeavesNothing` | the same invariant: what a command made and has not given up is in its receipt until it commits |
| ProvisioningProofs!RestoredSameAccountHolds | `Spec => []RestoredSameAccount` | the same invariant: a restore works on its archive's account from the moment it is found to fit |
| ProvisioningProofs!OwnRollbackHolds | `Spec => OwnRollback` | the same invariant: a receipt holds only what its command made |
| ProvisioningProofs!PreviousKeptHolds | `Spec => PreviousKept` | the same invariant, step by step for a restore |
| KnowledgeSyncProofs!NoDuplicatesHolds | `Spec => []NoDuplicates` | `KnowledgeInvariant`: without a blind spot no two assets of a kind are alike, by branch, setup knows its branch, and one about to create has found no match, while nobody else creates (`SightOk`); every id a row, a payload or a copy of a row holds is that of an asset the provider has |
| KnowledgeSyncProofs!ReadyWasReadyHolds | `Spec => []ReadyWasReady` | the same invariant, which says of every copy of the row, setup's and the handler's, that a half that says ready stands for an asset of its kind that was (`HalfReady`): the handler may have polled the payload's asset and mark its row's, which are one if the project has one. It needs no hypothesis on what setup could see |
| KnowledgeSyncProofs!DeliveredTookEffectHolds | `Spec => []DeliveredTookEffect` | the same invariant: between the call and the mark the effect stands, for the provider forgets nothing (`Grows`) |
| HostLifecycleProofs!BinaryRecoverableHolds | `Spec => []BinaryRecoverable` | `HostInvariant`: from the backup to the validation a validated executable is among the backups, the one in place or an older one, so that a kill at any step leaves it there (`UpdateOk`); the uninstaller removes the backups after the executable |
| HostLifecycleProofs!OnlyVerifiedUpgradesHolds | `Spec => OnlyVerifiedUpgrades` | the same invariant: what was asked of the release at each step, and that the executable it was compared with is still in place; lemma `BinaryChanges` for the steps that touch it at all |
| HostLifecycleProofs!UninstallCompleteHolds | `Spec => []UninstallComplete` | the same invariant: the rest of the removal is the chosen steps among the last n of `Order`, and every chosen step before them is done, or is one whose failure warns (`DoneBefore`); nothing is taken back (`StaysDone`). For a complete installation Tencent's deployment stays whole until its own step, so that only what Docker does not offer can leave containers; the steps for fixed places are among the chosen ones whatever global.json says. Lemma `LeftBegins` says how the rest of a filtered plan begins, for any plan |
| HostLifecycleProofs!RotationAtomicHolds | `Spec => []RotationAtomic` | `KeyInvariant`, whose `SwitchFits` says at each step of a rotation what is staged, committed and undone so far: the targets done and those left make up the stores that are known (`Wanted`), what is staged is the key for exactly the targets staged, a store not committed is as it was found, and during the undoing so is every store not among those left to undo, unless something was torn. Lemma `TargetsAre` says which stores a rotation goes to |
| HostLifecycleProofs!BundleCompleteHolds | `Spec => []BundleComplete` | the same invariant's `BundleFits`: what is left is the plan from its i-th step on (`AtStep`), and every step before it has made its part, its names in global.json or the key (`Reached`); the rotation in the middle keeps the first steps and the rest of the plan; nothing is unmade on the way (`Grows`, lemma `MadeStays`), and a deployment that is not redone skips three steps whose parts are there. Lemma `BundleIs` says what the plan is, with and without a project |
| ContinuityProofs!SkewBelowOneSecondHolds | `TimeSpec => []SkewBelowOneSecond` | only the character in front of the fraction, the whole seconds, can be relied on: it is the first of every text (lemmas `KeptDigits`, `TextBegins`), so texts are in the order of their seconds where these differ (`TextOrder`), and times whose seconds are in order are so but for less than a second (`WholeSeconds`). No strengthening is needed beyond the clocks being integers |

ContinuityProofs holds the theorems of TaskLedger, CheckpointLock and StoredTime,
too; they use nothing of the hooks.

Only model-checked: the liveness properties ClaimReleased and
AbandonedLockReclaimed, since liveness under fairness is out of the prover's
reach. Every invariant and every action property of the runs has a theorem. The
recursive definitions of `Remaining`, `NormalizeFindings`, `mergeErrors` and
`Power` are reasoned about with the least number
for which a claim fails (lemma `LeastNumber`), which takes no induction rule.

## 5. Plan

Done: every module above and the proofs of section 4. Left, in this order:

1. The composition of `HookRuntime` with `CheckpointLock` and `SyncQueue`; two
   updates, and two setups, at once.
2. The catalog's resolution of versions as an operator against a reference
   definition.

## 6. Not modelled

Texts, redaction, prompts and their rendering; HTTP and its decoding (outcomes
are inputs); JSON and command-line parsing beyond the optional fields of task
events; read-only reports (doctor, recovery, the status and compatibility
commands); schema migration; archive reading with its limits and path checks;
the catalog, download cache and layout of components; host detection and package
managers. A ledger lookup that fails with an I/O error during the mirror step is
left out of HookRuntime. Copying state.db, -wal and -shm one after another while
hooks write (`BackupProject`) is left out: what SQLite makes of such a copy is
outside the code.
