----------------------------- MODULE KnowledgeSync -----------------------------
(* The wiki and the code graph of one project: knowledge.ProvisionProject, run *)
(* by `baron setup`, and QueueHandler.Handle, run by every flush of the queue  *)
(* (internal/knowledge/provision.go, queue.go).  Both hold a copy of the row   *)
(* of knowledge_registry and write the whole row back.                         *)
(*                                                                             *)
(* The provider is external: a call of it succeeds, is refused, or takes       *)
(* effect and is answered by an error.  The claims and retries of the queue    *)
(* are SyncQueue's; here a row is pending, delivered or dead.                  *)
EXTENDS Integers, FiniteSets

CONSTANTS
    NoId,
    NoBranch,
    Foreign,     \* code graphs of other projects over the same remote
    Remotes,     \* whether the repository has a remote, in a run of setup
    Branches,    \* the branches a run of setup may find checked out
    DefaultBranch,
    NamesBranch, \* whether the provider names the branch of a graph it lists
    MaxBlind,    \* bound on the times setup misses an asset, see `blind'
    MaxAssets,   \* bound on the assets of each kind
    MaxSetups,   \* bound on the runs of setup
    MaxCrashes   \* bound on killed processes

ASSUME KnowledgeConstants ==
    /\ MaxAssets \in Nat /\ MaxSetups \in Nat /\ MaxCrashes \in Nat /\ MaxBlind \in Nat
    /\ Remotes \subseteq BOOLEAN /\ NamesBranch \in BOOLEAN
    /\ NoBranch \notin Branches /\ DefaultBranch \in Branches
    /\ Foreign \subseteq {0} /\ NoId \notin Int

Kinds == {"wiki", "graph"}
Ids == Foreign \cup (1..MaxAssets)

(* The retries enqueueKnowledgeRetry knows; one row of the queue for each,     *)
(* since the key is made of the operation, the project and the action.         *)
Actions == (Kinds \X {"metadata", "sync", "readiness"}) \cup {<<"wiki", "raw">>}

VARIABLES
    registry,  \* the row: the two halves and last_error
    asset,     \* the assets of the provider that match the project
    bound,     \* the fixed assets of the project's agent
    queue,     \* the row of each action
    setup,     \* the process of `baron setup`
    flush,     \* a process that flushes the queue
    blind,     \* how often setup could not see an asset there is: git did not
               \* tell its branch, or the list of 100 assets left it out
    setups, crashes

vars == <<registry, asset, bound, queue, setup, flush, blind, setups, crashes>>
provider == <<asset, bound>>

NoHalf == [id |-> NoId, status |-> "", sync |-> ""]
NoRegistry == [wiki |-> NoHalf, graph |-> NoHalf, error |-> ""]
Absent == [made |-> FALSE, branch |-> NoBranch, meta |-> FALSE, raw |-> FALSE, index |-> "none",
           ready |-> FALSE]
IdleSetup == [pc |-> "idle", kind |-> "wiki", row |-> NoRegistry, remote |-> FALSE,
              branch |-> NoBranch, late |-> FALSE]
IdleFlush == [pc |-> "idle", row |-> NoRegistry, action |-> <<"wiki", "sync">>, seen |-> {}]

(* The branch the provider gives of a graph on branch b. *)
Named(b) == IF NamesBranch THEN b ELSE NoBranch

Init ==
    /\ registry = NoRegistry
    /\ \E others \in SUBSET Foreign, b \in Branches :
          asset = [k \in Kinds |-> [i \in Ids |->
                     IF k = "graph" /\ i \in others
                     THEN [Absent EXCEPT !.made = TRUE, !.branch = Named(b)] ELSE Absent]]
    /\ bound = {}
    /\ queue = [a \in Actions |-> [status |-> "absent", id |-> NoId]]
    /\ setup = IdleSetup /\ flush = IdleFlush
    /\ blind = 0 /\ setups = 0 /\ crashes = 0

-------------------------------------------------------------------------------
Made(k) == {i \in Ids : asset[k][i].made}

(* EnqueueSync: ON CONFLICT DO NOTHING, whatever became of the row.  The       *)
(* payload holds the ids of the moment.                                        *)
Enqueue(action) ==
    queue' = [queue EXCEPT ![action] =
        IF @.status = "absent" THEN [status |-> "pending", id |-> setup.row[action[1]].id] ELSE @]

Upsert(row) == registry' = row

(* recordProvisionError: the copy is saved with the error, setup goes on       *)
(* without the knowledge service.                                              *)
RecordError(row) ==
    /\ Upsert([row EXCEPT !.error = "failed"])
    /\ setup' = [IdleSetup EXCEPT !.pc = "failed"]

(* A step that failed with its retry queued, or with none. *)
FailRetry(action) == Enqueue(action) /\ RecordError(setup.row)
FailOnly == UNCHANGED queue /\ RecordError(setup.row)

Half(k) == setup.row[k]
At(pc) == setup.pc = pc

-------------------------------------------------------------------------------
(* Whether a step sees all that is there. *)
Sees(everything) ==
    \/ everything /\ UNCHANGED blind
    \/ ~everything /\ blind < MaxBlind /\ blind' = blind + 1

(* ProvisionProject up to its first write of the row, which sets what the      *)
(* repository says and keeps the rest.  The branch is empty when git fails.    *)
SetupStart ==
    /\ setup.pc \in {"idle", "failed", "done"} /\ setups < MaxSetups
    /\ setups' = setups + 1
    /\ \E remote \in Remotes, branch \in Branches \cup {NoBranch} :
          /\ setup' = [IdleSetup EXCEPT !.pc = "ensure", !.row = registry,
                          !.remote = remote, !.branch = branch]
          /\ Sees(branch # NoBranch)
    /\ UNCHANGED <<registry, provider, queue, flush, crashes>>

(* The status the provider gives, or the default for one that has none yet. *)
StatusOf(k, i) ==
    IF asset[k][i].index # "none" THEN asset[k][i].index
    ELSE IF k = "wiki" THEN "ready" ELSE "pending"

(* The asset the setup goes on with. *)
Adopt(i) ==
    setup' = [setup EXCEPT !.pc = "metadata",
                 !.row[setup.kind] = [id |-> i, status |-> StatusOf(setup.kind, i), sync |-> "pending"]]

(* The assets that carry the project's name (or, for a graph, the remote); a   *)
(* graph of another branch is not among them.                                  *)
OfBranch(k, i, b) == k = "wiki" \/ asset[k][i].branch \in {NoBranch, b}
Matches(k, b) == {i \in Made(k) : OfBranch(k, i, b)}

(* ensureWiki, ensureCodeGraph: the recorded asset if the provider gives it,   *)
(* whatever its branch, else the one match of the first 100 it lists.          *)
Ensure ==
    /\ At("ensure")
    /\ LET known   == Half(setup.kind).id
           matches == Matches(setup.kind, setup.branch) IN
       \/ /\ known \in Made(setup.kind)
          /\ Adopt(known) /\ UNCHANGED <<registry, queue, blind>>
       \/ FailOnly /\ UNCHANGED blind
       \/ \E listed \in SUBSET matches :
             /\ Sees(listed = matches)
             /\ \/ Cardinality(listed) = 1 /\ \E i \in listed : Adopt(i)
                \/ listed = {} /\ setup' = [setup EXCEPT !.pc = "create"]
             /\ UNCHANGED <<registry, queue>>
    /\ UNCHANGED <<provider, flush, setups, crashes>>

(* Mutated CreatedBranch: the default one, whatever is checked out. *)
CreatedOnDefault == IF setup.kind = "wiki" THEN NoBranch ELSE Named(DefaultBranch)

(* CreateCodeGraph is given the branch, or the default one; a wiki has none. *)
CreatedBranch ==
    IF setup.kind = "wiki" THEN NoBranch
    ELSE Named(IF setup.branch = NoBranch THEN DefaultBranch ELSE setup.branch)

(* CreateWiki, CreateCodeGraph; the answer may be lost. *)
Create ==
    /\ At("create")
    /\ \/ FailOnly /\ UNCHANGED asset
       \/ \E i \in 1..MaxAssets :
             /\ i = Cardinality(Made(setup.kind) \ Foreign) + 1
             /\ asset' = [asset EXCEPT ![setup.kind][i].made = TRUE,
                                       ![setup.kind][i].branch = CreatedBranch]
             /\ \/ Adopt(i) /\ UNCHANGED <<registry, queue>>
                \/ FailOnly
    /\ UNCHANGED <<bound, flush, blind, setups, crashes>>

(* A call of the provider: it takes effect or does not, and is answered or not. *)
Call(effect, unchanged, done, failed) ==
    \/ effect /\ (done \/ failed)
    \/ unchanged /\ failed

(* CreateKnowledgeMetadata and EnsureKnowledgeAsset *)
Register(k, i) == asset' = [asset EXCEPT ![k][i].meta = TRUE]

(* EnsureAgentFixedAsset: what is bound already is kept. *)
BindAsset(k, i) == bound' = bound \cup {<<k, i>>}

(* The metadata and the binding to the agent, either of which may fail. *)
Metadata ==
    /\ At("metadata")
    /\ LET k == setup.kind  i == Half(k).id IN
       Call(Register(k, i) /\ (BindAsset(k, i) \/ UNCHANGED bound),
            UNCHANGED provider,
            /\ <<k, i>> \in bound'
            /\ setup' = [setup EXCEPT !.pc = IF k = "wiki" THEN "raw" ELSE "sync"]
            /\ UNCHANGED <<registry, queue>>,
            FailRetry(<<k, "metadata">>))
    /\ UNCHANGED <<flush, blind, setups, crashes>>

(* CollectSeedFilesWithSecrets: a file that cannot be read ends it. *)
CollectSeedFiles == {"files", "error"}

(* WriteWikiRaw of the seed files; files that cannot be collected end the      *)
(* setup without a retry.                                                      *)
WriteRaw ==
    /\ At("raw")
    /\ \E seed \in CollectSeedFiles :
       \/ seed = "error" /\ FailOnly /\ UNCHANGED asset
       \/ /\ seed = "files"
          /\ Call(asset' = [asset EXCEPT !["wiki"][Half("wiki").id].raw = TRUE],
                  UNCHANGED asset,
                  setup' = [setup EXCEPT !.pc = "sync"] /\ UNCHANGED <<registry, queue>>,
                  FailRetry(<<"wiki", "raw">>))
    /\ UNCHANGED <<bound, flush, blind, setups, crashes>>

(* IngestWiki, SyncCodeGraph *)
Sync ==
    /\ At("sync")
    /\ LET k == setup.kind IN
       Call(asset' = [asset EXCEPT ![k][Half(k).id].index = "indexing"],
            UNCHANGED asset,
            setup' = [setup EXCEPT !.pc = "wait"] /\ UNCHANGED <<registry, queue>>,
            FailRetry(<<k, "sync">>))
    /\ UNCHANGED <<bound, flush, blind, setups, crashes>>

(* The row is saved after each half; a repository without a remote has no      *)
(* code graph.                                                                 *)
AfterWait(row, late) ==
    IF setup.kind = "wiki" /\ setup.remote
    THEN /\ Upsert([row EXCEPT !.error = ""])
         /\ setup' = [setup EXCEPT !.pc = "ensure", !.kind = "graph",
                         !.row = [row EXCEPT !.error = ""], !.late = late]
    ELSE /\ Upsert([row EXCEPT !.error =
                IF setup.kind = "wiki" THEN "local" ELSE IF late THEN "pending" ELSE ""])
         /\ setup' = [IdleSetup EXCEPT !.pc = "done"]

(* Mutated Wait: what is not known to have failed is ready. *)
WaitOptimistic ==
    /\ At("wait")
    /\ LET k == setup.kind  index == asset[k][Half(k).id].index IN
       \/ /\ index # "failed"
          /\ AfterWait([setup.row EXCEPT ![k].status = "ready", ![k].sync = "ready"], setup.late)
          /\ UNCHANGED queue
       \/ /\ Enqueue(<<k, "readiness">>)
          /\ RecordError([setup.row EXCEPT ![k].status = "failed", ![k].sync = "failed"])
    /\ UNCHANGED <<provider, flush, blind, setups, crashes>>

(* What a poll ends with before the readiness budget does: a request may fail. *)
Answers(index) ==
    {"failed"} \cup (IF index = "ready" THEN {"ready"} ELSE {})
               \cup (IF index = "indexing" THEN {"pending"} ELSE {})

WaitWikiReady(i) == Answers(asset["wiki"][i].index)
WaitCodeGraphReady(i) == Answers(asset["graph"][i].index)

Wait ==
    /\ At("wait")
    /\ LET k == setup.kind  i == Half(k).id IN
       \E answer \in IF k = "wiki" THEN WaitWikiReady(i) ELSE WaitCodeGraphReady(i) :
          \/ /\ answer = "ready"
             /\ AfterWait([setup.row EXCEPT ![k].status = "ready", ![k].sync = "ready"], setup.late)
             /\ UNCHANGED queue
          \/ /\ answer = "pending"
             /\ Enqueue(<<k, "readiness">>)
             /\ AfterWait([setup.row EXCEPT ![k].status = "pending"], TRUE)
          \/ /\ answer = "failed"
             /\ Enqueue(<<k, "readiness">>)
             /\ RecordError([setup.row EXCEPT ![k].status = "failed", ![k].sync = "failed"])
    /\ UNCHANGED <<provider, flush, blind, setups, crashes>>

-------------------------------------------------------------------------------
(* A flush with its handler: NewQueueHandler keeps the row it was built with,  *)
(* and the due rows are read once.                                             *)
FlushStart ==
    /\ flush.pc = "idle"
    /\ \E a \in Actions : queue[a].status = "pending"
    /\ flush' = [IdleFlush EXCEPT !.pc = "pick", !.row = registry,
                    !.seen = {a \in Actions : queue[a].status = "pending"}]
    /\ UNCHANGED <<registry, provider, queue, setup, blind, setups, crashes>>

(* The id of the payload, else that of the handler's row. *)
Target(a) == IF queue[a].id # NoId THEN queue[a].id ELSE flush.row[a[1]].id

Handled(a, row) ==
    flush' = [flush EXCEPT !.pc = "save", !.action = a, !.row = [row EXCEPT !.error = ""]]

(* Mutated Retry: an error of the handler counts as delivered. *)
RetryDelivered(a) ==
    /\ queue' = [queue EXCEPT ![a].status = "delivered"]
    /\ flush' = [flush EXCEPT !.seen = @ \ {a}]

(* retryQueueItem: again later, or dead after the last attempt *)
Retry(a) ==
    /\ queue' \in {queue, [queue EXCEPT ![a].status = "dead"]}
    /\ flush' = [flush EXCEPT !.seen = @ \ {a}]

(* QueueHandler.Handle.  The retry of a raw write only ingests. *)
Handle(a) ==
    /\ flush.pc = "pick" /\ a \in flush.seen
    /\ LET k == a[1]  i == Target(a) IN
       \/ /\ i # NoId /\ a[2] \in {"raw", "sync"}
          /\ asset' = [asset EXCEPT ![k][i].index = "indexing"]
          /\ \/ Handled(a, [flush.row EXCEPT ![k].sync = "pending"]) /\ UNCHANGED queue
             \/ Retry(a)
          /\ UNCHANGED bound
       \/ /\ i # NoId /\ a[2] = "metadata"
          /\ Register(k, i)
          /\ \/ BindAsset(k, i) /\ Handled(a, flush.row) /\ UNCHANGED queue
             \/ UNCHANGED bound /\ Retry(a)
       \/ /\ i # NoId /\ a[2] = "readiness" /\ asset[k][i].index = "ready"
          /\ Handled(a, [flush.row EXCEPT ![k].status = "ready", ![k].sync = "ready"])
          /\ UNCHANGED <<queue, provider>>
       \/ Retry(a) /\ UNCHANGED provider
    /\ UNCHANGED <<registry, setup, blind, setups, crashes>>

(* The handler's row is written back whole and the row of the queue marked. *)
FlushSave ==
    \/ /\ flush.pc = "save"
       /\ Upsert(flush.row)
       /\ flush' = [flush EXCEPT !.pc = "mark"]
       /\ UNCHANGED <<queue, provider, setup, blind, setups, crashes>>
    \/ /\ flush.pc = "mark"
       /\ queue' = [queue EXCEPT ![flush.action].status = "delivered"]
       /\ flush' = [flush EXCEPT !.pc = "pick", !.seen = @ \ {flush.action}]
       /\ UNCHANGED <<registry, provider, setup, blind, setups, crashes>>

FlushEnd ==
    /\ flush.pc = "pick" /\ flush.seen = {}
    /\ flush' = IdleFlush
    /\ UNCHANGED <<registry, provider, queue, setup, blind, setups, crashes>>

-------------------------------------------------------------------------------
(* The provider indexes in its own time. *)
Index(k, i) ==
    /\ asset[k][i].index = "indexing"
    /\ asset' \in {[asset EXCEPT ![k][i].index = "ready", ![k][i].ready = TRUE],
                   [asset EXCEPT ![k][i].index = "failed"]}
    /\ UNCHANGED <<registry, bound, queue, setup, flush, blind, setups, crashes>>

(* A process is killed; a row it had claimed is pending again after the lease. *)
Crash ==
    /\ crashes < MaxCrashes /\ crashes' = crashes + 1
    /\ \/ /\ setup.pc \notin {"idle", "failed", "done"}
          /\ setup' = IdleSetup /\ UNCHANGED flush
       \/ flush.pc # "idle" /\ flush' = IdleFlush /\ UNCHANGED setup
    /\ UNCHANGED <<registry, provider, queue, blind, setups>>

Next ==
    \/ SetupStart \/ Ensure \/ Create \/ Metadata \/ WriteRaw \/ Sync \/ Wait
    \/ FlushStart \/ FlushSave \/ FlushEnd \/ Crash
    \/ \E a \in Actions : Handle(a)
    \/ \E k \in Kinds, i \in Ids : Index(k, i)

Spec == Init /\ [][Next]_vars

-------------------------------------------------------------------------------
(* Setup run again after a crash, a lost answer or a row that a flush put back *)
(* makes no second wiki, and no second graph for a branch: the one there is is *)
(* found by its name, as long as git told the branch and the list of 100 held  *)
(* it (ensureWiki, ensureCodeGraph).                                           *)
NoDuplicates ==
    blind = 0 => \A k \in Kinds, b \in Branches : Cardinality(Matches(k, b)) <= 1

(* What the registry calls ready was ready at the provider at some time,       *)
(* however stale the copy that said so (ProvisionProject, Handle): the asset   *)
(* of the row, unless the row has lost its id or the project has another asset *)
(* of the kind.                                                                *)
ReadyWasReady ==
    \A k \in Kinds : registry[k].sync = "ready" =>
        \E i \in Ids : /\ asset[k][i].ready
                       /\ registry[k].id \in {NoId, i} \/ Made(k) # {i}

(* "poll readiness, and report pending/failed/ready state" (Roadmap, P24-T05): *)
(* the asset the registry calls ready was ready.  Violated: Handle polls the   *)
(* id of the payload and marks the half of the row, whichever asset it names.  *)
ReadyIsOfTheRow ==
    \A k \in Kinds : registry[k].sync = "ready" /\ registry[k].id # NoId =>
        asset[k][registry[k].id].ready

(* "Register/reuse CodeGraph by project ID/repository/branch" (Roadmap,        *)
(* P24-T03): the graph that setup syncs is the one of the branch.  Violated:   *)
(* the recorded graph is reused whatever its branch (ensureCodeGraph).         *)
GraphOfBranch ==
    At("sync") /\ setup.kind = "graph" /\ setup.branch # NoBranch =>
        OfBranch("graph", Half("graph").id, setup.branch)

(* A retry that counts as delivered took effect: the asset has its metadata    *)
(* and is bound, or was sent to be indexed, or was seen ready (Handle, then    *)
(* MarkDelivered).                                                             *)
DeliveredTookEffect ==
    \A a \in Actions : queue[a].status = "delivered" =>
        \E i \in Ids :
            CASE a[2] = "metadata"  -> asset[a[1]][i].meta /\ <<a[1], i>> \in bound
              [] a[2] = "readiness" -> asset[a[1]][i].ready
              [] OTHER              -> asset[a[1]][i].index # "none"

(* A setup that left an asset pending has a retry that polls it or did so      *)
(* until it gave up: "Wiki ingest is still pending; baron repair will poll it  *)
(* again" (provision.go:148).                                                  *)
PendingIsPolled ==
    (setup.pc = "done" /\ flush.pc = "idle") =>
        \A k \in Kinds : registry[k].status = "pending" =>
            queue[<<k, "readiness">>].status \in {"pending", "dead"}

===============================================================================
