------------------------------ MODULE ResumeRecall ------------------------------
(* What a hook tells the agent about earlier work (Runtime.Handle of           *)
(* internal/hooks/hooks.go, after its event is recorded): the resume gate over *)
(* the task ledger (internal/continuity/resume_gate.go), the recovered         *)
(* transcript, and the packet recalled from the memory provider, which is      *)
(* looked up layer by layer (internal/continuity/context.go) and cached        *)
(* (internal/storage/remote_recall.go).                                        *)
(*                                                                             *)
(* Every hook is a process of its own.  The ledger, the working tree and the   *)
(* records at the provider change under them; what the hooks themselves write  *)
(* to the ledger and the checkpoint is in TaskLedger and HookRuntime.          *)
EXTENDS Integers, FiniteSets

CONSTANTS
    Hooks,      \* hook processes
    Sessions,
    Tasks,
    FilesOf,    \* the files of each task's evidence
    Weak,       \* the files that are weak evidence (lock files, generated ones)
    Requests,   \* the requests hooks may get, see Request
    Prompts,
    Records,    \* what may be at the provider: layer, project, kind and content
    Own,        \* this project
    Matches,    \* what a query may match: sets of records
    Page,       \* recallQuery's limit: the records a layer answers with
    Setups,     \* the sources a project may be set up with
    None,
    Limit,      \* ListTasks: the tasks a hook looks at
    MaxHooks,   \* bound on hooks run
    MaxChanges  \* bound on changes to the ledger, the tree and the provider

Layers == {"atomic", "core", "conversation"}
Sources == {"memory", "wiki", "codegraph"}
Events == {"session_started", "user_prompt", "checkpoint_updated"}

(* The scope is what the payload says of the task: its id and files            *)
(* (resumeTaskScope); historical asks for recall, symbol names a symbol.       *)
Request ==
    [session : Sessions, event : Events, prompt : Prompts \cup {None}, historical : BOOLEAN,
     symbol : BOOLEAN,
     scope : [task : Tasks \cup {None}, files : SUBSET (Weak \cup UNION {FilesOf[t] : t \in Tasks})]]

(* What the resume gate answers. *)
Sufficient == {"local_sufficient", "unrelated_work_allowed", "insufficient_structured_task_scope"}
Outcomes == Sufficient \cup {"overlap_requires_resume", "remote_recovery_required"}

ASSUME RecallConstants ==
    /\ \A r \in Records : r.layer \in Layers
    /\ Requests \subseteq Request
    /\ Setups \subseteq SUBSET Sources
    /\ Limit \in Nat \ {0} /\ MaxHooks \in Nat /\ MaxChanges \in Nat
    /\ None \notin Tasks \cup Outcomes

VARIABLES
    tasks,    \* the ledger: status and the time of the last change
    tree,     \* the working tree, as a version
    saved,    \* the checkpoint: the tree it was taken of and the time of its task line
    remote,   \* the records at the provider
    setup,    \* what the project is set up with: a memory binding, a wiki, a code graph
    events,   \* the events recorded of each session
    cache,    \* remote_recall_cache
    told,     \* transcripts given to each session by its checkpoints
    hook,
    hooks, changes

vars == <<tasks, tree, saved, remote, setup, events, cache, told, hook, hooks, changes>>
project == <<tasks, tree, remote, setup>>
bounds == <<hooks, changes>>

NoCheckpoint == [there |-> FALSE, tree |-> None, line |-> 0]

Idle == [pc |-> "idle", request |-> None, state |-> NoCheckpoint, read |-> FALSE, open |-> {}, ledger |-> {},
         outcome |-> None, print |-> None, sources |-> {}, match |-> {}, pending |-> {},
         records |-> {}, heard |-> {}, short |-> {}, error |-> FALSE, line |-> 0, had |-> {}, knew |-> {}]

Init ==
    /\ \E status \in {"none", "open"} : tasks = [t \in Tasks |-> [status |-> status, at |-> 0]]
    /\ tree = 0 /\ saved = NoCheckpoint
    /\ remote \in {{}, Records} /\ setup \in Setups
    /\ events = [s \in Sessions |-> [e \in Events |-> 0]]
    /\ cache = {} /\ told = [s \in Sessions |-> 0]
    /\ hook = [h \in Hooks |-> Idle] /\ hooks = 0 /\ changes = 0

-------------------------------------------------------------------------------
(* What others do: a task is opened, worked on or closed, a file is edited, a  *)
(* record is captured, the project is set up anew.                             *)
Unresolved == {t \in Tasks : tasks[t].status = "open"}

Change == changes < MaxChanges /\ changes' = changes + 1

TaskEvent(t) ==
    /\ Change
    /\ \E status \in {"open", "closed"} :
          tasks' = [tasks EXCEPT ![t] = [status |-> status, at |-> changes + 1]]
    /\ hook' = [h \in Hooks |-> [hook[h] EXCEPT !.open = @ \ (IF tasks'[t].status = "open" THEN {} ELSE {t})]]
    /\ UNCHANGED <<tree, saved, remote, setup, events, cache, told, hooks>>

Edit ==
    /\ Change /\ tree' = changes + 1
    /\ UNCHANGED <<tasks, saved, remote, setup, events, cache, told, hook, hooks>>

(* Another session's checkpoint carries another task line. *)
Work ==
    /\ Change /\ saved.there
    /\ saved' = [saved EXCEPT !.line = changes + 1]
    /\ UNCHANGED <<tasks, tree, remote, setup, events, cache, told, hook, hooks>>

Capture(r) ==
    /\ Change /\ remote' = remote \cup {r}
    /\ UNCHANGED <<tasks, tree, saved, setup, events, cache, told, hook, hooks>>

(* Setup and provisioning rewrite the binding and the knowledge registry. *)
Provision ==
    /\ Change /\ setup' \in Setups
    /\ UNCHANGED <<tasks, tree, saved, remote, events, cache, told, hook, hooks>>

-------------------------------------------------------------------------------
At(h, pc) == hook[h].pc = pc
Set(h, record) == hook' = [hook EXCEPT ![h] = record]

(* A request, and its event, which commits before anything is read; the        *)
(* process was given its clients when it started (runHook).                    *)
Receive(h) ==
    /\ hook[h].pc \in {"idle", "done"} /\ hooks < MaxHooks
    /\ hooks' = hooks + 1
    /\ \E request \in Requests :
          /\ events' = [events EXCEPT ![request.session][request.event] = @ + 1]
          /\ Set(h, [Idle EXCEPT !.pc = "load", !.request = request, !.sources = setup,
                                 !.open = Unresolved, !.knew = remote])
    /\ UNCHANGED <<project, saved, cache, told, changes>>

(* engine.Load; the repository is inspected, but not for a prompt. *)
Load(h) ==
    /\ At(h, "load")
    /\ Set(h, [hook[h] EXCEPT !.pc = "save", !.read = saved.there,
                  !.state = [there |-> TRUE, line |-> saved.line,
                             tree |-> IF hook[h].request.event = "user_prompt" THEN saved.tree ELSE tree]])
    /\ UNCHANGED <<project, saved, events, cache, told, bounds>>

(* mergeWorkState: what the hook has wins, unless it has nothing. *)
Merged(old, new) ==
    [there |-> TRUE, tree |-> IF new.tree = None THEN old.tree ELSE new.tree,
     line |-> IF new.line = 0 THEN old.line ELSE new.line]

Save(h) ==
    /\ At(h, "save")
    /\ saved' = Merged(saved, hook[h].state)
    /\ Set(h, [hook[h] EXCEPT !.pc = "decide"])
    /\ UNCHANGED <<project, events, cache, told, bounds>>

-------------------------------------------------------------------------------
(* The resume gate.                                                            *)

(* ListTasks: the unresolved ones, the latest first *)
ListTasks ==
    LET newer(t, u) == tasks[u].at > tasks[t].at
    IN {t \in Unresolved : Cardinality({u \in Unresolved : newer(t, u)}) < Limit}

(* hasStructuredScope *)
Structured(scope) == scope.files # {}

(* addFileEvidence *)
StrongOf(files) == files \ Weak

(* taskScopeOverlap *)
Strong(t, scope) == StrongOf(FilesOf[t]) \cap StrongOf(scope.files) # {}
WeakOnly(t, scope) == ~Strong(t, scope) /\ FilesOf[t] \cap scope.files \cap Weak # {}

(* RecoveryFingerprint: the tree, the request and the tasks as they are *)
Fingerprint(rec, ts) ==
    [historical |-> rec.request.historical, scope |-> rec.request.scope, tree |-> rec.state.tree,
     tasks |-> {[task |-> t, at |-> tasks[t].at] : t \in ts}]

(* Mutated Gate: the first task with weak overlap ends the search. *)
GateStopsAtWeak(rec, ts) ==
    IF ~rec.read \/ rec.state.tree = None \/ rec.request.historical THEN "remote_recovery_required"
    ELSE IF ts = {} THEN "local_sufficient"
    ELSE IF rec.request.scope.task \in ts THEN "overlap_requires_resume"
    ELSE IF ~Structured(rec.request.scope) THEN "insufficient_structured_task_scope"
    ELSE IF \E t \in ts : WeakOnly(t, rec.request.scope) THEN "unrelated_work_allowed"
    ELSE IF \E t \in ts : Strong(t, rec.request.scope) THEN "overlap_requires_resume"
    ELSE "unrelated_work_allowed"

(* EvaluateResumeGate *)
Gate(rec, ts) ==
    IF ~rec.read \/ rec.state.tree = None \/ rec.request.historical THEN "remote_recovery_required"
    ELSE IF ts = {} THEN "local_sufficient"
    ELSE IF rec.request.scope.task \in ts THEN "overlap_requires_resume"
    ELSE IF ~Structured(rec.request.scope) THEN "insufficient_structured_task_scope"
    ELSE IF \E t \in ts : Strong(t, rec.request.scope) THEN "overlap_requires_resume"
    ELSE "unrelated_work_allowed"

(* resumeDecision; the tasks it read are what the local context shows.  When   *)
(* ListTasks fails the ledger is not readable, and there are none.             *)
Decide(h) ==
    /\ At(h, "decide")
    /\ \/ LET ts == ListTasks IN
          Set(h, [hook[h] EXCEPT !.pc = "converse", !.ledger = ts, !.outcome = Gate(hook[h], ts),
                                 !.print = Fingerprint(hook[h], ts)])
       \/ Set(h, [hook[h] EXCEPT !.pc = "converse", !.outcome = "remote_recovery_required",
                                 !.print = Fingerprint(hook[h], {})])
    /\ UNCHANGED <<project, saved, events, cache, told, bounds>>

-------------------------------------------------------------------------------
(* The transcript of the other sessions: with the start of the session, with   *)
(* its first checkpoint, or with a prompt of a session that had no start.      *)

(* Mutated Converses: the first two steps of a session. *)
ConversesTwice(s, e) ==
    CASE e = "session_started" -> TRUE
      [] e = "checkpoint_updated" -> events[s][e] <= 2
      [] e = "user_prompt" -> events[s]["session_started"] = 0

(* localConversationContext, with CountSessionEvents *)
Converses(s, e) ==
    CASE e = "session_started" -> TRUE
      [] e = "checkpoint_updated" -> events[s][e] = 1
      [] e = "user_prompt" -> events[s]["session_started"] = 0

(* There is a packet when a memory or knowledge client was given; that of an   *)
(* empty registry has no source.                                               *)
Recalls(rec) ==
    IF rec.outcome # "remote_recovery_required" THEN {FALSE}
    ELSE IF rec.sources = {} THEN BOOLEAN ELSE {TRUE}

Converse(h) ==
    /\ At(h, "converse")
    /\ LET s == hook[h].request.session e == hook[h].request.event IN
       told' = [told EXCEPT ![s] = IF e = "checkpoint_updated" /\ Converses(s, e) THEN @ + 1 ELSE @]
    /\ \E recalls \in Recalls(hook[h]) :
          Set(h, [hook[h] EXCEPT !.pc = IF recalls THEN "cache" ELSE "done"])
    /\ UNCHANGED <<project, saved, events, cache, bounds>>

-------------------------------------------------------------------------------
(* Recall.                                                                     *)

(* recallQuery: the prompt, or else the state; the kinds are for the atomic    *)
(* layer only (Search).                                                        *)
Kinds(rec) ==
    {kind \in {"session_start", "symbol_change"} :
        \/ kind = "session_start" /\ rec.request.event = "session_started"
        \/ kind = "symbol_change" /\ rec.request.symbol}

Query(rec) ==
    [prompt |-> rec.request.prompt, kinds |-> Kinds(rec), files |-> rec.state.tree,
     line |-> IF rec.request.prompt = None THEN rec.state.line ELSE 0]

(* Neither a prompt nor a goal, branch or head: a query without a text. *)
Blank(query) == query.prompt = None /\ query.files = None /\ query.line = 0

Key(rec) == [session |-> rec.request.session, print |-> rec.print, query |-> Query(rec)]

(* What a layer finds for the query, which is a text to it. *)
Finds(rec, layer) ==
    {r \in remote \cap rec.match :
        r.layer = layer /\ (layer = "atomic" /\ Kinds(rec) # {} => r.kind \in Kinds(rec))}

(* cachedRemoteContext; a packet that is not there is asked for. *)
Lookup(h) ==
    /\ At(h, "cache")
    /\ LET hits == {c \in cache : c.key = Key(hook[h])} IN
       \/ \E c \in hits : Set(h, [hook[h] EXCEPT !.pc = "done", !.records = c.records,
                                      !.heard = c.heard, !.short = c.short, !.line = c.line])
       \/ /\ hits = {}
          /\ \E match \in Matches :
                LET rec == [hook[h] EXCEPT !.match = match]
                    asked == IF "memory" \in rec.sources THEN Layers ELSE {} IN
                Set(h, [rec EXCEPT !.pc = "layers", !.pending = asked, !.line = rec.state.line,
                                   !.had = UNION {Finds(rec, layer) : layer \in asked}])
    /\ UNCHANGED <<project, saved, events, cache, told, bounds>>

(* normalizeRecords: a record without a project is taken for this one's; of    *)
(* the others only those of this project are kept (BuildContextWithKnowledge). *)
Kept(r) == r.project \in {None, Own}

(* The layers are asked at once and answer in any order: Search, ReadCore,     *)
(* SearchConversations (ReadScenario has no path to ask for).  An answer is    *)
(* what the layer finds, up to the limit; one that decodeRecords cannot read   *)
(* is no record and no error.  short are those that left something out.        *)
Answer(h, layer) ==
    /\ At(h, "layers") /\ layer \in hook[h].pending
    /\ \E given \in SUBSET Finds(hook[h], layer) :
          /\ Cardinality(given) <= Page
          /\ given \in {Finds(hook[h], layer), {}} \/ Cardinality(given) = Page
          /\ Set(h, [hook[h] EXCEPT
                !.pending = @ \ {layer}, !.records = @ \cup {r \in given : Kept(r)},
                !.short = IF given = Finds(hook[h], layer) THEN @ ELSE @ \cup {layer}])
    /\ UNCHANGED <<project, saved, events, cache, told, bounds>>

(* An error, or the 750 ms are over: the rest of the answers still count. *)
Refuse(h, layer) ==
    /\ At(h, "layers") /\ layer \in hook[h].pending
    /\ Set(h, [hook[h] EXCEPT !.pending = @ \ {layer}, !.error = TRUE])
    /\ UNCHANGED <<project, saved, events, cache, told, bounds>>

(* Retrieve: the wiki and the code graph as far as the registry names them,    *)
(* and neither for a query without a text, but for their status at the start   *)
(* of a session.  Each may fail, and each may leave something out: the graph   *)
(* when the wiki filled the list, both when the answer cannot be read.         *)
Retrieve(h) ==
    /\ At(h, "layers") /\ hook[h].pending = {}
    /\ LET named == hook[h].sources \ {"memory"}
           asked == IF Blank(Query(hook[h])) /\ "session_start" \notin Kinds(hook[h]) THEN {} ELSE named IN
       \E failed \in SUBSET asked : \E short \in SUBSET (asked \ failed) :
          Set(h, [hook[h] EXCEPT !.pc = "store", !.heard = asked \ failed, !.short = @ \cup short,
                                 !.error = @ \/ failed # {}])
    /\ UNCHANGED <<project, saved, events, cache, told, bounds>>

(* Mutated Storable: whatever came back. *)
StorableAlways(rec) == TRUE

(* Only a packet without an error is kept. *)
Storable(rec) == ~rec.error

(* PutRemoteRecallCache: one row of a key *)
Put(h) ==
    /\ At(h, "store")
    /\ LET rec == hook[h]
           row == [key |-> Key(rec), sources |-> rec.sources, records |-> rec.records,
                   heard |-> rec.heard, short |-> rec.short, line |-> rec.line, had |-> rec.had] IN
       cache' = IF Storable(rec) THEN {c \in cache : c.key # row.key} \cup {row} ELSE cache
    /\ Set(h, [hook[h] EXCEPT !.pc = "done"])
    /\ UNCHANGED <<project, saved, events, told, bounds>>

(* The host ends a hook that takes too long. *)
Kill(h) ==
    /\ hook[h].pc \notin {"idle", "done"}
    /\ Set(h, Idle)
    /\ UNCHANGED <<project, saved, events, cache, told, bounds>>

Next ==
    \/ \E t \in Tasks : TaskEvent(t)
    \/ Edit \/ Work \/ Provision \/ \E r \in Records : Capture(r)
    \/ \E h \in Hooks :
          \/ Receive(h) \/ Load(h) \/ Save(h) \/ Decide(h) \/ Converse(h) \/ Lookup(h)
          \/ \E layer \in Layers : Answer(h, layer) \/ Refuse(h, layer)
          \/ Retrieve(h) \/ Put(h) \/ Kill(h)

Spec == Init /\ [][Next]_vars

-------------------------------------------------------------------------------
(* A hook whose answer does not send the agent to earlier work has not missed  *)
(* any: no task that was unresolved from the time of its request on is the one *)
(* it names or shares a file of strong evidence with it, however the ledger    *)
(* changed meanwhile (EvaluateResumeGate).                                     *)
OverlapAnnounced ==
    \A h \in Hooks :
        hook[h].outcome \in Sufficient =>
            \A t \in hook[h].open : t # hook[h].request.scope.task /\ ~Strong(t, hook[h].request.scope)

(* What is cached is whole: of a project with a memory binding, every record   *)
(* of it that a layer found for the query when the packet was asked for is in  *)
(* it, unless that layer's answer came without an error and yet left something *)
(* out (the limit, or an answer nobody can read); and each of the wiki and the *)
(* graph the project is set up with has answered, if there was a text to ask   *)
(* for.  Layers are asked side by side, fail one by one and records arrive     *)
(* between them ("packetErr == nil && packet.RemoteError == ..." in Handle).   *)
CacheWhole ==
    \A c \in cache :
        /\ \A r \in c.had : Kept(r) => r \in c.records \/ r.layer \in c.short
        /\ ~Blank(c.key.query) => c.sources \ {"memory"} \subseteq c.heard

(* The checkpoints of a session bring the transcript at most once, also when   *)
(* several of its hooks run at once ("Only the first step receives the         *)
(* recovered transcript", hooks.go:449-451).                                   *)
TranscriptOnce == \A s \in Sessions : told[s] <= 1

(* What a hook answers includes every record that was at the provider when its *)
(* request came and that its query matches, unless a layer failed, reached its *)
(* limit or gave an answer nobody can read.  (Matches is taken to be constant: *)
(* the violation has one that matches everything.)                             *)
RecallCurrent ==
    \A h \in Hooks :
        /\ At(h, "done") /\ hook[h].outcome = "remote_recovery_required" /\ ~hook[h].error
        /\ "memory" \in hook[h].sources /\ Kinds(hook[h]) = {}
        => \A r \in hook[h].knew :
              Kept(r) => r \in hook[h].records \/ r.layer \in hook[h].short

(* The task line of a packet is that of the checkpoint the hook saved ("Current *)
(* repository/local continuity is authoritative", context.go).                 *)
LineCurrent ==
    \A h \in Hooks :
        At(h, "done") /\ hook[h].outcome = "remote_recovery_required" /\ hook[h].sources # {} =>
            hook[h].line = hook[h].state.line

================================================================================
