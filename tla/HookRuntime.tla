------------------------------ MODULE HookRuntime ------------------------------
(* Runtime.Handle of internal/hooks/hooks.go, run by several hook processes    *)
(* over one project database: the event and its ledger projection              *)
(* (TaskLedger), the session row, the work state that is loaded, changed and   *)
(* merged back (internal/continuity/continuity.go), the handoff receipt and    *)
(* the capture that is queued for the remote memory.                           *)
(*                                                                             *)
(* Each database statement or transaction is one step; a process may stop      *)
(* between any two (killed, or an error that makes Handle return).  The work   *)
(* state keeps one field of each kind the merge treats differently: the        *)
(* mirrored task, the session, the latest test and the list of errors.  The    *)
(* remaining fields follow one of these four rules.  Of the event types Handle *)
(* treats alike one is kept.  The lock file and the checkpoint that follow the *)
(* transaction in Save are module CheckpointLock's, the delivery of what is    *)
(* queued is SyncQueue's.                                                      *)
EXTENDS TaskLedger, SequencesExt

CONSTANTS
    Hooks,          \* hook processes
    Sessions,       \* session_id values
    Errors,         \* error contents (class and summary)
    Requests,       \* the requests the clients send
    ErrorLimit,     \* the bound of the error list (20)
    MaxAborts       \* bound on hooks that stop half-way

VARIABLES
    journal,        \* the events table with its content: [key, req]
    sessions,       \* the state column of each sessions row, Absent without a row
    ws,             \* the row of work_state, NoState when there is none
    hook,           \* each hook process: step, key, request, loaded state, previous session
    handoffs,       \* handoff receipts: [source, target]
    queued,         \* keys of the events whose capture was queued
    aborts

ledgerVars == <<events, known, tasks, verifs, active>>
hookVars   == <<ledgerVars, journal, sessions, ws, hook, handoffs, queued, aborts>>

TaskEvents    == {"task_started", "task_updated", "task_failed", "task_blocked",
                  "task_interrupted", "task_verified", "task_completed"}
SessionEvents == {"session_started", "session_clean_closed", "session_interrupted"}
EventTypes    == TaskEvents \cup SessionEvents \cup
                 {"user_prompt", "assistant_final", "checkpoint_updated",
                  "tool_finished", "test_finished", "error_observed"}

(* A request after normalization.  claim is the payload's completion_verified, *)
(* claimed its task_status, command whether it names a command, remote whether *)
(* it asks for a handoff, carries important test evidence or, in a checkpoint, *)
(* a prompt.                                                                   *)
Request ==
    [type : EventTypes, session : Sessions, task : Tasks \cup {Absent},
     status : StatusField, head : HeadField, diff : DiffField, policy : PolicyField,
     ref : RefField, kind : Kinds, at : Times, error : Errors \cup {Empty},
     command : BOOLEAN, claim : BOOLEAN, claimed : StatusField, remote : BOOLEAN]

SessionState == {"active", "interrupted", "clean_closed"}

WorkState ==
    [active : Tasks \cup {Empty}, status : Statuses, verified : BOOLEAN,
     session : Sessions \cup {Empty}, sstate : SessionState,
     test : Events \cup {Empty}, errors : Seq(Errors)]

ASSUME HookConstants ==
    /\ Requests \subseteq Request
    /\ ErrorLimit \in Nat \ {0} /\ MaxAborts \in Nat
    /\ Empty \notin Sessions /\ Absent \notin SessionState

NoState ==
    [active |-> Empty, status |-> "in_progress", verified |-> FALSE,
     session |-> Empty, sstate |-> "active", test |-> Empty, errors |-> <<>>]

Idle == [pc |-> "idle", key |-> Absent, req |-> Absent, state |-> NoState, prev |-> Empty]

HookInit ==
    /\ Init
    /\ journal = {}
    /\ sessions = [s \in Sessions |-> Absent]
    /\ ws = NoState
    /\ hook = [h \in Hooks |-> Idle]
    /\ handoffs = {} /\ queued = {}
    /\ aborts = 0

-------------------------------------------------------------------------------
(* appendBoundedError keeps the last entries, mergeErrors the first ones.      *)
appendBoundedError(seq, error) ==
    LET all == Append(seq, error)
    IN  IF Len(all) > ErrorLimit THEN SubSeq(all, Len(all) - ErrorLimit + 1, Len(all)) ELSE all

(* Mutated mergeErrors: the new entries first. *)
mergeErrorsNewestFirst(existing, next) ==
    LET older == SelectSeq(existing, LAMBDA error : error \notin ToSet(next))
        all   == next \o older
    IN  IF Len(all) > ErrorLimit THEN SubSeq(all, 1, ErrorLimit) ELSE all

mergeErrors(existing, next) ==
    LET all == existing \o next
        Merged[n \in 0..Len(all)] ==
            IF n = 0 THEN <<>>
            ELSE IF Len(Merged[n-1]) >= ErrorLimit \/ all[n] \in ToSet(Merged[n-1])
                 THEN Merged[n-1] ELSE Append(Merged[n-1], all[n])
    IN  Merged[Len(all)]

(* The session state the event stands for; a final answer that trails the      *)
(* clean close of its own session leaves it closed.                            *)
SessionStateOf(r, state) ==
    CASE r.type = "session_clean_closed" -> "clean_closed"
      [] r.type = "session_interrupted" -> "interrupted"
      [] /\ r.type = "assistant_final"
         /\ state.session = r.session /\ state.sstate = "clean_closed" -> "clean_closed"
      [] OTHER -> "active"

applyEvidence(state, key, r) ==
    LET verified == state.verified \/ (r.claim /\ r.type \notin TaskEvents)
    IN  [state EXCEPT
            !.verified = verified,
            !.status = IF r.claimed = Absent \/ (r.claimed = "completed" /\ ~ verified)
                       THEN @ ELSE r.claimed,
            !.test = IF r.type \in {"tool_finished", "test_finished"} \/ r.command
                     THEN key ELSE @,
            !.errors = IF r.type = "error_observed" THEN appendBoundedError(@, r.error) ELSE @]

(* Mutated mergeWorkState: the last writer wins. *)
mergeWorkStateLastWins(existing, next) == next

(* mergeWorkState(existing, next) *)
mergeWorkState(existing, next) ==
    [next EXCEPT
        !.active = IF @ = Empty THEN existing.active ELSE @,
        !.status = IF @ = "in_progress" /\ existing.status = "completed" /\ ~ next.verified
                   THEN "completed" ELSE @,
        !.verified = @ \/ existing.verified,
        !.test = IF @ = Empty THEN existing.test ELSE @,
        !.errors = mergeErrors(existing.errors, @)]

shouldSyncSummary(r, state) ==
    \/ r.type \in {"task_failed", "task_blocked", "task_interrupted",
                   "session_clean_closed", "session_interrupted", "error_observed"}
    \/ r.type \in {"assistant_final", "test_finished", "checkpoint_updated"} /\ r.remote
    \/ r.type = "task_verified" /\ state.verified
    \/ r.type = "task_completed" /\ state.status = "completed" /\ state.verified

shouldCaptureRemote(r, state) ==
    r.type \in {"user_prompt", "assistant_final"} \/ shouldSyncSummary(r, state)

-------------------------------------------------------------------------------
At(h, step) == hook[h].pc = step
Goto(h, step) == hook' = [hook EXCEPT ![h].pc = step]
Finish(h) == hook' = [hook EXCEPT ![h] = Idle]

(* session_started loads the work state before anything else: the session      *)
(* before it is handed over unless it was closed cleanly.                      *)
PreviousSession(r) ==
    IF r.type = "session_started" /\ ws.session # r.session /\ ws.sstate # "clean_closed"
    THEN ws.session ELSE Empty

(* A request arrives, for the first time or again: one key, one request. *)
Submitted(h, e, r, step) ==
    /\ At(h, "idle")
    /\ \A g \in Hooks : hook[g].key = e => hook[g].req = r
    /\ \A j \in journal : j.key = e => j.req = r
    /\ hook' = [hook EXCEPT ![h] = [pc |-> step, key |-> e, req |-> r,
                                    state |-> NoState, prev |-> PreviousSession(r)]]
    /\ UNCHANGED <<ledgerVars, journal, sessions, ws, handoffs, queued, aborts>>

(* Mutated Receive: the work state is changed without recording the event. *)
ReceiveUnrecorded(h, e, r) == Submitted(h, e, r, "load")

Receive(h, e, r) == Submitted(h, e, r, "insert")

(* The projection InsertEvent makes in the event's own transaction. *)
Project(e, r) ==
    CASE r.type = "task_started" ->
            TaskStarted(e, r.task, r.status, r.head, r.diff, r.policy)
      [] r.type = "task_updated" -> TaskUpdated(e, r.task, r.status, r.head, r.diff)
      [] r.type = "task_failed" ->
            TaskUnresolved(e, r.task, "failed", r.status, r.head, r.diff)
      [] r.type = "task_blocked" ->
            TaskUnresolved(e, r.task, "blocked", r.status, r.head, r.diff)
      [] r.type = "task_interrupted" ->
            TaskUnresolved(e, r.task, "interrupted", r.status, r.head, r.diff)
      [] r.type = "task_verified" ->
            TaskVerified(e, r.task, r.ref, r.kind, r.head, r.diff, r.at)
      [] r.type = "task_completed" ->
            \/ TaskCompleted(e, r.task, r.ref, r.head, r.diff)
            \/ TaskCompletionRefused(e, r.task, r.ref, r.head, r.diff)
      [] OTHER -> OtherEvent(e)

InsertEvent(h) ==
    LET e == hook[h].key
        r == hook[h].req
    IN  /\ At(h, "insert")
        /\ Project(e, r)
        /\ journal' = journal \cup {[key |-> e, req |-> r]}
        /\ Goto(h, IF r.type \in SessionEvents THEN "session" ELSE "load")
        /\ UNCHANGED <<sessions, ws, handoffs, queued, aborts>>

(* A redelivered event is acknowledged at once; a refused one returns the      *)
(* error.                                                                      *)
Acknowledge(h) ==
    /\ At(h, "insert")
    /\ hook[h].key \in events
    /\ Finish(h)
    /\ UNCHANGED <<ledgerVars, journal, sessions, ws, handoffs, queued, aborts>>

(* StartSession upserts the row; UpdateSession changes an existing one only. *)
TouchSession(h) ==
    LET r == hook[h].req
    IN  /\ At(h, "session")
        /\ sessions' = [sessions EXCEPT ![r.session] =
                IF r.type = "session_started" THEN "active"
                ELSE IF @ = Absent THEN @ ELSE SessionStateOf(r, NoState)]
        /\ Goto(h, "load")
        /\ UNCHANGED <<ledgerVars, journal, ws, handoffs, queued, aborts>>

(* Mutated Load: the capture is queued before the work state is saved. *)
LoadAndCapture(h) ==
    /\ At(h, "load")
    /\ hook' = [hook EXCEPT ![h].pc = "sync",
                            ![h].state = applyEvidence([ws EXCEPT !.session = hook[h].req.session],
                                                       hook[h].key, hook[h].req)]
    /\ queued' = queued \cup {hook[h].key}
    /\ UNCHANGED <<ledgerVars, journal, sessions, ws, handoffs, aborts>>

(* Load, outside any transaction, and the changes made to the copy. *)
Load(h) ==
    LET r == hook[h].req
        loaded == [ws EXCEPT !.sstate = SessionStateOf(r, ws), !.session = r.session]
    IN  /\ At(h, "load")
        /\ hook' = [hook EXCEPT ![h].pc = "sync",
                                ![h].state = applyEvidence(loaded, hook[h].key, r)]
        /\ UNCHANGED <<ledgerVars, journal, sessions, ws, handoffs, queued, aborts>>

(* A task event, or one about the active task, copies the ledger's row as it   *)
(* is by now.  (A lookup that fails for another reason than a missing row      *)
(* leaves the copy as it was loaded; that case is left out.)                   *)
syncTaskStateFromLedger(h) ==
    LET r == hook[h].req
        state == hook[h].state
        t == IF r.task = Absent THEN state.active ELSE r.task
        mirrors == r.type \in TaskEvents \/ r.task = state.active
    IN  /\ At(h, "sync")
        /\ hook' = [hook EXCEPT ![h].pc = "save", ![h].state =
                IF mirrors /\ t \in known
                THEN [state EXCEPT !.active = t, !.status = tasks[t].status,
                                   !.verified = tasks[t].verified]
                ELSE state]
        /\ UNCHANGED <<ledgerVars, journal, sessions, ws, handoffs, queued, aborts>>

(* Save and SaveLocal: UpdateWorkState's transaction.  Without a row there is  *)
(* nothing to merge.                                                           *)
Save(h) ==
    /\ At(h, "save")
    /\ ws' = IF ws = NoState THEN hook[h].state ELSE mergeWorkState(ws, hook[h].state)
    /\ Goto(h, IF hook[h].prev # Empty THEN "handoff" ELSE "capture")
    /\ UNCHANGED <<ledgerVars, journal, sessions, handoffs, queued, aborts>>

(* ON CONFLICT DO NOTHING; an error is ignored. *)
RecordHandoff(h) ==
    /\ At(h, "handoff")
    /\ handoffs' \in {handoffs, handoffs \cup
            {[source |-> hook[h].prev, target |-> hook[h].req.session]}}
    /\ Goto(h, "capture")
    /\ UNCHANGED <<ledgerVars, journal, sessions, ws, queued, aborts>>

(* captureMemory and captureContinuitySummaries decide on the copy that was    *)
(* saved, not on the merged state, and ignore a queue that cannot be written.  *)
captureMemory(h) ==
    /\ At(h, "capture")
    /\ \/ queued' = queued
       \/ /\ shouldCaptureRemote(hook[h].req, hook[h].state)
          /\ queued' = queued \cup {hook[h].key}
    /\ Finish(h)
    /\ UNCHANGED <<ledgerVars, journal, sessions, ws, handoffs, aborts>>

(* The process is killed, or a statement fails and Handle returns its error:   *)
(* what is committed stays, the rest is never done.                            *)
Abort(h) ==
    /\ ~ At(h, "idle")
    /\ aborts < MaxAborts
    /\ aborts' = aborts + 1
    /\ Finish(h)
    /\ UNCHANGED <<ledgerVars, journal, sessions, ws, handoffs, queued>>

(* InsertEvent's transaction is refused and rolled back. *)
Refused(h) ==
    /\ At(h, "insert")
    /\ hook[h].req.type \in TaskEvents
    /\ Finish(h)
    /\ UNCHANGED <<ledgerVars, journal, sessions, ws, handoffs, queued, aborts>>

HookNext ==
    \E h \in Hooks :
        \/ \E e \in Events, r \in Requests : Receive(h, e, r)
        \/ InsertEvent(h)
        \/ Acknowledge(h)
        \/ Refused(h)
        \/ TouchSession(h)
        \/ Load(h)
        \/ syncTaskStateFromLedger(h)
        \/ Save(h)
        \/ RecordHandoff(h)
        \/ captureMemory(h)
        \/ Abort(h)

HookSpec == HookInit /\ [][HookNext]_hookVars

-------------------------------------------------------------------------------
(* The tables, the work state and every hook's copy of it have their types,    *)
(* and the stored error list respects its bound.                               *)
HookTypeOK ==
    /\ TypeOK
    /\ journal \subseteq [key : Events, req : Requests]
    /\ sessions \in [Sessions -> SessionState \cup {Absent}]
    /\ ws \in WorkState /\ Len(ws.errors) <= ErrorLimit
    /\ \A h \in Hooks : hook[h].state \in WorkState
    /\ handoffs \subseteq [source : Sessions, target : Sessions]
    /\ queued \subseteq Events
    /\ aborts \in 0..MaxAborts

Recorded(type) == {j \in journal : j.req.type = type}

(* The hook that inserted e has not got as far as saving the work state. *)
InFlight(e) == \E h \in Hooks : hook[h].key = e /\ hook[h].pc \in {"session", "load", "sync", "save"}

Reflected(j) ==
    \/ j.req.error \in ToSet(ws.errors)
    \/ Len(ws.errors) = ErrorLimit
    \/ InFlight(j.key)

(* Every error event the journal holds is in the work state once its hook has  *)
(* saved, although hooks load the state outside the transaction that writes it *)
(* and save it over one another in any order; only a full list, or a hook that *)
(* stopped half-way, leaves one out (Handle, mergeWorkState).                  *)
ErrorsReflected == aborts = 0 => \A j \in Recorded("error_observed") : Reflected(j)

(* The same of a hook that stopped half-way: the event it inserted is never    *)
(* projected again, since a redelivery is only acknowledged.                   *)
ErrorsRecovered == \A j \in Recorded("error_observed") : Reflected(j)

(* Everything in the work state and in the sessions table is accounted for by  *)
(* an event the journal already holds: the session, the session's end, the     *)
(* active task, the test and each error (Handle inserts first and returns when *)
(* that fails).                                                                *)
WorkStateGrounded ==
    /\ ws # NoState =>
          /\ \E j \in journal : j.req.session = ws.session
          /\ ws.sstate # "active" => \E j \in journal :
                j.req.type = IF ws.sstate = "interrupted" THEN "session_interrupted"
                                                          ELSE "session_clean_closed"
          /\ ws.active # Empty => ws.active \in known
          /\ ws.test # Empty => \E j \in journal : j.key = ws.test
          /\ \A c \in ToSet(ws.errors) :
                \E j \in Recorded("error_observed") : j.req.error = c
    /\ \A s \in Sessions :
          /\ sessions[s] = "active" => \E j \in Recorded("session_started") : j.req.session = s
          /\ sessions[s] = "clean_closed" =>
                \E j \in Recorded("session_clean_closed") : j.req.session = s

(* Nothing is queued for the remote memory before its event and its work state *)
(* are durable, not even by a hook that is killed half-way (the comment before *)
(* captureMemory in Handle).                                                   *)
RemoteAfterLocal ==
    \A e \in queued : \E j \in journal :
        /\ j.key = e
        /\ j.req.type = "error_observed" =>
              j.req.error \in ToSet(ws.errors) \/ Len(ws.errors) = ErrorLimit

(* Errors recorded in the work state stay there, in order: no stale copy that  *)
(* is saved late removes or reorders them (mergeErrors).                       *)
ErrorsKept == [][IsPrefix(ws.errors, ws'.errors)]_hookVars

(* The work state reports a task completed and verified only if the ledger     *)
(* promoted that very task.                                                    *)
MirrorsLedger ==
    ws.active # Empty /\ ws.status = "completed" /\ ws.verified => Done(ws.active)

(* A save changes the latest test only to that of its own event: no hook       *)
(* overwrites what another has written meanwhile.                              *)
TestNotReverted ==
    [][ws'.test # ws.test => \E h \in Hooks : At(h, "save") /\ hook[h].key = ws'.test]_hookVars

(* A final answer never reopens the session it trails. *)
TrailingFinalKeepsClose ==
    [][\A h \in Hooks :
          /\ At(h, "save") /\ hook'[h].pc # "save" /\ ws' # ws
          /\ hook[h].req.type = "assistant_final"
          /\ ws.sstate = "clean_closed" /\ ws.session = hook[h].req.session
          => ws'.sstate = "clean_closed"]_hookVars
===============================================================================
