------------------------------ MODULE TaskLedger ------------------------------
(* The canonical task ledger of internal/storage/task_ledger.go: the event     *)
(* journal and the projection of the seven task events onto the tables tasks,  *)
(* task_verifications and active_tasks of one project.                         *)
(*                                                                             *)
(* insertTaskEvent inserts the event and projects it in ONE SQLite transaction *)
(* under writeMu, so each event is one step.  An error anywhere (a refused     *)
(* payload, an unknown task, a constraint violation) rolls the whole           *)
(* transaction back: a refused event is a step that is not enabled.            *)
(*                                                                             *)
(* Payload fields are optional; Absent is a field the JSON does not carry and  *)
(* Empty a field that is present but blank.  An event has two names: the       *)
(* idempotency_key it is recognized by, which the client chooses, and the      *)
(* event_id it is given (newID; prepareEvent makes the key default to it).     *)
(* Texts (goal, step, command, summary, error reference) and the task's scope  *)
(* rows (task_files, task_modules, task_dependencies), which no rule of the    *)
(* projection reads, are left out.                                             *)
EXTENDS Integers, FiniteSets

CONSTANTS
    Tasks,      \* task_id values
    Events,     \* idempotency_key values a client may submit
    IdOf,       \* the event_id of the event recorded under each of them
    Heads,      \* non-blank git_head values
    Diffs,      \* non-blank diff_hash values
    Kinds,      \* the verification kinds in use
    Times,      \* ranks of the stored observed_at texts (ORDER BY compares texts)
    Absent,     \* a payload field that is not there
    Empty       \* the blank string

ASSUME LedgerConstants ==
    /\ Times \subseteq Int
    /\ Kinds \subseteq {"unit", "integration", "build", "acceptance", "completion"}
    /\ Absent # Empty
    /\ {Absent, Empty} \cap Heads = {}
    /\ {Absent, Empty} \cap Diffs = {}
    /\ Absent \notin Events

(* newID draws at random. *)
ASSUME NameConstants ==
    /\ \A e \in Events : IdOf[e] \notin {Absent, Empty}
    /\ \A e, f \in Events : IdOf[e] = IdOf[f] => e = f

VARIABLES
    events,     \* the keys recorded in the events table
    known,      \* the tasks that have a row in tasks
    tasks,      \* the row of each known task (TaskRecord)
    verifs,     \* the rows of task_verifications
    active      \* the project's row in active_tasks, or Absent

vars == <<events, known, tasks, verifs, active>>

Statuses == {"planned", "in_progress", "blocked", "failed", "completed", "interrupted"}
Policies == {"completion", "acceptance"}

EventIds   == {IdOf[e] : e \in Events}
References == Events \cup EventIds

TaskRecord ==
    [status : Statuses, head : Heads \cup {Empty}, diff : Diffs \cup {Empty},
     verified : BOOLEAN, policy : Policies, latest : EventIds \cup {Empty}]

TaskVerification ==
    [task : Tasks, evt : EventIds, ref : References, kind : Kinds,
     head : Heads, diff : Diffs, at : Times]

(* CompletionPolicy.Allows *)
Allows(policy, kind) ==
    \/ kind = "completion"
    \/ policy = "acceptance" /\ kind = "acceptance"

(* The row task_started creates for an unknown task. *)
NewTask ==
    [status |-> "in_progress", head |-> Empty, diff |-> Empty, verified |-> FALSE,
     policy |-> "completion", latest |-> Empty]

Init ==
    /\ events = {}
    /\ known = {}
    /\ tasks = [t \in Tasks |-> NewTask]
    /\ verifs = {}
    /\ active = Absent

-------------------------------------------------------------------------------
(* Payload: the fields of parsedTaskPayload the projection reads.              *)

Supplied(value, old) == IF value = Absent THEN old ELSE value

applyTaskFields(task, status, head, diff) ==
    [task EXCEPT !.status = Supplied(status, @), !.head = Supplied(head, @),
                 !.diff = Supplied(diff, @)]

(* INSERT ... ON CONFLICT(project_id, idempotency_key) DO NOTHING *)
Insert(e) == e \notin events /\ events' = events \cup {e}

(* A redelivered event: RowsAffected is 0 and nothing is projected. *)
Replay(e) == e \in events /\ UNCHANGED vars

(* InsertEvent of a lifecycle event that is not a task event. *)
OtherEvent(e) == Insert(e) /\ UNCHANGED <<known, tasks, verifs, active>>

TaskStarted(e, t, status, head, diff, policy) ==
    /\ Insert(e)
    /\ ~ (t \in known /\ tasks[t].status = "completed")
    /\ status \in {"planned", "in_progress", Absent}
    /\ LET row == IF t \in known THEN tasks[t] ELSE NewTask
           started == [row EXCEPT !.status = "in_progress",
                                  !.policy = Supplied(policy, @)]
       IN  tasks' = [tasks EXCEPT ![t] =
                        applyTaskFields(started, status, head, diff)]
    /\ known' = known \cup {t}
    /\ active' = t
    /\ UNCHANGED verifs

(* Mutated TaskUpdated: the verified mark survives a change of head or diff. *)
TaskUpdatedKeepingMark(e, t, status, head, diff) ==
    /\ Insert(e)
    /\ t \in known
    /\ status # "completed"
    /\ tasks' = [tasks EXCEPT ![t] = applyTaskFields(@, status, head, diff)]
    /\ UNCHANGED <<known, verifs, active>>

(* A partial update; a supplied head or diff that differs drops the verified   *)
(* mark.                                                                       *)
TaskUpdated(e, t, status, head, diff) ==
    /\ Insert(e)
    /\ t \in known
    /\ status # "completed"
    /\ LET updated == applyTaskFields(tasks[t], status, head, diff)
           moved == updated.head # tasks[t].head \/ updated.diff # tasks[t].diff
       IN  tasks' = [tasks EXCEPT ![t] =
                        [updated EXCEPT !.verified = @ /\ ~ moved]]
    /\ UNCHANGED <<known, verifs, active>>

(* task_failed, task_blocked and task_interrupted: the event's own status is   *)
(* assigned first and applyTaskFields runs after it, so a status the payload   *)
(* carries wins.                                                               *)
TaskUnresolved(e, t, outcome, status, head, diff) ==
    /\ Insert(e)
    /\ t \in known
    /\ outcome \in {"failed", "blocked", "interrupted"}
    /\ LET stopped == [tasks[t] EXCEPT !.status = outcome, !.verified = FALSE]
       IN  tasks' = [tasks EXCEPT ![t] =
                        applyTaskFields(stopped, status, head, diff)]
    /\ UNCHANGED <<known, verifs, active>>

(* Mutated EvidenceExists: any reference is taken for evidence. *)
EvidenceUnchecked(ref, e) == TRUE

(* event_id=? OR idempotency_key=? *)
Names(ref, e) == ref \in {e, IdOf[e]}

(* verificationEvidenceExists runs inside the transaction that has already     *)
(* inserted the task_verified event itself.                                    *)
EvidenceExists(ref, e) == \E f \in events \cup {e} : Names(ref, f)

(* UNIQUE(project_id, task_id, verification_ref): of the text, not the event. *)
FreshReference(t, ref) == \A v \in verifs : ~ (v.task = t /\ v.ref = ref)

Matches(current, observed) == current = Empty \/ current = observed

TaskVerified(e, t, ref, kind, head, diff, at) ==
    /\ Insert(e)
    /\ t \in known
    /\ EvidenceExists(ref, e)
    /\ Matches(tasks[t].head, head)
    /\ Matches(tasks[t].diff, diff)
    /\ FreshReference(t, ref)
    /\ verifs' = verifs \cup
                    {[task |-> t, evt |-> IdOf[e], ref |-> ref, kind |-> kind,
                      head |-> head, diff |-> diff, at |-> at]}
    /\ tasks' = [tasks EXCEPT ![t] =
                    [@ EXCEPT !.head = head, !.diff = diff, !.latest = IdOf[e],
                              !.verified = Allows(tasks[t].policy, kind)]]
    /\ UNCHANGED <<known, active>>

(* latestMatchingVerification: ORDER BY observed_at DESC LIMIT 1.  Rows with   *)
(* the same text may come back in any order.                                   *)
LatestVerification(t, ref) ==
    LET matching == {v \in verifs : v.task = t /\ ref \in {Absent, v.ref, v.evt}}
    IN  {v \in matching : \A w \in matching : w.at <= v.at}

(* Mutated Promotable: a verification of another tree counts. *)
PromotableOnAnyTree(t, v, head, diff) ==
    /\ Allows(tasks[t].policy, v.kind)
    /\ head \in {Absent, tasks[t].head}
    /\ diff \in {Absent, tasks[t].diff}

Promotable(t, v, head, diff) ==
    /\ Allows(tasks[t].policy, v.kind)
    /\ v.head = tasks[t].head
    /\ v.diff = tasks[t].diff
    /\ head \in {Absent, tasks[t].head}
    /\ diff \in {Absent, tasks[t].diff}

(* task_completed with evidence: the task is promoted. *)
TaskCompleted(e, t, ref, head, diff) ==
    /\ Insert(e)
    /\ t \in known
    /\ \E v \in LatestVerification(t, ref) : Promotable(t, v, head, diff)
    /\ tasks' = [tasks EXCEPT ![t] = [@ EXCEPT !.status = "completed", !.verified = TRUE]]
    /\ UNCHANGED <<known, verifs, active>>

(* task_completed without it: the event is kept and the task is left alone. *)
TaskCompletionRefused(e, t, ref, head, diff) ==
    /\ Insert(e)
    /\ t \in known
    /\ \/ LatestVerification(t, ref) = {}
       \/ \E v \in LatestVerification(t, ref) : ~ Promotable(t, v, head, diff)
    /\ UNCHANGED <<known, tasks, verifs, active>>

-------------------------------------------------------------------------------
StatusField == Statuses \cup {Absent}
HeadField   == Heads \cup {Absent, Empty}
DiffField   == Diffs \cup {Absent, Empty}
PolicyField == Policies \cup {Absent}
RefField    == References \cup {Absent}

Next ==
    \E e \in Events :
        \/ Replay(e)
        \/ OtherEvent(e)
        \/ \E t \in Tasks, status \in StatusField, head \in HeadField,
              diff \in DiffField :
              \/ \E policy \in PolicyField :
                    TaskStarted(e, t, status, head, diff, policy)
              \/ TaskUpdated(e, t, status, head, diff)
              \/ \E outcome \in {"failed", "blocked", "interrupted"} :
                    TaskUnresolved(e, t, outcome, status, head, diff)
        \/ \E t \in Tasks, ref \in References, kind \in Kinds, head \in Heads,
              diff \in Diffs, at \in Times :
              TaskVerified(e, t, ref, kind, head, diff, at)
        \/ \E t \in Tasks, ref \in RefField, head \in HeadField, diff \in DiffField :
              \/ TaskCompleted(e, t, ref, head, diff)
              \/ TaskCompletionRefused(e, t, ref, head, diff)

Spec == Init /\ [][Next]_vars

-------------------------------------------------------------------------------
(* Every table holds rows of its type: a field the payload omits (Absent) is   *)
(* never stored in a row, and the active task has a row.                       *)
TypeOK ==
    /\ events \subseteq Events
    /\ known \subseteq Tasks
    /\ tasks \in [Tasks -> TaskRecord]
    /\ verifs \subseteq TaskVerification
    /\ active \in known \cup {Absent}

(* v is evidence, under the task's policy, for the tree the task is now on. *)
Supports(v, t) ==
    /\ v.task = t
    /\ Allows(tasks[t].policy, v.kind)
    /\ v.head = tasks[t].head
    /\ v.diff = tasks[t].diff

Done(t) == t \in known /\ tasks[t].status = "completed" /\ tasks[t].verified

(* A task that is completed and completion_verified is backed by a             *)
(* verification row of that very task whose kind its policy allows and whose   *)
(* git head and diff hash are the task's current ones, whatever events came    *)
(* before and after the promotion (projectTaskEvent).                          *)
EarnedCompletion ==
    \A t \in Tasks : Done(t) => \E v \in verifs : Supports(v, t)

(* Every verification row belongs to a known task and to a journal event of    *)
(* its own, and its reference names an event the journal really holds.  Only   *)
(* the text of a reference is unique, so a task may count one event as         *)
(* evidence twice, by its id and by its key, but never three times; and its    *)
(* latest_verification_event_id is one of its rows                             *)
(* (verificationEvidenceExists, the UNIQUE constraint, the transaction).       *)
EvidenceInJournal ==
    /\ \A v \in verifs :
          /\ v.task \in known
          /\ \E e \in events : v.evt = IdOf[e]
          /\ \E e \in events : Names(v.ref, e)
    /\ \A v, w \in verifs :
          v.evt = w.evt \/ (v.task = w.task /\ v.ref = w.ref) => v = w
    /\ \A e \in events, t \in known :
          \A u, v, w \in {x \in verifs : x.task = t /\ Names(x.ref, e)} :
             u = v \/ v = w \/ u = w
    /\ \A t \in known : tasks[t].latest # Empty =>
          \E v \in verifs : v.task = t /\ v.evt = tasks[t].latest

(* task_failed, task_blocked and task_interrupted leave the task unresolved:   *)
(* a completed status always has at least one verification behind it.          *)
CompletedHasEvidence ==
    \A t \in known : tasks[t].status = "completed" =>
        \E v \in verifs : v.task = t

(* completion_verified is set only while some verification supports the head,  *)
(* the diff and the policy the task has now.                                   *)
VerifiedIsCurrent ==
    \A t \in known : tasks[t].verified => \E v \in verifs : Supports(v, t)

-------------------------------------------------------------------------------
(* The abstract specification: done tasks, trees, policies and evidence.       *)
Trees == (Heads \cup {Empty}) \X (Diffs \cup {Empty})

Authority == INSTANCE CompletionAuthority WITH
    InitialTree   <- <<Empty, Empty>>,
    InitialPolicy <- "completion",
    done     <- {t \in Tasks : Done(t)},
    tree     <- [t \in Tasks |-> <<tasks[t].head, tasks[t].diff>>],
    policy   <- [t \in Tasks |-> tasks[t].policy],
    evidence <- {[task |-> v.task, tree |-> <<v.head, v.diff>>, kind |-> v.kind] : v \in verifs}

(* The ledger implements CompletionAuthority: a task is promoted only on       *)
(* evidence already collected for its current tree, a done task whose head,    *)
(* diff or policy moves stops being done in the same transaction, and no       *)
(* verification row is ever lost or altered.                                   *)
ImplementsAuthority == Authority!Spec
===============================================================================
