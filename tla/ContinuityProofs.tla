--------------------------- MODULE ContinuityProofs ---------------------------
(* The task ledger, the checkpoint lock, the hooks that go through both, and   *)
(* the stored timestamps.                                                      *)
(* Of the ledger: type correctness, the two guarantees of completion and the   *)
(* abstract authority it implements, for any number of tasks, events, trees    *)
(* and times (nothing of the hooks is used).  Of the hooks: the work state and *)
(* the remote queue against the journal, for any number of hooks, sessions,    *)
(* events and errors, hooks that stop half-way included.  Of the lock: for any *)
(* number of processes, kills and versions, one process at a time crosses the  *)
(* boundary between SQLite and checkpoint.json, and the checkpoint only moves  *)
(* forward, as long as no live owner's lock looks stale and no two processes   *)
(* are about to remove one abandoned lock.  (Beyond that neither holds, see    *)
(* CheckpointSerialized.)                                                      *)
(* Of the timestamps: how far the order of their texts misleads a lease, for   *)
(* any base, number of places and lease.                                       *)
EXTENDS HookRuntime, CheckpointLock, StoredTime, TLAPS, WellFoundedInduction

(* Type correctness of the ledger's tables under every event of                *)
(* projectTaskEvent: no row ever stores a field the payload did not supply.    *)
THEOREM TypeCorrect == Spec => []TypeOK
<1>1. Init => TypeOK
  BY DEF Init, TypeOK, NewTask, TaskRecord, Statuses, Policies
<1>2. TypeOK /\ [Next]_vars => TypeOK'
  <2> SUFFICES ASSUME TypeOK, [Next]_vars PROVE TypeOK'
    OBVIOUS
  <2> USE LedgerConstants DEF TypeOK
  <2>1. ASSUME NEW e \in Events, Replay(e) \/ OtherEvent(e) PROVE TypeOK'
    BY <2>1 DEF Replay, OtherEvent, Insert, vars
  <2>2. ASSUME NEW e \in Events, NEW t \in Tasks, NEW status \in StatusField,
               NEW head \in HeadField, NEW diff \in DiffField, NEW policy \in PolicyField,
               TaskStarted(e, t, status, head, diff, policy)
        PROVE  TypeOK'
    <3> DEFINE row == IF t \in known THEN tasks[t] ELSE NewTask
               started == [row EXCEPT !.status = "in_progress", !.policy = Supplied(policy, @)]
    <3>1. row \in TaskRecord
      BY DEF NewTask, TaskRecord, Statuses, Policies
    <3>2. started \in TaskRecord
      BY <3>1 DEF TaskRecord, Statuses, Supplied, PolicyField
    <3> HIDE DEF row
    <3>3. applyTaskFields(started, status, head, diff) \in TaskRecord
      BY <3>2, ZenonT(40) DEF applyTaskFields, Supplied, TaskRecord, StatusField, HeadField, DiffField
    <3> HIDE DEF started
    <3>4. tasks' = [tasks EXCEPT ![t] = applyTaskFields(started, status, head, diff)]
      BY <2>2 DEF TaskStarted, started, row
    <3>5. tasks' \in [Tasks -> TaskRecord]
      BY <3>3, <3>4
    <3> QED
      BY <2>2, <3>5 DEF TaskStarted, Insert
  <2>3. ASSUME NEW e \in Events, NEW t \in Tasks, NEW status \in StatusField,
               NEW head \in HeadField, NEW diff \in DiffField,
               TaskUpdated(e, t, status, head, diff)
        PROVE  TypeOK'
    <3> DEFINE updated == applyTaskFields(tasks[t], status, head, diff)
               moved == updated.head # tasks[t].head \/ updated.diff # tasks[t].diff
    <3>1. updated \in TaskRecord
      BY DEF applyTaskFields, Supplied, TaskRecord, StatusField, HeadField, DiffField
    <3> HIDE DEF updated
    <3>2. [updated EXCEPT !.verified = @ /\ ~ moved] \in TaskRecord
      BY <3>1 DEF TaskRecord
    <3>3. tasks' = [tasks EXCEPT ![t] = [updated EXCEPT !.verified = @ /\ ~ moved]]
      BY <2>3 DEF TaskUpdated, updated
    <3>4. tasks' \in [Tasks -> TaskRecord]
      BY <3>2, <3>3
    <3> QED
      BY <2>3, <3>4 DEF TaskUpdated, Insert
  <2>4. ASSUME NEW e \in Events, NEW t \in Tasks, NEW status \in StatusField,
               NEW head \in HeadField, NEW diff \in DiffField,
               NEW outcome \in {"failed", "blocked", "interrupted"},
               TaskUnresolved(e, t, outcome, status, head, diff)
        PROVE  TypeOK'
    <3> DEFINE stopped == [tasks[t] EXCEPT !.status = outcome, !.verified = FALSE]
    <3>1. stopped \in TaskRecord
      BY DEF TaskRecord, Statuses
    <3>2. applyTaskFields(stopped, status, head, diff) \in TaskRecord
      BY <3>1, ZenonT(40) DEF applyTaskFields, Supplied, TaskRecord, StatusField, HeadField, DiffField
    <3> HIDE DEF stopped
    <3>3. tasks' = [tasks EXCEPT ![t] = applyTaskFields(stopped, status, head, diff)]
      BY <2>4 DEF TaskUnresolved, stopped
    <3>4. tasks' \in [Tasks -> TaskRecord]
      BY <3>2, <3>3
    <3> QED
      BY <2>4, <3>4 DEF TaskUnresolved, Insert
  <2>5. ASSUME NEW e \in Events, NEW t \in Tasks, NEW ref \in References, NEW kind \in Kinds,
               NEW head \in Heads, NEW diff \in Diffs, NEW at \in Times,
               TaskVerified(e, t, ref, kind, head, diff, at)
        PROVE  TypeOK'
    <3>1. Allows(tasks[t].policy, kind) \in BOOLEAN
      BY DEF Allows
    <3> DEFINE row == [tasks[t] EXCEPT !.head = head, !.diff = diff, !.latest = IdOf[e],
                                       !.verified = Allows(tasks[t].policy, kind)]
    <3>2. row \in TaskRecord
      BY <3>1 DEF TaskRecord, EventIds
    <3>3. tasks' = [tasks EXCEPT ![t] = row]
      BY <2>5 DEF TaskVerified
    <3> HIDE DEF row
    <3>4. tasks' \in [Tasks -> TaskRecord]
      BY <3>2, <3>3
    <3>5. verifs' \subseteq TaskVerification
      BY <2>5 DEF TaskVerified, TaskVerification, EventIds
    <3> QED
      BY <2>5, <3>4, <3>5 DEF TaskVerified, Insert
  <2>6. ASSUME NEW e \in Events, NEW t \in Tasks, NEW ref \in RefField,
               NEW head \in HeadField, NEW diff \in DiffField,
               TaskCompleted(e, t, ref, head, diff)
        PROVE  TypeOK'
    <3> DEFINE row == [tasks[t] EXCEPT !.status = "completed", !.verified = TRUE]
    <3>1. row \in TaskRecord
      BY DEF TaskRecord, Statuses
    <3>2. tasks' = [tasks EXCEPT ![t] = row]
      BY <2>6 DEF TaskCompleted
    <3> HIDE DEF row
    <3>3. tasks' \in [Tasks -> TaskRecord]
      BY <3>1, <3>2
    <3> QED
      BY <2>6, <3>3 DEF TaskCompleted, Insert
  <2>7. ASSUME NEW e \in Events, NEW t \in Tasks, NEW ref \in RefField,
               NEW head \in HeadField, NEW diff \in DiffField,
               TaskCompletionRefused(e, t, ref, head, diff)
        PROVE  TypeOK'
    BY <2>7 DEF TaskCompletionRefused, Insert
  <2>8. CASE UNCHANGED vars
    BY <2>8 DEF vars
  <2> QED
    BY <2>1, <2>2, <2>3, <2>4, <2>5, <2>6, <2>7, <2>8 DEF Next
<1> QED
  BY <1>1, <1>2, PTL DEF Spec

-------------------------------------------------------------------------------
(* What each event leaves in the row of its task.                              *)
LEMMA StartedRow ==
  ASSUME TypeOK, TypeOK', NEW e \in Events, NEW t \in Tasks, NEW status \in StatusField,
         NEW head \in HeadField, NEW diff \in DiffField, NEW policy \in PolicyField,
         TaskStarted(e, t, status, head, diff, policy)
  PROVE  /\ tasks'[t] \in TaskRecord /\ tasks' = [tasks EXCEPT ![t] = tasks'[t]]
         /\ tasks'[t].status # "completed"
<1>1. tasks'[t] \in TaskRecord /\ tasks' = [tasks EXCEPT ![t] = tasks'[t]]
  BY DEF TypeOK, TaskStarted
<1>2. tasks'[t] = applyTaskFields(
                    [(IF t \in known THEN tasks[t] ELSE NewTask)
                        EXCEPT !.status = "in_progress", !.policy = Supplied(policy, @)],
                    status, head, diff)
  BY DEF TypeOK, TaskStarted
<1>3. (IF t \in known THEN tasks[t] ELSE NewTask) \in TaskRecord
  BY DEF TypeOK, NewTask, TaskRecord, Statuses, Policies
<1>4. status \in {"planned", "in_progress", Absent}
  BY DEF TaskStarted
<1>5. tasks'[t].status # "completed"
  BY <1>2, <1>3, <1>4 DEF applyTaskFields, Supplied, TaskRecord
<1> QED
  BY <1>1, <1>5

LEMMA UpdatedRow ==
  ASSUME TypeOK, TypeOK', NEW e \in Events, NEW t \in Tasks, NEW status \in StatusField,
         NEW head \in HeadField, NEW diff \in DiffField, TaskUpdated(e, t, status, head, diff)
  PROVE  /\ tasks'[t] \in TaskRecord /\ tasks' = [tasks EXCEPT ![t] = tasks'[t]]
         /\ tasks'[t].status = "completed" /\ tasks'[t].verified =>
               /\ tasks[t].status = "completed" /\ tasks[t].verified
               /\ tasks'[t].policy = tasks[t].policy
               /\ tasks'[t].head = tasks[t].head /\ tasks'[t].diff = tasks[t].diff
<1> DEFINE updated == applyTaskFields(tasks[t], status, head, diff)
           moved == updated.head # tasks[t].head \/ updated.diff # tasks[t].diff
           row == tasks'[t]
<1>1. row \in TaskRecord /\ tasks' = [tasks EXCEPT ![t] = row]
  BY DEF TypeOK, TaskUpdated
<1>2. row = [updated EXCEPT !.verified = @ /\ ~ moved]
  BY DEF TypeOK, TaskUpdated
<1>3. ASSUME row.status = "completed", row.verified
      PROVE  /\ tasks[t].status = "completed" /\ tasks[t].verified
             /\ row.policy = tasks[t].policy
             /\ row.head = tasks[t].head /\ row.diff = tasks[t].diff
  <2>1. tasks[t] \in TaskRecord /\ status # "completed"
    BY DEF TypeOK, TaskUpdated
  <2>2. updated = [tasks[t] EXCEPT !.status = Supplied(status, @),
                     !.head = Supplied(head, @), !.diff = Supplied(diff, @)]
    BY DEF applyTaskFields
  <2>3. /\ updated \in [status : Statuses, head : Heads \cup {Empty},
                        diff : Diffs \cup {Empty}, verified : BOOLEAN,
                        policy : Policies, latest : EventIds \cup {Empty}]
        /\ updated.status = Supplied(status, tasks[t].status)
        /\ updated.verified = tasks[t].verified
        /\ updated.policy = tasks[t].policy
    BY <2>1, <2>2, LedgerConstants
       DEF TaskRecord, Supplied, StatusField, HeadField, DiffField
  <2> HIDE DEF updated
  <2>4. /\ row.status = updated.status /\ row.policy = updated.policy
        /\ row.head = updated.head /\ row.diff = updated.diff
        /\ row.verified = (updated.verified /\ ~ moved)
    BY <1>2, <2>3
  <2> QED
    BY <1>3, <2>1, <2>3, <2>4 DEF Supplied
<1> QED
  BY <1>1, <1>3

LEMMA UnresolvedRow ==
  ASSUME TypeOK, TypeOK', NEW e \in Events, NEW t \in Tasks, NEW status \in StatusField,
         NEW head \in HeadField, NEW diff \in DiffField,
         NEW outcome \in {"failed", "blocked", "interrupted"},
         TaskUnresolved(e, t, outcome, status, head, diff)
  PROVE  /\ tasks'[t] \in TaskRecord /\ tasks' = [tasks EXCEPT ![t] = tasks'[t]]
         /\ ~ tasks'[t].verified
<1>1. tasks'[t] \in TaskRecord /\ tasks' = [tasks EXCEPT ![t] = tasks'[t]]
  BY DEF TypeOK, TaskUnresolved
<1>2. tasks'[t] = applyTaskFields([tasks[t] EXCEPT !.status = outcome, !.verified = FALSE],
                                  status, head, diff)
  BY DEF TypeOK, TaskUnresolved
<1>3. ~ tasks'[t].verified
  BY <1>2 DEF TypeOK, TaskRecord, applyTaskFields
<1> QED
  BY <1>1, <1>3

LEMMA VerifiedRow ==
  ASSUME TypeOK, TypeOK', NEW e \in Events, NEW t \in Tasks, NEW ref \in References,
         NEW kind \in Kinds, NEW head \in Heads, NEW diff \in Diffs, NEW at \in Times,
         TaskVerified(e, t, ref, kind, head, diff, at)
  PROVE  /\ tasks'[t] \in TaskRecord /\ tasks' = [tasks EXCEPT ![t] = tasks'[t]]
         /\ tasks'[t].head = head /\ tasks'[t].diff = diff
         /\ tasks'[t].policy = tasks[t].policy
         /\ tasks'[t].verified = Allows(tasks[t].policy, kind)
<1>1. tasks'[t] \in TaskRecord /\ tasks' = [tasks EXCEPT ![t] = tasks'[t]]
  BY DEF TypeOK, TaskVerified
<1>2. tasks'[t] = [tasks[t] EXCEPT !.head = head, !.diff = diff, !.latest = IdOf[e],
                                   !.verified = Allows(tasks[t].policy, kind)]
  BY DEF TypeOK, TaskVerified
<1> QED
  BY <1>1, <1>2 DEF TypeOK, TaskRecord

LEMMA CompletedRow ==
  ASSUME TypeOK, TypeOK', NEW e \in Events, NEW t \in Tasks, NEW ref \in RefField,
         NEW head \in HeadField, NEW diff \in DiffField, TaskCompleted(e, t, ref, head, diff)
  PROVE  /\ tasks'[t] \in TaskRecord /\ tasks' = [tasks EXCEPT ![t] = tasks'[t]]
         /\ tasks'[t].status = "completed" /\ tasks'[t].verified = TRUE
         /\ tasks'[t].head = tasks[t].head /\ tasks'[t].diff = tasks[t].diff
         /\ tasks'[t].policy = tasks[t].policy
<1>1. tasks'[t] \in TaskRecord /\ tasks' = [tasks EXCEPT ![t] = tasks'[t]]
  BY DEF TypeOK, TaskCompleted
<1>2. tasks'[t] = [tasks[t] EXCEPT !.status = "completed", !.verified = TRUE]
  BY DEF TypeOK, TaskCompleted
<1> QED
  BY <1>1, <1>2 DEF TypeOK, TaskRecord

-------------------------------------------------------------------------------
(* A step that rewrites the row of one task, loses no verification and leaves  *)
(* that row earned, leaves every task earned.                                  *)
LEMMA OneRowStep ==
  ASSUME TypeOK, EarnedCompletion, NEW t \in Tasks, NEW row \in TaskRecord,
         tasks' = [tasks EXCEPT ![t] = row],
         verifs \subseteq verifs',
         known' \subseteq known \cup {t},
         row.status = "completed" /\ row.verified =>
            \E v \in verifs' : /\ v.task = t
                               /\ Allows(row.policy, v.kind)
                               /\ v.head = row.head
                               /\ v.diff = row.diff
  PROVE  EarnedCompletion'
<1> SUFFICES ASSUME NEW u \in Tasks, Done(u)' PROVE (\E v \in verifs : Supports(v, u))'
  BY DEF EarnedCompletion
<1>1. CASE u = t
  <2>1. tasks'[u] = row
    BY <1>1 DEF TypeOK
  <2> QED
    BY <1>1, <2>1 DEF Done, Supports
<1>2. CASE u # t
  <2>1. tasks'[u] = tasks[u] /\ u \in known
    BY <1>2 DEF TypeOK, Done
  <2>2. PICK v \in verifs : Supports(v, u)
    BY <2>1 DEF EarnedCompletion, Done
  <2> QED
    BY <2>1, <2>2 DEF Supports
<1> QED
  BY <1>1, <1>2

(* A task that is completed and verified is backed by an allowed verification  *)
(* of its current head and diff, whatever sequence of journal events came in.  *)
(* EarnedCompletion is inductive given TypeOK: task_started cannot touch a     *)
(* completed row, task_updated drops the mark when the tree moves, the         *)
(* unresolved events always drop it, and the other two check the evidence.     *)
THEOREM EarnedCompletionHolds == Spec => []EarnedCompletion
<1>1. Init => EarnedCompletion
  BY DEF Init, EarnedCompletion, Done
<1>2. TypeOK /\ TypeOK' /\ EarnedCompletion /\ [Next]_vars => EarnedCompletion'
  <2> SUFFICES ASSUME TypeOK, TypeOK', EarnedCompletion, [Next]_vars PROVE EarnedCompletion'
    OBVIOUS
  <2>0. ASSUME UNCHANGED <<known, tasks, verifs>> PROVE EarnedCompletion'
    BY <2>0 DEF EarnedCompletion, Done, Supports
  <2>1. ASSUME NEW e \in Events, Replay(e) \/ OtherEvent(e) PROVE EarnedCompletion'
    BY <2>0, <2>1 DEF Replay, OtherEvent, vars
  <2>2. ASSUME NEW e \in Events, NEW t \in Tasks, NEW status \in StatusField,
               NEW head \in HeadField, NEW diff \in DiffField, NEW policy \in PolicyField,
               TaskStarted(e, t, status, head, diff, policy)
        PROVE  EarnedCompletion'
    BY <2>2, StartedRow, OneRowStep DEF TaskStarted
  <2>3. ASSUME NEW e \in Events, NEW t \in Tasks, NEW status \in StatusField,
               NEW head \in HeadField, NEW diff \in DiffField,
               TaskUpdated(e, t, status, head, diff)
        PROVE  EarnedCompletion'
    <3> DEFINE row == tasks'[t]
    <3>1. row \in TaskRecord /\ tasks' = [tasks EXCEPT ![t] = row]
      BY <2>3, UpdatedRow
    <3>3. ASSUME row.status = "completed", row.verified
          PROVE  /\ tasks[t].status = "completed" /\ tasks[t].verified
                 /\ row.policy = tasks[t].policy
                 /\ row.head = tasks[t].head /\ row.diff = tasks[t].diff
      BY <2>3, <3>3, UpdatedRow
    <3>4. t \in known /\ verifs' = verifs /\ known' = known
      BY <2>3 DEF TaskUpdated
    <3>5. ASSUME row.status = "completed", row.verified
          PROVE  \E v \in verifs' : /\ v.task = t /\ Allows(row.policy, v.kind)
                                   /\ v.head = row.head /\ v.diff = row.diff
      <4>1. PICK v \in verifs : Supports(v, t)
        BY <3>3, <3>4, <3>5 DEF EarnedCompletion, Done
      <4> QED
        BY <3>3, <3>4, <3>5, <4>1 DEF Supports
    <3> HIDE DEF row
    <3> QED
      BY <3>1, <3>4, <3>5, OneRowStep
  <2>4. ASSUME NEW e \in Events, NEW t \in Tasks, NEW status \in StatusField,
               NEW head \in HeadField, NEW diff \in DiffField,
               NEW outcome \in {"failed", "blocked", "interrupted"},
               TaskUnresolved(e, t, outcome, status, head, diff)
        PROVE  EarnedCompletion'
    <3> DEFINE row == tasks'[t]
    <3>1. /\ row \in TaskRecord /\ tasks' = [tasks EXCEPT ![t] = row] /\ ~ row.verified
      BY <2>4, UnresolvedRow
    <3>2. verifs' = verifs /\ known' = known
      BY <2>4 DEF TaskUnresolved
    <3> HIDE DEF row
    <3> QED
      BY <3>1, <3>2, OneRowStep
  <2>5. ASSUME NEW e \in Events, NEW t \in Tasks, NEW ref \in References, NEW kind \in Kinds,
               NEW head \in Heads, NEW diff \in Diffs, NEW at \in Times,
               TaskVerified(e, t, ref, kind, head, diff, at)
        PROVE  EarnedCompletion'
    <3> DEFINE row == tasks'[t]
               new == [task |-> t, evt |-> IdOf[e], ref |-> ref, kind |-> kind,
                       head |-> head, diff |-> diff, at |-> at]
    <3>1. row \in TaskRecord /\ tasks' = [tasks EXCEPT ![t] = row]
      BY <2>5, VerifiedRow
    <3>3. /\ row.head = head /\ row.diff = diff /\ row.policy = tasks[t].policy
          /\ row.verified = Allows(tasks[t].policy, kind)
      BY <2>5, VerifiedRow
    <3>4. new \in verifs' /\ verifs \subseteq verifs' /\ known' = known
      BY <2>5 DEF TaskVerified
    <3>5. /\ new.task = t /\ new.kind = kind /\ new.head = head /\ new.diff = diff
      OBVIOUS
    <3> HIDE DEF row, new
    <3>6. row.verified => \E v \in verifs' : /\ v.task = t /\ Allows(row.policy, v.kind)
                                             /\ v.head = row.head /\ v.diff = row.diff
      BY <3>3, <3>4, <3>5
    <3> QED
      BY <3>1, <3>4, <3>6, OneRowStep
  <2>6. ASSUME NEW e \in Events, NEW t \in Tasks, NEW ref \in RefField,
               NEW head \in HeadField, NEW diff \in DiffField,
               TaskCompleted(e, t, ref, head, diff)
        PROVE  EarnedCompletion'
    <3> DEFINE row == tasks'[t]
    <3>1. row \in TaskRecord /\ tasks' = [tasks EXCEPT ![t] = row]
      BY <2>6, CompletedRow
    <3>2. /\ row.head = tasks[t].head /\ row.diff = tasks[t].diff
          /\ row.policy = tasks[t].policy
      BY <2>6, CompletedRow
    <3>3. PICK v \in LatestVerification(t, ref) : Promotable(t, v, head, diff)
      BY <2>6 DEF TaskCompleted
    <3>4. v \in verifs /\ v.task = t
      BY <3>3 DEF LatestVerification
    <3>5. verifs' = verifs /\ known' = known
      BY <2>6 DEF TaskCompleted
    <3>6. /\ v \in verifs' /\ v.task = t /\ Allows(row.policy, v.kind)
          /\ v.head = row.head /\ v.diff = row.diff
      BY <3>2, <3>3, <3>4, <3>5 DEF Promotable
    <3> HIDE DEF row
    <3> QED
      BY <3>1, <3>5, <3>6, OneRowStep
  <2>7. ASSUME NEW e \in Events, NEW t \in Tasks, NEW ref \in RefField,
               NEW head \in HeadField, NEW diff \in DiffField,
               TaskCompletionRefused(e, t, ref, head, diff)
        PROVE  EarnedCompletion'
    BY <2>0, <2>7 DEF TaskCompletionRefused
  <2>8. CASE UNCHANGED vars
    BY <2>0, <2>8 DEF vars
  <2> QED
    BY <2>1, <2>2, <2>3, <2>4, <2>5, <2>6, <2>7, <2>8 DEF Next
<1> QED
  BY <1>1, <1>2, TypeCorrect, PTL DEF Spec

-------------------------------------------------------------------------------
(* Two texts name an event, and each is a reference of a task but once. *)
OncePerReference(V) == \A v, w \in V : v.task = w.task /\ v.ref = w.ref => v = w

OnEvent(V, t, e) == {v \in V : v.task = t /\ Names(v.ref, e)}

AtMostTwo(S) == \A u, v, w \in S : u = v \/ v = w \/ u = w

LEMMA TwiceAtMost ==
  ASSUME NEW V, OncePerReference(V), NEW t, NEW e
  PROVE  AtMostTwo(OnEvent(V, t, e))
<1> SUFFICES ASSUME NEW u \in OnEvent(V, t, e), NEW v \in OnEvent(V, t, e), NEW w \in OnEvent(V, t, e)
             PROVE  u = v \/ v = w \/ u = w
  BY DEF AtMostTwo
<1>1. /\ u.ref \in {e, IdOf[e]} /\ v.ref \in {e, IdOf[e]} /\ w.ref \in {e, IdOf[e]}
      /\ u.task = v.task /\ v.task = w.task
  BY DEF Names, OnEvent
<1>2. u.ref = v.ref \/ v.ref = w.ref \/ u.ref = w.ref
  BY <1>1
<1> QED
  BY <1>1, <1>2 DEF OncePerReference, OnEvent

(* A step that adds no verification and no verification event to a row.        *)
LEMMA NoNewEvidence ==
  ASSUME TypeOK, EvidenceInJournal, NEW t \in Tasks, NEW row,
         tasks' = [tasks EXCEPT ![t] = row],
         row.latest = IF t \in known THEN tasks[t].latest ELSE Empty,
         events \subseteq events', verifs' = verifs,
         known \subseteq known', known' \subseteq known \cup {t}
  PROVE  EvidenceInJournal'
<1>1. ASSUME NEW u \in known', tasks'[u].latest # Empty
      PROVE  \E v \in verifs : v.task = u /\ v.evt = tasks'[u].latest
  <2>1. u \in known /\ tasks'[u].latest = tasks[u].latest
    BY <1>1 DEF TypeOK
  <2> QED
    BY <1>1, <2>1 DEF EvidenceInJournal
<1>2. \A e \in events', u \in known' : AtMostTwo(OnEvent(verifs, u, e))
  BY TwiceAtMost DEF EvidenceInJournal, OncePerReference
<1> QED
  BY <1>1, <1>2 DEF EvidenceInJournal, Names, OnEvent, AtMostTwo

(* No sequence of events leaves a verification without its evidence or its     *)
(* event in the journal, counts one piece of evidence twice under one name, or *)
(* more than twice, for a task, or points a task at a verification it does not *)
(* have.                                                                       *)
THEOREM EvidenceInJournalHolds == Spec => []EvidenceInJournal
<1>1. Init => EvidenceInJournal
  BY DEF Init, EvidenceInJournal, Names
<1>2. TypeOK /\ EvidenceInJournal /\ [Next]_vars => EvidenceInJournal'
  <2> SUFFICES ASSUME TypeOK, EvidenceInJournal, [Next]_vars PROVE EvidenceInJournal'
    OBVIOUS
  <2>0. ASSUME UNCHANGED <<known, tasks, verifs>>, events \subseteq events'
        PROVE  EvidenceInJournal'
    <3>1. \A e \in events', t \in known' : AtMostTwo(OnEvent(verifs, t, e))
      BY TwiceAtMost DEF EvidenceInJournal, OncePerReference
    <3> QED
      BY <2>0, <3>1 DEF EvidenceInJournal, Names, OnEvent, AtMostTwo
  <2>1. ASSUME NEW e \in Events, Replay(e) \/ OtherEvent(e) PROVE EvidenceInJournal'
    BY <2>0, <2>1 DEF Replay, OtherEvent, Insert, vars
  <2>2. ASSUME NEW e \in Events, NEW t \in Tasks, NEW status \in StatusField,
               NEW head \in HeadField, NEW diff \in DiffField, NEW policy \in PolicyField,
               TaskStarted(e, t, status, head, diff, policy)
        PROVE  EvidenceInJournal'
    <3> DEFINE old == IF t \in known THEN tasks[t] ELSE NewTask
               row == applyTaskFields([old EXCEPT !.status = "in_progress",
                                                  !.policy = Supplied(policy, @)], status, head, diff)
    <3>1. tasks' = [tasks EXCEPT ![t] = row]
      BY <2>2 DEF TaskStarted
    <3>2. old \in TaskRecord /\ old.latest = IF t \in known THEN tasks[t].latest ELSE Empty
      BY DEF TypeOK, NewTask, TaskRecord, Statuses, Policies
    <3> HIDE DEF old
    <3>3. row.latest = old.latest
      BY <3>2 DEF applyTaskFields, TaskRecord
    <3> HIDE DEF row
    <3>4. row.latest = IF t \in known THEN tasks[t].latest ELSE Empty
      BY <3>2, <3>3
    <3>5. /\ events \subseteq events' /\ verifs' = verifs
          /\ known \subseteq known' /\ known' \subseteq known \cup {t}
      BY <2>2 DEF TaskStarted, Insert
    <3> QED
      BY <3>1, <3>4, <3>5, NoNewEvidence
  <2>3. ASSUME NEW e \in Events, NEW t \in Tasks, NEW status \in StatusField,
               NEW head \in HeadField, NEW diff \in DiffField,
               TaskUpdated(e, t, status, head, diff)
        PROVE  EvidenceInJournal'
    <3> DEFINE updated == applyTaskFields(tasks[t], status, head, diff)
               moved == updated.head # tasks[t].head \/ updated.diff # tasks[t].diff
               row == [updated EXCEPT !.verified = @ /\ ~ moved]
    <3>1. tasks' = [tasks EXCEPT ![t] = row] /\ t \in known
      BY <2>3 DEF TaskUpdated
    <3>2. "latest" \in DOMAIN updated /\ updated.latest = tasks[t].latest
      BY DEF TypeOK, applyTaskFields, TaskRecord
    <3> HIDE DEF updated
    <3>3. row.latest = tasks[t].latest
      BY <3>2
    <3> HIDE DEF row
    <3> QED
      BY <2>3, <3>1, <3>3, NoNewEvidence DEF TaskUpdated, Insert
  <2>4. ASSUME NEW e \in Events, NEW t \in Tasks, NEW status \in StatusField,
               NEW head \in HeadField, NEW diff \in DiffField,
               NEW outcome \in {"failed", "blocked", "interrupted"},
               TaskUnresolved(e, t, outcome, status, head, diff)
        PROVE  EvidenceInJournal'
    <3> DEFINE row == applyTaskFields([tasks[t] EXCEPT !.status = outcome, !.verified = FALSE],
                                      status, head, diff)
    <3>1. tasks' = [tasks EXCEPT ![t] = row] /\ t \in known
      BY <2>4 DEF TaskUnresolved
    <3>2. row.latest = tasks[t].latest
      BY DEF TypeOK, applyTaskFields, TaskRecord
    <3> HIDE DEF row
    <3> QED
      BY <2>4, <3>1, <3>2, NoNewEvidence DEF TaskUnresolved, Insert
  <2>5. ASSUME NEW e \in Events, NEW t \in Tasks, NEW ref \in References, NEW kind \in Kinds,
               NEW head \in Heads, NEW diff \in Diffs, NEW at \in Times,
               TaskVerified(e, t, ref, kind, head, diff, at)
        PROVE  EvidenceInJournal'
    <3> DEFINE new == [task |-> t, evt |-> IdOf[e], ref |-> ref, kind |-> kind,
                       head |-> head, diff |-> diff, at |-> at]
    <3>1. /\ new.task = t /\ new.evt = IdOf[e] /\ new.ref = ref
      OBVIOUS
    <3>2. /\ events' = events \cup {e} /\ e \notin events /\ verifs' = verifs \cup {new}
          /\ known' = known /\ t \in known /\ \E f \in events' : Names(ref, f)
          /\ \A v \in verifs : ~ (v.task = t /\ v.ref = ref)
      BY <2>5 DEF TaskVerified, Insert, EvidenceExists, FreshReference
    <3> HIDE DEF new
    <3>3. tasks'[t].latest = IdOf[e] /\ \A u \in Tasks \ {t} : tasks'[u] = tasks[u]
      BY <2>5 DEF TypeOK, TaskRecord, TaskVerified
    <3>4. ASSUME NEW v \in verifs'
          PROVE  /\ v.task \in known'
                 /\ \E f \in events' : v.evt = IdOf[f]
                 /\ \E f \in events' : Names(v.ref, f)
      <4>1. CASE v \in verifs
        BY <4>1, <3>2 DEF EvidenceInJournal
      <4>2. CASE v = new
        BY <4>2, <3>1, <3>2
      <4> QED
        BY <3>2, <4>1, <4>2
    <3>5. \A v \in verifs : v.evt # IdOf[e]
      BY <3>2, NameConstants DEF TypeOK, EvidenceInJournal
    <3>6. \A v, w \in verifs' : v.evt = w.evt \/ (v.task = w.task /\ v.ref = w.ref) => v = w
      BY <3>1, <3>2, <3>5 DEF EvidenceInJournal
    <3>7. PICK V : V = verifs' OBVIOUS
    <3>8. \A f \in events', s \in known' : AtMostTwo(OnEvent(V, s, f))
      BY <3>6, <3>7, TwiceAtMost DEF OncePerReference
    <3>9. ASSUME NEW u \in known', tasks'[u].latest # Empty
          PROVE  \E v \in verifs' : v.task = u /\ v.evt = tasks'[u].latest
      <4>1. CASE u = t
        BY <4>1, <3>1, <3>2, <3>3
      <4>2. CASE u # t
        BY <4>2, <3>2, <3>3, <3>9 DEF TypeOK, EvidenceInJournal
      <4> QED
        BY <4>1, <4>2
    <3> QED
      BY <3>4, <3>6, <3>7, <3>8, <3>9 DEF EvidenceInJournal, Names, OnEvent, AtMostTwo
  <2>6. ASSUME NEW e \in Events, NEW t \in Tasks, NEW ref \in RefField,
               NEW head \in HeadField, NEW diff \in DiffField,
               TaskCompleted(e, t, ref, head, diff)
        PROVE  EvidenceInJournal'
    <3> DEFINE row == [tasks[t] EXCEPT !.status = "completed", !.verified = TRUE]
    <3>1. tasks' = [tasks EXCEPT ![t] = row] /\ t \in known
      BY <2>6 DEF TaskCompleted
    <3>2. row.latest = tasks[t].latest
      BY DEF TypeOK, TaskRecord
    <3> HIDE DEF row
    <3> QED
      BY <2>6, <3>1, <3>2, NoNewEvidence DEF TaskCompleted, Insert
  <2>7. ASSUME NEW e \in Events, NEW t \in Tasks, NEW ref \in RefField,
               NEW head \in HeadField, NEW diff \in DiffField,
               TaskCompletionRefused(e, t, ref, head, diff)
        PROVE  EvidenceInJournal'
    BY <2>0, <2>7 DEF TaskCompletionRefused, Insert
  <2>8. CASE UNCHANGED vars
    BY <2>0, <2>8 DEF vars
  <2> QED
    BY <2>1, <2>2, <2>3, <2>4, <2>5, <2>6, <2>7, <2>8 DEF Next
<1> QED
  BY <1>1, <1>2, TypeCorrect, PTL DEF Spec

-------------------------------------------------------------------------------
(* The state of CompletionAuthority under the refinement mapping.              *)
DoneTasks == {t \in Tasks : Done(t)}
TreeOf == [t \in Tasks |-> <<tasks[t].head, tasks[t].diff>>]
PolicyOf == [t \in Tasks |-> tasks[t].policy]
EvidenceOf(v) == [task |-> v.task, tree |-> <<v.head, v.diff>>, kind |-> v.kind]
Collected == {EvidenceOf(v) : v \in verifs}

LEMMA MappedRow ==
  ASSUME TypeOK, NEW t \in Tasks, NEW row \in TaskRecord, tasks' = [tasks EXCEPT ![t] = row],
         known' \in {known, known \cup {t}}
  PROVE  /\ TreeOf' = [TreeOf EXCEPT ![t] = <<row.head, row.diff>>]
         /\ PolicyOf' = [PolicyOf EXCEPT ![t] = row.policy]
         /\ t \in known' /\ row.status = "completed" /\ row.verified =>
               DoneTasks' = DoneTasks \cup {t}
         /\ ~ (t \in known' /\ row.status = "completed" /\ row.verified) =>
               DoneTasks' = DoneTasks \ {t}
         /\ <<row.head, row.diff>> \in Trees /\ row.policy \in Policies
<1>1. tasks'[t] = row /\ \A u \in Tasks \ {t} : tasks'[u] = tasks[u]
  BY DEF TypeOK
<1>2. TreeOf' = [TreeOf EXCEPT ![t] = <<row.head, row.diff>>]
  <2>1. \A u \in Tasks : <<tasks'[u].head, tasks'[u].diff>> =
                         IF u = t THEN <<row.head, row.diff>> ELSE <<tasks[u].head, tasks[u].diff>>
    BY <1>1
  <2>2. TreeOf' = [u \in Tasks |-> IF u = t THEN <<row.head, row.diff>> ELSE TreeOf[u]]
    BY <2>1, Zenon DEF TreeOf
  <2>3. TreeOf = [u \in Tasks |-> TreeOf[u]]
    BY Zenon DEF TreeOf
  <2> HIDE DEF TreeOf
  <2> QED
    BY <2>2, <2>3
<1>3. PolicyOf' = [PolicyOf EXCEPT ![t] = row.policy]
  <2>1. PolicyOf' = [u \in Tasks |-> IF u = t THEN row.policy ELSE PolicyOf[u]]
    BY <1>1 DEF PolicyOf
  <2>2. PolicyOf = [u \in Tasks |-> PolicyOf[u]]
    BY Zenon DEF PolicyOf
  <2> QED
    BY <2>1, <2>2
<1>4. \A u \in Tasks \ {t} : Done(u)' <=> Done(u)
  BY <1>1 DEF Done
<1>5. Done(t)' <=> t \in known' /\ row.status = "completed" /\ row.verified
  BY <1>1 DEF Done
<1>6. <<row.head, row.diff>> \in Trees /\ row.policy \in Policies
  BY DEF TaskRecord, Trees
<1> QED
  BY <1>2, <1>3, <1>4, <1>5, <1>6 DEF DoneTasks

(* A task that is not done after a step that adds no evidence was reworked.    *)
LEMMA RowReworked ==
  ASSUME TypeOK, NEW t \in Tasks, NEW row \in TaskRecord, tasks' = [tasks EXCEPT ![t] = row],
         known' \in {known, known \cup {t}}, verifs' = verifs,
         ~ (row.status = "completed" /\ row.verified)
  PROVE  Authority!Next
<1>1. Authority!Rework(t, <<row.head, row.diff>>, row.policy)
  BY MappedRow DEF Authority!Rework, DoneTasks, TreeOf, PolicyOf, Collected, EvidenceOf
<1> QED
  BY <1>1, MappedRow DEF Authority!Next

(* A step that keeps the rows changes nothing of the abstract state.           *)
LEMMA RowsKept ==
  ASSUME UNCHANGED <<known, tasks, verifs>> PROVE UNCHANGED Authority!avars
BY DEF Authority!avars, Done

(* The ledger implements CompletionAuthority: every event of projectTaskEvent  *)
(* collects evidence, promotes a task on evidence collected before, reworks a  *)
(* task, which is then not done, or changes nothing of what the authority      *)
(* promises.                                                                   *)
THEOREM LedgerImplementsAuthority == Spec => ImplementsAuthority
<1>1. Init => Authority!Init
  BY DEF Init, Authority!Init, Done, NewTask
<1>2. TypeOK /\ TypeOK' /\ [Next]_vars => [Authority!Next]_(Authority!avars)
  <2> SUFFICES ASSUME TypeOK, TypeOK', [Next]_vars
               PROVE  Authority!Next \/ UNCHANGED Authority!avars
    OBVIOUS
  <2>1. ASSUME NEW e \in Events, Replay(e) \/ OtherEvent(e)
        PROVE  UNCHANGED Authority!avars
    BY <2>1, RowsKept DEF Replay, OtherEvent, vars
  <2>2. ASSUME NEW e \in Events, NEW t \in Tasks, NEW status \in StatusField,
               NEW head \in HeadField, NEW diff \in DiffField, NEW policy \in PolicyField,
               TaskStarted(e, t, status, head, diff, policy)
        PROVE  Authority!Next
    <3>1. /\ tasks'[t] \in TaskRecord /\ tasks' = [tasks EXCEPT ![t] = tasks'[t]]
          /\ tasks'[t].status # "completed"
      BY <2>2, StartedRow
    <3>2. known' = known \cup {t} /\ verifs' = verifs
      BY <2>2 DEF TaskStarted
    <3> QED
      BY <3>1, <3>2, RowReworked
  <2>3. ASSUME NEW e \in Events, NEW t \in Tasks, NEW status \in StatusField,
               NEW head \in HeadField, NEW diff \in DiffField,
               TaskUpdated(e, t, status, head, diff)
        PROVE  Authority!Next \/ UNCHANGED Authority!avars
    <3> DEFINE row == tasks'[t]
    <3>1. row \in TaskRecord /\ tasks' = [tasks EXCEPT ![t] = row]
      BY <2>3, UpdatedRow
    <3>2. t \in known /\ known' = known /\ verifs' = verifs
      BY <2>3 DEF TaskUpdated
    <3>3. CASE row.status = "completed" /\ row.verified
      <4>1. /\ tasks[t].status = "completed" /\ tasks[t].verified
            /\ row.policy = tasks[t].policy
            /\ row.head = tasks[t].head /\ row.diff = tasks[t].diff
        BY <2>3, <3>3, UpdatedRow
      <4>2. /\ TreeOf' = [TreeOf EXCEPT ![t] = <<row.head, row.diff>>]
            /\ PolicyOf' = [PolicyOf EXCEPT ![t] = row.policy]
            /\ DoneTasks' = DoneTasks \cup {t}
        BY <3>1, <3>2, <3>3, MappedRow
      <4>3. t \in DoneTasks /\ TreeOf[t] = <<row.head, row.diff>> /\ PolicyOf[t] = row.policy
        BY <3>2, <4>1 DEF DoneTasks, Done, TreeOf, PolicyOf
      <4> HIDE DEF row
      <4>4. TreeOf' = TreeOf /\ PolicyOf' = PolicyOf /\ DoneTasks' = DoneTasks
        BY <4>2, <4>3 DEF TreeOf, PolicyOf
      <4> QED
        BY <3>2, <4>4 DEF Authority!avars, DoneTasks, TreeOf, PolicyOf
    <3>4. CASE ~ (row.status = "completed" /\ row.verified)
      <4> HIDE DEF row
      <4> QED
        BY <3>1, <3>2, <3>4, RowReworked
    <3> QED
      BY <3>3, <3>4
  <2>4. ASSUME NEW e \in Events, NEW t \in Tasks, NEW status \in StatusField,
               NEW head \in HeadField, NEW diff \in DiffField,
               NEW outcome \in {"failed", "blocked", "interrupted"},
               TaskUnresolved(e, t, outcome, status, head, diff)
        PROVE  Authority!Next
    <3> DEFINE row == tasks'[t]
    <3>1. /\ row \in TaskRecord /\ tasks' = [tasks EXCEPT ![t] = row] /\ ~ row.verified
      BY <2>4, UnresolvedRow
    <3>2. known' = known /\ verifs' = verifs
      BY <2>4 DEF TaskUnresolved
    <3> HIDE DEF row
    <3> QED
      BY <3>1, <3>2, RowReworked
  <2>5. ASSUME NEW e \in Events, NEW t \in Tasks, NEW ref \in References, NEW kind \in Kinds,
               NEW head \in Heads, NEW diff \in Diffs, NEW at \in Times,
               TaskVerified(e, t, ref, kind, head, diff, at)
        PROVE  Authority!Next
    <3> DEFINE row == tasks'[t]
               new == [task |-> t, evt |-> IdOf[e], ref |-> ref, kind |-> kind,
                       head |-> head, diff |-> diff, at |-> at]
    <3>1. /\ row \in TaskRecord /\ tasks' = [tasks EXCEPT ![t] = row]
          /\ row.head = head /\ row.diff = diff
          /\ row.policy = tasks[t].policy
          /\ row.verified = Allows(tasks[t].policy, kind)
      BY <2>5, VerifiedRow
    <3>2. known' = known /\ verifs' = verifs \cup {new}
      BY <2>5 DEF TaskVerified
    <3>3. EvidenceOf(new) = [task |-> t, tree |-> <<head, diff>>, kind |-> kind]
      BY DEF EvidenceOf
    <3> HIDE DEF row, new
    <3>4. Collected' = Collected \cup {[task |-> t, tree |-> <<head, diff>>, kind |-> kind]}
      BY <3>2, <3>3 DEF Collected
    <3>5. /\ TreeOf' = [TreeOf EXCEPT ![t] = <<head, diff>>]
          /\ PolicyOf' = [PolicyOf EXCEPT ![t] = tasks[t].policy]
          /\ DoneTasks' = DoneTasks \ {t} \/ (DoneTasks' = DoneTasks \cup {t} /\ row.verified)
          /\ <<head, diff>> \in Trees
      <4>1. /\ TreeOf' = [TreeOf EXCEPT ![t] = <<row.head, row.diff>>]
            /\ PolicyOf' = [PolicyOf EXCEPT ![t] = row.policy]
            /\ <<row.head, row.diff>> \in Trees
        BY <3>1, <3>2, MappedRow
      <4>2. CASE t \in known' /\ row.status = "completed" /\ row.verified
        BY <4>2, <3>1, <3>2, <4>1, MappedRow
      <4>3. CASE ~ (t \in known' /\ row.status = "completed" /\ row.verified)
        BY <4>3, <3>1, <3>2, <4>1, MappedRow
      <4> QED
        BY <4>2, <4>3
    <3>6. PolicyOf' = PolicyOf /\ PolicyOf[t] = tasks[t].policy
      BY <3>5 DEF PolicyOf
    <3>7. Authority!Collect(t, <<head, diff>>, kind)
      BY <3>1, <3>4, <3>5, <3>6
         DEF Authority!Collect, DoneTasks, TreeOf, PolicyOf, Collected, EvidenceOf
    <3> QED
      BY <3>5, <3>7 DEF Authority!Next
  <2>6. ASSUME NEW e \in Events, NEW t \in Tasks, NEW ref \in RefField,
               NEW head \in HeadField, NEW diff \in DiffField,
               TaskCompleted(e, t, ref, head, diff)
        PROVE  Authority!Next
    <3> DEFINE row == tasks'[t]
    <3>1. /\ row \in TaskRecord /\ tasks' = [tasks EXCEPT ![t] = row]
          /\ row.status = "completed" /\ row.verified = TRUE
          /\ row.head = tasks[t].head /\ row.diff = tasks[t].diff
          /\ row.policy = tasks[t].policy
      BY <2>6, CompletedRow
    <3>2. t \in known /\ known' = known /\ verifs' = verifs
      BY <2>6 DEF TaskCompleted
    <3>3. PICK v \in verifs : v.task = t /\ Promotable(t, v, head, diff)
      BY <2>6 DEF TaskCompleted, LatestVerification
    <3> HIDE DEF row
    <3>4. /\ TreeOf' = [TreeOf EXCEPT ![t] = <<row.head, row.diff>>]
          /\ PolicyOf' = [PolicyOf EXCEPT ![t] = row.policy]
          /\ DoneTasks' = DoneTasks \cup {t}
      BY <3>1, <3>2, MappedRow
    <3>5. TreeOf[t] = <<row.head, row.diff>> /\ PolicyOf[t] = row.policy
      BY <3>1 DEF TreeOf, PolicyOf
    <3>6. TreeOf' = TreeOf /\ PolicyOf' = PolicyOf
      BY <3>4, <3>5 DEF TreeOf, PolicyOf
    <3>7. /\ EvidenceOf(v) \in Collected /\ EvidenceOf(v).task = t
          /\ EvidenceOf(v).tree = TreeOf[t] /\ Allows(PolicyOf[t], EvidenceOf(v).kind)
      BY <3>3 DEF EvidenceOf, Collected, TreeOf, PolicyOf, Promotable
    <3>8. Authority!Supported(t)
      BY <3>7 DEF Authority!Supported, TreeOf, PolicyOf, Collected, EvidenceOf
    <3>9. Authority!Promote(t)
      BY <3>2, <3>4, <3>6, <3>8 DEF Authority!Promote, DoneTasks, TreeOf, PolicyOf
    <3> QED
      BY <3>9 DEF Authority!Next
  <2>7. ASSUME NEW e \in Events, NEW t \in Tasks, NEW ref \in RefField,
               NEW head \in HeadField, NEW diff \in DiffField,
               TaskCompletionRefused(e, t, ref, head, diff)
        PROVE  UNCHANGED Authority!avars
    BY <2>7, RowsKept DEF TaskCompletionRefused
  <2>8. CASE UNCHANGED vars
    BY <2>8, RowsKept DEF vars
  <2> QED
    BY <2>1, <2>2, <2>3, <2>4, <2>5, <2>6, <2>7, <2>8 DEF Next
<1> QED
  BY <1>1, <1>2, TypeCorrect, PTL DEF Spec, ImplementsAuthority, Authority!Spec
-------------------------------------------------------------------------------
USE DEF ledgerVars

(* The least-number principle, by which the recursive definition is reasoned   *)
(* about.                                                                      *)
LEMMA LeastNumber ==
    ASSUME NEW T, T \subseteq Nat, T # {}
    PROVE  \E n \in T : \A m \in T : n <= m
<1> DEFINE R == OpToRel(<, Nat)
<1>1. IsWellFoundedOn(R, Nat) BY NatLessThanWellFounded
<1>2. \A m, n \in Nat : m < n => <<m, n>> \in R BY DEF OpToRel
<1> HIDE DEF R
<1>3. PICK n \in T : \A m \in T : ~(<<m, n>> \in R)
  BY <1>1, WFMin
<1>4. ASSUME NEW m \in T PROVE n <= m
  <2>1. m \in Nat /\ n \in Nat OBVIOUS
  <2>2. ~ (m < n) BY <2>1, <1>2, <1>3
  <2> QED BY <2>1, <2>2
<1> QED BY <1>4

Lists == Seq(Errors \cup {Empty})

Distinct(s) == \A k, m \in 1..Len(s) : s[k] = s[m] => k = m

(* The error lists of the work state.                                          *)
Bounded(s) == s \in Lists /\ Len(s) <= ErrorLimit /\ Distinct(s)

Starts(s, t) == Len(s) <= Len(t) /\ \A k \in 1..Len(s) : t[k] = s[k]

Elements(s) == {s[k] : k \in 1..Len(s)}

LEMMA ElementsAre == ASSUME NEW s \in Lists PROVE ToSet(s) = Elements(s)
BY DEF ToSet, Elements, Lists

(* One step of mergeErrors.                                                    *)
MergeNext(merged, error) ==
    IF Len(merged) >= ErrorLimit \/ error \in ToSet(merged) THEN merged ELSE Append(merged, error)

MergedUpTo(all, x, h) == h = [n \in 0..x |-> IF n = 0 THEN <<>> ELSE MergeNext(h[n-1], all[n])]

LEMMA MergedExist ==
    ASSUME NEW all, NEW x \in Nat
    PROVE  \E h : MergedUpTo(all, x, h)
<1> DEFINE T == {y \in Nat : ~\E h : MergedUpTo(all, y, h)}
<1> SUFFICES ASSUME T # {} PROVE FALSE OBVIOUS
<1>1. T \subseteq Nat /\ \A y \in T : ~\E h : MergedUpTo(all, y, h) OBVIOUS
<1>2. \A y \in Nat \ T : \E h : MergedUpTo(all, y, h) OBVIOUS
<1> HIDE DEF T
<1>3. PICK y \in T : \A m \in T : y <= m BY <1>1, LeastNumber
<1>4. y \in Nat BY <1>1
<1>5. y # 0
  <2> DEFINE g == [n \in 0..0 |-> <<>>]
  <2>1. g = [n \in 0..0 |-> IF n = 0 THEN <<>> ELSE MergeNext(g[n-1], all[n])] OBVIOUS
  <2> HIDE DEF g
  <2>2. MergedUpTo(all, 0, g) BY <2>1 DEF MergedUpTo
  <2> QED BY <2>2, <1>1
<1>6. y - 1 \in Nat /\ y - 1 \notin T BY <1>3, <1>4, <1>5
<1>7. PICK h : MergedUpTo(all, y - 1, h) BY <1>2, <1>6
<1> DEFINE g == [n \in 0..y |-> IF n = y THEN MergeNext(h[y-1], all[y]) ELSE h[n]]
<1>8. \A n \in 0..y : g[n] = IF n = 0 THEN <<>> ELSE MergeNext(g[n-1], all[n])
  <2> TAKE n \in 0..y
  <2>1. CASE n = y BY <2>1, <1>4, <1>5
  <2>2. CASE n # y
    <3>1. n \in 0..(y-1) /\ (n # 0 => n - 1 \in 0..(y-1)) BY <2>2, <1>4
    <3>2. h[n] = IF n = 0 THEN <<>> ELSE MergeNext(h[n-1], all[n]) BY <3>1, <1>7 DEF MergedUpTo
    <3> QED BY <3>1, <3>2, <2>2, <1>4
  <2> QED BY <2>1, <2>2
<1>9. g = [n \in 0..y |-> IF n = 0 THEN <<>> ELSE MergeNext(g[n-1], all[n])]
  <2>1. g = [n \in 0..y |-> g[n]] OBVIOUS
  <2> HIDE DEF g
  <2> QED BY <2>1, <1>8
<1> HIDE DEF g
<1> QED BY <1>9, <1>3, <1>1 DEF MergedUpTo

LEMMA MergeIs ==
    ASSUME NEW a, NEW b, Len(a \o b) \in Nat
    PROVE  \E h : MergedUpTo(a \o b, Len(a \o b), h) /\ mergeErrors(a, b) = h[Len(a \o b)]
<1> DEFINE h == CHOOSE g : MergedUpTo(a \o b, Len(a \o b), g)
<1>1. MergedUpTo(a \o b, Len(a \o b), h) BY MergedExist
<1>2. mergeErrors(a, b) = h[Len(a \o b)] BY DEF mergeErrors, MergedUpTo, MergeNext
<1> QED BY <1>1, <1>2

(* What has been merged after n of the errors.                                 *)
MergedSoFar(a, b, n, s) ==
    /\ Bounded(s)
    /\ Elements(s) \subseteq Elements(a) \cup Elements(b)
    /\ n <= Len(a) => Len(s) = n /\ \A k \in 1..n : s[k] = a[k]
    /\ n >= Len(a) => Starts(a, s)
    /\ \A k \in 1..n : (a \o b)[k] \in Elements(s) \/ Len(s) = ErrorLimit

LEMMA MergeNextKeeps ==
    ASSUME NEW a, Bounded(a), NEW b \in Lists, NEW n \in 1..Len(a \o b), NEW s,
           MergedSoFar(a, b, n - 1, s)
    PROVE  MergedSoFar(a, b, n, MergeNext(s, (a \o b)[n]))
<1> DEFINE all == a \o b  error == all[n]
<1>0. /\ a \in Lists /\ b \in Lists /\ s \in Lists /\ Bounded(s) /\ Len(a) <= ErrorLimit
      /\ Len(a) \in Nat /\ Len(b) \in Nat /\ Len(s) \in Nat /\ Len(s) <= ErrorLimit
      /\ ErrorLimit \in Nat \ {0} /\ n \in Nat \ {0}
  BY HookConstants DEF MergedSoFar, Bounded, Lists
<1>1. /\ Len(all) = Len(a) + Len(b)
      /\ \A k \in 1..Len(a) : all[k] = a[k]
      /\ \A k \in 1..Len(all) : k > Len(a) => k - Len(a) \in 1..Len(b) /\ all[k] = b[k - Len(a)]
  BY <1>0 DEF Lists
<1>2. error \in Errors \cup {Empty} /\ error \in Elements(a) \cup Elements(b)
  <2>1. CASE n <= Len(a) BY <2>1, <1>0, <1>1 DEF Lists, Elements
  <2>2. CASE n > Len(a) BY <2>2, <1>0, <1>1 DEF Lists, Elements
  <2> QED BY <2>1, <2>2, <1>0
<1>3. \A k \in 1..n : k = n \/ k \in 1..(n - 1) BY <1>0
<1>4. CASE Len(s) >= ErrorLimit \/ error \in ToSet(s)
  <2>1. MergeNext(s, error) = s BY <1>4 DEF MergeNext
  <2>2. error \in Elements(s) \/ Len(s) = ErrorLimit BY <1>4, <1>0, ElementsAre
  <2>3. n > Len(a)
    <3> SUFFICES ASSUME n <= Len(a) PROVE FALSE BY <1>0
    <3>1. Len(s) = n - 1 /\ \A k \in 1..(n-1) : s[k] = a[k] BY <1>0 DEF MergedSoFar
    <3>2. Len(s) < ErrorLimit BY <3>1, <1>0
    <3>3. error \in Elements(s) BY <3>2, <2>2, <1>0
    <3>4. PICK k \in 1..(n-1) : s[k] = error BY <3>1, <3>3 DEF Elements
    <3>5. a[k] = a[n] /\ k \in 1..Len(a) /\ n \in 1..Len(a) /\ k # n BY <3>1, <3>4, <1>0, <1>1
    <3> QED BY <3>5 DEF Bounded, Distinct
  <2>4. n - 1 >= Len(a) BY <2>3, <1>0
  <2>5. ~(n <= Len(a)) BY <2>3, <1>0
  <2> QED BY <2>1, <2>2, <2>4, <2>5, <1>3 DEF MergedSoFar
<1>5. CASE ~(Len(s) >= ErrorLimit \/ error \in ToSet(s))
  <2> DEFINE t == Append(s, error)
  <2>1. MergeNext(s, error) = t BY <1>5 DEF MergeNext
  <2>2. Len(s) < ErrorLimit /\ error \notin Elements(s) BY <1>5, <1>0, ElementsAre
  <2>3. t \in Lists /\ Len(t) = Len(s) + 1 /\ t[Len(s) + 1] = error /\ \A k \in 1..Len(s) : t[k] = s[k]
    BY <1>0, <1>2 DEF Lists
  <2> HIDE DEF t
  <2>4. \A k \in 1..Len(t) : k = Len(s) + 1 \/ k \in 1..Len(s) BY <2>3, <1>0
  <2>5. Distinct(t)
    <3> SUFFICES ASSUME NEW k \in 1..Len(t), NEW m \in 1..Len(t), t[k] = t[m] PROVE k = m BY DEF Distinct
    <3>1. CASE k \in 1..Len(s) /\ m \in 1..Len(s) BY <3>1, <2>3, <1>0 DEF Bounded, Distinct
    <3>2. CASE k = Len(s) + 1 \/ m = Len(s) + 1 BY <3>2, <2>2, <2>3, <2>4 DEF Elements
    <3> QED BY <3>1, <3>2, <2>4
  <2>6. Bounded(t) BY <2>2, <2>3, <2>5, <1>0 DEF Bounded
  <2>7. Elements(t) = Elements(s) \cup {error}
    <3>1. \A k \in 1..Len(t) : t[k] \in Elements(s) \cup {error} BY <2>3, <2>4 DEF Elements
    <3>2. \A k \in 1..Len(s) : k \in 1..Len(t) /\ s[k] = t[k] BY <2>3, <1>0
    <3>3. Len(s) + 1 \in 1..Len(t) BY <2>3, <1>0
    <3> QED BY <3>1, <3>2, <3>3, <2>3 DEF Elements
  <2>8. Elements(t) \subseteq Elements(a) \cup Elements(b) BY <2>7, <1>2 DEF MergedSoFar
  <2>9. ASSUME n <= Len(a) PROVE Len(t) = n /\ \A k \in 1..n : t[k] = a[k]
    <3>1. Len(s) = n - 1 /\ \A k \in 1..(n-1) : s[k] = a[k] BY <2>9, <1>0 DEF MergedSoFar
    <3>2. error = a[n] BY <2>9, <1>0, <1>1
    <3> QED BY <3>1, <3>2, <2>3, <1>0, <1>3
  <2>10. ASSUME n >= Len(a) PROVE Starts(a, t)
    <3>1. CASE n = Len(a) BY <3>1, <2>9, <1>0 DEF Starts
    <3>2. CASE n # Len(a)
      <4>1. n - 1 >= Len(a) BY <3>2, <2>10, <1>0
      <4>2. Starts(a, s) BY <4>1 DEF MergedSoFar
      <4> QED BY <4>2, <2>3, <1>0 DEF Starts
    <3> QED BY <3>1, <3>2
  <2>11. \A k \in 1..n : all[k] \in Elements(t) \/ Len(t) = ErrorLimit
    BY <1>3, <2>2, <2>7, <1>0 DEF MergedSoFar
  <2> QED BY <2>1, <2>6, <2>8, <2>9, <2>10, <2>11 DEF MergedSoFar
<1> QED BY <1>4, <1>5

(* mergeErrors keeps what was there, in its place, and adds what is new until  *)
(* the list is full.                                                           *)
LEMMA MergeErrors ==
    ASSUME NEW a, Bounded(a), NEW b \in Lists
    PROVE  /\ Bounded(mergeErrors(a, b))
           /\ Starts(a, mergeErrors(a, b))
           /\ Elements(mergeErrors(a, b)) \subseteq Elements(a) \cup Elements(b)
           /\ \/ Elements(b) \subseteq Elements(mergeErrors(a, b))
              \/ Len(mergeErrors(a, b)) = ErrorLimit
<1> DEFINE all == a \o b
<1>0. a \in Lists /\ Len(a) \in Nat /\ Len(b) \in Nat BY DEF Bounded, Lists
<1>1. /\ Len(all) = Len(a) + Len(b) /\ Len(all) \in Nat
      /\ \A k \in 1..Len(b) : k + Len(a) \in 1..Len(all) /\ all[k + Len(a)] = b[k]
  BY <1>0 DEF Lists
<1>2. PICK h : MergedUpTo(all, Len(all), h) /\ mergeErrors(a, b) = h[Len(all)]
  BY <1>1, MergeIs
<1> DEFINE T == {n \in 0..Len(all) : ~MergedSoFar(a, b, n, h[n])}
<1>3. ASSUME T # {} PROVE FALSE
  <2>1. T \subseteq Nat /\ \A n \in 0..Len(all) : n \notin T <=> MergedSoFar(a, b, n, h[n]) BY <1>1
  <2>2. T \subseteq 0..Len(all) OBVIOUS
  <2>3. T # {} BY <1>3
  <2> HIDE DEF T
  <2>4. PICK n \in T : \A m \in T : n <= m BY <2>1, <2>3, LeastNumber
  <2>5. n \in 0..Len(all) /\ n \in Nat BY <2>1, <2>2
  <2>6. CASE n = 0
    <3>1. h[0] = <<>> BY <1>1, <1>2 DEF MergedUpTo
    <3>2. MergedSoFar(a, b, 0, <<>>)
      <4>1. <<>> \in Lists /\ Len(<<>>) = 0 BY DEF Lists
      <4>2. Bounded(<<>>) BY <4>1, HookConstants DEF Bounded, Distinct
      <4>3. 0 >= Len(a) => Len(a) = 0 BY <1>0
      <4> QED BY <4>1, <4>2, <4>3 DEF MergedSoFar, Elements, Starts
    <3> QED BY <3>1, <3>2, <2>1, <2>5, <2>6
  <2>7. CASE n # 0
    <3>1. n \in 1..Len(all) /\ n - 1 \in 0..Len(all) BY <2>5, <2>7
    <3>2. n - 1 \notin T BY <2>1, <2>4, <2>5, <3>1
    <3>3. MergedSoFar(a, b, n-1, h[n-1]) BY <2>1, <3>1, <3>2
    <3>4. h[n] = MergeNext(h[n-1], all[n]) BY <1>2, <2>5, <2>7 DEF MergedUpTo
    <3> QED BY <2>1, <2>5, <3>1, <3>3, <3>4, MergeNextKeeps
  <2> QED BY <2>6, <2>7
<1> DEFINE m == mergeErrors(a, b)
<1>4. MergedSoFar(a, b, Len(all), m)
  <2>1. Len(all) \in 0..Len(all) BY <1>1
  <2> QED BY <2>1, <1>2, <1>3
<1> HIDE DEF m
<1>5. Len(all) >= Len(a) BY <1>0, <1>1
<1>6. Elements(b) \subseteq Elements(m) \/ Len(m) = ErrorLimit BY <1>1, <1>4 DEF MergedSoFar, Elements
<1> QED BY <1>4, <1>5, <1>6 DEF MergedSoFar, m

LEMMA StartsIsPrefix ==
    ASSUME NEW s \in Lists, NEW t \in Lists, Starts(s, t)
    PROVE  IsPrefix(s, t)
<1>1. Len(s) \in Nat /\ Len(t) \in Nat /\ Len(s) <= Len(t) BY DEF Starts, Lists
<1>2. SubSeq(s, 1, Len(s)) = SubSeq(t, 1, Len(s))
  BY <1>1 DEF Starts, Lists
<1> QED BY <1>1, <1>2 DEF IsPrefix

(* appendBoundedError keeps the new error.                                     *)
LEMMA AppendBounded ==
    ASSUME NEW s \in Lists, NEW error \in Errors \cup {Empty}
    PROVE  /\ appendBoundedError(s, error) \in Lists
           /\ Elements(appendBoundedError(s, error)) \subseteq Elements(s) \cup {error}
           /\ error \in Elements(appendBoundedError(s, error))
           /\ s = <<>> => Bounded(appendBoundedError(s, error))
<1> DEFINE all == Append(s, error)
<1>0. Len(s) \in Nat /\ ErrorLimit \in Nat \ {0} BY HookConstants DEF Lists
<1>1. /\ all \in Lists /\ Len(all) = Len(s) + 1 /\ all[Len(s) + 1] = error
      /\ \A k \in 1..Len(s) : all[k] = s[k]
  BY DEF Lists
<1> DEFINE r == appendBoundedError(s, error)
<1> HIDE DEF all
<1>2. \A k \in 1..Len(all) : all[k] \in Elements(s) \cup {error}
  BY <1>0, <1>1 DEF Elements
<1>3. CASE Len(all) > ErrorLimit
  <2>1. r = SubSeq(all, Len(all) - ErrorLimit + 1, Len(all)) BY <1>3 DEF appendBoundedError, all
  <2>2. /\ r \in Lists /\ Len(r) = ErrorLimit
        /\ \A k \in 1..ErrorLimit : k + Len(all) - ErrorLimit \in 1..Len(all) /\ r[k] = all[k + Len(all) - ErrorLimit]
    BY <2>1, <1>0, <1>1, <1>3 DEF Lists
  <2> HIDE DEF r
  <2>3. Elements(r) \subseteq Elements(s) \cup {error}
    <3>1. \A k \in 1..Len(r) : r[k] \in Elements(s) \cup {error} BY <2>2, <1>2
    <3> QED BY <3>1 DEF Elements
  <2>4. r[ErrorLimit] = error /\ ErrorLimit \in 1..Len(r) BY <2>2, <1>0, <1>1
  <2>5. ASSUME s = <<>> PROVE Bounded(r)
    <3>1. Len(s) = 0 BY <2>5
    <3>2. ErrorLimit < 1 BY <3>1, <1>0, <1>1, <1>3
    <3> QED BY <3>2, <1>0
  <2> QED BY <2>2, <2>3, <2>4, <2>5 DEF Elements, r
<1>4. CASE ~(Len(all) > ErrorLimit)
  <2>1. r = all BY <1>4 DEF appendBoundedError, all
  <2> HIDE DEF r
  <2>2. Elements(r) \subseteq Elements(s) \cup {error} BY <2>1, <1>2 DEF Elements
  <2>3. error \in Elements(r) BY <2>1, <1>0, <1>1 DEF Elements
  <2>4. ASSUME s = <<>> PROVE Bounded(r)
    <3>1. Len(r) = 1 BY <2>1, <2>4, <1>1
    <3> QED BY <3>1, <2>1, <1>0, <1>1 DEF Bounded, Distinct
  <2> QED BY <2>1, <2>2, <2>3, <2>4, <1>1 DEF r
<1> QED BY <1>0, <1>1, <1>3, <1>4

(* The hook has its event in the journal.                                      *)
Past == {"session", "load", "sync", "save", "handoff", "capture"}

(* All a copy of the work state says comes from an event of the journal jl or  *)
(* a task of the ledger kn.                                                    *)
ErrorKnown(c, jl) == \E j \in jl : j.req.type = "error_observed" /\ j.req.error = c

ClosedBy(sstate, jl) ==
    sstate # "active" => \E j \in jl :
        j.req.type = IF sstate = "interrupted" THEN "session_interrupted" ELSE "session_clean_closed"

Grounded(state, jl, kn) ==
    /\ \E j \in jl : j.req.session = state.session
    /\ ClosedBy(state.sstate, jl)
    /\ state.active # Empty => state.active \in kn
    /\ state.test # Empty => \E j \in jl : j.key = state.test
    /\ \A c \in Elements(state.errors) : ErrorKnown(c, jl)

Shaped(state) == DOMAIN state = DOMAIN NoState /\ state.errors \in Lists

(* The error is in the saved list, or the list is full.                        *)
Saved(c, w) == c \in Elements(w.errors) \/ Len(w.errors) = ErrorLimit

(* What a hook is known to have: its event in the journal once it is inserted, *)
(* a copy that is accounted for, with its own error in it, and once that is    *)
(* saved, the error in the work state w.  Copies made before the first save    *)
(* are saved as they are.                                                      *)
HookOk(rec, jl, kn, w) ==
    /\ DOMAIN rec = DOMAIN Idle
    /\ rec.pc \in Past \cup {"idle", "insert"}
    /\ rec.pc # "idle" => rec.req \in Requests
    /\ rec.pc \in Past => [key |-> rec.key, req |-> rec.req] \in jl
    /\ rec.pc = "session" => rec.req.type \in SessionEvents
    /\ rec.pc \in {"sync", "save"} =>
          /\ Shaped(rec.state) /\ Grounded(rec.state, jl, kn)
          /\ rec.state.session = rec.req.session
          /\ rec.req.type = "error_observed" => rec.req.error \in Elements(rec.state.errors)
          /\ w = NoState => Bounded(rec.state.errors)
    /\ rec.pc \in {"handoff", "capture"} /\ rec.req.type = "error_observed" =>
          Saved(rec.req.error, w)

JournalOk ==
    /\ \A j \in journal : j.req \in Requests /\ j.key \in events
    /\ \A i, j \in journal : i.key = j.key => i = j

StateOk(w, jl, kn) ==
    /\ Shaped(w) /\ Bounded(w.errors)
    /\ w # NoState => Grounded(w, jl, kn)

SessionsOk ==
    /\ sessions = [s \in Sessions |-> sessions[s]]
    /\ \A s \in Sessions :
          /\ sessions[s] = "active" => \E j \in journal :
                j.req.type = "session_started" /\ j.req.session = s
          /\ sessions[s] = "clean_closed" => \E j \in journal :
                j.req.type = "session_clean_closed" /\ j.req.session = s

QueuedOk ==
    \A e \in queued : \E j \in journal :
        j.key = e /\ (j.req.type = "error_observed" => Saved(j.req.error, ws))

HookInvariant ==
    /\ hook = [h \in Hooks |-> hook[h]]
    /\ aborts \in Nat
    /\ JournalOk
    /\ StateOk(ws, journal, known)
    /\ SessionsOk
    /\ QueuedOk
    /\ \A h \in Hooks : HookOk(hook[h], journal, known, ws)

-------------------------------------------------------------------------------
(* The work state stays, or a hook saves and loses no error.                   *)
Grows(w, v) ==
    v = w \/ (v # NoState /\ Bounded(v.errors) /\ Starts(w.errors, v.errors))

LEMMA StartsKeeps ==
    ASSUME NEW s, NEW t, Bounded(s), Bounded(t), Starts(s, t)
    PROVE  Elements(s) \subseteq Elements(t) /\ (Len(s) = ErrorLimit => Len(t) = ErrorLimit)
<1>1. Len(s) \in Nat /\ Len(t) \in Nat /\ Len(s) <= Len(t) /\ Len(t) <= ErrorLimit /\ ErrorLimit \in Nat
  BY HookConstants DEF Bounded, Lists, Starts
<1> QED BY <1>1 DEF Starts, Elements

LEMMA SavedKept ==
    ASSUME NEW w, NEW v, Bounded(w.errors), Grows(w, v), NEW c, Saved(c, w)
    PROVE  Saved(c, v)
BY StartsKeeps DEF Grows, Saved

LEMMA GroundedKept ==
    ASSUME NEW state, NEW jl, NEW kn, Grounded(state, jl, kn), NEW j2, jl \subseteq j2, NEW k2, kn \subseteq k2
    PROVE  Grounded(state, j2, k2)
BY DEF Grounded, ErrorKnown, ClosedBy

LEMMA HookKept ==
    ASSUME NEW rec, NEW jl, NEW kn, NEW w, HookOk(rec, jl, kn, w), Bounded(w.errors),
           NEW j2, jl \subseteq j2, NEW k2, kn \subseteq k2, NEW v, Grows(w, v)
    PROVE  HookOk(rec, j2, k2, v)
<1>1. \A c : Saved(c, w) => Saved(c, v) BY SavedKept
<1>2. Grounded(rec.state, jl, kn) => Grounded(rec.state, j2, k2) BY GroundedKept
<1>3. v = NoState => w = NoState BY DEF Grows
<1> QED BY <1>1, <1>2, <1>3 DEF HookOk

(* A step of one hook: what it leaves is in order, and the tables only grow.   *)
LEMMA HookMoves ==
    ASSUME HookInvariant, NEW h \in Hooks, NEW rec, hook' = [hook EXCEPT ![h] = rec],
           HookOk(rec, journal', known', ws'),
           journal \subseteq journal', known \subseteq known', Grows(ws, ws'),
           aborts' \in Nat, JournalOk', StateOk(ws', journal', known'), SessionsOk', QueuedOk'
    PROVE  HookInvariant'
<1>1. hook' = [g \in Hooks |-> IF g = h THEN rec ELSE hook[g]] BY DEF HookInvariant
<1>2. hook' = [g \in Hooks |-> hook'[g]] BY <1>1
<1>3. ASSUME NEW g \in Hooks PROVE HookOk(hook'[g], journal', known', ws')
  <2>1. CASE g = h BY <2>1, <1>1
  <2>2. CASE g # h
    <3>1. hook'[g] = hook[g] BY <2>2, <1>1
    <3>2. HookOk(hook[g], journal, known, ws) /\ Bounded(ws.errors) BY DEF HookInvariant, StateOk
    <3> QED BY <3>1, <3>2, HookKept
  <2> QED BY <2>1, <2>2
<1> QED BY <1>2, <1>3 DEF HookInvariant

(* A step that leaves the journal, the ledger and the work state alone.        *)
LEMMA HookMovesAlone ==
    ASSUME HookInvariant, NEW h \in Hooks, NEW rec, hook' = [hook EXCEPT ![h] = rec],
           HookOk(rec, journal, known, ws),
           UNCHANGED <<ledgerVars, journal, ws>>, aborts' \in Nat, SessionsOk', QueuedOk'
    PROVE  HookInvariant'
<1>1. journal' = journal /\ known' = known /\ ws' = ws /\ events' = events BY DEF ledgerVars
<1>2. JournalOk' BY <1>1 DEF JournalOk, HookInvariant
<1>3. StateOk(ws', journal', known') BY <1>1 DEF HookInvariant
<1>4. Grows(ws, ws') BY <1>1 DEF Grows
<1> QED BY <1>1, <1>2, <1>3, <1>4, HookMoves

LEMMA Idles ==
    ASSUME NEW jl, NEW kn, NEW w PROVE HookOk(Idle, jl, kn, w)
BY DEF HookOk, Idle, Past

LEMMA SessionsQuiet ==
    ASSUME HookInvariant, sessions' = sessions, journal' = journal PROVE SessionsOk'
BY DEF HookInvariant, SessionsOk

LEMMA QueuedQuiet ==
    ASSUME HookInvariant, queued' = queued, journal' = journal, ws' = ws PROVE QueuedOk'
BY DEF HookInvariant, QueuedOk

-------------------------------------------------------------------------------
LEMMA HookInitially == HookInit => HookInvariant
<1> SUFFICES ASSUME HookInit PROVE HookInvariant OBVIOUS
<1>1. hook = [h \in Hooks |-> Idle] /\ journal = {} /\ ws = NoState /\ queued = {} /\ aborts = 0
      /\ sessions = [s \in Sessions |-> Absent]
  BY DEF HookInit
<1>2. <<>> \in Lists /\ Len(<<>>) = 0 BY DEF Lists
<1>3. Bounded(<<>>) BY <1>2, HookConstants DEF Bounded, Distinct
<1>4. StateOk(ws, journal, known) BY <1>1, <1>2, <1>3 DEF StateOk, Shaped, NoState
<1>5. Absent # "active" /\ Absent # "clean_closed"
  BY HookConstants DEF SessionState
<1>6. SessionsOk BY <1>1, <1>5 DEF SessionsOk
<1>7. \A h \in Hooks : HookOk(hook[h], journal, known, ws) BY <1>1, Idles
<1> QED BY <1>1, <1>4, <1>6, <1>7 DEF HookInvariant, JournalOk, QueuedOk

-------------------------------------------------------------------------------
(* A hook that only moves its program counter.                                 *)
LEMMA Moved ==
    ASSUME HookInvariant, NEW h \in Hooks, NEW step, Goto(h, step)
    PROVE  \E rec : /\ hook' = [hook EXCEPT ![h] = rec]
                    /\ DOMAIN rec = DOMAIN Idle
                    /\ rec.pc = step /\ rec.key = hook[h].key /\ rec.req = hook[h].req
                    /\ rec.state = hook[h].state /\ rec.prev = hook[h].prev
<1> DEFINE rec == [hook[h] EXCEPT !.pc = step]
<1>1. hook' = [hook EXCEPT ![h] = rec] BY DEF Goto
<1>2. DOMAIN hook[h] = DOMAIN Idle BY DEF HookInvariant, HookOk
<1>3. /\ DOMAIN rec = DOMAIN Idle /\ rec.pc = step /\ rec.key = hook[h].key /\ rec.req = hook[h].req
      /\ rec.state = hook[h].state /\ rec.prev = hook[h].prev
  BY <1>2 DEF Idle
<1> QED BY <1>1, <1>3

(* The ledger's transactions record the event and forget no task.              *)
LEMMA ProjectGrows ==
    ASSUME NEW e, NEW r, Project(e, r)
    PROVE  e \notin events /\ events' = events \cup {e} /\ known \subseteq known'
<1> USE DEF Insert
<1>1. CASE r.type = "task_started" BY <1>1 DEF Project, TaskStarted
<1>2. CASE r.type = "task_updated" BY <1>2 DEF Project, TaskUpdated
<1>3. CASE r.type = "task_failed" BY <1>3 DEF Project, TaskUnresolved
<1>4. CASE r.type = "task_blocked" BY <1>4 DEF Project, TaskUnresolved
<1>5. CASE r.type = "task_interrupted" BY <1>5 DEF Project, TaskUnresolved
<1>6. CASE r.type = "task_verified" BY <1>6 DEF Project, TaskVerified
<1>7. CASE r.type = "task_completed" BY <1>7 DEF Project, TaskCompleted, TaskCompletionRefused
<1>8. CASE r.type \notin TaskEvents BY <1>8 DEF Project, OtherEvent, TaskEvents
<1> QED BY <1>1, <1>2, <1>3, <1>4, <1>5, <1>6, <1>7, <1>8 DEF TaskEvents

LEMMA ReceiveKeeps ==
    ASSUME HookInvariant, NEW h \in Hooks, NEW e \in Events, NEW r \in Requests, Receive(h, e, r)
    PROVE  HookInvariant'
<1> DEFINE rec == [pc |-> "insert", key |-> e, req |-> r, state |-> NoState, prev |-> PreviousSession(r)]
<1>1. hook' = [hook EXCEPT ![h] = rec] BY DEF Receive, Submitted
<1>2. UNCHANGED <<ledgerVars, journal, sessions, ws, handoffs, queued, aborts>> BY DEF Receive, Submitted
<1>3. HookOk(rec, journal, known, ws) BY DEF HookOk, Idle, Past
<1> QED BY <1>1, <1>2, <1>3, HookMovesAlone, SessionsQuiet, QueuedQuiet DEF HookInvariant

(* Acknowledge, Refused and Abort.                                             *)
LEMMA EndKeeps ==
    ASSUME HookInvariant, NEW h \in Hooks, Finish(h),
           UNCHANGED <<ledgerVars, journal, sessions, ws, handoffs, queued>>, aborts' \in Nat
    PROVE  HookInvariant'
BY Idles, HookMovesAlone, SessionsQuiet, QueuedQuiet DEF Finish

LEMMA InsertKeeps ==
    ASSUME HookInvariant, NEW h \in Hooks, InsertEvent(h)
    PROVE  HookInvariant'
<1> DEFINE e == hook[h].key  r == hook[h].req  new == [key |-> e, req |-> r]
           step == IF r.type \in SessionEvents THEN "session" ELSE "load"
<1>1. /\ Project(e, r) /\ journal' = journal \cup {new} /\ Goto(h, step)
      /\ UNCHANGED <<sessions, ws, handoffs, queued, aborts>> /\ hook[h].pc = "insert"
  BY DEF InsertEvent, At
<1>2. e \notin events /\ events' = events \cup {e} /\ known \subseteq known' BY <1>1, ProjectGrows
<1>3. r \in Requests BY <1>1 DEF HookInvariant, HookOk
<1>4. JournalOk'
  <2>1. \A j \in journal : j.req \in Requests /\ j.key \in events /\ j.key # e
    BY <1>2 DEF HookInvariant, JournalOk
  <2>2. \A i, j \in journal : i.key = j.key => i = j BY DEF HookInvariant, JournalOk
  <2>3. new.key = e /\ new.req = r OBVIOUS
  <2> HIDE DEF new
  <2>4. \A j \in journal' : j.req \in Requests /\ j.key \in events' BY <2>1, <2>3, <1>1, <1>2, <1>3
  <2>5. \A i, j \in journal' : i.key = j.key => i = j BY <2>1, <2>2, <2>3, <1>1
  <2> QED BY <2>4, <2>5 DEF JournalOk
<1>5. journal \subseteq journal' /\ new \in journal' BY <1>1
<1>6. StateOk(ws', journal', known')
  BY <1>1, <1>2, <1>5, GroundedKept DEF HookInvariant, StateOk
<1>7. SessionsOk' BY <1>1, <1>5 DEF HookInvariant, SessionsOk
<1>8. QueuedOk' BY <1>1, <1>5 DEF HookInvariant, QueuedOk
<1>9. PICK rec : /\ hook' = [hook EXCEPT ![h] = rec]
                 /\ DOMAIN rec = DOMAIN Idle
                 /\ rec.pc = step /\ rec.key = e /\ rec.req = r
  BY <1>1, Moved
<1>10. HookOk(rec, journal', known', ws')
  BY <1>3, <1>5, <1>9 DEF HookOk, Past
<1>11. Grows(ws, ws') /\ aborts' \in Nat BY <1>1 DEF Grows, HookInvariant
<1> QED BY <1>2, <1>4, <1>5, <1>6, <1>7, <1>8, <1>9, <1>10, <1>11, HookMoves

LEMMA TouchKeeps ==
    ASSUME HookInvariant, NEW h \in Hooks, TouchSession(h)
    PROVE  HookInvariant'
<1> DEFINE r == hook[h].req
<1>1. /\ hook[h].pc = "session" /\ Goto(h, "load")
      /\ UNCHANGED <<ledgerVars, journal, ws, handoffs, queued, aborts>>
      /\ sessions' = [sessions EXCEPT ![r.session] =
                IF r.type = "session_started" THEN "active"
                ELSE IF @ = Absent THEN @ ELSE SessionStateOf(r, NoState)]
  BY DEF TouchSession, At
<1>2. /\ r \in Requests /\ r.type \in SessionEvents /\ r.session \in Sessions
      /\ [key |-> hook[h].key, req |-> r] \in journal
  BY <1>1, HookConstants DEF HookInvariant, HookOk, Past, Request
<1>3. PICK rec : /\ hook' = [hook EXCEPT ![h] = rec]
                 /\ DOMAIN rec = DOMAIN Idle
                 /\ rec.pc = "load" /\ rec.key = hook[h].key /\ rec.req = r
  BY <1>1, Moved
<1>4. HookOk(rec, journal, known, ws) BY <1>2, <1>3 DEF HookOk, Past
<1>5. PICK j \in journal : j.req = r BY <1>2
<1>6. SessionsOk'
  <2>1. sessions = [s \in Sessions |-> sessions[s]] BY DEF HookInvariant, SessionsOk
  <2>2. /\ sessions' = [s \in Sessions |-> sessions'[s]]
        /\ \A s \in Sessions : s # r.session => sessions'[s] = sessions[s]
        /\ sessions'[r.session] = IF r.type = "session_started" THEN "active"
                ELSE IF sessions[r.session] = Absent THEN sessions[r.session] ELSE SessionStateOf(r, NoState)
    BY <2>1, <1>1, <1>2
  <2>3. r.type # "session_started" => SessionStateOf(r, NoState) =
            IF r.type = "session_clean_closed" THEN "clean_closed" ELSE "interrupted"
    BY <1>2 DEF SessionStateOf, SessionEvents
  <2>4. Absent # "active" /\ Absent # "clean_closed" BY HookConstants DEF SessionState
  <2>5. /\ sessions'[r.session] = "active" => j.req.type = "session_started" /\ j.req.session = r.session
        /\ sessions'[r.session] = "clean_closed" =>
              j.req.type = "session_clean_closed" /\ j.req.session = r.session
    BY <2>2, <2>3, <2>4, <1>2, <1>5 DEF SessionEvents
  <2>6. ASSUME NEW s \in Sessions
        PROVE  /\ sessions'[s] = "active" => \E i \in journal :
                    i.req.type = "session_started" /\ i.req.session = s
               /\ sessions'[s] = "clean_closed" => \E i \in journal :
                    i.req.type = "session_clean_closed" /\ i.req.session = s
    <3>1. CASE s = r.session BY <3>1, <2>5
    <3>2. CASE s # r.session BY <3>2, <2>2 DEF HookInvariant, SessionsOk
    <3> QED BY <3>1, <3>2
  <2> QED BY <2>2, <2>6, <1>1 DEF SessionsOk
<1> QED BY <1>1, <1>3, <1>4, <1>6, HookMovesAlone, QueuedQuiet DEF HookInvariant

(* The fields of a copy once the event's evidence is applied.                  *)
LEMMA EvidenceApplied ==
    ASSUME NEW state, Shaped(state), NEW key, NEW r \in Requests
    PROVE  /\ DOMAIN applyEvidence(state, key, r) = DOMAIN NoState
           /\ applyEvidence(state, key, r).session = state.session
           /\ applyEvidence(state, key, r).sstate = state.sstate
           /\ applyEvidence(state, key, r).active = state.active
           /\ applyEvidence(state, key, r).test \in {key, state.test}
           /\ applyEvidence(state, key, r).errors =
                 IF r.type = "error_observed" THEN appendBoundedError(state.errors, r.error) ELSE state.errors
<1> DEFINE errors == IF r.type = "error_observed" THEN appendBoundedError(state.errors, r.error) ELSE state.errors
<1> HIDE DEF errors
<1>1. applyEvidence(state, key, r) = [state EXCEPT
            !.verified = state.verified \/ (r.claim /\ r.type \notin TaskEvents),
            !.status = IF r.claimed = Absent \/ (r.claimed = "completed" /\ ~ (state.verified \/ (r.claim /\ r.type \notin TaskEvents)))
                       THEN @ ELSE r.claimed,
            !.test = IF r.type \in {"tool_finished", "test_finished"} \/ r.command
                     THEN key ELSE @,
            !.errors = errors]
  BY DEF applyEvidence, errors
<1>2. DOMAIN state = {"active", "status", "verified", "session", "sstate", "test", "errors"}
  BY DEF Shaped, NoState
<1> DEFINE out == applyEvidence(state, key, r)
<1>3. /\ DOMAIN out = DOMAIN state /\ out.session = state.session /\ out.sstate = state.sstate
      /\ out.active = state.active /\ out.test \in {key, state.test} /\ out.errors = errors
  BY <1>1, <1>2
<1> QED BY <1>2, <1>3 DEF errors, NoState

LEMMA LoadKeeps ==
    ASSUME HookInvariant, NEW h \in Hooks, Load(h)
    PROVE  HookInvariant'
<1> DEFINE r == hook[h].req  key == hook[h].key
           loaded == [ws EXCEPT !.sstate = SessionStateOf(r, ws), !.session = r.session]
           state == applyEvidence(loaded, key, r)
           rec == [hook[h] EXCEPT !.pc = "sync", !.state = state]
<1>1. /\ hook[h].pc = "load"
      /\ UNCHANGED <<ledgerVars, journal, sessions, ws, handoffs, queued, aborts>>
      /\ hook' = [hook EXCEPT ![h] = rec]
  BY DEF Load, At
<1>2. /\ r \in Requests /\ r.session \in Sessions /\ r.error \in Errors \cup {Empty}
      /\ [key |-> key, req |-> r] \in journal
  BY <1>1, HookConstants DEF HookInvariant, HookOk, Past, Request
<1>3. PICK j \in journal : j.req = r /\ j.key = key BY <1>2
<1>4. Shaped(ws) /\ Bounded(ws.errors) /\ (ws # NoState => Grounded(ws, journal, known))
  BY DEF HookInvariant, StateOk
<1>5. /\ Shaped(loaded) /\ loaded.session = r.session /\ loaded.sstate = SessionStateOf(r, ws)
      /\ loaded.active = ws.active /\ loaded.test = ws.test /\ loaded.errors = ws.errors
  BY <1>4 DEF Shaped, NoState
<1> HIDE DEF loaded
<1>6. /\ DOMAIN state = DOMAIN NoState /\ state.session = r.session /\ state.sstate = SessionStateOf(r, ws)
      /\ state.active = ws.active /\ state.test \in {key, ws.test}
      /\ state.errors = IF r.type = "error_observed" THEN appendBoundedError(ws.errors, r.error) ELSE ws.errors
  BY <1>2, <1>5, EvidenceApplied
<1> HIDE DEF state
<1>7. /\ state.errors \in Lists
      /\ Elements(state.errors) \subseteq
            Elements(ws.errors) \cup (IF r.type = "error_observed" THEN {r.error} ELSE {})
      /\ r.type = "error_observed" => r.error \in Elements(state.errors)
      /\ ws = NoState => Bounded(state.errors)
  <2>1. ws.errors \in Lists BY <1>4 DEF Shaped
  <2>2. ws = NoState => ws.errors = <<>> BY DEF NoState
  <2>3. CASE r.type = "error_observed" BY <2>1, <2>2, <2>3, <1>2, <1>6, AppendBounded
  <2>4. CASE r.type # "error_observed" BY <2>1, <2>4, <1>4, <1>6
  <2> QED BY <2>3, <2>4
<1>8. Grounded(state, journal, known)
  <2>1. ClosedBy(state.sstate, journal)
    <3> SUFFICES ASSUME state.sstate # "active"
                 PROVE  \E i \in journal : i.req.type = IF state.sstate = "interrupted"
                            THEN "session_interrupted" ELSE "session_clean_closed"
      BY DEF ClosedBy
    <3>1. CASE r.type = "session_clean_closed" BY <3>1, <1>3, <1>6 DEF SessionStateOf
    <3>2. CASE r.type = "session_interrupted" BY <3>2, <1>3, <1>6 DEF SessionStateOf
    <3>3. CASE r.type = "assistant_final" /\ ws.session = r.session /\ ws.sstate = "clean_closed"
      <4>1. ws # NoState BY <3>3 DEF NoState
      <4>2. state.sstate = ws.sstate BY <3>3, <1>6 DEF SessionStateOf
      <4> QED BY <4>1, <4>2, <3>3, <1>4 DEF Grounded, ClosedBy
    <3> QED BY <3>1, <3>2, <3>3, <1>6 DEF SessionStateOf
  <2>2. state.active # Empty => state.active \in known
    BY <1>4, <1>6 DEF Grounded, NoState
  <2>3. state.test # Empty => \E i \in journal : i.key = state.test
    BY <1>3, <1>4, <1>6 DEF Grounded, NoState
  <2>4. \A c \in Elements(state.errors) : ErrorKnown(c, journal)
    <3>1. \A c \in Elements(ws.errors) : ErrorKnown(c, journal)
      <4>1. CASE ws = NoState BY <4>1 DEF NoState, Elements
      <4>2. CASE ws # NoState BY <4>2, <1>4 DEF Grounded
      <4> QED BY <4>1, <4>2
    <3>2. r.type = "error_observed" => ErrorKnown(r.error, journal) BY <1>3 DEF ErrorKnown
    <3> QED BY <3>1, <3>2, <1>7
  <2> QED BY <2>1, <2>2, <2>3, <2>4, <1>3, <1>6 DEF Grounded
<1>9. /\ DOMAIN rec = DOMAIN Idle /\ rec.pc = "sync" /\ rec.key = key /\ rec.req = r /\ rec.state = state
  <2>1. DOMAIN hook[h] = DOMAIN Idle BY DEF HookInvariant, HookOk
  <2> QED BY <2>1 DEF Idle
<1> HIDE DEF rec
<1>10. HookOk(rec, journal, known, ws)
  BY <1>2, <1>6, <1>7, <1>8, <1>9 DEF HookOk, Past, Shaped
<1> QED BY <1>1, <1>10, HookMovesAlone, SessionsQuiet, QueuedQuiet DEF HookInvariant

LEMMA SyncKeeps ==
    ASSUME HookInvariant, NEW h \in Hooks, syncTaskStateFromLedger(h)
    PROVE  HookInvariant'
<1> DEFINE r == hook[h].req  state == hook[h].state
           t == IF r.task = Absent THEN state.active ELSE r.task
           mirrors == r.type \in TaskEvents \/ r.task = state.active
           next == IF mirrors /\ t \in known
                   THEN [state EXCEPT !.active = t, !.status = tasks[t].status, !.verified = tasks[t].verified]
                   ELSE state
           rec == [hook[h] EXCEPT !.pc = "save", !.state = next]
<1>1. /\ hook[h].pc = "sync"
      /\ UNCHANGED <<ledgerVars, journal, sessions, ws, handoffs, queued, aborts>>
      /\ hook' = [hook EXCEPT ![h] = rec]
  BY DEF syncTaskStateFromLedger, At
<1>2. HookOk(hook[h], journal, known, ws) BY DEF HookInvariant
<1>3. /\ DOMAIN next = DOMAIN NoState /\ next.session = state.session /\ next.sstate = state.sstate
      /\ next.test = state.test /\ next.errors = state.errors
      /\ next.active = state.active \/ next.active \in known
  <2>1. DOMAIN state = DOMAIN NoState BY <1>1, <1>2 DEF HookOk, Shaped
  <2>2. CASE mirrors /\ t \in known BY <2>1, <2>2 DEF NoState
  <2>3. CASE ~(mirrors /\ t \in known) BY <2>1, <2>3
  <2> QED BY <2>2, <2>3
<1> HIDE DEF next
<1>4. Shaped(next) /\ Grounded(next, journal, known)
  BY <1>1, <1>2, <1>3 DEF HookOk, Shaped, Grounded
<1>5. DOMAIN rec = DOMAIN Idle /\ rec.pc = "save" /\ rec.key = hook[h].key /\ rec.req = r /\ rec.state = next
  BY <1>2 DEF Idle, HookOk
<1> HIDE DEF rec
<1>6. HookOk(rec, journal, known, ws)
  BY <1>1, <1>2, <1>3, <1>4, <1>5 DEF HookOk, Past
<1> QED BY <1>1, <1>6, HookMovesAlone, SessionsQuiet, QueuedQuiet DEF HookInvariant

(* What a save of a copy over a row leaves.                                    *)
MergedInto(w, next, out) ==
    /\ Shaped(out) /\ Bounded(out.errors) /\ Starts(w.errors, out.errors)
    /\ out.session = next.session /\ out.sstate = next.sstate
    /\ out.active \in {next.active, w.active} /\ out.test \in {next.test, w.test}
    /\ Elements(out.errors) \subseteq Elements(w.errors) \cup Elements(next.errors)
    /\ Elements(next.errors) \subseteq Elements(out.errors) \/ Len(out.errors) = ErrorLimit

LEMMA MergedState ==
    ASSUME NEW w, Shaped(w), Bounded(w.errors), NEW next, Shaped(next)
    PROVE  MergedInto(w, next, mergeWorkState(w, next))
<1> DEFINE out == mergeWorkState(w, next)
           errors == mergeErrors(w.errors, next.errors)
<1>1. DOMAIN next = {"active", "status", "verified", "session", "sstate", "test", "errors"}
  BY DEF Shaped, NoState
<1>2. /\ DOMAIN out = DOMAIN next /\ out.session = next.session /\ out.sstate = next.sstate
      /\ out.active \in {next.active, w.active} /\ out.test \in {next.test, w.test}
      /\ out.errors = errors
  <2> HIDE DEF errors
  <2>1. out = [next EXCEPT
        !.active = IF @ = Empty THEN w.active ELSE @,
        !.status = IF @ = "in_progress" /\ w.status = "completed" /\ ~ next.verified
                   THEN "completed" ELSE @,
        !.verified = @ \/ w.verified,
        !.test = IF @ = Empty THEN w.test ELSE @,
        !.errors = errors]
    BY DEF mergeWorkState, errors
  <2> HIDE DEF out
  <2> QED BY <2>1, <1>1
<1>3. /\ Bounded(errors) /\ Starts(w.errors, errors)
      /\ Elements(errors) \subseteq Elements(w.errors) \cup Elements(next.errors)
      /\ Elements(next.errors) \subseteq Elements(errors) \/ Len(errors) = ErrorLimit
  BY MergeErrors DEF Shaped
<1> HIDE DEF out, errors
<1>4. Shaped(out) BY <1>1, <1>2, <1>3 DEF Shaped, Bounded, NoState
<1> QED BY <1>2, <1>3, <1>4 DEF out, MergedInto

(* What a save puts in the row: the copy, or what it is merged to.             *)
LEMMA SaveLeaves ==
    ASSUME HookInvariant, NEW h \in Hooks, Save(h)
    PROVE  /\ StateOk(ws', journal, known) /\ ws' # NoState /\ Grows(ws, ws')
           /\ Elements(hook[h].state.errors) \subseteq Elements(ws'.errors) \/ Len(ws'.errors) = ErrorLimit
<1> DEFINE state == hook[h].state
<1>1. hook[h].pc = "save" /\ ws' = IF ws = NoState THEN state ELSE mergeWorkState(ws, state)
  BY DEF Save, At
<1>2. HookOk(hook[h], journal, known, ws) BY DEF HookInvariant
<1>3. /\ Shaped(state) /\ Grounded(state, journal, known)
      /\ state.session = hook[h].req.session
      /\ hook[h].req \in Requests
      /\ ws = NoState => Bounded(state.errors)
  BY <1>1, <1>2 DEF HookOk
<1>4. state.session \in Sessions BY <1>3, HookConstants DEF Request
<1>5. Shaped(ws) /\ Bounded(ws.errors) /\ (ws # NoState => Grounded(ws, journal, known))
  BY DEF HookInvariant, StateOk
<1>6. \A v : v.session \in Sessions => v # NoState BY HookConstants DEF NoState
<1>7. CASE ws = NoState
  <2>1. ws' = state BY <1>1, <1>7
  <2>2. Starts(ws.errors, state.errors)
    <3>1. Len(ws.errors) = 0 /\ Len(state.errors) \in Nat BY <1>3, <1>7 DEF NoState, Shaped, Lists
    <3> QED BY <3>1 DEF Starts
  <2> QED BY <2>1, <2>2, <1>3, <1>4, <1>6, <1>7 DEF StateOk, Grows
<1>8. CASE ws # NoState
  <2> DEFINE out == mergeWorkState(ws, state)
  <2>1. ws' = out BY <1>1, <1>8
  <2>2. MergedInto(ws, state, out) BY <1>3, <1>5, MergedState
  <2> HIDE DEF out
  <2>3. Grounded(out, journal, known) BY <2>2, <1>3, <1>5, <1>8 DEF Grounded, MergedInto
  <2>4. out # NoState BY <2>2, <1>4, <1>6 DEF MergedInto
  <2> QED BY <2>1, <2>2, <2>3, <2>4 DEF StateOk, Grows, MergedInto
<1> QED BY <1>7, <1>8

LEMMA SaveKeeps ==
    ASSUME HookInvariant, NEW h \in Hooks, Save(h)
    PROVE  HookInvariant'
<1> DEFINE step == IF hook[h].prev # Empty THEN "handoff" ELSE "capture"
<1>1. /\ hook[h].pc = "save" /\ Goto(h, step)
      /\ UNCHANGED <<ledgerVars, journal, sessions, handoffs, queued, aborts>>
  BY DEF Save, At
<1>2. PICK rec : /\ hook' = [hook EXCEPT ![h] = rec]
                 /\ DOMAIN rec = DOMAIN Idle
                 /\ rec.pc = step /\ rec.key = hook[h].key /\ rec.req = hook[h].req
  BY <1>1, Moved
<1>3. /\ StateOk(ws', journal, known) /\ ws' # NoState /\ Grows(ws, ws')
      /\ Elements(hook[h].state.errors) \subseteq Elements(ws'.errors) \/ Len(ws'.errors) = ErrorLimit
  BY SaveLeaves
<1>4. HookOk(hook[h], journal, known, ws) BY DEF HookInvariant
<1>5. HookOk(rec, journal, known, ws') BY <1>1, <1>2, <1>3, <1>4 DEF HookOk, Past, Saved
<1>6. QueuedOk'
  <2>1. \A c : Saved(c, ws) => Saved(c, ws') BY <1>3, SavedKept DEF HookInvariant, StateOk
  <2> QED BY <2>1, <1>1 DEF QueuedOk, HookInvariant
<1>7. JournalOk' BY <1>1 DEF JournalOk, HookInvariant
<1>8. /\ journal' = journal /\ known' = known /\ aborts' \in Nat /\ SessionsOk'
  BY <1>1, SessionsQuiet DEF HookInvariant
<1> QED BY <1>2, <1>3, <1>5, <1>6, <1>7, <1>8, HookMoves

LEMMA HandoffKeeps ==
    ASSUME HookInvariant, NEW h \in Hooks, RecordHandoff(h)
    PROVE  HookInvariant'
<1>1. /\ hook[h].pc = "handoff" /\ Goto(h, "capture")
      /\ UNCHANGED <<ledgerVars, journal, sessions, ws, queued, aborts>>
  BY DEF RecordHandoff, At
<1>2. PICK rec : /\ hook' = [hook EXCEPT ![h] = rec]
                 /\ DOMAIN rec = DOMAIN Idle
                 /\ rec.pc = "capture" /\ rec.key = hook[h].key /\ rec.req = hook[h].req
  BY <1>1, Moved
<1>3. HookOk(rec, journal, known, ws) BY <1>1, <1>2 DEF HookInvariant, HookOk, Past
<1> QED BY <1>1, <1>2, <1>3, HookMovesAlone, SessionsQuiet, QueuedQuiet DEF HookInvariant

LEMMA CaptureKeeps ==
    ASSUME HookInvariant, NEW h \in Hooks, captureMemory(h)
    PROVE  HookInvariant'
<1>1. /\ hook[h].pc = "capture" /\ Finish(h)
      /\ queued' = queued \/ queued' = queued \cup {hook[h].key}
      /\ UNCHANGED <<ledgerVars, journal, sessions, ws, handoffs, aborts>>
  BY DEF captureMemory, At
<1>2. HookOk(hook[h], journal, known, ws) BY DEF HookInvariant
<1>3. \E j \in journal : j.key = hook[h].key /\ (j.req.type = "error_observed" => Saved(j.req.error, ws))
  <2>1. PICK j \in journal : j = [key |-> hook[h].key, req |-> hook[h].req] BY <1>1, <1>2 DEF HookOk, Past
  <2>2. j.key = hook[h].key /\ j.req = hook[h].req BY <2>1
  <2> QED BY <2>2, <1>1, <1>2 DEF HookOk
<1>4. QueuedOk' BY <1>1, <1>3 DEF HookInvariant, QueuedOk
<1> QED BY <1>1, <1>4, Idles, HookMovesAlone, SessionsQuiet DEF HookInvariant, Finish

LEMMA HookStep == HookInvariant /\ [HookNext]_hookVars => HookInvariant'
<1> SUFFICES ASSUME HookInvariant, [HookNext]_hookVars PROVE HookInvariant' OBVIOUS
<1>1. ASSUME NEW h \in Hooks, Acknowledge(h) \/ Refused(h) \/ Abort(h) PROVE HookInvariant'
  BY <1>1, EndKeeps DEF Acknowledge, Refused, Abort, HookInvariant
<1>2. CASE UNCHANGED hookVars
  <2>1. /\ hook' = hook /\ aborts' = aborts /\ journal' = journal /\ ws' = ws /\ known' = known /\ events' = events
        /\ sessions' = sessions /\ queued' = queued
    BY <1>2 DEF hookVars
  <2> QED BY <2>1, SessionsQuiet, QueuedQuiet DEF HookInvariant, JournalOk
<1> QED BY <1>1, <1>2, ReceiveKeeps, InsertKeeps, TouchKeeps, LoadKeeps, SyncKeeps, SaveKeeps,
           HandoffKeeps, CaptureKeeps DEF HookNext

LEMMA HookHolds == HookSpec => []HookInvariant
BY HookInitially, HookStep, PTL DEF HookSpec

-------------------------------------------------------------------------------
LEMMA SavedReflects ==
    ASSUME HookInvariant, NEW c
    PROVE  Saved(c, ws) <=> c \in ToSet(ws.errors) \/ Len(ws.errors) = ErrorLimit
BY ElementsAre DEF HookInvariant, StateOk, Shaped, Saved

(* The work state, the sessions and the mirror of the ledger say nothing that  *)
(* no event has said before, for any number of hooks that load, save, stop     *)
(* half-way and overtake one another (Handle inserts the event first).         *)
THEOREM WorkStateGroundedHolds == HookSpec => []WorkStateGrounded
<1>1. HookInvariant => WorkStateGrounded
  <2> SUFFICES ASSUME HookInvariant PROVE WorkStateGrounded OBVIOUS
  <2>1. ToSet(ws.errors) = Elements(ws.errors) BY ElementsAre DEF HookInvariant, StateOk, Shaped
  <2>2. ws # NoState => Grounded(ws, journal, known) BY DEF HookInvariant, StateOk
  <2>3. \A c : ErrorKnown(c, journal) => \E j \in Recorded("error_observed") : j.req.error = c
    BY DEF ErrorKnown, Recorded
  <2>4. \A s \in Sessions :
          /\ sessions[s] = "active" => \E j \in Recorded("session_started") : j.req.session = s
          /\ sessions[s] = "clean_closed" => \E j \in Recorded("session_clean_closed") : j.req.session = s
    BY DEF HookInvariant, SessionsOk, Recorded
  <2> QED BY <2>1, <2>2, <2>3, <2>4 DEF WorkStateGrounded, Grounded, ClosedBy
<1> QED BY <1>1, HookHolds, PTL

(* Whatever is queued for the remote memory has its event and its error in the *)
(* local tables, for any number of hooks, killed or not (captureMemory).       *)
THEOREM RemoteAfterLocalHolds == HookSpec => []RemoteAfterLocal
<1>1. HookInvariant => RemoteAfterLocal
  BY SavedReflects DEF HookInvariant, QueuedOk, RemoteAfterLocal
<1> QED BY <1>1, HookHolds, PTL

(* No hook's stale copy removes or reorders an error another one has saved,    *)
(* for any number of hooks and errors (mergeErrors).                           *)
THEOREM ErrorsKeptHolds == HookSpec => ErrorsKept
<1>1. HookInvariant /\ HookInvariant' /\ [HookNext]_hookVars => [IsPrefix(ws.errors, ws'.errors)]_hookVars
  <2> SUFFICES ASSUME HookInvariant, HookInvariant', HookNext PROVE IsPrefix(ws.errors, ws'.errors)
    OBVIOUS
  <2>1. ws.errors \in Lists /\ ws'.errors \in Lists BY DEF HookInvariant, StateOk, Shaped
  <2>2. CASE ws' = ws
    <3>1. Starts(ws.errors, ws.errors) BY <2>1 DEF Starts, Lists
    <3> QED BY <3>1, <2>1, <2>2, StartsIsPrefix
  <2>3. CASE \E h \in Hooks : Save(h)
    <3>1. Grows(ws, ws') BY <2>3, SaveLeaves
    <3> QED BY <3>1, <2>1, <2>2, StartsIsPrefix DEF Grows
  <2>4. ws' = ws \/ \E h \in Hooks : Save(h)
    BY DEF HookNext, Receive, Submitted, InsertEvent, Acknowledge, Refused, TouchSession, Load,
       syncTaskStateFromLedger, RecordHandoff, captureMemory, Abort
  <2> QED BY <2>2, <2>3, <2>4
<1> QED BY <1>1, HookHolds, HookStep, PTL DEF HookSpec, ErrorsKept

-------------------------------------------------------------------------------
(* A recorded error is saved, or the hook that inserted it is on its way.      *)
Flying(h, key) == hook[h].key = key /\ hook[h].pc \in {"session", "load", "sync", "save"}

OnItsWay(j) == Saved(j.req.error, ws) \/ \E h \in Hooks : Flying(h, j.key)

ErrorsOnTheirWay == aborts = 0 => \A j \in Recorded("error_observed") : OnItsWay(j)

(* The steps that leave the journal and the work state, and no hook off the    *)
(* way to its save.                                                            *)
LEMMA StillOnItsWay ==
    ASSUME HookInvariant, ErrorsOnTheirWay, journal' = journal, ws' = ws, aborts' = aborts,
           \A h \in Hooks : \A key : Flying(h, key) => Flying(h, key)'
    PROVE  ErrorsOnTheirWay'
BY DEF ErrorsOnTheirWay, OnItsWay, Recorded

LEMMA Elsewhere ==
    ASSUME HookInvariant, NEW h \in Hooks, NEW rec, hook' = [hook EXCEPT ![h] = rec]
    PROVE  hook'[h] = rec /\ \A g \in Hooks : g # h => hook'[g] = hook[g]
BY DEF HookInvariant

LEMMA ErrorsStep ==
    ASSUME HookInvariant, ErrorsOnTheirWay, [HookNext]_hookVars
    PROVE  ErrorsOnTheirWay'
<1> USE DEF At
<1>1. ASSUME NEW h \in Hooks, NEW e \in Events, NEW r \in Requests, Receive(h, e, r)
      PROVE  ErrorsOnTheirWay'
  <2> DEFINE rec == [pc |-> "insert", key |-> e, req |-> r, state |-> NoState, prev |-> PreviousSession(r)]
  <2>1. hook' = [hook EXCEPT ![h] = rec] /\ hook[h].pc = "idle"
        /\ journal' = journal /\ ws' = ws /\ aborts' = aborts
    BY <1>1 DEF Receive, Submitted
  <2> HIDE DEF rec
  <2> QED BY <2>1, Elsewhere, StillOnItsWay DEF Flying
<1>2. ASSUME NEW h \in Hooks, Acknowledge(h) \/ Refused(h) \/ captureMemory(h)
      PROVE  ErrorsOnTheirWay'
  <2>1. hook' = [hook EXCEPT ![h] = Idle] /\ hook[h].pc \in {"insert", "capture"}
        /\ journal' = journal /\ ws' = ws /\ aborts' = aborts
    BY <1>2 DEF Acknowledge, Refused, captureMemory, Finish
  <2> QED BY <2>1, Elsewhere, StillOnItsWay DEF Flying
<1>3. ASSUME NEW h \in Hooks, Abort(h) PROVE ErrorsOnTheirWay'
  <2>1. aborts' = aborts + 1 /\ aborts \in Nat BY <1>3 DEF Abort, HookInvariant
  <2> QED BY <2>1 DEF ErrorsOnTheirWay
<1>4. ASSUME NEW h \in Hooks, TouchSession(h) \/ RecordHandoff(h) PROVE ErrorsOnTheirWay'
  <2>1. PICK step \in {"load", "capture"} :
            /\ Goto(h, step)
            /\ journal' = journal /\ ws' = ws /\ aborts' = aborts
            /\ step = "capture" => hook[h].pc = "handoff"
    BY <1>4 DEF TouchSession, RecordHandoff
  <2>2. PICK rec : /\ hook' = [hook EXCEPT ![h] = rec]
                   /\ rec.pc = step /\ rec.key = hook[h].key
    BY <2>1, Moved
  <2> QED BY <2>1, <2>2, Elsewhere, StillOnItsWay DEF Flying
<1>5. ASSUME NEW h \in Hooks, Load(h) \/ syncTaskStateFromLedger(h) PROVE ErrorsOnTheirWay'
  <2>0. PICK step \in {"sync", "save"} : \E state :
            hook' = [hook EXCEPT ![h].pc = step, ![h].state = state]
    BY <1>5 DEF Load, syncTaskStateFromLedger
  <2>1. PICK state : hook' = [hook EXCEPT ![h].pc = step, ![h].state = state] BY <2>0
  <2> DEFINE rec == [hook[h] EXCEPT !.pc = step, !.state = state]
  <2>2. hook' = [hook EXCEPT ![h] = rec] BY <2>1
  <2>3. DOMAIN hook[h] = DOMAIN Idle BY DEF HookInvariant, HookOk
  <2>4. rec.pc = step /\ rec.key = hook[h].key BY <2>3 DEF Idle
  <2> HIDE DEF rec
  <2>5. hook'[h] = rec /\ \A g \in Hooks : g # h => hook'[g] = hook[g] BY <2>2, Elsewhere
  <2>6. journal' = journal /\ ws' = ws /\ aborts' = aborts BY <1>5 DEF Load, syncTaskStateFromLedger
  <2>7. \A g \in Hooks : \A key : Flying(g, key) => Flying(g, key)' BY <2>4, <2>5 DEF Flying
  <2> QED BY <2>6, <2>7, StillOnItsWay
<1>6. ASSUME NEW h \in Hooks, InsertEvent(h) PROVE ErrorsOnTheirWay'
  <2>0. PICK new : new = [key |-> hook[h].key, req |-> hook[h].req] OBVIOUS
  <2> DEFINE step == IF hook[h].req.type \in SessionEvents THEN "session" ELSE "load"
  <2>1. /\ journal' = journal \cup {new} /\ Goto(h, step) /\ hook[h].pc = "insert"
        /\ ws' = ws /\ aborts' = aborts
    BY <1>6, <2>0 DEF InsertEvent
  <2>2. PICK rec : hook' = [hook EXCEPT ![h] = rec] /\ rec.pc = step /\ rec.key = hook[h].key
    BY <2>1, Moved
  <2>3. hook'[h] = rec /\ \A g \in Hooks : g # h => hook'[g] = hook[g] BY <2>2, Elsewhere
  <2>4. Flying(h, new.key)' BY <2>0, <2>2, <2>3 DEF Flying
  <2>5. \A g \in Hooks : \A key : Flying(g, key) => Flying(g, key)' BY <2>1, <2>3 DEF Flying
  <2>6. ASSUME aborts' = 0, NEW j \in journal', j.req.type = "error_observed" PROVE OnItsWay(j)'
    <3>1. CASE j = new BY <3>1, <2>4 DEF OnItsWay
    <3>2. CASE j \in journal
      <4>1. OnItsWay(j) BY <3>2, <2>6, <2>1 DEF ErrorsOnTheirWay, Recorded
      <4> QED BY <4>1, <2>1, <2>5 DEF OnItsWay
    <3> QED BY <3>1, <3>2, <2>1
  <2> QED BY <2>6 DEF ErrorsOnTheirWay, Recorded
<1>7. ASSUME NEW h \in Hooks, Save(h) PROVE ErrorsOnTheirWay'
  <2> DEFINE step == IF hook[h].prev # Empty THEN "handoff" ELSE "capture"
  <2>1. /\ hook[h].pc = "save" /\ Goto(h, step) /\ journal' = journal /\ aborts' = aborts
    BY <1>7 DEF Save
  <2>2. PICK rec : hook' = [hook EXCEPT ![h] = rec] BY <2>1, Moved
  <2>3. \A g \in Hooks : g # h => hook'[g] = hook[g] BY <2>2, Elsewhere
  <2>4. /\ Grows(ws, ws')
        /\ Elements(hook[h].state.errors) \subseteq Elements(ws'.errors) \/ Len(ws'.errors) = ErrorLimit
    BY <1>7, SaveLeaves
  <2>5. \A c : Saved(c, ws) => Saved(c, ws') BY <2>4, SavedKept DEF HookInvariant, StateOk
  <2>6. ASSUME aborts' = 0, NEW j \in journal, j.req.type = "error_observed" PROVE OnItsWay(j)'
    <3>1. OnItsWay(j) BY <2>6, <2>1 DEF ErrorsOnTheirWay, Recorded
    <3>2. CASE Saved(j.req.error, ws) BY <3>2, <2>5 DEF OnItsWay
    <3>3. CASE \E g \in Hooks : g # h /\ Flying(g, j.key)
      BY <3>3, <2>3 DEF OnItsWay, Flying
    <3>4. CASE Flying(h, j.key)
      <4>1. HookOk(hook[h], journal, known, ws) BY DEF HookInvariant
      <4>2. PICK i \in journal : i = [key |-> hook[h].key, req |-> hook[h].req]
        BY <4>1, <2>1 DEF HookOk, Past
      <4>3. i.key = hook[h].key /\ i.req = hook[h].req BY <4>2
      <4>4. i = j BY <4>3, <3>4 DEF Flying, HookInvariant, JournalOk
      <4>5. j.req.error \in Elements(hook[h].state.errors)
        BY <4>1, <4>3, <4>4, <2>1, <2>6 DEF HookOk
      <4> QED BY <4>5, <2>4 DEF OnItsWay, Saved
    <3> QED BY <3>1, <3>2, <3>3, <3>4 DEF OnItsWay
  <2> QED BY <2>1, <2>6 DEF ErrorsOnTheirWay, Recorded
<1>8. CASE UNCHANGED hookVars
  BY <1>8, StillOnItsWay DEF hookVars, Flying
<1> QED BY <1>1, <1>2, <1>3, <1>4, <1>5, <1>6, <1>7, <1>8 DEF HookNext

(* As long as no hook stops half-way, every error the journal holds is in the  *)
(* work state, whose list may be full, or carried there by the hook that       *)
(* inserted it, for any number of hooks that save over one another.            *)
THEOREM ErrorsReflectedHolds == HookSpec => []ErrorsReflected
<1>1. HookInit => ErrorsOnTheirWay BY DEF HookInit, ErrorsOnTheirWay, Recorded
<1>2. HookInvariant /\ ErrorsOnTheirWay => ErrorsReflected
  BY SavedReflects DEF ErrorsOnTheirWay, OnItsWay, Flying, ErrorsReflected, Reflected, InFlight
<1>3. HookInvariant /\ ErrorsOnTheirWay /\ [HookNext]_hookVars => ErrorsOnTheirWay' BY ErrorsStep
<1> QED BY <1>1, <1>2, <1>3, HookHolds, PTL DEF HookSpec

-------------------------------------------------------------------------------
Inside == {"persist", "write", "release"}

(* A process inside the lock owns the file; a file that is stale belongs to    *)
(* nobody, and is the one the process about to remove it has found.  A process *)
(* about to write holds a version newer than the checkpoint.                   *)
LockHeld ==
    /\ \A p \in Procs : pc[p] \in Inside => owner = p /\ lock = "fresh"
    /\ lock = "stale" => owner = None
    /\ \A p \in Procs : pc[p] = "remove" => lock = "stale"
    /\ \A p, q \in Procs : pc[p] = "remove" /\ pc[q] = "remove" => p = q
    /\ checkpoint <= db
    /\ \A p \in Procs : pc[p] = "write" => checkpoint < data[p] /\ data[p] <= db

(* Without a kill a file has a live owner, so it never grows stale.            *)
LockAlive == ~ contended /\ lock # "stale" /\ (lock = "fresh" => owner # None)

LockInvariant ==
    /\ LockTypeOK
    /\ lapses = 0 /\ ~ contended => LockHeld
    /\ lapses = 0 /\ crashes = 0 => LockAlive

(* Nothing is locked and nothing is written at first. *)
LEMMA LockInitially == LockInit => LockInvariant
<1> SUFFICES ASSUME LockInit PROVE LockInvariant
  OBVIOUS
<1>1. LockTypeOK
  <2>1. contended \in BOOLEAN BY DEF LockInit
  <2> QED BY <2>1, LockConstants DEF LockInit, LockTypeOK, Steps
<1>2. LockHeld
  BY DEF LockInit, LockHeld, Inside
<1>3. LockAlive
  <2>1. ~ contended BY DEF LockInit
  <2> QED BY <2>1 DEF LockInit, LockAlive
<1> QED
  BY <1>1, <1>2, <1>3 DEF LockInvariant

(* Every step of a save, of a waiting process and of SaveLocal preserves the   *)
(* invariant; a misread age ends what it says of the lock.                     *)
LEMMA LockStep ==
  ASSUME LockInvariant, [LockNext]_lockVars
  PROVE  LockInvariant'
<1>. USE LockConstants DEF LockInvariant, LockHeld, LockAlive, LockTypeOK, Steps, Inside, LockGoto
<1>1. ASSUME NEW p \in Procs, SaveLocal(p)
      PROVE  LockInvariant'
  BY <1>1 DEF SaveLocal
<1>2. ASSUME NEW p \in Procs, EngineSave(p)
      PROVE  LockInvariant'
  BY <1>2 DEF EngineSave
<1>3. ASSUME NEW p \in Procs, CreateLock(p)
      PROVE  LockInvariant'
  BY <1>3 DEF CreateLock
<1>4. ASSUME NEW p \in Procs, LockExists(p) \/ Stat(p)
      PROVE  LockInvariant'
  <2>1. CASE LockExists(p)
    BY <2>1 DEF LockExists
  <2>2. CASE Stat(p) /\ lock # "stale"
    <3>1. contended' = contended
      BY <2>2 DEF Stat
    <3> QED
      BY <2>2, <3>1 DEF Stat
  <2>3. CASE Stat(p) /\ lock = "stale" /\ \E q \in Procs : pc[q] = "remove"
    <3>1. contended' = TRUE
      BY <2>3 DEF Stat
    <3>2. lapses = 0 => crashes # 0
      BY <2>3
    <3> QED
      BY <2>3, <3>1, <3>2 DEF Stat
  <2>4. CASE Stat(p) /\ lock = "stale" /\ ~ \E q \in Procs : pc[q] = "remove"
    <3>1. contended' = contended
      BY <2>4 DEF Stat
    <3> QED
      BY <2>4, <3>1 DEF Stat
  <2> QED
    BY <1>4, <2>1, <2>2, <2>3, <2>4
<1>5. ASSUME NEW p \in Procs, RemoveStale(p)
      PROVE  LockInvariant'
  BY <1>5 DEF RemoveStale
<1>6. ASSUME NEW p \in Procs, GiveUp(p)
      PROVE  LockInvariant'
  BY <1>6 DEF GiveUp
<1>7. ASSUME NEW p \in Procs, Persist(p)
      PROVE  LockInvariant'
  BY <1>7 DEF Persist
<1>8. ASSUME NEW p \in Procs, WriteCheckpoint(p)
      PROVE  LockInvariant'
  BY <1>8 DEF WriteCheckpoint
<1>9. ASSUME NEW p \in Procs, Fail(p)
      PROVE  LockInvariant'
  BY <1>9 DEF Fail, Critical
<1>10. ASSUME NEW p \in Procs, Release(p)
       PROVE  LockInvariant'
  BY <1>10 DEF Release
<1>11. ASSUME NEW p \in Procs, Crash(p)
       PROVE  LockInvariant'
  BY <1>11 DEF Crash
<1>12. CASE GrowStale
  BY <1>12 DEF GrowStale
<1>13. CASE Lapse
  BY <1>13 DEF Lapse
<1>14. CASE UNCHANGED lockVars
  BY <1>14 DEF lockVars
<1>. QED
  BY <1>1, <1>2, <1>3, <1>4, <1>5, <1>6, <1>7, <1>8, <1>9, <1>10, <1>11, <1>12, <1>13, <1>14
     DEF LockNext, Step

(* withCheckpointLock: one process at a time between committing the work state *)
(* and writing checkpoint.json, for any number of hook processes and kills,    *)
(* until the age of a file is misread or two remove one abandoned file.        *)
THEOREM MutualExclusionHolds == LockSpec => []MutualExclusion
<1>1. LockInvariant => MutualExclusion
  BY LockConstants DEF LockInvariant, LockHeld, LockAlive, LockTypeOK, MutualExclusion,
                       CheckpointSerialized, Critical, Inside
<1>. QED
  BY LockInitially, LockStep, <1>1, PTL DEF LockSpec

(* Engine.save: checkpoint.json never goes back to an older work state and     *)
(* never runs ahead of SQLite, for as long.                                    *)
THEOREM CheckpointMonotoneHolds == LockSpec => CheckpointMonotone
<1>1. LockInvariant /\ LockInvariant' /\ [LockNext]_lockVars
        => [lapses' = 0 /\ ~ contended' => checkpoint' >= checkpoint /\ checkpoint' <= db']_lockVars
  <2>. SUFFICES ASSUME LockInvariant, LockInvariant', [LockNext]_lockVars, lapses' = 0, ~ contended'
                PROVE  checkpoint' >= checkpoint /\ checkpoint' <= db'
    OBVIOUS
  <2>1. checkpoint' <= db'
    BY DEF LockInvariant, LockHeld
  <2>2. ASSUME NEW p \in Procs, WriteCheckpoint(p)
        PROVE  checkpoint' >= checkpoint
    BY <2>2 DEF WriteCheckpoint, LockInvariant, LockHeld, LockTypeOK
  <2>3. ASSUME checkpoint' = checkpoint
        PROVE  checkpoint' >= checkpoint
    BY <2>3 DEF LockInvariant, LockTypeOK
  <2>4. (\E p \in Procs : WriteCheckpoint(p)) \/ checkpoint' = checkpoint
    BY DEF LockNext, Step, lockVars, SaveLocal, EngineSave, CreateLock, LockExists, Stat, RemoveStale,
           GiveUp, Persist, Fail, Release, Crash, GrowStale, Lapse
  <2>. QED
    BY <2>1, <2>2, <2>3, <2>4
<1>. QED
  BY LockInitially, LockStep, <1>1, PTL DEF LockSpec, CheckpointMonotone

-------------------------------------------------------------------------------
(* Timestamps.  The powers of the base exist and are positive. *)
PowerUpTo(x, h) == h = [n \in 0..x |-> IF n = 0 THEN 1 ELSE Base * h[n - 1]]

LEMMA PowerExists == ASSUME NEW x \in Nat PROVE \E h : PowerUpTo(x, h)
<1> DEFINE Has(y) == \E h : PowerUpTo(y, h)
           T == {y \in Nat : ~Has(y)}
<1> SUFFICES ASSUME T # {} PROVE FALSE OBVIOUS
<1>1. T \subseteq Nat /\ \A y \in T : ~Has(y) OBVIOUS
<1>2. \A y \in Nat \ T : Has(y) OBVIOUS
<1> HIDE DEF T
<1>3. PICK y \in T : \A m \in T : y <= m BY <1>1, LeastNumber
<1>4. y \in Nat BY <1>1
<1>5. y # 0
  <2> DEFINE g == [n \in 0..0 |-> 1]
  <2>1. g = [n \in 0..0 |-> IF n = 0 THEN 1 ELSE Base * g[n - 1]] OBVIOUS
  <2> HIDE DEF g
  <2>2. PowerUpTo(0, g) BY <2>1 DEF PowerUpTo
  <2> QED BY <2>2, <1>1
<1>6. y - 1 \in Nat /\ y - 1 \notin T BY <1>3, <1>4, <1>5
<1>7. PICK h : PowerUpTo(y - 1, h) BY <1>2, <1>6
<1> DEFINE g == [n \in 0..y |-> IF n = y THEN Base * h[y - 1] ELSE h[n]]
<1>8. \A n \in 0..y : g[n] = IF n = 0 THEN 1 ELSE Base * g[n - 1]
  <2> TAKE n \in 0..y
  <2>1. CASE n = y BY <2>1, <1>4, <1>5
  <2>2. CASE n # y
    <3>1. n \in 0..(y - 1) /\ (n # 0 => n - 1 \in 0..(y - 1)) BY <2>2, <1>4
    <3>2. h[n] = IF n = 0 THEN 1 ELSE Base * h[n - 1] BY <3>1, <1>7 DEF PowerUpTo
    <3> QED BY <3>1, <3>2, <2>2, <1>4
  <2> QED BY <2>1, <2>2
<1>9. g = [n \in 0..y |-> IF n = 0 THEN 1 ELSE Base * g[n - 1]]
  <2>1. g = [n \in 0..y |-> g[n]] OBVIOUS
  <2> HIDE DEF g
  <2> QED BY <2>1, <1>8
<1> HIDE DEF g
<1> QED BY <1>9, <1>3, <1>1 DEF PowerUpTo

LEMMA SecondPositive == Second \in Nat /\ Second > 0
<1>1. Places \in Nat /\ Base \in Nat /\ Base > 0 BY TimeConstants
<1>2. PowerUpTo(Places, Power)
  <2> DEFINE h == CHOOSE g : PowerUpTo(Places, g)
  <2>1. PowerUpTo(Places, h) BY <1>1, PowerExists
  <2>2. Power = h BY DEF Power, PowerUpTo
  <2> QED BY <2>1, <2>2
<1> DEFINE T == {n \in 0..Places : ~(Power[n] \in Nat /\ Power[n] > 0)}
<1>3. T = {}
  <2> SUFFICES ASSUME T # {} PROVE FALSE OBVIOUS
  <2>1. T \subseteq Nat /\ \A n \in T : n \in 0..Places /\ ~(Power[n] \in Nat /\ Power[n] > 0) BY <1>1
  <2>2. \A n \in 0..Places : n \notin T => Power[n] \in Nat /\ Power[n] > 0 OBVIOUS
  <2> HIDE DEF T
  <2>3. PICK n \in T : \A m \in T : n <= m BY <2>1, LeastNumber
  <2>4. n \in 0..Places /\ Power[n] = IF n = 0 THEN 1 ELSE Base * Power[n - 1]
    BY <1>2, <2>1 DEF PowerUpTo
  <2>5. n # 0 BY <2>1, <2>4
  <2>6. n - 1 \in 0..Places /\ n - 1 \notin T BY <1>1, <2>3, <2>4, <2>5
  <2>7. PICK p : p = Power[n - 1] OBVIOUS
  <2>8. p \in Nat /\ p > 0 /\ Power[n] = Base * p BY <2>2, <2>4, <2>5, <2>6, <2>7
  <2>9. Base * p \in Nat /\ Base * p > 0 BY <1>1, <2>8
  <2> QED BY <2>1, <2>8, <2>9
<1>4. Places \in 0..Places BY <1>1
<1> QED BY <1>3, <1>4 DEF Second

(* The seconds of a time. *)
LEMMA WholeSeconds ==
    ASSUME NEW a \in Int, NEW b \in Int
    PROVE  /\ a \div Second \in Int /\ b \div Second \in Int
           /\ a \div Second <= b \div Second => a < b + Second
<1>1. PICK s : s = Second OBVIOUS
<1>2. s \in Nat /\ s > 0 BY <1>1, SecondPositive
<1>3. PICK p, q : p = a \div s /\ q = b \div s OBVIOUS
<1>4. p \in Int /\ q \in Int BY <1>2, <1>3
<1>5. s * p <= a /\ a < s * p + s BY <1>2, <1>3
<1>6. s * q <= b /\ b < s * q + s BY <1>2, <1>3
<1>7. ASSUME p <= q PROVE a < b + s
  <2>1. PICK d : d = q - p OBVIOUS
  <2>2. d \in Nat /\ q = p + d BY <1>4, <1>7, <2>1
  <2>3. s * d >= 0 BY <1>2, <2>2
  <2>4. s * q = s * p + s * d BY <1>2, <1>4, <2>2
  <2>5. PICK u, v, w : u = s * p /\ v = s * q /\ w = s * d OBVIOUS
  <2>6. u \in Int /\ v \in Int /\ w \in Int BY <1>2, <1>4, <2>2, <2>5
  <2>7. w >= 0 /\ v = u + w /\ a < u + s /\ v <= b BY <1>5, <1>6, <2>3, <2>4, <2>5
  <2> QED BY <1>2, <2>6, <2>7
<1> QED BY <1>1, <1>3, <1>4, <1>7

(* The digits that are kept, and the first character of a text. *)
LEMMA KeptDigits == \A t : Kept(t) \in 0..Places
<1> TAKE t
<1> DEFINE Zero(n) == \A place \in (n + 1)..Places : Digit(t, place) = 0
           T == {n \in 0..Places : Zero(n)}
<1>1. Places \in Nat BY TimeConstants
<1>2. T \subseteq Nat /\ \A n \in T : n \in 0..Places /\ Zero(n) BY <1>1
<1>3. \A n \in 0..Places : n \notin T => ~Zero(n) OBVIOUS
<1>4. Places \in T
  <2>1. \A place \in (Places + 1)..Places : FALSE BY <1>1
  <2> QED BY <1>1, <2>1
<1> HIDE DEF T
<1>5. PICK n \in T : \A m \in T : n <= m BY <1>2, <1>4, LeastNumber
<1>6. ASSUME n > 0 PROVE Digit(t, n) # 0
  <2> SUFFICES ASSUME Digit(t, n) = 0 PROVE FALSE OBVIOUS
  <2>1. n - 1 \in 0..Places /\ n - 1 \notin T BY <1>1, <1>2, <1>5, <1>6
  <2>2. \A place \in ((n - 1) + 1)..Places : place = n \/ place \in (n + 1)..Places BY <1>1, <1>2
  <2>3. Zero(n - 1) BY <1>2, <2>2
  <2> QED BY <1>3, <2>1, <2>3
<1> DEFINE Fits(m) == /\ \A place \in (m + 1)..Places : Digit(t, place) = 0
                      /\ m > 0 => Digit(t, m) # 0
<1>7. n \in 0..Places /\ Fits(n) BY <1>2, <1>6
<1>8. Kept(t) = CHOOSE m \in 0..Places : Fits(m) BY DEF Kept
<1> HIDE DEF Fits
<1> QED BY <1>7, <1>8

LEMMA Appended ==
    ASSUME NEW S, NEW s \in Seq(S), NEW t \in Seq(S), Len(s) >= 1
    PROVE  s \o t \in Seq(S) /\ Len(s \o t) >= 1 /\ (s \o t)[1] = s[1]
<1>1. Len(s) \in Nat /\ Len(t) \in Nat OBVIOUS
<1>2. s \o t \in Seq(S) /\ Len(s \o t) = Len(s) + Len(t) OBVIOUS
<1>3. 1 \in 1..Len(s) /\ 1 \in 1..(Len(s) + Len(t)) BY <1>1
<1>4. (s \o t)[1] = s[1] BY <1>1, <1>3
<1> QED BY <1>1, <1>2, <1>4

LEMMA TextBegins ==
    \A t : Len(Text(t)) \in Nat /\ Len(Text(t)) >= 1 /\ Text(t)[1] = t \div Second
<1> TAKE t
<1> DEFINE S == {t \div Second, Dot, Zed} \cup {Digit(t, place) : place \in 1..Places}
           digits == [place \in 1..Kept(t) |-> Digit(t, place)]
           fraction == IF Kept(t) = 0 THEN <<>> ELSE <<Dot>> \o digits
<1>1. PICK k : k = Kept(t) OBVIOUS
<1>2. Places \in Nat /\ k \in 0..Places BY <1>1, KeptDigits, TimeConstants
<1>3. \A place \in 1..k : Digit(t, place) \in S BY <1>2
<1>4. Dot \in S /\ Zed \in S /\ t \div Second \in S OBVIOUS
<1> HIDE DEF S
<1>5. [place \in 1..k |-> Digit(t, place)] \in Seq(S) BY <1>2, <1>3
<1>6. digits \in Seq(S) BY <1>1, <1>5
<1> HIDE DEF digits
<1>7. <<Dot>> \in Seq(S) /\ Len(<<Dot>>) = 1 BY <1>4
<1>8. <<Dot>> \o digits \in Seq(S) BY <1>6, <1>7
<1>9. fraction \in Seq(S)
  <2>1. <<>> \in Seq(S) OBVIOUS
  <2> QED BY <1>8, <2>1
<1>10. PICK s : s = t \div Second OBVIOUS
<1>11. <<s>> \in Seq(S) /\ Len(<<s>>) = 1 /\ <<s>>[1] = s BY <1>4, <1>10
<1>12. Text(t) = (<<s>> \o fraction) \o <<Zed>> BY <1>10 DEF Text, digits
<1> HIDE DEF fraction
<1>13. PICK head : head = <<s>> \o fraction OBVIOUS
<1>14. head \in Seq(S) /\ Len(head) >= 1 /\ head[1] = s
  <2>1. PICK one : one = <<s>> OBVIOUS
  <2>2. one \in Seq(S) /\ Len(one) >= 1 /\ one[1] = s BY <1>11, <2>1
  <2>3. head = one \o fraction BY <1>13, <2>1
  <2> QED BY <1>9, <2>2, <2>3, Appended
<1>15. <<Zed>> \in Seq(S) BY <1>4
<1>16. PICK zed : zed = <<Zed>> OBVIOUS
<1>17. head \o zed \in Seq(S) /\ Len(head \o zed) >= 1 /\ (head \o zed)[1] = head[1]
  BY <1>14, <1>15, <1>16, Appended
<1>18. Text(t) = head \o zed BY <1>12, <1>13, <1>16
<1>19. Len(head \o zed) \in Nat BY <1>17
<1> QED BY <1>10, <1>14, <1>17, <1>18, <1>19

(* The order of two texts is that of their seconds, where these differ. *)
LEMMA TextOrder ==
    ASSUME NEW a \in Int, NEW b \in Int
    PROVE  /\ AtMost(Text(a), Text(b)) => a \div Second <= b \div Second
           /\ a \div Second < b \div Second => AtMost(Text(a), Text(b))
<1>1. PICK s, t : s = Text(a) /\ t = Text(b) OBVIOUS
<1>2. PICK p, q : p = a \div Second /\ q = b \div Second OBVIOUS
<1>3. Len(s) \in Nat /\ Len(s) >= 1 /\ s[1] = p /\ Len(t) \in Nat /\ Len(t) >= 1 /\ t[1] = q
  BY <1>1, <1>2, TextBegins
<1>4. p \in Int /\ q \in Int BY <1>2, WholeSeconds
<1>5. ASSUME AtMost(s, t) PROVE p <= q
  <2>1. CASE s = t BY <1>3, <1>4, <2>1
  <2>2. CASE s # t
    <3>1. PICK i \in 1..Len(t) :
             /\ \A j \in 1..(i - 1) : j <= Len(s) /\ s[j] = t[j]
             /\ i > Len(s) \/ s[i] < t[i]
      BY <1>5, <2>2 DEF AtMost
    <3>2. CASE i = 1 BY <1>3, <1>4, <3>1, <3>2
    <3>3. CASE i # 1
      <4>1. 1 \in 1..(i - 1) BY <1>3, <3>3
      <4> QED BY <1>3, <1>4, <3>1, <4>1
    <3> QED BY <3>2, <3>3
  <2> QED BY <2>1, <2>2
<1>6. ASSUME p < q PROVE AtMost(s, t)
  <2>1. 1 \in 1..Len(t) /\ \A j \in 1..(1 - 1) : FALSE BY <1>3
  <2> QED BY <1>3, <1>6, <2>1 DEF AtMost
<1> QED BY <1>1, <1>2, <1>5, <1>6

ClockTypes == now \in Int /\ updatedAt \in Int

LEMMA ClockTypesHold == TimeSpec => []ClockTypes
<1>1. TimeInit => ClockTypes BY TimeConstants DEF TimeInit, ClockTypes
<1>2. ClockTypes /\ [TimeNext]_timeVars => ClockTypes'
  BY DEF ClockTypes, TimeNext, timeVars, Tick, ClaimQueue, recoverStaleQueueClaims, Settle
<1> QED BY <1>1, <1>2, PTL DEF TimeSpec

(* The order of the stored texts misleads the lease of a claim by less than a  *)
(* second, however many digits a fraction has (recoverStaleQueueClaims of      *)
(* storage.go compares updated_at with the cutoff as texts).                   *)
THEOREM SkewBelowOneSecondHolds == TimeSpec => []SkewBelowOneSecond
<1>1. ClockTypes => SkewBelowOneSecond
  <2> SUFFICES ASSUME ClockTypes PROVE SkewBelowOneSecond
    OBVIOUS
  <2>1. PICK n, u : n = now /\ u = updatedAt OBVIOUS
  <2>2. n \in Int /\ u \in Int /\ Lease \in Nat /\ Second \in Nat
    BY <2>1, SecondPositive, TimeConstants DEF ClockTypes
  <2>3. PICK cutoff : cutoff = n - Lease OBVIOUS
  <2>4. cutoff \in Int BY <2>2, <2>3
  <2>5. PICK p, q : p = u \div Second /\ q = cutoff \div Second OBVIOUS
  <2>6. /\ p <= q => u < cutoff + Second
        /\ q <= p => cutoff < u + Second
        /\ AtMost(Text(u), Text(cutoff)) => p <= q
        /\ p < q => AtMost(Text(u), Text(cutoff))
    BY <2>2, <2>4, <2>5, WholeSeconds, TextOrder
  <2>7. Stale <=> AtMost(Text(u), Text(cutoff)) BY <2>1, <2>3 DEF Stale
  <2>8. p \in Int /\ q \in Int BY <2>2, <2>4, <2>5, WholeSeconds
  <2>9. Age = n - u BY <2>1 DEF Age
  <2>10. ASSUME Stale PROVE Age > Lease - Second
    <3>1. u < cutoff + Second BY <2>6, <2>7, <2>8, <2>10
    <3> QED BY <2>2, <2>3, <2>9, <3>1
  <2>11. ASSUME ~Stale PROVE Age < Lease + Second
    <3>1. q <= p BY <2>6, <2>7, <2>8, <2>11
    <3>2. cutoff < u + Second BY <2>6, <3>1
    <3> QED BY <2>2, <2>3, <2>9, <3>2
  <2> QED BY <2>10, <2>11 DEF SkewBelowOneSecond
<1> QED BY <1>1, ClockTypesHold, PTL
===============================================================================
