----------------------------- MODULE MCHookRuntime -----------------------------
(* Small instances of HookRuntime: the requests two clients send, built from a *)
(* plain user prompt.                                                          *)
EXTENDS HookRuntime

CONSTANTS s1, s2, t1, t2, h1, d1, e1, e2

MCEvents == 1..3
MCEvents4 == 1..4
MCIdOf   == <<11, 12, 13, 14>>

Prompt(s) ==
    [type |-> "user_prompt", session |-> s, task |-> Absent, status |-> Absent,
     head |-> Absent, diff |-> Absent, policy |-> Absent, ref |-> Absent,
     kind |-> "completion", at |-> 1, error |-> Empty, command |-> FALSE,
     claim |-> FALSE, claimed |-> Absent, remote |-> FALSE]

Plain(type, s) == [Prompt(s) EXCEPT !.type = type]
Error(s, c)    == [Prompt(s) EXCEPT !.type = "error_observed", !.error = c]
Task(type, t)  == [Prompt(s1) EXCEPT !.type = type, !.task = t]
Verified(t)    == [Task("task_verified", t) EXCEPT !.ref = 1, !.head = h1, !.diff = d1]

(* Two sessions with their starts and ends, and errors observed in both. *)
SessionRequests ==
    {Plain("session_started", s1), Plain("session_started", s2),
     Plain("session_clean_closed", s1), Plain("session_interrupted", s2),
     Error(s1, e1), Error(s2, e2),
     [Plain("assistant_final", s1) EXCEPT !.claim = TRUE, !.claimed = "completed"],
     [Prompt(s2) EXCEPT !.command = TRUE]}

(* One client that works on two tasks in turn, with another that reports. *)
TaskRequests ==
    {Task("task_started", t1), Verified(t1), Task("task_completed", t1),
     Task("task_started", t2), Task("task_updated", t1), Task("task_failed", t1),
     Task("task_interrupted", t2), Error(s1, e1), Error(s2, e2),
     [Plain("checkpoint_updated", s2) EXCEPT !.task = t1, !.remote = TRUE],
     [Plain("test_finished", s2) EXCEPT !.claimed = "blocked"]}

(* Task work only, without reports of other clients. *)
LedgerRequests ==
    {Task("task_started", t1), Verified(t1), Task("task_completed", t1),
     Task("task_started", t2)}

(* One key for each request, in order of arrival. *)
KeysInOrder ==
    \A h \in Hooks, f \in Events : hook'[h].key # Absent /\ f < hook'[h].key =>
        f \in events \/ \E g \in Hooks : hook[g].key = f

(* Both together, without those that take the path of another one of them. *)
AllRequests ==
    (SessionRequests \cup TaskRequests) \
        {Plain("session_started", s2), Task("task_started", t2), Task("task_updated", t1), Task("task_failed", t1),
         Task("task_interrupted", t2), [Prompt(s2) EXCEPT !.command = TRUE]}

HookSymmetry == Permutations(Hooks)
===============================================================================
