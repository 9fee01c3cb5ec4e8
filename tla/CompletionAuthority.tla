-------------------------- MODULE CompletionAuthority --------------------------
(* What the task ledger promises about completion, without its events, rows    *)
(* and optional fields: a task is done only on the strength of collected       *)
(* evidence for the tree it is on; evidence is never lost; and while a task    *)
(* is done neither its tree nor its policy moves.                              *)

CONSTANTS Tasks, Trees, Policies, Kinds, Allows(_, _), InitialTree, InitialPolicy

VARIABLES
    done,       \* the tasks reported completed and verified
    tree,       \* the tree (git head and diff) each task is on
    policy,     \* the completion policy of each task
    evidence    \* the verifications collected: [task, tree, kind]

avars == <<done, tree, policy, evidence>>

Init ==
    /\ done = {}
    /\ tree = [t \in Tasks |-> InitialTree]
    /\ policy = [t \in Tasks |-> InitialPolicy]
    /\ evidence = {}

Supported(t) ==
    \E v \in evidence : v.task = t /\ v.tree = tree[t] /\ Allows(policy[t], v.kind)

(* New evidence decides, on its own, whether the task may still be done. *)
Collect(t, tr, kind) ==
    /\ evidence' = evidence \cup {[task |-> t, tree |-> tr, kind |-> kind]}
    /\ tree' = [tree EXCEPT ![t] = tr]
    /\ \/ done' = done \ {t}
       \/ done' = done \cup {t} /\ Allows(policy[t], kind)
    /\ UNCHANGED policy

Promote(t) ==
    /\ Supported(t)
    /\ done' = done \cup {t}
    /\ UNCHANGED <<tree, policy, evidence>>

(* The task moves on to another tree or policy and is not done. *)
Rework(t, tr, p) ==
    /\ done' = done \ {t}
    /\ tree' = [tree EXCEPT ![t] = tr]
    /\ policy' = [policy EXCEPT ![t] = p]
    /\ UNCHANGED evidence

Next ==
    \E t \in Tasks :
        \/ Promote(t)
        \/ \E tr \in Trees, kind \in Kinds : Collect(t, tr, kind)
        \/ \E tr \in Trees, p \in Policies : Rework(t, tr, p)

Spec == Init /\ [][Next]_avars
===============================================================================
