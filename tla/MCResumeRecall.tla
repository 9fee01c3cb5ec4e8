----------------------------- MODULE MCResumeRecall -----------------------------
(* Two tasks: one with a strong and a weak file, one with the weak file only.  *)
(* Of the records one is of another project and one of none, which counts as   *)
(* this one's: with a limit of one, the former may take the latter's place.    *)
EXTENDS ResumeRecall, TLC

CONSTANTS t1, t2, main, lock, s1, q

MCFilesOf == (t1 :> {main, lock}) @@ (t2 :> {lock})
NoFiles == <<>>
Ask(event, prompt, historical, task, files) ==
    [session |-> s1, event |-> event, prompt |-> prompt, historical |-> historical,
     symbol |-> FALSE, scope |-> [task |-> task, files |-> files]]

(* For the gate: with and without a scope, and with the task alone. *)
GateRequests ==
    {Ask("session_started", None, FALSE, None, {}),
     Ask("checkpoint_updated", None, FALSE, None, {main, lock}),
     Ask("user_prompt", q, FALSE, t2, {})}

(* For recall: a prompt that asks for what was and names a symbol, one without *)
(* a text, and a session's start.                                              *)
Historical(prompt, symbol) == [Ask("user_prompt", prompt, TRUE, None, {}) EXCEPT !.symbol = symbol]
RecallRequests ==
    {Historical(q, TRUE), Historical(None, FALSE), Ask("session_started", None, TRUE, None, {})}
AllRequests == GateRequests \cup RecallRequests
PlainPrompt == {Historical(q, FALSE)}

Record(layer, of, kind) == [layer |-> layer, project |-> of, kind |-> kind]

MCRecords ==
    {Record("conversation", "other", "turn"), Record("conversation", None, "turn"),
     Record("atomic", Own, "session_start")}

(* Every query matches every record that is there. *)
MCMatches == {MCRecords}

MCSetups == {{}, {"memory"}, {"memory", "wiki"}}

(* One half of the instance is about the gate: tasks, no provider, and a hook  *)
(* that is to look for a packet without any source is left out, which changes  *)
(* nothing but the empty packet.  The other half is about recall, with no task.*)
Asked == {hook[h].request : h \in Hooks} \ {None}

AboutGate ==
    /\ setup = {} /\ remote = {} /\ Asked \subseteq GateRequests
    /\ \A h \in Hooks : hook[h].pc # "cache"

AboutRecall ==
    /\ setup # {} /\ Asked \subseteq RecallRequests
    /\ \A t \in Tasks : tasks[t].status = "none"

Apart == AboutGate \/ AboutRecall

HookSymmetry == Permutations(Hooks)
================================================================================
