-------------------------- MODULE ManagedRuntimeProofs --------------------------
(* Theorems about ManagedRuntime for any number of plans, components,          *)
(* launchers, generations, failed writes and killed updates.                   *)
EXTENDS ManagedRuntime, TLAPS

(* The steps of Apply while its generation may still be changed or removed. *)
Staging  == {"stage", "install", "receipt"}
Ready    == {"prepare", "manifest", "retain", "current", "launch", "complete"}
Undoing  == {"unlaunch", "restoreCurrent", "restorePrevious", "failed", "cleanup"}
Open     == {"mkdir"} \cup Staging \cup Ready \cup Undoing
Active   == {"launch", "complete", "persist", "bootstrap"}

(* Operations own their generations: no two plans share one, an operation that *)
(* can be resumed owns one that was never finished, and the update under way   *)
(* works on the generation its plan's record names.                            *)
OwnGenerations ==
    /\ finished \subseteq 1..used
    /\ \A p \in Plans :
          /\ op[p].gen \in (1..used) \cup {None}
          /\ op[p].status \in {"staging", "interrupted"} => op[p].gen \notin finished
    /\ \A p, q \in Plans : p # q /\ op[p].gen # None => op[p].gen # op[q].gen
    /\ job.pc \notin Rest => op[job.plan].gen = job.gen
    /\ job.pc \in Open => job.gen \notin finished

(* What is staged so far lies in the generation's directory, and the launchers *)
(* are counted from none.                                                      *)
StagedParts ==
    /\ job.pc \in Staging \cup Ready \cup Undoing => job.gen \in dirs
    /\ job.pc = "mkdir" => job.comp = 1
    /\ job.pc \in Staging => 1..(job.comp - 1) \subseteq content[job.gen]
    /\ job.pc = "receipt" => job.comp \in content[job.gen]
    /\ job.pc \in Ready => content[job.gen] = Comps
    /\ job.pc \in Ready \ {"prepare", "manifest"} => job.gen \in manifest
    /\ job.pc \in {"mkdir"} \cup Staging \cup (Ready \ {"launch", "complete"}) => job.applied = 0
    /\ job.pc = "launch" => job.applied < LastLauncher

GenerationInvariant == TypeOK /\ OwnGenerations /\ StagedParts /\ FinishedKept

-------------------------------------------------------------------------------
(* The types of the fields of the record of an update. *)
LEMMA JobFields ==
  ASSUME NEW s \in Job
  PROVE  /\ s.pc \in Steps /\ s.gen \in Pointer /\ s.comp \in 1..Last
         /\ s.current \in Pointer /\ s.previous \in Pointer
         /\ s.launchers \in [Names -> Pointer]
         /\ s.applied \in 0..LastLauncher
BY DEF Job, Comps

(* A move keeps the plan, the generation and the counters unless the update ends. *)
LEMMA MovedJob ==
  ASSUME NEW s \in Job, NEW step \in Steps
  PROVE  /\ Moved(s, step) \in Job
         /\ Moved(s, step).pc = step
         /\ step \notin Rest =>
               /\ Moved(s, step).plan = s.plan /\ Moved(s, step).gen = s.gen
               /\ Moved(s, step).comp = s.comp /\ Moved(s, step).applied = s.applied
BY RuntimeConstants DEF Job, Moved, NoJob, NoLaunchers, Pointer, Gens, Comps

(* The record of no update is well typed. *)
LEMMA NoJobJob ==
  NoJob \in Job /\ NoJob.pc = "idle"
BY RuntimeConstants DEF Job, NoJob, NoLaunchers, Pointer, Gens, Comps, Steps, Rest

(* After a component comes the next one or, after the last, the launchers. *)
LEMMA StagedJob ==
  ASSUME NEW s \in Job
  PROVE  /\ Staged(s) \in Job
         /\ Staged(s).plan = s.plan /\ Staged(s).gen = s.gen /\ Staged(s).applied = s.applied
         /\ \/ s.comp = Last /\ Staged(s).pc = "prepare"
            \/ s.comp < Last /\ Staged(s).pc = "stage" /\ Staged(s).comp = s.comp + 1
<1>1. CASE s.comp = Last
  BY <1>1 DEF Job, Staged, Steps
<1>2. CASE s.comp # Last
  <2>1. s.comp < Last /\ s.comp + 1 \in Comps
    BY <1>2, JobFields, RuntimeConstants DEF Comps
  <2>2. Staged(s) = [s EXCEPT !.pc = "stage", !.comp = s.comp + 1]
    BY <1>2 DEF Staged, Job
  <2> QED
    BY <2>1, <2>2 DEF Job, Steps
<1> QED
  BY <1>1, <1>2

(* After a launcher comes the next one or, after the last, the final record. *)
LEMMA LaunchedJob ==
  ASSUME NEW s \in Job, s.applied < LastLauncher
  PROVE  /\ Launched(s) \in Job
         /\ Launched(s).plan = s.plan /\ Launched(s).gen = s.gen
         /\ Launched(s).applied = s.applied + 1
         /\ \/ s.applied + 1 = LastLauncher /\ Launched(s).pc = "complete"
            \/ s.applied + 1 < LastLauncher /\ Launched(s).pc = "launch"
<1> DEFINE step == IF s.applied + 1 = LastLauncher THEN "complete" ELSE "launch"
<1>1. s.applied + 1 \in 0..LastLauncher
  BY JobFields, RuntimeConstants
<1>2. step \in Steps
  BY DEF Steps
<1>3. Launched(s) = [s EXCEPT !.applied = s.applied + 1, !.pc = step]
  BY DEF Launched, Job
<1>4. /\ Launched(s) \in Job /\ Launched(s).pc = step
      /\ Launched(s).applied = s.applied + 1
      /\ Launched(s).plan = s.plan /\ Launched(s).gen = s.gen
  <2> HIDE DEF step
  <2> QED
    BY <1>1, <1>2, <1>3 DEF Job
<1> QED
  BY <1>1, <1>4, JobFields, RuntimeConstants

(* PrepareLaunchers keeps what the update works on. *)
LEMMA PreparedJob ==
  ASSUME NEW s \in Job, NEW ls \in [Names -> Pointer]
  PROVE  LET t == [s EXCEPT !.pc = "manifest", !.launchers = ls] IN
         /\ t \in Job /\ t.pc = "manifest" /\ t.plan = s.plan /\ t.gen = s.gen
         /\ t.comp = s.comp /\ t.applied = s.applied
BY DEF Job, Steps

(* Rollback keeps what the update works on. *)
LEMMA SwappingJob ==
  ASSUME NEW s \in Job, NEW c \in Pointer
  PROVE  LET t == [s EXCEPT !.pc = "swap", !.current = c] IN
         /\ t \in Job /\ t.pc = "swap" /\ t.plan = s.plan /\ t.gen = s.gen
         /\ t.comp = s.comp /\ t.applied = s.applied
BY DEF Job, Steps

(* Restoring a launcher keeps what the update works on. *)
LEMMA RestoredJob ==
  ASSUME NEW s \in Job, s.applied > 0
  PROVE  LET t == [s EXCEPT !.applied = @ - 1] IN
         t \in Job /\ t.pc = s.pc /\ t.plan = s.plan /\ t.gen = s.gen
<1>1. s.applied - 1 \in 0..LastLauncher
  BY JobFields, RuntimeConstants
<1> QED
  BY <1>1 DEF Job

-------------------------------------------------------------------------------
(* One step of Apply, of its undoing, of the rollback or of a crash preserves  *)
(* the invariant.                                                              *)
LEMMA GenerationStep ==
  ASSUME GenerationInvariant, [Next]_vars
  PROVE  GenerationInvariant'
<1> USE RuntimeConstants DEF At, Goto, trees, pointers, history
<1>t. TypeOK /\ OwnGenerations /\ StagedParts /\ FinishedKept
  BY DEF GenerationInvariant
<1>g. job.pc \notin Rest => job.gen \in Gens /\ job.plan \in Plans
  BY <1>t DEF TypeOK, Gens
<1>1. ASSUME NEW p \in Plans, StartApply(p) PROVE GenerationInvariant'
  <2> DEFINE g == IF Resumable(p) THEN op[p].gen ELSE used + 1
  <2>1. /\ g \in Gens /\ g \in 1..used' /\ g \notin finished
        /\ used' \in 0..MaxGens /\ used <= used'
        /\ \A q \in Plans \ {p} : op[q].gen # g
    BY <1>t, <1>1 DEF StartApply, Resumable, TypeOK, OwnGenerations, Gens, Pointer
  <2> HIDE DEF g
  <2>2. \/ /\ job' = NoJob
           /\ op' \in {op, [op EXCEPT ![p] = [status |-> "staging", gen |-> g]]}
        \/ /\ job' = [NoJob EXCEPT !.pc = "mkdir", !.plan = p, !.gen = g]
           /\ op' = [op EXCEPT ![p] = [status |-> "staging", gen |-> g]]
    BY <1>1 DEF StartApply, Write, g
  <2>3. /\ job' \in Job
        /\ \/ job'.pc = "idle"
           \/ /\ job'.pc = "mkdir" /\ job'.plan = p /\ job'.gen = g
              /\ job'.applied = 0 /\ job'.comp = 1
              /\ op' = [op EXCEPT ![p] = [status |-> "staging", gen |-> g]]
    <3>1. CASE job' = NoJob
      BY <3>1, NoJobJob
    <3>2. CASE /\ job' = [NoJob EXCEPT !.pc = "mkdir", !.plan = p, !.gen = g]
               /\ op' = [op EXCEPT ![p] = [status |-> "staging", gen |-> g]]
      <4> DEFINE s == [NoJob EXCEPT !.pc = "mkdir", !.plan = p, !.gen = g]
      <4>1. /\ s \in Job /\ s.pc = "mkdir" /\ s.plan = p /\ s.gen = g
            /\ s.applied = 0 /\ s.comp = 1
        <5>1. NoJob \in Job /\ NoJob.applied = 0 /\ NoJob.comp = 1
          BY NoJobJob DEF NoJob
        <5>2. "mkdir" \in Steps /\ g \in Pointer
          BY <2>1 DEF Steps, Pointer
        <5> QED
          BY <5>1, <5>2 DEF Job
      <4>2. job' = s
        BY <3>2
      <4> HIDE DEF s
      <4> QED
        BY <3>2, <4>1, <4>2
    <3> QED
      BY <2>2, <3>1, <3>2
  <2>4. UNCHANGED <<dirs, content, receipts, manifest, current, previous, launcher, global,
                    finished, crashes>>
    BY <1>1 DEF StartApply
  <2>5. op' = op \/ op' = [op EXCEPT ![p] = [status |-> "staging", gen |-> g]]
    BY <2>2
  <2>6. TypeOK'
    BY <1>t, <2>1, <2>3, <2>4, <2>5 DEF TypeOK, OpStatus, Pointer, Rest
  <2>7. OwnGenerations'
    <3>1. finished' \subseteq 1..used' /\ \A x \in 1..used : x \in 1..used'
      BY <1>t, <2>1, <2>4 DEF TypeOK, OwnGenerations
    <3>2. /\ op'[p] = op[p] \/ op'[p] = [status |-> "staging", gen |-> g]
          /\ \A q \in Plans \ {p} : op'[q] = op[q]
      BY <1>t, <2>5 DEF TypeOK
    <3>3. \A q \in Plans :
            /\ op'[q].gen \in (1..used') \cup {None}
            /\ op'[q].status \in {"staging", "interrupted"} => op'[q].gen \notin finished'
      BY <1>t, <2>1, <2>4, <3>1, <3>2 DEF OwnGenerations
    <3>4. \A q, r \in Plans : q # r /\ op'[q].gen # None => op'[q].gen # op'[r].gen
      BY <1>t, <2>1, <3>2 DEF OwnGenerations
    <3>5. job'.pc \notin Rest => op'[job'.plan].gen = job'.gen
      BY <1>t, <2>3, <2>5 DEF TypeOK, Rest
    <3>6. job'.pc \in Open => job'.gen \notin finished'
      BY <2>1, <2>3, <2>4 DEF Open, Staging, Ready, Undoing
    <3> QED
      BY <3>1, <3>3, <3>4, <3>5, <3>6 DEF OwnGenerations
  <2>8. StagedParts'
    BY <2>3 DEF StagedParts, Staging, Ready, Undoing
  <2>9. FinishedKept'
    BY <1>t, <2>4 DEF FinishedKept, Complete
  <2> QED
    BY <2>6, <2>7, <2>8, <2>9 DEF GenerationInvariant
<1>2. ASSUME MakeDirectory PROVE GenerationInvariant'
  <2>1. /\ job' \in Job
        /\ job'.pc \in {"stage", "idle"}
        /\ job'.pc = "stage" =>
              /\ job'.plan = job.plan /\ job'.gen = job.gen
              /\ job'.comp = job.comp /\ job'.applied = job.applied
        /\ dirs' = IF job'.pc = "stage" THEN dirs \cup {job.gen} ELSE dirs
    BY <1>t, <1>g, <1>2, JobFields, MovedJob
       DEF MakeDirectory, TypeOK, StagedParts, Rest, Steps
  <2>2. TypeOK'
    BY <1>t, <1>g, <2>1, JobFields, <1>2
       DEF MakeDirectory, TypeOK, StagedParts, Staging, Ready, Undoing, Rest, OpStatus,
           Pointer
  <2>3. OwnGenerations'
    BY <1>t, <1>g, <2>1, <1>2
       DEF MakeDirectory, TypeOK, OwnGenerations, Open, Staging, Ready, Undoing, Rest
  <2>4. StagedParts'
    BY <1>t, <1>g, <2>1, JobFields, <1>2
       DEF MakeDirectory, TypeOK, StagedParts, Staging, Ready, Undoing, Rest, Comps
  <2>5. FinishedKept'
    BY <1>t, <1>g, <2>1, <1>2
       DEF MakeDirectory, TypeOK, OwnGenerations, StagedParts, FinishedKept, Complete,
           Open, Staging, Ready, Undoing, Rest, Gens
  <2> QED
    BY <2>2, <2>3, <2>4, <2>5 DEF GenerationInvariant
<1>3. ASSUME Interrupt PROVE GenerationInvariant'
  <2>1. /\ job' \in Job
        /\ job'.pc = "idle"
        /\ op' = op \/ op' = [op EXCEPT ![job.plan] = [status |-> "interrupted", gen |-> job.gen]]
    BY <1>t, <1>g, <1>3, JobFields, MovedJob
       DEF Interrupt, Noted, TypeOK, StagedParts, Rest, Steps
  <2>2. TypeOK'
    BY <1>t, <1>g, <2>1, JobFields, <1>3
       DEF Interrupt, TypeOK, StagedParts, Staging, Ready, Undoing, Rest, OpStatus,
           Pointer
  <2>3. OwnGenerations'
    BY <1>t, <1>g, <2>1, <1>3
       DEF Interrupt, TypeOK, OwnGenerations, Open, Staging, Ready, Undoing, Rest
  <2>4. StagedParts'
    BY <1>t, <1>g, <2>1, JobFields, <1>3
       DEF Interrupt, TypeOK, StagedParts, Staging, Ready, Undoing, Rest, Comps
  <2>5. FinishedKept'
    BY <1>t, <1>g, <2>1, <1>3
       DEF Interrupt, TypeOK, OwnGenerations, StagedParts, FinishedKept, Complete, Open,
           Staging, Ready, Undoing, Rest, Gens
  <2> QED
    BY <2>2, <2>3, <2>4, <2>5 DEF GenerationInvariant
<1>4. ASSUME ReuseComponent PROVE GenerationInvariant'
  <2>1. /\ job' \in Job
        /\ job'.plan = job.plan /\ job'.gen = job.gen
        /\ job'.applied = job.applied
        /\ \/ job.comp = Last /\ job'.pc = "prepare"
           \/ job.comp < Last /\ job'.pc = "stage" /\ job'.comp = job.comp + 1
    BY <1>t, <1>g, <1>4, JobFields, StagedJob
       DEF ReuseComponent, TypeOK, StagedParts, Rest, Steps
  <2>2. TypeOK'
    BY <1>t, <1>g, <2>1, JobFields, <1>4
       DEF ReuseComponent, TypeOK, StagedParts, Staging, Ready, Undoing, Rest, OpStatus,
           Pointer
  <2>3. OwnGenerations'
    BY <1>t, <1>g, <2>1, <1>4
       DEF ReuseComponent, TypeOK, OwnGenerations, Open, Staging, Ready, Undoing, Rest
  <2>4. StagedParts'
    <3>1. 1..job.comp \subseteq content[job.gen]
      BY <1>t, <1>g, <1>4, JobFields DEF ReuseComponent, TypeOK, StagedParts, Staging
    <3>2. job.comp = Last => content[job.gen] = Comps
      BY <1>t, <1>g, <3>1, <1>4 DEF ReuseComponent, TypeOK, Comps, Rest
    <3>3. job.comp < Last /\ job'.comp = job.comp + 1 => 1..(job'.comp - 1) = 1..job.comp
      BY <1>t, JobFields DEF TypeOK
    <3> QED
      BY <3>1, <3>2, <3>3, <1>t, <1>g, <2>1, JobFields, <1>4
         DEF ReuseComponent, TypeOK, StagedParts, Staging, Ready, Undoing, Rest
  <2>5. FinishedKept'
    BY <1>t, <1>g, <2>1, <1>4
       DEF ReuseComponent, TypeOK, OwnGenerations, StagedParts, FinishedKept, Complete,
           Open, Staging, Ready, Undoing, Rest, Gens
  <2> QED
    BY <2>2, <2>3, <2>4, <2>5 DEF GenerationInvariant
<1>5. ASSUME ReceiptUnreadable PROVE GenerationInvariant'
  <2>1. /\ job' \in Job
        /\ job'.pc = "cleanup"
        /\ job'.plan = job.plan /\ job'.gen = job.gen
        /\ job'.comp = job.comp /\ job'.applied = job.applied
    BY <1>t, <1>g, <1>5, JobFields, MovedJob
       DEF ReceiptUnreadable, TypeOK, StagedParts, Rest, Steps
  <2>2. TypeOK'
    BY <1>t, <1>g, <2>1, JobFields, <1>5
       DEF ReceiptUnreadable, TypeOK, StagedParts, Staging, Ready, Undoing, Rest,
           OpStatus, Pointer
  <2>3. OwnGenerations'
    BY <1>t, <1>g, <2>1, <1>5
       DEF ReceiptUnreadable, TypeOK, OwnGenerations, Open, Staging, Ready, Undoing,
           Rest
  <2>4. StagedParts'
    BY <1>t, <1>g, <2>1, JobFields, <1>5
       DEF ReceiptUnreadable, TypeOK, StagedParts, Staging, Ready, Undoing, Rest, Comps
  <2>5. FinishedKept'
    BY <1>t, <1>g, <2>1, <1>5
       DEF ReceiptUnreadable, TypeOK, OwnGenerations, StagedParts, FinishedKept,
           Complete, Open, Staging, Ready, Undoing, Rest, Gens
  <2> QED
    BY <2>2, <2>3, <2>4, <2>5 DEF GenerationInvariant
<1>6. ASSUME ResetComponent PROVE GenerationInvariant'
  <2>1. /\ job' \in Job
        /\ job'.pc = "install"
        /\ job'.plan = job.plan /\ job'.gen = job.gen
        /\ job'.comp = job.comp /\ job'.applied = job.applied
    BY <1>t, <1>g, <1>6, JobFields, MovedJob
       DEF ResetComponent, TypeOK, StagedParts, Rest, Steps
  <2>2. TypeOK'
    BY <1>t, <1>g, <2>1, JobFields, <1>6
       DEF ResetComponent, TypeOK, StagedParts, Staging, Ready, Undoing, Rest, OpStatus,
           Pointer
  <2>3. OwnGenerations'
    BY <1>t, <1>g, <2>1, <1>6
       DEF ResetComponent, TypeOK, OwnGenerations, Open, Staging, Ready, Undoing, Rest
  <2>4. StagedParts'
    BY <1>t, <1>g, <2>1, JobFields, <1>6
       DEF ResetComponent, TypeOK, StagedParts, Staging, Ready, Undoing, Rest, Comps
  <2>5. FinishedKept'
    BY <1>t, <1>g, <2>1, <1>6
       DEF ResetComponent, TypeOK, OwnGenerations, StagedParts, FinishedKept, Complete,
           Open, Staging, Ready, Undoing, Rest, Gens
  <2> QED
    BY <2>2, <2>3, <2>4, <2>5 DEF GenerationInvariant
<1>7. ASSUME InstallComponent PROVE GenerationInvariant'
  <2>1. /\ job' \in Job
        /\ job'.pc = "receipt"
        /\ job'.plan = job.plan /\ job'.gen = job.gen
        /\ job'.comp = job.comp /\ job'.applied = job.applied
    BY <1>t, <1>g, <1>7, JobFields, MovedJob
       DEF InstallComponent, TypeOK, StagedParts, Rest, Steps
  <2>2. TypeOK'
    BY <1>t, <1>g, <2>1, JobFields, <1>7
       DEF InstallComponent, TypeOK, StagedParts, Staging, Ready, Undoing, Rest,
           OpStatus, Pointer, Comps
  <2>3. OwnGenerations'
    BY <1>t, <1>g, <2>1, <1>7
       DEF InstallComponent, TypeOK, OwnGenerations, Open, Staging, Ready, Undoing, Rest
  <2>4. StagedParts'
    BY <1>t, <1>g, <2>1, JobFields, <1>7
       DEF InstallComponent, TypeOK, StagedParts, Staging, Ready, Undoing, Rest, Comps
  <2>5. FinishedKept'
    BY <1>t, <1>g, <2>1, <1>7
       DEF InstallComponent, TypeOK, OwnGenerations, StagedParts, FinishedKept,
           Complete, Open, Staging, Ready, Undoing, Rest, Gens
  <2> QED
    BY <2>2, <2>3, <2>4, <2>5 DEF GenerationInvariant
<1>8. ASSUME WriteReceipt PROVE GenerationInvariant'
  <2>1. /\ job' \in Job
        /\ job'.plan = job.plan /\ job'.gen = job.gen
        /\ job'.applied = job.applied
        /\ \/ job'.pc = "failed"
           \/ <<job.gen, job.comp>> \in receipts' /\ job.comp = Last /\ job'.pc = "prepare"
           \/ <<job.gen, job.comp>> \in receipts' /\ job.comp < Last /\ job'.pc = "stage"
                 /\ job'.comp = job.comp + 1
        /\ receipts' \in {receipts, receipts \cup {<<job.gen, job.comp>>}}
    BY <1>t, <1>g, <1>8, JobFields, StagedJob, MovedJob
       DEF WriteReceipt, Write, TypeOK, StagedParts, Rest, Steps
  <2>2. TypeOK'
    BY <1>t, <1>g, <2>1, JobFields, <1>8
       DEF WriteReceipt, TypeOK, StagedParts, Staging, Ready, Undoing, Rest, OpStatus,
           Pointer
  <2>3. OwnGenerations'
    BY <1>t, <1>g, <2>1, <1>8
       DEF WriteReceipt, TypeOK, OwnGenerations, Open, Staging, Ready, Undoing, Rest
  <2>4. StagedParts'
    <3>1. 1..job.comp \subseteq content[job.gen]
      BY <1>t, <1>g, <1>8, JobFields DEF WriteReceipt, TypeOK, StagedParts, Staging
    <3>2. job.comp = Last => content[job.gen] = Comps
      BY <1>t, <1>g, <3>1, <1>8 DEF WriteReceipt, TypeOK, Comps, Rest
    <3>3. job.comp < Last /\ job'.comp = job.comp + 1 => 1..(job'.comp - 1) = 1..job.comp
      BY <1>t, JobFields DEF TypeOK
    <3> QED
      BY <3>1, <3>2, <3>3, <1>t, <1>g, <2>1, JobFields, <1>8
         DEF WriteReceipt, TypeOK, StagedParts, Staging, Ready, Undoing, Rest
  <2>5. FinishedKept'
    BY <1>t, <1>g, <2>1, <1>8
       DEF WriteReceipt, TypeOK, OwnGenerations, StagedParts, FinishedKept, Complete,
           Open, Staging, Ready, Undoing, Rest, Gens
  <2> QED
    BY <2>2, <2>3, <2>4, <2>5 DEF GenerationInvariant
<1>9. ASSUME StepFails PROVE GenerationInvariant'
  <2>1. /\ job' \in Job
        /\ job'.pc = "failed"
        /\ job'.plan = job.plan /\ job'.gen = job.gen
        /\ job'.comp = job.comp /\ job'.applied = job.applied
    BY <1>t, <1>g, <1>9, JobFields, MovedJob DEF StepFails, TypeOK, StagedParts, Rest, Steps
  <2>2. TypeOK'
    BY <1>t, <1>g, <2>1, JobFields, <1>9
       DEF StepFails, TypeOK, StagedParts, Staging, Ready, Undoing, Rest, OpStatus,
           Pointer
  <2>3. OwnGenerations'
    BY <1>t, <1>g, <2>1, <1>9
       DEF StepFails, TypeOK, OwnGenerations, Open, Staging, Ready, Undoing, Rest
  <2>4. StagedParts'
    BY <1>t, <1>g, <2>1, JobFields, <1>9
       DEF StepFails, TypeOK, StagedParts, Staging, Ready, Undoing, Rest, Comps
  <2>5. FinishedKept'
    BY <1>t, <1>g, <2>1, <1>9
       DEF StepFails, TypeOK, OwnGenerations, StagedParts, FinishedKept, Complete, Open,
           Staging, Ready, Undoing, Rest, Gens
  <2> QED
    BY <2>2, <2>3, <2>4, <2>5 DEF GenerationInvariant
<1>10. ASSUME PrepareLaunchers PROVE GenerationInvariant'
  <2>1. /\ job' \in Job
        /\ job'.pc = "manifest"
        /\ job'.plan = job.plan /\ job'.gen = job.gen
        /\ job'.comp = job.comp /\ job'.applied = job.applied
    BY <1>t, <1>g, <1>10, JobFields, PreparedJob
       DEF PrepareLaunchers, Job, TypeOK, StagedParts, Rest, Steps
  <2>2. TypeOK'
    BY <1>t, <1>g, <2>1, JobFields, <1>10
       DEF PrepareLaunchers, TypeOK, StagedParts, Staging, Ready, Undoing, Rest,
           OpStatus, Pointer
  <2>3. OwnGenerations'
    BY <1>t, <1>g, <2>1, <1>10
       DEF PrepareLaunchers, TypeOK, OwnGenerations, Open, Staging, Ready, Undoing, Rest
  <2>4. StagedParts'
    BY <1>t, <1>g, <2>1, JobFields, <1>10
       DEF PrepareLaunchers, TypeOK, StagedParts, Staging, Ready, Undoing, Rest, Comps
  <2>5. FinishedKept'
    BY <1>t, <1>g, <2>1, <1>10
       DEF PrepareLaunchers, TypeOK, OwnGenerations, StagedParts, FinishedKept,
           Complete, Open, Staging, Ready, Undoing, Rest, Gens
  <2> QED
    BY <2>2, <2>3, <2>4, <2>5 DEF GenerationInvariant
<1>11. ASSUME WriteManifest PROVE GenerationInvariant'
  <2>1. /\ job' \in Job
        /\ job'.pc \in {"retain", "failed"}
        /\ job'.plan = job.plan /\ job'.gen = job.gen
        /\ job'.comp = job.comp /\ job'.applied = job.applied
        /\ manifest' \in {manifest, manifest \cup {job.gen}}
        /\ job'.pc = "retain" => job.gen \in manifest'
    <3>1. /\ \/ job' = [job EXCEPT !.pc = "retain", !.current = current, !.previous = previous]
                  /\ manifest' = manifest \cup {job.gen}
             \/ job' = Moved(job, "failed")
          /\ manifest' \in {manifest, manifest \cup {job.gen}}
      BY <1>11 DEF WriteManifest, Write
    <3>2. job \in Job /\ current \in Pointer /\ previous \in Pointer
             /\ launcher \in [Names -> Pointer] /\ "retain" \in Steps /\ "failed" \in Steps
      BY <1>t DEF TypeOK, Steps
    <3>3. CASE job' = [job EXCEPT !.pc = "retain", !.current = current, !.previous = previous]
                 /\ manifest' = manifest \cup {job.gen}
      <4> DEFINE t == [job EXCEPT !.pc = "retain", !.current = current, !.previous = previous]
      <4>1. /\ t \in Job /\ t.pc = "retain" /\ t.plan = job.plan /\ t.gen = job.gen
            /\ t.comp = job.comp /\ t.applied = job.applied
        BY <3>2 DEF Job
      <4>2. job' = t
        BY <3>3
      <4> HIDE DEF t
      <4> QED
        BY <3>3, <4>1, <4>2
    <3>4. CASE job' = Moved(job, "failed")
      BY <3>1, <3>2, <3>4, MovedJob DEF Rest
    <3> QED
      BY <3>1, <3>3, <3>4
  <2>2. TypeOK'
    BY <1>t, <1>g, <2>1, JobFields, <1>11
       DEF WriteManifest, TypeOK, StagedParts, Staging, Ready, Undoing, Rest, OpStatus,
           Pointer
  <2>3. OwnGenerations'
    BY <1>t, <1>g, <2>1, <1>11
       DEF WriteManifest, TypeOK, OwnGenerations, Open, Staging, Ready, Undoing, Rest
  <2>4. StagedParts'
    BY <1>t, <1>g, <2>1, JobFields, <1>11
       DEF WriteManifest, TypeOK, StagedParts, Staging, Ready, Undoing, Rest, Comps
  <2>5. FinishedKept'
    BY <1>t, <1>g, <2>1, <1>11
       DEF WriteManifest, TypeOK, OwnGenerations, StagedParts, FinishedKept, Complete,
           Open, Staging, Ready, Undoing, Rest, Gens
  <2> QED
    BY <2>2, <2>3, <2>4, <2>5 DEF GenerationInvariant
<1>12. ASSUME RetainPrevious PROVE GenerationInvariant'
  <2>1. /\ job' \in Job
        /\ job'.pc \in {"current", "failed"}
        /\ job'.plan = job.plan /\ job'.gen = job.gen
        /\ job'.comp = job.comp /\ job'.applied = job.applied
        /\ previous' \in {current, previous}
    BY <1>t, <1>g, <1>12, JobFields, MovedJob
       DEF RetainPrevious, Write, TypeOK, StagedParts, Rest, Steps
  <2>2. TypeOK'
    BY <1>t, <1>g, <2>1, JobFields, <1>12
       DEF RetainPrevious, TypeOK, StagedParts, Staging, Ready, Undoing, Rest, OpStatus,
           Pointer
  <2>3. OwnGenerations'
    BY <1>t, <1>g, <2>1, <1>12
       DEF RetainPrevious, TypeOK, OwnGenerations, Open, Staging, Ready, Undoing, Rest
  <2>4. StagedParts'
    BY <1>t, <1>g, <2>1, JobFields, <1>12
       DEF RetainPrevious, TypeOK, StagedParts, Staging, Ready, Undoing, Rest, Comps
  <2>5. FinishedKept'
    BY <1>t, <1>g, <2>1, <1>12
       DEF RetainPrevious, TypeOK, OwnGenerations, StagedParts, FinishedKept, Complete,
           Open, Staging, Ready, Undoing, Rest, Gens
  <2> QED
    BY <2>2, <2>3, <2>4, <2>5 DEF GenerationInvariant
<1>13. ASSUME WriteCurrent PROVE GenerationInvariant'
  <2>1. /\ job' \in Job
        /\ job'.pc \in {"launch", "failed"}
        /\ job'.plan = job.plan /\ job'.gen = job.gen
        /\ job'.comp = job.comp /\ job'.applied = job.applied
        /\ current' \in {current, job.gen}
    BY <1>t, <1>g, <1>13, JobFields, MovedJob
       DEF WriteCurrent, Write, TypeOK, StagedParts, Rest, Steps
  <2>2. TypeOK'
    BY <1>t, <1>g, <2>1, JobFields, <1>13
       DEF WriteCurrent, TypeOK, StagedParts, Staging, Ready, Undoing, Rest, OpStatus,
           Pointer
  <2>3. OwnGenerations'
    BY <1>t, <1>g, <2>1, <1>13
       DEF WriteCurrent, TypeOK, OwnGenerations, Open, Staging, Ready, Undoing, Rest
  <2>4. StagedParts'
    BY <1>t, <1>g, <2>1, JobFields, <1>13
       DEF WriteCurrent, TypeOK, StagedParts, Staging, Ready, Undoing, Rest, Comps
  <2>5. FinishedKept'
    BY <1>t, <1>g, <2>1, <1>13
       DEF WriteCurrent, TypeOK, OwnGenerations, StagedParts, FinishedKept, Complete,
           Open, Staging, Ready, Undoing, Rest, Gens
  <2> QED
    BY <2>2, <2>3, <2>4, <2>5 DEF GenerationInvariant
<1>14. ASSUME ApplyLauncher PROVE GenerationInvariant'
  <2>1. /\ job' \in Job
        /\ job'.plan = job.plan /\ job'.gen = job.gen
        /\ \/ job'.pc = "unlaunch"
           \/ job'.pc = "complete"
           \/ job'.pc = "launch" /\ job'.applied < LastLauncher
        /\ launcher' \in {launcher, [launcher EXCEPT ![job.applied + 1] = job.gen]}
    BY <1>t, <1>g, <1>14, JobFields, LaunchedJob, MovedJob
       DEF ApplyLauncher, Write, TypeOK, StagedParts, Rest, Steps
  <2>2. TypeOK'
    BY <1>t, <1>g, <2>1, JobFields, <1>14
       DEF ApplyLauncher, TypeOK, StagedParts, Staging, Ready, Undoing, Rest, OpStatus,
           Pointer
  <2>3. OwnGenerations'
    BY <1>t, <1>g, <2>1, <1>14
       DEF ApplyLauncher, TypeOK, OwnGenerations, Open, Staging, Ready, Undoing, Rest
  <2>4. StagedParts'
    BY <1>t, <1>g, <2>1, JobFields, <1>14
       DEF ApplyLauncher, TypeOK, StagedParts, Staging, Ready, Undoing, Rest, Comps
  <2>5. FinishedKept'
    BY <1>t, <1>g, <2>1, <1>14
       DEF ApplyLauncher, TypeOK, OwnGenerations, StagedParts, FinishedKept, Complete,
           Open, Staging, Ready, Undoing, Rest, Gens
  <2> QED
    BY <2>2, <2>3, <2>4, <2>5 DEF GenerationInvariant
<1>15. ASSUME RestoreLauncher PROVE GenerationInvariant'
  <2>1. /\ job' \in Job
        /\ job'.pc = "unlaunch"
        /\ job'.plan = job.plan /\ job'.gen = job.gen
        /\ launcher' \in {launcher, [launcher EXCEPT ![job.applied] = job.launchers[job.applied]]}
    <3>1. /\ job' = [job EXCEPT !.applied = @ - 1]
          /\ launcher' \in {launcher, [launcher EXCEPT ![job.applied] = job.launchers[job.applied]]}
      BY <1>15 DEF RestoreLauncher, Write
    <3> QED
      BY <1>t, <1>15, <3>1, RestoredJob DEF RestoreLauncher, TypeOK
  <2>2. TypeOK'
    BY <1>t, <1>g, <2>1, JobFields, <1>15
       DEF RestoreLauncher, TypeOK, StagedParts, Staging, Ready, Undoing, Rest,
           OpStatus, Pointer
  <2>3. OwnGenerations'
    BY <1>t, <1>g, <2>1, <1>15
       DEF RestoreLauncher, TypeOK, OwnGenerations, Open, Staging, Ready, Undoing, Rest
  <2>4. StagedParts'
    BY <1>t, <1>g, <2>1, JobFields, <1>15
       DEF RestoreLauncher, TypeOK, StagedParts, Staging, Ready, Undoing, Rest, Comps
  <2>5. FinishedKept'
    BY <1>t, <1>g, <2>1, <1>15
       DEF RestoreLauncher, TypeOK, OwnGenerations, StagedParts, FinishedKept, Complete,
           Open, Staging, Ready, Undoing, Rest, Gens
  <2> QED
    BY <2>2, <2>3, <2>4, <2>5 DEF GenerationInvariant
<1>16. ASSUME LaunchersRestored PROVE GenerationInvariant'
  <2>1. /\ job' \in Job
        /\ job'.pc = "restoreCurrent"
        /\ job'.plan = job.plan /\ job'.gen = job.gen
        /\ job'.comp = job.comp /\ job'.applied = job.applied
    BY <1>t, <1>g, <1>16, JobFields, MovedJob
       DEF LaunchersRestored, TypeOK, StagedParts, Rest, Steps
  <2>2. TypeOK'
    BY <1>t, <1>g, <2>1, JobFields, <1>16
       DEF LaunchersRestored, TypeOK, StagedParts, Staging, Ready, Undoing, Rest,
           OpStatus, Pointer
  <2>3. OwnGenerations'
    BY <1>t, <1>g, <2>1, <1>16
       DEF LaunchersRestored, TypeOK, OwnGenerations, Open, Staging, Ready, Undoing,
           Rest
  <2>4. StagedParts'
    BY <1>t, <1>g, <2>1, JobFields, <1>16
       DEF LaunchersRestored, TypeOK, StagedParts, Staging, Ready, Undoing, Rest, Comps
  <2>5. FinishedKept'
    BY <1>t, <1>g, <2>1, <1>16
       DEF LaunchersRestored, TypeOK, OwnGenerations, StagedParts, FinishedKept,
           Complete, Open, Staging, Ready, Undoing, Rest, Gens
  <2> QED
    BY <2>2, <2>3, <2>4, <2>5 DEF GenerationInvariant
<1>17. ASSUME RestoreCurrent PROVE GenerationInvariant'
  <2>1. /\ job' \in Job
        /\ job'.pc \in {"restorePrevious", "failed"}
        /\ job'.plan = job.plan /\ job'.gen = job.gen
        /\ job'.comp = job.comp /\ job'.applied = job.applied
        /\ current' \in {current, job.current}
    BY <1>t, <1>g, <1>17, JobFields, MovedJob
       DEF RestoreCurrent, Write, TypeOK, StagedParts, Rest, Steps
  <2>2. TypeOK'
    BY <1>t, <1>g, <2>1, JobFields, <1>17
       DEF RestoreCurrent, TypeOK, StagedParts, Staging, Ready, Undoing, Rest, OpStatus,
           Pointer
  <2>3. OwnGenerations'
    BY <1>t, <1>g, <2>1, <1>17
       DEF RestoreCurrent, TypeOK, OwnGenerations, Open, Staging, Ready, Undoing, Rest
  <2>4. StagedParts'
    BY <1>t, <1>g, <2>1, JobFields, <1>17
       DEF RestoreCurrent, TypeOK, StagedParts, Staging, Ready, Undoing, Rest, Comps
  <2>5. FinishedKept'
    BY <1>t, <1>g, <2>1, <1>17
       DEF RestoreCurrent, TypeOK, OwnGenerations, StagedParts, FinishedKept, Complete,
           Open, Staging, Ready, Undoing, Rest, Gens
  <2> QED
    BY <2>2, <2>3, <2>4, <2>5 DEF GenerationInvariant
<1>18. ASSUME RestorePrevious PROVE GenerationInvariant'
  <2>1. /\ job' \in Job
        /\ job'.pc = "failed"
        /\ job'.plan = job.plan /\ job'.gen = job.gen
        /\ job'.comp = job.comp /\ job'.applied = job.applied
        /\ previous' \in {previous, job.previous}
    BY <1>t, <1>g, <1>18, JobFields, MovedJob
       DEF RestorePrevious, Write, TypeOK, StagedParts, Rest, Steps
  <2>2. TypeOK'
    BY <1>t, <1>g, <2>1, JobFields, <1>18
       DEF RestorePrevious, TypeOK, StagedParts, Staging, Ready, Undoing, Rest,
           OpStatus, Pointer
  <2>3. OwnGenerations'
    BY <1>t, <1>g, <2>1, <1>18
       DEF RestorePrevious, TypeOK, OwnGenerations, Open, Staging, Ready, Undoing, Rest
  <2>4. StagedParts'
    BY <1>t, <1>g, <2>1, JobFields, <1>18
       DEF RestorePrevious, TypeOK, StagedParts, Staging, Ready, Undoing, Rest, Comps
  <2>5. FinishedKept'
    BY <1>t, <1>g, <2>1, <1>18
       DEF RestorePrevious, TypeOK, OwnGenerations, StagedParts, FinishedKept, Complete,
           Open, Staging, Ready, Undoing, Rest, Gens
  <2> QED
    BY <2>2, <2>3, <2>4, <2>5 DEF GenerationInvariant
<1>19. ASSUME RecordFailure PROVE GenerationInvariant'
  <2>1. /\ job' \in Job
        /\ job'.pc = "cleanup"
        /\ job'.plan = job.plan /\ job'.gen = job.gen
        /\ job'.comp = job.comp /\ job'.applied = job.applied
        /\ op' = op \/ op' = [op EXCEPT ![job.plan] = [status |-> "failed", gen |-> job.gen]]
    BY <1>t, <1>g, <1>19, JobFields, MovedJob
       DEF RecordFailure, Noted, TypeOK, StagedParts, Rest, Steps
  <2>2. TypeOK'
    BY <1>t, <1>g, <2>1, JobFields, <1>19
       DEF RecordFailure, TypeOK, StagedParts, Staging, Ready, Undoing, Rest, OpStatus,
           Pointer
  <2>3. OwnGenerations'
    BY <1>t, <1>g, <2>1, <1>19
       DEF RecordFailure, TypeOK, OwnGenerations, Open, Staging, Ready, Undoing, Rest
  <2>4. StagedParts'
    BY <1>t, <1>g, <2>1, JobFields, <1>19
       DEF RecordFailure, TypeOK, StagedParts, Staging, Ready, Undoing, Rest, Comps
  <2>5. FinishedKept'
    BY <1>t, <1>g, <2>1, <1>19
       DEF RecordFailure, TypeOK, OwnGenerations, StagedParts, FinishedKept, Complete,
           Open, Staging, Ready, Undoing, Rest, Gens
  <2> QED
    BY <2>2, <2>3, <2>4, <2>5 DEF GenerationInvariant
<1>20. ASSUME RemoveEntry PROVE GenerationInvariant'
  <2>1. /\ job' \in Job
        /\ job' = job
        /\ content' \in [Gens -> SUBSET Comps]
        /\ \A g \in Gens : g # job.gen => content'[g] = content[g]
        /\ manifest' \in {manifest, manifest \ {job.gen}}
    BY <1>t, <1>g, <1>20, JobFields DEF RemoveEntry, TypeOK, StagedParts, Rest, Steps
  <2>2. TypeOK'
    BY <1>t, <1>g, <2>1, JobFields, <1>20
       DEF RemoveEntry, TypeOK, StagedParts, Staging, Ready, Undoing, Rest, OpStatus,
           Pointer
  <2>3. OwnGenerations'
    BY <1>t, <1>g, <2>1, <1>20
       DEF RemoveEntry, TypeOK, OwnGenerations, Open, Staging, Ready, Undoing, Rest
  <2>4. StagedParts'
    BY <1>t, <1>g, <2>1, JobFields, <1>20
       DEF RemoveEntry, TypeOK, StagedParts, Staging, Ready, Undoing, Rest, Comps
  <2>5. FinishedKept'
    BY <1>t, <1>g, <2>1, <1>20
       DEF RemoveEntry, TypeOK, OwnGenerations, StagedParts, FinishedKept, Complete,
           Open, Staging, Ready, Undoing, Rest, Gens
  <2> QED
    BY <2>2, <2>3, <2>4, <2>5 DEF GenerationInvariant
<1>21. ASSUME EndCleanup PROVE GenerationInvariant'
  <2>1. /\ job' \in Job
        /\ job'.pc = "idle"
        /\ dirs' = dirs \/ (content[job.gen] = {} /\ job.gen \notin manifest /\ dirs' = dirs \ {job.gen})
    BY <1>t, <1>g, <1>21, JobFields, MovedJob
       DEF EndCleanup, TypeOK, StagedParts, Rest, Steps
  <2>2. TypeOK'
    BY <1>t, <1>g, <2>1, JobFields, <1>21
       DEF EndCleanup, TypeOK, StagedParts, Staging, Ready, Undoing, Rest, OpStatus,
           Pointer
  <2>3. OwnGenerations'
    BY <1>t, <1>g, <2>1, <1>21
       DEF EndCleanup, TypeOK, OwnGenerations, Open, Staging, Ready, Undoing, Rest
  <2>4. StagedParts'
    BY <1>t, <1>g, <2>1, JobFields, <1>21
       DEF EndCleanup, TypeOK, StagedParts, Staging, Ready, Undoing, Rest, Comps
  <2>5. FinishedKept'
    BY <1>t, <1>g, <2>1, <1>21
       DEF EndCleanup, TypeOK, OwnGenerations, StagedParts, FinishedKept, Complete,
           Open, Staging, Ready, Undoing, Rest, Gens
  <2> QED
    BY <2>2, <2>3, <2>4, <2>5 DEF GenerationInvariant
<1>22. ASSUME RecordComplete PROVE GenerationInvariant'
  <2>1. /\ job' \in Job
        /\ job'.plan = job.plan /\ job'.gen = job.gen
        /\ job'.comp = job.comp /\ job'.applied = job.applied
        /\ \/ job'.pc = "cleanup" /\ finished' = finished
           \/ /\ job'.pc = "persist" /\ finished' = finished \cup {job.gen}
              /\ op'[job.plan].status = "complete"
        /\ \/ op' = op
           \/ op' = [op EXCEPT ![job.plan] = [status |-> "complete", gen |-> job.gen]]
    BY <1>t, <1>g, <1>22, JobFields, MovedJob
       DEF RecordComplete, Write, TypeOK, StagedParts, Rest, Steps
  <2>2. TypeOK'
    BY <1>t, <1>g, <2>1, JobFields, <1>22
       DEF RecordComplete, TypeOK, StagedParts, Staging, Ready, Undoing, Rest, OpStatus,
           Pointer
  <2>3. OwnGenerations'
    BY <1>t, <1>g, <2>1, <1>22
       DEF RecordComplete, TypeOK, OwnGenerations, Open, Staging, Ready, Undoing, Rest
  <2>4. StagedParts'
    BY <1>t, <1>g, <2>1, JobFields, <1>22
       DEF RecordComplete, TypeOK, StagedParts, Staging, Ready, Undoing, Rest, Comps
  <2>5. FinishedKept'
    BY <1>t, <1>g, <2>1, <1>22
       DEF RecordComplete, TypeOK, OwnGenerations, StagedParts, FinishedKept, Complete,
           Open, Staging, Ready, Undoing, Rest, Gens
  <2> QED
    BY <2>2, <2>3, <2>4, <2>5 DEF GenerationInvariant
<1>23. ASSUME PersistState PROVE GenerationInvariant'
  <2>1. /\ job' \in Job
        /\ job'.pc \in {"bootstrap", "rollback"}
        /\ job'.plan = job.plan /\ job'.gen = job.gen
        /\ job'.comp = job.comp /\ job'.applied = job.applied
        /\ global' \in {global, job.gen}
    BY <1>t, <1>g, <1>23, JobFields, MovedJob
       DEF PersistState, Write, TypeOK, StagedParts, Rest, Steps
  <2>2. TypeOK'
    BY <1>t, <1>g, <2>1, JobFields, <1>23
       DEF PersistState, TypeOK, StagedParts, Staging, Ready, Undoing, Rest, OpStatus,
           Pointer
  <2>3. OwnGenerations'
    BY <1>t, <1>g, <2>1, <1>23
       DEF PersistState, TypeOK, OwnGenerations, Open, Staging, Ready, Undoing, Rest
  <2>4. StagedParts'
    BY <1>t, <1>g, <2>1, JobFields, <1>23
       DEF PersistState, TypeOK, StagedParts, Staging, Ready, Undoing, Rest, Comps
  <2>5. FinishedKept'
    BY <1>t, <1>g, <2>1, <1>23
       DEF PersistState, TypeOK, OwnGenerations, StagedParts, FinishedKept, Complete,
           Open, Staging, Ready, Undoing, Rest, Gens
  <2> QED
    BY <2>2, <2>3, <2>4, <2>5 DEF GenerationInvariant
<1>24. ASSUME Bootstrap PROVE GenerationInvariant'
  <2>1. /\ job' \in Job
        /\ job'.pc \in {"done", "rollback"}
        /\ job'.pc = "rollback" =>
              /\ job'.plan = job.plan /\ job'.gen = job.gen
              /\ job'.comp = job.comp /\ job'.applied = job.applied
    BY <1>t, <1>g, <1>24, JobFields, MovedJob
       DEF Bootstrap, TypeOK, StagedParts, Rest, Steps
  <2>2. TypeOK'
    BY <1>t, <1>g, <2>1, JobFields, <1>24
       DEF Bootstrap, TypeOK, StagedParts, Staging, Ready, Undoing, Rest, OpStatus,
           Pointer
  <2>3. OwnGenerations'
    BY <1>t, <1>g, <2>1, <1>24
       DEF Bootstrap, TypeOK, OwnGenerations, Open, Staging, Ready, Undoing, Rest
  <2>4. StagedParts'
    BY <1>t, <1>g, <2>1, JobFields, <1>24
       DEF Bootstrap, TypeOK, StagedParts, Staging, Ready, Undoing, Rest, Comps
  <2>5. FinishedKept'
    BY <1>t, <1>g, <2>1, <1>24
       DEF Bootstrap, TypeOK, OwnGenerations, StagedParts, FinishedKept, Complete, Open,
           Staging, Ready, Undoing, Rest, Gens
  <2> QED
    BY <2>2, <2>3, <2>4, <2>5 DEF GenerationInvariant
<1>25. ASSUME Rollback PROVE GenerationInvariant'
  <2>1. /\ job' \in Job
        /\ job'.pc \in {"swap", "idle"}
        /\ job'.pc = "swap" =>
              /\ job'.plan = job.plan /\ job'.gen = job.gen
              /\ job'.comp = job.comp /\ job'.applied = job.applied
        /\ current' \in {current, previous}
    <3>1. /\ \/ job' = [job EXCEPT !.pc = "swap", !.current = current]
             \/ job' = Moved(job, "idle")
          /\ current' \in {current, previous}
      BY <1>25 DEF Rollback, Write
    <3>2. job \in Job /\ current \in Pointer /\ launcher \in [Names -> Pointer]
             /\ "swap" \in Steps /\ "idle" \in Steps
      BY <1>t DEF TypeOK, Steps, Rest
    <3>3. CASE job' = [job EXCEPT !.pc = "swap", !.current = current]
      BY <3>1, <3>2, <3>3, SwappingJob
    <3>4. CASE job' = Moved(job, "idle")
      BY <3>1, <3>2, <3>4, MovedJob
    <3> QED
      BY <3>1, <3>3, <3>4
  <2>2. TypeOK'
    BY <1>t, <1>g, <2>1, JobFields, <1>25
       DEF Rollback, TypeOK, StagedParts, Staging, Ready, Undoing, Rest, OpStatus,
           Pointer
  <2>3. OwnGenerations'
    BY <1>t, <1>g, <2>1, <1>25
       DEF Rollback, TypeOK, OwnGenerations, Open, Staging, Ready, Undoing, Rest
  <2>4. StagedParts'
    BY <1>t, <1>g, <2>1, JobFields, <1>25
       DEF Rollback, TypeOK, StagedParts, Staging, Ready, Undoing, Rest, Comps
  <2>5. FinishedKept'
    BY <1>t, <1>g, <2>1, <1>25
       DEF Rollback, TypeOK, OwnGenerations, StagedParts, FinishedKept, Complete, Open,
           Staging, Ready, Undoing, Rest, Gens
  <2> QED
    BY <2>2, <2>3, <2>4, <2>5 DEF GenerationInvariant
<1>26. ASSUME SwapPrevious PROVE GenerationInvariant'
  <2>1. /\ job' \in Job
        /\ job'.pc \in {"rolledBack", "idle"}
        /\ previous' \in {previous, job.current}
    BY <1>t, <1>g, <1>26, JobFields, MovedJob
       DEF SwapPrevious, Write, TypeOK, StagedParts, Rest, Steps
  <2>2. TypeOK'
    BY <1>t, <1>g, <2>1, JobFields, <1>26
       DEF SwapPrevious, TypeOK, StagedParts, Staging, Ready, Undoing, Rest, OpStatus,
           Pointer
  <2>3. OwnGenerations'
    BY <1>t, <1>g, <2>1, <1>26
       DEF SwapPrevious, TypeOK, OwnGenerations, Open, Staging, Ready, Undoing, Rest
  <2>4. StagedParts'
    BY <1>t, <1>g, <2>1, JobFields, <1>26
       DEF SwapPrevious, TypeOK, StagedParts, Staging, Ready, Undoing, Rest, Comps
  <2>5. FinishedKept'
    BY <1>t, <1>g, <2>1, <1>26
       DEF SwapPrevious, TypeOK, OwnGenerations, StagedParts, FinishedKept, Complete,
           Open, Staging, Ready, Undoing, Rest, Gens
  <2> QED
    BY <2>2, <2>3, <2>4, <2>5 DEF GenerationInvariant
<1>27. ASSUME RollbackRefused PROVE GenerationInvariant'
  <2>1. /\ job' \in Job
        /\ job'.pc = "idle"
    BY <1>t, <1>g, <1>27, JobFields, MovedJob
       DEF RollbackRefused, TypeOK, StagedParts, Rest, Steps
  <2>2. TypeOK'
    BY <1>t, <1>g, <2>1, JobFields, <1>27
       DEF RollbackRefused, TypeOK, StagedParts, Staging, Ready, Undoing, Rest,
           OpStatus, Pointer
  <2>3. OwnGenerations'
    BY <1>t, <1>g, <2>1, <1>27
       DEF RollbackRefused, TypeOK, OwnGenerations, Open, Staging, Ready, Undoing, Rest
  <2>4. StagedParts'
    BY <1>t, <1>g, <2>1, JobFields, <1>27
       DEF RollbackRefused, TypeOK, StagedParts, Staging, Ready, Undoing, Rest, Comps
  <2>5. FinishedKept'
    BY <1>t, <1>g, <2>1, <1>27
       DEF RollbackRefused, TypeOK, OwnGenerations, StagedParts, FinishedKept, Complete,
           Open, Staging, Ready, Undoing, Rest, Gens
  <2> QED
    BY <2>2, <2>3, <2>4, <2>5 DEF GenerationInvariant
<1>28. ASSUME Crash PROVE GenerationInvariant'
  <2>1. /\ job' \in Job
        /\ job'.pc = "idle"
        /\ crashes' \in 0..MaxCrashes
    BY <1>t, <1>g, <1>28, JobFields, NoJobJob DEF Crash, TypeOK, StagedParts, Rest, Steps
  <2>2. TypeOK'
    BY <1>t, <1>g, <2>1, JobFields, <1>28
       DEF Crash, TypeOK, StagedParts, Staging, Ready, Undoing, Rest, OpStatus, Pointer
  <2>3. OwnGenerations'
    BY <1>t, <1>g, <2>1, <1>28
       DEF Crash, TypeOK, OwnGenerations, Open, Staging, Ready, Undoing, Rest
  <2>4. StagedParts'
    BY <1>t, <1>g, <2>1, JobFields, <1>28
       DEF Crash, TypeOK, StagedParts, Staging, Ready, Undoing, Rest, Comps
  <2>5. FinishedKept'
    BY <1>t, <1>g, <2>1, <1>28
       DEF Crash, TypeOK, OwnGenerations, StagedParts, FinishedKept, Complete, Open,
           Staging, Ready, Undoing, Rest, Gens
  <2> QED
    BY <2>2, <2>3, <2>4, <2>5 DEF GenerationInvariant
<1>29. CASE UNCHANGED vars
  BY <1>29, <1>t DEF vars, GenerationInvariant, TypeOK, OwnGenerations, StagedParts,
     FinishedKept, Complete
<1> QED
  BY <1>1, <1>2, <1>3, <1>4, <1>5, <1>6, <1>7, <1>8, <1>9, <1>10, <1>11, <1>12,
     <1>13, <1>14, <1>15, <1>16, <1>17, <1>18, <1>19, <1>20, <1>21, <1>22, <1>23,
     <1>24, <1>25, <1>26, <1>27, <1>28, <1>29
     DEF Next

(* Before the first update nothing is staged, recorded or finished. *)
LEMMA GenerationInvariantInitially == Init => GenerationInvariant
BY RuntimeConstants, NoJobJob
   DEF Init, GenerationInvariant, TypeOK, OwnGenerations, StagedParts, FinishedKept,
       OpStatus, Pointer, NoLaunchers, Rest, Open, Staging, Ready, Undoing

(* Type correctness of the runtime's files and of the update under way. *)
THEOREM RuntimeTypeCorrect == Spec => []TypeOK
<1>1. GenerationInvariant /\ [Next]_vars => GenerationInvariant'
  BY GenerationStep
<1>2. GenerationInvariant => TypeOK
  BY DEF GenerationInvariant
<1> QED
  BY <1>1, <1>2, GenerationInvariantInitially, PTL DEF Spec

(* resumableGeneration and the deferred cleanup never touch a generation whose *)
(* update was recorded complete: it keeps its components and its manifest for  *)
(* ever, whatever fails, is interrupted, is rolled back or is killed.          *)
THEOREM FinishedKeptHolds == Spec => []FinishedKept
<1>1. GenerationInvariant /\ [Next]_vars => GenerationInvariant'
  BY GenerationStep
<1>2. GenerationInvariant => FinishedKept
  BY DEF GenerationInvariant
<1> QED
  BY <1>1, <1>2, GenerationInvariantInitially, PTL DEF Spec

-------------------------------------------------------------------------------
(* The invariant behind SuccessVerifies: how much of what Verify asks for holds *)
(* at each step of an update that has not failed.                              *)
ActivationInvariant ==
    /\ job.pc \in Staging => \A c \in 1..(job.comp - 1) : <<job.gen, c>> \in receipts
    /\ job.pc \in Ready \cup Active => \A c \in Comps : <<job.gen, c>> \in receipts
    /\ job.pc \in Active => current = job.gen
    /\ job.pc = "launch" => \A n \in 1..job.applied : launcher[n] = job.gen
    /\ job.pc \in Active \ {"launch"} => \A n \in Names : launcher[n] = job.gen
    /\ job.pc \in {"persist", "bootstrap"} => job.gen \in finished
    /\ job.pc = "bootstrap" => global = job.gen
    /\ SuccessVerifies

(* A step that leaves the road to success cannot break it. *)
Aside == Undoing \cup {"idle", "rolledBack", "mkdir", "rollback", "swap"}

(* The invariant says nothing about updates that have failed or not begun. *)
LEMMA AsideKeeps ==
  ASSUME job'.pc \in Aside
  PROVE  ActivationInvariant'
BY DEF Aside, ActivationInvariant, Staging, Ready, Active, Undoing, SuccessVerifies, At

(* One step preserves the activation invariant when no foreign file holds a    *)
(* launcher's name.                                                            *)
LEMMA ActivationStep ==
  ASSUME Foreign = {}, GenerationInvariant, GenerationInvariant', ActivationInvariant,
         [Next]_vars
  PROVE  ActivationInvariant'
<1> USE RuntimeConstants DEF At, Goto, trees, pointers, history
<1>t. TypeOK /\ TypeOK' /\ StagedParts /\ FinishedKept
  BY DEF GenerationInvariant
<1>j. job \in Job /\ job' \in Job
  BY <1>t DEF TypeOK
<1>1. ASSUME NEW p \in Plans, StartApply(p) PROVE ActivationInvariant'
  <2>1. job' = NoJob \/ job'.pc = "mkdir"
    <3> DEFINE g == IF Resumable(p) THEN op[p].gen ELSE used + 1
    <3>1. job' = NoJob \/ job' = [NoJob EXCEPT !.pc = "mkdir", !.plan = p, !.gen = g]
      BY <1>1 DEF StartApply, Write
    <3> HIDE DEF g
    <3> QED
      BY <3>1 DEF NoJob
  <2> QED
    BY <2>1, NoJobJob, AsideKeeps DEF Aside
<1>2. ASSUME MakeDirectory PROVE ActivationInvariant'
  <2>1. job'.pc = "idle" \/ (job'.pc = "stage" /\ job'.gen = job.gen /\ job'.comp = 1)
    BY <1>t, <1>j, <1>2, MovedJob DEF MakeDirectory, StagedParts, Steps, Rest
  <2> QED
    BY <2>1, AsideKeeps
       DEF Aside, ActivationInvariant, Staging, Ready, Active, SuccessVerifies
<1>3. ASSUME ReuseComponent PROVE ActivationInvariant'
  <2>1. \/ job'.pc = "failed"
        \/ /\ job'.gen = job.gen /\ <<job.gen, job.comp>> \in receipts'
           /\ \/ job.comp = Last /\ job'.pc = "prepare"
              \/ job.comp < Last /\ job'.pc = "stage" /\ job'.comp = job.comp + 1
    BY <1>j, <1>3, StagedJob, MovedJob DEF ReuseComponent, Steps
  <2>2. \A c \in 1..(job.comp - 1) : <<job.gen, c>> \in receipts'
    BY <1>3 DEF ReuseComponent, ActivationInvariant, Staging
  <2>3. <<job.gen, job.comp>> \in receipts' => \A c \in 1..job.comp : <<job.gen, c>> \in receipts'
    BY <1>j, <2>2, JobFields
  <2>4. CASE job'.pc = "failed"
    BY <2>4, AsideKeeps DEF Aside, Undoing
  <2>5. CASE job'.gen = job.gen /\ <<job.gen, job.comp>> \in receipts'
               /\ job.comp = Last /\ job'.pc = "prepare"
    BY <2>3, <2>5 DEF ActivationInvariant, Staging, Ready, Active, SuccessVerifies, Comps
  <2>6. CASE job'.gen = job.gen /\ <<job.gen, job.comp>> \in receipts'
               /\ job.comp < Last /\ job'.pc = "stage" /\ job'.comp = job.comp + 1
    <3>1. 1..(job'.comp - 1) = 1..job.comp
      BY <1>j, <2>6, JobFields
    <3> QED
      BY <2>3, <2>6, <3>1 DEF ActivationInvariant, Staging, Ready, Active, SuccessVerifies
  <2> QED
    BY <2>1, <2>4, <2>5, <2>6
<1>4. ASSUME ResetComponent PROVE ActivationInvariant'
  <2>1. job'.pc = "install" /\ job'.gen = job.gen /\ job'.comp = job.comp
    BY <1>j, <1>4, MovedJob DEF ResetComponent, Steps, Rest
  <2> QED
    BY <2>1, <1>4
       DEF ResetComponent, ActivationInvariant, Staging, Ready, Active, SuccessVerifies
<1>5. ASSUME InstallComponent PROVE ActivationInvariant'
  <2>1. job'.pc = "receipt" /\ job'.gen = job.gen /\ job'.comp = job.comp
    BY <1>j, <1>5, MovedJob DEF InstallComponent, Steps, Rest
  <2> QED
    BY <2>1, <1>5
       DEF InstallComponent, ActivationInvariant, Staging, Ready, Active,
           SuccessVerifies
<1>6. ASSUME WriteReceipt PROVE ActivationInvariant'
  <2>1. \/ job'.pc = "failed"
        \/ /\ job'.gen = job.gen /\ <<job.gen, job.comp>> \in receipts'
           /\ \/ job.comp = Last /\ job'.pc = "prepare"
              \/ job.comp < Last /\ job'.pc = "stage" /\ job'.comp = job.comp + 1
    BY <1>j, <1>6, StagedJob, MovedJob DEF WriteReceipt, Write, Steps
  <2>2. \A c \in 1..(job.comp - 1) : <<job.gen, c>> \in receipts'
    BY <1>6 DEF WriteReceipt, Write, ActivationInvariant, Staging
  <2>3. <<job.gen, job.comp>> \in receipts' => \A c \in 1..job.comp : <<job.gen, c>> \in receipts'
    BY <1>j, <2>2, JobFields
  <2>4. CASE job'.pc = "failed"
    BY <2>4, AsideKeeps DEF Aside, Undoing
  <2>5. CASE job'.gen = job.gen /\ <<job.gen, job.comp>> \in receipts'
               /\ job.comp = Last /\ job'.pc = "prepare"
    BY <2>3, <2>5 DEF ActivationInvariant, Staging, Ready, Active, SuccessVerifies, Comps
  <2>6. CASE job'.gen = job.gen /\ <<job.gen, job.comp>> \in receipts'
               /\ job.comp < Last /\ job'.pc = "stage" /\ job'.comp = job.comp + 1
    <3>1. 1..(job'.comp - 1) = 1..job.comp
      BY <1>j, <2>6, JobFields
    <3> QED
      BY <2>3, <2>6, <3>1 DEF ActivationInvariant, Staging, Ready, Active, SuccessVerifies
  <2> QED
    BY <2>1, <2>4, <2>5, <2>6
<1>7. ASSUME PrepareLaunchers PROVE ActivationInvariant'
  <2>1. job'.pc = "manifest" /\ job'.gen = job.gen
    BY <1>j, <1>7 DEF PrepareLaunchers, Job
  <2> QED
    BY <2>1, <1>7
       DEF PrepareLaunchers, ActivationInvariant, Staging, Ready, Active,
           SuccessVerifies
<1>8. ASSUME WriteManifest PROVE ActivationInvariant'
  <2>1. \/ job'.pc \in Aside
        \/ job'.pc = "retain" /\ job'.gen = job.gen
    <3>1. \/ job' = [job EXCEPT !.pc = "retain", !.current = current, !.previous = previous]
          \/ job' = Moved(job, "failed")
      BY <1>8 DEF WriteManifest, Write
    <3>2. job' = [job EXCEPT !.pc = "retain", !.current = current, !.previous = previous]
            => job'.pc = "retain" /\ job'.gen = job.gen
      BY <1>j DEF Job
    <3> QED
      BY <1>j, <3>1, <3>2, MovedJob DEF Steps, Aside, Undoing
  <2> QED
    BY <2>1, <1>8, AsideKeeps
       DEF WriteManifest, ActivationInvariant, Staging, Ready, Active, SuccessVerifies
<1>9. ASSUME RetainPrevious PROVE ActivationInvariant'
  <2>1. \/ job'.pc \in Aside
        \/ job'.pc = "current" /\ job'.gen = job.gen
    BY <1>t, <1>j, <1>9, MovedJob DEF RetainPrevious, Write, Steps, Rest, Aside, Undoing
  <2> QED
    BY <2>1, <1>9, AsideKeeps
       DEF RetainPrevious, ActivationInvariant, Staging, Ready, Active, SuccessVerifies
<1>10. ASSUME WriteCurrent PROVE ActivationInvariant'
  <2>1. \/ job'.pc \in Aside
        \/ job'.pc = "launch" /\ job'.gen = job.gen /\ job'.applied = 0 /\ current' = job.gen
    BY <1>t, <1>j, <1>10, MovedJob
       DEF WriteCurrent, Write, Steps, Rest, Aside, Undoing, StagedParts, Staging, Ready
  <2> QED
    BY <2>1, <1>10, AsideKeeps
       DEF WriteCurrent, ActivationInvariant, Staging, Ready, Active, SuccessVerifies
<1>11. ASSUME ApplyLauncher PROVE ActivationInvariant'
  <2>1. \/ job'.pc = "unlaunch"
        \/ /\ job'.gen = job.gen /\ job'.applied = job.applied + 1
           /\ launcher' = [launcher EXCEPT ![job.applied + 1] = job.gen]
           /\ \/ job.applied + 1 = LastLauncher /\ job'.pc = "complete"
              \/ job'.pc = "launch"
    BY <1>t, <1>j, <1>11, LaunchedJob, MovedJob DEF ApplyLauncher, Write, StagedParts, Steps
  <2>2. job.applied \in 0..LastLauncher /\ job.applied < LastLauncher
    BY <1>t, <1>j, <1>11, JobFields DEF ApplyLauncher, StagedParts
  <2>3. launcher' = [launcher EXCEPT ![job.applied + 1] = job.gen]
          => \A n \in 1..(job.applied + 1) : launcher'[n] = job.gen
    <3> SUFFICES ASSUME launcher' = [launcher EXCEPT ![job.applied + 1] = job.gen],
                        NEW n \in 1..(job.applied + 1)
                 PROVE  launcher'[n] = job.gen
      OBVIOUS
    <3>1. n \in Names /\ (n = job.applied + 1 \/ n \in 1..job.applied)
      BY <2>2 DEF Names
    <3>2. n \in 1..job.applied => launcher[n] = job.gen
      BY <1>11 DEF ApplyLauncher, ActivationInvariant
    <3> QED
      BY <1>t, <3>1, <3>2 DEF TypeOK
  <2>4. CASE job'.pc = "unlaunch"
    BY <2>4, AsideKeeps DEF Aside, Undoing
  <2>5. CASE job'.pc # "unlaunch"
    BY <2>1, <2>3, <2>5, <1>11
       DEF ApplyLauncher, Names, ActivationInvariant, Staging, Ready, Active,
           SuccessVerifies
  <2> QED
    BY <2>4, <2>5
<1>12. ASSUME RecordComplete PROVE ActivationInvariant'
  <2>1. \/ job'.pc \in Aside
        \/ job'.pc = "persist" /\ job'.gen = job.gen /\ job.gen \in finished'
    BY <1>t, <1>j, <1>12, MovedJob DEF RecordComplete, Write, Steps, Rest, Aside, Undoing
  <2> QED
    BY <2>1, <1>12, AsideKeeps
       DEF RecordComplete, ActivationInvariant, Staging, Ready, Active, SuccessVerifies
<1>13. ASSUME PersistState PROVE ActivationInvariant'
  <2>1. \/ job'.pc \in Aside
        \/ job'.pc = "bootstrap" /\ job'.gen = job.gen /\ global' = job.gen
    BY <1>t, <1>j, <1>13, MovedJob DEF PersistState, Write, Steps, Rest, Aside, Undoing
  <2> QED
    BY <2>1, <1>13, AsideKeeps
       DEF PersistState, ActivationInvariant, Staging, Ready, Active, SuccessVerifies
<1>14. ASSUME Bootstrap PROVE ActivationInvariant'
  <2>1. job'.pc = "rollback" \/ job'.pc = "done"
    BY <1>j, <1>14, MovedJob DEF Bootstrap, Steps, Rest
  <2>2. CASE job'.pc = "rollback"
    BY <2>2, AsideKeeps DEF Aside
  <2>3. CASE job'.pc = "done"
    <3>1. Complete(job.gen)
      BY <1>t, <1>14 DEF Bootstrap, ActivationInvariant, FinishedKept
    <3>2. job.gen # None
      BY <1>t, <1>14 DEF Bootstrap, TypeOK, Rest, Gens
    <3>3. Verifies'
      BY <1>14, <3>1, <3>2
         DEF Bootstrap, ActivationInvariant, Active, Ready, Verifies, Complete
    <3> QED
      BY <2>3, <3>3 DEF ActivationInvariant, Staging, Ready, Active, SuccessVerifies
  <2> QED
    BY <2>1, <2>2, <2>3
<1>15. ASSUME Interrupt PROVE ActivationInvariant'
  BY <1>j, <1>15, MovedJob, NoJobJob, AsideKeeps DEF Interrupt, Steps, Rest, Aside, Undoing
<1>16. ASSUME ReceiptUnreadable PROVE ActivationInvariant'
  BY <1>j, <1>16, MovedJob, NoJobJob, AsideKeeps
     DEF ReceiptUnreadable, Steps, Rest, Aside, Undoing
<1>17. ASSUME StepFails PROVE ActivationInvariant'
  BY <1>j, <1>17, MovedJob, NoJobJob, AsideKeeps DEF StepFails, Steps, Rest, Aside, Undoing
<1>18. ASSUME RestoreLauncher PROVE ActivationInvariant'
  BY <1>j, <1>18, MovedJob, NoJobJob, AsideKeeps
     DEF RestoreLauncher, Write, Job, Steps, Rest, Aside, Undoing
<1>19. ASSUME LaunchersRestored PROVE ActivationInvariant'
  BY <1>j, <1>19, MovedJob, NoJobJob, AsideKeeps
     DEF LaunchersRestored, Steps, Rest, Aside, Undoing
<1>20. ASSUME RestoreCurrent PROVE ActivationInvariant'
  BY <1>j, <1>20, MovedJob, NoJobJob, AsideKeeps
     DEF RestoreCurrent, Write, Steps, Rest, Aside, Undoing
<1>21. ASSUME RestorePrevious PROVE ActivationInvariant'
  BY <1>j, <1>21, MovedJob, NoJobJob, AsideKeeps
     DEF RestorePrevious, Write, Steps, Rest, Aside, Undoing
<1>22. ASSUME RecordFailure PROVE ActivationInvariant'
  BY <1>j, <1>22, MovedJob, NoJobJob, AsideKeeps
     DEF RecordFailure, Steps, Rest, Aside, Undoing
<1>23. ASSUME RemoveEntry PROVE ActivationInvariant'
  BY <1>j, <1>23, MovedJob, NoJobJob, AsideKeeps
     DEF RemoveEntry, Steps, Rest, Aside, Undoing
<1>24. ASSUME EndCleanup PROVE ActivationInvariant'
  BY <1>j, <1>24, MovedJob, NoJobJob, AsideKeeps DEF EndCleanup, Steps, Rest, Aside, Undoing
<1>25. ASSUME Rollback PROVE ActivationInvariant'
  <2>1. \/ job' = [job EXCEPT !.pc = "swap", !.current = current]
        \/ job' = Moved(job, "idle")
    BY <1>25 DEF Rollback, Write
  <2>2. job' = [job EXCEPT !.pc = "swap", !.current = current] => job'.pc = "swap"
    BY <1>j DEF Job
  <2> QED
    BY <1>j, <2>1, <2>2, MovedJob, AsideKeeps DEF Steps, Rest, Aside
<1>26. ASSUME SwapPrevious PROVE ActivationInvariant'
  BY <1>j, <1>26, MovedJob, NoJobJob, AsideKeeps
     DEF SwapPrevious, Write, Steps, Rest, Aside, Undoing
<1>27. ASSUME RollbackRefused PROVE ActivationInvariant'
  BY <1>j, <1>27, MovedJob, NoJobJob, AsideKeeps
     DEF RollbackRefused, Steps, Rest, Aside, Undoing
<1>28. ASSUME Crash PROVE ActivationInvariant'
  BY <1>j, <1>28, MovedJob, NoJobJob, AsideKeeps DEF Crash, Steps, Rest, Aside, Undoing
<1>29. CASE UNCHANGED vars
  BY <1>29
     DEF vars, ActivationInvariant, Staging, Ready, Active, SuccessVerifies, Verifies,
         Complete
<1> QED
  BY <1>1, <1>2, <1>3, <1>4, <1>5, <1>6, <1>7, <1>8, <1>9, <1>10, <1>11, <1>12,
     <1>13, <1>14, <1>15, <1>16, <1>17, <1>18, <1>19, <1>20, <1>21, <1>22, <1>23,
     <1>24, <1>25, <1>26, <1>27, <1>28, <1>29
     DEF Next

(* runFullBundle: when no foreign file holds a launcher's name, an update that *)
(* reports success leaves current.json, the launchers, global.json, the        *)
(* receipts and the manifest in agreement, as Verify asks, whatever failed,    *)
(* interrupted, killed or rolled back updates came before it.                  *)
THEOREM SuccessVerifiesHolds ==
  ASSUME Foreign = {}
  PROVE  Spec => []SuccessVerifies
<1>1. Init => ActivationInvariant
  BY NoJobJob DEF Init, ActivationInvariant, Staging, Ready, Active, SuccessVerifies, At
<1>2. GenerationInvariant /\ [Next]_vars => GenerationInvariant'
  BY GenerationStep
<1>3. /\ GenerationInvariant /\ GenerationInvariant' /\ ActivationInvariant /\ [Next]_vars
      => ActivationInvariant'
  BY ActivationStep
<1>4. ActivationInvariant => SuccessVerifies
  BY DEF ActivationInvariant
<1> QED
  BY <1>1, <1>2, <1>3, <1>4, GenerationInvariantInitially, PTL DEF Spec

-------------------------------------------------------------------------------
(* The invariant behind NamedComplete: what is named is a finished generation, *)
(* but for the one the update under way is switching to, and what the update   *)
(* remembers to put back was finished, too.                                    *)
Settled(g) == g = None \/ g \in finished

Sound == crashes = 0 /\ faults \cap Damaging = {}

Switching == {"launch", "complete", "unlaunch", "restoreCurrent"}
Holding   == {"retain", "current", "launch", "unlaunch", "restoreCurrent", "restorePrevious"}
Restoring == {"manifest", "retain", "current", "launch", "unlaunch"}

NamesSettled ==
    /\ Settled(previous)
    /\ Settled(current) \/ (job.pc \in Switching /\ current = job.gen)
    /\ \A n \in Names :
          \/ Settled(launcher[n])
          \/ job.pc \in Switching \ {"restoreCurrent"} /\ launcher[n] = job.gen /\ n <= job.applied
    /\ job.pc \in Restoring => \A n \in Names : Settled(job.launchers[n])
    /\ job.pc \in Holding => Settled(job.current) /\ Settled(job.previous)
    /\ job.pc = "swap" => Settled(job.current)
    /\ job.pc \in {"unlaunch", "restoreCurrent"} => Complete(job.gen)

NamedInvariant == Sound => NamesSettled

(* Nothing is under way that could name an unfinished generation. *)
AllSettled == Settled(previous) /\ Settled(current) /\ \A n \in Names : Settled(launcher[n])

(* Failed writes and killed updates are not forgotten. *)
LEMMA SoundBefore ==
  ASSUME GenerationInvariant, [Next]_vars, Sound'
  PROVE  Sound
<1> USE RuntimeConstants DEF trees, pointers, history
<1>1. crashes \in Nat
  BY DEF GenerationInvariant, TypeOK
<1>2. faults \subseteq faults' /\ (crashes' = crashes \/ crashes' = crashes + 1)
  <2>1. ASSUME NEW p \in Plans, StartApply(p) PROVE faults \subseteq faults' /\ crashes' = crashes
    BY <2>1 DEF StartApply, Write
  <2>2. ASSUME \/ WriteReceipt \/ WriteManifest \/ RetainPrevious \/ WriteCurrent \/ ApplyLauncher
        PROVE faults \subseteq faults' /\ crashes' = crashes
    BY <2>2 DEF WriteReceipt, WriteManifest, RetainPrevious, WriteCurrent, ApplyLauncher, Write
  <2>3. ASSUME RestoreLauncher \/ RestoreCurrent \/ RestorePrevious \/ RecordComplete
        PROVE faults \subseteq faults' /\ crashes' = crashes
    <3>1. CASE RestoreLauncher
      BY <3>1 DEF RestoreLauncher, Write
    <3>2. CASE RestoreCurrent \/ RestorePrevious \/ RecordComplete
      BY <3>2 DEF RestoreCurrent, RestorePrevious, RecordComplete, Write
    <3> QED
      BY <2>3, <3>1, <3>2
  <2>4. ASSUME PersistState \/ Rollback \/ SwapPrevious
        PROVE faults \subseteq faults' /\ crashes' = crashes
    BY <2>4 DEF PersistState, Rollback, SwapPrevious, Write
  <2>5. ASSUME \/ MakeDirectory \/ Interrupt \/ ReuseComponent \/ ReceiptUnreadable
               \/ ResetComponent \/ InstallComponent \/ StepFails \/ PrepareLaunchers
        PROVE faults \subseteq faults' /\ crashes' = crashes
    BY <2>5 DEF MakeDirectory, Interrupt, ReuseComponent, ReceiptUnreadable, ResetComponent,
                InstallComponent, StepFails, PrepareLaunchers
  <2>6. ASSUME \/ LaunchersRestored \/ RecordFailure \/ RemoveEntry \/ EndCleanup
               \/ Bootstrap \/ RollbackRefused \/ UNCHANGED vars
        PROVE faults \subseteq faults' /\ crashes' = crashes
    BY <2>6 DEF LaunchersRestored, RecordFailure, RemoveEntry, EndCleanup, Bootstrap,
                RollbackRefused, vars
  <2>7. ASSUME Crash PROVE faults \subseteq faults' /\ crashes' = crashes + 1
    BY <2>7 DEF Crash
  <2> QED
    BY <2>1, <2>2, <2>3, <2>4, <2>5, <2>6, <2>7 DEF Next
<1> QED
  BY <1>1, <1>2 DEF Sound

(* A move also keeps what the update remembers. *)
LEMMA MovedMemory ==
  ASSUME NEW s \in Job, NEW step \in Steps \ Rest
  PROVE  /\ Moved(s, step).current = s.current /\ Moved(s, step).previous = s.previous
         /\ Moved(s, step).launchers = s.launchers
BY DEF Job, Moved

LEMMA LaunchedMemory ==
  ASSUME NEW s \in Job
  PROVE  /\ Launched(s).current = s.current /\ Launched(s).previous = s.previous
         /\ Launched(s).launchers = s.launchers
<1> DEFINE step == IF s.applied + 1 = LastLauncher THEN "complete" ELSE "launch"
<1>1. Launched(s) = [s EXCEPT !.applied = s.applied + 1, !.pc = step]
  BY DEF Launched, Job
<1> HIDE DEF step
<1> QED
  BY <1>1 DEF Job

(* Off the road between activation and its undoing there is nothing more to show. *)
LEMMA QuietSettled ==
  ASSUME AllSettled', job'.pc \notin Switching \cup Holding \cup Restoring \cup {"swap"}
  PROVE  NamesSettled'
BY DEF AllSettled, NamesSettled, Settled, Switching, Holding, Restoring

LEMMA SettledStays ==
  ASSUME NamesSettled, job.pc \notin Switching,
         UNCHANGED <<current, previous, launcher>>, finished \subseteq finished'
  PROVE  AllSettled'
BY DEF AllSettled, NamesSettled, Settled

(* The writes whose failure the invariant excludes. *)
LEMMA DamagingWrites ==
  /\ \A r \in BOOLEAN : [at |-> "complete", renamed |-> r] \in Damaging
  /\ \A s \in {"current", "launch"} : [at |-> s, renamed |-> TRUE] \in Damaging
  /\ \A s \in {"restoreCurrent", "unlaunch"} : [at |-> s, renamed |-> FALSE] \in Damaging
BY DEF Damaging

(* One step of an update, as long as none was killed and no write has failed   *)
(* in one of the damaging ways.                                                *)
LEMMA NamedStep ==
  ASSUME GenerationInvariant, GenerationInvariant', NamesSettled, Sound, Sound', [Next]_vars
  PROVE  NamesSettled'
<1> USE RuntimeConstants DEF At, Goto, trees, pointers, history
<1>t. TypeOK /\ TypeOK' /\ StagedParts /\ FinishedKept /\ OwnGenerations
  BY DEF GenerationInvariant
<1>j. job \in Job /\ job' \in Job
  BY <1>t DEF TypeOK
<1>q. ASSUME job.pc \notin Switching, UNCHANGED <<current, previous, launcher>>,
             finished \subseteq finished',
             job'.pc \notin Switching \cup Holding \cup Restoring \cup {"swap"}
      PROVE  NamesSettled'
  BY <1>q, SettledStays, QuietSettled
<1>1. ASSUME NEW p \in Plans, StartApply(p) PROVE NamesSettled'
  <2>1. job'.pc \in {"idle", "mkdir"}
    <3> DEFINE g == IF Resumable(p) THEN op[p].gen ELSE used + 1
    <3>1. job' = NoJob \/ job' = [NoJob EXCEPT !.pc = "mkdir", !.plan = p, !.gen = g]
      BY <1>1 DEF StartApply, Write
    <3> HIDE DEF g
    <3>2. job' = NoJob \/ job'.pc = "mkdir"
      BY <3>1 DEF NoJob
    <3> QED
      BY <3>2, NoJobJob
  <2>2. job.pc \notin Switching /\ UNCHANGED <<current, previous, launcher, finished>>
    BY <1>1 DEF StartApply, Rest, Switching
  <2> QED
    BY <1>q, <2>1, <2>2 DEF Switching, Holding, Restoring
<1>2. ASSUME MakeDirectory \/ Interrupt \/ ReceiptUnreadable \/ ResetComponent \/ InstallComponent
      PROVE NamesSettled'
  <2>1. job'.pc \in {"stage", "idle", "cleanup", "install", "receipt"}
    BY <1>j, <1>2, MovedJob
       DEF MakeDirectory, Interrupt, ReceiptUnreadable, ResetComponent, InstallComponent, Steps, Rest
  <2>2. job.pc \notin Switching /\ UNCHANGED <<current, previous, launcher, finished>>
    BY <1>2 DEF MakeDirectory, Interrupt, ReceiptUnreadable, ResetComponent, InstallComponent, Switching
  <2> QED
    BY <1>q, <2>1, <2>2 DEF Switching, Holding, Restoring
<1>3. ASSUME ReuseComponent \/ WriteReceipt PROVE NamesSettled'
  <2>1. job'.pc \in {"stage", "prepare", "failed"}
    BY <1>j, <1>3, MovedJob, StagedJob DEF ReuseComponent, WriteReceipt, Write, Steps, Rest
  <2>2. job.pc \notin Switching /\ UNCHANGED <<current, previous, launcher, finished>>
    BY <1>3 DEF ReuseComponent, WriteReceipt, Switching
  <2> QED
    BY <1>q, <2>1, <2>2 DEF Switching, Holding, Restoring
<1>4. ASSUME StepFails \/ RecordFailure \/ RemoveEntry \/ EndCleanup PROVE NamesSettled'
  <2>1. job'.pc \in {"failed", "cleanup", "idle"}
    BY <1>j, <1>4, MovedJob DEF StepFails, RecordFailure, RemoveEntry, EndCleanup, Steps, Rest
  <2>2. job.pc \notin Switching /\ UNCHANGED <<current, previous, launcher, finished>>
    BY <1>4 DEF StepFails, RecordFailure, RemoveEntry, EndCleanup, Switching
  <2> QED
    BY <1>q, <2>1, <2>2 DEF Switching, Holding, Restoring
<1>5. ASSUME PersistState \/ Bootstrap \/ RollbackRefused PROVE NamesSettled'
  <2>1. job'.pc \in {"bootstrap", "rollback", "done", "idle"}
    BY <1>j, <1>5, MovedJob DEF PersistState, Bootstrap, RollbackRefused, Write, Steps, Rest
  <2>2. job.pc \notin Switching /\ UNCHANGED <<current, previous, launcher, finished>>
    BY <1>5 DEF PersistState, Bootstrap, RollbackRefused, Switching
  <2> QED
    BY <1>q, <2>1, <2>2 DEF Switching, Holding, Restoring
<1>6. ASSUME PrepareLaunchers PROVE NamesSettled'
  <2>1. job'.pc = "manifest" /\ job'.launchers = launcher
    BY <1>j, <1>6 DEF PrepareLaunchers, Job
  <2>2. AllSettled'
    BY <1>6, SettledStays DEF PrepareLaunchers, Switching
  <2> QED
    BY <1>6, <2>1, <2>2
       DEF PrepareLaunchers, AllSettled, NamesSettled, Switching, Holding, Restoring, Settled
<1>7. ASSUME WriteManifest PROVE NamesSettled'
  <2>1. \/ job'.pc = "failed"
        \/ /\ job'.pc = "retain" /\ job'.current = current /\ job'.previous = previous
           /\ job'.launchers = job.launchers
    <3>1. \/ job' = [job EXCEPT !.pc = "retain", !.current = current, !.previous = previous]
          \/ job' = Moved(job, "failed")
      BY <1>7 DEF WriteManifest, Write
    <3>2. job' = [job EXCEPT !.pc = "retain", !.current = current, !.previous = previous]
            => /\ job'.pc = "retain" /\ job'.current = current /\ job'.previous = previous
               /\ job'.launchers = job.launchers
      BY <1>j DEF Job
    <3> QED
      BY <1>j, <3>1, <3>2, MovedJob DEF Steps
  <2>2. UNCHANGED <<current, previous, launcher, finished>> /\ job.pc = "manifest"
    BY <1>7 DEF WriteManifest
  <2>3. AllSettled'
    BY <2>2, SettledStays DEF Switching
  <2>4. job'.pc = "retain" => \A n \in Names : Settled(job.launchers[n])'
    BY <2>1, <2>2 DEF NamesSettled, Restoring, Settled
  <2> QED
    BY <2>1, <2>2, <2>3, <2>4, QuietSettled
       DEF AllSettled, NamesSettled, Switching, Holding, Restoring, Settled
<1>8. ASSUME RetainPrevious PROVE NamesSettled'
  <2>1. /\ previous' \in {previous, current} /\ UNCHANGED <<current, launcher, finished>>
        /\ job.pc = "retain"
    BY <1>8 DEF RetainPrevious, Write
  <2>2. \/ job'.pc = "failed"
        \/ /\ job'.pc = "current" /\ job'.current = job.current /\ job'.previous = job.previous
           /\ job'.launchers = job.launchers
    <3>1. job' = Moved(job, "failed") \/ job' = Moved(job, "current")
      BY <1>8 DEF RetainPrevious, Write
    <3>2. CASE job' = Moved(job, "failed")
      BY <1>j, <3>2, MovedJob DEF Steps
    <3>3. CASE job' = Moved(job, "current")
      BY <1>j, <3>3, MovedJob, MovedMemory, ZenonT(40) DEF Steps, Rest
    <3> QED
      BY <3>1, <3>2, <3>3
  <2>3. AllSettled'
    BY <2>1 DEF AllSettled, NamesSettled, Switching, Settled
  <2> QED
    BY <2>1, <2>2, <2>3, QuietSettled
       DEF AllSettled, NamesSettled, Switching, Holding, Restoring, Settled
<1>9. ASSUME WriteCurrent PROVE NamesSettled'
  <2>1. /\ UNCHANGED <<previous, launcher, finished>> /\ job.pc = "current"
        /\ \/ job' = Moved(job, "launch") /\ current' = job.gen
           \/ job' = Moved(job, "failed") /\ current' = current
    BY <1>9, DamagingWrites DEF WriteCurrent, Write, Sound
  <2>2. CASE job' = Moved(job, "launch") /\ current' = job.gen
    <3>1. /\ job'.pc = "launch" /\ job'.current = job.current /\ job'.previous = job.previous
          /\ job'.launchers = job.launchers /\ job'.gen = job.gen
      BY <1>j, <2>2, MovedJob, MovedMemory, ZenonT(40) DEF Steps, Rest
    <3> QED
      BY <2>1, <2>2, <3>1 DEF NamesSettled, Switching, Holding, Restoring, Settled
  <2>3. CASE job' = Moved(job, "failed") /\ current' = current
    BY <1>j, <1>q, <2>1, <2>3, MovedJob DEF Steps, Switching, Holding, Restoring
  <2> QED
    BY <2>1, <2>2, <2>3
<1>10. ASSUME ApplyLauncher PROVE NamesSettled'
  <2>1. /\ UNCHANGED <<current, previous, finished, dirs, content, manifest>> /\ job.pc = "launch"
        /\ \/ job' = Launched(job) /\ launcher' = [launcher EXCEPT ![job.applied + 1] = job.gen]
           \/ job' = Moved(job, "unlaunch") /\ launcher' = launcher
    BY <1>10, DamagingWrites DEF ApplyLauncher, Write, Sound
  <2>2. job.applied \in 0..LastLauncher /\ job.applied < LastLauncher
    BY <1>t, <1>j, <2>1, JobFields DEF StagedParts
  <2>3. CASE job' = Launched(job) /\ launcher' = [launcher EXCEPT ![job.applied + 1] = job.gen]
    <3>1. /\ job'.pc \in {"launch", "complete"} /\ job'.gen = job.gen /\ job'.applied = job.applied + 1
          /\ job'.current = job.current /\ job'.previous = job.previous
          /\ job'.launchers = job.launchers
      BY <1>j, <2>2, <2>3, LaunchedJob, LaunchedMemory
    <3>2. ASSUME NEW n \in Names
          PROVE  \/ Settled(launcher[n])'
                 \/ launcher'[n] = job'.gen /\ n <= job'.applied
      <4>1. CASE n = job.applied + 1
        BY <1>t, <2>2, <2>3, <3>1, <4>1 DEF TypeOK, Names
      <4>2. CASE n # job.applied + 1
        BY <1>t, <2>1, <2>2, <2>3, <3>1, <4>2 DEF TypeOK, Names, NamesSettled, Settled
      <4> QED
        BY <4>1, <4>2
    <3> QED
      BY <2>1, <3>1, <3>2 DEF NamesSettled, Switching, Holding, Restoring, Settled
  <2>4. CASE job' = Moved(job, "unlaunch") /\ launcher' = launcher
    <3>1. /\ job'.pc = "unlaunch" /\ job'.gen = job.gen /\ job'.applied = job.applied
          /\ job'.current = job.current /\ job'.previous = job.previous
          /\ job'.launchers = job.launchers
      BY <1>j, <2>4, MovedJob, MovedMemory, ZenonT(40) DEF Steps, Rest
    <3>2. Complete(job.gen)'
      BY <1>t, <2>1, <3>1 DEF StagedParts, Ready, Complete
    <3> QED
      BY <2>1, <2>4, <3>1, <3>2 DEF NamesSettled, Switching, Holding, Restoring, Settled
  <2> QED
    BY <2>1, <2>3, <2>4
<1>11. ASSUME RestoreLauncher PROVE NamesSettled'
  <2>1. /\ UNCHANGED <<current, previous, finished, dirs, content, manifest>> /\ job.pc = "unlaunch"
        /\ job' = [job EXCEPT !.applied = @ - 1] /\ job.applied > 0
        /\ launcher' = [launcher EXCEPT ![job.applied] = job.launchers[job.applied]]
    BY <1>11, DamagingWrites DEF RestoreLauncher, Write, Sound
  <2>2. job.applied \in 1..LastLauncher
    BY <1>j, <2>1, JobFields
  <2>3. /\ job'.pc = "unlaunch" /\ job'.gen = job.gen /\ job'.applied = job.applied - 1
        /\ job'.current = job.current /\ job'.previous = job.previous
        /\ job'.launchers = job.launchers
    BY <1>j, <2>1 DEF Job
  <2>4. ASSUME NEW n \in Names
        PROVE  \/ Settled(launcher[n])'
               \/ launcher'[n] = job'.gen /\ n <= job'.applied
    <3>1. CASE n = job.applied
      BY <1>t, <2>1, <3>1 DEF TypeOK, NamesSettled, Restoring, Settled
    <3>2. CASE n # job.applied
      BY <1>t, <2>1, <2>2, <2>3, <3>2 DEF TypeOK, Names, NamesSettled, Settled
    <3> QED
      BY <3>1, <3>2
  <2>5. Complete(job.gen)'
    BY <2>1, <2>3 DEF NamesSettled, Complete
  <2> QED
    BY <2>1, <2>3, <2>4, <2>5 DEF NamesSettled, Switching, Holding, Restoring, Settled
<1>12. ASSUME LaunchersRestored PROVE NamesSettled'
  <2>1. /\ UNCHANGED <<current, previous, launcher, finished, dirs, content, manifest>>
        /\ job.pc = "unlaunch" /\ job.applied = 0 /\ job' = Moved(job, "restoreCurrent")
    BY <1>12 DEF LaunchersRestored
  <2>2. /\ job'.pc = "restoreCurrent" /\ job'.gen = job.gen
        /\ job'.current = job.current /\ job'.previous = job.previous
    BY <1>j, <2>1, MovedJob, MovedMemory, ZenonT(40) DEF Steps, Rest
  <2>3. \A n \in Names : Settled(launcher[n])'
    BY <2>1 DEF NamesSettled, Names, Settled
  <2>4. Complete(job.gen)'
    BY <2>1, <2>2 DEF NamesSettled, Complete
  <2> QED
    BY <2>1, <2>2, <2>3, <2>4 DEF NamesSettled, Switching, Holding, Restoring, Settled
<1>13. ASSUME RestoreCurrent PROVE NamesSettled'
  <2>1. /\ UNCHANGED <<previous, launcher, finished>> /\ job.pc = "restoreCurrent"
        /\ current' = job.current
        /\ job' = Moved(job, "restorePrevious") \/ job' = Moved(job, "failed")
    BY <1>13, DamagingWrites DEF RestoreCurrent, Write, Sound
  <2>2. \/ job'.pc = "failed"
        \/ /\ job'.pc = "restorePrevious"
           /\ job'.current = job.current /\ job'.previous = job.previous
    <3>1. CASE job' = Moved(job, "failed")
      BY <1>j, <3>1, MovedJob DEF Steps
    <3>2. CASE job' = Moved(job, "restorePrevious")
      BY <1>j, <3>2, MovedJob, MovedMemory, ZenonT(40) DEF Steps, Rest
    <3> QED
      BY <2>1, <3>1, <3>2
  <2>3. AllSettled'
    BY <2>1 DEF AllSettled, NamesSettled, Switching, Holding, Settled
  <2> QED
    BY <2>1, <2>2, <2>3, QuietSettled
       DEF AllSettled, NamesSettled, Switching, Holding, Restoring, Settled
<1>14. ASSUME RestorePrevious PROVE NamesSettled'
  <2>1. /\ UNCHANGED <<current, launcher, finished>> /\ job.pc = "restorePrevious"
        /\ previous' \in {previous, job.previous} /\ job' = Moved(job, "failed")
    BY <1>14 DEF RestorePrevious, Write
  <2>2. job'.pc = "failed"
    BY <1>j, <2>1, MovedJob DEF Steps
  <2>3. AllSettled'
    BY <2>1 DEF AllSettled, NamesSettled, Switching, Holding, Settled
  <2> QED
    BY <2>2, <2>3, QuietSettled DEF Switching, Holding, Restoring
<1>15. ASSUME RecordComplete PROVE NamesSettled'
  <2>1. /\ UNCHANGED <<current, previous, launcher>> /\ job.pc = "complete"
        /\ job' = Moved(job, "persist")
    BY <1>15, DamagingWrites DEF RecordComplete, Write, Sound
  <2>2. job'.pc = "persist"
    BY <1>j, <2>1, MovedJob DEF Steps
  <2>3. finished' = finished \cup {job.gen}
    BY <1>15, <2>2 DEF RecordComplete
  <2>4. AllSettled'
    BY <2>1, <2>3 DEF AllSettled, NamesSettled, Settled
  <2> QED
    BY <2>2, <2>4, QuietSettled DEF Switching, Holding, Restoring
<1>16. ASSUME Rollback PROVE NamesSettled'
  <2>1. /\ UNCHANGED <<previous, launcher, finished>> /\ job.pc = "rollback"
        /\ current' \in {previous, current}
        /\ \/ job' = [job EXCEPT !.pc = "swap", !.current = current]
           \/ job' = Moved(job, "idle")
    BY <1>16 DEF Rollback, Write
  <2>2. \/ job'.pc = "idle"
        \/ job'.pc = "swap" /\ job'.current = current
    <3>1. job' = [job EXCEPT !.pc = "swap", !.current = current]
            => job'.pc = "swap" /\ job'.current = current
      BY <1>j DEF Job
    <3> QED
      BY <1>j, <2>1, <3>1, MovedJob DEF Steps, Rest
  <2>3. AllSettled' /\ Settled(current) /\ finished' = finished
    BY <2>1 DEF AllSettled, NamesSettled, Switching, Settled
  <2> QED
    BY <2>2, <2>3, QuietSettled
       DEF AllSettled, NamesSettled, Switching, Holding, Restoring, Settled
<1>17. ASSUME SwapPrevious PROVE NamesSettled'
  <2>1. /\ UNCHANGED <<current, launcher, finished>> /\ job.pc = "swap"
        /\ previous' \in {previous, job.current}
        /\ job' = Moved(job, "rolledBack") \/ job' = Moved(job, "idle")
    BY <1>17 DEF SwapPrevious, Write
  <2>2. job'.pc \in {"rolledBack", "idle"}
    BY <1>j, <2>1, MovedJob DEF Steps, Rest
  <2>3. AllSettled'
    BY <2>1 DEF AllSettled, NamesSettled, Switching, Settled
  <2> QED
    BY <2>2, <2>3, QuietSettled DEF Switching, Holding, Restoring
<1>18. ASSUME Crash PROVE NamesSettled'
  <2>1. crashes \in Nat /\ crashes = 0 /\ crashes' = 0
    BY <1>t DEF TypeOK, Sound
  <2> QED
    BY <1>18, <2>1 DEF Crash
<1>19. CASE UNCHANGED vars
  BY <1>19 DEF vars, NamesSettled, Settled, Complete
<1> QED
  BY <1>1, <1>2, <1>3, <1>4, <1>5, <1>6, <1>7, <1>8, <1>9, <1>10, <1>11, <1>12,
     <1>13, <1>14, <1>15, <1>16, <1>17, <1>18, <1>19
     DEF Next

(* Apply, its undoing and Rollback: as long as no update is killed and none of *)
(* the damaging writes fails, everything current.json, previous.json and the   *)
(* launchers name is complete at every moment, for any number of components,   *)
(* launchers, plans and generations.                                           *)
THEOREM NamedCompleteHolds == Spec => []NamedComplete
<1>1. Init => NamedInvariant
  BY NoJobJob
     DEF Init, NamedInvariant, NamesSettled, Settled, NoLaunchers, Restoring, Holding
<1>2. GenerationInvariant /\ [Next]_vars => GenerationInvariant'
  BY GenerationStep
<1>3. GenerationInvariant /\ GenerationInvariant' /\ NamedInvariant /\ [Next]_vars => NamedInvariant'
  BY SoundBefore, NamedStep DEF NamedInvariant
<1>4. GenerationInvariant /\ NamedInvariant => NamedComplete
  <2> SUFFICES ASSUME GenerationInvariant, NamesSettled, Sound, NEW g \in Named PROVE Complete(g)
    BY DEF NamedInvariant, NamedComplete, Sound
  <2>1. g \in finished \/ (job.pc \in Switching /\ g = job.gen)
    BY DEF Named, NamesSettled, Settled
  <2>2. job.pc \in Switching => Complete(job.gen)
    BY DEF GenerationInvariant, StagedParts, NamesSettled, Switching, Ready, Undoing, Complete
  <2> QED
    BY <2>1, <2>2 DEF GenerationInvariant, FinishedKept
<1> QED
  BY <1>1, <1>2, <1>3, <1>4, GenerationInvariantInitially, PTL DEF Spec
===============================================================================
