----------------------------- MODULE ManagedRuntime -----------------------------
(* Manager.Apply and Manager.Rollback (internal/managedruntime/manager.go), the *)
(* launcher transaction (launchers.go) and App.runFullBundle                   *)
(* (internal/app/managed_runtime.go): an update stages a new generation of the *)
(* managed runtime, activates it, replaces the launchers, records the result   *)
(* and goes on to bootstrap the agents; when that fails it rolls back.         *)
(*                                                                             *)
(* One update runs at a time.  Every write of a file is one step and may fail  *)
(* before the rename or after it (AtomicWriteFile syncs the directory last);   *)
(* the process may be killed between any two steps.  Downloading, extracting   *)
(* and probing a component are outcomes.  Components are numbered in the order *)
(* they are staged in, launchers in the order they are written in; every plan  *)
(* of the program holds the complete bundle, so all have the same ones.        *)
EXTENDS Integers, FiniteSets

CONSTANTS
    Plans,          \* plan ids
    Last,           \* the number of components of a plan
    LastLauncher,   \* the number of launchers
    Foreign,        \* the launchers whose bare name a file that is not Baron's holds
    None,
    MaxGens,        \* bound on generations
    MaxFaults,      \* bound on distinct failed writes
    MaxCrashes      \* bound on killed updates

Gens  == 1..MaxGens
Comps == 1..Last
Names == 1..LastLauncher

ASSUME RuntimeConstants ==
    /\ Last \in Nat \ {0} /\ LastLauncher \in Nat \ {0}
    /\ MaxGens \in Nat /\ MaxFaults \in Nat /\ MaxCrashes \in Nat
    /\ None \notin Gens /\ None \notin Plans
    /\ Foreign \subseteq Names

VARIABLES
    dirs,       \* the generation directories that exist
    content,    \* the components whose probed content each directory holds
    receipts,   \* receipts of staged components, outside the directories: <<g, c>>
    manifest,   \* the generations with a manifest.json
    current, previous,  \* the generations current.json and previous.json name
    op,         \* operations/<plan>.json
    launcher,   \* the generation each Baron launcher starts
    global,     \* managed_runtime.current_generation in global.json
    job,        \* the update under way
    used,       \* generation ids given out
    finished,   \* history: the generations whose update was recorded complete
    faults,     \* history: the writes that failed
    crashes

pointers == <<current, previous, launcher, global>>
trees    == <<dirs, content, receipts, manifest>>
history  == <<used, finished, crashes>>
vars     == <<dirs, content, receipts, manifest, current, previous, op, launcher, global,
              job, used, finished, faults, crashes>>

OpStatus == {"none", "staging", "interrupted", "failed", "complete"}

Rest  == {"idle", "done", "rolledBack"}
Steps == Rest \cup
    {"mkdir", "stage", "install", "receipt", "prepare", "manifest", "retain", "current",
     "launch", "complete", "unlaunch", "restoreCurrent", "restorePrevious", "failed",
     "cleanup", "persist", "bootstrap", "rollback", "swap"}

NoLaunchers == [n \in Names |-> None]

NoJob == [pc |-> "idle", plan |-> None, gen |-> None, comp |-> 1, current |-> None,
          previous |-> None, launchers |-> NoLaunchers, applied |-> 0]

Init ==
    /\ dirs = {} /\ receipts = {} /\ manifest = {}
    /\ content = [g \in Gens |-> {}]
    /\ current = None /\ previous = None /\ global = None
    /\ op = [p \in Plans |-> [status |-> "none", gen |-> None]]
    /\ launcher = NoLaunchers
    /\ job = NoJob
    /\ used = 0 /\ finished = {} /\ faults = {} /\ crashes = 0

-------------------------------------------------------------------------------
At(step) == job.pc = step

(* An update that ends forgets what it held in memory. *)
Moved(state, step) ==
    [IF step \in Rest THEN NoJob ELSE state EXCEPT !.pc = step]

Goto(step) == job' = Moved(job, step)

(* AtomicWriteFile: it succeeds, or it reports an error, before or after the   *)
(* rename that makes it visible.                                               *)
Write(at, written, unwritten, ok, bad) ==
    \/ written /\ job' = ok /\ UNCHANGED faults
    \/ /\ Cardinality(faults) < MaxFaults
       /\ job' = bad
       /\ \E renamed \in BOOLEAN :
             /\ faults' = faults \cup {[at |-> at, renamed |-> renamed]}
             /\ IF renamed THEN written ELSE unwritten

(* A record of the operation whose error is ignored. *)
Noted(status) ==
    op' \in {op, [op EXCEPT ![job.plan] = [status |-> status, gen |-> job.gen]]}

(* Mutated Resumable: the status of the operation is not looked at. *)
ResumableAnyStatus(p) == op[p].gen \in dirs

(* resumableGeneration *)
Resumable(p) == op[p].status \in {"staging", "interrupted"} /\ op[p].gen \in dirs

(* Apply up to the operation's first record: the generation that an earlier    *)
(* attempt at the plan left behind is taken up again.                          *)
StartApply(p) ==
    /\ job.pc \in Rest
    /\ Resumable(p) \/ used < MaxGens
    /\ LET g == IF Resumable(p) THEN op[p].gen ELSE used + 1 IN
       /\ used' = IF Resumable(p) THEN used ELSE g
       /\ Write("staging", op' = [op EXCEPT ![p] = [status |-> "staging", gen |-> g]],
                UNCHANGED op, [NoJob EXCEPT !.pc = "mkdir", !.plan = p, !.gen = g], NoJob)
    /\ UNCHANGED <<trees, pointers, finished, crashes>>

(* Without a directory the update ends, and nothing is cleaned up. *)
MakeDirectory ==
    /\ At("mkdir")
    /\ \/ dirs' = dirs \cup {job.gen} /\ Goto("stage")
       \/ UNCHANGED dirs /\ Goto("idle")
    /\ UNCHANGED <<content, receipts, manifest, pointers, op, history, faults>>

(* The context is cancelled: what is staged is kept for the next attempt. *)
Interrupt ==
    /\ job.pc \in {"mkdir", "stage", "install"}
    /\ Noted("interrupted")
    /\ Goto("idle")
    /\ UNCHANGED <<trees, pointers, history, faults>>

Staged(state) ==
    IF state.comp = Last THEN [state EXCEPT !.pc = "prepare"]
                         ELSE [state EXCEPT !.pc = "stage", !.comp = @ + 1]

(* readStagedReceipt finds a receipt, its content, its archive in the cache,   *)
(* and the probe is content.                                                   *)
ReuseComponent ==
    /\ At("stage")
    /\ <<job.gen, job.comp>> \in receipts
    /\ job.comp \in content[job.gen]
    /\ job' = Staged(job)
    /\ UNCHANGED <<trees, pointers, op, history, faults>>

(* readStagedReceipt reports an error, a cancelled context among them: nothing *)
(* is recorded, the generation goes.                                           *)
ReceiptUnreadable ==
    /\ At("stage")
    /\ Goto("cleanup")
    /\ UNCHANGED <<trees, pointers, op, history, faults>>

(* stageComponent: downloaded or cached; the component's directory is reset. *)
ResetComponent ==
    /\ At("stage")
    /\ content' = [content EXCEPT ![job.gen] = @ \ {job.comp}]
    /\ Goto("install")
    /\ UNCHANGED <<dirs, receipts, manifest, pointers, op, history, faults>>

(* Extracted or installed, and probed. *)
InstallComponent ==
    /\ At("install")
    /\ content' = [content EXCEPT ![job.gen] = @ \cup {job.comp}]
    /\ Goto("receipt")
    /\ UNCHANGED <<dirs, receipts, manifest, pointers, op, history, faults>>

WriteReceipt ==
    /\ At("receipt")
    /\ Write("receipt", receipts' = receipts \cup {<<job.gen, job.comp>>}, UNCHANGED receipts,
             Staged(job), Moved(job, "failed"))
    /\ UNCHANGED <<dirs, content, manifest, pointers, op, history>>

(* A download, an installation, a probe, the choice of launchers or the        *)
(* reading of the pointers fails.                                              *)
StepFails ==
    /\ job.pc \in {"stage", "install", "prepare", "retain"}
    /\ Goto("failed")
    /\ UNCHANGED <<trees, pointers, op, history, faults>>

(* PrepareLaunchers remembers what each launcher is now. *)
PrepareLaunchers ==
    /\ At("prepare")
    /\ job' = [job EXCEPT !.pc = "manifest", !.launchers = launcher]
    /\ UNCHANGED <<trees, pointers, op, history, faults>>

(* The manifest is written and current.json and previous.json are read. *)
WriteManifest ==
    /\ At("manifest")
    /\ Write("manifest", manifest' = manifest \cup {job.gen}, UNCHANGED manifest,
             [job EXCEPT !.pc = "retain", !.current = current, !.previous = previous],
             Moved(job, "failed"))
    /\ UNCHANGED <<dirs, content, receipts, pointers, op, history>>

-------------------------------------------------------------------------------
(* activate *)
RetainPrevious ==
    /\ At("retain")
    /\ \/ /\ current = None
          /\ Goto("current")
          /\ UNCHANGED <<previous, faults>>
       \/ /\ current # None
          /\ Write("retain", previous' = current, UNCHANGED previous,
                   Moved(job, "current"), Moved(job, "failed"))
    /\ UNCHANGED <<trees, current, launcher, global, op, history>>

WriteCurrent ==
    /\ At("current")
    /\ Write("current", current' = job.gen, UNCHANGED current,
             Moved(job, "launch"), Moved(job, "failed"))
    /\ UNCHANGED <<trees, previous, launcher, global, op, history>>

(* Mutated Launched: the last launcher is taken to be written one too early. *)
LaunchedEarly(state) ==
    [state EXCEPT !.applied = @ + 1,
                  !.pc = IF state.applied + 2 >= LastLauncher THEN "complete" ELSE "launch"]

Launched(state) ==
    [state EXCEPT !.applied = @ + 1,
                  !.pc = IF state.applied + 1 = LastLauncher THEN "complete" ELSE "launch"]

(* LauncherTransaction.Apply *)
ApplyLauncher ==
    /\ At("launch")
    /\ Write("launch", launcher' = [launcher EXCEPT ![job.applied + 1] = job.gen],
             UNCHANGED launcher, Launched(job), Moved(job, "unlaunch"))
    /\ UNCHANGED <<trees, current, previous, global, op, history>>

(* rollbackApplied: the launchers written before the one that failed are put   *)
(* back, last first; one that cannot be put back does not stop the others.     *)
RestoreLauncher ==
    /\ At("unlaunch")
    /\ job.applied > 0
    /\ LET next == [job EXCEPT !.applied = @ - 1] IN
       Write("unlaunch", launcher' = [launcher EXCEPT ![job.applied] = job.launchers[job.applied]],
             UNCHANGED launcher, next, next)
    /\ UNCHANGED <<trees, current, previous, global, op, history>>

LaunchersRestored ==
    /\ At("unlaunch")
    /\ job.applied = 0
    /\ Goto("restoreCurrent")
    /\ UNCHANGED <<trees, pointers, op, history, faults>>

(* Mutated RestoreCurrent: current.json is left as it is. *)
RestoreCurrentSkipped ==
    /\ At("restoreCurrent")
    /\ Goto("restorePrevious")
    /\ UNCHANGED <<trees, pointers, op, history, faults>>

(* restoreOptionalFiles: when current.json cannot be restored, previous.json   *)
(* is left alone.                                                              *)
RestoreCurrent ==
    /\ At("restoreCurrent")
    /\ Write("restoreCurrent", current' = job.current, UNCHANGED current,
             Moved(job, "restorePrevious"), Moved(job, "failed"))
    /\ UNCHANGED <<trees, previous, launcher, global, op, history>>

RestorePrevious ==
    /\ At("restorePrevious")
    /\ Write("restorePrevious", previous' = job.previous, UNCHANGED previous,
             Moved(job, "failed"), Moved(job, "failed"))
    /\ UNCHANGED <<trees, current, launcher, global, op, history>>

RecordFailure ==
    /\ At("failed")
    /\ Noted("failed")
    /\ Goto("cleanup")
    /\ UNCHANGED <<trees, pointers, history, faults>>

(* The deferred os.RemoveAll of the generation removes one entry after the     *)
(* other, and its error is ignored.                                            *)
RemoveEntry ==
    /\ At("cleanup")
    /\ \/ \E c \in content[job.gen] :
             content' = [content EXCEPT ![job.gen] = @ \ {c}] /\ UNCHANGED manifest
       \/ /\ job.gen \in manifest
          /\ manifest' = manifest \ {job.gen} /\ UNCHANGED content
    /\ UNCHANGED <<dirs, receipts, pointers, op, job, history, faults>>

EndCleanup ==
    /\ At("cleanup")
    /\ \/ UNCHANGED dirs
       \/ /\ content[job.gen] = {} /\ job.gen \notin manifest
          /\ dirs' = dirs \ {job.gen}
    /\ Goto("idle")
    /\ UNCHANGED <<content, receipts, manifest, pointers, op, history, faults>>

(* The operation is recorded complete; when that fails, the generation is      *)
(* removed although current.json and the launchers name it by now.             *)
RecordComplete ==
    /\ At("complete")
    /\ Write("complete", op' = [op EXCEPT ![job.plan] = [status |-> "complete", gen |-> job.gen]],
             UNCHANGED op, Moved(job, "persist"), Moved(job, "cleanup"))
    /\ finished' = IF job'.pc = "persist" THEN finished \cup {job.gen} ELSE finished
    /\ UNCHANGED <<trees, pointers, used, crashes>>

-------------------------------------------------------------------------------
(* persistManagedRuntimeState *)
PersistState ==
    /\ At("persist")
    /\ Write("persist", global' = job.gen, UNCHANGED global,
             Moved(job, "bootstrap"), Moved(job, "rollback"))
    /\ UNCHANGED <<trees, current, previous, launcher, op, history>>

(* The agents are configured and the Baron binary is replaced, or not. *)
Bootstrap ==
    /\ At("bootstrap")
    /\ Goto("done") \/ Goto("rollback")
    /\ UNCHANGED <<trees, pointers, op, history, faults>>

(* Manager.Rollback(ctx, ""): current.json first, then previous.json. *)
Rollback ==
    /\ At("rollback")
    /\ previous \in dirs
    /\ Write("rollback", current' = previous, UNCHANGED current,
             [job EXCEPT !.pc = "swap", !.current = current], Moved(job, "idle"))
    /\ UNCHANGED <<trees, previous, launcher, global, op, history>>

SwapPrevious ==
    /\ At("swap")
    /\ Write("swap", previous' = job.current, UNCHANGED previous,
             Moved(job, "rolledBack"), Moved(job, "idle"))
    /\ UNCHANGED <<trees, current, launcher, global, op, history>>

(* The context is cancelled, or there is no previous generation to go back to. *)
RollbackRefused ==
    /\ At("rollback")
    /\ Goto("idle")
    /\ UNCHANGED <<trees, pointers, op, history, faults>>

Crash ==
    /\ job.pc \notin Rest
    /\ crashes < MaxCrashes
    /\ crashes' = crashes + 1
    /\ job' = NoJob
    /\ UNCHANGED <<trees, pointers, op, used, finished, faults>>

Next ==
    \/ \E p \in Plans : StartApply(p)
    \/ MakeDirectory \/ Interrupt \/ ReuseComponent \/ ReceiptUnreadable \/ ResetComponent
    \/ InstallComponent \/ WriteReceipt \/ StepFails \/ PrepareLaunchers \/ WriteManifest
    \/ RetainPrevious \/ WriteCurrent \/ ApplyLauncher
    \/ RestoreLauncher \/ LaunchersRestored \/ RestoreCurrent \/ RestorePrevious
    \/ RecordFailure \/ RemoveEntry \/ EndCleanup \/ RecordComplete
    \/ PersistState \/ Bootstrap \/ Rollback \/ SwapPrevious \/ RollbackRefused
    \/ Crash

Spec == Init /\ [][Next]_vars

-------------------------------------------------------------------------------
Pointer == Gens \cup {None}

Job == [pc : Steps, plan : Plans \cup {None}, gen : Pointer, comp : Comps,
        current : Pointer, previous : Pointer, launchers : [Names -> Pointer],
        applied : 0..LastLauncher]

(* The files hold what they may hold, an update works on a component of the    *)
(* plan and on a generation that was given out, and content and manifests lie  *)
(* in directories that exist.                                                  *)
TypeOK ==
    /\ dirs \subseteq Gens /\ manifest \subseteq dirs
    /\ content \in [Gens -> SUBSET Comps]
    /\ \A g \in Gens \ dirs : content[g] = {}
    /\ receipts \subseteq Gens \X Comps
    /\ current \in Pointer /\ previous \in Pointer /\ global \in Pointer
    /\ op \in [Plans -> [status : OpStatus, gen : Pointer]]
    /\ launcher \in [Names -> Pointer]
    /\ job \in Job
    /\ job.pc \notin Rest => job.plan \in Plans /\ job.gen \in 1..used
    /\ used \in 0..MaxGens /\ finished \subseteq Gens /\ crashes \in 0..MaxCrashes

(* A generation with all its components and its manifest. *)
Complete(g) == g \in dirs /\ content[g] = Comps /\ g \in manifest

(* A generation whose update was recorded complete stays complete, through     *)
(* every later update, interruption, failed write, rollback and crash: no      *)
(* operation resumes or removes it, so Rollback always has somewhere to go.    *)
FinishedKept == \A g \in finished : Complete(g)

(* Manager.Verify of the generation global.json names; a launcher under its    *)
(* baron- alias is refused by verifyGenerationLaunchers.                       *)
Verifies ==
    /\ current # None /\ global = current
    /\ Complete(current)
    /\ \A c \in Comps : <<current, c>> \in receipts
    /\ \A n \in Names : launcher[n] = current /\ n \notin Foreign

(* An update that reports success leaves a runtime that Verify accepts,        *)
(* whatever interrupted, failed, killed or rolled back updates came before it  *)
(* and whatever it resumed.                                                    *)
SuccessVerifies == At("done") => Verifies

(* The failed writes after which the generation to be removed is still named:  *)
(* the record of completion, a pointer or launcher that was renamed into place *)
(* before the error was seen, and one that could not be put back.              *)
Damaging ==
    {[at |-> "complete", renamed |-> r] : r \in BOOLEAN}
        \cup {[at |-> s, renamed |-> TRUE] : s \in {"current", "launch"}}
        \cup {[at |-> s, renamed |-> FALSE] : s \in {"restoreCurrent", "unlaunch"}}

Named == ({current, previous} \cup {launcher[n] : n \in Names}) \ {None}

(* Until an update is killed, and unless one of the writes above fails, every  *)
(* generation that current.json, previous.json or a launcher names is          *)
(* complete, at every moment of staging, activation, undoing and removal.      *)
NamedComplete ==
    crashes = 0 /\ faults \cap Damaging = {} => \A g \in Named : Complete(g)

(* Contradicted by the code: "the activation manifest selects either the old   *)
(* complete generation or the new complete generation, never a partial mix",   *)
(* also when the process is killed during an update.                           *)
ActiveComplete == current # None => Complete(current)

(* Contradicted by the code: "A failed smoke check restores previous.json and  *)
(* keeps the old runtime usable"; Rollback puts back neither the launchers nor *)
(* global.json, and Verify refuses both generations from then on.              *)
OldRuntimeUsable == At("rolledBack") => Verifies
===============================================================================
