---------------------------- MODULE CheckpointLock ----------------------------
(* Engine.Save and Engine.SaveLocal (internal/continuity/continuity.go) under  *)
(* withCheckpointLock (internal/continuity/lock.go): hook processes that merge *)
(* the work state into SQLite and then materialize it as checkpoint.json,      *)
(* serialized by a lock file made with O_CREATE|O_EXCL.                        *)
(*                                                                             *)
(* Every file-system call and the SQLite transaction is one step.  The lock    *)
(* file is a path: os.Remove removes whatever file is there at that moment.    *)
(* Versions of the work state are counted by db; a checkpoint's content is     *)
(* the version it was written from.  Same-process writers are serialized by    *)
(* checkpointProcessMu, so a process has one save at a time.                   *)
EXTENDS Integers

CONSTANTS
    Procs,
    None,
    MaxVersion,     \* bound on work-state versions
    MaxCrashes,     \* bound on killed processes
    MaxLapses       \* bound on misread ages of the lock file

ASSUME LockConstants ==
    /\ None \notin Procs
    /\ MaxVersion \in Nat /\ MaxCrashes \in Nat /\ MaxLapses \in Nat

VARIABLES
    pc,         \* the step of each process
    data,       \* the version each process is about to materialize
    lock,       \* checkpoint.lock: "absent", "fresh" or "stale" (mtime >= 5 min)
    owner,      \* the process that made the file that is there now, unless it died
    db,         \* the version committed in work_state
    checkpoint, \* the version in checkpoint.json
    crashes,
    lapses,
    contended   \* history: two processes were about to remove a stale file at once

lockVars == <<pc, data, lock, owner, db, checkpoint, crashes, lapses, contended>>

Steps    == {"idle", "open", "stat", "remove", "persist", "write", "release"}
Critical == {"persist", "write"}

LockInit ==
    /\ pc = [p \in Procs |-> "idle"]
    /\ data = [p \in Procs |-> 0]
    /\ lock = "absent"
    /\ owner = None
    /\ db = 0
    /\ checkpoint = 0
    /\ crashes = 0 /\ lapses = 0
    /\ contended = FALSE

LockGoto(p, step) == pc' = [pc EXCEPT ![p] = step]

(* SaveLocal: the transaction alone, without the lock and the checkpoint. *)
SaveLocal(p) ==
    /\ pc[p] = "idle"
    /\ db < MaxVersion
    /\ db' = db + 1
    /\ UNCHANGED <<pc, data, lock, owner, checkpoint, crashes, lapses, contended>>

(* Mutated EngineSave: the transaction and the write run without the lock. *)
SaveUnlocked(p) ==
    /\ pc[p] = "idle"
    /\ db < MaxVersion
    /\ LockGoto(p, "persist")
    /\ UNCHANGED <<data, lock, owner, db, checkpoint, crashes, lapses, contended>>

EngineSave(p) ==
    /\ pc[p] = "idle"
    /\ db < MaxVersion
    /\ LockGoto(p, "open")
    /\ UNCHANGED <<data, lock, owner, db, checkpoint, crashes, lapses, contended>>

(* Mutated CreateLock: the file is opened without O_EXCL. *)
CreateLockShared(p) ==
    /\ pc[p] = "open"
    /\ lock' = "fresh"
    /\ owner' = p
    /\ LockGoto(p, "persist")
    /\ UNCHANGED <<data, db, checkpoint, crashes, lapses, contended>>

(* OpenFile with O_CREATE|O_EXCL. *)
CreateLock(p) ==
    /\ pc[p] = "open"
    /\ lock = "absent"
    /\ lock' = "fresh"
    /\ owner' = p
    /\ LockGoto(p, "persist")
    /\ UNCHANGED <<data, db, checkpoint, crashes, lapses, contended>>

LockExists(p) ==
    /\ pc[p] = "open"
    /\ lock # "absent"
    /\ LockGoto(p, "stat")
    /\ UNCHANGED <<data, lock, owner, db, checkpoint, crashes, lapses, contended>>

(* Mutated Stat: the age of the file is not looked at. *)
StatAndWait(p) ==
    /\ pc[p] = "stat"
    /\ LockGoto(p, "open")
    /\ UNCHANGED <<data, lock, owner, db, checkpoint, crashes, lapses, contended>>

(* Stat: a stale file is to be removed; otherwise wait 10 ms and try again. *)
Stat(p) ==
    /\ pc[p] = "stat"
    /\ LockGoto(p, IF lock = "stale" THEN "remove" ELSE "open")
    /\ contended' = (contended \/ (lock = "stale" /\ \E q \in Procs : pc[q] = "remove"))
    /\ UNCHANGED <<data, lock, owner, db, checkpoint, crashes, lapses>>

(* os.Remove of the path, whichever file it names by now. *)
RemoveStale(p) ==
    /\ pc[p] = "remove"
    /\ lock' = "absent"
    /\ owner' = None
    /\ LockGoto(p, "open")
    /\ UNCHANGED <<data, db, checkpoint, crashes, lapses, contended>>

(* ctx.Done in the 10 ms wait, which follows a file that is not stale or a    *)
(* failed removal.                                                             *)
GiveUp(p) ==
    /\ \/ pc[p] = "stat" /\ lock # "stale"
       \/ pc[p] = "remove" /\ lock = "absent"
    /\ LockGoto(p, "idle")
    /\ UNCHANGED <<data, lock, owner, db, checkpoint, crashes, lapses, contended>>

(* UpdateWorkState: BEGIN IMMEDIATE, read, merge, write, COMMIT. *)
Persist(p) ==
    /\ pc[p] = "persist"
    /\ db < MaxVersion
    /\ db' = db + 1
    /\ data' = [data EXCEPT ![p] = db + 1]
    /\ LockGoto(p, "write")
    /\ UNCHANGED <<lock, owner, checkpoint, crashes, lapses, contended>>

(* AtomicWriteFile of the version this process has just committed. *)
WriteCheckpoint(p) ==
    /\ pc[p] = "write"
    /\ checkpoint' = data[p]
    /\ LockGoto(p, "release")
    /\ UNCHANGED <<data, lock, owner, db, crashes, lapses, contended>>

(* The transaction or the write fails: fn returns the error. *)
Fail(p) ==
    /\ pc[p] \in Critical
    /\ LockGoto(p, "release")
    /\ UNCHANGED <<data, lock, owner, db, checkpoint, crashes, lapses, contended>>

(* defer os.Remove(lockPath) *)
Release(p) ==
    /\ pc[p] = "release"
    /\ lock' = "absent"
    /\ owner' = None
    /\ data' = [data EXCEPT ![p] = 0]
    /\ LockGoto(p, "idle")
    /\ UNCHANGED <<db, checkpoint, crashes, lapses, contended>>

(* A process is killed; the file it made stays behind. *)
Crash(p) ==
    /\ pc[p] # "idle"
    /\ crashes < MaxCrashes
    /\ crashes' = crashes + 1
    /\ owner' = IF owner = p THEN None ELSE owner
    /\ data' = [data EXCEPT ![p] = 0]
    /\ LockGoto(p, "idle")
    /\ UNCHANGED <<lock, db, checkpoint, lapses, contended>>

(* Five minutes pass after the owner died. *)
GrowStale ==
    /\ lock = "fresh"
    /\ owner = None
    /\ lock' = "stale"
    /\ UNCHANGED <<pc, data, owner, db, checkpoint, crashes, lapses, contended>>

(* time.Since of the file's mtime is wall-clock time: a step of the clock, or  *)
(* five minutes in which the machine or the owner was suspended, make the file *)
(* of a live owner look stale; a step back makes a stale one look fresh.       *)
Lapse ==
    /\ lock # "absent"
    /\ lapses < MaxLapses
    /\ lock' = IF lock = "fresh" THEN "stale" ELSE "fresh"
    /\ lapses' = lapses + 1
    /\ UNCHANGED <<pc, data, owner, db, checkpoint, crashes, contended>>

Step(p) ==
    \/ CreateLock(p)
    \/ LockExists(p)
    \/ Stat(p)
    \/ RemoveStale(p)
    \/ Persist(p)
    \/ WriteCheckpoint(p)
    \/ Fail(p)
    \/ Release(p)

LockNext ==
    \/ \E p \in Procs : SaveLocal(p) \/ EngineSave(p) \/ Step(p) \/ GiveUp(p) \/ Crash(p)
    \/ GrowStale
    \/ Lapse

LockSpec == LockInit /\ [][LockNext]_lockVars

(* A process that is not killed goes on, and time passes. *)
Fairness == WF_lockVars(GrowStale) /\ \A p \in Procs : WF_lockVars(Step(p))

FairLockSpec == LockSpec /\ Fairness

-------------------------------------------------------------------------------
(* Every process, the lock file and the versions have their types.             *)
LockTypeOK ==
    /\ pc \in [Procs -> Steps]
    /\ data \in [Procs -> 0..MaxVersion]
    /\ lock \in {"absent", "fresh", "stale"}
    /\ owner \in Procs \cup {None}
    /\ db \in 0..MaxVersion
    /\ checkpoint \in 0..MaxVersion
    /\ crashes \in 0..MaxCrashes
    /\ lapses \in 0..MaxLapses
    /\ contended \in BOOLEAN

(* The boundary between committing to SQLite and writing checkpoint.json is    *)
(* crossed by one process at a time (comment on withCheckpointLock).           *)
CheckpointSerialized ==
    \A p, q \in Procs : pc[p] \in Critical /\ pc[q] \in Critical => p = q

(* As long as the age of a live owner's file is never misread, that is so,     *)
(* whichever processes are killed and whenever their locks are reclaimed,      *)
(* until two processes are about to remove one abandoned file at the same      *)
(* time: the second would remove the lock the first has made.  It takes a kill *)
(* to get there.                                                               *)
MutualExclusion ==
    lapses = 0 =>
        /\ ~ contended => CheckpointSerialized
        /\ contended => crashes > 0

(* For as long, checkpoint.json never goes back to an older work state, and    *)
(* never runs ahead of SQLite, which is the authority, although processes are  *)
(* killed between the commit and the write, and SaveLocal commits versions     *)
(* without the lock.                                                           *)
CheckpointMonotone ==
    [][lapses' = 0 /\ ~ contended' => checkpoint' >= checkpoint /\ checkpoint' <= db']_lockVars

Waiting(p) == pc[p] \in {"open", "stat", "remove"}

Abandoned == lock # "absent" /\ owner = None

(* The lock of a killed process does not block checkpoints for ever: as long   *)
(* as somebody keeps waiting for it, it is reclaimed once it is five minutes   *)
(* old.                                                                        *)
AbandonedLockReclaimed ==
    (Abandoned /\ \E p \in Procs : Waiting(p))
        ~> (~ Abandoned \/ \A p \in Procs : ~ Waiting(p))
===============================================================================
