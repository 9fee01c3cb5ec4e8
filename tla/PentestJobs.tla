------------------------------ MODULE PentestJobs ------------------------------
(* Orchestrator.Execute (internal/pentest/orchestrator.go) over the tables of  *)
(* internal/storage/pentest.go.  Each job is driven by a process of its own;   *)
(* `baron pentest stop` is another one that writes the job's row.  Every write *)
(* of a table is a step and may fail; the process may be killed between steps. *)
(*                                                                             *)
(* The scanner, the agent and Git are external: their answers are outcomes.    *)
(* The tree is the number of edits made to it, so two equal trees have equal   *)
(* fingerprints.  The commands run under context.Background(), so nothing      *)
(* cancels a job from outside.                                                 *)
EXTENDS Integers, Sequences, FiniteSets

CONSTANTS
    Jobs,
    RawIds,       \* the finding ids the scanner gives
    NoId,         \* a finding without an id
    Strong,       \* source paths, as sequences of names
    Weak,         \* paths of generated files, lock files and the like
    Changes,      \* the sets of paths that may have uncommitted changes
    KindsOf,      \* what each job may be asked to scan, see Kinds
    MaxFindings,  \* bound on the findings of a scan
    Reports,      \* the reports of the scanner: sequences of ids
    NoReport,     \* output that is no report
    MaxEdits,     \* bound on the edits of the tree
    MaxCrashes,   \* bound on killed processes
    MaxFaults     \* bound on the jobs a write of which fails

Status == {"none", "running", "findings", "completed", "failed", "stopped", "interrupted"}

(* normalizeFindings gives an unnamed finding its position for a name and adds *)
(* the position to a name that was already given.                              *)
Names == RawIds \cup ({NoId} \X (1..MaxFindings))
Ids == Names \cup (Names \X (1..MaxFindings))

(* What is scanned and by whom: a URL, a project for a person at the terminal, *)
(* a project for Codex or DSH with an agent that can change it.                *)
Kinds == {"url", "local", "active"}

(* remediate tells nine ways apart in which a finding stays unresolved, from   *)
(* validation_error to retest_failed; what becomes of the job is the same.     *)
Dispositions == {"", "report_only", "unresolved", "retested"}

ASSUME PentestConstants ==
    /\ MaxFindings \in Nat /\ MaxEdits \in Nat /\ MaxCrashes \in Nat /\ MaxFaults \in Nat
    /\ NoId \notin RawIds \cup Jobs
    /\ \A raw \in Reports : Len(raw) <= MaxFindings /\ raw \in Seq(RawIds \cup {NoId})
    /\ Changes \subseteq SUBSET (Strong \cup Weak)
    /\ KindsOf \in [Jobs -> SUBSET Kinds]

VARIABLES
    row,        \* pentest_jobs: status and terminal_evidence of each job
    finding,    \* pentest_findings: the job and the disposition each id has
    journal,    \* pentest_events of each job
    run,        \* the process that executes each job
    snapshots,  \* the snapshot directories of each job in the temporary directory
    tree,       \* the working tree
    crashes,
    faulted     \* history: the jobs a write of which failed

vars == <<row, finding, journal, run, snapshots, tree, crashes, faulted>>
tables == <<row, finding, journal>>

Steps == {"idle", "started", "scan", "record", "announce",
          "reportOnly", "validate", "fix", "apply", "observe", "verify", "retest", "rescan",
          "dispose", "settle", "findings", "findingsEvidence", "findingsEvent", "evidence", "complete",
          "completedEvent", "report", "failing", "returned", "dead"}
AtRest == {"idle", "returned", "dead"}

NoRow == [job |-> NoId, disposition |-> ""]
IdleRun == [pc |-> "idle", kind |-> "url", dirty |-> {}, before |-> 0,
            ids |-> <<>>, disposition |-> <<>>, at |-> 1, failure |-> "failed"]

Init ==
    /\ row = [j \in Jobs |-> [status |-> "none", evidence |-> FALSE]]
    /\ finding = [i \in Ids |-> NoRow]
    /\ journal = [j \in Jobs |-> {}]
    /\ run = [j \in Jobs |-> IdleRun]
    /\ snapshots = [j \in Jobs |-> {}]
    /\ tree = 0 /\ crashes = 0 /\ faulted = {}

-------------------------------------------------------------------------------
At(j, step) == run[j].pc = step

Goto(j, step) == run' = [run EXCEPT ![j].pc = step]

Failing(j, status) == run' = [run EXCEPT ![j].pc = "failing", ![j].failure = status]

(* A write of the store: the rest of the step, or an error that ends the job. *)
Write(j, done) ==
    \/ done /\ UNCHANGED faulted
    \/ /\ Cardinality(faulted \cup {j}) <= MaxFaults
       /\ faulted' = faulted \cup {j}
       /\ Failing(j, "failed")
       /\ UNCHANGED tables

(* AppendPentestEvent; the key of an event is its kind and its finding. *)
AppendEvent(j, kind, i) == journal' = [journal EXCEPT ![j] = @ \cup {<<kind, i>>}]

(* pentestStatusTransitionAllowed *)
Allowed(from, to) ==
    \/ from = to
    \/ from = "running" /\ to \in {"findings", "completed", "failed", "stopped", "interrupted"}
    \/ from = "findings" /\ to \in {"running", "completed", "failed", "stopped", "interrupted"}
    \/ from = "interrupted" /\ to \in {"running", "failed", "stopped"}

(* UpdatePentestJobStatus goes through: an unchanged status does at once, a    *)
(* completion needs the terminal evidence.                                     *)
MayBecome(j, status) ==
    /\ Allowed(row[j].status, status)
    /\ status = "completed" /\ row[j].status # "completed" => row[j].evidence

(* StartPentestJob *)
StartJob(j) == row' = [row EXCEPT ![j].status = "running"]

SetStatus(j, status) == row' = [row EXCEPT ![j].status = status]

(* SetPentestTerminalEvidence *)
SetEvidence(j) == row' = [row EXCEPT ![j].evidence = TRUE]

(* RecordPentestFinding: finding_id alone is the key, so the row of another    *)
(* job's finding with the same id is taken over.                               *)
RecordFinding(j, i, d) == finding' = [finding EXCEPT ![i] = [job |-> j, disposition |-> d]]

(* The name a finding has or is given for its position. *)
NameAt(raw, n) == IF raw[n] = NoId THEN <<NoId, n>> ELSE raw[n]

(* Mutated NormalizeFindings: a name that was given before is given again. *)
NormalizeUnnamed(raw) == [n \in 1..Len(raw) |-> NameAt(raw, n)]

(* normalizeFindings *)
NormalizeFindings(raw) ==
    LET Named[n \in 0..Len(raw)] ==
            IF n = 0 THEN <<>>
            ELSE LET given == Named[n-1]
                     taken == {given[k] : k \in 1..(n-1)}
                     name  == NameAt(raw, n) IN
                 Append(given, IF name \in taken THEN <<name, n>> ELSE name)
    IN  Named[Len(raw)]

(* evidencePathsOverlap: one path is the other or lies under it. *)
PathsOverlap(a, b) ==
    LET short == IF Len(a) <= Len(b) THEN a ELSE b
        long  == IF Len(a) <= Len(b) THEN b ELSE a IN
    SubSeq(long, 1, Len(short)) = short

(* strongOverlap *)
StrongOverlap(changed, paths) ==
    LET before == changed \cap Strong IN
    /\ before # {}
    /\ paths = {} \/ \E p \in paths \cap Strong, q \in before : PathsOverlap(p, q)

Current(j) == run[j].ids[run[j].at]

-------------------------------------------------------------------------------
(* Execute up to the job's row: a request for a URL has no source and no Git   *)
(* evidence.  A request that is refused leaves nothing behind.                 *)
Execute(j, kind, dirty) ==
    /\ At(j, "idle")
    /\ run' = [run EXCEPT ![j] = [IdleRun EXCEPT !.pc = "started", !.kind = kind,
                                     !.before = IF kind = "active" THEN tree ELSE 0,
                                     !.dirty = IF kind = "active" THEN dirty ELSE {}]]
    /\ StartJob(j)
    /\ UNCHANGED <<finding, journal, snapshots, tree, crashes, faulted>>

(* The directory BuildSnapshot leaves: the whole copy or, on an error, none. *)
BuildSnapshot(name, copied) == IF copied THEN {name} ELSE {}

(* Up to the scan: the job is announced, the source is copied, the work        *)
(* directory is prepared.  The events are written in this order; an error ends *)
(* the job after any of them.                                                  *)
Prepare(j) ==
    /\ At(j, "started")
    /\ LET local  == run[j].kind # "url"
           events == <<"pentest_started">> \o (IF local THEN <<"snapshot_created">> ELSE <<>>)
                                          \o <<"strix_started">> IN
       \/ /\ Goto(j, "scan")
          /\ journal' = [journal EXCEPT ![j] = {<<events[k], NoId>> : k \in 1..Len(events)}]
          /\ snapshots' = [snapshots EXCEPT ![j] = BuildSnapshot("scan", local)]
       \/ /\ Failing(j, "failed")
          /\ \E n \in 1..(Len(events) - 1) :
                journal' = [journal EXCEPT ![j] = {<<events[k], NoId>> : k \in 1..n}]
          /\ \E copied \in {FALSE, local} :
                snapshots' = [snapshots EXCEPT ![j] = BuildSnapshot("scan", copied)]
    /\ UNCHANGED <<row, finding, tree, crashes, faulted>>

(* ClassifyStrixExit: no command runner of the program makes a StrixExitError, *)
(* so status 2 is fatal like any other.                                        *)
Classify(exit) ==
    CASE exit = "zero" -> "completed"
      [] exit = "deadline" -> "interrupted"
      [] OTHER -> "fatal"

(* latestStrixReport: the newest index the scanner wrote, else its output. *)
LatestReports == Reports \cup {NoReport}

(* parseStrixResult: what is no report has no findings. *)
Parse(report) == IF report = NoReport THEN <<>> ELSE report

(* RunStrix: how the scan ended and what it found. *)
RunStrix ==
    {[outcome |-> Classify(exit), raw |-> Parse(report)] :
        exit \in {"zero", "deadline", "two", "other"}, report \in LatestReports}

(* recordArtifact: a report that cannot be kept ends the job. *)
RecordArtifact(j, done) == Write(j, done)

(* Execute, the scan *)
Scan(j) ==
    /\ At(j, "scan")
    /\ \E result \in RunStrix :
          \/ /\ result.outcome = "completed"
             /\ RecordArtifact(j,
                   /\ run' = [run EXCEPT ![j].ids = NormalizeFindings(result.raw),
                                         ![j].disposition = [k \in 1..Len(result.raw) |-> ""],
                                         ![j].pc = IF result.raw = <<>> THEN "evidence" ELSE "record"]
                   /\ UNCHANGED tables)
          \/ /\ result.outcome # "completed"
             /\ Failing(j, IF result.outcome = "interrupted" THEN "interrupted" ELSE "failed")
             /\ UNCHANGED <<tables, faulted>>
    /\ UNCHANGED <<snapshots, tree, crashes>>

(* The position after the current finding. *)
Advanced(j, again, past) ==
    IF run[j].at = Len(run[j].ids)
    THEN [run[j] EXCEPT !.at = 1, !.pc = past]
    ELSE [run[j] EXCEPT !.at = @ + 1, !.pc = again]

(* Every finding is recorded and announced before anything is done about one. *)
RecordFindings(j) ==
    /\ \/ /\ At(j, "record")
          /\ Write(j, /\ RecordFinding(j, Current(j), "") /\ Goto(j, "announce")
                      /\ UNCHANGED <<row, journal>>)
       \/ /\ At(j, "announce")
          /\ Write(j, /\ AppendEvent(j, "finding_observed", Current(j))
                      /\ run' = [run EXCEPT ![j] =
                             Advanced(j, "record", IF run[j].kind = "active" THEN "validate" ELSE "reportOnly")]
                      /\ UNCHANGED <<row, finding>>)
    /\ UNCHANGED <<snapshots, tree, crashes>>

ReportOnly(j) ==
    /\ At(j, "reportOnly")
    /\ Write(j, /\ RecordFinding(j, Current(j), "report_only")
                /\ run' = [run EXCEPT ![j] =
                              [Advanced(j, "reportOnly", "settle")
                                  EXCEPT !.disposition[run[j].at] = "report_only"]]
                /\ UNCHANGED <<row, journal>>)
    /\ UNCHANGED <<snapshots, tree, crashes>>

-------------------------------------------------------------------------------
(* remediate, one finding at a time.  The disposition is decided here and      *)
(* written by Dispose.                                                         *)
Decide(j, d) == run' = [run EXCEPT ![j].pc = "dispose", ![j].disposition[run[j].at] = d]

(* An error, a finding that is not confirmed and an overlap with changes that  *)
(* were there before all leave it unresolved.  A refusal is journalled under   *)
(* the same type; only the confirmation is kept here.                          *)
ValidateFinding(j) ==
    /\ At(j, "validate")
    /\ \/ Write(j, Decide(j, "unresolved") /\ UNCHANGED tables)
       \/ \E paths \in SUBSET (Strong \cup Weak) :
             Write(j, /\ AppendEvent(j, "finding_validated", Current(j))
                      /\ IF StrongOverlap(run[j].dirty, paths)
                         THEN Decide(j, "unresolved") ELSE Goto(j, "fix")
                      /\ UNCHANGED <<row, finding>>)
    /\ UNCHANGED <<snapshots, tree, crashes>>

RequestFix(j) ==
    /\ At(j, "fix")
    /\ Write(j, /\ AppendEvent(j, "fix_requested", Current(j)) /\ Goto(j, "apply")
                /\ UNCHANGED <<row, finding>>)
    /\ UNCHANGED <<snapshots, tree, crashes>>

(* The agent may claim a fix and leave the tree as it is, and may edit the     *)
(* tree and report an error or no fix.                                         *)
ApplyFix(j) ==
    /\ At(j, "apply")
    /\ tree' \in {tree} \cup {t \in {tree + 1} : t <= MaxEdits}
    /\ \/ Decide(j, "unresolved") /\ UNCHANGED <<tables, faulted>>
       \/ Write(j, /\ AppendEvent(j, "fix_applied", Current(j)) /\ Goto(j, "observe")
                   /\ UNCHANGED <<row, finding>>)
    /\ UNCHANGED <<snapshots, crashes>>

(* The fingerprints of two captures differ. *)
Changed(j) == tree # run[j].before

(* The tree is compared with the one the job began with. *)
ObserveFix(j) ==
    /\ At(j, "observe")
    /\ \/ Changed(j) /\ Goto(j, "verify")
       \/ Decide(j, "unresolved")
    /\ UNCHANGED <<tables, snapshots, tree, crashes, faulted>>

(* Mutated RunVerification: a failed verification does not end the chain. *)
VerificationIgnored(j) ==
    /\ At(j, "verify")
    /\ \/ Goto(j, "retest") /\ UNCHANGED <<tables, faulted>>
       \/ Write(j, /\ AppendEvent(j, "verified", Current(j))
                   /\ Goto(j, "retest") /\ UNCHANGED <<row, finding>>)
    /\ UNCHANGED <<snapshots, tree, crashes>>

RunVerification(j) ==
    /\ At(j, "verify")
    /\ \/ Write(j, Decide(j, "unresolved") /\ UNCHANGED tables)
       \/ Write(j, /\ AppendEvent(j, "verified", Current(j))
                   /\ Goto(j, "retest") /\ UNCHANGED <<row, finding>>)
    /\ UNCHANGED <<snapshots, tree, crashes>>

(* A second snapshot is scanned and removed again; the finding is looked for   *)
(* among the ids of the report as they are, not normalized.                    *)
Retest(j) ==
    /\ \/ At(j, "retest") /\ Decide(j, "unresolved") /\ UNCHANGED <<snapshots, faulted>>
       \/ /\ At(j, "retest") /\ Goto(j, "rescan")
          /\ snapshots' = [snapshots EXCEPT ![j] = @ \cup BuildSnapshot("retest", TRUE)]
          /\ UNCHANGED faulted
       \/ /\ At(j, "rescan")
          /\ snapshots' = [snapshots EXCEPT ![j] = @ \ {"retest"}]
          /\ \E result \in RunStrix :
                RecordArtifact(j, Decide(j,
                    IF \/ result.outcome # "completed"
                       \/ \E k \in 1..Len(result.raw) : result.raw[k] = Current(j)
                    THEN "unresolved" ELSE "retested"))
    /\ UNCHANGED <<tables, tree, crashes>>

Dispose(j) ==
    /\ At(j, "dispose")
    /\ Write(j, /\ RecordFinding(j, Current(j), run[j].disposition[run[j].at])
                /\ run' = [run EXCEPT ![j] = Advanced(j, "validate", "settle")]
                /\ UNCHANGED <<row, journal>>)
    /\ UNCHANGED <<snapshots, tree, crashes>>

-------------------------------------------------------------------------------
(* Mutated Settle: one resolved finding is enough. *)
SettleOne(j) ==
    /\ At(j, "settle")
    /\ Goto(j, IF \E k \in 1..Len(run[j].ids) : run[j].disposition[k] = "retested"
               THEN "evidence" ELSE "findings")
    /\ UNCHANGED <<tables, snapshots, tree, crashes, faulted>>

Settle(j) ==
    /\ At(j, "settle")
    /\ Goto(j, IF \A k \in 1..Len(run[j].ids) : run[j].disposition[k] = "retested"
               THEN "evidence" ELSE "findings")
    /\ UNCHANGED <<tables, snapshots, tree, crashes, faulted>>

(* A status that is refused ends the job like a failed write. *)
WriteStatus(j, status, next) ==
    \/ /\ MayBecome(j, status)
       /\ Write(j, SetStatus(j, status) /\ Goto(j, next) /\ UNCHANGED <<finding, journal>>)
    \/ ~MayBecome(j, status) /\ Failing(j, "failed") /\ UNCHANGED <<tables, faulted>>

(* With unresolved findings the status comes first, then the evidence. *)
SettleFindings(j) ==
    /\ \/ At(j, "findings") /\ WriteStatus(j, "findings", "findingsEvidence")
       \/ /\ At(j, "findingsEvidence")
          /\ Write(j, /\ SetEvidence(j)
                      /\ Goto(j, "findingsEvent") /\ UNCHANGED <<finding, journal>>)
       \/ /\ At(j, "findingsEvent")
          /\ Write(j, /\ AppendEvent(j, "pentest_completed", NoId) /\ Goto(j, "report")
                      /\ UNCHANGED <<row, finding>>)
    /\ UNCHANGED <<snapshots, tree, crashes>>

(* Mutated Complete: the event is written first. *)
CompleteEventFirst(j) ==
    /\ \/ /\ At(j, "evidence")
          /\ Write(j, /\ SetEvidence(j)
                      /\ Goto(j, "completedEvent") /\ UNCHANGED <<finding, journal>>)
       \/ /\ At(j, "completedEvent")
          /\ Write(j, /\ AppendEvent(j, "pentest_completed", NoId) /\ Goto(j, "complete")
                      /\ UNCHANGED <<row, finding>>)
       \/ At(j, "complete") /\ WriteStatus(j, "completed", "report")
    /\ UNCHANGED <<snapshots, tree, crashes>>

(* complete: the evidence comes first, then the status it allows. *)
Complete(j) ==
    /\ \/ /\ At(j, "evidence")
          /\ Write(j, /\ SetEvidence(j)
                      /\ Goto(j, "complete") /\ UNCHANGED <<finding, journal>>)
       \/ At(j, "complete") /\ WriteStatus(j, "completed", "completedEvent")
       \/ /\ At(j, "completedEvent")
          /\ Write(j, /\ AppendEvent(j, "pentest_completed", NoId) /\ Goto(j, "report")
                      /\ UNCHANGED <<row, finding>>)
    /\ UNCHANGED <<snapshots, tree, crashes>>

(* The deferred Snapshot.Cleanup of Execute *)
Cleanup(j) == snapshots' = [snapshots EXCEPT ![j] = {}]

(* The command ends; what the scan found is kept for the properties. *)
Return(j) ==
    run' = [run EXCEPT ![j] = [IdleRun EXCEPT !.pc = "returned", !.ids = run[j].ids]]

(* reportForJob and the return to the command *)
ReturnReport(j) ==
    /\ At(j, "report")
    /\ Return(j)
    /\ Cleanup(j)
    /\ UNCHANGED <<tables, tree, crashes, faulted>>

(* fail: both writes are attempted and neither error is looked at.  A stop     *)
(* that came first keeps the status; the event is written all the same.        *)
Fail(j) ==
    /\ At(j, "failing")
    /\ \/ /\ row' = IF MayBecome(j, run[j].failure)
                    THEN [row EXCEPT ![j].status = run[j].failure] ELSE row
          /\ AppendEvent(j, IF run[j].failure = "failed" THEN "pentest_failed"
                                                         ELSE "pentest_interrupted", NoId)
       \/ j \in faulted /\ UNCHANGED <<row, journal>>
    /\ Return(j)
    /\ Cleanup(j)
    /\ UNCHANGED <<finding, tree, crashes, faulted>>

(* Mutated Stop: a job that is done is stopped as well. *)
StopAlways(j) ==
    /\ row[j].status # "none"
    /\ row' = [row EXCEPT ![j].status = "stopped"]
    /\ UNCHANGED <<finding, journal, run, snapshots, tree, crashes, faulted>>

(* StopPentestJob *)
Stoppable(j) == row[j].status \notin {"none", "stopped", "completed", "failed"}

(* stopPentest, from another process: the job is not told. *)
Stop(j) ==
    /\ Stoppable(j)
    /\ row' = [row EXCEPT ![j].status = "stopped"]
    /\ UNCHANGED <<finding, journal, run, snapshots, tree, crashes, faulted>>

(* The process is killed, by an interrupt from the terminal for one. *)
Crash(j) ==
    /\ run[j].pc \notin AtRest /\ crashes < MaxCrashes
    /\ crashes' = crashes + 1
    /\ run' = [run EXCEPT ![j] = [IdleRun EXCEPT !.pc = "dead", !.ids = run[j].ids]]
    /\ UNCHANGED <<tables, snapshots, tree, faulted>>

Step(j) ==
    \/ Prepare(j) \/ Scan(j) \/ RecordFindings(j)
    \/ ReportOnly(j) \/ ValidateFinding(j) \/ RequestFix(j) \/ ApplyFix(j) \/ ObserveFix(j)
    \/ RunVerification(j) \/ Retest(j) \/ Dispose(j) \/ Settle(j) \/ SettleFindings(j)
    \/ Complete(j) \/ ReturnReport(j) \/ Fail(j)

(* Every job ran to its end: the commands return. *)
Terminated == (\A j \in Jobs : run[j].pc \in AtRest \ {"idle"}) /\ UNCHANGED vars

Next ==
    \/ \E j \in Jobs :
          \/ \E kind \in KindsOf[j], dirty \in Changes : Execute(j, kind, dirty)
          \/ Step(j) \/ Stop(j) \/ Crash(j)
    \/ Terminated

Spec == Init /\ [][Next]_vars

-------------------------------------------------------------------------------
Run == [pc : Steps, kind : Kinds, dirty : SUBSET (Strong \cup Weak),
        before : Nat, ids : Seq(Ids), disposition : Seq(Dispositions), at : Nat,
        failure : {"failed", "interrupted"}]

Events ==
    ({"pentest_started", "snapshot_created", "strix_started",
      "pentest_completed", "pentest_failed", "pentest_interrupted"} \X {NoId})
    \cup ({"finding_observed", "finding_validated", "fix_requested",
           "fix_applied", "verified"} \X Ids)

(* The shape of the tables and of what a process holds. *)
TypeOK ==
    /\ row \in [Jobs -> [status : Status, evidence : BOOLEAN]]
    /\ finding \in [Ids -> [job : Jobs \cup {NoId}, disposition : Dispositions]]
    /\ journal \in [Jobs -> SUBSET Events]
    /\ run \in [Jobs -> Run]
    /\ snapshots \in [Jobs -> SUBSET {"scan", "retest"}]
    /\ tree \in Nat /\ crashes \in Nat /\ faulted \subseteq Jobs

(* ListPentestEvents *)
Reported(j, kind) == <<kind, NoId>> \in journal[j]

(* ListPentestFindings: what a report lists. *)
Owned(j) == {i \in Ids : finding[i].job = j}

(* A job that is completed has its terminal evidence, and whatever findings    *)
(* its report lists were fixed and retested, also when another job ran over    *)
(* the same findings or the job was stopped on the way (complete,              *)
(* UpdatePentestJobStatus).                                                    *)
CompletedResolved ==
    \A j \in Jobs : row[j].status = "completed" =>
        row[j].evidence /\ \A i \in Owned(j) : finding[i].disposition = "retested"

(* A finding that counts as retested has the whole chain in the journal of the *)
(* job that says so: validated, fix requested, fix applied, verified           *)
(* (remediate).                                                                *)
RetestedHasChain ==
    \A i \in Ids : finding[i].disposition = "retested" =>
        \A kind \in {"finding_validated", "fix_requested", "fix_applied", "verified"} :
            <<kind, i>> \in journal[finding[i].job]

(* A job whose journal says it is completed does not end as failed or          *)
(* interrupted: after the event only a stop can still change the status, and   *)
(* that of a completed job nothing can (SettleFindings, complete, fail).       *)
CompletedEventTruthful ==
    \A j \in Jobs : Reported(j, "pentest_completed") =>
        /\ row[j].status \in {"findings", "completed", "stopped"}
        /\ row[j].evidence
        /\ ~Reported(j, "pentest_failed") /\ ~Reported(j, "pentest_interrupted")

(* A finished job still lists every finding it recorded, unless another job    *)
(* was told of a finding with the same id (normalizeFindings makes ids unique  *)
(* within a job, pentest_findings has one row per id).                         *)
FindingsKept ==
    \A j \in Jobs : run[j].pc = "returned" /\ Reported(j, "pentest_completed") =>
        /\ Cardinality({run[j].ids[k] : k \in 1..Len(run[j].ids)}) = Len(run[j].ids)
        /\ \A k \in 1..Len(run[j].ids) :
               \/ run[j].ids[k] \in Owned(j)
               \/ \E other \in Jobs \ {j} :
                     \E m \in 1..Len(run[other].ids) : run[other].ids[m] = run[j].ids[k]

(* A job that is completed, failed or stopped stays so, whichever process      *)
(* writes next (pentestStatusTransitionAllowed, StopPentestJob).               *)
TerminalKept ==
    [][\A j \in Jobs : row[j].status \in {"completed", "failed", "stopped"} =>
          row'[j].status = row[j].status]_vars

===============================================================================
