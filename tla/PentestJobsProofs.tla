--------------------------- MODULE PentestJobsProofs ---------------------------
(* What the row and the journal of a pentest job say of its end, for any       *)
(* number of jobs, findings, edits, crashes and failed writes.                 *)
EXTENDS PentestJobs, TLAPS, WellFoundedInduction, FiniteSetTheorems

Failed(j) == Reported(j, "pentest_failed") \/ Reported(j, "pentest_interrupted")

(* The parts of the state the argument is about are there.                     *)
RunShape ==
    /\ run = [j \in Jobs |-> run[j]]
    /\ \A j \in Jobs : /\ {"pc", "failure"} \subseteq DOMAIN run[j]
                       /\ run[j].failure \in {"failed", "interrupted"}

TableShape ==
    /\ row \in [Jobs -> [status : Status, evidence : BOOLEAN]]
    /\ journal = [j \in Jobs |-> journal[j]]

(* What is known of a job at each step of its process.                         *)
JobFits(j) ==
    /\ run[j].pc = "idle" => row[j].status = "none"
    /\ run[j].pc \in {"findingsEvidence", "findingsEvent"} => row[j].status \in {"findings", "stopped"}
    /\ run[j].pc \in {"findingsEvent", "complete", "completedEvent"} => row[j].evidence = TRUE
    /\ run[j].pc = "completedEvent" => row[j].status = "completed"
    /\ Reported(j, "pentest_completed") =>
          /\ run[j].pc \in {"report", "returned", "dead"} /\ row[j].evidence = TRUE
          /\ row[j].status \in {"findings", "completed", "stopped"}
    /\ Failed(j) => run[j].pc = "returned" /\ ~Reported(j, "pentest_completed")

JobsInvariant == RunShape /\ TableShape /\ \A j \in Jobs : JobFits(j)

-------------------------------------------------------------------------------
(* The process of j, and of no other job, goes on at pc.                       *)
StepTo(j, pc) ==
    /\ RunShape'
    /\ run'[j].pc = pc
    /\ \A k \in Jobs \ {j} : run'[k] = run[k]

LEMMA SetRun ==
    ASSUME RunShape, NEW j \in Jobs, NEW rec, run' = [run EXCEPT ![j] = rec],
           {"pc", "failure"} \subseteq DOMAIN rec, rec.failure \in {"failed", "interrupted"}
    PROVE  StepTo(j, rec.pc)
<1>1. run' = [k \in Jobs |-> IF k = j THEN rec ELSE run[k]] BY DEF RunShape
<1> QED BY <1>1 DEF StepTo, RunShape

LEMMA GotoSteps ==
    ASSUME RunShape, NEW j \in Jobs, NEW pc, Goto(j, pc) PROVE StepTo(j, pc)
<1> DEFINE rec == [run[j] EXCEPT !.pc = pc]
<1>1. run' = [run EXCEPT ![j] = rec] BY DEF Goto
<1>2. /\ {"pc", "failure"} \subseteq DOMAIN rec /\ rec.pc = pc
      /\ rec.failure \in {"failed", "interrupted"}
  BY DEF RunShape
<1> HIDE DEF rec
<1> QED BY <1>1, <1>2, SetRun

LEMMA FailingSteps ==
    ASSUME RunShape, NEW j \in Jobs, NEW status \in {"failed", "interrupted"}, Failing(j, status)
    PROVE  StepTo(j, "failing")
<1> DEFINE rec == [run[j] EXCEPT !.pc = "failing", !.failure = status]
<1>1. run' = [run EXCEPT ![j] = rec] BY DEF Failing
<1>2. /\ {"pc", "failure"} \subseteq DOMAIN rec /\ rec.pc = "failing"
      /\ rec.failure \in {"failed", "interrupted"}
  BY DEF RunShape
<1> HIDE DEF rec
<1> QED BY <1>1, <1>2, SetRun

LEMMA DecideSteps ==
    ASSUME RunShape, NEW j \in Jobs, NEW d, Decide(j, d) PROVE StepTo(j, "dispose")
<1> DEFINE rec == [run[j] EXCEPT !.pc = "dispose", !.disposition[run[j].at] = d]
<1>1. run' = [run EXCEPT ![j] = rec] BY DEF Decide
<1>2. /\ {"pc", "failure"} \subseteq DOMAIN rec /\ rec.pc = "dispose"
      /\ rec.failure \in {"failed", "interrupted"}
  BY DEF RunShape
<1> HIDE DEF rec
<1> QED BY <1>1, <1>2, SetRun

LEMMA AdvancedSteps ==
    ASSUME RunShape, NEW j \in Jobs, NEW again, NEW past
    PROVE  /\ {"pc", "failure"} \subseteq DOMAIN Advanced(j, again, past)
           /\ Advanced(j, again, past).pc \in {again, past}
           /\ Advanced(j, again, past).failure \in {"failed", "interrupted"}
BY DEF RunShape, Advanced

LEMMA RestSteps ==
    ASSUME RunShape, NEW j \in Jobs, NEW pc,
           run' = [run EXCEPT ![j] = [IdleRun EXCEPT !.pc = pc, !.ids = run[j].ids]]
    PROVE  StepTo(j, pc)
<1> DEFINE rec == [IdleRun EXCEPT !.pc = pc, !.ids = run[j].ids]
<1>1. /\ {"pc", "failure"} \subseteq DOMAIN rec /\ rec.pc = pc
      /\ rec.failure \in {"failed", "interrupted"}
  BY DEF IdleRun
<1>2. run' = [run EXCEPT ![j] = rec] OBVIOUS
<1> HIDE DEF rec
<1> QED BY <1>1, <1>2, SetRun

-------------------------------------------------------------------------------
(* The events that say how a job ended.                                        *)
Ends == {"pentest_completed", "pentest_failed", "pentest_interrupted"}

(* A step of j on the way: it says nothing of the end and needs nothing known  *)
(* of the job.                                                                 *)
Midway == Steps \ ({"findingsEvidence", "findingsEvent", "complete", "completedEvent", "report"} \cup AtRest)

OnTheWay(j) ==
    /\ run[j].pc \notin {"idle", "report", "returned", "dead"}
    /\ row' = row /\ journal' = [k \in Jobs |-> journal'[k]]
    /\ \A k \in Jobs, kind \in Ends : Reported(k, kind)' => Reported(k, kind)
    /\ \A k \in Jobs, kind \in Ends : Reported(k, kind) /\ k # j => Reported(k, kind)'
    /\ \E pc \in Midway : StepTo(j, pc)

LEMMA OnTheWayKeeps ==
    ASSUME JobsInvariant, NEW j \in Jobs, OnTheWay(j) PROVE JobsInvariant'
<1>1. PICK pc \in Midway : StepTo(j, pc) BY DEF OnTheWay
<1>2. RunShape' /\ TableShape' BY <1>1 DEF JobsInvariant, TableShape, OnTheWay, StepTo
<1>3. ~Reported(j, "pentest_completed") /\ ~Failed(j)
  BY DEF JobsInvariant, JobFits, OnTheWay
<1>4. JobFits(j)'
  BY <1>1, <1>3 DEF OnTheWay, JobFits, StepTo, Midway, AtRest, Ends, Failed
<1>5. ASSUME NEW k \in Jobs \ {j} PROVE JobFits(k)'
  <2>1. run'[k] = run[k] /\ row'[k] = row[k] BY <1>1 DEF StepTo, OnTheWay
  <2>2. \A kind \in Ends : Reported(k, kind)' <=> Reported(k, kind) BY DEF OnTheWay
  <2>3. JobFits(k) BY DEF JobsInvariant
  <2> QED BY <2>1, <2>2, <2>3 DEF JobFits, Failed, Ends
<1> QED BY <1>2, <1>4, <1>5 DEF JobsInvariant

LEMMA NoEnds ==
    ASSUME NEW j \in Jobs, journal' = journal
    PROVE  \A k \in Jobs, kind \in Ends : Reported(k, kind)' <=> Reported(k, kind)
BY DEF Reported

LEMMA OtherEvent ==
    ASSUME TableShape, NEW j \in Jobs, NEW kind, NEW i, AppendEvent(j, kind, i)
    PROVE  /\ journal' = [k \in Jobs |-> journal'[k]]
           /\ \A k \in Jobs, end \in Ends \ {kind} : Reported(k, end)' <=> Reported(k, end)
           /\ \A k \in Jobs \ {j}, end \in Ends : Reported(k, end)' <=> Reported(k, end)
BY DEF TableShape, AppendEvent, Reported

(* A write that fails.                                                         *)
LEMMA FaultKeeps ==
    ASSUME JobsInvariant, NEW j \in Jobs, Failing(j, "failed"), UNCHANGED tables,
           run[j].pc \notin {"idle", "report", "returned", "dead"}
    PROVE  JobsInvariant'
<1>1. StepTo(j, "failing") BY FailingSteps DEF JobsInvariant
<1>2. OnTheWay(j)
  BY <1>1, NoEnds DEF OnTheWay, tables, JobsInvariant, TableShape, Midway, Steps, AtRest
<1> QED BY <1>2, OnTheWayKeeps

(* A step on the way that leaves the tables alone, and one that adds an event. *)
Busy(j) == run[j].pc \notin {"idle", "report", "returned", "dead"}

LEMMA SilentKeeps ==
    ASSUME JobsInvariant, NEW j \in Jobs, Busy(j), NEW pc \in Midway, StepTo(j, pc),
           row' = row, journal' = journal
    PROVE  JobsInvariant'
<1>1. OnTheWay(j) BY NoEnds DEF OnTheWay, Busy, JobsInvariant, TableShape
<1> QED BY <1>1, OnTheWayKeeps

LEMMA EventKeeps ==
    ASSUME JobsInvariant, NEW j \in Jobs, Busy(j), NEW pc \in Midway, StepTo(j, pc),
           row' = row, NEW kind, kind \notin Ends, NEW i, AppendEvent(j, kind, i)
    PROVE  JobsInvariant'
<1>1. OnTheWay(j) BY OtherEvent DEF OnTheWay, Busy, JobsInvariant
<1> QED BY <1>1, OnTheWayKeeps

(* The steps from the row of the job to its settlement.                        *)
LEMMA WayKeeps ==
    ASSUME JobsInvariant, NEW j \in Jobs,
           \/ RecordFindings(j) \/ ReportOnly(j) \/ ValidateFinding(j) \/ RequestFix(j)
           \/ ApplyFix(j) \/ ObserveFix(j) \/ RunVerification(j) \/ Retest(j) \/ Dispose(j) \/ Settle(j)
    PROVE  JobsInvariant'
<1> USE DEF tables, At, Midway, Steps, AtRest, Busy
<1>0. RunShape BY DEF JobsInvariant
<1>1. CASE RecordFindings(j)
  <2>1. CASE At(j, "record") /\ Goto(j, "announce") /\ UNCHANGED <<row, journal>>
    BY <2>1, <1>0, GotoSteps, SilentKeeps
  <2>2. CASE /\ At(j, "announce") /\ AppendEvent(j, "finding_observed", Current(j))
             /\ run' = [run EXCEPT ![j] =
                    Advanced(j, "record", IF run[j].kind = "active" THEN "validate" ELSE "reportOnly")]
             /\ UNCHANGED <<row, finding>>
    <3> DEFINE past == IF run[j].kind = "active" THEN "validate" ELSE "reportOnly"
               rec == Advanced(j, "record", past)
    <3>1. run' = [run EXCEPT ![j] = rec] BY <2>2
    <3>2. /\ {"pc", "failure"} \subseteq DOMAIN rec /\ rec.pc \in {"record", "validate", "reportOnly"}
          /\ rec.failure \in {"failed", "interrupted"}
      BY <1>0, AdvancedSteps
    <3> HIDE DEF rec
    <3>3. StepTo(j, rec.pc) BY <3>1, <3>2, <1>0, SetRun
    <3> QED BY <3>2, <3>3, <2>2, EventKeeps DEF Ends
  <2>3. CASE At(j, "record") /\ Failing(j, "failed") /\ UNCHANGED tables BY <2>3, FaultKeeps
  <2>4. CASE At(j, "announce") /\ Failing(j, "failed") /\ UNCHANGED tables BY <2>4, FaultKeeps
  <2> QED BY <1>1, <2>1, <2>2, <2>3, <2>4 DEF RecordFindings, Write
<1>2. CASE ReportOnly(j)
  <2> DEFINE rec == [Advanced(j, "reportOnly", "settle") EXCEPT !.disposition[run[j].at] = "report_only"]
  <2>1. CASE run' = [run EXCEPT ![j] = rec] /\ UNCHANGED <<row, journal>>
    <3>1. /\ {"pc", "failure"} \subseteq DOMAIN rec /\ rec.pc \in {"reportOnly", "settle"}
          /\ rec.failure \in {"failed", "interrupted"}
      BY <1>0, AdvancedSteps
    <3> HIDE DEF rec
    <3>2. StepTo(j, rec.pc) BY <2>1, <3>1, <1>0, SetRun
    <3> QED BY <3>1, <3>2, <2>1, <1>2, SilentKeeps DEF ReportOnly
  <2>2. CASE Failing(j, "failed") /\ UNCHANGED tables BY <1>2, <2>2, FaultKeeps DEF ReportOnly
  <2> QED BY <1>2, <2>1, <2>2 DEF ReportOnly, Write
<1>3. CASE ValidateFinding(j)
  <2>1. CASE Decide(j, "unresolved") /\ UNCHANGED tables
    BY <2>1, <1>0, <1>3, DecideSteps, SilentKeeps DEF ValidateFinding
  <2>2. CASE /\ AppendEvent(j, "finding_validated", Current(j)) /\ UNCHANGED <<row, finding>>
             /\ Decide(j, "unresolved") \/ Goto(j, "fix")
    <3>1. StepTo(j, "dispose") \/ StepTo(j, "fix") BY <2>2, <1>0, DecideSteps, GotoSteps
    <3> QED BY <3>1, <2>2, <1>3, EventKeeps DEF ValidateFinding, Ends
  <2>3. CASE Failing(j, "failed") /\ UNCHANGED tables BY <1>3, <2>3, FaultKeeps DEF ValidateFinding
  <2> QED BY <1>3, <2>1, <2>2, <2>3 DEF ValidateFinding, Write
<1>4. CASE RequestFix(j)
  <2>1. CASE AppendEvent(j, "fix_requested", Current(j)) /\ Goto(j, "apply") /\ UNCHANGED <<row, finding>>
    BY <2>1, <1>0, <1>4, GotoSteps, EventKeeps DEF RequestFix, Ends
  <2>2. CASE Failing(j, "failed") /\ UNCHANGED tables BY <1>4, <2>2, FaultKeeps DEF RequestFix
  <2> QED BY <1>4, <2>1, <2>2 DEF RequestFix, Write
<1>5. CASE ApplyFix(j)
  <2>1. CASE Decide(j, "unresolved") /\ UNCHANGED tables
    BY <2>1, <1>0, <1>5, DecideSteps, SilentKeeps DEF ApplyFix
  <2>2. CASE AppendEvent(j, "fix_applied", Current(j)) /\ Goto(j, "observe") /\ UNCHANGED <<row, finding>>
    BY <2>2, <1>0, <1>5, GotoSteps, EventKeeps DEF ApplyFix, Ends
  <2>3. CASE Failing(j, "failed") /\ UNCHANGED tables BY <1>5, <2>3, FaultKeeps DEF ApplyFix
  <2> QED BY <1>5, <2>1, <2>2, <2>3 DEF ApplyFix, Write
<1>6. CASE ObserveFix(j)
  <2>1. StepTo(j, "verify") \/ StepTo(j, "dispose")
    BY <1>0, <1>6, GotoSteps, DecideSteps DEF ObserveFix
  <2> QED BY <2>1, <1>6, SilentKeeps DEF ObserveFix
<1>7. CASE RunVerification(j)
  <2>1. CASE Decide(j, "unresolved") /\ UNCHANGED tables
    BY <2>1, <1>0, <1>7, DecideSteps, SilentKeeps DEF RunVerification
  <2>2. CASE AppendEvent(j, "verified", Current(j)) /\ Goto(j, "retest") /\ UNCHANGED <<row, finding>>
    BY <2>2, <1>0, <1>7, GotoSteps, EventKeeps DEF RunVerification, Ends
  <2>3. CASE Failing(j, "failed") /\ UNCHANGED tables BY <1>7, <2>3, FaultKeeps DEF RunVerification
  <2> QED BY <1>7, <2>1, <2>2, <2>3 DEF RunVerification, Write
<1>8. CASE Retest(j)
  <2>1. /\ run[j].pc \in {"retest", "rescan"} /\ UNCHANGED tables
        /\ (\E d : Decide(j, d)) \/ Goto(j, "rescan") \/ Failing(j, "failed")
    BY <1>8 DEF Retest, RecordArtifact, Write
  <2>2. StepTo(j, "dispose") \/ StepTo(j, "rescan") \/ StepTo(j, "failing")
    BY <2>1, <1>0, DecideSteps, GotoSteps, FailingSteps
  <2> QED BY <2>1, <2>2, SilentKeeps
<1>9. CASE Dispose(j)
  <2> DEFINE rec == Advanced(j, "validate", "settle")
  <2>1. CASE run' = [run EXCEPT ![j] = rec] /\ UNCHANGED <<row, journal>>
    <3>1. /\ {"pc", "failure"} \subseteq DOMAIN rec /\ rec.pc \in {"validate", "settle"}
          /\ rec.failure \in {"failed", "interrupted"}
      BY <1>0, AdvancedSteps
    <3> HIDE DEF rec
    <3>2. StepTo(j, rec.pc) BY <2>1, <3>1, <1>0, SetRun
    <3> QED BY <3>1, <3>2, <2>1, <1>9, SilentKeeps DEF Dispose
  <2>2. CASE Failing(j, "failed") /\ UNCHANGED tables BY <1>9, <2>2, FaultKeeps DEF Dispose
  <2> QED BY <1>9, <2>1, <2>2 DEF Dispose, Write
<1>10. CASE Settle(j)
  <2>1. StepTo(j, "evidence") \/ StepTo(j, "findings") BY <1>0, <1>10, GotoSteps DEF Settle
  <2> QED BY <2>1, <1>10, SilentKeeps DEF Settle
<1> QED BY <1>1, <1>2, <1>3, <1>4, <1>5, <1>6, <1>7, <1>8, <1>9, <1>10
LEMMA PrepareKeeps ==
    ASSUME JobsInvariant, NEW j \in Jobs, Prepare(j) PROVE JobsInvariant'
<1> DEFINE before == IF run[j].kind # "url" THEN <<"snapshot_created">> ELSE <<>>
           events == <<"pentest_started">> \o before \o <<"strix_started">>
<1>0. RunShape BY DEF JobsInvariant
<1>1. /\ Len(events) \in {2, 3}
      /\ \A k \in 1..Len(events) : events[k] \notin Ends
  <2>1. CASE run[j].kind # "url" BY <2>1 DEF Ends
  <2>2. CASE run[j].kind = "url" BY <2>2 DEF Ends
  <2> QED BY <2>1, <2>2
<1>2. /\ run[j].pc = "started" /\ row' = row
      /\ Goto(j, "scan") \/ Failing(j, "failed")
      /\ \E n \in 1..Len(events) :
            journal' = [journal EXCEPT ![j] = {<<events[k], NoId>> : k \in 1..n}]
  <2>1. run[j].pc = "started" /\ row' = row BY DEF Prepare, At
  <2>2. \/ /\ Goto(j, "scan")
           /\ journal' = [journal EXCEPT ![j] = {<<events[k], NoId>> : k \in 1..Len(events)}]
        \/ /\ Failing(j, "failed")
           /\ \E n \in 1..(Len(events) - 1) :
                 journal' = [journal EXCEPT ![j] = {<<events[k], NoId>> : k \in 1..n}]
    BY Zenon DEF Prepare
  <2> HIDE DEF events
  <2>3. Len(events) \in 1..Len(events) /\ \A n \in 1..(Len(events) - 1) : n \in 1..Len(events)
    BY <1>1
  <2> QED BY <2>1, <2>2, <2>3, Zenon
<1> HIDE DEF events
<1>3. PICK n \in 1..Len(events) :
        journal' = [journal EXCEPT ![j] = {<<events[k], NoId>> : k \in 1..n}]
  BY <1>2
<1>4. \A k \in Jobs \ {j} : journal'[k] = journal[k]
  BY <1>3 DEF JobsInvariant, TableShape
<1>5. \A end \in Ends : ~Reported(j, end)'
  BY <1>1, <1>3 DEF JobsInvariant, TableShape, Reported
<1>6. StepTo(j, "scan") \/ StepTo(j, "failing") BY <1>0, <1>2, GotoSteps, FailingSteps
<1>7. OnTheWay(j)
  BY <1>2, <1>3, <1>4, <1>5, <1>6
  DEF OnTheWay, JobsInvariant, TableShape, Reported, Midway, Steps, AtRest
<1> QED BY <1>7, OnTheWayKeeps

LEMMA ScanKeeps ==
    ASSUME JobsInvariant, NEW j \in Jobs, Scan(j) PROVE JobsInvariant'
<1>0. RunShape BY DEF JobsInvariant
<1>1. run[j].pc = "scan" /\ row' = row /\ journal' = journal
  BY DEF Scan, At, RecordArtifact, Write, tables
<1>2. PICK result \in RunStrix :
        \/ run' = [run EXCEPT ![j].ids = NormalizeFindings(result.raw),
                              ![j].disposition = [k \in 1..Len(result.raw) |-> ""],
                              ![j].pc = IF result.raw = <<>> THEN "evidence" ELSE "record"]
        \/ Failing(j, "failed") \/ Failing(j, "interrupted")
  BY DEF Scan, RecordArtifact, Write
<1>3. \E pc \in {"evidence", "record", "failing"} : StepTo(j, pc)
  <2>1. CASE run' = [run EXCEPT ![j].ids = NormalizeFindings(result.raw),
                                ![j].disposition = [k \in 1..Len(result.raw) |-> ""],
                                ![j].pc = IF result.raw = <<>> THEN "evidence" ELSE "record"]
    <3> DEFINE rec == [run[j] EXCEPT !.ids = NormalizeFindings(result.raw),
                          !.disposition = [k \in 1..Len(result.raw) |-> ""],
                          !.pc = IF result.raw = <<>> THEN "evidence" ELSE "record"]
    <3>1. run' = [run EXCEPT ![j] = rec] BY <2>1
    <3>2. /\ {"pc", "failure"} \subseteq DOMAIN rec /\ rec.pc \in {"evidence", "record"}
          /\ rec.failure \in {"failed", "interrupted"}
      BY <1>0 DEF RunShape
    <3> HIDE DEF rec
    <3> QED BY <3>1, <3>2, <1>0, SetRun
  <2>2. CASE Failing(j, "failed") \/ Failing(j, "interrupted") BY <2>2, <1>0, FailingSteps
  <2> QED BY <1>2, <2>1, <2>2
<1> QED BY <1>1, <1>3, SilentKeeps DEF Midway, Steps, AtRest, Busy
-------------------------------------------------------------------------------
(* A step of j that changes nothing of the other jobs.                         *)
LEMMA OneJobKeeps ==
    ASSUME JobsInvariant, NEW j \in Jobs, RunShape', TableShape', JobFits(j)',
           \A k \in Jobs \ {j} : /\ run'[k] = run[k] /\ row'[k] = row[k]
                                 /\ \A end \in Ends : Reported(k, end)' <=> Reported(k, end)
    PROVE  JobsInvariant'
<1>1. ASSUME NEW k \in Jobs \ {j} PROVE JobFits(k)'
  <2>1. run'[k] = run[k] /\ row'[k] = row[k] OBVIOUS
  <2>2. \A end \in Ends : Reported(k, end)' <=> Reported(k, end) OBVIOUS
  <2>3. JobFits(k) BY DEF JobsInvariant
  <2> QED BY <2>1, <2>2, <2>3 DEF JobFits, Failed, Ends
<1> QED BY <1>1 DEF JobsInvariant

(* The row of a job is written.                                                *)
LEMMA SetRow ==
    ASSUME TableShape, NEW j \in Jobs, journal' = journal,
           NEW w \in [status : Status, evidence : BOOLEAN], row' = [row EXCEPT ![j] = w]
    PROVE  /\ TableShape' /\ row'[j] = w
           /\ \A k \in Jobs \ {j} : row'[k] = row[k]
           /\ \A k \in Jobs, end \in Ends : Reported(k, end)' <=> Reported(k, end)
BY DEF TableShape, Reported

LEMMA SetStatusWrites ==
    ASSUME TableShape, NEW j \in Jobs, journal' = journal,
           NEW status \in Status, row' = [row EXCEPT ![j].status = status]
    PROVE  /\ TableShape' /\ row'[j].status = status /\ row'[j].evidence = row[j].evidence
           /\ \A k \in Jobs \ {j} : row'[k] = row[k]
           /\ \A k \in Jobs, end \in Ends : Reported(k, end)' <=> Reported(k, end)
<1> DEFINE w == [row[j] EXCEPT !.status = status]
<1>1. /\ w \in [status : Status, evidence : BOOLEAN]
      /\ w.status = status /\ w.evidence = row[j].evidence
  BY DEF TableShape
<1>2. row' = [row EXCEPT ![j] = w] OBVIOUS
<1> HIDE DEF w
<1> QED BY <1>1, <1>2, SetRow

LEMMA SetEvidenceWrites ==
    ASSUME TableShape, NEW j \in Jobs, journal' = journal, SetEvidence(j)
    PROVE  /\ TableShape' /\ row'[j].status = row[j].status /\ row'[j].evidence = TRUE
           /\ \A k \in Jobs \ {j} : row'[k] = row[k]
           /\ \A k \in Jobs, end \in Ends : Reported(k, end)' <=> Reported(k, end)
<1> DEFINE w == [row[j] EXCEPT !.evidence = TRUE]
<1>1. /\ w \in [status : Status, evidence : BOOLEAN]
      /\ w.status = row[j].status /\ w.evidence = TRUE
  BY DEF TableShape
<1>2. row' = [row EXCEPT ![j] = w] BY DEF SetEvidence
<1> HIDE DEF w
<1> QED BY <1>1, <1>2, SetRow

(* A write of the row on the way to the end of the job.                        *)
LEMMA StatusKeeps ==
    ASSUME JobsInvariant, NEW j \in Jobs, Busy(j),
           NEW status \in {"findings", "completed"}, NEW next, WriteStatus(j, status, next),
           next = (IF status = "findings" THEN "findingsEvidence" ELSE "completedEvent"),
           status = "completed" => row[j].evidence = TRUE
    PROVE  JobsInvariant'
<1> USE DEF JobsInvariant
<1>1. CASE SetStatus(j, status) /\ Goto(j, next) /\ UNCHANGED <<finding, journal>>
  <2>1. /\ TableShape' /\ row'[j].status = status /\ row'[j].evidence = row[j].evidence
        /\ \A k \in Jobs \ {j} : row'[k] = row[k]
        /\ \A k \in Jobs, end \in Ends : Reported(k, end)' <=> Reported(k, end)
    BY <1>1, SetStatusWrites DEF SetStatus, Status
  <2>2. StepTo(j, next) BY <1>1, GotoSteps
  <2>3. ~Reported(j, "pentest_completed") /\ ~Failed(j) BY DEF JobFits, Busy
  <2>4. JobFits(j)' BY <2>1, <2>2, <2>3 DEF JobFits, Failed, Ends, StepTo
  <2> QED BY <2>1, <2>2, <2>4, OneJobKeeps DEF StepTo
<1>2. CASE Failing(j, "failed") /\ UNCHANGED tables BY <1>2, FaultKeeps DEF Busy
<1> QED BY <1>1, <1>2 DEF WriteStatus, Write

LEMMA EvidenceKeeps ==
    ASSUME JobsInvariant, NEW j \in Jobs, Busy(j), SetEvidence(j), UNCHANGED <<finding, journal>>,
           \/ run[j].pc = "findingsEvidence" /\ Goto(j, "findingsEvent")
           \/ run[j].pc = "evidence" /\ Goto(j, "complete")
    PROVE  JobsInvariant'
<1> USE DEF JobsInvariant
<1>1. /\ TableShape' /\ row'[j].status = row[j].status /\ row'[j].evidence = TRUE
      /\ \A k \in Jobs \ {j} : row'[k] = row[k]
      /\ \A k \in Jobs, end \in Ends : Reported(k, end)' <=> Reported(k, end)
  BY SetEvidenceWrites
<1>2. PICK pc \in {"findingsEvent", "complete"} :
        StepTo(j, pc) /\ (pc = "findingsEvent" => run[j].pc = "findingsEvidence")
  BY GotoSteps
<1>3. ~Reported(j, "pentest_completed") /\ ~Failed(j) BY DEF JobFits, Busy
<1>4. JobFits(j)' BY <1>1, <1>2, <1>3 DEF JobFits, Failed, Ends, StepTo
<1> QED BY <1>1, <1>2, <1>4, OneJobKeeps DEF StepTo

(* The event that says the job is completed.                                   *)
LEMMA CompletedKeeps ==
    ASSUME JobsInvariant, NEW j \in Jobs, run[j].pc \in {"findingsEvent", "completedEvent"},
           AppendEvent(j, "pentest_completed", NoId), Goto(j, "report"), UNCHANGED <<row, finding>>
    PROVE  JobsInvariant'
<1> USE DEF JobsInvariant
<1>1. /\ TableShape'
      /\ \A end \in Ends \ {"pentest_completed"} : Reported(j, end)' <=> Reported(j, end)
      /\ \A k \in Jobs \ {j}, end \in Ends : Reported(k, end)' <=> Reported(k, end)
  BY OtherEvent DEF TableShape
<1>2. StepTo(j, "report") BY GotoSteps
<1>3. ~Failed(j) BY DEF JobFits
<1>4. JobFits(j)' BY <1>1, <1>2, <1>3 DEF JobFits, Failed, Ends, StepTo
<1> QED BY <1>1, <1>2, <1>4, OneJobKeeps DEF StepTo

LEMMA EndKeeps ==
    ASSUME JobsInvariant, NEW j \in Jobs, SettleFindings(j) \/ Complete(j) PROVE JobsInvariant'
<1> USE DEF At, Busy
<1>1. CASE SettleFindings(j)
  <2>1. CASE At(j, "findings") /\ WriteStatus(j, "findings", "findingsEvidence")
    BY <2>1, StatusKeeps
  <2>2. CASE run[j].pc \in {"findingsEvidence", "findingsEvent"} /\ Failing(j, "failed") /\ UNCHANGED tables
    BY <2>2, FaultKeeps
  <2>3. CASE /\ run[j].pc = "findingsEvidence" /\ SetEvidence(j)
             /\ Goto(j, "findingsEvent") /\ UNCHANGED <<finding, journal>>
    BY <2>3, EvidenceKeeps
  <2>4. CASE /\ run[j].pc = "findingsEvent" /\ AppendEvent(j, "pentest_completed", NoId)
             /\ Goto(j, "report") /\ UNCHANGED <<row, finding>>
    BY <2>4, CompletedKeeps
  <2> QED BY <1>1, <2>1, <2>2, <2>3, <2>4 DEF SettleFindings, Write
<1>2. CASE Complete(j)
  <2>1. CASE At(j, "complete") /\ WriteStatus(j, "completed", "completedEvent")
    <3>1. row[j].evidence = TRUE BY <2>1 DEF JobsInvariant, JobFits
    <3> QED BY <2>1, <3>1, StatusKeeps
  <2>2. CASE run[j].pc \in {"evidence", "completedEvent"} /\ Failing(j, "failed") /\ UNCHANGED tables
    BY <2>2, FaultKeeps
  <2>3. CASE /\ run[j].pc = "evidence" /\ SetEvidence(j)
             /\ Goto(j, "complete") /\ UNCHANGED <<finding, journal>>
    BY <2>3, EvidenceKeeps
  <2>4. CASE /\ run[j].pc = "completedEvent" /\ AppendEvent(j, "pentest_completed", NoId)
             /\ Goto(j, "report") /\ UNCHANGED <<row, finding>>
    BY <2>4, CompletedKeeps
  <2> QED BY <1>2, <2>1, <2>2, <2>3, <2>4 DEF Complete, Write
<1> QED BY <1>1, <1>2
-------------------------------------------------------------------------------
LEMMA ExecuteKeeps ==
    ASSUME JobsInvariant, NEW j \in Jobs, NEW kind, NEW dirty, Execute(j, kind, dirty)
    PROVE  JobsInvariant'
<1> USE DEF JobsInvariant
<1> DEFINE rec == [IdleRun EXCEPT !.pc = "started", !.kind = kind,
                      !.before = IF kind = "active" THEN tree ELSE 0,
                      !.dirty = IF kind = "active" THEN dirty ELSE {}]
<1>1. run[j].pc = "idle" /\ journal' = journal /\ run' = [run EXCEPT ![j] = rec]
  BY DEF Execute, At
<1>2. /\ {"pc", "failure"} \subseteq DOMAIN rec /\ rec.pc = "started"
      /\ rec.failure \in {"failed", "interrupted"}
  BY DEF IdleRun
<1> HIDE DEF rec
<1>3. StepTo(j, "started") BY <1>1, <1>2, SetRun
<1>4. /\ TableShape' /\ \A k \in Jobs \ {j} : row'[k] = row[k]
      /\ \A k \in Jobs, end \in Ends : Reported(k, end)' <=> Reported(k, end)
  BY <1>1, SetStatusWrites DEF Execute, StartJob, Status
<1>5. JobFits(j)' BY <1>1, <1>3, <1>4 DEF JobFits, Failed, Ends, StepTo
<1> QED BY <1>3, <1>4, <1>5, OneJobKeeps DEF StepTo

LEMMA ReturnKeeps ==
    ASSUME JobsInvariant, NEW j \in Jobs, ReturnReport(j) \/ Fail(j) PROVE JobsInvariant'
<1> USE DEF JobsInvariant
<1>1. StepTo(j, "returned") BY RestSteps DEF ReturnReport, Fail, Return
<1>2. CASE ReturnReport(j)
  <2>1. /\ run[j].pc = "report" /\ row' = row /\ journal' = journal
    BY <1>2 DEF ReturnReport, At, tables
  <2>2. \A k \in Jobs, end \in Ends : Reported(k, end)' <=> Reported(k, end) BY <2>1, NoEnds
  <2>3. JobFits(j)' BY <1>1, <2>1, <2>2 DEF JobFits, Failed, Ends, StepTo
  <2>4. TableShape' BY <2>1 DEF TableShape
  <2> QED BY <1>1, <2>1, <2>2, <2>3, <2>4, OneJobKeeps DEF StepTo
<1>3. CASE Fail(j)
  <2>1. run[j].pc = "failing" /\ ~Reported(j, "pentest_completed") /\ run[j].failure \in Status
    BY <1>3 DEF Fail, At, JobFits, RunShape, Status
  <2>2. /\ row' \in [Jobs -> [status : Status, evidence : BOOLEAN]]
        /\ \A k \in Jobs \ {j} : row'[k] = row[k]
    <3>1. CASE row' = row BY <3>1 DEF TableShape
    <3>2. CASE row' = [row EXCEPT ![j].status = run[j].failure]
      <4> DEFINE w == [row[j] EXCEPT !.status = run[j].failure]
      <4>1. w \in [status : Status, evidence : BOOLEAN] BY <2>1 DEF TableShape
      <4>2. row' = [row EXCEPT ![j] = w] BY <3>2
      <4> HIDE DEF w
      <4> QED BY <4>1, <4>2 DEF TableShape
    <3> QED BY <1>3, <3>1, <3>2 DEF Fail
  <2>3. PICK kind \in {"pentest_failed", "pentest_interrupted"} :
          AppendEvent(j, kind, NoId) \/ journal' = journal
    BY <1>3 DEF Fail
  <2>4. /\ journal' = [k \in Jobs |-> journal'[k]]
        /\ ~Reported(j, "pentest_completed")'
        /\ \A k \in Jobs \ {j}, end \in Ends : Reported(k, end)' <=> Reported(k, end)
    <3>1. CASE journal' = journal BY <3>1, <2>1, NoEnds DEF TableShape, Ends
    <3>2. CASE AppendEvent(j, kind, NoId) BY <3>2, <2>1, OtherEvent DEF Ends
    <3> QED BY <2>3, <3>1, <3>2
  <2>5. JobFits(j)' BY <1>1, <2>4 DEF JobFits, StepTo
  <2>6. TableShape' BY <2>2, <2>4 DEF TableShape
  <2> QED BY <1>1, <2>2, <2>4, <2>5, <2>6, OneJobKeeps DEF StepTo
<1> QED BY <1>2, <1>3

LEMMA StopKeeps ==
    ASSUME JobsInvariant, NEW j \in Jobs, Stop(j) PROVE JobsInvariant'
<1> USE DEF JobsInvariant
<1>1. run' = run /\ journal' = journal /\ Stoppable(j) BY DEF Stop
<1>2. /\ TableShape' /\ row'[j].status = "stopped" /\ row'[j].evidence = row[j].evidence
      /\ \A k \in Jobs \ {j} : row'[k] = row[k]
      /\ \A k \in Jobs, end \in Ends : Reported(k, end)' <=> Reported(k, end)
  BY <1>1, SetStatusWrites DEF Stop, Status
<1>3. JobFits(j)' BY <1>1, <1>2 DEF JobFits, Failed, Ends, Stoppable
<1>4. RunShape' BY <1>1 DEF RunShape
<1> QED BY <1>1, <1>2, <1>3, <1>4, OneJobKeeps

LEMMA CrashKeeps ==
    ASSUME JobsInvariant, NEW j \in Jobs, Crash(j) PROVE JobsInvariant'
<1> USE DEF JobsInvariant
<1>1. run[j].pc \notin AtRest /\ row' = row /\ journal' = journal BY DEF Crash, tables
<1>2. StepTo(j, "dead") BY RestSteps DEF Crash
<1>3. \A k \in Jobs, end \in Ends : Reported(k, end)' <=> Reported(k, end) BY <1>1, NoEnds
<1>4. JobFits(j)' BY <1>1, <1>2, <1>3 DEF JobFits, Failed, Ends, StepTo, AtRest
<1>5. TableShape' BY <1>1 DEF TableShape
<1> QED BY <1>1, <1>2, <1>3, <1>4, <1>5, OneJobKeeps DEF StepTo

LEMMA JobsInit == Init => JobsInvariant
<1> SUFFICES ASSUME Init PROVE JobsInvariant OBVIOUS
<1>1. RunShape BY DEF Init, RunShape, IdleRun
<1>2. TableShape BY DEF Init, TableShape, Status
<1>3. \A j \in Jobs : JobFits(j) BY DEF Init, JobFits, IdleRun, Reported, Failed
<1> QED BY <1>1, <1>2, <1>3 DEF JobsInvariant

LEMMA JobsStep == JobsInvariant /\ [Next]_vars => JobsInvariant'
<1> SUFFICES ASSUME JobsInvariant, [Next]_vars PROVE JobsInvariant' OBVIOUS
<1>1. CASE UNCHANGED vars
  BY <1>1 DEF vars, JobsInvariant, RunShape, TableShape, JobFits, Reported, Failed
<1>2. ASSUME NEW j \in Jobs, NEW kind \in KindsOf[j], NEW dirty \in Changes, Execute(j, kind, dirty)
      PROVE  JobsInvariant'
  BY <1>2, ExecuteKeeps
<1>3. ASSUME NEW j \in Jobs, Step(j) PROVE JobsInvariant'
  BY <1>3, PrepareKeeps, ScanKeeps, WayKeeps, EndKeeps, ReturnKeeps DEF Step
<1>4. ASSUME NEW j \in Jobs, Stop(j) \/ Crash(j) PROVE JobsInvariant'
  BY <1>4, StopKeeps, CrashKeeps
<1> QED BY <1>1, <1>2, <1>3, <1>4 DEF Next, Terminated

(* However stops, crashes and failed writes fall between the steps of a job, a *)
(* journal that says it is completed is right: the row has the terminal        *)
(* evidence and a status that fits, and no failure is journalled (complete,    *)
(* fail, StopPentestJob).                                                      *)
THEOREM CompletedEventTruthfulHolds == Spec => []CompletedEventTruthful
<1>1. Spec => []JobsInvariant BY JobsInit, JobsStep, PTL DEF Spec
<1>2. JobsInvariant => CompletedEventTruthful
  BY DEF JobsInvariant, JobFits, Failed, CompletedEventTruthful
<1> QED BY <1>1, <1>2, PTL

-------------------------------------------------------------------------------
Terminal == {"completed", "failed", "stopped"}

(* A status that may be written keeps a terminal one.                          *)
LEMMA AllowedKeeps ==
    ASSUME TableShape, NEW j \in Jobs, NEW status, MayBecome(j, status),
           row' = [row EXCEPT ![j].status = status],
           NEW k \in Jobs, row[k].status \in Terminal
    PROVE  row'[k].status = row[k].status
<1>1. CASE k # j BY <1>1 DEF TableShape
<1>2. CASE k = j
  <2>1. status = row[k].status BY <1>2 DEF MayBecome, Allowed, Terminal
  <2> QED BY <1>2, <2>1 DEF TableShape
<1> QED BY <1>1, <1>2

LEMMA TerminalStep ==
    ASSUME JobsInvariant, [Next]_vars, NEW k \in Jobs, row[k].status \in Terminal
    PROVE  row'[k].status = row[k].status
<1> USE DEF JobsInvariant
<1>1. CASE row' = row BY <1>1
<1>2. ASSUME NEW j \in Jobs, NEW kind, NEW dirty, Execute(j, kind, dirty)
      PROVE  row'[k].status = row[k].status
  <2>1. k # j BY <1>2 DEF Execute, At, JobFits, Terminal
  <2> QED BY <1>2, <2>1 DEF Execute, StartJob, TableShape
<1>3. ASSUME NEW j \in Jobs, Stop(j) PROVE row'[k].status = row[k].status
  <2>1. k # j BY <1>3 DEF Stop, Stoppable, Terminal
  <2> QED BY <1>3, <2>1 DEF Stop, TableShape
<1>4. ASSUME NEW j \in Jobs, Fail(j) PROVE row'[k].status = row[k].status
  BY <1>1, <1>4, AllowedKeeps DEF Fail
<1>5. ASSUME NEW j \in Jobs, SettleFindings(j) \/ Complete(j) PROVE row'[k].status = row[k].status
  <2>1. \/ row' = row \/ SetEvidence(j)
        \/ \E status \in {"findings", "completed"} : MayBecome(j, status) /\ SetStatus(j, status)
    BY <1>5 DEF SettleFindings, Complete, WriteStatus, Write, tables
  <2>2. CASE SetEvidence(j) BY <2>2 DEF SetEvidence, TableShape
  <2> QED BY <1>1, <2>1, <2>2, AllowedKeeps DEF SetStatus
<1>6. ASSUME NEW j \in Jobs, Step(j), ~(SettleFindings(j) \/ Complete(j) \/ Fail(j))
      PROVE  row' = row
  BY <1>6 DEF Step, Prepare, Scan, RecordArtifact, RecordFindings, ReportOnly, ValidateFinding, RequestFix,
     ApplyFix, ObserveFix, RunVerification, Retest, Dispose, Settle, ReturnReport, Write, tables
<1>7. ASSUME NEW j \in Jobs, Crash(j) PROVE row' = row BY <1>7 DEF Crash, tables
<1> QED BY <1>1, <1>2, <1>3, <1>4, <1>5, <1>6, <1>7 DEF Next, Terminated, vars, Step

(* Neither a stop that comes late nor the process of a stopped job changes a   *)
(* job that is completed, failed or stopped (pentestStatusTransitionAllowed,   *)
(* StopPentestJob).                                                            *)
THEOREM TerminalKeptHolds == Spec => TerminalKept
<1>1. Spec => []JobsInvariant BY JobsInit, JobsStep, PTL DEF Spec
<1>2. JobsInvariant /\ [Next]_vars =>
        [\A j \in Jobs : row[j].status \in {"completed", "failed", "stopped"} =>
              row'[j].status = row[j].status]_vars
  BY TerminalStep DEF Terminal
<1> QED BY <1>1, <1>2, PTL DEF Spec, TerminalKept
-------------------------------------------------------------------------------
(* The least-number principle, by which the recursive definition is reasoned   *)
(* about.                                                                      *)
LEMMA LeastNumber ==
    ASSUME NEW T, T \subseteq Nat, T # {}
    PROVE  \E n \in T : \A m \in T : n <= m
<1> DEFINE R == OpToRel(<, Nat)
<1>1. IsWellFoundedOn(R, Nat) BY NatLessThanWellFounded
<1>2. \A m, n \in Nat : m < n => <<m, n>> \in R BY DEF OpToRel
<1> HIDE DEF R
<1>3. PICK n \in T : \A m \in T : ~(<<m, n>> \in R)
  BY <1>1, WFMin
<1>4. ASSUME NEW m \in T PROVE n <= m
  <2>1. m \in Nat /\ n \in Nat OBVIOUS
  <2>2. ~ (m < n) BY <2>1, <1>2, <1>3
  <2> QED BY <2>1, <2>2
<1> QED BY <1>4

(* One step of normalizeFindings. *)
GivenNext(raw, given, n) ==
    LET taken == {given[k] : k \in 1..(n-1)}
        name  == NameAt(raw, n) IN
    Append(given, IF name \in taken THEN <<name, n>> ELSE name)

NamesUpTo(raw, x, h) == h = [n \in 0..x |-> IF n = 0 THEN <<>> ELSE GivenNext(raw, h[n-1], n)]

LEMMA NamesExist ==
    ASSUME NEW raw, NEW x \in Nat
    PROVE  \E h : NamesUpTo(raw, x, h)
<1> DEFINE T == {y \in Nat : ~\E h : NamesUpTo(raw, y, h)}
<1> SUFFICES ASSUME T # {} PROVE FALSE OBVIOUS
<1>1. T \subseteq Nat /\ \A y \in T : ~\E h : NamesUpTo(raw, y, h) OBVIOUS
<1>2. \A y \in Nat \ T : \E h : NamesUpTo(raw, y, h) OBVIOUS
<1> HIDE DEF T
<1>3. PICK y \in T : \A m \in T : y <= m BY <1>1, LeastNumber
<1>4. y \in Nat BY <1>1
<1>5. y # 0
  <2> DEFINE g == [n \in 0..0 |-> <<>>]
  <2>1. g = [n \in 0..0 |-> IF n = 0 THEN <<>> ELSE GivenNext(raw, g[n-1], n)] OBVIOUS
  <2> HIDE DEF g
  <2>2. NamesUpTo(raw, 0, g) BY <2>1 DEF NamesUpTo
  <2> QED BY <2>2, <1>1
<1>6. y - 1 \in Nat /\ y - 1 \notin T BY <1>3, <1>4, <1>5
<1>7. PICK h : NamesUpTo(raw, y - 1, h) BY <1>2, <1>6
<1> DEFINE g == [n \in 0..y |-> IF n = y THEN GivenNext(raw, h[y-1], y) ELSE h[n]]
<1>8. \A n \in 0..y : g[n] = IF n = 0 THEN <<>> ELSE GivenNext(raw, g[n-1], n)
  <2> TAKE n \in 0..y
  <2>1. CASE n = y BY <2>1, <1>4, <1>5
  <2>2. CASE n # y
    <3>1. n \in 0..(y-1) /\ (n # 0 => n - 1 \in 0..(y-1)) BY <2>2, <1>4
    <3>2. h[n] = IF n = 0 THEN <<>> ELSE GivenNext(raw, h[n-1], n) BY <3>1, <1>7 DEF NamesUpTo
    <3> QED BY <3>1, <3>2, <2>2, <1>4
  <2> QED BY <2>1, <2>2
<1>9. g = [n \in 0..y |-> IF n = 0 THEN <<>> ELSE GivenNext(raw, g[n-1], n)]
  <2>1. g = [n \in 0..y |-> g[n]] OBVIOUS
  <2> HIDE DEF g
  <2> QED BY <2>1, <1>8
<1> HIDE DEF g
<1> QED BY <1>9, <1>3, <1>1 DEF NamesUpTo

LEMMA NormalizeIs ==
    ASSUME NEW raw, Len(raw) \in Nat
    PROVE  \E h : NamesUpTo(raw, Len(raw), h) /\ NormalizeFindings(raw) = h[Len(raw)]
<1> DEFINE h == CHOOSE g : NamesUpTo(raw, Len(raw), g)
<1>1. NamesUpTo(raw, Len(raw), h) BY NamesExist
<1>2. NormalizeFindings(raw) = h[Len(raw)] BY DEF NormalizeFindings, NamesUpTo, GivenNext
<1> QED BY <1>1, <1>2

(* No id of the scanner looks like a name that has its position added to it.   *)
PlainIds == \A name \in Names, n \in 1..MaxFindings : <<name, n>> \notin RawIds

Distinct(s) == \A k, m \in 1..Len(s) : s[k] = s[m] => k = m

(* What a list of names is after n steps.                                      *)
WellNamed(raw, s, n) ==
    /\ s \in Seq(Ids) /\ Len(s) = n
    /\ \A k \in 1..n : s[k] \in {NameAt(raw, k), <<NameAt(raw, k), k>>}
    /\ PlainIds => Distinct(s)

LEMMA NameAtIn ==
    ASSUME NEW raw \in Reports, NEW n \in 1..Len(raw)
    PROVE  /\ NameAt(raw, n) \in Names /\ n \in 1..MaxFindings
           /\ NameAt(raw, n) \in RawIds \/ NameAt(raw, n) = <<NoId, n>>
<1>1. raw \in Seq(RawIds \cup {NoId}) /\ Len(raw) <= MaxFindings /\ MaxFindings \in Nat
  BY PentestConstants
<1>2. n \in 1..MaxFindings /\ raw[n] \in RawIds \cup {NoId} BY <1>1
<1> QED BY <1>2 DEF NameAt, Names

LEMMA GivenNextNames ==
    ASSUME NEW raw \in Reports, NEW n \in 1..Len(raw), NEW s, WellNamed(raw, s, n - 1)
    PROVE  WellNamed(raw, GivenNext(raw, s, n), n)
<1> DEFINE taken == {s[k] : k \in 1..(n-1)}
           new == IF NameAt(raw, n) \in taken THEN <<NameAt(raw, n), n>> ELSE NameAt(raw, n)
           t == Append(s, new)
<1>0. /\ n \in Nat /\ n - 1 \in Nat /\ s \in Seq(Ids) /\ Len(s) = n - 1
      /\ \A k \in 1..(n-1) : s[k] \in {NameAt(raw, k), <<NameAt(raw, k), k>>}
      /\ PlainIds => Distinct(s)
      /\ Len(raw) \in Nat
  BY PentestConstants DEF WellNamed
<1>1. GivenNext(raw, s, n) = t BY DEF GivenNext
<1>2. new \in Ids BY NameAtIn DEF Ids
<1>3. ASSUME PlainIds PROVE \A k \in 1..(n-1) : s[k] # new
  <2>1. CASE NameAt(raw, n) \notin taken BY <2>1
  <2>2. CASE NameAt(raw, n) \in taken
    <3> SUFFICES ASSUME NEW k \in 1..(n-1), s[k] = <<NameAt(raw, n), n>> PROVE FALSE BY <2>2
    <3>1. k \in 1..Len(raw) /\ k # n BY <1>0
    <3>2. NameAt(raw, n) \in Names /\ n \in 1..MaxFindings BY NameAtIn
    <3>3. CASE s[k] = <<NameAt(raw, k), k>> BY <3>1, <3>3
    <3>4. CASE s[k] = NameAt(raw, k)
      <4>1. NameAt(raw, k) \in RawIds \/ NameAt(raw, k) = <<NoId, k>> BY <3>1, NameAtIn
      <4>2. CASE NameAt(raw, k) \in RawIds BY <4>2, <3>4, <3>2, <1>3 DEF PlainIds
      <4>3. CASE NameAt(raw, k) = <<NoId, k>> BY <4>3, <3>4, <3>1
      <4> QED BY <4>1, <4>2, <4>3
    <3> QED BY <3>3, <3>4, <1>0
  <2> QED BY <2>1, <2>2
<1>4. new \in {NameAt(raw, n), <<NameAt(raw, n), n>>} OBVIOUS
<1> HIDE DEF new
<1>5. t \in Seq(Ids) /\ Len(t) = n /\ t[n] = new /\ \A k \in 1..(n-1) : t[k] = s[k]
  BY <1>0, <1>2
<1> HIDE DEF t
<1>6. \A k \in 1..n : k = n \/ k \in 1..(n-1) BY <1>0
<1>7. ASSUME PlainIds PROVE Distinct(t)
  <2> SUFFICES ASSUME NEW k \in 1..n, NEW m \in 1..n, t[k] = t[m] PROVE k = m BY <1>5 DEF Distinct
  <2>1. CASE k = n \/ m = n BY <2>1, <1>3, <1>5, <1>6, <1>7
  <2>2. CASE k \in 1..(n-1) /\ m \in 1..(n-1) BY <2>2, <1>0, <1>5, <1>7 DEF Distinct
  <2> QED BY <2>1, <2>2, <1>6
<1>8. \A k \in 1..n : t[k] \in {NameAt(raw, k), <<NameAt(raw, k), k>>}
  BY <1>0, <1>4, <1>5, <1>6
<1> QED BY <1>1, <1>5, <1>7, <1>8 DEF WellNamed

(* normalizeFindings gives every finding of a report an id, and no two of them *)
(* the same one unless the scanner's ids look like names it gives.             *)
LEMMA NormalizeNames ==
    ASSUME NEW raw \in Reports PROVE WellNamed(raw, NormalizeFindings(raw), Len(raw))
<1>1. Len(raw) \in Nat BY PentestConstants
<1>2. PICK h : NamesUpTo(raw, Len(raw), h) /\ NormalizeFindings(raw) = h[Len(raw)]
  BY <1>1, NormalizeIs
<1> DEFINE T == {n \in 0..Len(raw) : ~WellNamed(raw, h[n], n)}
<1> SUFFICES ASSUME T # {} PROVE FALSE BY <1>1, <1>2
<1>3. T \subseteq Nat /\ \A n \in 0..Len(raw) : n \notin T <=> WellNamed(raw, h[n], n) BY <1>1
<1>4. T \subseteq 0..Len(raw) OBVIOUS
<1> HIDE DEF T
<1>5. PICK n \in T : \A m \in T : n <= m BY <1>3, LeastNumber
<1>6. n \in 0..Len(raw) /\ n \in Nat BY <1>3, <1>4
<1>7. CASE n = 0
  <2>1. h[0] = <<>> BY <1>1, <1>2 DEF NamesUpTo
  <2>2. WellNamed(raw, <<>>, 0) BY DEF WellNamed, Distinct
  <2> QED BY <2>1, <2>2, <1>3, <1>6, <1>7
<1>8. CASE n # 0
  <2>1. n \in 1..Len(raw) /\ n - 1 \in 0..Len(raw) BY <1>6, <1>8
  <2>2. n - 1 \notin T BY <1>3, <1>5, <1>6, <2>1
  <2>3. WellNamed(raw, h[n-1], n-1) BY <1>3, <2>1, <2>2
  <2>4. h[n] = GivenNext(raw, h[n-1], n) BY <1>2, <1>6, <1>8 DEF NamesUpTo
  <2> QED BY <1>3, <1>6, <2>1, <2>3, <2>4, GivenNextNames
<1> QED BY <1>7, <1>8

-------------------------------------------------------------------------------
Early == {"idle", "started", "scan"}
Recording == {"record", "announce"}
Remedy == {"validate", "fix", "apply", "observe", "verify", "retest", "rescan", "dispose"}
Placed == Recording \cup Remedy \cup {"reportOnly"}
Positions(j) == 1..Len(run[j].ids)

(* Where a process stands in the list of its findings.                         *)
PlaceFits(j) ==
    /\ run[j].pc \in Early => run[j].ids = <<>> /\ run[j].disposition = <<>> /\ run[j].at = 1
    /\ run[j].pc \notin {"returned", "dead"} => Len(run[j].disposition) = Len(run[j].ids)
    /\ run[j].pc \in Placed => run[j].at \in Positions(j)

ShapeInvariant == TypeOK /\ \A j \in Jobs : PlaceFits(j)

(* The process of j, and no other, goes on at pc with these findings.          *)
Moves(j, pc, ids, disposition, at) ==
    /\ run' \in [Jobs -> Run]
    /\ \A k \in Jobs \ {j} : run'[k] = run[k]
    /\ run'[j].pc = pc /\ run'[j].ids = ids /\ run'[j].disposition = disposition /\ run'[j].at = at

Went(j, pc) == Moves(j, pc, run[j].ids, run[j].disposition, run[j].at)

LEMMA SetMoves ==
    ASSUME TypeOK, NEW j \in Jobs, NEW rec \in Run, run' = [run EXCEPT ![j] = rec]
    PROVE  Moves(j, rec.pc, rec.ids, rec.disposition, rec.at)
BY DEF TypeOK, Moves

LEMMA GotoWent ==
    ASSUME TypeOK, NEW j \in Jobs, NEW pc \in Steps, Goto(j, pc) PROVE Went(j, pc)
<1> DEFINE rec == [run[j] EXCEPT !.pc = pc]
<1>1. run' = [run EXCEPT ![j] = rec] BY DEF Goto
<1>2. rec \in Run /\ rec.pc = pc /\ rec.ids = run[j].ids /\ rec.disposition = run[j].disposition
      /\ rec.at = run[j].at
  BY DEF TypeOK, Run
<1> HIDE DEF rec
<1> QED BY <1>1, <1>2, SetMoves DEF Went

LEMMA FailingWent ==
    ASSUME TypeOK, NEW j \in Jobs, NEW status \in {"failed", "interrupted"}, Failing(j, status)
    PROVE  Went(j, "failing")
<1> DEFINE rec == [run[j] EXCEPT !.pc = "failing", !.failure = status]
<1>1. run' = [run EXCEPT ![j] = rec] BY DEF Failing
<1>2. rec \in Run /\ rec.pc = "failing" /\ rec.ids = run[j].ids
      /\ rec.disposition = run[j].disposition /\ rec.at = run[j].at
  BY ZenonT(40) DEF TypeOK, Run, Steps
<1> HIDE DEF rec
<1> QED BY <1>1, <1>2, SetMoves DEF Went

LEMMA SetDisposition ==
    ASSUME NEW s \in Seq(Dispositions), NEW at \in 1..Len(s), NEW d \in Dispositions
    PROVE  /\ [s EXCEPT ![at] = d] \in Seq(Dispositions)
           /\ Len([s EXCEPT ![at] = d]) = Len(s) /\ [s EXCEPT ![at] = d][at] = d
           /\ \A k \in 1..Len(s) : k # at => [s EXCEPT ![at] = d][k] = s[k]
OBVIOUS

LEMMA DecideMoves ==
    ASSUME ShapeInvariant, NEW j \in Jobs, run[j].pc \in Placed, NEW d \in Dispositions, Decide(j, d)
    PROVE  Moves(j, "dispose", run[j].ids, [run[j].disposition EXCEPT ![run[j].at] = d], run[j].at)
<1> DEFINE rec == [run[j] EXCEPT !.pc = "dispose", !.disposition[run[j].at] = d]
<1>1. run' = [run EXCEPT ![j] = rec] BY DEF Decide
<1>2. run[j] \in Run /\ run[j].at \in 1..Len(run[j].disposition)
  BY DEF ShapeInvariant, TypeOK, PlaceFits, Placed, Recording, Remedy, Positions
<1>3. [run[j].disposition EXCEPT ![run[j].at] = d] \in Seq(Dispositions)
  <2>1. run[j].disposition \in Seq(Dispositions) BY <1>2 DEF Run
  <2> QED BY <2>1, <1>2, SetDisposition
<1>4. rec \in Run /\ rec.pc = "dispose" /\ rec.ids = run[j].ids
      /\ rec.disposition = [run[j].disposition EXCEPT ![run[j].at] = d] /\ rec.at = run[j].at
  BY <1>2, <1>3 DEF Run, Steps
<1> HIDE DEF rec
<1>5. TypeOK BY DEF ShapeInvariant
<1> QED BY <1>1, <1>4, <1>5, SetMoves

LEMMA AdvancedIs ==
    ASSUME TypeOK, NEW j \in Jobs, NEW again \in Steps, NEW past \in Steps
    PROVE  /\ Advanced(j, again, past) \in Run
           /\ Advanced(j, again, past).ids = run[j].ids
           /\ Advanced(j, again, past).disposition = run[j].disposition
           /\ run[j].at = Len(run[j].ids) =>
                 Advanced(j, again, past).at = 1 /\ Advanced(j, again, past).pc = past
           /\ run[j].at # Len(run[j].ids) =>
                 Advanced(j, again, past).at = run[j].at + 1 /\ Advanced(j, again, past).pc = again
<1> DEFINE first == [run[j] EXCEPT !.at = 1, !.pc = past]
           next == [run[j] EXCEPT !.at = @ + 1, !.pc = again]
<1>1. run[j] \in Run BY DEF TypeOK
<1>2. first \in Run /\ first.ids = run[j].ids /\ first.disposition = run[j].disposition
      /\ first.at = 1 /\ first.pc = past
  BY <1>1 DEF Run
<1>3. next \in Run /\ next.ids = run[j].ids /\ next.disposition = run[j].disposition
      /\ next.at = run[j].at + 1 /\ next.pc = again
  <2>1. run[j].at \in Nat /\ run[j].at + 1 \in Nat BY <1>1 DEF Run
  <2>2. next = [run[j] EXCEPT !.at = run[j].at + 1, !.pc = again] OBVIOUS
  <2> QED BY <1>1, <2>1, <2>2 DEF Run
<1>4. Advanced(j, again, past) = IF run[j].at = Len(run[j].ids) THEN first ELSE next
  BY DEF Advanced
<1> HIDE DEF first, next
<1> QED BY <1>2, <1>3, <1>4

LEMMA IdleRunIs ==
    /\ IdleRun \in Run /\ IdleRun.ids = <<>> /\ IdleRun.disposition = <<>> /\ IdleRun.at = 1
    /\ IdleRun.pc = "idle"
<1>1. /\ <<>> \in Seq(Ids) /\ <<>> \in Seq(Dispositions) /\ 0 \in Nat /\ 1 \in Nat
      /\ {} \in SUBSET (Strong \cup Weak) /\ "idle" \in Steps
  BY DEF Steps
<1> QED BY <1>1 DEF IdleRun, Run, Kinds

LEMMA RestMoves ==
    ASSUME TypeOK, NEW j \in Jobs, NEW pc \in {"returned", "dead"},
           run' = [run EXCEPT ![j] = [IdleRun EXCEPT !.pc = pc, !.ids = run[j].ids]]
    PROVE  Moves(j, pc, run[j].ids, <<>>, 1)
<1> DEFINE rec == [IdleRun EXCEPT !.pc = pc, !.ids = run[j].ids]
<1>1. rec \in Run /\ rec.pc = pc /\ rec.ids = run[j].ids /\ rec.disposition = <<>> /\ rec.at = 1
  <2>1. pc \in Steps /\ run[j].ids \in Seq(Ids) BY DEF TypeOK, Run, Steps
  <2> QED BY <2>1, IdleRunIs DEF Run
<1>2. run' = [run EXCEPT ![j] = rec] OBVIOUS
<1> HIDE DEF rec
<1> QED BY <1>1, <1>2, SetMoves

LEMMA AppendNotes ==
    ASSUME TypeOK, NEW j \in Jobs, NEW kind, NEW i, AppendEvent(j, kind, i)
    PROVE  /\ \A k \in Jobs \ {j} : journal'[k] = journal[k]
           /\ journal'[j] = journal[j] \cup {<<kind, i>>}
           /\ <<kind, i>> \in Events => journal' \in [Jobs -> SUBSET Events]
BY DEF TypeOK, AppendEvent

LEMMA RecordWrites ==
    ASSUME TypeOK, NEW j \in Jobs, NEW i \in Ids, NEW d \in Dispositions, RecordFinding(j, i, d)
    PROVE  /\ finding' \in [Ids -> [job : Jobs \cup {NoId}, disposition : Dispositions]]
           /\ finding'[i].job = j /\ finding'[i].disposition = d
           /\ \A n \in Ids : n # i => finding'[n] = finding[n]
BY DEF TypeOK, RecordFinding

-------------------------------------------------------------------------------
(* The process of j, and no other, goes on and stands where it should.         *)
Stands(j) ==
    /\ run' \in [Jobs -> Run] /\ PlaceFits(j)'
    /\ \A k \in Jobs \ {j} : run'[k] = run[k]

LEMMA WentStands ==
    ASSUME ShapeInvariant, NEW j \in Jobs, NEW pc, Went(j, pc), pc \notin Early,
           run[j].pc \notin {"returned", "dead"}, pc \in Placed => run[j].pc \in Placed
    PROVE  Stands(j)
BY DEF ShapeInvariant, PlaceFits, Positions, Went, Moves, Stands

LEMMA DecideStands ==
    ASSUME ShapeInvariant, NEW j \in Jobs, run[j].pc \in Placed, NEW d \in Dispositions, Decide(j, d)
    PROVE  Stands(j)
<1> DEFINE s == [run[j].disposition EXCEPT ![run[j].at] = d]
<1>1. Moves(j, "dispose", run[j].ids, s, run[j].at) BY DecideMoves
<1>2. /\ run[j].disposition \in Seq(Dispositions) /\ Len(run[j].disposition) = Len(run[j].ids)
      /\ run[j].at \in 1..Len(run[j].ids)
  BY DEF ShapeInvariant, TypeOK, Run, PlaceFits, Positions, Placed, Recording, Remedy
<1>3. Len(s) = Len(run[j].ids) BY <1>2, SetDisposition
<1> HIDE DEF s
<1> QED BY <1>1, <1>2, <1>3 DEF PlaceFits, Positions, Moves, Stands, Early

LEMMA AdvancedMoves ==
    ASSUME ShapeInvariant, NEW j \in Jobs, run[j].pc \in Placed,
           NEW again \in Placed, NEW past \in Steps \ Early,
           run' = [run EXCEPT ![j] = Advanced(j, again, past)]
    PROVE  /\ Stands(j)
           /\ Moves(j, run'[j].pc, run[j].ids, run[j].disposition, run'[j].at)
           /\ run[j].at = Len(run[j].ids) => run'[j].at = 1 /\ run'[j].pc = past
           /\ run[j].at # Len(run[j].ids) => run'[j].at = run[j].at + 1 /\ run'[j].pc = again
<1> DEFINE rec == Advanced(j, again, past)
<1>0. TypeOK /\ again \in Steps /\ past \in Steps /\ past \notin Early /\ again \notin Early
  BY DEF ShapeInvariant, Placed, Recording, Remedy, Steps, Early
<1>1. /\ rec \in Run /\ rec.ids = run[j].ids /\ rec.disposition = run[j].disposition
      /\ run[j].at = Len(run[j].ids) => rec.at = 1 /\ rec.pc = past
      /\ run[j].at # Len(run[j].ids) => rec.at = run[j].at + 1 /\ rec.pc = again
  BY <1>0, AdvancedIs
<1> HIDE DEF rec
<1>2. Moves(j, rec.pc, rec.ids, rec.disposition, rec.at) BY <1>0, <1>1, SetMoves DEF rec
<1>3. /\ Len(run[j].disposition) = Len(run[j].ids) /\ run[j].at \in 1..Len(run[j].ids)
      /\ run[j].ids \in Seq(Ids)
  BY DEF ShapeInvariant, TypeOK, Run, PlaceFits, Positions, Placed, Recording, Remedy
<1>4. rec.at \in 1..Len(run[j].ids) BY <1>1, <1>3
<1>5. rec.pc \notin Early BY <1>0, <1>1
<1> QED BY <1>1, <1>2, <1>3, <1>4, <1>5 DEF PlaceFits, Positions, Moves, Stands

LEMMA RestStands ==
    ASSUME ShapeInvariant, NEW j \in Jobs, NEW pc \in {"returned", "dead"},
           run' = [run EXCEPT ![j] = [IdleRun EXCEPT !.pc = pc, !.ids = run[j].ids]]
    PROVE  Stands(j)
<1>1. Moves(j, pc, run[j].ids, <<>>, 1) BY RestMoves DEF ShapeInvariant
<1> QED BY <1>1 DEF Moves, PlaceFits, Stands, Early, Placed, Recording, Remedy

LEMMA CurrentIn ==
    ASSUME ShapeInvariant, NEW j \in Jobs, run[j].pc \in Placed
    PROVE  /\ Current(j) \in Ids /\ run[j].at \in Positions(j) /\ run[j].at \in 1..Len(run[j].disposition)
           /\ run[j].disposition[run[j].at] \in Dispositions
<1>1. /\ run[j].ids \in Seq(Ids) /\ run[j].disposition \in Seq(Dispositions)
      /\ run[j].at \in 1..Len(run[j].ids) /\ Len(run[j].disposition) = Len(run[j].ids)
  BY DEF ShapeInvariant, TypeOK, Run, PlaceFits, Positions, Placed, Recording, Remedy
<1> QED BY <1>1 DEF Current, Positions

(* What a step of j leaves of the two tables that findings are in.             *)
TablesTyped ==
    /\ finding' \in [Ids -> [job : Jobs \cup {NoId}, disposition : Dispositions]]
    /\ journal' \in [Jobs -> SUBSET Events]

LEMMA SameTables == ASSUME TypeOK, finding' = finding, journal' = journal PROVE TablesTyped
BY DEF TypeOK, TablesTyped

LEMMA NotedTables ==
    ASSUME ShapeInvariant, NEW j \in Jobs, run[j].pc \in Placed, finding' = finding,
           NEW kind \in {"finding_observed", "finding_validated", "fix_requested", "fix_applied", "verified"},
           AppendEvent(j, kind, Current(j))
    PROVE  TablesTyped
<1>1. <<kind, Current(j)>> \in Events BY CurrentIn DEF Events
<1> QED BY <1>1, AppendNotes DEF ShapeInvariant, TypeOK, TablesTyped

LEMMA EndedTables ==
    ASSUME TypeOK, NEW j \in Jobs, finding' = finding,
           NEW kind \in {"pentest_completed", "pentest_failed", "pentest_interrupted"},
           AppendEvent(j, kind, NoId)
    PROVE  TablesTyped
<1>1. <<kind, NoId>> \in Events BY DEF Events
<1> QED BY <1>1, AppendNotes DEF TypeOK, TablesTyped

LEMMA RecordedTables ==
    ASSUME ShapeInvariant, NEW j \in Jobs, run[j].pc \in Placed, journal' = journal,
           NEW d \in Dispositions, RecordFinding(j, Current(j), d)
    PROVE  TablesTyped
<1>1. TypeOK /\ Current(j) \in Ids BY CurrentIn DEF ShapeInvariant
<1> QED BY <1>1, RecordWrites DEF TypeOK, TablesTyped

LEMMA FaultTyped ==
    ASSUME ShapeInvariant, NEW j \in Jobs, run[j].pc \notin {"returned", "dead"},
           NEW status \in {"failed", "interrupted"}, Failing(j, status), UNCHANGED tables
    PROVE  Stands(j) /\ TablesTyped
<1>1. Went(j, "failing") BY FailingWent DEF ShapeInvariant
<1>2. "failing" \notin Early \cup Placed BY DEF Early, Placed, Recording, Remedy
<1> QED BY <1>1, <1>2, WentStands, SameTables DEF tables, ShapeInvariant

-------------------------------------------------------------------------------
LEMMA RecordShape ==
    ASSUME ShapeInvariant, NEW j \in Jobs, RecordFindings(j) \/ ReportOnly(j) \/ Dispose(j)
    PROVE  Stands(j) /\ TablesTyped
<1> USE DEF At
<1>0. run[j].pc \in Placed /\ TypeOK /\ "" \in Dispositions /\ "report_only" \in Dispositions
      /\ run[j].pc \notin {"returned", "dead"}
  BY DEF RecordFindings, ReportOnly, Dispose, Placed, Recording, Remedy, ShapeInvariant, Dispositions
<1>1. CASE Failing(j, "failed") /\ UNCHANGED tables BY <1>0, <1>1, FaultTyped
<1>2. CASE RecordFinding(j, Current(j), "") /\ Goto(j, "announce") /\ UNCHANGED <<row, journal>>
  <2>1. Went(j, "announce") BY <1>0, <1>2, GotoWent DEF Steps
  <2> QED BY <1>0, <1>2, <2>1, WentStands, RecordedTables DEF Early
<1>3. CASE /\ AppendEvent(j, "finding_observed", Current(j)) /\ UNCHANGED <<row, finding>>
           /\ run' = [run EXCEPT ![j] =
                Advanced(j, "record", IF run[j].kind = "active" THEN "validate" ELSE "reportOnly")]
  <2> DEFINE past == IF run[j].kind = "active" THEN "validate" ELSE "reportOnly"
  <2>1. past \in Steps \ Early /\ "record" \in Placed BY DEF Steps, Early, Placed, Recording
  <2>2. run' = [run EXCEPT ![j] = Advanced(j, "record", past)] BY <1>3
  <2> HIDE DEF past
  <2>3. Stands(j) BY <1>0, <2>1, <2>2, AdvancedMoves
  <2>4. TablesTyped BY <1>0, <1>3, NotedTables
  <2> QED BY <2>3, <2>4
<1>4. CASE /\ RecordFinding(j, Current(j), "report_only") /\ UNCHANGED <<row, journal>>
           /\ run' = [run EXCEPT ![j] = [Advanced(j, "reportOnly", "settle")
                                           EXCEPT !.disposition[run[j].at] = "report_only"]]
  <2>1. TablesTyped BY <1>0, <1>4, RecordedTables
  <2> DEFINE first == Advanced(j, "reportOnly", "settle")
             rec == [first EXCEPT !.disposition[run[j].at] = "report_only"]
             s == [run[j].disposition EXCEPT ![run[j].at] = "report_only"]
  <2>2. /\ run[j].disposition \in Seq(Dispositions) /\ run[j].ids \in Seq(Ids)
        /\ run[j].at \in 1..Len(run[j].ids) /\ Len(run[j].disposition) = Len(run[j].ids)
    BY <1>0, CurrentIn DEF TypeOK, Run, ShapeInvariant, PlaceFits, Positions
  <2>9. run[j].at \in 1..Len(run[j].disposition) BY <2>2
  <2>3. s \in Seq(Dispositions) /\ Len(s) = Len(run[j].ids)
    <3>1. Len(s) = Len(run[j].disposition) /\ s \in Seq(Dispositions)
      <4> DEFINE t == run[j].disposition
                 at == run[j].at
      <4>1. t \in Seq(Dispositions) /\ at \in 1..Len(t) /\ "report_only" \in Dispositions BY <1>0, <2>2, <2>9
      <4> HIDE DEF t, at
      <4>2. Len([t EXCEPT ![at] = "report_only"]) = Len(t) /\ [t EXCEPT ![at] = "report_only"] \in Seq(Dispositions)
        BY <4>1, SetDisposition
      <4> QED BY <4>2 DEF t, at
    <3> QED BY <3>1, <2>2
  <2>4. /\ first \in Run /\ first.ids = run[j].ids /\ first.disposition = run[j].disposition
        /\ run[j].at = Len(run[j].ids) => first.at = 1 /\ first.pc = "settle"
        /\ run[j].at # Len(run[j].ids) => first.at = run[j].at + 1 /\ first.pc = "reportOnly"
    <3>1. TypeOK /\ "reportOnly" \in Steps /\ "settle" \in Steps BY <1>0 DEF Steps
    <3> QED BY <3>1, AdvancedIs
  <2> HIDE DEF first
  <2>5. rec \in Run /\ rec.ids = run[j].ids /\ rec.disposition = s /\ rec.at = first.at /\ rec.pc = first.pc
    BY <2>3, <2>4 DEF Run
  <2>6. run' = [run EXCEPT ![j] = rec] BY <1>4 DEF first
  <2> HIDE DEF rec, s
  <2>7. Moves(j, first.pc, run[j].ids, s, first.at) BY <1>0, <2>5, <2>6, SetMoves
  <2>8. first.at \in 1..Len(run[j].ids) /\ first.pc \notin Early BY <2>2, <2>4 DEF Early
  <2> QED BY <2>1, <2>3, <2>7, <2>8 DEF PlaceFits, Positions, Moves, Stands
<1>5. CASE /\ RecordFinding(j, Current(j), run[j].disposition[run[j].at]) /\ UNCHANGED <<row, journal>>
           /\ run' = [run EXCEPT ![j] = Advanced(j, "validate", "settle")]
  <2>1. "settle" \in Steps \ Early /\ "validate" \in Placed BY DEF Steps, Early, Placed, Remedy
  <2>2. Stands(j) BY <1>0, <1>5, <2>1, AdvancedMoves
  <2>3. run[j].disposition[run[j].at] \in Dispositions BY <1>0, CurrentIn
  <2> QED BY <1>0, <1>5, <2>2, <2>3, RecordedTables
<1> QED BY <1>1, <1>2, <1>3, <1>4, <1>5 DEF RecordFindings, ReportOnly, Dispose, Write

LEMMA RemedyShape ==
    ASSUME ShapeInvariant, NEW j \in Jobs,
           \/ ValidateFinding(j) \/ RequestFix(j) \/ ApplyFix(j) \/ ObserveFix(j)
           \/ RunVerification(j) \/ Retest(j)
    PROVE  Stands(j) /\ TablesTyped
<1> USE DEF At
<1>0. run[j].pc \in Placed /\ TypeOK /\ {"unresolved", "retested"} \subseteq Dispositions
      /\ run[j].pc \notin {"returned", "dead"}
  BY DEF ValidateFinding, RequestFix, ApplyFix, ObserveFix, RunVerification, Retest,
     Placed, Remedy, ShapeInvariant, Dispositions
<1>1. ASSUME Failing(j, "failed") /\ UNCHANGED tables PROVE Stands(j) /\ TablesTyped
  BY <1>0, <1>1, FaultTyped
<1>2. ASSUME NEW d \in {"unresolved", "retested"}, Decide(j, d) PROVE Stands(j)
  BY <1>0, <1>2, DecideStands
<1>3. ASSUME NEW pc \in {"fix", "apply", "observe", "verify", "retest", "rescan"}, Goto(j, pc)
      PROVE  Stands(j)
  <2>1. Went(j, pc) BY <1>0, <1>3, GotoWent DEF Steps
  <2> QED BY <1>0, <2>1, WentStands DEF Early
<1>4. ASSUME UNCHANGED tables PROVE TablesTyped BY <1>0, <1>4, SameTables DEF tables
<1>5. ASSUME NEW kind \in {"finding_validated", "fix_requested", "fix_applied", "verified"},
             AppendEvent(j, kind, Current(j)), UNCHANGED <<row, finding>>
      PROVE  TablesTyped
  BY <1>0, <1>5, NotedTables
<1>6. CASE ValidateFinding(j)
  <2>1. CASE Decide(j, "unresolved") /\ UNCHANGED tables BY <2>1, <1>2, <1>4
  <2>2. CASE /\ AppendEvent(j, "finding_validated", Current(j)) /\ UNCHANGED <<row, finding>>
             /\ Decide(j, "unresolved") \/ Goto(j, "fix")
    BY <2>2, <1>2, <1>3, <1>5
  <2> QED BY <1>1, <1>6, <2>1, <2>2 DEF ValidateFinding, Write
<1>7. CASE RequestFix(j) BY <1>1, <1>3, <1>5, <1>7 DEF RequestFix, Write
<1>8. CASE ApplyFix(j) BY <1>1, <1>2, <1>3, <1>4, <1>5, <1>8 DEF ApplyFix, Write
<1>9. CASE ObserveFix(j) BY <1>2, <1>3, <1>4, <1>9 DEF ObserveFix
<1>10. CASE RunVerification(j)
  BY <1>1, <1>2, <1>3, <1>4, <1>5, <1>10 DEF RunVerification, Write
<1>11. CASE Retest(j)
  <2>1. UNCHANGED tables /\ (Failing(j, "failed") \/ Goto(j, "rescan")
                                \/ \E d \in {"unresolved", "retested"} : Decide(j, d))
    BY <1>11 DEF Retest, RecordArtifact, Write
  <2> QED BY <2>1, <1>1, <1>2, <1>3, <1>4
<1> QED BY <1>6, <1>7, <1>8, <1>9, <1>10, <1>11

LEMMA SettleShape ==
    ASSUME ShapeInvariant, NEW j \in Jobs, Settle(j) \/ SettleFindings(j) \/ Complete(j)
    PROVE  Stands(j) /\ TablesTyped
<1> USE DEF At
<1>0. run[j].pc \notin Placed /\ TypeOK /\ run[j].pc \notin {"returned", "dead"}
  BY DEF Settle, SettleFindings, Complete, Placed, Remedy, Recording, ShapeInvariant
<1>1. ASSUME Failing(j, "failed") /\ UNCHANGED tables PROVE Stands(j) /\ TablesTyped
  BY <1>0, <1>1, FaultTyped
<1>2. ASSUME NEW pc \in {"evidence", "findings", "findingsEvidence", "findingsEvent",
                         "complete", "completedEvent", "report"}, Goto(j, pc)
      PROVE  Stands(j)
  <2>1. Went(j, pc) BY <1>0, <1>2, GotoWent DEF Steps
  <2> QED BY <1>0, <2>1, WentStands DEF Early, Placed, Recording, Remedy
<1>3. ASSUME finding' = finding, journal' = journal PROVE TablesTyped BY <1>0, <1>3, SameTables
<1>4. ASSUME AppendEvent(j, "pentest_completed", NoId), finding' = finding PROVE TablesTyped
  BY <1>0, <1>4, EndedTables
<1>5. CASE Settle(j) BY <1>2, <1>3, <1>5 DEF Settle, tables
<1>6. CASE SettleFindings(j)
  BY <1>1, <1>2, <1>3, <1>4, <1>6 DEF SettleFindings, WriteStatus, Write
<1>7. CASE Complete(j)
  BY <1>1, <1>2, <1>3, <1>4, <1>7 DEF Complete, WriteStatus, Write
<1> QED BY <1>5, <1>6, <1>7

LEMMA BeginShape ==
    ASSUME ShapeInvariant, NEW j \in Jobs, NEW kind \in Kinds, NEW dirty \in Changes,
           Execute(j, kind, dirty)
    PROVE  Stands(j) /\ TablesTyped
<1> DEFINE rec == [IdleRun EXCEPT !.pc = "started", !.kind = kind,
                      !.before = IF kind = "active" THEN tree ELSE 0,
                      !.dirty = IF kind = "active" THEN dirty ELSE {}]
<1>0. TypeOK BY DEF ShapeInvariant
<1>1. TablesTyped /\ run' = [run EXCEPT ![j] = rec] BY <1>0, SameTables DEF Execute
<1>2. rec \in Run /\ rec.pc = "started" /\ rec.ids = <<>> /\ rec.disposition = <<>> /\ rec.at = 1
  <2>1. /\ "started" \in Steps /\ (IF kind = "active" THEN tree ELSE 0) \in Nat
        /\ (IF kind = "active" THEN dirty ELSE {}) \in SUBSET (Strong \cup Weak)
    BY <1>0, PentestConstants DEF TypeOK, Steps
  <2> QED BY <2>1, IdleRunIs DEF Run
<1> HIDE DEF rec
<1>3. Moves(j, "started", <<>>, <<>>, 1) BY <1>0, <1>1, <1>2, SetMoves
<1> QED BY <1>1, <1>3 DEF Moves, Stands, PlaceFits, Placed, Recording, Remedy

LEMMA ReturnShape ==
    ASSUME ShapeInvariant, NEW j \in Jobs, ReturnReport(j) \/ Fail(j) \/ Crash(j)
    PROVE  Stands(j) /\ TablesTyped
<1>0. TypeOK BY DEF ShapeInvariant
<1>1. Stands(j) BY RestStands DEF ReturnReport, Fail, Crash, Return
<1>2. CASE ReturnReport(j) \/ Crash(j) BY <1>0, <1>1, <1>2, SameTables DEF ReturnReport, Crash, tables
<1>3. CASE Fail(j)
  <2>1. finding' = finding BY <1>3 DEF Fail
  <2>2. PICK kind \in {"pentest_failed", "pentest_interrupted"} :
          AppendEvent(j, kind, NoId) \/ journal' = journal
    BY <1>3 DEF Fail
  <2> QED BY <1>0, <1>1, <2>1, <2>2, EndedTables, SameTables
<1> QED BY <1>2, <1>3

-------------------------------------------------------------------------------
LEMMA PrepareShape ==
    ASSUME ShapeInvariant, NEW j \in Jobs, Prepare(j)
    PROVE  /\ Stands(j) /\ TablesTyped /\ finding' = finding
           /\ \A k \in Jobs \ {j} : journal'[k] = journal[k]
<1> DEFINE before == IF run[j].kind # "url" THEN <<"snapshot_created">> ELSE <<>>
           events == <<"pentest_started">> \o before \o <<"strix_started">>
<1>0. TypeOK /\ run[j].pc = "started" BY DEF ShapeInvariant, Prepare, At
<1>1. /\ Len(events) \in {2, 3}
      /\ \A k \in 1..Len(events) : <<events[k], NoId>> \in Events
  <2>1. CASE run[j].kind # "url" BY <2>1 DEF Events
  <2>2. CASE run[j].kind = "url" BY <2>2 DEF Events
  <2> QED BY <2>1, <2>2
<1>2. /\ Goto(j, "scan") \/ Failing(j, "failed")
      /\ \E n \in 1..Len(events) :
            journal' = [journal EXCEPT ![j] = {<<events[k], NoId>> : k \in 1..n}]
  <2>1. \/ /\ Goto(j, "scan")
           /\ journal' = [journal EXCEPT ![j] = {<<events[k], NoId>> : k \in 1..Len(events)}]
        \/ /\ Failing(j, "failed")
           /\ \E n \in 1..(Len(events) - 1) :
                 journal' = [journal EXCEPT ![j] = {<<events[k], NoId>> : k \in 1..n}]
    BY Zenon DEF Prepare
  <2> HIDE DEF events
  <2>2. Len(events) \in 1..Len(events) /\ \A n \in 1..(Len(events) - 1) : n \in 1..Len(events)
    BY <1>1
  <2> QED BY <2>1, <2>2, Zenon
<1> HIDE DEF events
<1>3. PICK n \in 1..Len(events) :
        journal' = [journal EXCEPT ![j] = {<<events[k], NoId>> : k \in 1..n}]
  BY <1>2
<1>4. {<<events[k], NoId>> : k \in 1..n} \subseteq Events BY <1>1
<1>5. finding' = finding BY DEF Prepare
<1>6. /\ journal' \in [Jobs -> SUBSET Events]
      /\ \A k \in Jobs \ {j} : journal'[k] = journal[k]
  BY <1>0, <1>3, <1>4 DEF TypeOK
<1>7. TablesTyped BY <1>0, <1>5, <1>6 DEF TablesTyped, TypeOK
<1>8. Stands(j)
  <2>1. CASE Goto(j, "scan")
    <3>1. Went(j, "scan") BY <1>0, <2>1, GotoWent DEF Steps
    <3> QED BY <1>0, <3>1 DEF Went, Moves, Stands, PlaceFits, ShapeInvariant, Early, Placed, Recording, Remedy
  <2>2. CASE Failing(j, "failed")
    <3>1. Went(j, "failing") BY <1>0, <2>2, FailingWent
    <3>2. "failing" \notin Early \cup Placed BY DEF Early, Placed, Recording, Remedy
    <3> QED BY <1>0, <3>1, <3>2, WentStands
  <2> QED BY <1>2, <2>1, <2>2
<1> QED BY <1>5, <1>6, <1>7, <1>8

(* What a scan that completed leaves.                                          *)
Scanned(j, raw) ==
    /\ UNCHANGED tables
    /\ Moves(j, IF raw = <<>> THEN "evidence" ELSE "record",
             NormalizeFindings(raw), [k \in 1..Len(raw) |-> ""], 1)

LEMMA ScanIs ==
    ASSUME ShapeInvariant, NEW j \in Jobs, Scan(j)
    PROVE  \/ UNCHANGED tables /\ \E status \in {"failed", "interrupted"} : Failing(j, status)
           \/ \E raw \in Reports \cup {<<>>} : Scanned(j, raw)
<1>0. run[j].pc = "scan" /\ run[j] \in Run /\ run[j].at = 1 /\ TypeOK
  BY DEF Scan, At, ShapeInvariant, TypeOK, PlaceFits, Early
<1>1. PICK result \in RunStrix :
        \/ /\ result.outcome = "completed"
           /\ RecordArtifact(j,
                 /\ run' = [run EXCEPT ![j].ids = NormalizeFindings(result.raw),
                                       ![j].disposition = [k \in 1..Len(result.raw) |-> ""],
                                       ![j].pc = IF result.raw = <<>> THEN "evidence" ELSE "record"]
                 /\ UNCHANGED tables)
        \/ /\ result.outcome # "completed"
           /\ Failing(j, IF result.outcome = "interrupted" THEN "interrupted" ELSE "failed")
           /\ UNCHANGED <<tables, faulted>>
  BY DEF Scan
<1>2. CASE UNCHANGED tables /\ \E status \in {"failed", "interrupted"} : Failing(j, status) BY <1>2
<1>3. CASE /\ run' = [run EXCEPT ![j].ids = NormalizeFindings(result.raw),
                                 ![j].disposition = [k \in 1..Len(result.raw) |-> ""],
                                 ![j].pc = IF result.raw = <<>> THEN "evidence" ELSE "record"]
           /\ UNCHANGED tables
  <2>1. PICK report \in LatestReports : result.raw = Parse(report) BY DEF RunStrix
  <2>2. result.raw \in Reports \cup {<<>>} BY <2>1 DEF LatestReports, Parse
  <2>3. PICK raw \in Reports \cup {<<>>} : raw = result.raw BY <2>2
  <2> DEFINE ids == NormalizeFindings(raw)
             blank == [k \in 1..Len(raw) |-> ""]
             pc == IF raw = <<>> THEN "evidence" ELSE "record"
             rec == [run[j] EXCEPT !.ids = ids, !.disposition = blank, !.pc = pc]
  <2>4. ids \in Seq(Ids)
    <3>1. CASE raw \in Reports BY <3>1, NormalizeNames DEF WellNamed
    <3>2. CASE raw = <<>>
      <4>1. Len(raw) = 0 BY <3>2
      <4>2. PICK h : NamesUpTo(raw, 0, h) /\ NormalizeFindings(raw) = h[0] BY <4>1, NormalizeIs
      <4>3. NormalizeFindings(raw) = <<>> BY <4>2 DEF NamesUpTo
      <4> QED BY <4>3
    <3> QED BY <3>1, <3>2
  <2>5. blank \in Seq(Dispositions)
    <3>1. Len(raw) \in Nat BY PentestConstants
    <3> QED BY <3>1 DEF Dispositions
  <2>6. pc \in Steps BY DEF Steps
  <2>7. run' = [run EXCEPT ![j] = rec] BY <1>3, <2>3
  <2> HIDE DEF ids, blank, pc
  <2>8. rec \in Run /\ rec.pc = pc /\ rec.ids = ids /\ rec.disposition = blank /\ rec.at = 1
    BY <1>0, <2>4, <2>5, <2>6 DEF Run
  <2> HIDE DEF rec
  <2>9. Moves(j, pc, ids, blank, 1) BY <1>0, <2>7, <2>8, SetMoves
  <2>10. Scanned(j, raw) BY <2>9, <1>3 DEF Scanned, ids, blank, pc
  <2> QED BY <2>10, <2>3
<1> QED BY <1>1, <1>2, <1>3 DEF RecordArtifact, Write

LEMMA ScannedIds ==
    ASSUME NEW raw \in Reports \cup {<<>>}
    PROVE  /\ Len(raw) \in Nat /\ Len(NormalizeFindings(raw)) = Len(raw)
           /\ PlainIds => Distinct(NormalizeFindings(raw))
           /\ raw # <<>> => Len(raw) # 0
<1>1. CASE raw \in Reports
  <2>1. WellNamed(raw, NormalizeFindings(raw), Len(raw)) BY <1>1, NormalizeNames
  <2>2. raw \in Seq(RawIds \cup {NoId}) BY <1>1, PentestConstants
  <2> QED BY <2>1, <2>2 DEF WellNamed
<1>2. CASE raw = <<>>
  <2>1. Len(raw) = 0 BY <1>2
  <2>2. PICK h : NamesUpTo(raw, 0, h) /\ NormalizeFindings(raw) = h[0] BY <2>1, NormalizeIs
  <2>3. NormalizeFindings(raw) = <<>> BY <2>2 DEF NamesUpTo
  <2> QED BY <1>2, <2>3 DEF Distinct
<1> QED BY <1>1, <1>2

LEMMA ScanShape ==
    ASSUME ShapeInvariant, NEW j \in Jobs, Scan(j) PROVE Stands(j) /\ TablesTyped
<1>0. run[j].pc = "scan" /\ TypeOK BY DEF Scan, At, ShapeInvariant
<1>1. CASE UNCHANGED tables /\ \E status \in {"failed", "interrupted"} : Failing(j, status)
  BY <1>0, <1>1, FaultTyped
<1>2. ASSUME NEW raw \in Reports \cup {<<>>}, Scanned(j, raw) PROVE Stands(j) /\ TablesTyped
  <2>1. Len([k \in 1..Len(raw) |-> ""]) = Len(raw) /\ Len(NormalizeFindings(raw)) = Len(raw)
    BY ScannedIds
  <2>2. raw # <<>> => 1 \in 1..Len(NormalizeFindings(raw)) BY ScannedIds
  <2>3. TablesTyped BY <1>0, <1>2, SameTables DEF Scanned, tables
  <2> QED BY <1>2, <2>1, <2>2, <2>3
      DEF Scanned, Moves, Stands, PlaceFits, Positions, Early, Placed, Recording, Remedy
<1> QED BY <1>1, <1>2, ScanIs

LEMMA StepShape ==
    ASSUME ShapeInvariant, NEW j \in Jobs, Step(j) \/ Crash(j) PROVE Stands(j) /\ TablesTyped
BY PrepareShape, ScanShape, RecordShape, RemedyShape, SettleShape, ReturnShape DEF Step

(* The rest of the state keeps its type.                                       *)
LEMMA RestTyped ==
    ASSUME TypeOK, NEW j \in Jobs, Step(j) \/ Crash(j)
    PROVE  /\ snapshots' \in [Jobs -> SUBSET {"scan", "retest"}]
           /\ tree' \in Nat /\ crashes' \in Nat /\ faulted' \subseteq Jobs
<1> USE DEF TypeOK
<1>1. tree' \in Nat
  <2>1. CASE ApplyFix(j)
    <3>1. tree' \in {tree} \cup {t \in {tree + 1} : t <= MaxEdits} BY <2>1 DEF ApplyFix
    <3> QED BY <3>1
  <2>2. CASE ~ApplyFix(j)
    <3>1. tree' = tree
      BY <2>2 DEF Step, Crash, Prepare, Scan, RecordFindings, ReportOnly, ValidateFinding, RequestFix,
         ObserveFix, RunVerification, Retest, Dispose, Settle, SettleFindings, Complete, ReturnReport, Fail
    <3> QED BY <3>1
  <2> QED BY <2>1, <2>2
<1>2. crashes' \in Nat
  <2>1. crashes' = crashes \/ crashes' = crashes + 1
    BY DEF Step, Crash, Prepare, Scan, RecordFindings, ReportOnly, ValidateFinding, RequestFix, ApplyFix,
       ObserveFix, RunVerification, Retest, Dispose, Settle, SettleFindings, Complete, ReturnReport, Fail
  <2> QED BY <2>1
<1>3. faulted' = faulted \/ faulted' = faulted \cup {j}
  BY DEF Step, Crash, Prepare, Scan, RecordFindings, ReportOnly, ValidateFinding, RequestFix, ApplyFix,
     ObserveFix, RunVerification, Retest, Dispose, Settle, SettleFindings, Complete, ReturnReport, Fail,
     Write, WriteStatus, RecordArtifact
<1>4. snapshots' = snapshots \/ \E s \in SUBSET {"scan", "retest"} : snapshots' = [snapshots EXCEPT ![j] = s]
  <2>1. CASE Prepare(j)
    <3>1. \E copied : snapshots' = [snapshots EXCEPT ![j] = BuildSnapshot("scan", copied)]
      BY <2>1, Zenon DEF Prepare
    <3>2. \A copied : BuildSnapshot("scan", copied) \in SUBSET {"scan", "retest"} BY DEF BuildSnapshot
    <3> QED BY <3>1, <3>2, Zenon
  <2>2. CASE Retest(j)
    <3>1. snapshots[j] \in SUBSET {"scan", "retest"} OBVIOUS
    <3>2. \/ snapshots' = snapshots
          \/ snapshots' = [snapshots EXCEPT ![j] = snapshots[j] \cup {"retest"}]
          \/ snapshots' = [snapshots EXCEPT ![j] = snapshots[j] \ {"retest"}]
      BY <2>2 DEF Retest, BuildSnapshot
    <3> QED BY <3>1, <3>2
  <2>3. CASE ReturnReport(j) \/ Fail(j) BY <2>3 DEF ReturnReport, Fail, Cleanup
  <2>4. CASE ~(Prepare(j) \/ Retest(j) \/ ReturnReport(j) \/ Fail(j))
    BY <2>4 DEF Step, Crash, Scan, RecordFindings, ReportOnly, ValidateFinding, RequestFix, ApplyFix,
       ObserveFix, RunVerification, Dispose, Settle, SettleFindings, Complete
  <2> QED BY <2>1, <2>2, <2>3, <2>4
<1> QED BY <1>1, <1>2, <1>3, <1>4

LEMMA ShapeInit == Init => ShapeInvariant
<1> SUFFICES ASSUME Init PROVE ShapeInvariant OBVIOUS
<1>1. run \in [Jobs -> Run] /\ \A j \in Jobs : PlaceFits(j)
  BY IdleRunIs DEF Init, PlaceFits, Placed, Recording, Remedy
<1>2. row \in [Jobs -> [status : Status, evidence : BOOLEAN]] BY DEF Init, Status
<1>3. finding \in [Ids -> [job : Jobs \cup {NoId}, disposition : Dispositions]]
  BY DEF Init, NoRow, Dispositions
<1> QED BY <1>1, <1>2, <1>3 DEF Init, ShapeInvariant, TypeOK

LEMMA ShapeStep == ShapeInvariant /\ JobsInvariant' /\ [Next]_vars => ShapeInvariant'
<1> SUFFICES ASSUME ShapeInvariant, JobsInvariant', [Next]_vars PROVE ShapeInvariant' OBVIOUS
<1>0. TypeOK /\ row' \in [Jobs -> [status : Status, evidence : BOOLEAN]]
  BY DEF ShapeInvariant, JobsInvariant, TableShape
<1>1. ASSUME NEW j \in Jobs, Stands(j), TablesTyped,
             snapshots' \in [Jobs -> SUBSET {"scan", "retest"}], tree' \in Nat, crashes' \in Nat,
             faulted' \subseteq Jobs
      PROVE  ShapeInvariant'
  <2>1. ASSUME NEW k \in Jobs \ {j} PROVE PlaceFits(k)'
    BY <1>1 DEF ShapeInvariant, Stands, PlaceFits, Positions
  <2> QED BY <1>0, <1>1, <2>1 DEF ShapeInvariant, TypeOK, Stands, TablesTyped
<1>2. CASE UNCHANGED vars
  BY <1>2 DEF vars, ShapeInvariant, TypeOK, PlaceFits, Positions
<1>3. ASSUME NEW j \in Jobs, Step(j) \/ Crash(j) PROVE ShapeInvariant'
  BY <1>0, <1>1, <1>3, StepShape, RestTyped
<1>4. ASSUME NEW j \in Jobs, NEW kind \in KindsOf[j], NEW dirty \in Changes, Execute(j, kind, dirty)
      PROVE  ShapeInvariant'
  <2>1. kind \in Kinds BY PentestConstants
  <2>2. Stands(j) /\ TablesTyped BY <1>4, <2>1, BeginShape
  <2> QED BY <1>0, <1>1, <1>4, <2>2 DEF Execute, TypeOK
<1>5. ASSUME NEW j \in Jobs, Stop(j) PROVE ShapeInvariant'
  BY <1>0, <1>5 DEF Stop, ShapeInvariant, TypeOK, PlaceFits, Positions
<1> QED BY <1>2, <1>3, <1>4, <1>5 DEF Next, Terminated

(* Every table and process keeps its shape, in particular a finding that is    *)
(* worked on is one of the scan's (Execute, remediate).                        *)
THEOREM PentestTypeCorrect == Spec => []TypeOK
<1>1. Spec => []JobsInvariant BY JobsInit, JobsStep, PTL DEF Spec
<1>2. Spec => []ShapeInvariant BY <1>1, ShapeInit, ShapeStep, PTL DEF Spec
<1>3. ShapeInvariant => TypeOK BY DEF ShapeInvariant
<1> QED BY <1>2, <1>3, PTL

-------------------------------------------------------------------------------
Links == {"finding_validated", "fix_requested", "fix_applied", "verified"}
Resolving == {"evidence", "complete", "completedEvent"}
Decided == {"settle", "findings", "findingsEvidence", "findingsEvent", "report"} \cup Resolving

Retested(i) == finding[i].disposition = "retested"
Chained(j, i) == \A kind \in Links : <<kind, i>> \in journal[j]

(* The ids of a job are its scan's, and what it owns is among them.            *)
OwnFits(j) ==
    /\ PlainIds => Distinct(run[j].ids)
    /\ \A i \in Owned(j) : \E k \in Positions(j) : run[j].ids[k] = i

(* What is still in the way of calling the findings of j resolved: one that is *)
(* decided otherwise, or one whose turn is still to come.                      *)
ResolvedFits(j) ==
    /\ run[j].pc \in Remedy \cup {"reportOnly"} => \A i \in Owned(j) :
          \/ Retested(i)
          \/ \E k \in Positions(j) : k < run[j].at /\ run[j].disposition[k] # "retested"
          \/ \E k \in Positions(j) : k >= run[j].at /\ run[j].ids[k] = i
    /\ run[j].pc = "settle" => \A i \in Owned(j) :
          Retested(i) \/ \E k \in Positions(j) : run[j].disposition[k] # "retested"
    /\ run[j].pc \in Resolving \/ row[j].status = "completed" => \A i \in Owned(j) : Retested(i)
    /\ row[j].status = "completed" =>
          row[j].evidence = TRUE /\ run[j].pc \in {"completedEvent", "report", "failing", "returned", "dead"}

(* The links of the chain a remediation has journalled so far.                 *)
ChainAt(j) ==
    /\ run[j].pc \in {"fix", "apply", "observe", "verify", "retest", "rescan"} =>
          <<"finding_validated", Current(j)>> \in journal[j]
    /\ run[j].pc \in {"apply", "observe", "verify", "retest", "rescan"} =>
          <<"fix_requested", Current(j)>> \in journal[j]
    /\ run[j].pc \in {"observe", "verify", "retest", "rescan"} =>
          <<"fix_applied", Current(j)>> \in journal[j]
    /\ run[j].pc \in {"retest", "rescan"} => <<"verified", Current(j)>> \in journal[j]
    /\ run[j].pc = "dispose" /\ run[j].disposition[run[j].at] = "retested" => Chained(j, Current(j))

OwnChained(j) == \A i \in Owned(j) : Retested(i) => Chained(j, i)

Kept(j, i) == finding[i].job = j \/ \E other \in Jobs \ {j}, m \in Nat :
                                       m \in Positions(other) /\ run[other].ids[m] = i

(* The findings of j that have their row, unless another job has taken it.     *)
KeptFits(j) ==
    \A k \in Positions(j) :
        \/ run[j].pc = "record" /\ k < run[j].at
        \/ run[j].pc = "announce" /\ k <= run[j].at
        \/ run[j].pc \in Decided \cup Remedy \cup {"reportOnly"}
        \/ Reported(j, "pentest_completed")
        => Kept(j, run[j].ids[k])

FindingsFit(j) == OwnFits(j) /\ ResolvedFits(j) /\ ChainAt(j) /\ OwnChained(j) /\ KeptFits(j)

FindingsInvariant ==
    /\ \A j \in Jobs : FindingsFit(j)
    /\ \A i \in Ids : finding[i].job \notin Jobs => finding[i].disposition = ""

Known == JobsInvariant /\ ShapeInvariant /\ FindingsInvariant

(* A step of j leaves the other jobs alone, but may take over their findings.  *)
Frame(j) ==
    /\ \A k \in Jobs \ {j} : run'[k] = run[k] /\ row'[k] = row[k] /\ journal'[k] = journal[k]
    /\ run'[j].ids = run[j].ids \/ run[j].ids = <<>>
    /\ \A i \in Ids : \/ finding'[i] = finding[i]
                      \/ finding'[i].job = j /\ \E m \in Nat : m \in Positions(j)' /\ run'[j].ids[m] = i

LEMMA KeptStays ==
    ASSUME Known, NEW j \in Jobs, Frame(j), NEW k \in Jobs, NEW i \in Ids, Kept(k, i)
    PROVE  Kept(k, i)'
<1>1. ASSUME NEW other \in Jobs, NEW m \in Nat, m \in Positions(other), run[other].ids[m] = i
      PROVE  m \in Positions(other)' /\ run'[other].ids[m] = i
  <2>1. run'[other].ids = run[other].ids
    <3>1. CASE other # j BY <3>1 DEF Frame
    <3>2. CASE other = j
      <4>1. run[j].ids # <<>> BY <3>2, <1>1 DEF Positions
      <4> QED BY <3>2, <4>1 DEF Frame
    <3> QED BY <3>1, <3>2
  <2> QED BY <2>1, <1>1 DEF Positions
<1>2. CASE finding[i].job = k
  <2>1. CASE finding'[i] = finding[i] BY <2>1, <1>2 DEF Kept
  <2>2. CASE finding'[i] # finding[i]
    <3>1. finding'[i].job = j /\ \E m \in Nat : m \in Positions(j)' /\ run'[j].ids[m] = i BY <2>2 DEF Frame
    <3> QED BY <3>1 DEF Kept
  <2> QED BY <2>1, <2>2
<1>3. CASE \E other \in Jobs \ {k}, m \in Nat : m \in Positions(other) /\ run[other].ids[m] = i
  BY <1>1, <1>3 DEF Kept
<1> QED BY <1>2, <1>3 DEF Kept

LEMMA KeptNext ==
    ASSUME Known, NEW j \in Jobs, Frame(j), NEW k \in Jobs, run'[k].ids = run[k].ids,
           NEW m \in Positions(k), Kept(k, run[k].ids[m])
    PROVE  Kept(k, run[k].ids[m])'
<1>1. run[k].ids[m] \in Ids BY DEF Known, ShapeInvariant, TypeOK, Run, Positions
<1>2. PICK n \in Ids : n = run[k].ids[m] BY <1>1
<1>3. Kept(k, n)' BY <1>2, KeptStays
<1> QED BY <1>2, <1>3 DEF Kept

LEMMA OthersFit ==
    ASSUME Known, ShapeInvariant', NEW j \in Jobs, Frame(j), NEW k \in Jobs \ {j}
    PROVE  FindingsFit(k)'
<1>1. run'[k] = run[k] /\ row'[k] = row[k] /\ journal'[k] = journal[k] BY DEF Frame
<1>2. \A i \in Ids : finding'[i].job = k => finding'[i] = finding[i] BY DEF Frame
<1>3. FindingsFit(k) BY DEF Known, FindingsInvariant
<1>4. Owned(k)' \subseteq Owned(k) /\ \A i \in Owned(k)' : finding'[i] = finding[i]
  BY <1>2 DEF Owned
<1>5. Positions(k)' = Positions(k) BY <1>1 DEF Positions
<1>6. OwnFits(k)' BY <1>1, <1>3, <1>4, <1>5 DEF FindingsFit, OwnFits
<1>7. ResolvedFits(k)' BY <1>1, <1>3, <1>4, <1>5 DEF FindingsFit, ResolvedFits, Retested
<1>8. ChainAt(k)' BY <1>1, <1>3 DEF FindingsFit, ChainAt, Current, Chained
<1>9. OwnChained(k)' BY <1>1, <1>3, <1>4 DEF FindingsFit, OwnChained, Retested, Chained
<1>10. KeptFits(k)'
  <2>1. \A m \in Positions(k) : Kept(k, run[k].ids[m]) => Kept(k, run[k].ids[m])' BY <1>1, KeptNext
  <2> QED BY <1>1, <1>3, <1>5, <2>1 DEF FindingsFit, KeptFits, Reported
<1> QED BY <1>6, <1>7, <1>8, <1>9, <1>10 DEF FindingsFit

LEMMA OneFits ==
    ASSUME Known, ShapeInvariant', NEW j \in Jobs, Frame(j), FindingsFit(j)'
    PROVE  FindingsInvariant'
<1>1. \A k \in Jobs : FindingsFit(k)' BY OthersFit
<1>2. \A i \in Ids : finding'[i].job \notin Jobs => finding'[i].disposition = ""
  BY DEF Frame, Known, FindingsInvariant
<1> QED BY <1>1, <1>2 DEF FindingsInvariant

-------------------------------------------------------------------------------
(* The findings table is as it was and the journal of j has only grown.        *)
Quiet(j) ==
    /\ finding' = finding /\ journal[j] \subseteq journal'[j]
    /\ \A k \in Jobs \ {j} : run'[k] = run[k] /\ row'[k] = row[k] /\ journal'[k] = journal[k]

LEMMA QuietFrame ==
    ASSUME NEW j \in Jobs, Quiet(j), run'[j].ids = run[j].ids \/ run[j].ids = <<>>
    PROVE  Frame(j)
BY DEF Quiet, Frame

(* What a step keeps that leaves the findings and the list of ids.             *)
LEMMA QuietKeeps ==
    ASSUME Known, NEW j \in Jobs, Quiet(j), run'[j].ids = run[j].ids
    PROVE  /\ Frame(j) /\ OwnFits(j)' /\ OwnChained(j)' /\ Positions(j)' = Positions(j)
           /\ Owned(j)' = Owned(j) /\ \A i \in Ids : Retested(i)' <=> Retested(i)
           /\ \A m \in Positions(j) : Kept(j, run[j].ids[m]) => Kept(j, run[j].ids[m])'
<1>1. FindingsFit(j) BY DEF Known, FindingsInvariant
<1>2. Frame(j) BY QuietFrame
<1>3. Positions(j)' = Positions(j) /\ Owned(j)' = Owned(j) BY DEF Positions, Owned, Quiet
<1>4. \A i \in Ids : Retested(i)' <=> Retested(i) BY DEF Retested, Quiet
<1>5. OwnFits(j)' BY <1>1, <1>3 DEF FindingsFit, OwnFits
<1>6. OwnChained(j)' BY <1>1, <1>3, <1>4 DEF FindingsFit, OwnChained, Chained, Quiet, Owned
<1>7. \A m \in Positions(j) : Kept(j, run[j].ids[m]) => Kept(j, run[j].ids[m])' BY <1>2, KeptNext
<1> QED BY <1>2, <1>3, <1>4, <1>5, <1>6, <1>7

(* A process that is about to end, or has ended, without saying so.            *)
LEMMA EndedFits ==
    ASSUME Known, NEW j \in Jobs, Quiet(j), run'[j].ids = run[j].ids,
           run'[j].pc \in {"failing", "returned", "dead"},
           Reported(j, "pentest_completed")' => Reported(j, "pentest_completed"),
           row'[j].status = "completed" => row[j].status = "completed" /\ row'[j].evidence = row[j].evidence
    PROVE  Frame(j) /\ FindingsFit(j)'
<1> USE DEF Remedy, Resolving, Decided
<1>1. FindingsFit(j) BY DEF Known, FindingsInvariant
<1>2. /\ Frame(j) /\ OwnFits(j)' /\ OwnChained(j)' /\ Positions(j)' = Positions(j)
      /\ Owned(j)' = Owned(j) /\ \A i \in Ids : Retested(i)' <=> Retested(i)
      /\ \A m \in Positions(j) : Kept(j, run[j].ids[m]) => Kept(j, run[j].ids[m])'
  BY QuietKeeps
<1>3. ResolvedFits(j)' BY <1>1, <1>2 DEF FindingsFit, ResolvedFits, Owned
<1>4. ChainAt(j)' BY DEF ChainAt
<1>5. KeptFits(j)' BY <1>1, <1>2 DEF FindingsFit, KeptFits
<1> QED BY <1>2, <1>3, <1>4, <1>5 DEF FindingsFit

LEMMA FaultFits ==
    ASSUME Known, NEW j \in Jobs, NEW status \in {"failed", "interrupted"},
           Failing(j, status), UNCHANGED tables
    PROVE  Frame(j) /\ FindingsFit(j)'
<1>1. Went(j, "failing") BY FailingWent DEF Known, ShapeInvariant
<1>2. Quiet(j) /\ run'[j].ids = run[j].ids BY <1>1 DEF Quiet, Went, Moves, tables
<1>3. Reported(j, "pentest_completed")' <=> Reported(j, "pentest_completed") BY DEF tables, Reported
<1> QED BY <1>1, <1>2, <1>3, EndedFits DEF Went, Moves, tables

LEMMA ReturnFits ==
    ASSUME Known, NEW j \in Jobs, ReturnReport(j) \/ Crash(j) \/ Fail(j)
    PROVE  Frame(j) /\ FindingsFit(j)'
<1>0. TypeOK BY DEF Known, ShapeInvariant
<1>1. PICK pc \in {"returned", "dead"} : Moves(j, pc, run[j].ids, <<>>, 1)
  BY <1>0, RestMoves DEF ReturnReport, Crash, Fail, Return
<1>2. CASE ReturnReport(j) \/ Crash(j)
  <2>1. UNCHANGED tables BY <1>2 DEF ReturnReport, Crash
  <2>2. Reported(j, "pentest_completed")' <=> Reported(j, "pentest_completed") BY <2>1 DEF tables, Reported
  <2> QED BY <1>1, <2>1, <2>2, EndedFits DEF Moves, Quiet, tables
<1>3. CASE Fail(j)
  <2>1. finding' = finding BY <1>3 DEF Fail
  <2>2. PICK kind \in {"pentest_failed", "pentest_interrupted"} :
          AppendEvent(j, kind, NoId) \/ journal' = journal
    BY <1>3 DEF Fail
  <2>3. /\ \A k \in Jobs \ {j} : journal'[k] = journal[k]
        /\ journal[j] \subseteq journal'[j] /\ journal'[j] \subseteq journal[j] \cup {<<kind, NoId>>}
    BY <1>0, <2>2, AppendNotes
  <2>4. Reported(j, "pentest_completed")' => Reported(j, "pentest_completed") BY <2>3 DEF Reported
  <2>5. /\ \A k \in Jobs \ {j} : row'[k] = row[k]
        /\ row'[j].status = "completed" => row'[j] = row[j]
    <3>1. row' = row \/ row' = [row EXCEPT ![j].status = run[j].failure] BY <1>3 DEF Fail
    <3>2. run[j].failure \in {"failed", "interrupted"} BY <1>0 DEF TypeOK, Run
    <3> QED BY <3>1, <3>2, <1>0 DEF TypeOK
  <2> QED BY <1>1, <2>1, <2>3, <2>4, <2>5, EndedFits DEF Moves, Quiet
<1> QED BY <1>2, <1>3

(* Before the scan has an answer the job has no findings.                      *)
LEMMA NoneYet ==
    ASSUME Known, NEW j \in Jobs, run[j].pc \in Early
    PROVE  /\ run[j].ids = <<>> /\ Owned(j) = {} /\ row[j].status # "completed"
           /\ ~Reported(j, "pentest_completed")
<1>1. FindingsFit(j) BY DEF Known, FindingsInvariant
<1>2. run[j].ids = <<>> BY DEF Known, ShapeInvariant, PlaceFits
<1>3. Owned(j) = {} BY <1>1, <1>2 DEF FindingsFit, OwnFits, Positions
<1>4. row[j].status # "completed" BY <1>1 DEF FindingsFit, ResolvedFits, Early
<1>5. ~Reported(j, "pentest_completed") BY DEF Known, JobsInvariant, JobFits, Early
<1> QED BY <1>2, <1>3, <1>4, <1>5

(* A job without findings that has not come to an end fits whatever it does.   *)
LEMMA NothingFits ==
    ASSUME NEW j \in Jobs, Owned(j)' = {}, run'[j].ids = <<>>, run'[j].pc \notin Remedy,
           row'[j].status # "completed"
    PROVE  FindingsFit(j)'
<1>1. Positions(j)' = {} BY DEF Positions
<1>2. OwnFits(j)' BY DEF OwnFits, Distinct
<1>3. ResolvedFits(j)' BY DEF ResolvedFits
<1>4. ChainAt(j)' BY DEF ChainAt, Remedy
<1>5. OwnChained(j)' /\ KeptFits(j)' BY <1>1 DEF OwnChained, KeptFits
<1> QED BY <1>2, <1>3, <1>4, <1>5 DEF FindingsFit

LEMMA BeginFits ==
    ASSUME Known, NEW j \in Jobs, NEW kind \in Kinds, NEW dirty \in Changes,
           Execute(j, kind, dirty)
    PROVE  Frame(j) /\ FindingsFit(j)'
<1>0. TypeOK /\ ShapeInvariant BY DEF Known, ShapeInvariant
<1>1. Owned(j) = {} /\ run[j].ids = <<>> BY NoneYet DEF Execute, At, Early
<1>2. Stands(j) /\ finding' = finding /\ journal' = journal BY <1>0, BeginShape DEF Execute
<1>3. (\A k \in Jobs \ {j} : row'[k] = row[k]) /\ row'[j].status = "running"
  BY <1>0 DEF Execute, StartJob, TypeOK
<1>4. run'[j].pc = "started" BY <1>0, IdleRunIs DEF Execute, TypeOK, Run
<1>5. run'[j].ids = <<>> BY <1>2, <1>4 DEF Stands, PlaceFits, Early
<1>6. Frame(j) BY <1>1, <1>2, <1>3 DEF Frame, Stands
<1>7. Owned(j)' = {} BY <1>1, <1>2 DEF Owned
<1> QED BY <1>3, <1>4, <1>5, <1>6, <1>7, NothingFits DEF Remedy

LEMMA PrepareFits ==
    ASSUME Known, NEW j \in Jobs, Prepare(j) PROVE Frame(j) /\ FindingsFit(j)'
<1>0. TypeOK /\ ShapeInvariant BY DEF Known, ShapeInvariant
<1>1. Owned(j) = {} /\ run[j].ids = <<>> /\ row[j].status # "completed"
  BY NoneYet DEF Prepare, At, Early
<1>2. Stands(j) /\ finding' = finding /\ \A k \in Jobs \ {j} : journal'[k] = journal[k]
  BY <1>0, PrepareShape
<1>3. row' = row BY DEF Prepare
<1>4. Went(j, "scan") \/ Went(j, "failing")
  <2>1. Goto(j, "scan") \/ Failing(j, "failed") BY Zenon DEF Prepare
  <2> QED BY <1>0, <2>1, GotoWent, FailingWent DEF Steps
<1>5. run'[j].ids = <<>> /\ run'[j].pc \notin Remedy BY <1>1, <1>4 DEF Went, Moves, Remedy
<1>6. Frame(j) BY <1>1, <1>2, <1>3 DEF Frame, Stands
<1>7. Owned(j)' = {} BY <1>1, <1>2 DEF Owned
<1> QED BY <1>1, <1>3, <1>5, <1>6, <1>7, NothingFits

LEMMA ScanFits ==
    ASSUME Known, NEW j \in Jobs, Scan(j) PROVE Frame(j) /\ FindingsFit(j)'
<1>0. TypeOK /\ ShapeInvariant BY DEF Known, ShapeInvariant
<1>1. /\ Owned(j) = {} /\ run[j].ids = <<>> /\ row[j].status # "completed"
      /\ ~Reported(j, "pentest_completed")
  BY NoneYet DEF Scan, At, Early
<1>2. CASE UNCHANGED tables /\ \E status \in {"failed", "interrupted"} : Failing(j, status)
  BY <1>2, FaultFits
<1>3. ASSUME NEW raw \in Reports \cup {<<>>}, Scanned(j, raw) PROVE Frame(j) /\ FindingsFit(j)'
  <2>0. PICK ids : ids = NormalizeFindings(raw) OBVIOUS
  <2>1. /\ Len(raw) \in Nat /\ Len(ids) = Len(raw) /\ (PlainIds => Distinct(ids))
        /\ (raw # <<>> => Len(raw) # 0)
    BY <2>0, ScannedIds
  <2>2. /\ run'[j].ids = ids /\ run'[j].at = 1 /\ UNCHANGED tables
        /\ run'[j].pc = IF raw = <<>> THEN "evidence" ELSE "record"
        /\ \A k \in Jobs \ {j} : run'[k] = run[k]
    BY <1>3, <2>0 DEF Scanned, Moves
  <2>3. Frame(j) BY <1>1, <2>2 DEF Frame, tables
  <2>4. Owned(j)' = {} BY <1>1, <2>2 DEF Owned, tables
  <2>5. OwnFits(j)' BY <2>1, <2>2, <2>4 DEF OwnFits, Distinct
  <2>6. ResolvedFits(j)' BY <1>1, <2>2, <2>4 DEF ResolvedFits, tables, Remedy
  <2>7. ChainAt(j)' /\ OwnChained(j)' BY <2>2, <2>4 DEF ChainAt, OwnChained
  <2>8. KeptFits(j)'
    <3>1. ~Reported(j, "pentest_completed")' BY <1>1, <2>2 DEF tables, Reported
    <3>2. CASE raw = <<>>
      <4>1. Len(raw) = 0 BY <3>2
      <4>2. Len(run'[j].ids) = 0 BY <2>1, <2>2, <4>1
      <4>3. Positions(j)' = {} BY <4>2 DEF Positions
      <4> QED BY <4>3 DEF KeptFits
    <3>3. CASE raw # <<>>
      <4>1. \A k \in Positions(j)' : ~(k < 1) BY <2>1, <2>2 DEF Positions
      <4> QED BY <3>1, <3>3, <4>1, <2>2 DEF KeptFits, Decided, Resolving, Remedy
    <3> QED BY <3>2, <3>3
  <2> QED BY <2>3, <2>5, <2>6, <2>7, <2>8 DEF FindingsFit
<1> QED BY <1>0, <1>2, <1>3, ScanIs

-------------------------------------------------------------------------------
(* A finding's row is written; the journal and the row of the job stay.        *)
LEMMA RecordFrame ==
    ASSUME Known, NEW j \in Jobs, run[j].pc \in Placed, NEW d \in Dispositions,
           NEW c, c = Current(j), RecordFinding(j, c, d), UNCHANGED <<row, journal>>,
           run'[j].ids = run[j].ids, \A k \in Jobs \ {j} : run'[k] = run[k]
    PROVE  /\ Frame(j) /\ Positions(j)' = Positions(j) /\ OwnFits(j)'
           /\ c \in Ids /\ run[j].at \in Positions(j) /\ run[j].ids[run[j].at] = c
           /\ finding'[c].job = j /\ (Retested(c)' <=> d = "retested")
           /\ Owned(j)' = Owned(j) \cup {c}
           /\ \A i \in Ids \ {c} : Retested(i)' <=> Retested(i)
           /\ \A m \in Positions(j) : Kept(j, run[j].ids[m]) => Kept(j, run[j].ids[m])'
<1>0. TypeOK /\ ShapeInvariant /\ FindingsFit(j) BY DEF Known, ShapeInvariant, FindingsInvariant
<1>1. c \in Ids /\ run[j].at \in Positions(j) BY <1>0, CurrentIn
<1>2. /\ finding'[c].job = j /\ finding'[c].disposition = d
      /\ \A n \in Ids : n # c => finding'[n] = finding[n]
  BY <1>0, <1>1, RecordWrites
<1>3. Positions(j)' = Positions(j) BY DEF Positions
<1>4. run[j].ids[run[j].at] = c /\ run[j].at \in Nat BY <1>1 DEF Current, Positions
<1>5. Frame(j) BY <1>1, <1>2, <1>3, <1>4 DEF Frame
<1>6. Owned(j)' = Owned(j) \cup {c} BY <1>1, <1>2 DEF Owned
<1>7. OwnFits(j)' BY <1>0, <1>1, <1>3, <1>4, <1>6 DEF FindingsFit, OwnFits
<1>8. \A m \in Positions(j) : Kept(j, run[j].ids[m]) => Kept(j, run[j].ids[m])' BY <1>5, KeptNext
<1>9. (Retested(c)' <=> d = "retested") /\ \A i \in Ids \ {c} : Retested(i)' <=> Retested(i)
  BY <1>2 DEF Retested
<1> QED BY <1>1, <1>2, <1>3, <1>4, <1>5, <1>6, <1>7, <1>8, <1>9

LEMMA RecordFits ==
    ASSUME Known, NEW j \in Jobs, RecordFindings(j) PROVE Frame(j) /\ FindingsFit(j)'
<1> USE DEF Decided, Resolving, Remedy
<1>0. /\ TypeOK /\ ShapeInvariant /\ FindingsFit(j) /\ run[j].pc \in Placed
      /\ run[j].pc \in {"record", "announce"} /\ row[j].status # "completed"
      /\ ~Reported(j, "pentest_completed")
  BY DEF Known, ShapeInvariant, FindingsInvariant, FindingsFit, ResolvedFits, RecordFindings, At,
     Placed, Recording, JobsInvariant, JobFits
<1>1. CASE Failing(j, "failed") /\ UNCHANGED tables BY <1>1, FaultFits
<1>2. CASE /\ run[j].pc = "record" /\ RecordFinding(j, Current(j), "") /\ Goto(j, "announce")
           /\ UNCHANGED <<row, journal>>
  <2>1. Went(j, "announce") BY <1>0, <1>2, GotoWent DEF Steps
  <2>2. /\ run'[j].pc = "announce" /\ run'[j].ids = run[j].ids /\ run'[j].at = run[j].at
        /\ \A k \in Jobs \ {j} : run'[k] = run[k]
    BY <2>1 DEF Went, Moves
  <2>3. PICK c : c = Current(j) OBVIOUS
  <2>4. "" \in Dispositions BY DEF Dispositions
  <2>5. /\ Frame(j) /\ Positions(j)' = Positions(j) /\ OwnFits(j)'
        /\ c \in Ids /\ run[j].at \in Positions(j) /\ run[j].ids[run[j].at] = c
        /\ finding'[c].job = j /\ ~Retested(c)'
        /\ Owned(j)' = Owned(j) \cup {c}
        /\ \A i \in Ids \ {c} : Retested(i)' <=> Retested(i)
        /\ \A m \in Positions(j) : Kept(j, run[j].ids[m]) => Kept(j, run[j].ids[m])'
    <3>1. PICK d \in Dispositions : d = "" BY <2>4
    <3>2. RecordFinding(j, c, d) /\ UNCHANGED <<row, journal>> BY <1>2, <2>3, <3>1
    <3>3. (Retested(c)' <=> d = "retested") => ~Retested(c)' BY <3>1
    <3> QED BY <1>0, <2>2, <2>3, <3>2, <3>3, RecordFrame
  <2>6. ResolvedFits(j)' BY <1>0, <1>2, <2>2 DEF ResolvedFits
  <2>7. ChainAt(j)' BY <2>2 DEF ChainAt
  <2>8. OwnChained(j)' BY <1>0, <1>2, <2>5 DEF FindingsFit, OwnChained, Chained, Owned
  <2>9. KeptFits(j)'
    <3>1. Kept(j, c)' BY <2>5 DEF Kept
    <3>3. \A m \in Positions(j) : m < run[j].at => Kept(j, run[j].ids[m])'
      BY <1>0, <1>2, <2>5 DEF FindingsFit, KeptFits
    <3>4. \A m \in Positions(j) : m <= run[j].at => m < run[j].at \/ m = run[j].at
      BY <2>5 DEF Positions
    <3>5. ASSUME NEW m \in Positions(j), m <= run[j].at PROVE Kept(j, run[j].ids[m])'
      <4>1. CASE m < run[j].at BY <4>1, <3>3
      <4>2. CASE m = run[j].at BY <4>2, <3>1, <2>2, <2>5 DEF Kept
      <4> QED BY <3>4, <3>5, <4>1, <4>2
    <3>6. ~Reported(j, "pentest_completed")' BY <1>0, <1>2 DEF Reported
    <3> QED BY <2>2, <2>5, <3>5, <3>6 DEF KeptFits
  <2> QED BY <2>5, <2>6, <2>7, <2>8, <2>9 DEF FindingsFit
<1>3. CASE /\ run[j].pc = "announce" /\ AppendEvent(j, "finding_observed", Current(j)) /\ UNCHANGED <<row, finding>>
           /\ run' = [run EXCEPT ![j] =
                Advanced(j, "record", IF run[j].kind = "active" THEN "validate" ELSE "reportOnly")]
  <2> DEFINE past == IF run[j].kind = "active" THEN "validate" ELSE "reportOnly"
  <2>1. past \in Steps \ Early /\ "record" \in Placed BY DEF Steps, Early, Placed, Recording
  <2>2. run' = [run EXCEPT ![j] = Advanced(j, "record", past)] BY <1>3
  <2>3. past \in {"validate", "reportOnly"} OBVIOUS
  <2> HIDE DEF past
  <2>4. /\ Moves(j, run'[j].pc, run[j].ids, run[j].disposition, run'[j].at)
        /\ run[j].at = Len(run[j].ids) => run'[j].at = 1 /\ run'[j].pc = past
        /\ run[j].at # Len(run[j].ids) => run'[j].at = run[j].at + 1 /\ run'[j].pc = "record"
    BY <1>0, <2>1, <2>2, AdvancedMoves
  <2>5. /\ journal[j] \subseteq journal'[j] /\ \A k \in Jobs \ {j} : journal'[k] = journal[k]
        /\ journal'[j] = journal[j] \cup {<<"finding_observed", Current(j)>>}
    BY <1>0, <1>3, AppendNotes
  <2>6. Quiet(j) /\ run'[j].ids = run[j].ids BY <1>3, <2>4, <2>5 DEF Quiet, Moves
  <2>7. /\ Frame(j) /\ OwnFits(j)' /\ OwnChained(j)' /\ Positions(j)' = Positions(j)
        /\ Owned(j)' = Owned(j) /\ \A i \in Ids : Retested(i)' <=> Retested(i)
        /\ \A m \in Positions(j) : Kept(j, run[j].ids[m]) => Kept(j, run[j].ids[m])'
    BY <2>6, QuietKeeps
  <2>8. run[j].at \in Positions(j) /\ Positions(j) \subseteq Nat /\ Len(run[j].ids) \in Nat
    BY <1>0, CurrentIn DEF Positions, TypeOK, Run
  <2>9. ~Reported(j, "pentest_completed")' BY <1>0, <2>5 DEF Reported
  <2>10. CASE run[j].at = Len(run[j].ids)
    <3>1. run'[j].pc = past /\ run'[j].at = 1 BY <2>4, <2>10
    <3>2. \A m \in Positions(j) : m >= 1 /\ m <= run[j].at BY <2>8, <2>10 DEF Positions
    <3>3. ResolvedFits(j)'
      BY <1>0, <1>3, <2>3, <2>6, <2>7, <3>1, <3>2 DEF FindingsFit, OwnFits, ResolvedFits
    <3>4. ChainAt(j)' BY <2>3, <3>1 DEF ChainAt
    <3>5. KeptFits(j)' BY <1>0, <1>3, <2>6, <2>7, <3>2 DEF FindingsFit, KeptFits
    <3> QED BY <2>7, <3>3, <3>4, <3>5 DEF FindingsFit
  <2>11. CASE run[j].at # Len(run[j].ids)
    <3>1. run'[j].pc = "record" /\ run'[j].at = run[j].at + 1 BY <2>4, <2>11
    <3>2. \A m \in Positions(j) : m < run[j].at + 1 => m <= run[j].at BY <2>8 DEF Positions
    <3>3. ResolvedFits(j)' BY <1>0, <1>3, <3>1 DEF ResolvedFits
    <3>4. ChainAt(j)' BY <3>1 DEF ChainAt
    <3>5. KeptFits(j)' BY <1>0, <1>3, <2>6, <2>7, <2>9, <3>1, <3>2 DEF FindingsFit, KeptFits
    <3> QED BY <2>7, <3>3, <3>4, <3>5 DEF FindingsFit
  <2> QED BY <2>10, <2>11
<1> QED BY <1>1, <1>2, <1>3 DEF RecordFindings, Write, At

(* The current finding is given its last disposition.                          *)
LEMMA CloseFits ==
    ASSUME Known, NEW j \in Jobs, run[j].pc \in {"reportOnly", "dispose"}, NEW d \in Dispositions,
           RecordFinding(j, Current(j), d), UNCHANGED <<row, journal>>,
           NEW pc, NEW s, NEW at, Moves(j, pc, run[j].ids, s, at),
           s[run[j].at] = d, \A k \in Positions(j) : k # run[j].at => s[k] = run[j].disposition[k],
           run[j].at = Len(run[j].ids) => pc = "settle",
           run[j].at # Len(run[j].ids) => at = run[j].at + 1 /\ pc \in {"reportOnly", "validate"},
           d = "retested" => Chained(j, Current(j))
    PROVE  Frame(j) /\ FindingsFit(j)'
<1> USE DEF Decided, Resolving, Remedy
<1>0. /\ TypeOK /\ ShapeInvariant /\ FindingsFit(j) /\ run[j].pc \in Placed /\ row[j].status # "completed"
  BY DEF Known, ShapeInvariant, FindingsInvariant, FindingsFit, ResolvedFits, Placed
<1>1. /\ run'[j].pc = pc /\ run'[j].ids = run[j].ids /\ run'[j].at = at /\ run'[j].disposition = s
      /\ \A k \in Jobs \ {j} : run'[k] = run[k]
  BY DEF Moves
<1>2. PICK c : c = Current(j) OBVIOUS
<1>3. /\ Frame(j) /\ Positions(j)' = Positions(j) /\ OwnFits(j)'
      /\ c \in Ids /\ run[j].at \in Positions(j) /\ run[j].ids[run[j].at] = c
      /\ finding'[c].job = j /\ (Retested(c)' <=> d = "retested")
      /\ Owned(j)' = Owned(j) \cup {c}
      /\ \A i \in Ids \ {c} : Retested(i)' <=> Retested(i)
      /\ \A m \in Positions(j) : Kept(j, run[j].ids[m]) => Kept(j, run[j].ids[m])'
  BY <1>0, <1>1, <1>2, RecordFrame
<1>4. Positions(j) \subseteq Nat /\ Len(run[j].ids) \in Nat /\ \A k \in Positions(j) : k <= Len(run[j].ids)
  BY <1>0 DEF Positions, TypeOK, Run
<1>5. pc \in {"settle", "reportOnly", "validate"} OBVIOUS
<1>6. \A i \in Owned(j) :
        \/ Retested(i)
        \/ \E k \in Positions(j) : k < run[j].at /\ run[j].disposition[k] # "retested"
        \/ \E k \in Positions(j) : k >= run[j].at /\ run[j].ids[k] = i
  BY <1>0 DEF FindingsFit, ResolvedFits
<1>7. \A i \in Owned(j)' :
        \/ Retested(i)'
        \/ \E k \in Positions(j) : k <= run[j].at /\ s[k] # "retested"
        \/ \E k \in Positions(j) : k > run[j].at /\ run[j].ids[k] = i
  <2> SUFFICES ASSUME NEW i \in Owned(j)', ~Retested(i)'
               PROVE  \/ \E k \in Positions(j) : k <= run[j].at /\ s[k] # "retested"
                      \/ \E k \in Positions(j) : k > run[j].at /\ run[j].ids[k] = i
    OBVIOUS
  <2>1. CASE i = c BY <2>1, <1>3, <1>4
  <2>2. CASE i # c
    <3>1. i \in Owned(j) /\ ~Retested(i) BY <2>2, <1>3 DEF Owned
    <3>2. CASE \E k \in Positions(j) : k < run[j].at /\ run[j].disposition[k] # "retested"
      <4>1. PICK k \in Positions(j) : k < run[j].at /\ run[j].disposition[k] # "retested" BY <3>2
      <4>2. k # run[j].at /\ k <= run[j].at BY <4>1, <1>3, <1>4
      <4> QED BY <4>1, <4>2
    <3>3. CASE \E k \in Positions(j) : k >= run[j].at /\ run[j].ids[k] = i
      <4>1. PICK k \in Positions(j) : k >= run[j].at /\ run[j].ids[k] = i BY <3>3
      <4>2. k > run[j].at BY <4>1, <2>2, <1>3, <1>4
      <4> QED BY <4>1, <4>2
    <3> QED BY <3>1, <3>2, <3>3, <1>6
  <2> QED BY <2>1, <2>2
<1>8. ResolvedFits(j)'
  <2>1. CASE run[j].at = Len(run[j].ids)
    <3>1. \A k \in Positions(j) : ~(k > run[j].at) BY <2>1, <1>3, <1>4
    <3>2. pc = "settle" BY <2>1
    <3> QED BY <3>1, <3>2, <1>0, <1>1, <1>3, <1>7 DEF ResolvedFits
  <2>2. CASE run[j].at # Len(run[j].ids)
    <3>1. /\ at = run[j].at + 1 /\ pc \in {"reportOnly", "validate"}
          /\ \A k \in Positions(j) : (k <= run[j].at <=> k < at) /\ (k > run[j].at <=> k >= at)
      BY <2>2, <1>3, <1>4
    <3> QED BY <3>1, <1>0, <1>1, <1>3, <1>7 DEF ResolvedFits
  <2> QED BY <2>1, <2>2
<1>9. ChainAt(j)' BY <1>1, <1>5 DEF ChainAt
<1>10. OwnChained(j)'
  <2>1. d = "retested" => Chained(j, c) BY <1>2
  <2>2. \A i \in Ids : Chained(j, i)' <=> Chained(j, i) BY DEF Chained
  <2> QED BY <2>1, <2>2, <1>0, <1>3 DEF FindingsFit, OwnChained, Owned
<1>11. KeptFits(j)' BY <1>0, <1>1, <1>3 DEF FindingsFit, KeptFits
<1> QED BY <1>3, <1>8, <1>9, <1>10, <1>11 DEF FindingsFit

-------------------------------------------------------------------------------
LEMMA ReportOnlyFits ==
    ASSUME Known, NEW j \in Jobs, ReportOnly(j) PROVE Frame(j) /\ FindingsFit(j)'
<1>0. TypeOK /\ ShapeInvariant /\ run[j].pc = "reportOnly" /\ run[j].pc \in Placed
  BY DEF Known, ShapeInvariant, ReportOnly, At, Placed
<1>1. CASE Failing(j, "failed") /\ UNCHANGED tables BY <1>1, FaultFits
<1>2. CASE /\ RecordFinding(j, Current(j), "report_only") /\ UNCHANGED <<row, journal>>
           /\ run' = [run EXCEPT ![j] = [Advanced(j, "reportOnly", "settle")
                                           EXCEPT !.disposition[run[j].at] = "report_only"]]
  <2> DEFINE first == Advanced(j, "reportOnly", "settle")
             t == run[j].disposition
             at == run[j].at
             s == [t EXCEPT ![at] = "report_only"]
             rec == [first EXCEPT !.disposition[run[j].at] = "report_only"]
  <2>1. t \in Seq(Dispositions) /\ at \in 1..Len(t) /\ "report_only" \in Dispositions /\ Len(t) = Len(run[j].ids)
    BY <1>0, CurrentIn DEF TypeOK, Run, ShapeInvariant, PlaceFits, Dispositions
  <2>2. first \in Run /\ first.ids = run[j].ids /\ first.disposition = t
    <3>1. TypeOK /\ "reportOnly" \in Steps /\ "settle" \in Steps BY <1>0 DEF Steps
    <3> QED BY <3>1, AdvancedIs
  <2>3. /\ at = Len(run[j].ids) => first.at = 1 /\ first.pc = "settle"
        /\ at # Len(run[j].ids) => first.at = at + 1 /\ first.pc = "reportOnly"
    <3>1. TypeOK /\ "reportOnly" \in Steps /\ "settle" \in Steps BY <1>0 DEF Steps
    <3> QED BY <3>1, AdvancedIs
  <2>4. run' = [run EXCEPT ![j] = rec] BY <1>2
  <2> HIDE DEF first, t, at
  <2>5. /\ s \in Seq(Dispositions) /\ s[at] = "report_only"
        /\ \A k \in 1..Len(t) : k # at => s[k] = t[k]
    BY <2>1, SetDisposition
  <2>6. rec \in Run /\ rec.ids = run[j].ids /\ rec.disposition = s /\ rec.at = first.at /\ rec.pc = first.pc
    BY <2>2, <2>5 DEF Run, at
  <2> HIDE DEF rec, s
  <2>7. Moves(j, first.pc, run[j].ids, s, first.at) BY <1>0, <2>4, <2>6, SetMoves
  <2>8. s[run[j].at] = "report_only" /\ \A k \in Positions(j) : k # run[j].at => s[k] = run[j].disposition[k]
    BY <2>1, <2>5 DEF at, t, Positions
  <2>9. /\ run[j].at = Len(run[j].ids) => first.pc = "settle"
        /\ run[j].at # Len(run[j].ids) => first.at = run[j].at + 1 /\ first.pc \in {"reportOnly", "validate"}
    BY <2>3 DEF at
  <2>10. PICK d \in Dispositions : d = "report_only" BY <2>1
  <2>11. d # "retested" /\ s[run[j].at] = d /\ RecordFinding(j, Current(j), d) BY <2>8, <2>10, <1>2
  <2>12. PICK pc, place : pc = first.pc /\ place = first.at OBVIOUS
  <2> QED BY <1>0, <1>2, <2>7, <2>8, <2>9, <2>11, <2>12, CloseFits
<1> QED BY <1>1, <1>2 DEF ReportOnly, Write

LEMMA DisposeFits ==
    ASSUME Known, NEW j \in Jobs, Dispose(j) PROVE Frame(j) /\ FindingsFit(j)'
<1>0. /\ TypeOK /\ ShapeInvariant /\ FindingsFit(j) /\ run[j].pc = "dispose" /\ run[j].pc \in Placed
  BY DEF Known, ShapeInvariant, FindingsInvariant, Dispose, At, Placed, Remedy
<1>1. CASE Failing(j, "failed") /\ UNCHANGED tables BY <1>1, FaultFits
<1>2. CASE /\ RecordFinding(j, Current(j), run[j].disposition[run[j].at]) /\ UNCHANGED <<row, journal>>
           /\ run' = [run EXCEPT ![j] = Advanced(j, "validate", "settle")]
  <2>1. "settle" \in Steps \ Early /\ "validate" \in Placed BY DEF Steps, Early, Placed, Remedy
  <2>2. /\ Moves(j, run'[j].pc, run[j].ids, run[j].disposition, run'[j].at)
        /\ run[j].at = Len(run[j].ids) => run'[j].at = 1 /\ run'[j].pc = "settle"
        /\ run[j].at # Len(run[j].ids) => run'[j].at = run[j].at + 1 /\ run'[j].pc = "validate"
    BY <1>0, <1>2, <2>1, AdvancedMoves
  <2>3. PICK d \in Dispositions : d = run[j].disposition[run[j].at] BY <1>0, CurrentIn
  <2>4. d = "retested" => Chained(j, Current(j)) BY <1>0, <2>3 DEF FindingsFit, ChainAt
  <2>5. RecordFinding(j, Current(j), d) BY <1>2, <2>3
  <2>6. PICK s, pc, at : s = run[j].disposition /\ pc = run'[j].pc /\ at = run'[j].at OBVIOUS
  <2> QED BY <1>0, <1>2, <2>2, <2>3, <2>4, <2>5, <2>6, CloseFits
<1> QED BY <1>1, <1>2 DEF Dispose, Write

(* A step of the remediation that does not come to its end.                    *)
LEMMA OnwardFits ==
    ASSUME Known, NEW j \in Jobs, run[j].pc \in Remedy, Quiet(j), row'[j] = row[j],
           NEW pc \in Remedy, NEW s, Moves(j, pc, run[j].ids, s, run[j].at),
           \A k \in Positions(j) : k # run[j].at => s[k] = run[j].disposition[k],
           ChainAt(j)'
    PROVE  Frame(j) /\ FindingsFit(j)'
<1> USE DEF Decided, Resolving, Remedy
<1>0. FindingsFit(j) /\ row[j].status # "completed"
  BY DEF Known, FindingsInvariant, FindingsFit, ResolvedFits
<1>1. /\ run'[j].pc = pc /\ run'[j].ids = run[j].ids /\ run'[j].at = run[j].at /\ run'[j].disposition = s
  BY DEF Moves
<1>2. /\ Frame(j) /\ OwnFits(j)' /\ OwnChained(j)' /\ Positions(j)' = Positions(j)
      /\ Owned(j)' = Owned(j) /\ \A i \in Ids : Retested(i)' <=> Retested(i)
      /\ \A m \in Positions(j) : Kept(j, run[j].ids[m]) => Kept(j, run[j].ids[m])'
  BY <1>1, QuietKeeps
<1>3. \A k \in Positions(j) : k < run[j].at => k # run[j].at
  <2>1. run[j].at \in Nat /\ Positions(j) \subseteq Nat BY DEF Known, ShapeInvariant, TypeOK, Run, Positions
  <2> QED BY <2>1
<1>4. \A i \in Owned(j) :
        \/ Retested(i)
        \/ \E k \in Positions(j) : k < run[j].at /\ run[j].disposition[k] # "retested"
        \/ \E k \in Positions(j) : k >= run[j].at /\ run[j].ids[k] = i
  BY <1>0 DEF FindingsFit, ResolvedFits
<1>5. ResolvedFits(j)' BY <1>0, <1>1, <1>2, <1>3, <1>4 DEF ResolvedFits, Owned
<1>6. KeptFits(j)' BY <1>0, <1>1, <1>2 DEF FindingsFit, KeptFits
<1> QED BY <1>2, <1>5, <1>6 DEF FindingsFit

LEMMA DecidedFits ==
    ASSUME Known, NEW j \in Jobs, run[j].pc \in Remedy, Quiet(j), row'[j] = row[j],
           NEW d \in {"unresolved", "retested"}, Decide(j, d),
           d = "retested" => Chained(j, Current(j))
    PROVE  Frame(j) /\ FindingsFit(j)'
<1>0. ShapeInvariant /\ run[j].pc \in Placed /\ d \in Dispositions BY DEF Known, Placed, Dispositions
<1>1. PICK t, at : t = run[j].disposition /\ at = run[j].at OBVIOUS
<1>2. PICK s : s = [t EXCEPT ![at] = d] OBVIOUS
<1>3. Moves(j, "dispose", run[j].ids, s, run[j].at) BY <1>0, <1>1, <1>2, DecideMoves
<1>4. t \in Seq(Dispositions) /\ at \in 1..Len(t) /\ Len(t) = Len(run[j].ids)
  BY <1>0, <1>1, CurrentIn DEF ShapeInvariant, PlaceFits, TypeOK, Run, Remedy
<1>5. s[at] = d /\ \A k \in 1..Len(t) : k # at => s[k] = t[k] BY <1>0, <1>2, <1>4, SetDisposition
<1>6. \A k \in Positions(j) : k # run[j].at => s[k] = run[j].disposition[k]
  BY <1>1, <1>4, <1>5 DEF Positions
<1>7. ChainAt(j)'
  <2>1. Current(j)' = Current(j) BY <1>3 DEF Moves, Current
  <2> QED BY <1>1, <1>3, <1>5, <2>1 DEF Moves, ChainAt, Chained, Quiet
<1> QED BY <1>3, <1>6, <1>7, OnwardFits DEF Remedy

LEMMA GoneFits ==
    ASSUME Known, NEW j \in Jobs, run[j].pc \in Remedy, Quiet(j), row'[j] = row[j],
           NEW pc \in {"fix", "apply", "observe", "verify", "retest", "rescan"}, Goto(j, pc),
           <<"finding_validated", Current(j)>> \in journal'[j],
           pc \in {"apply", "observe", "verify", "retest", "rescan"} =>
              <<"fix_requested", Current(j)>> \in journal'[j],
           pc \in {"observe", "verify", "retest", "rescan"} => <<"fix_applied", Current(j)>> \in journal'[j],
           pc \in {"retest", "rescan"} => <<"verified", Current(j)>> \in journal'[j]
    PROVE  Frame(j) /\ FindingsFit(j)'
<1>1. Went(j, pc) BY GotoWent DEF Known, ShapeInvariant, Steps
<1>2. Moves(j, pc, run[j].ids, run[j].disposition, run[j].at) BY <1>1 DEF Went
<1>3. Current(j)' = Current(j) BY <1>2 DEF Moves, Current
<1>4. ChainAt(j)' BY <1>2, <1>3 DEF Moves, ChainAt
<1> QED BY <1>2, <1>4, OnwardFits DEF Remedy

LEMMA RemedyFits ==
    ASSUME Known, NEW j \in Jobs,
           \/ ValidateFinding(j) \/ RequestFix(j) \/ ApplyFix(j) \/ ObserveFix(j)
           \/ RunVerification(j) \/ Retest(j)
    PROVE  Frame(j) /\ FindingsFit(j)'
<1> USE DEF At
<1>0. /\ TypeOK /\ ShapeInvariant /\ FindingsFit(j) /\ ChainAt(j) /\ run[j].pc \in Remedy
  BY DEF Known, ShapeInvariant, FindingsInvariant, FindingsFit, ValidateFinding, RequestFix, ApplyFix,
     ObserveFix, RunVerification, Retest, Remedy
<1>1. ASSUME Failing(j, "failed") /\ UNCHANGED tables PROVE Frame(j) /\ FindingsFit(j)'
  BY <1>1, FaultFits
<1>4. ASSUME NEW kind, AppendEvent(j, kind, Current(j)), UNCHANGED <<row, finding>>,
             \A k \in Jobs \ {j} : run'[k] = run[k]
      PROVE  Quiet(j) /\ row'[j] = row[j] /\ journal'[j] = journal[j] \cup {<<kind, Current(j)>>}
  BY <1>0, <1>4, AppendNotes DEF Quiet
<1>5. ASSUME \/ \E d : Decide(j, d)
             \/ \E pc : Goto(j, pc)
      PROVE  \A k \in Jobs \ {j} : run'[k] = run[k]
  BY <1>0, <1>5 DEF Decide, Goto, TypeOK
<1>6. ASSUME UNCHANGED tables, (\E d : Decide(j, d)) \/ \E pc : Goto(j, pc)
      PROVE  Quiet(j) /\ row'[j] = row[j] /\ journal'[j] = journal[j]
  BY <1>5, <1>6 DEF Quiet, tables
<1>7. CASE ValidateFinding(j)
  <2>1. CASE Decide(j, "unresolved") /\ UNCHANGED tables BY <1>0, <1>6, <2>1, DecidedFits
  <2>2. CASE /\ AppendEvent(j, "finding_validated", Current(j)) /\ UNCHANGED <<row, finding>>
             /\ Decide(j, "unresolved")
    BY <1>0, <1>4, <1>5, <2>2, DecidedFits
  <2>3. CASE /\ AppendEvent(j, "finding_validated", Current(j)) /\ UNCHANGED <<row, finding>>
             /\ Goto(j, "fix")
    <3>1. Quiet(j) /\ row'[j] = row[j] /\ <<"finding_validated", Current(j)>> \in journal'[j]
      BY <1>4, <1>5, <2>3
    <3> QED BY <1>0, <2>3, <3>1, GoneFits
  <2> QED BY <1>1, <1>7, <2>1, <2>2, <2>3 DEF ValidateFinding, Write
<1>8. CASE RequestFix(j)
  <2>1. CASE AppendEvent(j, "fix_requested", Current(j)) /\ Goto(j, "apply") /\ UNCHANGED <<row, finding>>
    <3>1. Quiet(j) /\ row'[j] = row[j] /\ journal'[j] = journal[j] \cup {<<"fix_requested", Current(j)>>}
      BY <1>4, <1>5, <2>1
    <3>2. <<"finding_validated", Current(j)>> \in journal[j] BY <1>0, <1>8 DEF RequestFix, ChainAt
    <3> QED BY <1>0, <2>1, <3>1, <3>2, GoneFits
  <2> QED BY <1>1, <1>8, <2>1 DEF RequestFix, Write
<1>9. CASE ApplyFix(j)
  <2>1. CASE Decide(j, "unresolved") /\ UNCHANGED tables BY <1>0, <1>6, <2>1, DecidedFits
  <2>2. CASE AppendEvent(j, "fix_applied", Current(j)) /\ Goto(j, "observe") /\ UNCHANGED <<row, finding>>
    <3>1. Quiet(j) /\ row'[j] = row[j] /\ journal'[j] = journal[j] \cup {<<"fix_applied", Current(j)>>}
      BY <1>4, <1>5, <2>2
    <3>2. {<<"finding_validated", Current(j)>>, <<"fix_requested", Current(j)>>} \subseteq journal[j]
      BY <1>0, <1>9 DEF ApplyFix, ChainAt
    <3> QED BY <1>0, <2>2, <3>1, <3>2, GoneFits
  <2> QED BY <1>1, <1>9, <2>1, <2>2 DEF ApplyFix, Write
<1>10. CASE ObserveFix(j)
  <2>1. CASE Decide(j, "unresolved") BY <1>0, <1>6, <1>10, <2>1, DecidedFits DEF ObserveFix
  <2>2. CASE Goto(j, "verify")
    <3>1. {<<"finding_validated", Current(j)>>, <<"fix_requested", Current(j)>>,
           <<"fix_applied", Current(j)>>} \subseteq journal[j]
      BY <1>0, <1>10 DEF ObserveFix, ChainAt
    <3> QED BY <1>0, <1>6, <1>10, <2>2, <3>1, GoneFits DEF ObserveFix
  <2> QED BY <1>10, <2>1, <2>2 DEF ObserveFix
<1>11. CASE RunVerification(j)
  <2>1. CASE Decide(j, "unresolved") /\ UNCHANGED tables BY <1>0, <1>6, <2>1, DecidedFits
  <2>2. CASE AppendEvent(j, "verified", Current(j)) /\ Goto(j, "retest") /\ UNCHANGED <<row, finding>>
    <3>1. Quiet(j) /\ row'[j] = row[j] /\ journal'[j] = journal[j] \cup {<<"verified", Current(j)>>}
      BY <1>4, <1>5, <2>2
    <3>2. {<<"finding_validated", Current(j)>>, <<"fix_requested", Current(j)>>,
           <<"fix_applied", Current(j)>>} \subseteq journal[j]
      BY <1>0, <1>11 DEF RunVerification, ChainAt
    <3> QED BY <1>0, <2>2, <3>1, <3>2, GoneFits
  <2> QED BY <1>1, <1>11, <2>1, <2>2 DEF RunVerification, Write
<1>12. CASE Retest(j)
  <2>1. UNCHANGED tables /\ (Failing(j, "failed") \/ Goto(j, "rescan")
                                \/ \E d \in {"unresolved", "retested"} : Decide(j, d))
    BY <1>12 DEF Retest, RecordArtifact, Write
  <2>2. {<<"finding_validated", Current(j)>>, <<"fix_requested", Current(j)>>,
         <<"fix_applied", Current(j)>>, <<"verified", Current(j)>>} \subseteq journal[j]
    BY <1>0, <1>12 DEF Retest, ChainAt
  <2>3. Chained(j, Current(j)) BY <2>2 DEF Chained, Links
  <2>4. CASE Goto(j, "rescan") BY <1>0, <1>6, <2>1, <2>2, <2>4, GoneFits
  <2>5. ASSUME NEW d \in {"unresolved", "retested"}, Decide(j, d) PROVE Frame(j) /\ FindingsFit(j)'
    BY <1>0, <1>6, <2>1, <2>3, <2>5, DecidedFits
  <2> QED BY <1>1, <2>1, <2>4, <2>5
<1> QED BY <1>7, <1>8, <1>9, <1>10, <1>11, <1>12

-------------------------------------------------------------------------------
(* A step between two of the steps that come after the findings.               *)
LEMMA DecidedStepFits ==
    ASSUME Known, NEW j \in Jobs, Quiet(j), run[j].pc \in Decided, NEW pc \in Decided \ {"settle"},
           Went(j, pc),
           pc \in Resolving => \A i \in Owned(j) : Retested(i),
           row'[j].status = "completed" =>
              /\ row'[j].evidence = TRUE /\ pc \in {"completedEvent", "report"}
              /\ \A i \in Owned(j) : Retested(i)
    PROVE  Frame(j) /\ FindingsFit(j)'
<1> USE DEF Decided, Resolving, Remedy
<1>0. FindingsFit(j) BY DEF Known, FindingsInvariant
<1>1. run'[j].pc = pc /\ run'[j].ids = run[j].ids BY DEF Went, Moves
<1>2. /\ Frame(j) /\ OwnFits(j)' /\ OwnChained(j)' /\ Positions(j)' = Positions(j)
      /\ Owned(j)' = Owned(j) /\ \A i \in Ids : Retested(i)' <=> Retested(i)
      /\ \A m \in Positions(j) : Kept(j, run[j].ids[m]) => Kept(j, run[j].ids[m])'
  BY <1>1, QuietKeeps
<1>3. ResolvedFits(j)' BY <1>1, <1>2 DEF ResolvedFits, Owned
<1>4. ChainAt(j)' BY <1>1 DEF ChainAt
<1>5. KeptFits(j)' BY <1>0, <1>1, <1>2 DEF FindingsFit, KeptFits
<1> QED BY <1>2, <1>3, <1>4, <1>5 DEF FindingsFit

LEMMA SettleFits ==
    ASSUME Known, NEW j \in Jobs, Settle(j) PROVE Frame(j) /\ FindingsFit(j)'
<1>0. TypeOK /\ FindingsFit(j) /\ run[j].pc = "settle"
  BY DEF Known, ShapeInvariant, FindingsInvariant, Settle, At
<1>1. row[j].status # "completed" BY <1>0 DEF FindingsFit, ResolvedFits
<1>2. \A i \in Owned(j) : Retested(i) \/ \E k \in Positions(j) : run[j].disposition[k] # "retested"
  BY <1>0 DEF FindingsFit, ResolvedFits
<1>3. UNCHANGED tables BY DEF Settle
<1>4. CASE Goto(j, "evidence") /\ \A k \in Positions(j) : run[j].disposition[k] = "retested"
  <2>1. Went(j, "evidence") BY <1>0, <1>4, GotoWent DEF Steps
  <2>2. \A i \in Owned(j) : Retested(i) BY <1>2, <1>4
  <2>3. Quiet(j) BY <1>3, <2>1 DEF Quiet, Went, Moves, tables
  <2> QED BY <1>0, <1>1, <1>3, <2>1, <2>2, <2>3, DecidedStepFits DEF Decided, Resolving, tables
<1>5. CASE Goto(j, "findings")
  <2>1. Went(j, "findings") BY <1>0, <1>5, GotoWent DEF Steps
  <2>2. Quiet(j) BY <1>3, <2>1 DEF Quiet, Went, Moves, tables
  <2> QED BY <1>0, <1>1, <1>3, <2>1, <2>2, DecidedStepFits DEF Decided, Resolving, tables
<1> QED BY <1>4, <1>5 DEF Settle, Positions

LEMMA EndFits ==
    ASSUME Known, NEW j \in Jobs, SettleFindings(j) \/ Complete(j)
    PROVE  Frame(j) /\ FindingsFit(j)'
<1> USE DEF At
<1>0. /\ TypeOK /\ FindingsFit(j) /\ run[j].pc \in Decided
      /\ run[j].pc \in {"findings", "findingsEvidence", "findingsEvent", "evidence", "complete", "completedEvent"}
  BY DEF Known, ShapeInvariant, FindingsInvariant, SettleFindings, Complete, Decided, Resolving
<1>1. ASSUME Failing(j, "failed") /\ UNCHANGED tables PROVE Frame(j) /\ FindingsFit(j)'
  BY <1>1, FaultFits
<1>2. run[j].pc # "completedEvent" => row[j].status # "completed"
  BY <1>0 DEF FindingsFit, ResolvedFits
<1>3. run[j].pc \in Resolving => \A i \in Owned(j) : Retested(i) BY <1>0 DEF FindingsFit, ResolvedFits
<1>4. run[j].pc = "complete" => row[j].evidence = TRUE BY DEF Known, JobsInvariant, JobFits
<1>5. CASE /\ run[j].pc = "findings" /\ SetStatus(j, "findings") /\ Goto(j, "findingsEvidence")
           /\ UNCHANGED <<finding, journal>>
  <2>1. Went(j, "findingsEvidence") BY <1>0, <1>5, GotoWent DEF Steps
  <2>2. row'[j].status = "findings" /\ \A k \in Jobs \ {j} : row'[k] = row[k]
    BY <1>0, <1>5 DEF SetStatus, TypeOK
  <2>3. Quiet(j) BY <1>5, <2>1, <2>2 DEF Quiet, Went, Moves
  <2> QED BY <1>0, <2>1, <2>2, <2>3, DecidedStepFits DEF Decided, Resolving
<1>6. CASE /\ run[j].pc = "findingsEvidence" /\ SetEvidence(j) /\ Goto(j, "findingsEvent")
           /\ UNCHANGED <<finding, journal>>
  <2>1. Went(j, "findingsEvent") BY <1>0, <1>6, GotoWent DEF Steps
  <2>2. row'[j].status = row[j].status /\ \A k \in Jobs \ {j} : row'[k] = row[k]
    BY <1>0, <1>6 DEF SetEvidence, TypeOK
  <2>3. Quiet(j) BY <1>6, <2>1, <2>2 DEF Quiet, Went, Moves
  <2> QED BY <1>0, <1>2, <1>6, <2>1, <2>2, <2>3, DecidedStepFits DEF Decided, Resolving
<1>7. CASE /\ run[j].pc \in {"findingsEvent", "completedEvent"} /\ Goto(j, "report")
           /\ AppendEvent(j, "pentest_completed", NoId) /\ UNCHANGED <<row, finding>>
  <2>1. Went(j, "report") BY <1>0, <1>7, GotoWent DEF Steps
  <2>2. journal[j] \subseteq journal'[j] /\ \A k \in Jobs \ {j} : journal'[k] = journal[k]
    BY <1>0, <1>7, AppendNotes
  <2>3. Quiet(j) BY <1>7, <2>1, <2>2 DEF Quiet, Went, Moves
  <2>4. row[j].status = "completed" => row[j].evidence = TRUE /\ \A i \in Owned(j) : Retested(i)
    BY <1>0 DEF FindingsFit, ResolvedFits
  <2> QED BY <1>0, <1>7, <2>1, <2>3, <2>4, DecidedStepFits DEF Decided, Resolving
<1>8. CASE /\ run[j].pc = "evidence" /\ SetEvidence(j) /\ Goto(j, "complete")
           /\ UNCHANGED <<finding, journal>>
  <2>1. Went(j, "complete") BY <1>0, <1>8, GotoWent DEF Steps
  <2>2. row'[j].status = row[j].status /\ \A k \in Jobs \ {j} : row'[k] = row[k]
    BY <1>0, <1>8 DEF SetEvidence, TypeOK
  <2>3. Quiet(j) BY <1>8, <2>1, <2>2 DEF Quiet, Went, Moves
  <2> QED BY <1>0, <1>2, <1>3, <1>8, <2>1, <2>2, <2>3, DecidedStepFits DEF Decided, Resolving
<1>9. CASE /\ run[j].pc = "complete" /\ SetStatus(j, "completed") /\ Goto(j, "completedEvent")
           /\ UNCHANGED <<finding, journal>>
  <2>1. Went(j, "completedEvent") BY <1>0, <1>9, GotoWent DEF Steps
  <2>2. row'[j].evidence = row[j].evidence /\ \A k \in Jobs \ {j} : row'[k] = row[k]
    BY <1>0, <1>9 DEF SetStatus, TypeOK
  <2>3. Quiet(j) BY <1>9, <2>1, <2>2 DEF Quiet, Went, Moves
  <2> QED BY <1>0, <1>3, <1>4, <1>9, <2>1, <2>2, <2>3, DecidedStepFits DEF Decided, Resolving
<1>10. CASE SettleFindings(j)
  BY <1>1, <1>5, <1>6, <1>7, <1>10 DEF SettleFindings, WriteStatus, Write
<1>11. CASE Complete(j)
  BY <1>1, <1>7, <1>8, <1>9, <1>11 DEF Complete, WriteStatus, Write
<1> QED BY <1>10, <1>11

LEMMA StopFits ==
    ASSUME Known, NEW j \in Jobs, Stop(j) PROVE Frame(j) /\ FindingsFit(j)'
<1>0. TypeOK /\ FindingsFit(j) BY DEF Known, ShapeInvariant, FindingsInvariant
<1>1. UNCHANGED <<finding, journal, run>> BY DEF Stop
<1>2. row'[j].status = "stopped" /\ \A k \in Jobs \ {j} : row'[k] = row[k] BY <1>0 DEF Stop, TypeOK
<1>3. Frame(j) BY <1>1, <1>2 DEF Frame
<1>4. OwnFits(j)' BY <1>0, <1>1 DEF FindingsFit, OwnFits, Positions, Owned
<1>5. ResolvedFits(j)' BY <1>0, <1>1, <1>2 DEF FindingsFit, ResolvedFits, Positions, Owned, Retested
<1>6. ChainAt(j)' BY <1>0, <1>1 DEF FindingsFit, ChainAt, Current, Chained
<1>7. OwnChained(j)' BY <1>0, <1>1 DEF FindingsFit, OwnChained, Owned, Retested, Chained
<1>8. KeptFits(j)' BY <1>0, <1>1 DEF FindingsFit, KeptFits, Kept, Positions, Reported
<1> QED BY <1>3, <1>4, <1>5, <1>6, <1>7, <1>8 DEF FindingsFit

LEMMA FindingsInit == Init => FindingsInvariant
<1> SUFFICES ASSUME Init PROVE FindingsInvariant OBVIOUS
<1>1. \A i \in Ids : finding[i] = NoRow BY DEF Init
<1>2. ASSUME NEW i \in Ids PROVE finding[i].job = NoId /\ finding[i].disposition = ""
  <2>1. NoRow.job = NoId /\ NoRow.disposition = "" BY DEF NoRow
  <2> QED BY <1>1, <2>1
<1>3. ASSUME NEW j \in Jobs PROVE FindingsFit(j)
  <2>1. run[j].pc = "idle" /\ run[j].ids = <<>> /\ row[j].status = "none"
    BY IdleRunIs DEF Init
  <2>2. Owned(j) = {} BY <1>2, PentestConstants DEF Owned
  <2>3. Positions(j) = {} BY <2>1 DEF Positions
  <2>4. OwnFits(j) BY <2>1, <2>2 DEF OwnFits, Distinct
  <2>5. ResolvedFits(j) BY <2>1, <2>2 DEF ResolvedFits
  <2>6. ChainAt(j) BY <2>1 DEF ChainAt
  <2>7. OwnChained(j) /\ KeptFits(j) BY <2>2, <2>3 DEF OwnChained, KeptFits
  <2> QED BY <2>4, <2>5, <2>6, <2>7 DEF FindingsFit
<1> QED BY <1>2, <1>3 DEF FindingsInvariant

LEMMA FindingsStep == Known /\ ShapeInvariant' /\ [Next]_vars => FindingsInvariant'
<1> SUFFICES ASSUME Known, ShapeInvariant', [Next]_vars PROVE FindingsInvariant' OBVIOUS
<1>1. CASE UNCHANGED vars
  <2>1. UNCHANGED <<row, finding, journal, run>> BY <1>1 DEF vars
  <2>2. ASSUME NEW j \in Jobs PROVE FindingsFit(j)'
    <3>1. FindingsFit(j) BY DEF Known, FindingsInvariant
    <3>2. /\ Owned(j)' = Owned(j) /\ Positions(j)' = Positions(j) /\ Current(j)' = Current(j)
          /\ \A i : (Retested(i)' <=> Retested(i)) /\ (Chained(j, i)' <=> Chained(j, i))
      BY <2>1 DEF Owned, Positions, Current, Retested, Chained
    <3>3. OwnFits(j)' /\ ResolvedFits(j)' BY <2>1, <3>1, <3>2 DEF FindingsFit, OwnFits, ResolvedFits
    <3>4. ChainAt(j)' /\ OwnChained(j)' BY <2>1, <3>1, <3>2 DEF FindingsFit, ChainAt, OwnChained, Chained
    <3>5. KeptFits(j)' BY <2>1, <3>1, ZenonT(40) DEF FindingsFit, KeptFits, Kept, Positions, Reported
    <3> QED BY <3>3, <3>4, <3>5 DEF FindingsFit
  <2> QED BY <2>1, <2>2 DEF Known, FindingsInvariant
<1>2. ASSUME NEW j \in Jobs, NEW kind \in KindsOf[j], NEW dirty \in Changes, Execute(j, kind, dirty)
      PROVE  FindingsInvariant'
  <2>1. kind \in Kinds BY PentestConstants
  <2> QED BY <1>2, <2>1, BeginFits, OneFits
<1>3. ASSUME NEW j \in Jobs, Step(j) \/ Crash(j) PROVE FindingsInvariant'
  <2>1. Frame(j) /\ FindingsFit(j)'
    BY <1>3, PrepareFits, ScanFits, RecordFits, ReportOnlyFits, RemedyFits, DisposeFits, SettleFits,
       EndFits, ReturnFits
    DEF Step
  <2> QED BY <2>1, OneFits
<1>4. ASSUME NEW j \in Jobs, Stop(j) PROVE FindingsInvariant' BY <1>4, StopFits, OneFits
<1> QED BY <1>1, <1>2, <1>3, <1>4 DEF Next, Terminated

LEMMA Invariants == Spec => [](JobsInvariant /\ ShapeInvariant /\ FindingsInvariant)
<1>1. Spec => []JobsInvariant BY JobsInit, JobsStep, PTL DEF Spec
<1>2. Spec => []ShapeInvariant BY <1>1, ShapeInit, ShapeStep, PTL DEF Spec
<1>3. Known /\ ShapeInvariant' /\ [Next]_vars => FindingsInvariant' BY FindingsStep
<1> QED BY <1>1, <1>2, <1>3, FindingsInit, PTL DEF Spec, Known

(* However many jobs run over the same findings, a job that is completed has   *)
(* its terminal evidence, and all it still lists is fixed and retested: what   *)
(* is not retested is still to come or already counts against the job when the *)
(* last finding is decided (Settle), and other jobs only take findings away.   *)
THEOREM CompletedResolvedHolds == Spec => []CompletedResolved
<1>1. FindingsInvariant => CompletedResolved
  BY DEF FindingsInvariant, FindingsFit, ResolvedFits, CompletedResolved, Retested
<1> QED BY <1>1, Invariants, PTL

(* A finding that counts as retested has the whole chain in the journal of the *)
(* job that says so, for any number of findings, edits and jobs (remediate).   *)
THEOREM RetestedHasChainHolds == Spec => []RetestedHasChain
<1>1. FindingsInvariant => RetestedHasChain
  <2> SUFFICES ASSUME FindingsInvariant, NEW i \in Ids, finding[i].disposition = "retested"
               PROVE  \A kind \in Links : <<kind, i>> \in journal[finding[i].job]
    BY DEF RetestedHasChain, Links
  <2>1. finding[i].job \in Jobs BY DEF FindingsInvariant
  <2>2. i \in Owned(finding[i].job) BY DEF Owned
  <2> QED BY <2>1, <2>2 DEF FindingsInvariant, FindingsFit, OwnChained, Retested, Chained
<1> QED BY <1>1, Invariants, PTL

LEMMA DistinctCount ==
    ASSUME NEW s \in Seq(Ids), Distinct(s)
    PROVE  Cardinality({s[k] : k \in 1..Len(s)}) = Len(s)
<1> DEFINE S == 1..Len(s)
           T == {s[k] : k \in 1..Len(s)}
           f == [k \in S |-> s[k]]
<1>1. Len(s) \in Nat OBVIOUS
<1>2. IsFiniteSet(S) /\ Cardinality(S) = Len(s) BY <1>1, FS_Interval
<1>3. f \in Bijection(S, T) BY DEF Bijection, Injection, Surjection, IsInjective, Distinct
<1>4. ExistsBijection(S, T) BY <1>3 DEF ExistsBijection
<1> HIDE DEF S, T
<1>5. Cardinality(S) = Cardinality(T) BY <1>2, <1>4, FS_Bijection
<1> QED BY <1>2, <1>5 DEF T

(* A job that says it is completed still lists every finding it recorded, or   *)
(* another job was told of one with the same id, as long as no id the scanner  *)
(* gives looks like one that has its position added (normalizeFindings).       *)
THEOREM FindingsKeptHolds ==
    ASSUME PlainIds PROVE Spec => []FindingsKept
<1>1. ShapeInvariant /\ FindingsInvariant => FindingsKept
  <2> SUFFICES ASSUME ShapeInvariant, FindingsInvariant, NEW j \in Jobs,
                      run[j].pc = "returned", Reported(j, "pentest_completed")
               PROVE  /\ Cardinality({run[j].ids[k] : k \in 1..Len(run[j].ids)}) = Len(run[j].ids)
                      /\ \A k \in 1..Len(run[j].ids) :
                             \/ run[j].ids[k] \in Owned(j)
                             \/ \E other \in Jobs \ {j} :
                                   \E m \in 1..Len(run[other].ids) : run[other].ids[m] = run[j].ids[k]
    BY DEF FindingsKept
  <2>1. FindingsFit(j) /\ run[j].ids \in Seq(Ids) BY DEF FindingsInvariant, ShapeInvariant, TypeOK, Run
  <2>2. Distinct(run[j].ids) BY <2>1 DEF FindingsFit, OwnFits
  <2>3. Cardinality({run[j].ids[k] : k \in 1..Len(run[j].ids)}) = Len(run[j].ids)
    BY <2>1, <2>2, DistinctCount
  <2>4. ASSUME NEW k \in 1..Len(run[j].ids)
        PROVE  \/ run[j].ids[k] \in Owned(j)
               \/ \E other \in Jobs \ {j} :
                     \E m \in 1..Len(run[other].ids) : run[other].ids[m] = run[j].ids[k]
    <3>1. Kept(j, run[j].ids[k]) /\ run[j].ids[k] \in Ids BY <2>1 DEF FindingsFit, KeptFits, Positions
    <3> QED BY <3>1 DEF Kept, Owned, Positions
  <2> QED BY <2>3, <2>4
<1> QED BY <1>1, Invariants, PTL
================================================================================
