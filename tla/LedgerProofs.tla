---------------------------- MODULE LedgerProofs ----------------------------
(***************************************************************************)
(* The audit trail of "virtwork run" is true, for any number of runs, sets *)
(* of workloads, limits and failures, while no cleanup is about: workload  *)
(* rows say 'created' of what is deployed, the execution row agrees with   *)
(* them, and every VM has its event and its row.                           *)
(***************************************************************************)
EXTENDS DeploymentProofs

\* Every statement of run r has been executed so far.
Undisturbed(r) == ctx[r] = "live" /\ ~DBMayFail /\ r \notin NoAudit

AfterPlan == {"ns", "nsget", "nspatch", "svc", "svcrec", "secrets", "vms", "markfailed",
              "wait", "report", "markmixed", "markcreated"}

\* auditWorkloadIDs leads from a workload to a row planVMs inserted for it.
RowNames(r) ==
  \A w \in Workloads : wlID[r][w] # 0 =>
    wlID[r][w] \in 1..Len(cfg[r].req) /\ cfg[r].req[wlID[r][w]] = w /\ w \notin Disabled

\* In the range that writes mixed statuses the result of every poller is in.
PolledMixed(r) ==
  pc[r] = "markmixed" => \A s \in Planned(r) : ready[r][Name(r, s)] # "none"

\* Run returns its verdict at the end only.
NoVerdictYet(r) == pc[r] \in AfterPlan \cup {"new", "plan"} => outcome[r] = "none"

CreatedRows(r) ==
  \A k \in 1..MaxReq : wlRow[r][k] = "created" =>
    \A s \in Planned(r) : s[1] = k =>
      /\ VMUp(r, s)
      /\ cfg[r].wait => st[VMObj(Name(r, s))] = "running"

\* The rows of an undisturbed run: inserted by planVMs one by one, known to
\* the end, and updated one by one.
RowsPlanned(r) ==
  Undisturbed(r) /\ pc[r] \in {"new", "plan"} =>
    \A k \in 1..MaxReq :
      IF k <= planned[r] /\ Asked(r, k)
      THEN wlRow[r][k] = "pending" /\ k <= wlID[r][cfg[r].req[k]]
      ELSE wlRow[r][k] = "none"
RowsKnown(r) ==
  Undisturbed(r) /\ pc[r] \in AfterPlan => \A w \in Enabled(r) : wlID[r][w] # 0
\* Only the row auditWorkloadIDs leads to, the last of its workload, changes.
OtherRows(r) ==
  Undisturbed(r) /\ ~cfg[r].dry /\ (pc[r] \in AfterPlan \/ outcome[r] = "ok") /\ pc[r] # "crashed" =>
    \A k \in 1..MaxReq :
      IF Asked(r, k)
      THEN /\ k <= wlID[r][cfg[r].req[k]]
           /\ k # wlID[r][cfg[r].req[k]] => wlRow[r][k] = "pending"
      ELSE wlRow[r][k] = "none"
MarkedSoFar(r) ==
  Undisturbed(r) /\ pc[r] = "markcreated" =>
    \A w \in Enabled(r) : w \in todo[r] \/ wlRow[r][wlID[r][w]] = "created"
NoFailedRow(r) ==
  outcome[r] # "error" /\ pc[r] \notin {"markfailed", "markmixed", "crashed"} =>
    \A k \in 1..MaxReq : wlRow[r][k] # "failed"
OkClosed(r) ==
  Undisturbed(r) /\ outcome[r] = "ok" /\ ~cfg[r].dry /\ pc[r] \in {"complete", "exited"} =>
    \A w \in Enabled(r) : wlRow[r][wlID[r][w]] = "created"
SuccessLogged(r) ==
  log[r] = "success" => /\ pc[r] = "exited" /\ outcome[r] = "ok"
                        /\ ctx[r] = "live" /\ r \notin NoAudit

\* The workload rows and the execution row of run r.
Rows(r) ==
  /\ RowNames(r) /\ PolledMixed(r) /\ NoVerdictYet(r) /\ CreatedRows(r)
  /\ RowsPlanned(r) /\ RowsKnown(r) /\ OtherRows(r) /\ MarkedSoFar(r)
  /\ NoFailedRow(r) /\ OkClosed(r) /\ SuccessLogged(r)

\* A goroutine of createVMs gets past its BuildVMSpec only if that succeeds,
\* and once it has returned it left its event.
SpecBuilt(r) ==
  pc[r] = "vms" => \A s \in Planned(r) :
    job[r][s] \in {"sent", "backoff", "rec", "ev", "fail"} => BuildVMSpec(WorkloadOf(r, s))
JobVerdict(r) ==
  pc[r] = "vms" /\ Undisturbed(r) =>
    \A s \in Planned(r) :
      /\ job[r][s] = "ok" => <<"vm_created", Name(r, s)>> \in events[r]
      /\ job[r][s] = "err" /\ BuildVMSpec(WorkloadOf(r, s)) =>
           <<"vm_failed", Name(r, s)>> \in events[r]

\* Only a run with an auditor has a run-id to label its VMs with.
Labelled(r) == r \in NoAudit => \A v \in VMName : owner[VMObj(v)] # r

\* A goroutine that may have created its VM and has not recorded it yet.
Pending(r, s) ==
  /\ pc[r] = "vms" /\ BuildVMSpec(WorkloadOf(r, s))
  /\ job[r][s] \in {"try", "sent", "backoff", "fail", "rec"}

\* A VM that carries r's label has a row, or a vm_failed event, or is in the
\* hands of a goroutine that will see to it.
Recorded(r, v) == rows[r][VMObj(v)] # {} \/ <<"vm_failed", v>> \in events[r]
Accounted(r) ==
  ctx[r] = "live" /\ ~DBMayFail /\ pc[r] # "crashed" =>
    \A v \in VMName : owner[VMObj(v)] = r =>
      Recorded(r, v) \/ \E s \in Planned(r) : Name(r, s) = v /\ Pending(r, s)

\* What the audit database says of the VMs of run r.
VMRecords(r) == SpecBuilt(r) /\ JobVerdict(r) /\ Labelled(r) /\ Accounted(r)

\* The inductive invariant.
LedgerInv == DeployInv /\ \A r \in Runs : Rows(r) /\ VMRecords(r)

-----------------------------------------------------------------------------
\* Run q's part of the audit database, and its context, are as they were.
Unwritten(q) ==
  /\ ctx'[q] = ctx[q] /\ log'[q] = log[q] /\ wlRow'[q] = wlRow[q]
  /\ rows'[q] = rows[q] /\ events'[q] = events[q]

\* Each statement of internal/audit writes under the run-id of its caller.
LEMMA StatementFrame ==
  ASSUME AuditTypeOK, NEW r \in Runs, NEW q \in Runs \ {r}
  PROVE  /\ \A ok : StartExecution(r, ok) => log'[q] = log[q]
         /\ \A x, ok : CompleteExecution(r, x, ok) => log'[q] = log[q]
         /\ \A k, ok : RecordWorkload(r, k, ok) => wlRow'[q] = wlRow[q]
         /\ \A k, x, ok : UpdateWorkloadStatus(r, k, x, ok) => wlRow'[q] = wlRow[q]
         /\ \A o, ok : RecordResource(r, o, ok) => rows'[q] = rows[q]
         /\ \A v, k, ok : RecordVM(r, v, k, ok) => rows'[q] = rows[q]
         /\ \A t, x, ok : RecordEvent(r, t, x, ok) => events'[q] = events[q]
<1>1. q \in Procs /\ r \in Procs
  BY DEF Procs
<1>2. /\ \A ok : StartExecution(r, ok) => log'[q] = log[q]
      /\ \A x, ok : CompleteExecution(r, x, ok) => log'[q] = log[q]
  BY <1>1 DEF StartExecution, CompleteExecution, AuditTypeOK
<1>3. /\ \A k, ok : RecordWorkload(r, k, ok) => wlRow'[q] = wlRow[q]
      /\ \A k, x, ok : UpdateWorkloadStatus(r, k, x, ok) => wlRow'[q] = wlRow[q]
  BY DEF RecordWorkload, UpdateWorkloadStatus, AuditTypeOK
<1>4. /\ \A o, ok : RecordResource(r, o, ok) => rows'[q] = rows[q]
      /\ \A v, k, ok : RecordVM(r, v, k, ok) => rows'[q] = rows[q]
  BY DEF RecordResource, RecordVM, Insert, AuditTypeOK
<1>5. \A t, x, ok : RecordEvent(r, t, x, ok) => events'[q] = events[q]
  BY <1>1 DEF RecordEvent, AuditTypeOK
<1> QED
  BY <1>2, <1>3, <1>4, <1>5

\* So a step of one run leaves the rows of the others alone.
LEMMA AuditFrame ==
  ASSUME TypeInv, NEW r \in Runs, NEW q \in Runs \ {r}, RunStep(r) \/ Signal(r) \/ Crash(r)
  PROVE  Unwritten(q)
<1>0. AuditTypeOK /\ q \in Procs /\ r \in Procs
  BY DEF TypeInv, RunTypeOK, Procs
<1> USE DEF Unwritten
<1>1. CASE Signal(r)
  BY <1>0, <1>1 DEF Signal, auditVars, AuditTypeOK
<1>2. CASE UNCHANGED <<ctx, auditVars>>
  BY <1>2 DEF auditVars
<1>3. CASE Start(r) \/ PlanWorkload(r) \/ PlanDone(r)
  BY <1>0, <1>3, StatementFrame DEF Start, PlanWorkload, PlanDone
<1>4. CASE Complete(r) \/ (\E v \in VMName : Report(r, v))
           \/ \E w \in Workloads : RecordService(r, w) \/ MarkWorkload(r, w)
  BY <1>0, <1>4, StatementFrame DEF Complete, Report, RecordService, MarkWorkload
<1>5. CASE \E s \in Slot : RecordSecret(r, s) \/ RecordVMCreated(r, s) \/ RecordVMEvent(r, s)
  BY <1>0, <1>5, StatementFrame DEF RecordSecret, RecordVMCreated, RecordVMEvent
<1>6. CASE \/ EnsureNamespace(r) \/ ServicesDone(r) \/ SecretsDone(r) \/ VMsDone(r) \/ WaitDone(r)
           \/ ReportDone(r) \/ MarkDone(r) \/ Crash(r) \/ \E w \in Workloads : CreateService(r, w)
  BY <1>2, <1>6 DEF EnsureNamespace, ServicesDone, SecretsDone, VMsDone, WaitDone, ReportDone,
     MarkDone, Crash, CreateService
<1>7. CASE \E s \in Slot : \/ Launch(r, s) \/ SendSecret(r, s) \/ SecretReply(r, s) \/ SendVM(r, s)
                           \/ VMReply(r, s) \/ Backoff(r, s) \/ Poll(r, s)
  BY <1>2, <1>7 DEF Launch, SendSecret, SecretReply, SendVM, VMReply, Backoff, Poll
<1> QED
  BY <1>1, <1>3, <1>4, <1>5, <1>6, <1>7 DEF RunStep, SerialStep, GoroutineStep

\* The statements of an undisturbed run are executed.
LEMMA UndisturbedWrites ==
  ASSUME NEW r, Undisturbed(r)
  PROVE  \A ok \in Executed(r) : ok = TRUE /\ Writes(r, ok)
  BY DEF Undisturbed, Executed, Writes

\* A statement runs only under a live context.
LEMMA WritesLive ==
  ASSUME AuditTypeOK, NEW r \in Runs, NEW ok \in Executed(r), Writes(r, ok)
  PROVE  ctx[r] = "live" /\ r \notin NoAudit
  BY DEF Executed, Writes, AuditTypeOK, Procs

\* Plans, and what the cluster shows of them, in the form the rows need.
LEMMA PlanFacts ==
  ASSUME TypeInv, NEW r \in Runs, Grows, UNCHANGED cfg
  PROVE  /\ Planned(r)' = Planned(r) /\ Enabled(r)' = Enabled(r)
         /\ \A s \in Planned(r) : /\ Name(r, s)' = Name(r, s) /\ WorkloadOf(r, s)' = WorkloadOf(r, s)
                                  /\ VMUp(r, s) => VMUp(r, s)'
                                  /\ st[VMObj(Name(r, s))] = "running"
                                       => st'[VMObj(Name(r, s))] = "running"
<1>1. Enabled(r)' = Enabled(r)
  BY DEF Enabled
<1>2. \A s \in Planned(r) : WorkloadOf(r, s)' = WorkloadOf(r, s)
  BY DEF WorkloadOf
<1> QED
  BY <1>1, <1>2, PlanGrows

\* The rows of a run survive every step that touches neither it nor them.
LEMMA RowsFrame ==
  ASSUME TypeInv, NEW q \in Runs, Rows(q), Grows, UNCHANGED cfg, Untouched(q), Unwritten(q)
  PROVE  Rows(q)'
<1> USE DEF Untouched, Unwritten
<1>1. RowNames(q)' /\ PolledMixed(q)' /\ NoVerdictYet(q)'
  BY PlanFacts DEF Rows, RowNames, PolledMixed, NoVerdictYet
<1>2. CreatedRows(q)'
  BY PlanFacts DEF Rows, CreatedRows, VMObj
<1>3. RowsPlanned(q)' /\ RowsKnown(q)' /\ MarkedSoFar(q)'
  BY PlanFacts DEF Rows, RowsPlanned, RowsKnown, MarkedSoFar, Undisturbed, Asked
<1>5. OtherRows(q)'
  BY DEF Rows, OtherRows, Undisturbed, Asked
<1>4. NoFailedRow(q)' /\ OkClosed(q)' /\ SuccessLogged(q)'
  BY PlanFacts DEF Rows, NoFailedRow, OkClosed, SuccessLogged, Undisturbed
<1> QED
  BY <1>1, <1>2, <1>3, <1>4, <1>5 DEF Rows

-----------------------------------------------------------------------------
\* Steps that write no workload or execution row: only the place in Run, and
\* with it what is claimed of the rows, moves on.
LEMMA RowsMove ==
  ASSUME TypeInv, NEW r \in Runs, Local(r), Rows(r), Grows,
         UNCHANGED <<cfg, ctx, log, wlRow, wlID>>,
         \/ PlanDone(r) \/ EnsureNamespace(r) \/ ServicesDone(r)
         \/ (\E w \in Workloads : CreateService(r, w) \/ RecordService(r, w))
         \/ SecretsDone(r) \/ VMsDone(r) \/ WaitDone(r) \/ ReportDone(r) \/ MarkDone(r)
         \/ (\E v \in VMName : Report(r, v))
         \/ (\E s \in Slot : GoroutineStep(r, s))
  PROVE  Rows(r)'
<1>1. /\ pc[r] \in {"plan"} \cup AfterPlan
      /\ pc'[r] \in AfterPlan \cup {"complete"}
      /\ pc[r] = "plan" => PlanDone(r)
      /\ pc'[r] \notin {"new", "plan"}
  <2> USE DEF TypeInv, RunTypeOK, Goto, Fail
  <2>1. CASE PlanDone(r) \/ EnsureNamespace(r) \/ ServicesDone(r)
    BY <2>1 DEF PlanDone, EnsureNamespace, ToServices, ServicesDone, AfterPlan
  <2>2. CASE \E w \in Workloads : CreateService(r, w) \/ RecordService(r, w)
    BY <2>2 DEF CreateService, RecordService, AfterPlan
  <2>3. CASE SecretsDone(r) \/ VMsDone(r) \/ WaitDone(r) \/ ReportDone(r) \/ MarkDone(r)
    BY <2>3 DEF SecretsDone, VMsDone, WaitDone, ReportDone, MarkDone, AfterPlan
  <2>4. CASE \E v \in VMName : Report(r, v)
    BY <2>4 DEF Report, AfterPlan
  <2>5. CASE \E s \in Slot : GoroutineStep(r, s)
    BY <2>5 DEF GoroutineStep, Launch, SendSecret, SecretReply, RecordSecret, SendVM, VMReply,
       Backoff, RecordVMCreated, RecordVMEvent, Poll, AfterPlan
  <2> QED
    BY <2>1, <2>2, <2>3, <2>4, <2>5
<1>2. /\ pc'[r] = "markmixed" => ReportDone(r)
      /\ pc'[r] = "markcreated" => (VMsDone(r) \/ ReportDone(r)) /\ todo'[r] = Enabled(r)
      /\ pc[r] \in {"markfailed", "markmixed", "markcreated"} => MarkDone(r)
      /\ pc'[r] = "complete" /\ outcome'[r] = "ok" => cfg[r].dry \/ (MarkDone(r) /\ pc[r] = "markcreated")
      /\ MarkDone(r) /\ pc[r] # "markcreated" => outcome'[r] = "error"
      /\ pc'[r] \in AfterPlan => outcome'[r] = outcome[r]
  <2> USE DEF TypeInv, RunTypeOK, Goto, Fail
  <2>1. CASE PlanDone(r) \/ EnsureNamespace(r) \/ ServicesDone(r)
    BY <2>1 DEF PlanDone, EnsureNamespace, ToServices, ServicesDone, AfterPlan, MarkDone
  <2>2. CASE \E w \in Workloads : CreateService(r, w) \/ RecordService(r, w)
    BY <2>2 DEF CreateService, RecordService, AfterPlan, MarkDone
  <2>3. CASE SecretsDone(r) \/ VMsDone(r) \/ WaitDone(r)
    BY <2>3 DEF SecretsDone, VMsDone, WaitDone, MarkDone, AfterPlan
  <2>4. CASE ReportDone(r) \/ MarkDone(r)
    BY <2>4 DEF ReportDone, MarkDone, AfterPlan
  <2>5. CASE \E v \in VMName : Report(r, v)
    BY <2>5 DEF Report, AfterPlan, MarkDone
  <2>6. CASE \E s \in Slot : GoroutineStep(r, s)
    BY <2>6 DEF GoroutineStep, Launch, SendSecret, SecretReply, RecordSecret, SendVM, VMReply,
       Backoff, RecordVMCreated, RecordVMEvent, Poll, AfterPlan, MarkDone
  <2> QED
    BY <2>1, <2>2, <2>3, <2>4, <2>5, <2>6
<1>3. RowNames(r)'
  BY DEF Rows, RowNames
<1>4. PolledMixed(r)'
  <2>1. ReportDone(r) => pc[r] = "report" /\ UNCHANGED ready
    BY DEF ReportDone
  <2> QED
    BY <1>2, <2>1, PlanFacts DEF Local, PollsJoined, PolledMixed
<1>5. NoVerdictYet(r)'
  BY <1>1, <1>2 DEF Rows, NoVerdictYet, AfterPlan
<1>6. CreatedRows(r)'
  BY PlanFacts DEF Rows, CreatedRows, VMObj
<1>7. RowsPlanned(r)'
  BY <1>1 DEF RowsPlanned
<1>8. RowsKnown(r)'
  <2>1. CASE pc[r] = "plan" /\ Undisturbed(r)
    <3>1. planned[r] = Len(cfg[r].req)
      BY <1>1, <2>1 DEF PlanDone
    <3>2. ASSUME NEW w \in Enabled(r) PROVE wlID[r][w] # 0
      <4>1. PICK k \in 1..Len(cfg[r].req) : cfg[r].req[k] = w /\ w \notin Disabled
        BY DEF Enabled
      <4>2. k \in 1..MaxReq /\ k <= planned[r] /\ Asked(r, k)
        BY <3>1, <4>1, Requested, RunAssumption, AuditAssumption DEF Asked, TypeInv, RunTypeOK
      <4> QED
        BY <2>1, <4>1, <4>2, AuditAssumption DEF Rows, RowsPlanned
    <3> QED
      BY <3>2, PlanFacts DEF RowsKnown
  <2>2. CASE pc[r] # "plan" \/ ~Undisturbed(r)
    BY <1>1, <2>2, PlanFacts DEF Rows, RowsKnown, Undisturbed
  <2> QED
    BY <2>1, <2>2
<1>13. OtherRows(r)'
  <2>1. CASE pc[r] = "plan" /\ Undisturbed(r) /\ ~cfg[r].dry
    <3>1. planned[r] = Len(cfg[r].req)
      BY <1>1, <2>1 DEF PlanDone
    <3>2. ASSUME NEW k \in 1..MaxReq
          PROVE  IF Asked(r, k) THEN wlRow[r][k] = "pending" /\ k <= wlID[r][cfg[r].req[k]]
                 ELSE wlRow[r][k] = "none"
      BY <2>1, <3>1 DEF Rows, RowsPlanned, Asked
    <3> QED
      BY <3>2 DEF OtherRows, Asked
  <2>2. CASE pc[r] # "plan" \/ ~Undisturbed(r) \/ cfg[r].dry
    BY <1>1, <2>2 DEF Rows, OtherRows, Undisturbed, Asked, AfterPlan
  <2> QED
    BY <2>1, <2>2
<1>9. MarkedSoFar(r)'
  BY <1>2, PlanFacts DEF MarkedSoFar
<1>10. NoFailedRow(r)'
  <2>1. outcome[r] = "none" /\ pc[r] # "crashed"
    BY <1>1 DEF Rows, NoVerdictYet, AfterPlan
  <2> QED
    BY <1>2, <2>1 DEF Rows, NoFailedRow
<1>11. OkClosed(r)'
  <2>1. MarkDone(r) => todo[r] = {}
    BY DEF MarkDone
  <2> QED
    BY <1>1, <1>2, <2>1, PlanFacts DEF Rows, OkClosed, MarkedSoFar, Undisturbed, AfterPlan
<1>12. SuccessLogged(r)'
  BY <1>1 DEF Rows, SuccessLogged, AfterPlan
<1> QED
  BY <1>3, <1>4, <1>5, <1>6, <1>7, <1>8, <1>9, <1>10, <1>11, <1>12,
     <1>13 DEF Rows

\* runE up to planVMs, and its end.
LEMMA RowsStartEnd ==
  ASSUME TypeInv, NEW r \in Runs, Rows(r), Grows,
         Start(r) \/ Complete(r) \/ Signal(r) \/ Crash(r)
  PROVE  Rows(r)'
<1>0. r \in Procs /\ AuditTypeOK
  BY DEF Procs, TypeInv, RunTypeOK
<1>1. UNCHANGED <<cfg, wlRow, wlID>>
  BY DEF Start, Complete, Signal, Crash, auditVars, runVars
<1>2. RowNames(r)' /\ CreatedRows(r)'
  BY <1>1, PlanFacts DEF Rows, RowNames, CreatedRows, VMObj
<1>3. CASE Start(r)
  <2>1. /\ pc[r] = "new" /\ UNCHANGED <<ctx, planned>>
        /\ \/ pc'[r] = "plan" /\ outcome'[r] = "none"
           \/ pc'[r] = "exited" /\ outcome'[r] = "error"
    BY <1>3 DEF Start, Goto, TypeInv, RunTypeOK
  <2>2. log'[r] \in {log[r], "in_progress"}
    BY <1>0, <1>3 DEF Start, StartExecution, AuditTypeOK
  <2> QED
    BY <1>1, <1>2, <2>1, <2>2, PlanFacts DEF Rows, PolledMixed, NoVerdictYet, RowsPlanned, RowsKnown,
       OtherRows, Asked, MarkedSoFar, NoFailedRow, OkClosed, SuccessLogged, Undisturbed, AfterPlan
<1>4. CASE Complete(r)
  <2>1. pc[r] = "complete" /\ pc'[r] = "exited" /\ UNCHANGED <<ctx, outcome>>
    BY <1>4 DEF Complete, Goto, TypeInv, RunTypeOK
  <2>2. log'[r] = "success" => outcome[r] = "ok" /\ ctx[r] = "live" /\ r \notin NoAudit
    <3>1. PICK ok \in Executed(r) : CompleteExecution(r, AuditStatus(r, outcome[r] = "ok"), ok)
      BY <1>4 DEF Complete
    <3>2. log[r] # "success"
      BY <2>1 DEF Rows, SuccessLogged
    <3>3. log'[r] = "success" => Writes(r, ok) /\ AuditStatus(r, outcome[r] = "ok") = "success"
      BY <1>0, <3>1, <3>2 DEF CompleteExecution, AuditTypeOK
    <3> QED
      BY <1>0, <3>3, WritesLive DEF AuditStatus
  <2> QED
    BY <1>1, <1>2, <2>1, <2>2, PlanFacts DEF Rows, PolledMixed, NoVerdictYet, RowsPlanned, RowsKnown,
       OtherRows, Asked, MarkedSoFar, NoFailedRow, OkClosed, SuccessLogged, Undisturbed, AfterPlan
<1>5. CASE Signal(r)
  <2>1. UNCHANGED <<log, runVars>> /\ ctx'[r] = "cancelled" /\ pc[r] \notin {"new", "exited"}
    BY <1>0, <1>5 DEF Signal, Alive, auditVars, AuditTypeOK
  <2> QED
    BY <1>1, <1>2, <2>1, PlanFacts DEF Rows, PolledMixed, NoVerdictYet, RowsPlanned, RowsKnown,
       OtherRows, Asked, MarkedSoFar, NoFailedRow, OkClosed, SuccessLogged, Undisturbed, runVars
<1>6. CASE Crash(r)
  <2>1. UNCHANGED log /\ pc'[r] = "crashed" /\ pc[r] # "exited"
    BY <1>6 DEF Crash, Alive, Goto, auditVars, TypeInv, RunTypeOK
  <2> QED
    BY <1>2, <2>1 DEF Rows, PolledMixed, NoVerdictYet, RowsPlanned, RowsKnown, OtherRows,
       MarkedSoFar, NoFailedRow, OkClosed, SuccessLogged, AfterPlan
<1> QED
  BY <1>3, <1>4, <1>5, <1>6

\* One iteration of planVMs inserts one row and remembers it.
LEMMA RowsPlan ==
  ASSUME TypeInv, NEW r \in Runs, Rows(r), Grows, PlanWorkload(r)
  PROVE  Rows(r)'
<1> DEFINE k == planned[r] + 1
           w == cfg[r].req[k]
<1>0. /\ k \in 1..Len(cfg[r].req) /\ k \in 1..MaxReq /\ k # 0 /\ w \in Workloads
      /\ planned[r] \in Nat
  BY Requested, RunAssumption, AuditAssumption DEF PlanWorkload, TypeInv, RunTypeOK
<1>1. pc[r] = "plan" /\ UNCHANGED <<cfg, ctx, log>> /\ outcome[r] = "none" /\ log[r] # "success"
  BY DEF PlanWorkload, Rows, NoVerdictYet, SuccessLogged
<1>2. \/ pc'[r] = "plan" /\ outcome'[r] = "none" /\ planned'[r] = k
      \/ pc'[r] = "complete" /\ outcome'[r] = "error"
  BY <1>1 DEF PlanWorkload, Fail, Goto, TypeInv, RunTypeOK
<1> HIDE DEF k, w
<1>3. \/ UNCHANGED <<wlRow, wlID>> /\ (w \in Disabled \/ pc'[r] = "complete")
      \/ /\ w \notin Disabled
         /\ \E ok \in Executed(r) :
              /\ RecordWorkload(r, k, ok)
              /\ wlID' = [wlID EXCEPT ![r][w] = IF Writes(r, ok) THEN k ELSE 0]
  <2>1. Fail(r) => pc'[r] = "complete"
    BY DEF Fail, Goto, TypeInv, RunTypeOK
  <2> QED
    BY <2>1 DEF PlanWorkload, k, w
<1>4. /\ \A u \in Workloads :
           wlID'[r][u] = wlID[r][u] \/ (u = w /\ w \notin Disabled /\ wlID'[r][u] \in {k, 0})
      /\ \A j \in 1..MaxReq : wlRow'[r][j] \in {wlRow[r][j], "pending"}
  <2>1. CASE UNCHANGED <<wlRow, wlID>>
    BY <2>1
  <2>2. ASSUME NEW ok \in Executed(r), RecordWorkload(r, k, ok)
        PROVE  \A j \in 1..MaxReq : wlRow'[r][j] \in {wlRow[r][j], "pending"}
    BY <1>0, <2>2 DEF RecordWorkload, TypeInv, RunTypeOK, AuditTypeOK
  <2>3. ASSUME NEW id, wlID' = [wlID EXCEPT ![r][w] = id]
        PROVE  \A u \in Workloads : wlID'[r][u] = IF u = w THEN id ELSE wlID[r][u]
    BY <1>0, <2>3 DEF TypeInv, RunTypeOK
  <2> QED
    BY <1>3, <2>1, <2>2, <2>3
<1>5. RowNames(r)'
  BY <1>0, <1>1, <1>4 DEF Rows, RowNames, w
<1>6. CreatedRows(r)'
  <2>1. \A j \in 1..MaxReq : wlRow'[r][j] = "created" => wlRow[r][j] = "created"
    BY <1>4
  <2> QED
    BY <1>1, <2>1, PlanFacts DEF Rows, CreatedRows, VMObj
<1>7. NoFailedRow(r)'
  BY <1>1, <1>2, <1>4 DEF Rows, NoFailedRow
<1>8. RowsPlanned(r)'
  <2> SUFFICES ASSUME Undisturbed(r), pc'[r] = "plan", NEW j \in 1..MaxReq
               PROVE  IF j <= k /\ Asked(r, j)
                      THEN wlRow'[r][j] = "pending" /\ j <= wlID'[r][cfg[r].req[j]]
                      ELSE wlRow'[r][j] = "none"
    BY <1>1, <1>2 DEF RowsPlanned, Undisturbed, Asked
  <2>1. IF j <= planned[r] /\ Asked(r, j)
        THEN wlRow[r][j] = "pending" /\ j <= wlID[r][cfg[r].req[j]]
        ELSE wlRow[r][j] = "none"
    BY <1>1 DEF Rows, RowsPlanned
  <2>2. j <= k <=> j <= planned[r] \/ j = k
    BY <1>0 DEF k
  <2>3. ~(k <= planned[r]) /\ (Asked(r, k) <=> w \notin Disabled)
    BY <1>0 DEF k, w, Asked
  <2>4. CASE w \in Disabled
    <3>1. UNCHANGED <<wlID, wlRow>>
      BY <2>4 DEF PlanWorkload, k, w
    <3> QED
      BY <2>1, <2>2, <2>3, <2>4, <3>1
  <2>5. CASE w \notin Disabled
    <3>1. /\ wlID' = [wlID EXCEPT ![r][w] = k]
          /\ wlRow' = [wlRow EXCEPT ![r][k] = "pending"]
      BY <1>2, <1>3, <2>5, UndisturbedWrites DEF RecordWorkload
    <3>2. wlRow'[r][j] = IF j = k THEN "pending" ELSE wlRow[r][j]
      BY <1>0, <3>1 DEF TypeInv, RunTypeOK, AuditTypeOK
    <3>3. ASSUME Asked(r, j)
          PROVE  wlID'[r][cfg[r].req[j]] = IF cfg[r].req[j] = w THEN k ELSE wlID[r][cfg[r].req[j]]
      <4>1. j \in 1..Len(cfg[r].req)
        BY <3>3, Requested, AuditAssumption DEF Asked, TypeInv
      <4>2. cfg[r].req[j] \in Workloads
        BY <4>1, Requested DEF TypeInv
      <4> QED
        BY <1>0, <3>1, <4>2 DEF TypeInv, RunTypeOK
    <3>4. CASE j = k
      BY <1>0, <2>2, <2>3, <2>5, <3>2, <3>3, <3>4 DEF w
    <3>5. CASE j # k
      BY <1>0, <2>1, <2>2, <3>2, <3>3, <3>5 DEF k
    <3> QED
      BY <3>4, <3>5
  <2> QED
    BY <2>4, <2>5
<1> QED
  BY <1>1, <1>2, <1>5, <1>6, <1>7, <1>8 DEF Rows, PolledMixed, NoVerdictYet, RowsKnown, OtherRows,
     MarkedSoFar, OkClosed, SuccessLogged, AfterPlan

\* What FinalStatus calls created is deployed, also where other workloads
\* failed their readiness check.
LEMMA FinalStatusIsTrue ==
  ASSUME TypeInv, NEW r \in Runs, Local(r), Rows(r), NEW w \in Workloads,
         pc[r] \in {"markfailed", "markmixed", "markcreated"}, FinalStatus(r, w) = "created",
         NEW s \in Planned(r), WorkloadOf(r, s) = w
  PROVE  VMUp(r, s) /\ (cfg[r].wait => st[VMObj(Name(r, s))] = "running")
<1>0. Name(r, s) \in VMName /\ Name(r, s)[1] = w
  BY PlannedNames DEF TypeInv, Name
<1>1. CASE pc[r] = "markcreated"
  BY <1>0, <1>1 DEF Local, VMsJoined, AllReady, ReadyIsTrue
<1>2. CASE pc[r] = "markmixed"
  <2>1. Name(r, s) \notin FailedVMs(r)
    BY <1>0, <1>2 DEF FinalStatus
  <2>2. ready[r][Name(r, s)] \in {"ok", "err", "none"}
    BY <1>0 DEF TypeInv, RunTypeOK
  <2>3. ready[r][Name(r, s)] = "ok"
    BY <1>0, <1>2, <2>1, <2>2 DEF FailedVMs, Rows, PolledMixed
  <2> QED
    BY <1>0, <1>2, <2>3 DEF Local, VMsJoined, ReadyIsTrue
<1> QED
  BY <1>1, <1>2 DEF FinalStatus

\* One iteration of the ranges that write the final statuses.
LEMMA RowsMark ==
  ASSUME TypeInv, NEW r \in Runs, Local(r), Rows(r), Grows, NEW w \in Workloads, MarkWorkload(r, w)
  PROVE  Rows(r)'
<1> DEFINE id == wlID[r][w]
<1>0. /\ pc[r] \in {"markfailed", "markmixed", "markcreated"} /\ UNCHANGED <<cfg, pc, ctx, log, wlID>>
      /\ UNCHANGED <<ready, outcome>> /\ todo'[r] = todo[r] \ {w}
      /\ outcome[r] = "none" /\ log[r] # "success"
  BY DEF MarkWorkload, TypeInv, RunTypeOK, Rows, NoVerdictYet, SuccessLogged, AfterPlan
<1>1. PICK ok \in Executed(r) : UpdateWorkloadStatus(r, id, FinalStatus(r, w), ok)
  BY DEF MarkWorkload
<1>2. id \in 0..MaxReq
  BY DEF TypeInv, RunTypeOK
<1>3. \A j \in 1..MaxReq : wlRow'[r][j] = IF j = id /\ Writes(r, ok) THEN FinalStatus(r, w)
                                          ELSE wlRow[r][j]
  BY <1>1, <1>2, AuditAssumption DEF UpdateWorkloadStatus, TypeInv, RunTypeOK, AuditTypeOK
<1>4. pc[r] = "markcreated" => FinalStatus(r, w) = "created"
  BY DEF FinalStatus
<1>9. id # 0 => Asked(r, id) /\ cfg[r].req[id] = w
  BY DEF Rows, RowNames, Asked
<1> HIDE DEF id
<1>5. CreatedRows(r)'
  <2> SUFFICES ASSUME NEW j \in 1..MaxReq, wlRow'[r][j] = "created",
                      NEW s \in Planned(r), s[1] = j
               PROVE  VMUp(r, s) /\ (cfg[r].wait => st[VMObj(Name(r, s))] = "running")
    BY <1>0, PlanFacts DEF CreatedRows, VMObj
  <2>1. CASE wlRow[r][j] = "created"
    BY <2>1 DEF Rows, CreatedRows
  <2>2. CASE j = id /\ FinalStatus(r, w) = "created"
    <3>1. WorkloadOf(r, s) = w
      BY <1>2, <2>2, AuditAssumption DEF Rows, RowNames, id, WorkloadOf
    <3> QED
      BY <1>0, <2>2, <3>1, FinalStatusIsTrue
  <2> QED
    BY <1>3, <2>1, <2>2
<1>6. MarkedSoFar(r)'
  <2> SUFFICES ASSUME Undisturbed(r), pc[r] = "markcreated", NEW u \in Enabled(r), u \notin todo[r] \ {w}
               PROVE  wlRow'[r][wlID[r][u]] = "created"
    BY <1>0, PlanFacts DEF MarkedSoFar, Undisturbed
  <2>1. u \in Workloads /\ wlID[r][u] \in 1..MaxReq
    BY AuditAssumption DEF Enabled, Rows, RowsKnown, AfterPlan, TypeInv, RunTypeOK
  <2>2. Writes(r, ok)
    BY <1>1, UndisturbedWrites
  <2>3. u = w \/ wlRow[r][wlID[r][u]] = "created"
    BY DEF Rows, MarkedSoFar
  <2> QED
    BY <1>3, <1>4, <2>1, <2>2, <2>3 DEF id
<1>7. NoFailedRow(r)'
  BY <1>0, <1>3, <1>4 DEF Rows, NoFailedRow
<1>8. OtherRows(r)'
  <2> SUFFICES ASSUME Undisturbed(r), ~cfg[r].dry, NEW j \in 1..MaxReq
               PROVE  IF Asked(r, j)
                      THEN /\ j <= wlID[r][cfg[r].req[j]]
                           /\ j # wlID[r][cfg[r].req[j]] => wlRow'[r][j] = "pending"
                      ELSE wlRow'[r][j] = "none"
    BY <1>0 DEF OtherRows, Undisturbed, Asked
  <2>1. IF Asked(r, j)
        THEN /\ j <= wlID[r][cfg[r].req[j]]
             /\ j # wlID[r][cfg[r].req[j]] => wlRow[r][j] = "pending"
        ELSE wlRow[r][j] = "none"
    BY <1>0 DEF Rows, OtherRows, AfterPlan
  <2>2. j = id => Asked(r, j) /\ j = wlID[r][cfg[r].req[j]]
    BY <1>9 DEF id
  <2> QED
    BY <1>3, <2>1, <2>2
<1> QED
  BY <1>0, <1>5, <1>6, <1>7, <1>8, PlanFacts DEF Rows, RowNames, PolledMixed, NoVerdictYet, RowsPlanned,
     RowsKnown, OkClosed, SuccessLogged, Undisturbed, AfterPlan

-----------------------------------------------------------------------------
\* The audit trail of a run only grows: it deletes no event and no row.
LEMMA AuditGrows ==
  ASSUME TypeInv, NEW r \in Runs, RunStep(r) \/ Signal(r) \/ Crash(r)
  PROVE  events[r] \subseteq events'[r] /\ \A o \in Obj : rows[r][o] \subseteq rows'[r][o]
<1>0. AuditTypeOK /\ r \in Procs
  BY DEF TypeInv, RunTypeOK, Procs
<1>1. \A t, x, ok : RecordEvent(r, t, x, ok) => events[r] \subseteq events'[r]
  BY <1>0 DEF RecordEvent, AuditTypeOK
<1>2. \A o, ok : RecordResource(r, o, ok) => \A x \in Obj : rows[r][x] \subseteq rows'[r][x]
  BY <1>0 DEF RecordResource, Insert, AuditTypeOK
<1>3. \A v, k, ok : RecordVM(r, v, k, ok) => \A x \in Obj : rows[r][x] \subseteq rows'[r][x]
  BY <1>0 DEF RecordVM, Insert, AuditTypeOK
<1>4. CASE UNCHANGED <<rows, events>>
  BY <1>4
<1>5. CASE Start(r) \/ PlanWorkload(r) \/ PlanDone(r) \/ \E v \in VMName : Report(r, v)
  BY <1>1, <1>5 DEF Start, PlanWorkload, PlanDone, Report
<1>6. CASE \E w \in Workloads : RecordService(r, w)
  BY <1>1, <1>2, <1>6 DEF RecordService
<1>7. CASE \E s \in Slot : RecordSecret(r, s) \/ RecordVMCreated(r, s) \/ RecordVMEvent(r, s)
  BY <1>1, <1>2, <1>3, <1>7 DEF RecordSecret, RecordVMCreated, RecordVMEvent
<1>8. CASE \/ EnsureNamespace(r) \/ ServicesDone(r) \/ SecretsDone(r) \/ VMsDone(r) \/ WaitDone(r)
           \/ ReportDone(r) \/ MarkDone(r) \/ Crash(r) \/ Signal(r) \/ Complete(r)
           \/ \E w \in Workloads : CreateService(r, w) \/ MarkWorkload(r, w)
  BY <1>4, <1>8 DEF EnsureNamespace, ServicesDone, SecretsDone, VMsDone, WaitDone, ReportDone,
     MarkDone, Crash, Signal, Complete, CreateService, MarkWorkload, auditVars
<1>9. CASE \E s \in Slot : \/ Launch(r, s) \/ SendSecret(r, s) \/ SecretReply(r, s) \/ SendVM(r, s)
                           \/ VMReply(r, s) \/ Backoff(r, s) \/ Poll(r, s)
  BY <1>4, <1>9 DEF Launch, SendSecret, SecretReply, SendVM, VMReply, Backoff, Poll, auditVars
<1> QED
  BY <1>5, <1>6, <1>7, <1>8, <1>9 DEF RunStep, SerialStep, GoroutineStep

\* A VM gets its label where createVMs creates it, from its creator.
LEMMA LabelStep ==
  ASSUME TypeInv, NEW r \in Runs, RunStep(r) \/ Signal(r) \/ Crash(r),
         NEW v \in VMName, owner'[VMObj(v)] # owner[VMObj(v)]
  PROVE  /\ owner'[VMObj(v)] = RunLabel(r)
         /\ \E s \in Planned(r) : VMReply(r, s) /\ v = Name(r, s)
<1>0. owner \in [Obj -> Label] /\ VMObj(v) \in Obj /\ owner' # owner
  BY DEF TypeInv, RunTypeOK, ClusterTypeOK, VMObj, Obj
<1>1. \/ \E w \in Workloads : CreateService(r, w)
      \/ \E s \in Slot : SecretReply(r, s) \/ VMReply(r, s)
  BY <1>0 DEF RunStep, SerialStep, GoroutineStep, Signal, Crash, Start, PlanWorkload,
     PlanDone, EnsureNamespace, RecordService, MarkWorkload, ServicesDone, SecretsDone, VMsDone,
     WaitDone, Report, ReportDone, MarkDone, Complete, Launch, SendSecret, RecordSecret, SendVM,
     Backoff, RecordVMCreated, RecordVMEvent, Poll, clusterVars
<1>2. ASSUME NEW x, NEW l, NEW cut, NEW res, Create(x, l, cut, res)
      PROVE  x = VMObj(v) /\ owner'[VMObj(v)] = l
  BY <1>0, <1>2 DEF Create, Put
<1>3. ASSUME NEW w \in Workloads, CreateService(r, w) PROVE FALSE
  <2>1. \E res : Create(ServiceObj(w), RunLabel(r), FALSE, res)
    BY <1>0, <1>3 DEF CreateService
  <2> QED
    BY <1>2, <2>1 DEF ServiceObj, VMObj
<1>4. ASSUME NEW s \in Slot, SecretReply(r, s) PROVE FALSE
  <2>1. \E res : Create(SecretObj(Name(r, s)), RunLabel(r), Cut(r), res)
    BY <1>4 DEF SecretReply
  <2> QED
    BY <1>2, <2>1 DEF SecretObj, VMObj
<1>5. ASSUME NEW s \in Slot, VMReply(r, s)
      PROVE  s \in Planned(r) /\ v = Name(r, s) /\ owner'[VMObj(v)] = RunLabel(r)
  <2>1. \E res : Create(VMObj(Name(r, s)), RunLabel(r), Cut(r), res)
    BY <1>5 DEF VMReply
  <2>2. VMObj(Name(r, s)) = VMObj(v) /\ owner'[VMObj(v)] = RunLabel(r)
    BY <1>2, <2>1
  <2> QED
    BY <1>5, <2>2 DEF VMObj, VMReply, TypeInv, JobsPlanned
<1> QED
  BY <1>1, <1>3, <1>4, <1>5

\* No step gives a VM the run-id of a process that has no auditor, or of
\* another process than the one that takes it.
LEMMA LabelledStep ==
  ASSUME TypeInv, NEW r \in Runs, RunStep(r) \/ Signal(r) \/ Crash(r), NEW q \in Runs, Labelled(q)
  PROVE  /\ Labelled(q)'
         /\ q # r => \A v \in VMName : owner'[VMObj(v)] = q => owner[VMObj(v)] = q
<1>1. NoRun \notin Runs
  BY ClusterAssumption
<1>2. ASSUME NEW v \in VMName, owner'[VMObj(v)] = q, owner[VMObj(v)] # q PROVE q = r /\ r \notin NoAudit
  <2>1. q = RunLabel(r)
    BY <1>2, LabelStep
  <2> QED
    BY <1>1, <2>1 DEF RunLabel
<1> QED
  BY <1>2 DEF Labelled, VMObj

\* The records of a run's VMs survive every step that does not touch them.
LEMMA RecordsFrame ==
  ASSUME TypeInv, NEW q \in Runs, VMRecords(q), Grows, UNCHANGED cfg, Untouched(q), Unwritten(q),
         Labelled(q)', \A v \in VMName : owner'[VMObj(v)] = q => owner[VMObj(v)] = q
  PROVE  VMRecords(q)'
<1> USE DEF Untouched, Unwritten
<1>1. SpecBuilt(q)' /\ JobVerdict(q)'
  BY PlanFacts DEF VMRecords, SpecBuilt, JobVerdict, Undisturbed, BuildVMSpec
<1>2. \A s \in Planned(q) : Pending(q, s) => Pending(q, s)'
  BY PlanFacts DEF Pending, BuildVMSpec
<1>3. \A v \in VMName : Recorded(q, v) => Recorded(q, v)'
  BY DEF Recorded, VMObj
<1>4. Accounted(q)'
  BY <1>2, <1>3, PlanFacts DEF VMRecords, Accounted, VMObj
<1> QED
  BY <1>1, <1>4 DEF VMRecords

\* createVMs starts with a new pool, after createSecrets, and every goroutine
\* has returned when it ends.
LEMMA EnterVMs ==
  ASSUME TypeInv, NEW r \in Runs, RunStep(r), pc[r] # "vms", pc'[r] = "vms"
  PROVE  \A s \in Planned(r) : job'[r][s] = "idle"
<1>1. SecretsDone(r)
  <2> USE DEF TypeInv, RunTypeOK, Goto, Fail
  <2>1. CASE \/ Start(r) \/ PlanWorkload(r) \/ PlanDone(r) \/ EnsureNamespace(r) \/ ServicesDone(r)
             \/ Complete(r) \/ MarkDone(r)
    BY <2>1 DEF Start, PlanWorkload, PlanDone, EnsureNamespace, ToServices, ServicesDone, Complete,
       MarkDone
  <2>2. CASE \/ VMsDone(r) \/ WaitDone(r) \/ ReportDone(r) \/ (\E v \in VMName : Report(r, v))
             \/ \E w \in Workloads : CreateService(r, w) \/ RecordService(r, w) \/ MarkWorkload(r, w)
    BY <2>2 DEF VMsDone, WaitDone, ReportDone, Report, CreateService, RecordService, MarkWorkload
  <2>3. CASE \E s \in Slot : GoroutineStep(r, s)
    BY <2>3 DEF GoroutineStep, Launch, SendSecret, SecretReply, RecordSecret, SendVM, VMReply,
       Backoff, RecordVMCreated, RecordVMEvent, Poll
  <2> QED
    BY <2>1, <2>2, <2>3 DEF RunStep, SerialStep
<1>2. job' = [job EXCEPT ![r] = NoJobs]
  BY <1>1 DEF SecretsDone, Fail, Goto, TypeInv, RunTypeOK
<1> QED
  BY <1>2, PlannedNames DEF TypeInv, RunTypeOK, NoJobs

\* Outside createVMs, and where its pool is joined, nothing is pending, and
\* the records only grow.
LEMMA RecordsMove ==
  ASSUME TypeInv, NEW r \in Runs, VMRecords(r), Grows, UNCHANGED cfg,
         RunStep(r), UNCHANGED ctx, pc[r] # "vms" \/ VMsDone(r), pc[r] # "crashed"
  PROVE  VMRecords(r)'
<1>1. \A s \in Planned(r) : ~Pending(r, s)
  BY DEF Pending, VMsDone, Joined
<1>2. pc'[r] = "vms" => \A s \in Planned(r) : job'[r][s] = "idle"
  <2>1. CASE VMsDone(r)
    BY <2>1 DEF VMsDone, Goto, TypeInv, RunTypeOK
  <2> QED
    BY <2>1, EnterVMs
<1>3. SpecBuilt(r)' /\ JobVerdict(r)'
  BY <1>2, PlanFacts DEF SpecBuilt, JobVerdict
<1>4. Labelled(r)'
  BY LabelledStep DEF VMRecords
<1>5. ~\E s \in Slot : VMReply(r, s)
  BY DEF VMReply, VMsDone, Joined, TypeInv, JobsPlanned
<1>6. \A v \in VMName : owner'[VMObj(v)] = owner[VMObj(v)]
  BY <1>5, LabelStep, PlannedNames DEF TypeInv
<1>7. \A v \in VMName : Recorded(r, v) => Recorded(r, v)'
  BY AuditGrows DEF Recorded, VMObj, Obj
<1>8. Accounted(r)'
  BY <1>1, <1>6, <1>7 DEF VMRecords, Accounted, VMObj
<1> QED
  BY <1>3, <1>4, <1>8 DEF VMRecords

\* A signal, and the death of the process, end what is claimed of the run.
LEMMA RecordsStop ==
  ASSUME TypeInv, NEW r \in Runs, VMRecords(r), Grows, UNCHANGED cfg, Signal(r) \/ Crash(r)
  PROVE  VMRecords(r)'
<1>0. r \in Procs /\ AuditTypeOK
  BY DEF Procs, TypeInv, RunTypeOK
<1>1. \/ ctx'[r] = "cancelled" /\ UNCHANGED <<pc, job>>
      \/ pc'[r] = "crashed"
  BY <1>0 DEF Signal, Crash, Goto, runVars, TypeInv, RunTypeOK, AuditTypeOK
<1>2. Labelled(r)'
  BY LabelledStep DEF VMRecords
<1>3. SpecBuilt(r)'
  BY <1>1, PlanFacts DEF VMRecords, SpecBuilt, BuildVMSpec
<1> QED
  BY <1>1, <1>2, <1>3 DEF VMRecords, JobVerdict, Accounted, Undisturbed

\* What one goroutine of createVMs does: it never forgets a VM it may have
\* created, and leaves its row and its event before it returns.
LEMMA RecordsVMs ==
  ASSUME TypeInv, NEW r \in Runs, Rows(r), VMRecords(r), Grows, UNCHANGED <<cfg, pc, ctx>>,
         pc[r] = "vms", NEW s \in Slot, GoroutineStep(r, s)
  PROVE  VMRecords(r)'
<1>0. /\ s \in Planned(r) /\ Name(r, s) \in VMName /\ WorkloadOf(r, s) \in Workloads
      /\ VMObj(Name(r, s)) \in Obj
  BY PlannedNames, PlannedObjects DEF TypeInv, JobsPlanned, GoroutineStep, Launch, SendSecret,
     SecretReply, RecordSecret, SendVM, VMReply, Backoff, RecordVMCreated, RecordVMEvent, Poll
<1>1. RunStep(r)
  BY DEF RunStep
<1>2. PICK j : /\ SetJob(r, s, j)
               /\ \/ Launch(r, s) /\ job[r][s] = "idle" /\ j = "try"
                  \/ SendVM(r, s) /\ job[r][s] = "try" /\ ~BuildVMSpec(WorkloadOf(r, s)) /\ j = "err"
                  \/ /\ SendVM(r, s) /\ job[r][s] = "try" /\ BuildVMSpec(WorkloadOf(r, s))
                     /\ j \in {"fail", "sent"}
                  \/ VMReply(r, s) /\ job[r][s] = "sent" /\ j \in {"rec", "backoff", "fail"}
                  \/ Backoff(r, s) /\ job[r][s] = "backoff" /\ j \in {"try", "fail"}
                  \/ RecordVMCreated(r, s) /\ job[r][s] = "rec" /\ j = "ev"
                  \/ RecordVMEvent(r, s) /\ job[r][s] = "ev" /\ j = "ok"
                  \/ RecordVMEvent(r, s) /\ job[r][s] = "fail" /\ j = "err"
  <2>1. CASE Launch(r, s) \/ SendVM(r, s) \/ Backoff(r, s) \/ RecordVMCreated(r, s)
             \/ RecordVMEvent(r, s)
    BY <2>1 DEF Launch, SendVM, Backoff, RecordVMCreated, RecordVMEvent
  <2>2. CASE VMReply(r, s)
    BY <2>2 DEF VMReply, AfterReply
  <2> QED
    BY <2>1, <2>2 DEF GoroutineStep, SendSecret, SecretReply, RecordSecret, Poll
<1>3. \A t \in Planned(r) : job'[r][t] = IF t = s THEN j ELSE job[r][t]
  BY <1>2, JobAfter, PlannedNames DEF TypeInv
<1>4. SpecBuilt(r)'
  BY <1>2, <1>3, PlanFacts DEF VMRecords, SpecBuilt, BuildVMSpec
<1>5. Undisturbed(r) /\ RecordVMEvent(r, s) =>
        <<IF job[r][s] = "ev" THEN "vm_created" ELSE "vm_failed", Name(r, s)>> \in events'[r]
  <2>1. r \in Procs /\ AuditTypeOK
    BY DEF Procs, TypeInv, RunTypeOK
  <2> QED
    BY <2>1, UndisturbedWrites DEF RecordVMEvent, AuditInGroup, RecordEvent, AuditTypeOK
<1>6. Undisturbed(r) /\ RecordVMCreated(r, s) => rows'[r][VMObj(Name(r, s))] # {}
  <2>1. Undisturbed(r) /\ RecordVMCreated(r, s) => wlID[r][WorkloadOf(r, s)] # 0
    <3>1. WorkloadOf(r, s) \in Enabled(r)
      <4>1. s[1] \in 1..Len(cfg[r].req) /\ WorkloadOf(r, s) \notin Disabled
        BY <1>0, RunAssumption, AuditAssumption DEF Planned, Slot, TypeInv, RunTypeOK
      <4> QED
        BY <1>0, <4>1 DEF Enabled, WorkloadOf
    <3> QED
      BY <3>1 DEF Rows, RowsKnown, AfterPlan
  <2>2. AuditTypeOK
    BY DEF TypeInv, RunTypeOK
  <2> QED
    <3> SUFFICES ASSUME Undisturbed(r), RecordVMCreated(r, s) PROVE rows'[r][VMObj(Name(r, s))] # {}
      OBVIOUS
    <3>1. rows' = Insert(r, VMObj(Name(r, s)))
      BY <2>1, UndisturbedWrites DEF RecordVMCreated, AuditInGroup, RecordVM
    <3>2. rows'[r][VMObj(Name(r, s))] = rows[r][VMObj(Name(r, s))] \cup {"created"}
      BY <1>0, <2>2, <3>1 DEF Insert, AuditTypeOK
    <3> QED
      BY <3>2
<1>7. JobVerdict(r)'
  <2> SUFFICES ASSUME Undisturbed(r), NEW t \in Planned(r)
               PROVE  /\ job'[r][t] = "ok" => <<"vm_created", Name(r, t)>> \in events'[r]
                      /\ job'[r][t] = "err" /\ BuildVMSpec(WorkloadOf(r, t)) =>
                           <<"vm_failed", Name(r, t)>> \in events'[r]
    BY PlanFacts DEF JobVerdict, Undisturbed, BuildVMSpec
  <2>1. CASE t # s
    BY <1>1, <1>3, <2>1, AuditGrows DEF VMRecords, JobVerdict
  <2>2. CASE t = s
    BY <1>2, <1>3, <1>5, <2>2
  <2> QED
    BY <2>1, <2>2
<1>8. Labelled(r)'
  BY <1>1, LabelledStep DEF VMRecords
<1>9. Accounted(r)'
  <2> SUFFICES ASSUME ctx[r] = "live", ~DBMayFail, NEW v \in VMName, owner'[VMObj(v)] = r
               PROVE  Recorded(r, v)' \/ \E t \in Planned(r) : Name(r, t) = v /\ Pending(r, t)'
    BY PlanFacts DEF Accounted, VMObj
  <2>1. Undisturbed(r)
    BY <1>8 DEF Labelled, Undisturbed, VMObj
  <2>2. Recorded(r, v) => Recorded(r, v)'
    BY <1>1, AuditGrows DEF Recorded, VMObj, Obj
  <2>3. CASE \E t \in Planned(r) : Name(r, t) = v /\ Pending(r, t)
    <3>1. PICK t \in Planned(r) : Name(r, t) = v /\ Pending(r, t)
      BY <2>3
    <3>2. CASE t # s
      BY <1>3, <3>1, <3>2, PlanFacts DEF Pending, BuildVMSpec
    <3>3. CASE t = s /\ j \in {"try", "sent", "backoff", "fail", "rec"}
      BY <1>3, <3>1, <3>3, PlanFacts DEF Pending, BuildVMSpec
    <3>4. CASE t = s /\ j \notin {"try", "sent", "backoff", "fail", "rec"}
      <4>1. \/ RecordVMCreated(r, s)
            \/ RecordVMEvent(r, s) /\ job[r][s] = "fail"
        BY <1>2, <3>1, <3>4 DEF Pending
      <4> QED
        BY <1>5, <1>6, <2>1, <3>1, <3>4, <4>1 DEF Recorded, VMObj
    <3> QED
      BY <3>2, <3>3, <3>4
  <2>4. CASE owner[VMObj(v)] # r
    <3>1. PICK t \in Planned(r) : VMReply(r, t) /\ v = Name(r, t)
      BY <1>1, <2>4, LabelStep
    <3>2. PICK i \in {"rec", "backoff", "fail"} : SetJob(r, t, i)
      BY <3>1 DEF VMReply, AfterReply
    <3>3. job'[r][t] = i
      BY <3>2, JobAfter, PlannedNames DEF TypeInv
    <3>4. BuildVMSpec(WorkloadOf(r, t))
      BY <3>1 DEF VMRecords, SpecBuilt, VMReply
    <3> QED
      BY <3>1, <3>3, <3>4, PlanFacts DEF Pending, BuildVMSpec
  <2> QED
    BY <2>2, <2>3, <2>4 DEF VMRecords, Accounted
<1> QED
  BY <1>4, <1>7, <1>8, <1>9 DEF VMRecords

-----------------------------------------------------------------------------
\* Before the first run nothing is recorded.
LEMMA InitLedgerInv == RunsInit => LedgerInv
<1> SUFFICES ASSUME RunsInit PROVE LedgerInv
  OBVIOUS
<1>1. DeployInv /\ TypeInv
  BY InitDeployInv DEF DeployInv
<1>2. ASSUME NEW r \in Runs PROVE Rows(r) /\ VMRecords(r)
  <2>1. /\ pc[r] = "new" /\ outcome[r] = "none" /\ log[r] = "none" /\ planned[r] = 0
        /\ \A k \in 1..MaxReq : wlRow[r][k] = "none"
        /\ \A w \in Workloads : wlID[r][w] = 0
    BY DEF RunsInit, RunInit, AuditInit, Procs
  <2>2. \A v \in VMName : owner[VMObj(v)] # r
    BY ClusterAssumption DEF RunsInit, ClusterInit, VMObj, Obj
  <2>3. Rows(r)
    BY <2>1 DEF Rows, RowNames, PolledMixed, NoVerdictYet, CreatedRows, RowsPlanned, RowsKnown,
       OtherRows, MarkedSoFar, NoFailedRow, OkClosed, SuccessLogged, AfterPlan
  <2> QED
    BY <2>1, <2>2, <2>3 DEF VMRecords, SpecBuilt, JobVerdict, Labelled, Accounted
<1> QED
  BY <1>1, <1>2 DEF LedgerInv

\* A step of run r keeps its own part of the invariant.
LEMMA OwnLedger ==
  ASSUME TypeInv, NEW r \in Runs, Local(r), Rows(r), VMRecords(r), Grows, UNCHANGED cfg,
         RunStep(r) \/ Signal(r) \/ Crash(r)
  PROVE  Rows(r)' /\ VMRecords(r)'
<1>1. CASE Signal(r) \/ Crash(r)
  BY <1>1, RowsStartEnd, RecordsStop
<1>2. CASE RunStep(r)
  <2>1. UNCHANGED ctx /\ pc[r] # "crashed"
    BY <1>2 DEF RunStep, SerialStep, GoroutineStep, Start, PlanWorkload,
     PlanDone, EnsureNamespace, RecordService, MarkWorkload, ServicesDone, SecretsDone, VMsDone,
     WaitDone, Report, ReportDone, MarkDone, Complete, Launch, SendSecret, RecordSecret, SendVM,
     Backoff, RecordVMCreated, RecordVMEvent, Poll, CreateService, SecretReply, VMReply
  <2>2. CASE Start(r) \/ Complete(r)
    <3>1. pc[r] # "vms"
      BY <2>2 DEF Start, Complete
    <3> QED
      BY <1>2, <2>1, <2>2, <3>1, RowsStartEnd, RecordsMove
  <2>3. CASE PlanWorkload(r)
    <3>1. pc[r] # "vms"
      BY <2>3 DEF PlanWorkload
    <3> QED
      BY <1>2, <2>1, <2>3, <3>1, RowsPlan, RecordsMove
  <2>4. ASSUME NEW w \in Workloads, MarkWorkload(r, w) PROVE Rows(r)' /\ VMRecords(r)'
    <3>1. pc[r] # "vms"
      BY <2>4 DEF MarkWorkload
    <3> QED
      BY <1>2, <2>1, <2>4, <3>1, RowsMark, RecordsMove
  <2>5. CASE \/ PlanDone(r) \/ EnsureNamespace(r) \/ ServicesDone(r)
             \/ (\E w \in Workloads : CreateService(r, w) \/ RecordService(r, w))
             \/ SecretsDone(r) \/ VMsDone(r) \/ WaitDone(r) \/ ReportDone(r) \/ MarkDone(r)
             \/ (\E v \in VMName : Report(r, v))
    <3>1. UNCHANGED <<log, wlRow, wlID>>
      BY <2>5 DEF PlanDone, EnsureNamespace, ServicesDone, CreateService, RecordService, SecretsDone,
         VMsDone, WaitDone, ReportDone, MarkDone, Report, auditVars
    <3>2. pc[r] # "vms" \/ VMsDone(r)
      BY <2>5 DEF PlanDone, EnsureNamespace, ServicesDone, CreateService, RecordService, SecretsDone,
         WaitDone, ReportDone, MarkDone, Report
    <3>3. Rows(r)'
      BY <2>1, <2>5, <3>1, RowsMove
    <3> QED
      BY <1>2, <2>1, <3>2, <3>3, RecordsMove
  <2>6. ASSUME NEW s \in Slot, GoroutineStep(r, s) PROVE Rows(r)' /\ VMRecords(r)'
    <3>1. UNCHANGED <<log, wlRow, wlID, pc>>
      BY <2>6 DEF GoroutineStep, Launch, SendSecret, SecretReply, RecordSecret, SendVM, VMReply,
         Backoff, RecordVMCreated, RecordVMEvent, Poll, auditVars
    <3>2. Rows(r)'
      BY <2>1, <2>6, <3>1, RowsMove
    <3>3. VMRecords(r)'
      BY <1>2, <2>1, <2>6, <3>1, RecordsMove, RecordsVMs
    <3> QED
      BY <3>2, <3>3
  <2> QED
    BY <1>2, <2>2, <2>3, <2>4, <2>5, <2>6 DEF RunStep, SerialStep
<1> QED
  BY <1>1, <1>2

\* Every step keeps the invariant.
LEMMA NextLedgerInv == LedgerInv /\ [RunsNext]_rvars => LedgerInv'
<1> SUFFICES ASSUME LedgerInv, [RunsNext]_rvars PROVE LedgerInv'
  OBVIOUS
<1>0. /\ DeployInv /\ TypeInv /\ NothingTerminates
      /\ \A r \in Runs : Local(r) /\ Rows(r) /\ VMRecords(r)
  BY DEF LedgerInv, DeployInv
<1>1. DeployInv' /\ Grows /\ UNCHANGED cfg
  BY <1>0, NextDeployInv, StepGrows
<1>2. ASSUME NEW q \in Runs PROVE Rows(q)' /\ VMRecords(q)'
  <2>1. CASE UNCHANGED <<owner, ctx, auditVars, runVars>>
    <3>1. Untouched(q) /\ Unwritten(q)
      BY <2>1 DEF Untouched, Unwritten, auditVars, runVars
    <3>2. Labelled(q)' /\ \A v \in VMName : owner'[VMObj(v)] = q => owner[VMObj(v)] = q
      BY <1>0, <2>1 DEF VMRecords, Labelled, VMObj
    <3> QED
      BY <1>0, <1>1, <3>1, <3>2, RowsFrame, RecordsFrame
  <2>2. ASSUME NEW r \in Runs \ {q}, RunStep(r) \/ Signal(r) \/ Crash(r)
        PROVE  Rows(q)' /\ VMRecords(q)'
    <3>1. Untouched(q) /\ Unwritten(q)
      BY <1>0, <2>2, OthersFrame, AuditFrame
    <3>2. Labelled(q)' /\ \A v \in VMName : owner'[VMObj(v)] = q => owner[VMObj(v)] = q
      BY <1>0, <2>2, LabelledStep DEF VMRecords
    <3> QED
      BY <1>0, <1>1, <3>1, <3>2, RowsFrame, RecordsFrame
  <2>3. CASE RunStep(q) \/ Signal(q) \/ Crash(q)
    BY <1>0, <1>1, <2>3, OwnLedger
  <2>4. CASE ClusterNext /\ UNCHANGED <<ctx, auditVars, runVars>>
    <3>1. UNCHANGED owner
      BY <2>4 DEF ClusterNext, Boot, Finalize, NamespaceGone
    <3> QED
      BY <2>1, <2>4, <3>1
  <2>5. CASE UNCHANGED rvars
    BY <2>1, <2>5 DEF rvars, clusterVars
  <2> QED
    BY <2>2, <2>3, <2>4, <2>5 DEF RunsNext
<1> QED
  BY <1>1, <1>2 DEF LedgerInv

\* A workload row says 'created' only of a workload all of whose VMs are on
\* the cluster, Running if the run waited, whatever became of the others.
THEOREM CreatedRowsAreTrue == RunsSpec => []CreatedRowIsTrue
<1>1. LedgerInv => CreatedRowIsTrue
  BY DEF LedgerInv, Rows, CreatedRows, CreatedRowIsTrue, VMUp
<1> QED
  BY <1>1, InitLedgerInv, NextLedgerInv, PTL DEF RunsSpec

\* The execution row says 'success' only over workload rows that all say
\* 'created', but for the earlier rows of a name requested again, which are
\* still 'pending'; there are no other rows.
THEOREM RowsAgreeWithLog == RunsSpec => []RowsAgree
<1>1. LedgerInv => RowsAgree
  <2> SUFFICES ASSUME LedgerInv, NEW r \in Runs, log[r] = "success", ~cfg[r].dry, ~DBMayFail,
                      NEW k \in 1..MaxReq
               PROVE  wlRow[r][k] = IF AskedLast(r, k) THEN "created"
                                    ELSE IF Asked(r, k) THEN "pending" ELSE "none"
    BY DEF RowsAgree
  <2>1. Rows(r) /\ TypeInv
    BY DEF LedgerInv, DeployInv
  <2>2. pc[r] = "exited" /\ outcome[r] = "ok" /\ Undisturbed(r)
    BY <2>1 DEF Rows, SuccessLogged, Undisturbed
  <2>3. CASE ~Asked(r, k)
    BY <2>1, <2>2, <2>3 DEF Rows, OtherRows, AskedLast
  <2>4. CASE Asked(r, k)
    <3> DEFINE w == cfg[r].req[k]
               id == wlID[r][w]
    <3>1. k \in 1..Len(cfg[r].req) /\ w \in Workloads /\ w \in Enabled(r)
      BY <2>1, <2>4, Requested, AuditAssumption DEF Asked, Enabled, TypeInv
    <3>2. /\ k <= id /\ (k # id => wlRow[r][k] = "pending") /\ wlRow[r][id] = "created"
          /\ id # 0 => id \in 1..Len(cfg[r].req) /\ cfg[r].req[id] = w
      BY <2>1, <2>2, <2>4, <3>1 DEF Rows, OtherRows, OkClosed, RowNames
    <3>3. id \in Nat /\ \A j \in 1..Len(cfg[r].req) : cfg[r].req[j] = w => j <= id
      <4>1. id \in 0..MaxReq
        BY <2>1, <3>1 DEF TypeInv, RunTypeOK
      <4>2. ASSUME NEW j \in 1..Len(cfg[r].req), cfg[r].req[j] = w PROVE j <= id
        <5>1. Asked(r, j) /\ j \in 1..MaxReq
          BY <2>1, <2>4, <4>2, Requested, RunAssumption, AuditAssumption DEF Asked, TypeInv, RunTypeOK
        <5> QED
          BY <2>1, <2>2, <4>2, <5>1 DEF Rows, OtherRows
      <4> QED
        BY <4>1, <4>2, AuditAssumption
    <3> HIDE DEF id, w
    <3>4. AskedLast(r, k) <=> k = id
      BY <2>4, <3>1, <3>2, <3>3 DEF AskedLast, w
    <3> QED
      BY <2>4, <3>2, <3>4
  <2> QED
    BY <2>3, <2>4
<1> QED
  BY <1>1, InitLedgerInv, NextLedgerInv, PTL DEF RunsSpec

\* When createVMs returns, every VM whose spec could be built has its
\* vm_created or vm_failed event, whichever goroutine failed first.
THEOREM EveryVMGetsVerdict == RunsSpec => []EveryVMHasVerdict
<1>1. LedgerInv => EveryVMHasVerdict
  BY DEF LedgerInv, VMRecords, JobVerdict, Undisturbed, EveryVMHasVerdict, Joined
<1> QED
  BY <1>1, InitLedgerInv, NextLedgerInv, PTL DEF RunsSpec

\* Every VM that carries the run-id of a run that has ended undisturbed has a
\* vm_details row or a vm_failed event, also one created behind a lost answer.
THEOREM EveryVMOnRecord == RunsSpec => []EveryVMIsAccounted
<1>1. LedgerInv => EveryVMIsAccounted
  BY DEF LedgerInv, VMRecords, Accounted, Recorded, Pending, EveryVMIsAccounted
<1> QED
  BY <1>1, InitLedgerInv, NextLedgerInv, PTL DEF RunsSpec
=============================================================================
