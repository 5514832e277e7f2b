----------------------- MODULE RunOrchestratorProofs -----------------------
(***************************************************************************)
(* What holds of every number of concurrent "virtwork run" processes, of   *)
(* every set of workloads, VM counts, retry and concurrency limits and     *)
(* failures: type correctness.                                             *)
(***************************************************************************)
EXTENDS RunOrchestrator, TLAPS

\* A goroutine exists only for an entry of its run's plan.
JobsPlanned == \A r \in Runs, s \in Slot : job[r][s] # "idle" => s \in Planned(r)

\* A goroutine that sleeps in retryOnTransient has an attempt left.
RetriesLeft == \A r \in Runs, s \in Slot : job[r][s] = "backoff" => tries[r][s] < MaxRetries

\* Type correctness made inductive.
TypeInv == RunTypeOK /\ JobsPlanned /\ RetriesLeft

\* A requested workload is a workload, and there are at most MaxReq of them
\* (the argument list planVMs ranges over).
LEMMA Requested ==
  ASSUME RunTypeOK, NEW r \in Runs, NEW k \in 1..Len(cfg[r].req)
  PROVE  /\ cfg[r].req[k] \in Workloads
         /\ k \in 1..MaxReq
  BY RunAssumption, AuditAssumption DEF RunTypeOK

\* Where there is a run there is a workload, and a VM name.
LEMMA Inhabited ==
  ASSUME RunTypeOK, NEW r \in Runs
  PROVE  (\E w \in Workloads : TRUE) /\ (\E v \in VMName : TRUE)
<1>1. cfg[r] \in RunConfigs /\ Len(cfg[r].req) \in 1..MaxReq
  BY RunAssumption DEF RunTypeOK
<1>2. 1 \in 1..Len(cfg[r].req)
  BY <1>1, AuditAssumption
<1>3. PICK w \in Workloads : TRUE
  BY <1>2, Requested
<1>4. <<w, 1>> \in {w} \X (1..VMCount[w])
  BY ClusterAssumption
<1> QED
  BY <1>3, <1>4 DEF VMName

\* Plan entries are named after VMs of requested workloads (planVMs).
LEMMA PlannedNames ==
  ASSUME RunTypeOK, NEW r \in Runs, NEW s \in Planned(r)
  PROVE  /\ s \in Slot
         /\ WorkloadOf(r, s) \in Workloads
         /\ Name(r, s) \in VMName
<1>1. s \in Slot /\ s[1] \in 1..Len(cfg[r].req) /\ s[2] \in 1..MaxVMs
      /\ s[2] <= VMCount[WorkloadOf(r, s)]
  BY RunAssumption, AuditAssumption DEF Planned, Slot, RunTypeOK
<1>2. WorkloadOf(r, s) \in Workloads
  BY <1>1, Requested DEF WorkloadOf
<1>3. s[2] \in 1..VMCount[WorkloadOf(r, s)]
  BY <1>1, <1>2, RunAssumption, ClusterAssumption
<1>4. Name(r, s) \in {WorkloadOf(r, s)} \X (1..VMCount[WorkloadOf(r, s)])
  BY <1>3 DEF Name
<1> QED
  BY <1>1, <1>2, <1>4 DEF VMName

\* The initial state is well typed and starts no goroutine.
LEMMA InitTypeInv == RunsInit => TypeInv
<1> SUFFICES ASSUME RunsInit PROVE TypeInv
  OBVIOUS
<1> USE RunAssumption, AuditAssumption, ClusterAssumption
<1>1. ClusterTypeOK
  BY DEF RunsInit, ClusterInit, ClusterTypeOK, ObjState, Label
<1>2. AuditTypeOK
  BY DEF RunsInit, AuditInit, AuditTypeOK, LogStatus, WlStatus
<1>3. RunTypeOK
  BY <1>1, <1>2 DEF RunsInit, RunInit, RunTypeOK, PC, NoJobs, JobState
<1>4. JobsPlanned /\ RetriesLeft
  BY DEF RunsInit, RunInit, NoJobs, JobsPlanned, RetriesLeft
<1> QED
  BY <1>3, <1>4 DEF TypeInv

-----------------------------------------------------------------------------
\* Steps of the cluster's controllers keep the types.
LEMMA ClusterStepType ==
  ASSUME TypeInv, ClusterNext, UNCHANGED <<ctx, auditVars, runVars>>
  PROVE  TypeInv'
<1>1. ClusterTypeOK'
  BY DEF TypeInv, RunTypeOK, ClusterTypeOK, ClusterNext, Boot, Finalize, NamespaceGone, ObjState
<1> QED
  BY <1>1 DEF TypeInv, RunTypeOK, AuditTypeOK, JobsPlanned, RetriesLeft, Planned, WorkloadOf,
              auditVars, runVars

\* Signals and crashes keep the types.
LEMMA StopType ==
  ASSUME TypeInv, NEW r \in Runs, Signal(r) \/ Crash(r)
  PROVE  TypeInv'
<1>1. CASE Signal(r)
  BY <1>1, AuditAssumption DEF Signal, TypeInv, RunTypeOK, ClusterTypeOK, AuditTypeOK, JobsPlanned,
     RetriesLeft, Planned, WorkloadOf, clusterVars, auditVars, runVars, Procs
<1>2. CASE Crash(r)
  BY <1>2, AuditAssumption, RunAssumption DEF Crash, Goto, Forget, NoJobs, TypeInv, RunTypeOK,
     ClusterTypeOK, AuditTypeOK, JobsPlanned, RetriesLeft, Planned, WorkloadOf, clusterVars,
     auditVars, PC, JobState
<1> QED
  BY <1>1, <1>2

\* A statement is executed or not.
LEMMA ExecutedType ==
  ASSUME NEW r PROVE Executed(r) \subseteq BOOLEAN
  BY DEF Executed

\* Each statement keeps the type of the table it writes (internal/audit).
LEMMA AuditTypes ==
  ASSUME AuditTypeOK, NEW r \in Runs, NEW ok \in BOOLEAN
  PROVE  /\ StartExecution(r, ok) => log' \in [Procs -> LogStatus]
         /\ \A status \in LogStatus :
              CompleteExecution(r, status, ok) => log' \in [Procs -> LogStatus]
         /\ \A k \in 1..MaxReq :
              RecordWorkload(r, k, ok) => wlRow' \in [Runs -> [1..MaxReq -> WlStatus]]
         /\ \A id \in 0..MaxReq, status \in WlStatus :
              UpdateWorkloadStatus(r, id, status, ok) => wlRow' \in [Runs -> [1..MaxReq -> WlStatus]]
<1> USE DEF AuditTypeOK, Writes, Procs
<1>2. StartExecution(r, ok) => log' \in [Procs -> LogStatus]
  BY DEF StartExecution, LogStatus
<1>3. \A status \in LogStatus : CompleteExecution(r, status, ok) => log' \in [Procs -> LogStatus]
  BY DEF CompleteExecution
<1>4. \A k \in 1..MaxReq :
        RecordWorkload(r, k, ok) => wlRow' \in [Runs -> [1..MaxReq -> WlStatus]]
  BY DEF RecordWorkload, WlStatus
<1>5. \A id \in 0..MaxReq, status \in WlStatus :
        UpdateWorkloadStatus(r, id, status, ok) => wlRow' \in [Runs -> [1..MaxReq -> WlStatus]]
  BY DEF UpdateWorkloadStatus
<1> QED
  BY <1>2, <1>3, <1>4, <1>5

\* So does RecordEvent.
LEMMA EventTypes ==
  ASSUME AuditTypeOK, NEW r \in Runs, NEW ok \in BOOLEAN,
         NEW type \in EventType, NEW x \in Subject, RecordEvent(r, type, x, ok)
  PROVE  events' \in [Procs -> SUBSET (EventType \X Subject)]
  BY DEF RecordEvent, AuditTypeOK, Writes, Procs

\* Rows of vm_details and resource_details keep their type.
LEMMA RowTypes ==
  ASSUME AuditTypeOK, NEW r \in Runs, NEW ok \in BOOLEAN, NEW o, NEW v, NEW id,
         RecordResource(r, o, ok) \/ RecordVM(r, v, id, ok)
  PROVE  rows' \in [Runs -> [Obj -> SUBSET {"created", "deleted"}]]
<1>1. \A x : Insert(r, x) \in [Runs -> [Obj -> SUBSET {"created", "deleted"}]]
  BY DEF Insert, AuditTypeOK
<1> QED
  BY <1>1 DEF RecordResource, RecordVM, AuditTypeOK

\* Whatever a Create request does, the cluster keeps its type.
LEMMA CreateTypes ==
  ASSUME ClusterTypeOK, NEW o, NEW l \in Label, NEW cut, NEW res, Create(o, l, cut, res), UNCHANGED ns
  PROVE  ClusterTypeOK'
  BY DEF ClusterTypeOK, Create, Put, ObjState

\* The run-id label of a run is a label.
LEMMA RunLabelType ==
  ASSUME NEW r \in Runs PROVE RunLabel(r) \in Label
  BY DEF RunLabel, Label

\* Control moves among the calls, and an error return is an outcome.
LEMMA GotoTypes ==
  ASSUME RunTypeOK, NEW r \in Runs
  PROVE  /\ \A l \in PC : Goto(r, l) => pc' \in [Runs -> PC]
         /\ Fail(r) => pc' \in [Runs -> PC] /\ outcome' \in [Runs -> {"none", "ok", "error"}]
  BY DEF RunTypeOK, Goto, Fail, PC

\* The plan is fixed once the configuration is.
LEMMA PlanFixed ==
  ASSUME UNCHANGED cfg
  PROVE  \A r \in Runs : Planned(r)' = Planned(r)
  BY DEF Planned, WorkloadOf

\* A goroutine of a planned entry moves on.
LEMMA SetJobType ==
  ASSUME TypeInv, NEW r \in Runs, NEW s \in Planned(r), NEW j \in JobState, SetJob(r, s, j),
         UNCHANGED <<cfg, tries>>, j = "backoff" => tries[r][s] < MaxRetries
  PROVE  /\ job' \in [Runs -> [Slot -> JobState]]
         /\ JobsPlanned'
         /\ RetriesLeft'
<1>1. job' \in [Runs -> [Slot -> JobState]]
  BY DEF TypeInv, RunTypeOK, SetJob
<1>2. s \in Slot
  BY DEF Planned
<1>3. \A q \in Runs, t \in Slot : job'[q][t] = IF q = r /\ t = s THEN j ELSE job[q][t]
  BY <1>2 DEF TypeInv, RunTypeOK, SetJob
<1> QED
  BY <1>1, <1>3, PlanFixed DEF TypeInv, JobsPlanned, RetriesLeft

\* A pool is set up anew: no goroutine, or one poller per plan entry.
LEMMA PoolType ==
  ASSUME TypeInv, NEW r \in Runs, NEW f \in [Slot -> {"idle", "poll"}],
         \A s \in Slot : f[s] # "idle" => s \in Planned(r),
         job' = [job EXCEPT ![r] = f], UNCHANGED cfg, \A q \in Runs \ {r} : tries'[q] = tries[q]
  PROVE  /\ job' \in [Runs -> [Slot -> JobState]]
         /\ JobsPlanned'
         /\ RetriesLeft'
<1>1. job' \in [Runs -> [Slot -> JobState]]
  BY DEF TypeInv, RunTypeOK, JobState
<1>2. \A q \in Runs : job'[q] = IF q = r THEN f ELSE job[q]
  BY DEF TypeInv, RunTypeOK
<1>3. \A s \in Slot : f[s] # "backoff"
  OBVIOUS
<1> QED
  BY <1>1, <1>2, <1>3, PlanFixed DEF TypeInv, JobsPlanned, RetriesLeft

\* The steps that leave the goroutines alone keep what is said of them.
LEMMA JobsFrame ==
  ASSUME TypeInv, UNCHANGED <<cfg, job, tries>>
  PROVE  JobsPlanned' /\ RetriesLeft'
  BY PlanFixed DEF TypeInv, JobsPlanned, RetriesLeft

-----------------------------------------------------------------------------
\* runE before ro.Run, and planVMs.
LEMMA PlanningType ==
  ASSUME TypeInv, NEW r \in Runs, Start(r) \/ PlanWorkload(r) \/ PlanDone(r)
  PROVE  TypeInv'
<1> USE DEF TypeInv
<1>0. AuditTypeOK /\ r \in Procs /\ r \in Subject
  BY DEF RunTypeOK, Procs, Subject
<1>1. CASE Start(r)
  <2>1. log' \in [Procs -> LogStatus]
    BY <1>0, <1>1, ExecutedType, AuditTypes DEF Start, AuditTypeOK
  <2>2. events' \in [Procs -> SUBSET (EventType \X Subject)]
    BY <1>0, <1>1, ExecutedType, EventTypes DEF Start, AuditTypeOK, EventType
  <2>3. pc' \in [Runs -> PC] /\ outcome' \in [Runs -> {"none", "ok", "error"}]
    BY <1>1 DEF Start, Goto, RunTypeOK, PC
  <2>4. JobsPlanned' /\ RetriesLeft'
    BY <1>1, JobsFrame DEF Start
  <2> QED
    BY <1>1, <2>1, <2>2, <2>3, <2>4 DEF Start, RunTypeOK, ClusterTypeOK, AuditTypeOK, clusterVars
<1>2. CASE PlanWorkload(r)
  <2> DEFINE k == planned[r] + 1
             w == cfg[r].req[k]
  <2>1. k \in 1..Len(cfg[r].req) /\ k \in 1..MaxReq /\ w \in Workloads
    BY <1>2, Requested, RunAssumption, AuditAssumption DEF PlanWorkload, RunTypeOK
  <2>a. k \in 0..MaxReq /\ 0 \in 0..MaxReq
    BY <2>1, AuditAssumption
  <2> HIDE DEF k, w
  <2>2. events' \in [Procs -> SUBSET (EventType \X Subject)]
    <3>1. (\E ok \in Executed(r) : RecordEvent(r, "workload_skipped", w, ok)) \/ UNCHANGED events
      BY <1>2 DEF PlanWorkload, k, w
    <3> QED
      BY <1>0, <2>1, <3>1, ExecutedType, EventTypes DEF AuditTypeOK, EventType, Subject
  <2>3. wlRow' \in [Runs -> [1..MaxReq -> WlStatus]]
    <3>1. (\E ok \in Executed(r) : RecordWorkload(r, k, ok)) \/ UNCHANGED wlRow
      BY <1>2 DEF PlanWorkload, k, w
    <3> QED
      BY <1>0, <2>1, <3>1, ExecutedType, AuditTypes DEF AuditTypeOK
  <2>4. wlID' \in [Runs -> [Workloads -> 0..MaxReq]]
    <3>1. (\E id \in {k, 0} : wlID' = [wlID EXCEPT ![r][w] = id]) \/ UNCHANGED wlID
      BY <1>2 DEF PlanWorkload, k, w
    <3>2. \A id \in 0..MaxReq :
            [wlID EXCEPT ![r][w] = id] \in [Runs -> [Workloads -> 0..MaxReq]]
      BY DEF RunTypeOK
    <3>3. CASE \E id \in {k, 0} : wlID' = [wlID EXCEPT ![r][w] = id]
      <4>1. PICK id \in {k, 0} : wlID' = [wlID EXCEPT ![r][w] = id]
        BY <3>3
      <4>2. id \in 0..MaxReq
        BY <2>a
      <4> QED
        BY <3>2, <4>1, <4>2 DEF RunTypeOK
    <3> QED
      BY <3>1, <3>3 DEF RunTypeOK
  <2>7. planned' \in [Runs -> 0..MaxReq]
    <3>1. planned' = [planned EXCEPT ![r] = k] \/ UNCHANGED planned
      BY <1>2 DEF PlanWorkload, k, w
    <3> QED
      BY <2>1, <2>a, <3>1 DEF RunTypeOK
  <2>5. pc' \in [Runs -> PC] /\ outcome' \in [Runs -> {"none", "ok", "error"}]
    BY <1>2 DEF PlanWorkload, Fail, Goto, RunTypeOK, PC
  <2>6. JobsPlanned' /\ RetriesLeft'
    BY <1>2, JobsFrame DEF PlanWorkload
  <2> QED
    BY <1>2, <2>2, <2>3, <2>4, <2>5, <2>6, <2>7
    DEF PlanWorkload, RunTypeOK, ClusterTypeOK, AuditTypeOK, clusterVars
<1>3. CASE PlanDone(r)
  <2>1. events' \in [Procs -> SUBSET (EventType \X Subject)]
    BY <1>0, <1>3, ExecutedType, EventTypes DEF PlanDone, EventType
  <2>2. pc' \in [Runs -> PC] /\ outcome' \in [Runs -> {"none", "ok", "error"}]
    BY <1>3 DEF PlanDone, printDryRun, Goto, RunTypeOK, PC
  <2>3. JobsPlanned' /\ RetriesLeft'
    BY <1>3, JobsFrame DEF PlanDone
  <2> QED
    BY <1>3, <2>1, <2>2, <2>3 DEF PlanDone, RunTypeOK, ClusterTypeOK, AuditTypeOK, clusterVars
<1> QED
  BY <1>1, <1>2, <1>3

-----------------------------------------------------------------------------
\* createResources: the namespace and the Services.
LEMMA ResourcesType ==
  ASSUME TypeInv, NEW r \in Runs, NEW w \in Workloads,
         \/ EnsureNamespace(r) \/ ServicesDone(r)
         \/ CreateService(r, w) \/ RecordService(r, w)
  PROVE  TypeInv'
<1> USE DEF TypeInv
<1>0. AuditTypeOK /\ ClusterTypeOK /\ w \in Subject
  BY DEF RunTypeOK, Subject
<1>1. CASE EnsureNamespace(r)
  <2>1. ClusterTypeOK'
    BY <1>1 DEF EnsureNamespace, RunTypeOK, ClusterTypeOK
  <2>2. pc' \in [Runs -> PC] /\ outcome' \in [Runs -> {"none", "ok", "error"}]
    <3>1. \/ \E l \in {"svc", "nsget", "nspatch"} : Goto(r, l) /\ UNCHANGED outcome
          \/ Fail(r)
      BY <1>1 DEF EnsureNamespace, ToServices
    <3> QED
      BY <3>1, GotoTypes DEF PC, RunTypeOK
  <2>4. todo' \in [Runs -> SUBSET (Workloads \cup VMName)]
    <3>1. \/ todo' = [todo EXCEPT ![r] = Enabled(r) \cap NeedsService]
          \/ UNCHANGED todo
      BY <1>1 DEF EnsureNamespace, ToServices
    <3> QED
      <4>1. Enabled(r) \cap NeedsService \in SUBSET (Workloads \cup VMName)
        BY DEF Enabled
      <4>2. todo \in [Runs -> SUBSET (Workloads \cup VMName)]
        BY DEF RunTypeOK
      <4> QED
        BY <3>1, <4>1, <4>2
  <2>3. JobsPlanned' /\ RetriesLeft'
    BY <1>1, JobsFrame DEF EnsureNamespace
  <2> QED
    BY <1>1, <2>1, <2>2, <2>3, <2>4 DEF EnsureNamespace, RunTypeOK, AuditTypeOK, auditVars
<1>2. CASE ServicesDone(r)
  <2>1. pc' \in [Runs -> PC]
    BY <1>2 DEF ServicesDone, Goto, RunTypeOK, PC
  <2>2. JobsPlanned' /\ RetriesLeft'
    BY <1>2, JobsFrame DEF ServicesDone
  <2> QED
    BY <1>2, <2>1, <2>2 DEF ServicesDone, RunTypeOK, ClusterTypeOK, AuditTypeOK, clusterVars, auditVars
<1>3. CASE CreateService(r, w)
  <2>1. ClusterTypeOK'
    <3>1. UNCHANGED ns /\ ( \/ UNCHANGED <<st, owner>>
                            \/ \E res : Create(ServiceObj(w), RunLabel(r), FALSE, res))
      BY <1>3 DEF CreateService
    <3> QED
      BY <1>0, <3>1, CreateTypes, RunLabelType DEF ClusterTypeOK
  <2>2. /\ pc' \in [Runs -> PC]
        /\ outcome' \in [Runs -> {"none", "ok", "error"}]
        /\ cur' \in [Runs -> SUBSET Workloads]
    <3>1. \/ Goto(r, "svcrec") /\ cur' = [cur EXCEPT ![r] = {w}] /\ UNCHANGED outcome
          \/ Fail(r) /\ UNCHANGED cur
      BY <1>3 DEF CreateService
    <3>2. pc' \in [Runs -> PC] /\ outcome' \in [Runs -> {"none", "ok", "error"}]
      BY <3>1, GotoTypes DEF RunTypeOK, PC
    <3>3. cur' \in [Runs -> SUBSET Workloads]
      <4>1. cur' = [cur EXCEPT ![r] = {w}] \/ UNCHANGED cur
        BY <3>1
      <4>2. cur \in [Runs -> SUBSET Workloads] /\ {w} \in SUBSET Workloads
        BY DEF RunTypeOK
      <4> QED
        BY <4>1, <4>2
    <3> QED
      BY <3>2, <3>3
  <2>3. JobsPlanned' /\ RetriesLeft'
    BY <1>3, JobsFrame DEF CreateService
  <2> QED
    BY <1>3, <2>1, <2>2, <2>3 DEF CreateService, RunTypeOK, AuditTypeOK, auditVars
<1>4. CASE RecordService(r, w)
  <2>1. PICK ok \in Executed(r), ev \in Executed(r) :
          /\ RecordResource(r, ServiceObj(w), ok)
          /\ RecordEvent(r, "service_created", w, ev)
    BY <1>4 DEF RecordService
  <2>2. ok \in BOOLEAN /\ ev \in BOOLEAN /\ "service_created" \in EventType
    BY ExecutedType DEF EventType
  <2>3. rows' \in [Runs -> [Obj -> SUBSET {"created", "deleted"}]]
    BY <1>0, <2>1, <2>2, RowTypes
  <2>4. events' \in [Procs -> SUBSET (EventType \X Subject)]
    BY <1>0, <2>1, <2>2, EventTypes
  <2>5. /\ pc' \in [Runs -> PC]
        /\ todo' \in [Runs -> SUBSET (Workloads \cup VMName)]
        /\ cur' \in [Runs -> SUBSET Workloads]
    BY <1>4 DEF RecordService, Goto, RunTypeOK, PC
  <2>6. JobsPlanned' /\ RetriesLeft'
    BY <1>4, JobsFrame DEF RecordService
  <2> QED
    BY <1>4, <2>3, <2>4, <2>5, <2>6 DEF RecordService, RunTypeOK, ClusterTypeOK, AuditTypeOK, clusterVars
<1> QED
  BY <1>1, <1>2, <1>3, <1>4

\* The pool of createSecrets, and g.Go of both pools.
LEMMA SecretsType ==
  ASSUME TypeInv, NEW r \in Runs, NEW s \in Slot,
         \/ Launch(r, s) \/ SendSecret(r, s) \/ SecretReply(r, s) \/ RecordSecret(r, s)
  PROVE  TypeInv'
<1> USE DEF TypeInv
<1>0. AuditTypeOK /\ ClusterTypeOK /\ s \in Planned(r)
  BY DEF RunTypeOK, JobsPlanned, Launch, SendSecret, SecretReply, RecordSecret
<1>1. PICK j \in {"try", "err", "sent", "rec", "ok"} : SetJob(r, s, j) /\ UNCHANGED <<cfg, tries>>
  BY DEF Launch, SendSecret, SecretReply, RecordSecret
<1>2. job' \in [Runs -> [Slot -> JobState]] /\ JobsPlanned' /\ RetriesLeft'
  BY <1>0, <1>1, SetJobType DEF JobState
<1>3. ClusterTypeOK'
  <2>1. \/ UNCHANGED clusterVars
        \/ UNCHANGED ns /\ \E res : Create(SecretObj(Name(r, s)), RunLabel(r), Cut(r), res)
    BY DEF Launch, SendSecret, SecretReply, RecordSecret
  <2> QED
    BY <1>0, <2>1, CreateTypes, RunLabelType DEF ClusterTypeOK, clusterVars
<1>4. rows' \in [Runs -> [Obj -> SUBSET {"created", "deleted"}]]
  <2>1. UNCHANGED rows \/ \E ok \in Executed(r) : RecordResource(r, SecretObj(Name(r, s)), ok)
    BY DEF Launch, SendSecret, SecretReply, RecordSecret, AuditInGroup, auditVars
  <2> QED
    BY <1>0, <2>1, ExecutedType, RowTypes DEF AuditTypeOK
<1>5. UNCHANGED <<ctx, log, wlRow, events, linked, counts,
                  cfg, pc, planned, wlID, todo, cur, tries, ready, outcome>>
  BY DEF Launch, SendSecret, SecretReply, RecordSecret, auditVars
<1> QED
  BY <1>2, <1>3, <1>4, <1>5 DEF RunTypeOK, AuditTypeOK

\* The pool of createVMs with its retries, and the pollers.
LEMMA VMsType ==
  ASSUME TypeInv, NEW r \in Runs, NEW s \in Slot,
         \/ SendVM(r, s) \/ VMReply(r, s) \/ RecordVMCreated(r, s) \/ RecordVMEvent(r, s)
         \/ Poll(r, s) \/ Backoff(r, s)
  PROVE  TypeInv'
<1> USE DEF TypeInv
<1>0. AuditTypeOK /\ ClusterTypeOK /\ s \in Planned(r) /\ Name(r, s) \in VMName
  <2>1. s \in Planned(r)
    BY DEF RunTypeOK, JobsPlanned, SendVM, VMReply, RecordVMCreated, RecordVMEvent, Poll, Backoff
  <2> QED
    BY <2>1, PlannedNames DEF RunTypeOK
<1>1. CASE Backoff(r, s)
  <2>1. tries[r][s] < MaxRetries
    BY <1>1 DEF Backoff, RetriesLeft
  <2>2. tries' \in [Runs -> [Slot -> 0..MaxRetries]]
    <3>1. tries[r][s] + 1 \in 0..MaxRetries /\ tries \in [Runs -> [Slot -> 0..MaxRetries]]
      BY <2>1, RunAssumption DEF RunTypeOK
    <3>2. tries' = [tries EXCEPT ![r][s] = tries[r][s] + 1] \/ UNCHANGED tries
      BY <1>1, <3>1 DEF Backoff
    <3> QED
      BY <3>1, <3>2
  <2>3. PICK j \in {"try", "fail"} : SetJob(r, s, j)
    BY <1>1 DEF Backoff
  <2>4. job' \in [Runs -> [Slot -> JobState]]
    BY <2>3 DEF RunTypeOK, SetJob, JobState
  <2>5. \A q \in Runs, t \in Slot :
          /\ job'[q][t] = IF q = r /\ t = s THEN j ELSE job[q][t]
          /\ (q # r \/ t # s) => tries'[q][t] = tries[q][t]
    BY <1>1, <2>3 DEF RunTypeOK, SetJob, Backoff
  <2>6. JobsPlanned' /\ RetriesLeft'
    BY <1>0, <1>1, <2>5, PlanFixed DEF Backoff, JobsPlanned, RetriesLeft
  <2> QED
    BY <1>1, <2>2, <2>4, <2>6 DEF Backoff, RunTypeOK, ClusterTypeOK, AuditTypeOK, clusterVars, auditVars
<1>2. CASE SendVM(r, s) \/ VMReply(r, s) \/ RecordVMCreated(r, s) \/ RecordVMEvent(r, s) \/ Poll(r, s)
  <2>1. PICK j \in JobState : /\ SetJob(r, s, j) /\ UNCHANGED <<cfg, tries>>
                              /\ j = "backoff" => tries[r][s] < MaxRetries
    BY <1>2 DEF SendVM, VMReply, AfterReply, RecordVMCreated, RecordVMEvent, Poll, JobState
  <2>2. job' \in [Runs -> [Slot -> JobState]] /\ JobsPlanned' /\ RetriesLeft'
    BY <1>0, <2>1, SetJobType
  <2>3. ClusterTypeOK'
    <3>1. \/ UNCHANGED clusterVars
          \/ UNCHANGED ns /\ \E res : Create(VMObj(Name(r, s)), RunLabel(r), Cut(r), res)
      BY <1>2 DEF SendVM, VMReply, RecordVMCreated, RecordVMEvent, Poll
    <3> QED
      BY <1>0, <3>1, CreateTypes, RunLabelType DEF ClusterTypeOK, clusterVars
  <2>4. rows' \in [Runs -> [Obj -> SUBSET {"created", "deleted"}]]
    <3>1. \/ UNCHANGED rows
          \/ \E ok \in Executed(r) : RecordVM(r, Name(r, s), wlID[r][WorkloadOf(r, s)], ok)
      BY <1>2 DEF SendVM, VMReply, RecordVMCreated, RecordVMEvent, Poll, AuditInGroup, auditVars
    <3> QED
      BY <1>0, <3>1, ExecutedType, RowTypes DEF AuditTypeOK
  <2>5. events' \in [Procs -> SUBSET (EventType \X Subject)]
    <3>1. \/ UNCHANGED events
          \/ \E ok \in Executed(r), type \in {"vm_created", "vm_failed"} :
               RecordEvent(r, type, Name(r, s), ok)
      BY <1>2 DEF SendVM, VMReply, RecordVMCreated, RecordVMEvent, Poll, AuditInGroup, auditVars
    <3> QED
      BY <1>0, <3>1, ExecutedType, EventTypes DEF AuditTypeOK, EventType, Subject
  <2>6. ready' \in [Runs -> [VMName -> {"none", "ok", "err"}]]
    <3>1. \/ UNCHANGED ready
          \/ \E x \in {"ok", "err"} : ready' = [ready EXCEPT ![r][Name(r, s)] = x]
      BY <1>2 DEF SendVM, VMReply, RecordVMCreated, RecordVMEvent, Poll
    <3>2. \A x \in {"ok", "err"} :
            [ready EXCEPT ![r][Name(r, s)] = x] \in [Runs -> [VMName -> {"none", "ok", "err"}]]
      BY DEF RunTypeOK
    <3> QED
      BY <3>1, <3>2 DEF RunTypeOK
  <2>7. UNCHANGED <<ctx, log, wlRow, linked, counts,
                    cfg, pc, planned, wlID, todo, cur, tries, outcome>>
    BY <1>2 DEF SendVM, VMReply, RecordVMCreated, RecordVMEvent, Poll, auditVars
  <2> QED
    BY <2>2, <2>3, <2>4, <2>5, <2>6, <2>7 DEF RunTypeOK, AuditTypeOK
<1> QED
  BY <1>1, <1>2

\* The ends of the pools, the report, the marks and the end of runE.
LEMMA JoinsType ==
  ASSUME TypeInv, NEW r \in Runs, NEW v \in VMName, NEW w \in Workloads,
         \/ SecretsDone(r) \/ VMsDone(r) \/ WaitDone(r) \/ Report(r, v) \/ ReportDone(r)
         \/ MarkWorkload(r, w) \/ MarkDone(r) \/ Complete(r)
  PROVE  TypeInv'
<1> USE DEF TypeInv
<1>0. AuditTypeOK /\ ClusterTypeOK /\ v \in Subject
  BY DEF RunTypeOK, Subject
<1>1. ClusterTypeOK'
  BY <1>0 DEF SecretsDone, VMsDone, WaitDone, Report, ReportDone, MarkWorkload, MarkDone, Complete,
     ClusterTypeOK, clusterVars
<1>2. AuditTypeOK'
  <2>1. CASE Report(r, v)
    <3>1. PICK ok \in Executed(r), type \in {"vm_ready", "vm_timeout"} : RecordEvent(r, type, v, ok)
      BY <2>1 DEF Report
    <3>2. events' \in [Procs -> SUBSET (EventType \X Subject)]
      BY <1>0, <3>1, ExecutedType, EventTypes DEF EventType
    <3> QED
      BY <1>0, <2>1, <3>2 DEF Report, AuditTypeOK
  <2>2. CASE MarkWorkload(r, w)
    <3>1. PICK ok \in Executed(r) : UpdateWorkloadStatus(r, wlID[r][w], FinalStatus(r, w), ok)
      BY <2>2 DEF MarkWorkload
    <3>2. FinalStatus(r, w) \in WlStatus /\ wlID[r][w] \in 0..MaxReq /\ ok \in BOOLEAN
      BY ExecutedType DEF FinalStatus, WlStatus, RunTypeOK
    <3>3. wlRow' \in [Runs -> [1..MaxReq -> WlStatus]]
      BY <1>0, <3>1, <3>2, AuditTypes
    <3> QED
      BY <1>0, <2>2, <3>3 DEF MarkWorkload, AuditTypeOK
  <2>3. CASE Complete(r)
    <3>1. PICK ok \in Executed(r) : CompleteExecution(r, AuditStatus(r, outcome[r] = "ok"), ok)
      BY <2>3 DEF Complete
    <3>2. AuditStatus(r, outcome[r] = "ok") \in LogStatus /\ ok \in BOOLEAN
      BY ExecutedType DEF AuditStatus, LogStatus
    <3>3. log' \in [Procs -> LogStatus]
      BY <1>0, <3>1, <3>2, AuditTypes
    <3> QED
      BY <1>0, <2>3, <3>3 DEF Complete, AuditTypeOK
  <2>4. CASE SecretsDone(r) \/ VMsDone(r) \/ WaitDone(r) \/ ReportDone(r) \/ MarkDone(r)
    BY <1>0, <2>4 DEF SecretsDone, VMsDone, WaitDone, ReportDone, MarkDone, AuditTypeOK, auditVars
  <2> QED
    BY <2>1, <2>2, <2>3, <2>4
<1>3. pc' \in [Runs -> PC]
  <2>1. UNCHANGED pc \/ Fail(r) \/ \E l \in PC : Goto(r, l)
    BY DEF SecretsDone, VMsDone, WaitDone, Report, ReportDone, MarkWorkload, MarkDone, Complete, PC
  <2> QED
    BY <2>1, GotoTypes DEF RunTypeOK
<1>4. outcome' \in [Runs -> {"none", "ok", "error"}]
  <2>1. UNCHANGED outcome \/ \E x \in {"ok", "error"} : outcome' = [outcome EXCEPT ![r] = x]
    BY DEF SecretsDone, VMsDone, WaitDone, Report, ReportDone, MarkWorkload, MarkDone, Complete, Fail
  <2> QED
    BY <2>1 DEF RunTypeOK
<1>5. todo' \in [Runs -> SUBSET (Workloads \cup VMName)]
  <2>1. \/ UNCHANGED todo
        \/ \E S \in SUBSET (Workloads \cup VMName) : todo' = [todo EXCEPT ![r] = S]
    <3>1. Enabled(r) \subseteq Workloads /\ {Name(r, s) : s \in Planned(r)} \subseteq VMName
      BY PlannedNames DEF Enabled
    <3>2. \A x : todo[r] \ {x} \subseteq Workloads \cup VMName
      BY DEF RunTypeOK
    <3>3. CASE Report(r, v) \/ MarkWorkload(r, w)
      BY <3>2, <3>3 DEF Report, MarkWorkload, RunTypeOK
    <3>4. CASE VMsDone(r) \/ WaitDone(r) \/ ReportDone(r)
      BY <3>1, <3>4 DEF VMsDone, WaitDone, ReportDone
    <3>5. CASE SecretsDone(r) \/ MarkDone(r) \/ Complete(r)
      BY <3>5 DEF SecretsDone, MarkDone, Complete, Forget
    <3> QED
      BY <3>3, <3>4, <3>5
  <2> QED
    BY <2>1 DEF RunTypeOK
<1>6. job' \in [Runs -> [Slot -> JobState]] /\ JobsPlanned' /\ RetriesLeft'
  <2>1. UNCHANGED cfg /\ (UNCHANGED tries \/ Complete(r))
    BY DEF SecretsDone, VMsDone, WaitDone, Report, ReportDone, MarkWorkload, MarkDone, Complete
  <2>2. CASE UNCHANGED job /\ UNCHANGED tries
    BY <2>1, <2>2, JobsFrame DEF RunTypeOK
  <2>3. NoJobs \in [Slot -> {"idle", "poll"}] /\ \A s \in Slot : NoJobs[s] = "idle"
    BY DEF NoJobs
  <2>4. CASE SecretsDone(r)
    <3>1. UNCHANGED job \/ job' = [job EXCEPT ![r] = NoJobs]
      BY <2>4 DEF SecretsDone
    <3> QED
      BY <2>1, <2>2, <2>3, <2>4, <3>1, PoolType DEF SecretsDone
  <2>5. CASE VMsDone(r)
    <3> DEFINE f == [s \in Slot |-> IF s \in Planned(r) THEN "poll" ELSE "idle"]
    <3>1. UNCHANGED job \/ job' = [job EXCEPT ![r] = f]
      BY <2>5 DEF VMsDone
    <3>2. f \in [Slot -> {"idle", "poll"}] /\ \A s \in Slot : f[s] # "idle" => s \in Planned(r)
      OBVIOUS
    <3>3. UNCHANGED tries
      BY <2>5 DEF VMsDone
    <3> HIDE DEF f
    <3> QED
      BY <2>1, <2>2, <3>1, <3>2, <3>3, PoolType
  <2>6. CASE Complete(r)
    <3>1. job' = [job EXCEPT ![r] = NoJobs] /\ \A q \in Runs \ {r} : tries'[q] = tries[q]
      BY <2>6 DEF Complete, Forget, RunTypeOK
    <3> QED
      BY <2>1, <2>3, <3>1, PoolType
  <2>7. CASE WaitDone(r) \/ Report(r, v) \/ ReportDone(r) \/ MarkWorkload(r, w) \/ MarkDone(r)
    BY <2>2, <2>7 DEF WaitDone, Report, ReportDone, MarkWorkload, MarkDone
  <2> QED
    BY <2>4, <2>5, <2>6, <2>7
<1>7. /\ tries' \in [Runs -> [Slot -> 0..MaxRetries]]
      /\ planned' \in [Runs -> 0..MaxReq]
      /\ ready' \in [Runs -> [VMName -> {"none", "ok", "err"}]]
      /\ cur' \in [Runs -> SUBSET Workloads]
      /\ UNCHANGED <<cfg, wlID>>
  <2>1. CASE Complete(r)
    <3>1. Forget(r) /\ UNCHANGED <<cfg, wlID>>
      BY <2>1 DEF Complete
    <3>2. tries' \in [Runs -> [Slot -> 0..MaxRetries]] /\ planned' \in [Runs -> 0..MaxReq]
      BY <3>1, RunAssumption, AuditAssumption DEF Forget, RunTypeOK
    <3>3. /\ ready' \in [Runs -> [VMName -> {"none", "ok", "err"}]]
          /\ cur' \in [Runs -> SUBSET Workloads]
      BY <3>1 DEF Forget, RunTypeOK
    <3> QED
      BY <3>1, <3>2, <3>3
  <2>2. CASE ~Complete(r)
    BY <2>2 DEF SecretsDone, VMsDone, WaitDone, Report, ReportDone, MarkWorkload, MarkDone, RunTypeOK
  <2> QED
    BY <2>1, <2>2
<1> QED
  BY <1>1, <1>2, <1>3, <1>4, <1>5, <1>6, <1>7 DEF RunTypeOK

-----------------------------------------------------------------------------
\* Every step of every process and of the cluster keeps the types.
LEMMA NextTypeInv == TypeInv /\ [RunsNext]_rvars => TypeInv'
<1> SUFFICES ASSUME TypeInv, [RunsNext]_rvars PROVE TypeInv'
  OBVIOUS
<1>1. CASE UNCHANGED rvars
  BY <1>1 DEF rvars, clusterVars, auditVars, runVars, TypeInv, RunTypeOK, ClusterTypeOK, AuditTypeOK,
     JobsPlanned, RetriesLeft, Planned, WorkloadOf
<1>2. CASE ClusterNext /\ UNCHANGED <<ctx, auditVars, runVars>>
  BY <1>2, ClusterStepType
<1>3. ASSUME NEW r \in Runs, RunStep(r) \/ Signal(r) \/ Crash(r) PROVE TypeInv'
  <2>1. CASE Signal(r) \/ Crash(r)
    BY <2>1, StopType
  <2>2. CASE SerialStep(r)
    <3>1. CASE Start(r) \/ PlanWorkload(r) \/ PlanDone(r)
      BY <3>1, PlanningType
    <3>2. CASE EnsureNamespace(r) \/ ServicesDone(r)
              \/ \E w \in Workloads : CreateService(r, w) \/ RecordService(r, w)
      BY <3>2, Inhabited, ResourcesType DEF TypeInv
    <3>3. CASE \/ SecretsDone(r) \/ VMsDone(r) \/ WaitDone(r) \/ ReportDone(r)
               \/ MarkDone(r) \/ Complete(r)
               \/ \E v \in VMName : Report(r, v)
               \/ \E w \in Workloads : MarkWorkload(r, w)
      BY <3>3, Inhabited, JoinsType DEF TypeInv
    <3> QED
      BY <2>2, <3>1, <3>2, <3>3 DEF SerialStep
  <2>3. ASSUME NEW s \in Slot, GoroutineStep(r, s) PROVE TypeInv'
    BY <2>3, SecretsType, VMsType DEF GoroutineStep
  <2> QED
    BY <1>3, <2>1, <2>2, <2>3 DEF RunStep
<1> QED
  BY <1>1, <1>2, <1>3 DEF RunsNext

\* Type correctness: whatever runs do and fail to do side by side, every
\* variable has its type.  In particular no goroutine makes more than
\* MaxRetries retries, and none works on a VM outside its run's plan.
THEOREM RunsTypeCorrect == RunsSpec => []RunTypeOK
<1>1. TypeInv => RunTypeOK
  BY DEF TypeInv
<1> QED
  BY <1>1, InitTypeInv, NextTypeInv, PTL DEF RunsSpec
=============================================================================
