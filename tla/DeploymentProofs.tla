-------------------------- MODULE DeploymentProofs --------------------------
(***************************************************************************)
(* The two results a user of "virtwork run" relies on, for every number of *)
(* runs, workloads, VMs and failures, as long as nothing is deleted while  *)
(* they run: no VM without its cloud-init Secret, and exit status 0 only   *)
(* after the whole plan is on the cluster.                                 *)
(***************************************************************************)
EXTENDS RunOrchestratorProofs

SecretUp(r, s) == st[SecretObj(Name(r, s))] # "absent"
VMUp(r, s) == st[VMObj(Name(r, s))] # "absent"

\* Without a cleanup nothing is being deleted.
NothingTerminates == ns # "terminating" /\ \A o \in Obj : st[o] # "terminating"

BeforePools == {"new", "plan", "ns", "nsget", "nspatch", "svc", "svcrec"}

\* What a run has established where it stands in RunOrchestrator.Run: the
\* goroutines of a pool that are past their Create, the pools it has joined,
\* the answers of the pollers, and what it told its caller.
PoolsEmpty(r) == pc[r] \in BeforePools => \A s \in Planned(r) : job[r][s] = "idle"
SecretsSoFar(r) ==
  pc[r] = "secrets" => \A s \in Planned(r) : job[r][s] \in {"rec", "ok"} => SecretUp(r, s)
SecretsJoined(r) == pc[r] = "vms" => \A s \in Planned(r) : SecretUp(r, s)
VMsSoFar(r) ==
  pc[r] = "vms" => \A s \in Planned(r) : job[r][s] \in {"rec", "ev", "ok"} => VMUp(r, s)
VMsJoined(r) ==
  pc[r] \in {"wait", "report", "markmixed", "markcreated"} => \A s \in Planned(r) : VMUp(r, s)
PolledSoFar(r) ==
  pc[r] = "wait" =>
    \A s \in Planned(r) : job[r][s] \in {"ok", "err"} => ready[r][Name(r, s)] # "none"
PollsJoined(r) ==
  pc[r] = "report" => \A s \in Planned(r) : ready[r][Name(r, s)] # "none"
AllReady(r) ==
  pc[r] = "markcreated" /\ cfg[r].wait => \A s \in Planned(r) : ready[r][Name(r, s)] = "ok"
ReadyIsTrue(r) == \A v \in VMName : ready[r][v] = "ok" => st[VMObj(v)] = "running"
OutcomeIsTrue(r) ==
  outcome[r] = "ok" /\ ~cfg[r].dry =>
    \A s \in Planned(r) : /\ VMUp(r, s)
                          /\ cfg[r].wait => st[VMObj(Name(r, s))] = "running"

Local(r) ==
  /\ PoolsEmpty(r) /\ SecretsSoFar(r) /\ SecretsJoined(r)
  /\ VMsSoFar(r) /\ VMsJoined(r)
  /\ PolledSoFar(r) /\ PollsJoined(r) /\ AllReady(r) /\ ReadyIsTrue(r)
  /\ OutcomeIsTrue(r)

\* The inductive invariant.
DeployInv == TypeInv /\ NothingTerminates /\ VMHasSecret /\ \A r \in Runs : Local(r)

-----------------------------------------------------------------------------
\* What a step does to the objects on the cluster when nothing is deleted.
Grows == \A o \in Obj : /\ st[o] # "absent" => st'[o] # "absent"
                        /\ st[o] = "running" => st'[o] = "running"

\* The objects of a plan entry are objects of the cluster.
LEMMA PlannedObjects ==
  ASSUME RunTypeOK, NEW r \in Runs, NEW s \in Planned(r)
  PROVE  /\ Name(r, s) \in VMName
         /\ VMObj(Name(r, s)) \in Obj
         /\ SecretObj(Name(r, s)) \in Obj
  BY PlannedNames DEF VMObj, SecretObj, Obj

\* A Create request leaves every object that exists as it is.
LEMMA CreateGrows ==
  ASSUME ClusterTypeOK, NothingTerminates, NEW x, NEW l, NEW cut, NEW res,
         Create(x, l, cut, res), UNCHANGED ns
  PROVE  /\ Grows
         /\ NothingTerminates'
         /\ \A o \in Obj : o # x => st'[o] = st[o]
         /\ x \in Obj /\ res \in {"ok", "exists"} => st'[x] # "absent"
  BY DEF ClusterTypeOK, NothingTerminates, Create, Put, Grows, ObjState

\* No step of a run, and no controller, deletes anything.
LEMMA StepGrows ==
  ASSUME TypeInv, NothingTerminates, [RunsNext]_rvars
  PROVE  Grows /\ NothingTerminates' /\ UNCHANGED cfg
<1>0. ClusterTypeOK
  BY DEF TypeInv, RunTypeOK
<1>1. CASE UNCHANGED rvars
  BY <1>1 DEF rvars, clusterVars, runVars, Grows, NothingTerminates
<1>2. CASE ClusterNext /\ UNCHANGED <<ctx, auditVars, runVars>>
  BY <1>0, <1>2 DEF ClusterNext, Boot, Finalize, NamespaceGone, Grows, NothingTerminates,
     ClusterTypeOK, VMObj, Obj, runVars
<1>3. ASSUME NEW r \in Runs, RunStep(r) \/ Signal(r) \/ Crash(r)
      PROVE  Grows /\ NothingTerminates' /\ UNCHANGED cfg
  <2>1. CASE UNCHANGED clusterVars /\ UNCHANGED cfg
    BY <2>1 DEF clusterVars, Grows, NothingTerminates
  <2>2. CASE UNCHANGED <<ns, cfg>> /\ \E x, l, cut, res : Create(x, l, cut, res)
    BY <1>0, <2>2, CreateGrows
  <2>3. CASE EnsureNamespace(r)
    BY <2>3 DEF EnsureNamespace, Grows, NothingTerminates
  <2>4. CASE Signal(r) \/ Crash(r)
    BY <2>1, <2>4 DEF Signal, Crash, runVars
  <2>5. CASE SerialStep(r) /\ ~EnsureNamespace(r)
    <3>1. \/ UNCHANGED clusterVars /\ UNCHANGED cfg
          \/ \E w \in Workloads : CreateService(r, w)
      BY <2>5 DEF SerialStep, Start, PlanWorkload, PlanDone, RecordService, MarkWorkload,
         ServicesDone, SecretsDone, VMsDone, WaitDone, Report, ReportDone, MarkDone, Complete
    <3>2. CASE \E w \in Workloads : CreateService(r, w)
      <4>1. PICK w \in Workloads : CreateService(r, w)
        BY <3>2
      <4>2. UNCHANGED <<ns, cfg>> /\ (UNCHANGED <<st, owner>> \/ \E x, l, cut, res : Create(x, l, cut, res))
        BY <4>1 DEF CreateService
      <4> QED
        BY <2>1, <2>2, <4>2 DEF clusterVars
    <3> QED
      BY <2>1, <3>1, <3>2
  <2>6. CASE \E s \in Slot : GoroutineStep(r, s)
    <3>1. \/ UNCHANGED clusterVars /\ UNCHANGED cfg
          \/ UNCHANGED <<ns, cfg>> /\ \E x, l, cut, res : Create(x, l, cut, res)
      BY <2>6 DEF GoroutineStep, Launch, SendSecret, SecretReply, RecordSecret, SendVM, VMReply,
         Backoff, RecordVMCreated, RecordVMEvent, Poll
    <3> QED
      BY <2>1, <2>2, <3>1
  <2> QED
    BY <1>3, <2>3, <2>4, <2>5, <2>6 DEF RunStep
<1> QED
  BY <1>1, <1>2, <1>3 DEF RunsNext

\* What stays true of a run's plan when the cluster only grows.
LEMMA PlanGrows ==
  ASSUME TypeInv, NEW r \in Runs, Grows, UNCHANGED cfg
  PROVE  /\ Planned(r)' = Planned(r)
         /\ \A s \in Planned(r) :
              /\ Name(r, s)' = Name(r, s)
              /\ Name(r, s) \in VMName
              /\ SecretUp(r, s) => SecretUp(r, s)'
              /\ VMUp(r, s) => VMUp(r, s)'
              /\ st[VMObj(Name(r, s))] = "running" => st'[VMObj(Name(r, s))] = "running"
         /\ \A v \in VMName : st[VMObj(v)] = "running" => st'[VMObj(v)] = "running"
         /\ OutcomeIsTrue(r) /\ (outcome'[r] = "ok" => outcome[r] = "ok" \/ cfg[r].dry)
              => OutcomeIsTrue(r)'
<1>1. Planned(r)' = Planned(r) /\ \A s \in Planned(r) : Name(r, s)' = Name(r, s)
  BY PlanFixed DEF Name, WorkloadOf
<1>2. \A s \in Planned(r) :
        /\ Name(r, s) \in VMName
        /\ SecretUp(r, s) => SecretUp(r, s)'
        /\ VMUp(r, s) => VMUp(r, s)'
        /\ st[VMObj(Name(r, s))] = "running" => st'[VMObj(Name(r, s))] = "running"
  BY <1>1, PlannedObjects DEF TypeInv, Grows, SecretUp, VMUp, SecretObj, VMObj
<1>3. \A v \in VMName : st[VMObj(v)] = "running" => st'[VMObj(v)] = "running"
  BY DEF Grows, VMObj, Obj
<1>4. OutcomeIsTrue(r) /\ (outcome'[r] = "ok" => outcome[r] = "ok" \/ cfg[r].dry) => OutcomeIsTrue(r)'
  BY <1>1, <1>2 DEF OutcomeIsTrue, VMObj
<1> QED
  BY <1>1, <1>2, <1>3, <1>4

\* What a run has established survives every step of the others.
LEMMA LocalFrame ==
  ASSUME TypeInv, NEW q \in Runs, Local(q), Grows, UNCHANGED cfg,
         pc'[q] = pc[q], job'[q] = job[q], ready'[q] = ready[q], outcome'[q] = outcome[q]
  PROVE  Local(q)'
<1>1. PoolsEmpty(q)' /\ SecretsSoFar(q)' /\ SecretsJoined(q)'
  BY PlanGrows DEF Local, PoolsEmpty, SecretsSoFar, SecretsJoined
<1>2. VMsSoFar(q)' /\ VMsJoined(q)'
  BY PlanGrows DEF Local, VMsSoFar, VMsJoined
<1>3. PolledSoFar(q)' /\ PollsJoined(q)' /\ AllReady(q)' /\ ReadyIsTrue(q)'
  BY PlanGrows DEF Local, PolledSoFar, PollsJoined, AllReady, ReadyIsTrue, VMObj
<1>4. OutcomeIsTrue(q)'
  BY PlanGrows DEF Local
<1> QED
  BY <1>1, <1>2, <1>3, <1>4 DEF Local

\* Run q's memory is as it was.
Untouched(q) ==
  /\ pc'[q] = pc[q] /\ planned'[q] = planned[q] /\ wlID'[q] = wlID[q] /\ todo'[q] = todo[q]
  /\ cur'[q] = cur[q] /\ job'[q] = job[q] /\ tries'[q] = tries[q] /\ ready'[q] = ready[q]
  /\ outcome'[q] = outcome[q]

\* A step of one run leaves the memory of the others alone.
LEMMA OthersFrame ==
  ASSUME TypeInv, NEW r \in Runs, NEW q \in Runs \ {r}, RunStep(r) \/ Signal(r) \/ Crash(r)
  PROVE  Untouched(q)
<1> USE DEF TypeInv, RunTypeOK, Goto, Fail, Untouched
<1>1. CASE Signal(r) \/ Crash(r) \/ Complete(r)
  BY <1>1 DEF Signal, Crash, Complete, Forget, runVars
<1>2. CASE Start(r) \/ PlanWorkload(r) \/ PlanDone(r)
  BY <1>2 DEF Start, PlanWorkload, PlanDone
<1>3. CASE EnsureNamespace(r) \/ ServicesDone(r) \/ SecretsDone(r)
  BY <1>3 DEF EnsureNamespace, ToServices, ServicesDone, SecretsDone
<1>4. CASE VMsDone(r) \/ WaitDone(r) \/ ReportDone(r) \/ MarkDone(r)
  BY <1>4 DEF VMsDone, WaitDone, ReportDone, MarkDone
<1>5. CASE \E w \in Workloads : CreateService(r, w) \/ RecordService(r, w) \/ MarkWorkload(r, w)
  BY <1>5 DEF CreateService, RecordService, MarkWorkload
<1>6. CASE \E v \in VMName : Report(r, v)
  BY <1>6 DEF Report
<1>7. ASSUME NEW s \in Slot, GoroutineStep(r, s)
      PROVE  Untouched(q)
  BY <1>7 DEF GoroutineStep, Launch, SendSecret, SecretReply, RecordSecret, SendVM, VMReply,
     Backoff, RecordVMCreated, RecordVMEvent, Poll, SetJob
<1> QED
  BY <1>1, <1>2, <1>3, <1>4, <1>5, <1>6, <1>7 DEF RunStep, SerialStep

-----------------------------------------------------------------------------
\* runE and Run up to the pools start no goroutine and promise nothing.
LEMMA LocalBefore ==
  ASSUME TypeInv, NEW r \in Runs, Local(r), Grows,
         \/ Start(r) \/ PlanWorkload(r) \/ PlanDone(r) \/ EnsureNamespace(r) \/ ServicesDone(r)
         \/ \E w \in Workloads : CreateService(r, w) \/ RecordService(r, w)
  PROVE  Local(r)'
<1>1. UNCHANGED <<cfg, job, ready>>
  BY DEF Start, PlanWorkload, PlanDone, EnsureNamespace, ServicesDone, CreateService, RecordService
<1>2. pc[r] \in BeforePools
  BY DEF Start, PlanWorkload, PlanDone, EnsureNamespace, ServicesDone, CreateService, RecordService,
     BeforePools
<1>3. pc'[r] \in BeforePools \cup {"secrets", "complete", "exited"}
  BY <1>2 DEF Start, PlanWorkload, PlanDone, EnsureNamespace, ServicesDone, CreateService,
     RecordService, BeforePools, ToServices, Goto, Fail, TypeInv, RunTypeOK
<1>4. outcome'[r] = "ok" => outcome[r] = "ok" \/ cfg[r].dry
  BY DEF Start, PlanWorkload, PlanDone, EnsureNamespace, ServicesDone, CreateService,
     RecordService, ToServices, Fail, TypeInv, RunTypeOK
<1>5. \A s \in Planned(r) : job[r][s] = "idle"
  BY <1>2 DEF Local, PoolsEmpty
<1>6. OutcomeIsTrue(r)' /\ ReadyIsTrue(r)'
  BY <1>1, <1>4, PlanGrows DEF Local, ReadyIsTrue, VMObj
<1> QED
  BY <1>1, <1>3, <1>5, <1>6, PlanGrows DEF Local, PoolsEmpty, SecretsSoFar, SecretsJoined, VMsSoFar,
     VMsJoined, PolledSoFar, PollsJoined, AllReady, BeforePools

\* The job of one goroutine after a step of it.
LEMMA JobAfter ==
  ASSUME TypeInv, NEW r \in Runs, NEW s \in Slot, NEW j, SetJob(r, s, j)
  PROVE  \A t \in Slot : job'[r][t] = IF t = s THEN j ELSE job[r][t]
  BY DEF TypeInv, RunTypeOK, SetJob

\* createSecrets: a goroutine is past its Create only if the Secret is there.
LEMMA LocalSecrets ==
  ASSUME TypeInv, NothingTerminates, NEW r \in Runs, Local(r), Grows, NEW s \in Slot,
         \/ Launch(r, s) \/ SendSecret(r, s) \/ SecretReply(r, s) \/ RecordSecret(r, s)
  PROVE  Local(r)'
<1>0. s \in Planned(r) /\ pc[r] \in {"secrets", "vms"}
  BY DEF TypeInv, JobsPlanned, Launch, SendSecret, SecretReply, RecordSecret
<1>1. UNCHANGED <<cfg, pc, ready, outcome>>
  BY DEF Launch, SendSecret, SecretReply, RecordSecret
<1>2. PICK j \in JobState : SetJob(r, s, j) /\
        (\/ j \in {"try", "err", "sent"}
         \/ j = "ok" /\ job[r][s] = "rec" /\ pc[r] = "secrets"
         \/ j = "rec" /\ pc[r] = "secrets" /\ SecretUp(r, s)')
  <2>1. CASE Launch(r, s) \/ SendSecret(r, s) \/ RecordSecret(r, s)
    BY <2>1 DEF Launch, SendSecret, RecordSecret, JobState
  <2>2. CASE SecretReply(r, s)
    <3>1. PICK res \in CreateResult :
            /\ Create(SecretObj(Name(r, s)), RunLabel(r), Cut(r), res)
            /\ SetJob(r, s, IF res \in {"ok", "exists"} THEN "rec" ELSE "err")
      BY <2>2 DEF SecretReply
    <3>2. UNCHANGED ns /\ ClusterTypeOK /\ SecretObj(Name(r, s)) \in Obj
      BY <1>0, <2>2, PlannedObjects DEF SecretReply, TypeInv, RunTypeOK
    <3>3. res \in {"ok", "exists"} => st'[SecretObj(Name(r, s))] # "absent"
      BY <3>1, <3>2, CreateGrows
    <3>4. Name(r, s)' = Name(r, s)
      BY <1>0, <1>1, PlanGrows
    <3>5. res \in {"ok", "exists"} => SecretUp(r, s)'
      BY <3>3, <3>4 DEF SecretUp, SecretObj
    <3> QED
      BY <2>2, <3>1, <3>5 DEF JobState, SecretReply
  <2> QED
    BY <2>1, <2>2
<1>3. \A t \in Planned(r) : job'[r][t] = IF t = s THEN j ELSE job[r][t]
  BY <1>2, JobAfter, PlannedNames DEF TypeInv
<1>4. OutcomeIsTrue(r)' /\ ReadyIsTrue(r)'
  BY <1>1, PlanGrows DEF Local, ReadyIsTrue, VMObj
<1>5. SecretsSoFar(r)' /\ SecretsJoined(r)'
  BY <1>0, <1>1, <1>2, <1>3, PlanGrows DEF Local, SecretsSoFar, SecretsJoined
<1>6. VMsSoFar(r)'
  BY <1>0, <1>1, <1>2, <1>3, PlanGrows DEF Local, VMsSoFar
<1> QED
  BY <1>0, <1>1, <1>4, <1>5, <1>6 DEF Local, PoolsEmpty, VMsJoined, PolledSoFar, PollsJoined, AllReady,
     BeforePools

\* createVMs: a goroutine is past its Create only if the VM is there.
LEMMA LocalVMs ==
  ASSUME TypeInv, NothingTerminates, NEW r \in Runs, Local(r), Grows, NEW s \in Slot,
         \/ SendVM(r, s) \/ VMReply(r, s) \/ Backoff(r, s)
         \/ RecordVMCreated(r, s) \/ RecordVMEvent(r, s)
  PROVE  Local(r)'
<1>0. s \in Planned(r) /\ pc[r] = "vms"
  BY DEF TypeInv, JobsPlanned, SendVM, VMReply, Backoff, RecordVMCreated, RecordVMEvent
<1>1. UNCHANGED <<cfg, pc, ready, outcome>>
  BY DEF SendVM, VMReply, Backoff, RecordVMCreated, RecordVMEvent
<1>2. PICK j \in JobState : SetJob(r, s, j) /\
        (\/ j \in {"try", "err", "sent", "backoff", "fail"}
         \/ j \in {"ev", "ok"} /\ job[r][s] \in {"rec", "ev"}
         \/ j = "rec" /\ VMUp(r, s)')
  <2>1. CASE SendVM(r, s) \/ Backoff(r, s) \/ RecordVMCreated(r, s) \/ RecordVMEvent(r, s)
    BY <2>1 DEF SendVM, Backoff, RecordVMCreated, RecordVMEvent, JobState
  <2>2. CASE VMReply(r, s)
    <3>1. PICK res \in CreateResult :
            /\ Create(VMObj(Name(r, s)), RunLabel(r), Cut(r), res)
            /\ SetJob(r, s, AfterReply(r, s, res))
      BY <2>2 DEF VMReply
    <3>2. UNCHANGED ns /\ ClusterTypeOK /\ VMObj(Name(r, s)) \in Obj
      BY <1>0, <2>2, PlannedObjects DEF VMReply, TypeInv, RunTypeOK
    <3>3. res \in {"ok", "exists"} => st'[VMObj(Name(r, s))] # "absent"
      BY <3>1, <3>2, CreateGrows
    <3>4. Name(r, s)' = Name(r, s)
      BY <1>0, <1>1, PlanGrows
    <3>5. res \in {"ok", "exists"} => VMUp(r, s)'
      BY <3>3, <3>4 DEF VMUp, VMObj
    <3>6. AfterReply(r, s, res) \in {"backoff", "fail"} \/
          (AfterReply(r, s, res) = "rec" /\ res \in {"ok", "exists"})
      BY DEF AfterReply
    <3> QED
      BY <3>1, <3>5, <3>6 DEF JobState
  <2> QED
    BY <2>1, <2>2
<1>3. \A t \in Planned(r) : job'[r][t] = IF t = s THEN j ELSE job[r][t]
  BY <1>2, JobAfter, PlannedNames DEF TypeInv
<1>4. OutcomeIsTrue(r)' /\ ReadyIsTrue(r)'
  BY <1>1, PlanGrows DEF Local, ReadyIsTrue, VMObj
<1>5. SecretsJoined(r)'
  BY <1>0, <1>1, PlanGrows DEF Local, SecretsJoined
<1>6. VMsSoFar(r)'
  BY <1>0, <1>1, <1>2, <1>3, PlanGrows DEF Local, VMsSoFar
<1> QED
  BY <1>0, <1>1, <1>4, <1>5, <1>6 DEF Local, PoolsEmpty, SecretsSoFar, VMsJoined, PolledSoFar,
     PollsJoined, AllReady, BeforePools

\* The pollers of WaitForAllVMsReady report what they saw.
LEMMA LocalPoll ==
  ASSUME TypeInv, NothingTerminates, NEW r \in Runs, Local(r), Grows, NEW s \in Slot, Poll(r, s)
  PROVE  Local(r)'
<1>0. s \in Planned(r) /\ pc[r] = "wait" /\ Name(r, s) \in VMName /\ VMObj(Name(r, s)) \in Obj
  BY PlannedObjects DEF TypeInv, JobsPlanned, Poll
<1>1. UNCHANGED <<cfg, pc, outcome, st>>
  BY DEF Poll, clusterVars
<1>2. PICK j \in {"ok", "err"} : /\ SetJob(r, s, j)
                                 /\ ready' = [ready EXCEPT ![r][Name(r, s)] = j]
                                 /\ j = "ok" => st[VMObj(Name(r, s))] = "running"
  BY <1>0 DEF Poll, SeesRunning, NothingTerminates
<1>3. \A t \in Planned(r) : job'[r][t] = IF t = s THEN j ELSE job[r][t]
  BY <1>2, JobAfter, PlannedNames DEF TypeInv
<1>4. \A v \in VMName : ready'[r][v] = IF v = Name(r, s) THEN j ELSE ready[r][v]
  BY <1>2 DEF TypeInv, RunTypeOK
<1>5. OutcomeIsTrue(r)'
  BY <1>1, PlanGrows DEF Local
<1>6. ReadyIsTrue(r)'
  BY <1>1, <1>2, <1>4 DEF Local, ReadyIsTrue, VMObj
<1>7. VMsJoined(r)'
  BY <1>0, <1>1, PlanGrows DEF Local, VMsJoined
<1>8. PolledSoFar(r)'
  BY <1>0, <1>1, <1>2, <1>3, <1>4, PlanGrows DEF Local, PolledSoFar
<1> QED
  BY <1>0, <1>1, <1>5, <1>6, <1>7, <1>8 DEF Local, PoolsEmpty, SecretsSoFar, SecretsJoined, VMsSoFar,
     PollsJoined, AllReady, BeforePools

\* Where the pools are joined: what each goroutine established, all did.
LEMMA LocalJoins ==
  ASSUME TypeInv, NEW r \in Runs, Local(r), Grows,
         SecretsDone(r) \/ VMsDone(r) \/ WaitDone(r) \/ ReportDone(r)
  PROVE  Local(r)'
<1>1. UNCHANGED <<cfg, ready>> /\ (outcome'[r] = "ok" => outcome[r] = "ok")
  BY DEF SecretsDone, VMsDone, WaitDone, ReportDone, Fail, TypeInv, RunTypeOK
<1>2. OutcomeIsTrue(r)' /\ ReadyIsTrue(r)'
  BY <1>1, PlanGrows DEF Local, ReadyIsTrue, VMObj
<1>3. CASE SecretsDone(r)
  <2>1. \/ pc'[r] = "complete"
        \/ /\ pc'[r] = "vms" /\ \A s \in Planned(r) : job[r][s] = "ok"
           /\ job' = [job EXCEPT ![r] = NoJobs]
    BY <1>3 DEF SecretsDone, Joined, Goto, Fail, TypeInv, RunTypeOK
  <2>2. pc[r] = "secrets"
    BY <1>3 DEF SecretsDone
  <2>3. pc'[r] = "vms" => \A s \in Planned(r) : job'[r][s] = "idle" /\ SecretUp(r, s)
    BY <2>1, <2>2, PlannedNames DEF Local, SecretsSoFar, TypeInv, RunTypeOK, NoJobs
  <2> QED
    BY <1>1, <1>2, <2>1, <2>3, PlanGrows DEF Local, PoolsEmpty, SecretsSoFar, SecretsJoined, VMsSoFar,
       VMsJoined, PolledSoFar, PollsJoined, AllReady, BeforePools
<1>4. CASE VMsDone(r)
  <2>1. pc[r] = "vms" /\ pc'[r] \in {"markfailed", "wait", "markcreated"}
    BY <1>4 DEF VMsDone, Goto, TypeInv, RunTypeOK
  <2>2. pc'[r] # "markfailed" => \A s \in Planned(r) : job[r][s] = "ok"
    BY <1>4 DEF VMsDone, Joined, Goto, TypeInv, RunTypeOK
  <2>3. pc'[r] # "markfailed" => \A s \in Planned(r) : VMUp(r, s)
    BY <2>1, <2>2 DEF Local, VMsSoFar
  <2>4. pc'[r] = "wait" => \A s \in Planned(r) : job'[r][s] = "poll"
    BY <1>4, PlannedNames DEF VMsDone, Goto, TypeInv, RunTypeOK
  <2>5. pc'[r] = "markcreated" => ~cfg[r].wait
    BY <1>4 DEF VMsDone, Goto, TypeInv, RunTypeOK
  <2> QED
    BY <1>1, <1>2, <2>1, <2>3, <2>4, <2>5, PlanGrows DEF Local, PoolsEmpty, SecretsSoFar, SecretsJoined,
       VMsSoFar, VMsJoined, PolledSoFar, PollsJoined, AllReady, BeforePools
<1>5. CASE WaitDone(r)
  <2>1. pc[r] = "wait" /\ pc'[r] = "report" /\ \A s \in Planned(r) : job[r][s] \in {"ok", "err"}
    BY <1>5 DEF WaitDone, Joined, Goto, TypeInv, RunTypeOK
  <2> QED
    BY <1>1, <1>2, <2>1, PlanGrows DEF Local, PoolsEmpty, SecretsSoFar, SecretsJoined,
       VMsSoFar, VMsJoined, PolledSoFar, PollsJoined, AllReady, BeforePools
<1>6. CASE ReportDone(r)
  <2>1. pc[r] = "report" /\ pc'[r] \in {"markcreated", "markmixed"}
    BY <1>6 DEF ReportDone, Goto, TypeInv, RunTypeOK
  <2>2. pc'[r] = "markcreated" => \A v \in VMName : ready[r][v] # "err"
    BY <1>6 DEF ReportDone, FailedVMs, Goto, TypeInv, RunTypeOK
  <2>3. \A s \in Planned(r) : ready[r][Name(r, s)] \in {"ok", "err"}
    BY <2>1, PlannedNames DEF Local, PollsJoined, TypeInv, RunTypeOK
  <2>4. pc'[r] = "markcreated" => \A s \in Planned(r) : ready[r][Name(r, s)] = "ok"
    BY <2>2, <2>3, PlannedNames DEF TypeInv
  <2> QED
    BY <1>1, <1>2, <2>1, <2>4, PlanGrows DEF Local, PoolsEmpty, SecretsSoFar, SecretsJoined,
       VMsSoFar, VMsJoined, PolledSoFar, PollsJoined, AllReady, BeforePools
<1> QED
  BY <1>3, <1>4, <1>5, <1>6

\* After readiness: success is reported only where every VM is up.
LEMMA LocalEnd ==
  ASSUME TypeInv, NEW r \in Runs, Local(r), Grows,
         \/ MarkDone(r) \/ Complete(r) \/ Signal(r) \/ Crash(r)
         \/ \E v \in VMName : Report(r, v)
         \/ \E w \in Workloads : MarkWorkload(r, w)
  PROVE  Local(r)'
<1>1. CASE Signal(r) \/ (\E v \in VMName : Report(r, v)) \/ (\E w \in Workloads : MarkWorkload(r, w))
  <2>1. UNCHANGED <<cfg, pc, job, ready, outcome>>
    BY <1>1 DEF Signal, Report, MarkWorkload, runVars
  <2> QED
    BY <2>1, LocalFrame
<1>2. CASE Complete(r) \/ Crash(r)
  <2>1. /\ UNCHANGED <<cfg, outcome>> /\ pc'[r] \in {"exited", "crashed"}
        /\ \A v \in VMName : ready'[r][v] = "none"
    BY <1>2 DEF Complete, Crash, Forget, Goto, TypeInv, RunTypeOK
  <2>2. OutcomeIsTrue(r)' /\ ReadyIsTrue(r)'
    BY <2>1, PlanGrows DEF Local, ReadyIsTrue
  <2> QED
    BY <2>1, <2>2 DEF Local, PoolsEmpty, SecretsSoFar, SecretsJoined, VMsSoFar, VMsJoined, PolledSoFar,
       PollsJoined, AllReady, BeforePools
<1>3. CASE MarkDone(r)
  <2>1. UNCHANGED <<cfg, ready, job, st>> /\ pc'[r] = "complete"
    BY <1>3 DEF MarkDone, Goto, clusterVars, TypeInv, RunTypeOK
  <2>2. outcome'[r] = "ok" => pc[r] = "markcreated"
    BY <1>3 DEF MarkDone, TypeInv, RunTypeOK
  <2>3. pc[r] = "markcreated" => \A s \in Planned(r) :
          VMUp(r, s) /\ (cfg[r].wait => st[VMObj(Name(r, s))] = "running")
    BY PlannedNames DEF Local, VMsJoined, AllReady, ReadyIsTrue, TypeInv
  <2>4. OutcomeIsTrue(r)'
    BY <2>1, <2>2, <2>3, PlanGrows DEF OutcomeIsTrue, VMObj
  <2>5. ReadyIsTrue(r)'
    BY <2>1 DEF Local, ReadyIsTrue, VMObj
  <2> QED
    BY <2>1, <2>4, <2>5 DEF Local, PoolsEmpty, SecretsSoFar, SecretsJoined, VMsSoFar, VMsJoined,
       PolledSoFar, PollsJoined, AllReady, BeforePools
<1> QED
  BY <1>1, <1>2, <1>3

-----------------------------------------------------------------------------
\* Only createVMs brings a VM into being, and it does so behind the barrier.
LEMMA BarrierStep ==
  ASSUME TypeInv, NothingTerminates, VMHasSecret, \A r \in Runs : Local(r), [RunsNext]_rvars
  PROVE  VMHasSecret'
<1> SUFFICES ASSUME NEW v \in VMName, st'[VMObj(v)] # "absent" PROVE st'[SecretObj(v)] # "absent"
  BY DEF VMHasSecret, VMObj, SecretObj
<1>0. ClusterTypeOK /\ VMObj(v) \in Obj /\ SecretObj(v) \in Obj
  BY DEF TypeInv, RunTypeOK, VMObj, SecretObj, Obj
<1>1. Grows
  BY StepGrows
<1>2. CASE st[VMObj(v)] # "absent"
  BY <1>0, <1>1, <1>2 DEF VMHasSecret, Grows
<1>3. CASE \E r \in Runs : \E s \in Planned(r) : pc[r] = "vms" /\ v = Name(r, s)
  BY <1>0, <1>1, <1>3 DEF Local, SecretsJoined, SecretUp, Grows
<1>4. CASE st[VMObj(v)] = "absent"
  <2>1. st' # st
    BY <1>4
  <2>2. CASE ClusterNext
    BY <1>0, <1>4, <2>2 DEF ClusterNext, Boot, Finalize, NamespaceGone, ClusterTypeOK, VMObj, Obj
  <2>3. ASSUME NEW r \in Runs, RunStep(r) \/ Signal(r) \/ Crash(r)
        PROVE  \E s \in Planned(r) : pc[r] = "vms" /\ v = Name(r, s)
    <3>1. \/ \E w \in Workloads : CreateService(r, w)
          \/ \E s \in Slot : SecretReply(r, s) \/ VMReply(r, s)
      BY <2>1, <2>3 DEF RunStep, SerialStep, GoroutineStep, Signal, Crash, Start, PlanWorkload,
         PlanDone, EnsureNamespace, RecordService, MarkWorkload, ServicesDone, SecretsDone, VMsDone,
         WaitDone, Report, ReportDone, MarkDone, Complete, Launch, SendSecret, RecordSecret, SendVM,
         Backoff, RecordVMCreated, RecordVMEvent, Poll, clusterVars
    <3>2. ASSUME NEW x, NEW l, NEW cut, NEW res, Create(x, l, cut, res), UNCHANGED ns
          PROVE  x = VMObj(v)
      BY <1>0, <1>4, <3>2, CreateGrows
    <3>3. ASSUME NEW w \in Workloads, CreateService(r, w) PROVE FALSE
      <4>1. \E res : Create(ServiceObj(w), RunLabel(r), FALSE, res) /\ UNCHANGED ns
        BY <2>1, <3>3 DEF CreateService
      <4> QED
        BY <3>2, <4>1 DEF ServiceObj, VMObj
    <3>4. ASSUME NEW s \in Slot, SecretReply(r, s) PROVE FALSE
      <4>1. \E res : Create(SecretObj(Name(r, s)), RunLabel(r), Cut(r), res) /\ UNCHANGED ns
        BY <3>4 DEF SecretReply
      <4> QED
        BY <3>2, <4>1 DEF SecretObj, VMObj
    <3>5. ASSUME NEW s \in Slot, VMReply(r, s)
          PROVE  s \in Planned(r) /\ pc[r] = "vms" /\ v = Name(r, s)
      <4>1. \E res : Create(VMObj(Name(r, s)), RunLabel(r), Cut(r), res) /\ UNCHANGED ns
        BY <3>5 DEF VMReply
      <4>2. VMObj(Name(r, s)) = VMObj(v)
        BY <3>2, <4>1
      <4> QED
        BY <3>5, <4>2 DEF VMObj, VMReply, TypeInv, JobsPlanned
    <3> QED
      BY <3>1, <3>3, <3>4, <3>5
  <2> QED
    BY <1>3, <2>1, <2>2, <2>3 DEF RunsNext, rvars, clusterVars
<1> QED
  BY <1>2, <1>4

\* The invariant holds initially.
LEMMA InitDeployInv == RunsInit => DeployInv
<1> SUFFICES ASSUME RunsInit PROVE DeployInv
  OBVIOUS
<1>1. TypeInv
  BY InitTypeInv
<1>2. NothingTerminates /\ VMHasSecret
  BY DEF RunsInit, ClusterInit, NothingTerminates, VMHasSecret, VMObj, Obj
<1>3. ASSUME NEW r \in Runs PROVE Local(r)
  <2>1. /\ pc[r] = "new" /\ outcome[r] = "none"
        /\ \A s \in Slot : job[r][s] = "idle"
        /\ \A v \in VMName : ready[r][v] = "none"
    BY DEF RunsInit, RunInit, NoJobs
  <2> QED
    BY <1>1, <2>1, PlannedNames DEF TypeInv, Local, PoolsEmpty, SecretsSoFar, SecretsJoined, VMsSoFar,
       VMsJoined, PolledSoFar, PollsJoined, AllReady, ReadyIsTrue, OutcomeIsTrue
<1> QED
  BY <1>1, <1>2, <1>3 DEF DeployInv

\* Every step keeps the invariant.
LEMMA NextDeployInv == DeployInv /\ [RunsNext]_rvars => DeployInv'
<1> SUFFICES ASSUME DeployInv, [RunsNext]_rvars PROVE DeployInv'
  OBVIOUS
<1>0. TypeInv /\ NothingTerminates /\ VMHasSecret /\ \A r \in Runs : Local(r)
  BY DEF DeployInv
<1>1. TypeInv' /\ Grows /\ NothingTerminates' /\ UNCHANGED cfg
  BY <1>0, NextTypeInv, StepGrows
<1>2. VMHasSecret'
  BY <1>0, BarrierStep
<1>3. ASSUME NEW q \in Runs PROVE Local(q)'
  <2>1. CASE UNCHANGED runVars
    BY <1>0, <1>1, <2>1, LocalFrame DEF runVars
  <2>2. ASSUME NEW r \in Runs \ {q}, RunStep(r) \/ Signal(r) \/ Crash(r) PROVE Local(q)'
    BY <1>0, <1>1, <2>2, OthersFrame, LocalFrame DEF Untouched
  <2>3. CASE RunStep(q) \/ Signal(q) \/ Crash(q)
    <3>1. CASE Signal(q) \/ Crash(q)
      BY <1>0, <1>1, <3>1, LocalEnd
    <3>2. CASE SerialStep(q)
      BY <1>0, <1>1, <3>2, LocalBefore, LocalJoins, LocalEnd DEF SerialStep
    <3>3. ASSUME NEW s \in Slot, GoroutineStep(q, s) PROVE Local(q)'
      BY <1>0, <1>1, <3>3, LocalSecrets, LocalVMs, LocalPoll DEF GoroutineStep
    <3> QED
      BY <2>3, <3>1, <3>2, <3>3 DEF RunStep
  <2> QED
    BY <2>1, <2>2, <2>3 DEF RunsNext, rvars, runVars
<1> QED
  BY <1>1, <1>2, <1>3 DEF DeployInv

\* createSecrets is a barrier: however many runs share the namespace, and
\* whatever fails, is retried, interrupted, killed or applied behind a lost
\* answer, no VM is on the cluster without its cloud-init Secret.
THEOREM SecretBeforeVM == RunsSpec => []VMHasSecret
<1>1. DeployInv => VMHasSecret
  BY DEF DeployInv
<1> QED
  BY <1>1, InitDeployInv, NextDeployInv, PTL DEF RunsSpec

\* runE returns nil, outside a dry run, only after every VM of the plan is on
\* the cluster, and Running if the run waited for readiness.
THEOREM SuccessIsTrue == RunsSpec => []SuccessMeansDeployed
<1>1. DeployInv => SuccessMeansDeployed
  BY DEF DeployInv, Local, OutcomeIsTrue, SuccessMeansDeployed, VMUp
<1> QED
  BY <1>1, InitDeployInv, NextDeployInv, PTL DEF RunsSpec
=============================================================================
