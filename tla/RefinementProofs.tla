-------------------------- MODULE RefinementProofs --------------------------
(***************************************************************************)
(* RunOrchestrator implements DeploySpec, for any number of runs, sets of  *)
(* workloads, limits and failures: a step simulation along the mapping of  *)
(* module Refinement.                                                      *)
(***************************************************************************)
EXTENDS DeploymentProofs, Refinement

Deploying == {"ns", "nsget", "nspatch", "svc", "svcrec", "secrets", "vms", "markfailed",
              "wait", "report", "markmixed", "markcreated"}
Need(r) == Enabled(r) \cap NeedsService
ServiceUp(w) == st[ServiceObj(w)] # "absent"

\* A run has a verdict exactly when Run has returned, a dry run never gets
\* past its plan, and the loop over the Services leaves none behind.
VerdictAtEnd(r) ==
  /\ pc[r] \in Deploying \cup {"new", "plan"} => outcome[r] = "none"
  /\ pc[r] \in {"complete", "exited"} => outcome[r] # "none"
NotDry(r) == pc[r] \in Deploying => ~cfg[r].dry
ServicesSoFar(r) ==
  pc[r] \in {"svc", "svcrec"} => /\ todo[r] \subseteq Need(r)
                                 /\ \A w \in Need(r) : w \in todo[r] \/ ServiceUp(w)
CurrentService(r) == pc[r] = "svcrec" => \A w \in cur[r] : ServiceUp(w)
ServicesJoined(r) == pc[r] \in {"secrets", "vms"} => \A w \in Need(r) : ServiceUp(w)

Progress(r) ==
  /\ VerdictAtEnd(r) /\ NotDry(r)
  /\ ServicesSoFar(r) /\ CurrentService(r) /\ ServicesJoined(r)

\* The invariant of the simulation.
SimInv == DeployInv /\ \A r \in Runs : Progress(r)

-----------------------------------------------------------------------------
\* The Services a run needs are named after workloads, and stay.
LEMMA NeedGrows ==
  ASSUME TypeInv, NEW r \in Runs, Grows, UNCHANGED cfg
  PROVE  /\ Need(r)' = Need(r) /\ Need(r) \subseteq Workloads
         /\ \A w \in Workloads : ServiceUp(w) => ServiceUp(w)'
         /\ \A w \in cur[r] : w \in Workloads
<1>1. Need(r)' = Need(r) /\ Need(r) \subseteq Workloads
  BY DEF Need, Enabled
<1>2. \A w \in Workloads : ServiceUp(w) => ServiceUp(w)'
  BY DEF ServiceUp, ServiceObj, Grows, Obj
<1>3. \A w \in cur[r] : w \in Workloads
  BY DEF TypeInv, RunTypeOK
<1> QED
  BY <1>1, <1>2, <1>3

\* What a run has got done survives every step of the others.
LEMMA ProgressFrame ==
  ASSUME TypeInv, NEW q \in Runs, Progress(q), Grows, UNCHANGED cfg,
         pc'[q] = pc[q], outcome'[q] = outcome[q], todo'[q] = todo[q], cur'[q] = cur[q]
  PROVE  Progress(q)'
<1>1. VerdictAtEnd(q)' /\ NotDry(q)'
  BY DEF Progress, VerdictAtEnd, NotDry
<1>2. ServicesSoFar(q)' /\ CurrentService(q)' /\ ServicesJoined(q)'
  BY NeedGrows DEF Progress, ServicesSoFar, CurrentService, ServicesJoined
<1> QED
  BY <1>1, <1>2 DEF Progress

\* planVMs, the namespace and the ends of the phases after the Services.
LEMMA ProgressOther ==
  ASSUME TypeInv, NEW r \in Runs, Progress(r), Grows,
         \/ Start(r) \/ PlanWorkload(r) \/ PlanDone(r)
         \/ SecretsDone(r) \/ VMsDone(r) \/ WaitDone(r) \/ ReportDone(r) \/ MarkDone(r)
         \/ Complete(r) \/ Crash(r)
  PROVE  Progress(r)'
<1>0. UNCHANGED cfg
  BY DEF Start, PlanWorkload, PlanDone, SecretsDone, VMsDone, WaitDone, ReportDone, MarkDone,
     Complete, Crash
<1>1. pc'[r] \notin {"svc", "svcrec", "secrets"} /\ (pc'[r] = "vms" => pc[r] = "secrets")
  BY DEF Start, PlanWorkload, PlanDone, SecretsDone, VMsDone, WaitDone, ReportDone, MarkDone,
     Complete, Crash, Goto, Fail, TypeInv, RunTypeOK
<1>2. VerdictAtEnd(r)' /\ NotDry(r)'
  <2>1. CASE Start(r) \/ PlanWorkload(r) \/ PlanDone(r)
    BY <2>1 DEF Progress, VerdictAtEnd, NotDry, Deploying, Start, PlanWorkload, PlanDone, printDryRun,
       Goto, Fail, TypeInv, RunTypeOK
  <2>2. CASE SecretsDone(r) \/ VMsDone(r) \/ WaitDone(r) \/ ReportDone(r)
    BY <2>2 DEF Progress, VerdictAtEnd, NotDry, Deploying, SecretsDone, VMsDone, WaitDone, ReportDone,
       Goto, Fail, TypeInv, RunTypeOK
  <2>3. CASE MarkDone(r) \/ Complete(r) \/ Crash(r)
    BY <2>3 DEF Progress, VerdictAtEnd, NotDry, Deploying, MarkDone, Complete, Crash,
       Goto, Fail, TypeInv, RunTypeOK
  <2> QED
    BY <2>1, <2>2, <2>3
<1>3. ServicesSoFar(r)' /\ CurrentService(r)' /\ ServicesJoined(r)'
  BY <1>0, <1>1, NeedGrows DEF Progress, ServicesSoFar, CurrentService, ServicesJoined
<1> QED
  BY <1>2, <1>3 DEF Progress

\* EnsureNamespace and the loop over the Services.
LEMMA ProgressServices ==
  ASSUME TypeInv, NothingTerminates, NEW r \in Runs, Progress(r), Grows,
         \/ EnsureNamespace(r) \/ ServicesDone(r)
         \/ \E w \in Workloads : CreateService(r, w) \/ RecordService(r, w)
  PROVE  Progress(r)'
<1>0. UNCHANGED cfg
  BY DEF EnsureNamespace, ServicesDone, CreateService, RecordService
<1>1. CASE EnsureNamespace(r)
  <2>1. \/ pc'[r] \in {"nsget", "nspatch"} /\ outcome'[r] = outcome[r]
        \/ pc'[r] = "svc" /\ todo'[r] = Need(r) /\ outcome'[r] = outcome[r]
        \/ pc'[r] = "complete" /\ outcome'[r] = "error"
    BY <1>1 DEF EnsureNamespace, ToServices, Need, Goto, Fail, TypeInv, RunTypeOK
  <2>2. pc[r] \in {"ns", "nsget", "nspatch"}
    BY <1>1 DEF EnsureNamespace
  <2> QED
    BY <1>0, <2>1, <2>2, NeedGrows DEF Progress, VerdictAtEnd, NotDry, Deploying, ServicesSoFar,
       CurrentService, ServicesJoined
<1>2. CASE ServicesDone(r)
  <2>1. pc[r] = "svc" /\ todo[r] = {} /\ pc'[r] = "secrets" /\ outcome'[r] = outcome[r]
    BY <1>2 DEF ServicesDone, Goto, TypeInv, RunTypeOK
  <2> QED
    BY <1>0, <2>1, NeedGrows DEF Progress, VerdictAtEnd, NotDry, Deploying, ServicesSoFar,
       CurrentService, ServicesJoined
<1>3. ASSUME NEW w \in Workloads, CreateService(r, w) PROVE Progress(r)'
  <2>1. PICK res \in CreateResult :
          /\ IF ctx[r] = "cancelled"
             THEN res = "fatal" /\ UNCHANGED <<st, owner>>
             ELSE Create(ServiceObj(w), RunLabel(r), FALSE, res)
          /\ IF res \in {"ok", "exists"}
             THEN Goto(r, "svcrec") /\ cur' = [cur EXCEPT ![r] = {w}] /\ UNCHANGED outcome
             ELSE Fail(r) /\ UNCHANGED cur
    BY <1>3 DEF CreateService
  <2>2. pc[r] = "svc" /\ UNCHANGED <<ns, todo>> /\ ClusterTypeOK /\ ServiceObj(w) \in Obj
    BY <1>3 DEF CreateService, ServiceObj, Obj, TypeInv, RunTypeOK
  <2>3. res \in {"ok", "exists"} => ServiceUp(w)'
    BY <2>1, <2>2, CreateGrows DEF ServiceUp, ServiceObj
  <2>4. \/ pc'[r] = "svcrec" /\ cur'[r] = {w} /\ outcome'[r] = outcome[r] /\ ServiceUp(w)'
        \/ pc'[r] = "complete" /\ outcome'[r] = "error"
    BY <2>1, <2>3 DEF Goto, Fail, TypeInv, RunTypeOK
  <2> QED
    BY <1>0, <2>2, <2>4, NeedGrows DEF Progress, VerdictAtEnd, NotDry, Deploying, ServicesSoFar,
       CurrentService, ServicesJoined
<1>4. ASSUME NEW w \in Workloads, RecordService(r, w) PROVE Progress(r)'
  <2>1. /\ pc[r] = "svcrec" /\ w \in cur[r]
        /\ pc'[r] = "svc" /\ todo'[r] = todo[r] \ {w} /\ outcome'[r] = outcome[r]
    BY <1>4 DEF RecordService, Goto, TypeInv, RunTypeOK
  <2> QED
    BY <1>0, <2>1, NeedGrows DEF Progress, VerdictAtEnd, NotDry, Deploying, ServicesSoFar,
       CurrentService, ServicesJoined
<1> QED
  BY <1>1, <1>2, <1>3, <1>4

\* The invariant of the simulation is one.
LEMMA NextSimInv == SimInv /\ [RunsNext]_rvars => SimInv'
<1> SUFFICES ASSUME SimInv, [RunsNext]_rvars PROVE SimInv'
  OBVIOUS
<1>0. TypeInv /\ NothingTerminates /\ \A r \in Runs : Progress(r)
  BY DEF SimInv, DeployInv
<1>1. DeployInv' /\ Grows /\ UNCHANGED cfg
  BY <1>0, NextDeployInv, StepGrows DEF SimInv
<1>2. ASSUME NEW q \in Runs PROVE Progress(q)'
  <2>1. CASE UNCHANGED runVars
    BY <1>0, <1>1, <2>1, ProgressFrame DEF runVars
  <2>2. ASSUME NEW r \in Runs \ {q}, RunStep(r) \/ Signal(r) \/ Crash(r) PROVE Progress(q)'
    BY <1>0, <1>1, <2>2, OthersFrame, ProgressFrame DEF Untouched
  <2>3. CASE RunStep(q) \/ Signal(q) \/ Crash(q)
    <3>1. CASE Signal(q)
      BY <2>1, <3>1 DEF Signal
    <3>2. CASE \/ (\E v \in VMName : Report(q, v)) \/ (\E w \in Workloads : MarkWorkload(q, w))
               \/ \E s \in Slot : GoroutineStep(q, s)
      <4>1. /\ UNCHANGED <<cfg, pc, outcome, cur>>
            /\ pc[q] \notin {"svc", "svcrec"}
        BY <3>2 DEF GoroutineStep, Launch, SendSecret, SecretReply, RecordSecret, SendVM, VMReply,
           Backoff, RecordVMCreated, RecordVMEvent, Poll, Report, MarkWorkload
      <4> QED
        BY <1>0, <1>1, <4>1, NeedGrows DEF Progress, VerdictAtEnd, NotDry, ServicesSoFar,
           CurrentService, ServicesJoined
    <3>3. CASE Crash(q) \/ SerialStep(q)
      BY <1>0, <1>1, <3>2, <3>3, ProgressOther, ProgressServices DEF SerialStep
    <3> QED
      BY <2>3, <3>1, <3>2, <3>3 DEF RunStep
  <2> QED
    BY <2>1, <2>2, <2>3 DEF RunsNext, rvars, runVars
<1> QED
  BY <1>1, <1>2 DEF SimInv

\* It holds initially.
LEMMA InitSimInv == RunsInit => SimInv
  BY InitDeployInv DEF SimInv, Progress, VerdictAtEnd, NotDry, ServicesSoFar, CurrentService,
     ServicesJoined, Deploying, RunsInit, RunInit

-----------------------------------------------------------------------------
\* The phase of one run under the mapping.
Phase(r) == IF pc[r] = "new" THEN "idle"
            ELSE IF pc[r] = "crashed" THEN "dead"
            ELSE IF outcome[r] = "none" THEN "busy" ELSE outcome[r]

\* A step of run r changes the mapped phase at r only, and no plan.
LEMMA PhaseStep ==
  ASSUME UNCHANGED cfg, NEW r \in Runs,
         \A q \in Runs \ {r} : pc'[q] = pc[q] /\ outcome'[q] = outcome[q]
  PROVE  /\ UNCHANGED planOf
         /\ phaseOf' = [phaseOf EXCEPT ![r] = Phase(r)']
         /\ phaseOf[r] = Phase(r)
<1>1. UNCHANGED planOf
  BY DEF planOf, Enabled, Planned, Name, WorkloadOf
<1>2. phaseOf' = [phaseOf EXCEPT ![r] = Phase(r)'] /\ phaseOf[r] = Phase(r)
  BY DEF phaseOf, Phase
<1> QED
  BY <1>1, <1>2

\* A plan under the mapping is what DeploySpec calls a plan.
LEMMA PlanFields ==
  ASSUME RunTypeOK, NEW r \in Runs
  PROVE  /\ planOf[r].need = Need(r)
         /\ planOf[r].want = {Name(r, s) : s \in Planned(r)}
         /\ planOf[r].dry = cfg[r].dry /\ planOf[r].wait = cfg[r].wait
         /\ planOf[r] \in D!Plan
<1>1. Need(r) \subseteq Workloads
  BY DEF Need, Enabled
<1>2. {Name(r, s) : s \in Planned(r)} \subseteq VMName
  BY PlannedNames
<1>3. cfg[r].dry \in BOOLEAN /\ cfg[r].wait \in BOOLEAN
  BY RunAssumption DEF RunTypeOK
<1> QED
  BY <1>1, <1>2, <1>3 DEF planOf, Need, D!Plan

\* Objects that do not change look the same under the mapping.
LEMMA ObjectsQuiet ==
  ASSUME UNCHANGED st
  PROVE  UNCHANGED <<servicesOf, secretsOf, vmsOf, upOf>>
  BY DEF servicesOf, secretsOf, vmsOf, upOf, Present

\* An object that a Create request brings into being is the only one that
\* appears, and is not Running yet.
LEMMA ObjectsPut ==
  ASSUME ClusterTypeOK, NEW x \in Obj, NEW l, Put(x, l)
  PROVE  /\ \A w \in Workloads : x = ServiceObj(w) =>
              servicesOf' = servicesOf \cup {w} /\ UNCHANGED <<secretsOf, vmsOf, upOf>>
         /\ \A v \in VMName : x = SecretObj(v) =>
              secretsOf' = secretsOf \cup {v} /\ UNCHANGED <<servicesOf, vmsOf, upOf>>
         /\ \A v \in VMName : x = VMObj(v) =>
              vmsOf' = vmsOf \cup {v} /\ UNCHANGED <<servicesOf, secretsOf, upOf>>
<1>1. \A o \in Obj : st'[o] = IF o = x THEN "created" ELSE st[o]
  BY DEF Put, ClusterTypeOK
<1>2. st[x] = "absent"
  BY DEF Put
<1>3. /\ \A w \in Workloads : ServiceObj(w) \in Obj
      /\ \A v \in VMName : SecretObj(v) \in Obj /\ VMObj(v) \in Obj
  BY DEF ServiceObj, SecretObj, VMObj, Obj
<1>4. ASSUME NEW w \in Workloads, x = ServiceObj(w)
      PROVE  servicesOf' = servicesOf \cup {w} /\ UNCHANGED <<secretsOf, vmsOf, upOf>>
  <2>1. /\ \A u \in Workloads : Present(ServiceObj(u))' <=> Present(ServiceObj(u)) \/ u = w
        /\ \A v \in VMName : st'[SecretObj(v)] = st[SecretObj(v)] /\ st'[VMObj(v)] = st[VMObj(v)]
    BY <1>1, <1>3, <1>4 DEF Present, ServiceObj, SecretObj, VMObj
  <2> QED
    BY <2>1 DEF servicesOf, secretsOf, vmsOf, upOf, Present, SecretObj, VMObj
<1>5. ASSUME NEW v \in VMName, x = SecretObj(v)
      PROVE  secretsOf' = secretsOf \cup {v} /\ UNCHANGED <<servicesOf, vmsOf, upOf>>
  <2>1. /\ \A u \in VMName : Present(SecretObj(u))' <=> Present(SecretObj(u)) \/ u = v
        /\ \A u \in VMName : st'[VMObj(u)] = st[VMObj(u)]
        /\ \A w \in Workloads : st'[ServiceObj(w)] = st[ServiceObj(w)]
    BY <1>1, <1>3, <1>5 DEF Present, ServiceObj, SecretObj, VMObj
  <2> QED
    BY <2>1 DEF servicesOf, secretsOf, vmsOf, upOf, Present, ServiceObj, VMObj
<1>6. ASSUME NEW v \in VMName, x = VMObj(v)
      PROVE  vmsOf' = vmsOf \cup {v} /\ UNCHANGED <<servicesOf, secretsOf, upOf>>
  <2>1. /\ \A u \in VMName : Present(VMObj(u))' <=> Present(VMObj(u)) \/ u = v
        /\ \A u \in VMName : st'[VMObj(u)] = "running" <=> st[VMObj(u)] = "running"
        /\ \A u \in VMName : st'[SecretObj(u)] = st[SecretObj(u)]
        /\ \A w \in Workloads : st'[ServiceObj(w)] = st[ServiceObj(w)]
    BY <1>1, <1>2, <1>3, <1>6 DEF Present, ServiceObj, SecretObj, VMObj
  <2> QED
    BY <2>1 DEF servicesOf, secretsOf, vmsOf, upOf, Present, ServiceObj, SecretObj
<1> QED
  BY <1>4, <1>5, <1>6

\* A Create request is applied or changes nothing.
LEMMA CreateOrNot ==
  ASSUME NEW x, NEW l, NEW cut, NEW res, Create(x, l, cut, res)
  PROVE  Put(x, l) \/ UNCHANGED st
  BY DEF Create

-----------------------------------------------------------------------------
\* A step of run r that leaves the objects alone and only moves its phase:
\* the abstract run begins, gives up or dies.
LEMMA PhaseMoves ==
  ASSUME UNCHANGED <<cfg, st>>, NEW r \in Runs,
         \A q \in Runs \ {r} : pc'[q] = pc[q] /\ outcome'[q] = outcome[q],
         \/ Phase(r)' = Phase(r)
         \/ Phase(r) = "idle" /\ Phase(r)' \in {"busy", "error"}
         \/ Phase(r) = "busy" /\ Phase(r)' = "error"
         \/ Phase(r) \in {"busy", "ok", "error"} /\ Phase(r)' = "dead"
  PROVE  [D!Next]_(D!dvars)
<1>1. /\ UNCHANGED <<planOf, servicesOf, secretsOf, vmsOf, upOf>>
      /\ phaseOf' = [phaseOf EXCEPT ![r] = Phase(r)']
      /\ phaseOf[r] = Phase(r)
  BY PhaseStep, ObjectsQuiet
<1>2. CASE Phase(r)' = Phase(r)
  <2>1. UNCHANGED phaseOf
    BY <1>1, <1>2 DEF phaseOf
  <2> QED
    BY <1>1, <2>1 DEF D!dvars
<1>3. CASE Phase(r) = "idle" /\ Phase(r)' = "busy"
  BY <1>1, <1>3 DEF D!Next, D!Begin, D!Enter
<1>4. CASE Phase(r) \in {"idle", "busy"} /\ Phase(r)' = "error"
  BY <1>1, <1>4 DEF D!Next, D!GiveUp, D!Enter
<1>5. CASE Phase(r) \in {"busy", "ok", "error"} /\ Phase(r)' = "dead"
  BY <1>1, <1>5 DEF D!Next, D!Die, D!Enter
<1> QED
  BY <1>2, <1>3, <1>4, <1>5

\* A step of a run that stays in its phase: at work, it may create a Secret
\* or a VM in its turn.
LEMMA GoroutineSimulated ==
  ASSUME SimInv, NEW r \in Runs, NEW s \in Slot, GoroutineStep(r, s)
  PROVE  [D!Next]_(D!dvars)
<1>0. TypeInv /\ RunTypeOK /\ ClusterTypeOK /\ Local(r) /\ Progress(r)
  BY DEF SimInv, DeployInv, TypeInv, RunTypeOK
<1>1. UNCHANGED <<cfg, pc, outcome>>
  BY DEF GoroutineStep, Launch, SendSecret, SecretReply, RecordSecret, SendVM, VMReply, Backoff,
     RecordVMCreated, RecordVMEvent, Poll
<1>2. CASE UNCHANGED st
  BY <1>1, <1>2, PhaseMoves DEF Phase
<1>3. /\ UNCHANGED <<planOf, phaseOf>>
      /\ phaseOf[r] = Phase(r)
      /\ planOf[r].need = Need(r) /\ planOf[r].want = {Name(r, t) : t \in Planned(r)}
      /\ planOf[r].dry = cfg[r].dry
  <2>1. UNCHANGED phaseOf
    BY <1>1 DEF phaseOf
  <2> QED
    BY <1>0, <1>1, <2>1, PhaseStep, PlanFields
<1>4. ASSUME pc[r] \in {"secrets", "vms"}
      PROVE  phaseOf[r] = "busy" /\ ~planOf[r].dry /\ planOf[r].need \subseteq servicesOf
  <2>1. Phase(r) = "busy" /\ ~cfg[r].dry
    BY <1>0, <1>4 DEF Progress, VerdictAtEnd, NotDry, Deploying, Phase
  <2>2. Need(r) \subseteq servicesOf
    BY <1>0, <1>4 DEF Progress, ServicesJoined, ServiceUp, servicesOf, Present, Need, Enabled
  <2> QED
    BY <1>3, <2>1, <2>2
<1>5. CASE SecretReply(r, s)
  <2>1. s \in Planned(r) /\ pc[r] = "secrets" /\ Name(r, s) \in VMName /\ SecretObj(Name(r, s)) \in Obj
    BY <1>0, <1>5, PlannedObjects DEF SecretReply, TypeInv, JobsPlanned
  <2>2. Put(SecretObj(Name(r, s)), RunLabel(r)) \/ UNCHANGED st
    BY <1>5, CreateOrNot DEF SecretReply
  <2>3. ASSUME Put(SecretObj(Name(r, s)), RunLabel(r)) PROVE D!PutSecret(r, Name(r, s))
    <3>1. secretsOf' = secretsOf \cup {Name(r, s)} /\ UNCHANGED <<servicesOf, vmsOf, upOf>>
      BY <1>0, <2>1, <2>3, ObjectsPut
    <3> QED
      BY <1>3, <1>4, <2>1, <3>1 DEF D!PutSecret, D!AtWork
  <2> QED
    BY <1>2, <2>1, <2>2, <2>3 DEF D!Next
<1>6. CASE VMReply(r, s)
  <2>1. s \in Planned(r) /\ pc[r] = "vms" /\ Name(r, s) \in VMName /\ VMObj(Name(r, s)) \in Obj
    BY <1>0, <1>6, PlannedObjects DEF VMReply, TypeInv, JobsPlanned
  <2>2. Put(VMObj(Name(r, s)), RunLabel(r)) \/ UNCHANGED st
    BY <1>6, CreateOrNot DEF VMReply
  <2>3. planOf[r].want \subseteq secretsOf
    BY <1>0, <1>3, <2>1, PlannedNames DEF Local, SecretsJoined, SecretUp, secretsOf, Present
  <2>4. ASSUME Put(VMObj(Name(r, s)), RunLabel(r)) PROVE D!PutVM(r, Name(r, s))
    <3>1. vmsOf' = vmsOf \cup {Name(r, s)} /\ UNCHANGED <<servicesOf, secretsOf, upOf>>
      BY <1>0, <2>1, <2>4, ObjectsPut
    <3> QED
      BY <1>3, <1>4, <2>1, <2>3, <3>1 DEF D!PutVM, D!AtWork
  <2> QED
    BY <1>2, <2>1, <2>2, <2>4 DEF D!Next
<1>7. CASE ~SecretReply(r, s) /\ ~VMReply(r, s)
  BY <1>2, <1>7 DEF GoroutineStep, Launch, SendSecret, RecordSecret, SendVM, Backoff,
     RecordVMCreated, RecordVMEvent, Poll, clusterVars
<1> QED
  BY <1>5, <1>6, <1>7

\* A Service appears, whether or not its creation ends the run.
LEMMA ServiceSimulated ==
  ASSUME SimInv, NEW r \in Runs, NEW w \in Workloads, CreateService(r, w)
  PROVE  [D!Next]_(D!dvars)
<1>0. TypeInv /\ RunTypeOK /\ ClusterTypeOK /\ Progress(r)
  BY DEF SimInv, DeployInv, TypeInv, RunTypeOK
<1>1. /\ pc[r] = "svc" /\ w \in Need(r) /\ UNCHANGED cfg /\ ServiceObj(w) \in Obj
      /\ \A q \in Runs \ {r} : pc'[q] = pc[q] /\ outcome'[q] = outcome[q]
      /\ \/ pc'[r] = "svcrec" /\ outcome'[r] = outcome[r]
         \/ pc'[r] = "complete" /\ outcome'[r] = "error"
      /\ Put(ServiceObj(w), RunLabel(r)) \/ UNCHANGED st
  <2>1. PICK res \in CreateResult :
          /\ UNCHANGED st \/ Create(ServiceObj(w), RunLabel(r), FALSE, res)
          /\ \/ Goto(r, "svcrec") /\ UNCHANGED outcome
             \/ Fail(r)
    BY DEF CreateService
  <2>2. pc[r] = "svc" /\ w \in todo[r] /\ UNCHANGED cfg /\ ServiceObj(w) \in Obj
    BY DEF CreateService, ServiceObj, Obj
  <2>3. w \in Need(r)
    BY <1>0, <2>2 DEF Progress, ServicesSoFar
  <2> QED
    BY <1>0, <2>1, <2>2, <2>3, CreateOrNot DEF Goto, Fail, RunTypeOK
<1>2. Phase(r) = "busy" /\ Phase(r)' \in {"busy", "error"} /\ ~cfg[r].dry
  BY <1>0, <1>1 DEF Progress, VerdictAtEnd, NotDry, Deploying, Phase
<1>3. CASE UNCHANGED st
  BY <1>1, <1>2, <1>3, PhaseMoves
<1>4. CASE Put(ServiceObj(w), RunLabel(r))
  <2>1. servicesOf' = servicesOf \cup {w} /\ UNCHANGED <<secretsOf, vmsOf, upOf>>
    BY <1>0, <1>1, <1>4, ObjectsPut
  <2>2. /\ UNCHANGED planOf
        /\ phaseOf' = [phaseOf EXCEPT ![r] = Phase(r)'] /\ phaseOf[r] = "busy"
        /\ w \in planOf[r].need /\ ~planOf[r].dry
    BY <1>0, <1>1, <1>2, PhaseStep, PlanFields
  <2>3. Phase(r)' = "busy" => UNCHANGED phaseOf
    BY <2>2 DEF phaseOf
  <2> QED
    BY <1>2, <2>1, <2>2, <2>3 DEF D!Next, D!PutService, D!AtWork, D!Enter
<1> QED
  BY <1>1, <1>3, <1>4

\* The verdict "ok" is given of a deployment that is complete.
LEMMA SuccessSimulated ==
  ASSUME SimInv, NEW r \in Runs, PlanDone(r) \/ MarkDone(r), outcome'[r] = "ok"
  PROVE  D!Succeed(r)
<1>0. TypeInv /\ RunTypeOK /\ Local(r) /\ Progress(r)
  BY DEF SimInv, DeployInv, TypeInv
<1>1. /\ UNCHANGED <<cfg, st>> /\ pc[r] \in {"plan", "markcreated", "markmixed", "markfailed"}
      /\ \A q \in Runs \ {r} : pc'[q] = pc[q] /\ outcome'[q] = outcome[q]
      /\ outcome[r] = "none"
  BY <1>0 DEF PlanDone, MarkDone, Goto, clusterVars, RunTypeOK, Progress, VerdictAtEnd, Deploying
<1>2. pc'[r] = "complete" /\ (cfg[r].dry \/ pc[r] = "markcreated")
  BY <1>0, <1>1 DEF PlanDone, MarkDone, Goto, RunTypeOK
<1>3. Phase(r) = "busy" /\ Phase(r)' = "ok"
  BY <1>1, <1>2 DEF Phase
<1>4. /\ UNCHANGED <<planOf, servicesOf, secretsOf, vmsOf, upOf>>
      /\ phaseOf' = [phaseOf EXCEPT ![r] = "ok"] /\ phaseOf[r] = "busy"
  BY <1>1, <1>3, PhaseStep, ObjectsQuiet
<1>5. ASSUME ~cfg[r].dry
      PROVE  /\ {Name(r, s) : s \in Planned(r)} \subseteq vmsOf
             /\ cfg[r].wait => {Name(r, s) : s \in Planned(r)} \subseteq upOf
  <2>1. \A s \in Planned(r) : /\ Name(r, s) \in VMName /\ VMUp(r, s)
                              /\ cfg[r].wait => st[VMObj(Name(r, s))] = "running"
    BY <1>0, <1>2, <1>5, PlannedNames DEF Local, VMsJoined, AllReady, ReadyIsTrue
  <2> QED
    BY <2>1 DEF VMUp, vmsOf, upOf, Present
<1> QED
  BY <1>0, <1>4, <1>5, PlanFields DEF D!Succeed, D!Enter

\* The other statements of the main goroutine, signals and kills.
LEMMA SerialSimulated ==
  ASSUME SimInv, NEW r \in Runs, SerialStep(r) \/ Signal(r) \/ Crash(r)
  PROVE  [D!Next]_(D!dvars)
<1>0. TypeInv /\ RunTypeOK /\ Progress(r)
  BY DEF SimInv, DeployInv, TypeInv
<1>1. ASSUME NEW w \in Workloads, CreateService(r, w) PROVE [D!Next]_(D!dvars)
  BY <1>1, ServiceSimulated
<1>2. CASE (PlanDone(r) \/ MarkDone(r)) /\ outcome'[r] = "ok"
  BY <1>2, SuccessSimulated DEF D!Next
<1>3. CASE /\ ~\E w \in Workloads : CreateService(r, w)
           /\ ~((PlanDone(r) \/ MarkDone(r)) /\ outcome'[r] = "ok")
  <2>1. UNCHANGED <<cfg, st>>
    BY <1>3 DEF SerialStep, Signal, Crash, Start, PlanWorkload, PlanDone, EnsureNamespace,
       RecordService, MarkWorkload, ServicesDone, SecretsDone, VMsDone, WaitDone, Report, ReportDone,
       MarkDone, Complete, clusterVars, runVars
  <2>2. \A q \in Runs \ {r} : pc'[q] = pc[q] /\ outcome'[q] = outcome[q]
    BY <1>0, OthersFrame DEF Untouched, RunStep
  <2>3. \/ Phase(r)' = Phase(r)
        \/ Phase(r) = "idle" /\ Phase(r)' \in {"busy", "error"}
        \/ Phase(r) = "busy" /\ Phase(r)' = "error"
        \/ Phase(r) \in {"busy", "ok", "error"} /\ Phase(r)' = "dead"
    <3> USE <1>0 DEF Phase, Progress, VerdictAtEnd, Deploying, RunTypeOK, Goto, Fail
    <3>1. CASE Start(r) \/ PlanWorkload(r) \/ Signal(r) \/ Complete(r)
      BY <3>1 DEF Start, PlanWorkload, Signal, Complete, runVars
    <3>2. CASE PlanDone(r) \/ MarkDone(r)
      BY <1>3, <3>2 DEF PlanDone, MarkDone, printDryRun
    <3>3. CASE EnsureNamespace(r)
      BY <3>3 DEF EnsureNamespace, ToServices
    <3>4. CASE ServicesDone(r) \/ SecretsDone(r) \/ VMsDone(r) \/ WaitDone(r) \/ ReportDone(r)
      BY <3>4 DEF ServicesDone, SecretsDone, VMsDone, WaitDone, ReportDone
    <3>5. CASE \/ \E w \in Workloads : RecordService(r, w) \/ MarkWorkload(r, w)
               \/ \E v \in VMName : Report(r, v)
      BY <3>5 DEF RecordService, MarkWorkload, Report
    <3>6. CASE Crash(r)
      BY <3>6 DEF Crash, Alive
    <3> QED
      BY <1>3, <3>1, <3>2, <3>3, <3>4, <3>5, <3>6 DEF SerialStep
  <2> QED
    BY <2>1, <2>2, <2>3, PhaseMoves
<1> QED
  BY <1>1, <1>2, <1>3

\* The cluster boots VMs; with no cleanup about it finalizes none.
LEMMA ClusterSimulated ==
  ASSUME SimInv, ClusterNext, UNCHANGED <<ctx, auditVars, runVars>>
  PROVE  [D!Next]_(D!dvars)
<1>0. ClusterTypeOK /\ NothingTerminates
  BY DEF SimInv, DeployInv, TypeInv, RunTypeOK
<1>1. PICK v \in VMName : Boot(v)
  BY <1>0 DEF ClusterNext, NothingTerminates, Finalize, NamespaceGone, VMObj, Obj
<1>2. /\ \A o \in Obj : st'[o] = IF o = VMObj(v) THEN "running" ELSE st[o]
      /\ st[VMObj(v)] = "created"
  BY <1>0, <1>1 DEF Boot, ClusterTypeOK
<1>3. /\ \A w \in Workloads : ServiceObj(w) \in Obj
      /\ \A u \in VMName : SecretObj(u) \in Obj /\ VMObj(u) \in Obj
  BY DEF ServiceObj, SecretObj, VMObj, Obj
<1>4. /\ \A w \in Workloads : st'[ServiceObj(w)] = st[ServiceObj(w)]
      /\ \A u \in VMName : st'[SecretObj(u)] = st[SecretObj(u)]
      /\ \A u \in VMName : st'[VMObj(u)] = "absent" <=> st[VMObj(u)] = "absent"
      /\ \A u \in VMName : st'[VMObj(u)] = "running" <=> st[VMObj(u)] = "running" \/ u = v
  BY <1>2, <1>3 DEF ServiceObj, SecretObj, VMObj
<1>5. UNCHANGED <<servicesOf, secretsOf, vmsOf>> /\ upOf' = upOf \cup {v} /\ v \in vmsOf
  BY <1>2, <1>4 DEF servicesOf, secretsOf, vmsOf, upOf, Present, ServiceObj, SecretObj, VMObj
<1>6. UNCHANGED <<planOf, phaseOf>>
  BY DEF runVars, planOf, phaseOf, Enabled, Planned, Name, WorkloadOf
<1> QED
  BY <1>5, <1>6 DEF D!Next, D!Boot

\* Every step is a step of DeploySpec or changes nothing it can see.
LEMMA StepSimulated == SimInv /\ [RunsNext]_rvars => [D!Next]_(D!dvars)
<1> SUFFICES ASSUME SimInv, [RunsNext]_rvars PROVE [D!Next]_(D!dvars)
  OBVIOUS
<1>1. CASE UNCHANGED rvars
  <2>1. UNCHANGED <<cfg, pc, outcome, st>>
    BY <1>1 DEF rvars, clusterVars, runVars
  <2>2. UNCHANGED <<planOf, phaseOf>>
    BY <2>1 DEF planOf, phaseOf, Enabled, Planned, Name, WorkloadOf
  <2> QED
    BY <2>1, <2>2, ObjectsQuiet DEF D!dvars
<1>2. CASE ClusterNext /\ UNCHANGED <<ctx, auditVars, runVars>>
  BY <1>2, ClusterSimulated
<1>3. ASSUME NEW r \in Runs, RunStep(r) \/ Signal(r) \/ Crash(r) PROVE [D!Next]_(D!dvars)
  BY <1>3, GoroutineSimulated, SerialSimulated DEF RunStep
<1> QED
  BY <1>1, <1>2, <1>3 DEF RunsNext

\* Every initial state maps to one.
LEMMA InitSimulated == RunsInit => D!Init
<1> SUFFICES ASSUME RunsInit PROVE D!Init
  OBVIOUS
<1>1. RunTypeOK
  BY InitTypeInv DEF TypeInv
<1>2. planOf \in [Runs -> D!Plan]
  BY <1>1, PlanFields DEF planOf
<1>3. phaseOf = [r \in Runs |-> "idle"]
  BY DEF RunsInit, RunInit, phaseOf
<1>4. servicesOf = {} /\ secretsOf = {} /\ vmsOf = {} /\ upOf = {}
  BY DEF RunsInit, ClusterInit, servicesOf, secretsOf, vmsOf, upOf, Present, ServiceObj, SecretObj,
     VMObj, Obj
<1> QED
  BY <1>2, <1>3, <1>4 DEF D!Init

\* "virtwork run" implements DeploySpec: for any number of runs over shared
\* names, whatever is retried, lost, interrupted or killed, Services, Secrets
\* and VMs appear in this order, group by group, nothing appears outside a
\* plan or after a verdict, and success is reported of complete deployments.
THEOREM RunsImplementDeploySpec == RunsSpec => Implements
<1>1. RunsInit => SimInv /\ D!Init
  BY InitSimInv, InitSimulated
<1> QED
  BY <1>1, NextSimInv, StepSimulated, PTL DEF RunsSpec, Implements, D!Spec
=============================================================================
