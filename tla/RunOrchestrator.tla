-------------------------- MODULE RunOrchestrator --------------------------
(***************************************************************************)
(* "virtwork run": runE (cmd/virtwork/main.go) and RunOrchestrator.Run     *)
(* (internal/orchestrator/orchestrator.go) with the errgroup pools that    *)
(* create secrets and VMs, the retry loop of internal/vm and the readiness *)
(* pollers of internal/wait.  Several runs share the cluster and the       *)
(* audit database; each is one process with several goroutines.            *)
(***************************************************************************)
EXTENDS AuditDB, Sequences

CONSTANTS
  RunConfigs,    \* the invocations considered: [req, dry, wait, limit]
  MaxVMs,        \* bound on VMCount
  MaxRetries,    \* defaultMaxRetries of internal/vm (5)
  SecretLimit,   \* g.SetLimit of createSecrets (10)
  NeedsService,  \* workloads whose RequiresService() holds
  Disabled,      \* workloads with "enabled: false" in the config file
  BadParams,     \* workloads planVMs rejects before RecordWorkload
  BadUserdata,   \* workloads whose cloud-init generation fails after it
  BadSpec,       \* workloads BuildVMSpec rejects
  TooLarge       \* workloads whose userdata exceeds the 1 MiB Secret limit

ASSUME RunAssumption ==
  /\ \A c \in RunConfigs : /\ c.req \in Seq(Workloads) /\ Len(c.req) \in 1..MaxReq
                           /\ c.dry \in BOOLEAN /\ c.wait \in BOOLEAN /\ c.limit \in Nat
  /\ \A w \in Workloads : VMCount[w] <= MaxVMs
  /\ MaxVMs \in Nat /\ MaxRetries \in Nat /\ SecretLimit \in Nat \ {0}
  /\ Disabled \subseteq Workloads /\ NeedsService \subseteq Workloads

VARIABLES
  cfg,      \* cfg[r]: flags and configuration of run r
  pc,       \* pc[r]: the call run r is in
  planned,  \* planned[r]: requested workloads planVMs has gone through
  wlID,     \* wlID[r][w]: auditWorkloadIDs (0: no entry, or no row)
  todo,     \* todo[r]: what is left of the map range run r is in
  cur,      \* cur[r]: the service created and not recorded yet (a set, <= 1)
  job,      \* job[r][s]: goroutine of plan entry s in the current pool
  tries,    \* tries[r][s]: attempt of retryOnTransient
  ready,    \* ready[r][v]: results map of WaitForAllVMsReady
  outcome   \* outcome[r]: what runE returned

runVars == <<cfg, pc, planned, wlID, todo, cur, job, tries, ready, outcome>>
rvars == <<clusterVars, ctx, auditVars, runVars>>

PC == {"new", "plan", "ns", "nsget", "nspatch", "svc", "svcrec", "secrets", "vms",
       "markfailed", "wait", "report", "markmixed", "markcreated", "complete",
       "exited", "crashed"}
JobState == {"idle", "try", "sent", "backoff", "rec", "ev", "fail", "poll", "ok", "err"}

-----------------------------------------------------------------------------
\* A plan entry is <<k, i>>: the i-th VM of the k-th requested workload.  A
\* name requested twice is planned twice.
Slot == (1..MaxReq) \X (1..MaxVMs)
WorkloadOf(r, s) == cfg[r].req[s[1]]
Name(r, s) == <<WorkloadOf(r, s), s[2]>>
Enabled(r) == {w \in Workloads \ Disabled : \E k \in 1..Len(cfg[r].req) : cfg[r].req[k] = w}
Planned(r) == {s \in Slot : /\ s[1] <= Len(cfg[r].req)
                            /\ WorkloadOf(r, s) \notin Disabled
                            /\ s[2] <= VMCount[WorkloadOf(r, s)]}
\* What planning and building come down to here: whether a workload's
\* parameters, and the options of its VMs, are accepted.
ValidateParams(w) == w \notin BadParams
BuildVMSpec(w) == w \notin BadSpec

Before(s, t) == s[1] < t[1] \/ (s[1] = t[1] /\ s[2] < t[2])

\* errgroup: the derived context is cancelled by the first goroutine that
\* returns an error, or with its parent.
Cut(r) == ctx[r] = "cancelled" \/ \E s \in Slot : job[r][s] = "err"
\* Mutant: they audit under the group's context.
AuditUnderGroup(r) == IF Cut(r) THEN {FALSE} ELSE Executed(r)

\* A pool's goroutines audit under the outer context, not the group's.
AuditInGroup(r) == Executed(r)
Active(r) == {s \in Planned(r) : job[r][s] \notin {"idle", "ok", "err"}}
Joined(r) == \A s \in Planned(r) : job[r][s] \in {"ok", "err"}
Limit(r) == IF pc[r] = "secrets" THEN SecretLimit ELSE cfg[r].limit
NoJobs == [s \in Slot |-> "idle"]

Goto(r, l) == pc' = [pc EXCEPT ![r] = l]
Fail(r) == Goto(r, "complete") /\ outcome' = [outcome EXCEPT ![r] = "error"]
SetJob(r, s, j) == job' = [job EXCEPT ![r][s] = j]

RunInit ==
  /\ cfg \in [Runs -> RunConfigs]
  /\ pc = [r \in Runs |-> "new"]
  /\ planned = [r \in Runs |-> 0]
  /\ wlID = [r \in Runs |-> [w \in Workloads |-> 0]]
  /\ todo = [r \in Runs |-> {}]
  /\ cur = [r \in Runs |-> {}]
  /\ job = [r \in Runs |-> NoJobs]
  /\ tries = [r \in Runs |-> [s \in Slot |-> 0]]
  /\ ready = [r \in Runs |-> [v \in VMName |-> "none"]]
  /\ outcome = [r \in Runs |-> "none"]

-----------------------------------------------------------------------------
\* runE up to ro.Run: connect (not in dry-run), StartExecution, first event.
Start(r) ==
  /\ pc[r] = "new"
  /\ \/ /\ ~cfg[r].dry /\ ConnectFails
        /\ Goto(r, "exited") /\ outcome' = [outcome EXCEPT ![r] = "error"]
        /\ UNCHANGED <<log, events>>
     \/ \E ok \in Executed(r), ev \in Executed(r) :
          /\ StartExecution(r, ok)
          /\ RecordEvent(r, "execution_started", r, ok /\ ev)
          /\ Goto(r, IF ok THEN "plan" ELSE "exited")
          /\ outcome' = [outcome EXCEPT ![r] = IF ok THEN "none" ELSE "error"]
  /\ UNCHANGED <<clusterVars, ctx, wlRow, rows, linked, counts,
                 cfg, planned, wlID, todo, cur, job, tries, ready>>

\* One iteration of planVMs.
PlanWorkload(r) ==
  LET k == planned[r] + 1
      w == cfg[r].req[k]
      Advance == planned' = [planned EXCEPT ![r] = k] /\ UNCHANGED <<pc, outcome>>
  IN
  /\ pc[r] = "plan" /\ planned[r] < Len(cfg[r].req)
  /\ \/ /\ w \in Disabled
        /\ \E ok \in Executed(r) : RecordEvent(r, "workload_skipped", w, ok)
        /\ Advance /\ UNCHANGED <<wlRow, wlID>>
     \/ /\ w \notin Disabled /\ ~ValidateParams(w)
        /\ Fail(r) /\ UNCHANGED <<planned, wlRow, wlID, events>>
     \/ /\ w \notin Disabled /\ ValidateParams(w)
        /\ \E ok \in Executed(r) :
             /\ RecordWorkload(r, k, ok)
             /\ wlID' = [wlID EXCEPT ![r][w] = IF Writes(r, ok) THEN k ELSE 0]
        /\ \/ w \in BadUserdata /\ Fail(r) /\ UNCHANGED planned
           \/ w \notin BadUserdata /\ Advance
        /\ UNCHANGED events
  /\ UNCHANGED <<clusterVars, ctx, log, rows, linked, counts,
                 cfg, todo, cur, job, tries, ready>>

\* printDryRun builds every planned VM, prints, and touches nothing.
printDryRun(r) == IF \A w \in Enabled(r) : BuildVMSpec(w) THEN "ok" ELSE "error"

\* The plan is complete: in dry-run mode it is printed and runE returns;
\* otherwise createResources starts.
PlanDone(r) ==
  /\ pc[r] = "plan" /\ planned[r] = Len(cfg[r].req)
  /\ \E ok \in Executed(r) : RecordEvent(r, "execution_started", r, ok)
  /\ IF cfg[r].dry
     THEN /\ Goto(r, "complete")
          /\ outcome' = [outcome EXCEPT ![r] = printDryRun(r)]
     ELSE Goto(r, "ns") /\ UNCHANGED outcome
  /\ UNCHANGED <<clusterVars, ctx, log, wlRow, rows, linked, counts,
                 cfg, planned, wlID, todo, cur, job, tries, ready>>

-----------------------------------------------------------------------------
\* resources.EnsureNamespace: Create; on AlreadyExists, Get and Patch labels.
ToServices(r) ==
  /\ Goto(r, "svc")
  /\ todo' = [todo EXCEPT ![r] = Enabled(r) \cap NeedsService]
  /\ UNCHANGED outcome

EnsureNamespace(r) ==
  /\ \/ /\ pc[r] = "ns" /\ ctx[r] = "live" /\ ns = "absent"
        /\ ns' = "active" /\ ToServices(r)
     \/ /\ pc[r] = "ns" /\ ctx[r] = "live" /\ ns # "absent"
        /\ Goto(r, "nsget") /\ UNCHANGED <<ns, todo, outcome>>
     \/ /\ pc[r] = "nsget" /\ ctx[r] = "live" /\ ns # "absent"
        /\ Goto(r, "nspatch") /\ UNCHANGED <<ns, todo, outcome>>
     \/ /\ pc[r] = "nspatch" /\ ctx[r] = "live" /\ ns # "absent"
        /\ ToServices(r) /\ UNCHANGED ns
     \/ /\ \/ pc[r] = "ns" /\ (ctx[r] = "cancelled" \/ Faults \cap {"transient", "fatal"} # {})
           \/ pc[r] \in {"nsget", "nspatch"} /\
                (ns = "absent" \/ ctx[r] = "cancelled" \/ Faults \cap {"transient", "fatal"} # {})
        /\ Fail(r) /\ UNCHANGED <<ns, todo>>
  /\ UNCHANGED <<st, owner, ctx, auditVars, cfg, planned, wlID, cur, job, tries, ready>>

\* createResources: one Service per workload instance that requires one, in
\* the order the map range happens to take.
CreateService(r, w) ==
  /\ pc[r] = "svc" /\ w \in todo[r]
  /\ \E res \in CreateResult :
       /\ IF ctx[r] = "cancelled"
          THEN res = "fatal" /\ UNCHANGED <<st, owner>>
          ELSE Create(ServiceObj(w), RunLabel(r), FALSE, res)
       /\ IF res \in {"ok", "exists"}
          THEN Goto(r, "svcrec") /\ cur' = [cur EXCEPT ![r] = {w}] /\ UNCHANGED outcome
          ELSE Fail(r) /\ UNCHANGED cur
  /\ UNCHANGED <<ns, ctx, auditVars, cfg, planned, wlID, todo, job, tries, ready>>

RecordService(r, w) ==
  /\ pc[r] = "svcrec" /\ w \in cur[r]
  /\ \E ok \in Executed(r), ev \in Executed(r) :
       /\ RecordResource(r, ServiceObj(w), ok)
       /\ RecordEvent(r, "service_created", w, ev)
  /\ Goto(r, "svc")
  /\ todo' = [todo EXCEPT ![r] = @ \ {w}]
  /\ cur' = [cur EXCEPT ![r] = {}]
  /\ UNCHANGED <<clusterVars, ctx, log, wlRow, linked, counts,
                 cfg, planned, wlID, job, tries, ready, outcome>>

ServicesDone(r) ==
  /\ pc[r] = "svc" /\ todo[r] = {}
  /\ Goto(r, "secrets")
  /\ UNCHANGED <<clusterVars, ctx, auditVars,
                 cfg, planned, wlID, todo, cur, job, tries, ready, outcome>>

-----------------------------------------------------------------------------
\* g.Go: goroutines start in plan order, blocking while the limit is reached.
Launch(r, s) ==
  /\ pc[r] \in {"secrets", "vms"}
  /\ s \in Planned(r) /\ job[r][s] = "idle"
  /\ \A t \in Planned(r) : Before(t, s) => job[r][t] # "idle"
  /\ Limit(r) = 0 \/ Cardinality(Active(r)) < Limit(r)
  /\ SetJob(r, s, "try")
  /\ UNCHANGED <<clusterVars, ctx, auditVars,
                 cfg, pc, planned, wlID, todo, cur, tries, ready, outcome>>

\* CreateCloudInitSecret up to the request: the size check, and the client's
\* own refusal of a context that is already cancelled.
SendSecret(r, s) ==
  /\ pc[r] = "secrets" /\ job[r][s] = "try"
  /\ SetJob(r, s, IF WorkloadOf(r, s) \in TooLarge \/ Cut(r) THEN "err" ELSE "sent")
  /\ UNCHANGED <<clusterVars, ctx, auditVars,
                 cfg, pc, planned, wlID, todo, cur, tries, ready, outcome>>

SecretReply(r, s) ==
  /\ pc[r] = "secrets" /\ job[r][s] = "sent"
  /\ \E res \in CreateResult :
       /\ Create(SecretObj(Name(r, s)), RunLabel(r), Cut(r), res)
       /\ SetJob(r, s, IF res \in {"ok", "exists"} THEN "rec" ELSE "err")
  /\ UNCHANGED <<ns, ctx, auditVars,
                 cfg, pc, planned, wlID, todo, cur, tries, ready, outcome>>

RecordSecret(r, s) ==
  /\ pc[r] = "secrets" /\ job[r][s] = "rec"
  /\ \E ok \in AuditInGroup(r) : RecordResource(r, SecretObj(Name(r, s)), ok)
  /\ SetJob(r, s, "ok")
  /\ UNCHANGED <<clusterVars, ctx, log, wlRow, events, linked, counts,
                 cfg, pc, planned, wlID, todo, cur, tries, ready, outcome>>

\* Mutant: the error of g.Wait is dropped.
SecretsDoneAnyway(r) ==
  /\ pc[r] = "secrets" /\ Joined(r)
  /\ Goto(r, "vms") /\ job' = [job EXCEPT ![r] = NoJobs]
  /\ UNCHANGED <<clusterVars, ctx, auditVars,
                 cfg, planned, wlID, todo, cur, tries, ready, outcome>>

\* g.Wait of createSecrets.
SecretsDone(r) ==
  /\ pc[r] = "secrets" /\ Joined(r)
  /\ IF \E s \in Planned(r) : job[r][s] = "err"
     THEN Fail(r) /\ UNCHANGED job
     ELSE Goto(r, "vms") /\ job' = [job EXCEPT ![r] = NoJobs] /\ UNCHANGED outcome
  /\ UNCHANGED <<clusterVars, ctx, auditVars,
                 cfg, planned, wlID, todo, cur, tries, ready>>

-----------------------------------------------------------------------------
\* createVMs, one goroutine: BuildVMSpec, then retryOnTransient around Create.
SendVM(r, s) ==
  /\ pc[r] = "vms" /\ job[r][s] = "try"
  /\ SetJob(r, s, IF ~BuildVMSpec(WorkloadOf(r, s)) THEN "err"
                  ELSE IF Cut(r) THEN "fail" ELSE "sent")
  /\ UNCHANGED <<clusterVars, ctx, auditVars,
                 cfg, pc, planned, wlID, todo, cur, tries, ready, outcome>>

\* Mutants: one attempt too many; a VM that already exists is not recorded.
AfterReplyOneMore(r, s, res) ==
  CASE res \in {"ok", "exists"} -> "rec"
    [] res = "transient" /\ tries[r][s] <= MaxRetries -> "backoff"
    [] OTHER -> "fail"
AfterReplySkip(r, s, res) ==
  CASE res = "ok" -> "rec"
    [] res = "exists" -> "ok"
    [] res = "transient" /\ tries[r][s] < MaxRetries -> "backoff"
    [] OTHER -> "fail"

\* What retryOnTransient does with the answer of an attempt.
AfterReply(r, s, res) ==
  CASE res \in {"ok", "exists"} -> "rec"
    [] res = "transient" /\ tries[r][s] < MaxRetries -> "backoff"
    [] OTHER -> "fail"

VMReply(r, s) ==
  /\ pc[r] = "vms" /\ job[r][s] = "sent"
  /\ \E res \in CreateResult :
       /\ Create(VMObj(Name(r, s)), RunLabel(r), Cut(r), res)
       /\ SetJob(r, s, AfterReply(r, s, res))
  /\ UNCHANGED <<ns, ctx, auditVars,
                 cfg, pc, planned, wlID, todo, cur, tries, ready, outcome>>

\* Mutant: the attempt is not counted.
BackoffForever(r, s) ==
  /\ pc[r] = "vms" /\ job[r][s] = "backoff"
  /\ SetJob(r, s, IF Cut(r) THEN "fail" ELSE "try")
  /\ UNCHANGED <<clusterVars, ctx, auditVars,
                 cfg, pc, planned, wlID, todo, cur, tries, ready, outcome>>

\* The select between ctx.Done() and time.After(backoff).
Backoff(r, s) ==
  /\ pc[r] = "vms" /\ job[r][s] = "backoff"
  /\ \/ SetJob(r, s, "try") /\ tries' = [tries EXCEPT ![r][s] = @ + 1]
     \/ Cut(r) /\ SetJob(r, s, "fail") /\ UNCHANGED tries
  /\ UNCHANGED <<clusterVars, ctx, auditVars,
                 cfg, pc, planned, wlID, todo, cur, ready, outcome>>

RecordVMCreated(r, s) ==
  /\ pc[r] = "vms" /\ job[r][s] = "rec"
  /\ \E ok \in AuditInGroup(r) : RecordVM(r, Name(r, s), wlID[r][WorkloadOf(r, s)], ok)
  /\ SetJob(r, s, "ev")
  /\ UNCHANGED <<clusterVars, ctx, log, wlRow, events, linked, counts,
                 cfg, pc, planned, wlID, todo, cur, tries, ready, outcome>>

RecordVMEvent(r, s) ==
  /\ pc[r] = "vms" /\ job[r][s] \in {"ev", "fail"}
  /\ \E ok \in AuditInGroup(r) :
       RecordEvent(r, IF job[r][s] = "ev" THEN "vm_created" ELSE "vm_failed", Name(r, s), ok)
  /\ SetJob(r, s, IF job[r][s] = "ev" THEN "ok" ELSE "err")
  /\ UNCHANGED <<clusterVars, ctx, log, wlRow, rows, linked, counts,
                 cfg, pc, planned, wlID, todo, cur, tries, ready, outcome>>

\* g.Wait of createVMs; on success the readiness pollers all start at once.
VMsDone(r) ==
  /\ pc[r] = "vms" /\ Joined(r)
  /\ IF \E s \in Planned(r) : job[r][s] = "err"
     THEN Goto(r, "markfailed") /\ todo' = [todo EXCEPT ![r] = Enabled(r)] /\ UNCHANGED job
     ELSE IF cfg[r].wait
     THEN /\ Goto(r, "wait") /\ UNCHANGED todo
          /\ job' = [job EXCEPT ![r] = [s \in Slot |-> IF s \in Planned(r) THEN "poll" ELSE "idle"]]
     ELSE Goto(r, "markcreated") /\ todo' = [todo EXCEPT ![r] = Enabled(r)] /\ UNCHANGED job
  /\ UNCHANGED <<clusterVars, ctx, auditVars, cfg, planned, wlID, cur, tries, ready, outcome>>

-----------------------------------------------------------------------------
\* WaitForVMReady returns: the instance is Running, or the context is
\* cancelled, the deadline passed, or Get failed with anything but NotFound.
\* A poll that sees neither changes nothing.
Poll(r, s) ==
  /\ pc[r] = "wait" /\ job[r][s] = "poll"
  /\ \/ /\ ctx[r] = "live" /\ SeesRunning(Name(r, s))
        /\ SetJob(r, s, "ok") /\ ready' = [ready EXCEPT ![r][Name(r, s)] = "ok"]
     \/ /\ SetJob(r, s, "err") /\ ready' = [ready EXCEPT ![r][Name(r, s)] = "err"]
  /\ UNCHANGED <<clusterVars, ctx, auditVars,
                 cfg, pc, planned, wlID, todo, cur, tries, outcome>>

WaitDone(r) ==
  /\ pc[r] = "wait" /\ Joined(r)
  /\ Goto(r, "report")
  /\ todo' = [todo EXCEPT ![r] = {Name(r, s) : s \in Planned(r)}]
  /\ UNCHANGED <<clusterVars, ctx, auditVars,
                 cfg, planned, wlID, cur, job, tries, ready, outcome>>

\* One entry of the results range: vm_ready or vm_timeout.
Report(r, v) ==
  /\ pc[r] = "report" /\ v \in todo[r]
  /\ \E ok \in Executed(r) :
       RecordEvent(r, IF ready[r][v] = "ok" THEN "vm_ready" ELSE "vm_timeout", v, ok)
  /\ todo' = [todo EXCEPT ![r] = @ \ {v}]
  /\ UNCHANGED <<clusterVars, ctx, log, wlRow, rows, linked, counts,
                 cfg, pc, planned, wlID, cur, job, tries, ready, outcome>>

\* Mutant: failures is never incremented.
NoFailedVMs(r) == {}

FailedVMs(r) == {v \in VMName : ready[r][v] = "err"}

ReportDone(r) ==
  /\ pc[r] = "report" /\ todo[r] = {}
  /\ Goto(r, IF FailedVMs(r) = {} THEN "markcreated" ELSE "markmixed")
  /\ todo' = [todo EXCEPT ![r] = Enabled(r)]
  /\ UNCHANGED <<clusterVars, ctx, auditVars,
                 cfg, planned, wlID, cur, job, tries, ready, outcome>>

-----------------------------------------------------------------------------
\* Mutant: failedWorkloads is not consulted.
FinalStatusCoarse(r, w) == IF pc[r] = "markfailed" THEN "failed" ELSE "created"

\* The ranges over auditWorkloadIDs that write the workloads' final status.
FinalStatus(r, w) ==
  IF pc[r] = "markcreated" \/ (pc[r] = "markmixed" /\ \A v \in FailedVMs(r) : v[1] # w)
  THEN "created" ELSE "failed"

MarkWorkload(r, w) ==
  /\ pc[r] \in {"markfailed", "markmixed", "markcreated"} /\ w \in todo[r]
  /\ \E ok \in Executed(r) : UpdateWorkloadStatus(r, wlID[r][w], FinalStatus(r, w), ok)
  /\ todo' = [todo EXCEPT ![r] = @ \ {w}]
  /\ UNCHANGED <<clusterVars, ctx, log, rows, events, linked, counts,
                 cfg, pc, planned, wlID, cur, job, tries, ready, outcome>>

MarkDone(r) ==
  /\ pc[r] \in {"markfailed", "markmixed", "markcreated"} /\ todo[r] = {}
  /\ Goto(r, "complete")
  /\ outcome' = [outcome EXCEPT ![r] = IF pc[r] = "markcreated" THEN "ok" ELSE "error"]
  /\ UNCHANGED <<clusterVars, ctx, auditVars,
                 cfg, planned, wlID, todo, cur, job, tries, ready>>

\* A process that is gone takes its memory along.
Forget(r) ==
  /\ planned' = [planned EXCEPT ![r] = 0]
  /\ todo' = [todo EXCEPT ![r] = {}]
  /\ cur' = [cur EXCEPT ![r] = {}]
  /\ job' = [job EXCEPT ![r] = NoJobs]
  /\ tries' = [tries EXCEPT ![r] = [s \in Slot |-> 0]]
  /\ ready' = [ready EXCEPT ![r] = [v \in VMName |-> "none"]]

\* Mutant: the deferred function completes with "success".
AuditStatusBlind(p, good) == "success"

\* The end of runE: CompleteExecution, from the deferred function on error.
AuditStatus(p, good) ==
  IF good THEN "success" ELSE IF ctx[p] = "cancelled" THEN "cancelled" ELSE "failed"

\* Mutant: no deferred CompleteExecution.
CompleteOnlySuccess(r) ==
  /\ pc[r] = "complete"
  /\ \E ok \in Executed(r) :
       IF outcome[r] = "ok" THEN CompleteExecution(r, "success", ok) ELSE UNCHANGED log
  /\ Goto(r, "exited")
  /\ Forget(r)
  /\ UNCHANGED <<clusterVars, ctx, wlRow, rows, events, linked, counts, cfg, wlID, outcome>>

Complete(r) ==
  /\ pc[r] = "complete"
  /\ \E ok \in Executed(r) : CompleteExecution(r, AuditStatus(r, outcome[r] = "ok"), ok)
  /\ Goto(r, "exited")
  /\ Forget(r)
  /\ UNCHANGED <<clusterVars, ctx, wlRow, rows, events, linked, counts, cfg, wlID, outcome>>

-----------------------------------------------------------------------------
\* The environment of a run: SIGINT/SIGTERM, and the death of the process.
Alive(r) == pc[r] \notin {"new", "exited", "crashed"}

Signal(r) ==
  /\ r \in MayStop /\ Alive(r) /\ ctx[r] = "live"
  /\ ctx' = [ctx EXCEPT ![r] = "cancelled"]
  /\ UNCHANGED <<clusterVars, auditVars, runVars>>

Crash(r) ==
  /\ r \in MayDie /\ Alive(r)
  /\ Goto(r, "crashed")
  /\ Forget(r)
  /\ UNCHANGED <<clusterVars, ctx, auditVars, cfg, wlID, outcome>>

SerialStep(r) ==
  \/ Start(r) \/ PlanWorkload(r) \/ PlanDone(r) \/ EnsureNamespace(r)
  \/ \E w \in Workloads : CreateService(r, w) \/ RecordService(r, w) \/ MarkWorkload(r, w)
  \/ ServicesDone(r) \/ SecretsDone(r) \/ VMsDone(r) \/ WaitDone(r)
  \/ \E v \in VMName : Report(r, v)
  \/ ReportDone(r) \/ MarkDone(r) \/ Complete(r)

GoroutineStep(r, s) ==
  \/ Launch(r, s)
  \/ SendSecret(r, s) \/ SecretReply(r, s) \/ RecordSecret(r, s)
  \/ SendVM(r, s) \/ VMReply(r, s) \/ Backoff(r, s) \/ RecordVMCreated(r, s)
  \/ RecordVMEvent(r, s) \/ Poll(r, s)

RunStep(r) == SerialStep(r) \/ \E s \in Slot : GoroutineStep(r, s)

-----------------------------------------------------------------------------
\* Runs on their own: no cleanup interferes.
RunsInit == ClusterInit /\ AuditInit /\ RunInit
RunsNext ==
  \/ \E r \in Runs : RunStep(r) \/ Signal(r) \/ Crash(r)
  \/ ClusterNext /\ UNCHANGED <<ctx, auditVars, runVars>>
RunsSpec == RunsInit /\ [][RunsNext]_rvars

\* Once started, a run that is not killed keeps being scheduled.  Nothing is
\* assumed of users, signals, crashes or the cluster: a VM may never boot,
\* but the deadline of its poller passes.
RunsFairness == \A r \in Runs : WF_rvars(pc[r] # "new" /\ RunStep(r))
RunsFairSpec == RunsSpec /\ RunsFairness

\* Every variable has its type.
RunTypeOK ==
  /\ ClusterTypeOK /\ AuditTypeOK
  /\ cfg \in [Runs -> RunConfigs]
  /\ pc \in [Runs -> PC]
  /\ planned \in [Runs -> 0..MaxReq]
  /\ wlID \in [Runs -> [Workloads -> 0..MaxReq]]
  /\ todo \in [Runs -> SUBSET (Workloads \cup VMName)]
  /\ cur \in [Runs -> SUBSET Workloads]
  /\ job \in [Runs -> [Slot -> JobState]]
  /\ tries \in [Runs -> [Slot -> 0..MaxRetries]]
  /\ ready \in [Runs -> [VMName -> {"none", "ok", "err"}]]
  /\ outcome \in [Runs -> {"none", "ok", "error"}]

\* createSecrets is a barrier: whatever fails, is retried, is interrupted or
\* is applied behind a lost answer, and however two runs over the same names
\* interleave, no VM exists whose cloud-init Secret does not.
VMHasSecret ==
  \A v \in VMName : st[VMObj(v)] # "absent" => st[SecretObj(v)] # "absent"

\* A run that exits without error has every planned VM on the cluster, and
\* Running if it waited for readiness.
SuccessMeansDeployed ==
  \A r \in Runs : outcome[r] = "ok" /\ ~cfg[r].dry =>
    \A s \in Planned(r) :
      /\ st[VMObj(Name(r, s))] # "absent"
      /\ cfg[r].wait => st[VMObj(Name(r, s))] = "running"

\* A workload_details row says 'created' only of a workload all of whose VMs
\* are there (and Running, if the run waited), even when the run as a whole
\* failed its readiness check because of another workload.
CreatedRowIsTrue ==
  \A r \in Runs, k \in 1..MaxReq : wlRow[r][k] = "created" =>
    \A s \in Planned(r) : s[1] = k =>
      /\ st[VMObj(Name(r, s))] # "absent"
      /\ cfg[r].wait => st[VMObj(Name(r, s))] = "running"

\* The k-th requested workload is planned; and no later request repeats it.
Asked(r, k) == k <= Len(cfg[r].req) /\ cfg[r].req[k] \notin Disabled
AskedLast(r, k) ==
  Asked(r, k) /\ \A j \in (k + 1)..Len(cfg[r].req) : cfg[r].req[j] # cfg[r].req[k]

\* The execution row and the workload rows agree: under 'success' every row
\* planVMs inserted is 'created', except that of a name requested twice only
\* the last one is, and the earlier ones are still 'pending', which
\* docs/audit-schema.md ("created (after all VMs succeed)") does not foresee.
RowsAgree ==
  \A r \in Runs : log[r] = "success" /\ ~cfg[r].dry /\ ~DBMayFail =>
    \A k \in 1..MaxReq :
      wlRow[r][k] = IF AskedLast(r, k) THEN "created"
                    ELSE IF Asked(r, k) THEN "pending" ELSE "none"

\* When createVMs returns, every planned VM whose spec could be built has a
\* vm_created or a vm_failed event, also the ones that were never attempted
\* because another goroutine's error cancelled the group.
EveryVMHasVerdict ==
  \A r \in Runs \ NoAudit :
    pc[r] = "vms" /\ Joined(r) /\ ctx[r] = "live" /\ ~DBMayFail =>
      \A s \in Planned(r) : BuildVMSpec(WorkloadOf(r, s)) =>
        {<<"vm_created", Name(r, s)>>, <<"vm_failed", Name(r, s)>>} \cap events[r] # {}

\* When a run has ended undisturbed, each VM on the cluster that carries its
\* run-id is accounted for: by a vm_details row, or (a create that was
\* applied although it was reported as failed) by a vm_failed event.
EveryVMIsAccounted ==
  \A r \in Runs : pc[r] = "exited" /\ ctx[r] = "live" /\ ~DBMayFail =>
    \A v \in VMName : st[VMObj(v)] # "absent" /\ owner[VMObj(v)] = r =>
      rows[r][VMObj(v)] # {} \/ <<"vm_failed", v>> \in events[r]

\* Every started run comes to an end: the pools drain at their limits, the
\* retries are bounded and the pollers have a deadline.
RunTerminates ==
  \A r \in Runs : pc[r] # "new" ~> pc[r] \in {"exited", "crashed"}

\* An audit_log row does not stay 'in_progress' once its run was not
\* interrupted: every return path of runE completes it.
RunRowCompleted ==
  \A r \in Runs : log[r] = "in_progress" ~>
    log[r] # "in_progress" \/ pc[r] = "crashed" \/ ctx[r] = "cancelled" \/ DBMayFail

\* docs/audit-schema.md on audit_log.status: "in_progress initially, success
\* or failed on completion"; auditStatus computes "cancelled" for a signal.
\* A run that is not killed does not leave its row 'in_progress'.
InterruptedRowCompleted ==
  \A r \in Runs : log[r] = "in_progress" ~> log[r] # "in_progress"
=============================================================================
