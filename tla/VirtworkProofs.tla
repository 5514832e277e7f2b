--------------------------- MODULE VirtworkProofs ---------------------------
(***************************************************************************)
(* What holds of any number of "virtwork run" and "virtwork cleanup"       *)
(* processes that interleave freely over one namespace and one audit       *)
(* database: type correctness, that a cleanup nobody confirmed deletes     *)
(* nothing, and that cleanup --run-id leaves the run it was given only for *)
(* objects that another cleanup may have removed under it.                 *)
(***************************************************************************)
EXTENDS RunOrchestratorProofs, Virtwork

\* The loops over the kinds are in their bodies only for a kind there is.
KindReached == \A c \in Cleanups : cpc[c] \in {"delete", "mark"} => kind[c] <= 5

\* Type correctness made inductive.
WholeInv == TypeInv /\ CleanTypeOK /\ KindReached

\* CleanupAll goes through five kinds.
LEMMA FiveKinds == Len(Kinds) = 5
  BY DEF Kinds

-----------------------------------------------------------------------------
\* A run leaves the memory, the context and the audit_log row of every
\* cleanup alone, and everything cleanups write about themselves.
LEMMA CleanupsFrame ==
  ASSUME TypeInv, NEW r \in Runs, RunStep(r) \/ Signal(r) \/ Crash(r)
  PROVE  /\ UNCHANGED <<linked, counts>>
         /\ \A c \in Cleanups : ctx'[c] = ctx[c] /\ log'[c] = log[c]
<1>0. AuditTypeOK /\ r \in Procs /\ \A c \in Cleanups : c \in Procs /\ c # r
  BY AuditAssumption DEF TypeInv, RunTypeOK, Procs
<1>1. UNCHANGED <<linked, counts>>
  BY DEF RunStep, SerialStep, GoroutineStep, Signal, Crash, Start, PlanWorkload,
     PlanDone, EnsureNamespace, RecordService, MarkWorkload, ServicesDone, SecretsDone, VMsDone,
     WaitDone, Report, ReportDone, MarkDone, Complete, Launch, SendSecret, RecordSecret, SendVM,
     Backoff, RecordVMCreated, RecordVMEvent, Poll, CreateService, SecretReply, VMReply, auditVars
<1>2. CASE Signal(r)
  BY <1>0, <1>1, <1>2 DEF Signal, AuditTypeOK, auditVars
<1>3. CASE Start(r)
  BY <1>0, <1>1, <1>3 DEF Start, StartExecution, AuditTypeOK
<1>4. CASE Complete(r)
  BY <1>0, <1>1, <1>4 DEF Complete, CompleteExecution, AuditTypeOK
<1>5. CASE ~Signal(r) /\ ~Start(r) /\ ~Complete(r)
  <2>1. UNCHANGED <<ctx, log>>
    BY <1>5 DEF RunStep, SerialStep, GoroutineStep, Crash, PlanWorkload,
     PlanDone, EnsureNamespace, RecordService, MarkWorkload, ServicesDone, SecretsDone, VMsDone,
     WaitDone, Report, ReportDone, MarkDone, Launch, SendSecret, RecordSecret, SendVM,
     Backoff, RecordVMCreated, RecordVMEvent, Poll, CreateService, SecretReply, VMReply, auditVars
  <2> QED
    BY <1>1, <2>1
<1> QED
  BY <1>2, <1>3, <1>4, <1>5

\* A step of cleanup c leaves the memory of the others alone.
LEMMA OtherCleanups ==
  ASSUME TypeInv, CleanTypeOK, NEW c \in Cleanups, NEW d \in Cleanups \ {c},
         CleanupStep(c) \/ CleanupSignal(c) \/ CleanupCrash(c)
  PROVE  /\ cpc'[d] = cpc[d] /\ kind'[d] = kind[d] /\ found'[d] = found[d] /\ items'[d] = items[d]
         /\ runIDs'[d] = runIDs[d] /\ deleted'[d] = deleted[d] /\ errors'[d] = errors[d]
         /\ cout'[d] = cout[d] /\ hits'[d] = hits[d] /\ ctx'[d] = ctx[d] /\ log'[d] = log[d]
         /\ linked'[d] = linked[d] /\ counts'[d] = counts[d]
<1> USE DEF CleanTypeOK, To, End
<1>0. AuditTypeOK /\ c \in Procs /\ d \in Procs
  BY DEF TypeInv, RunTypeOK, Procs
<1>1. CASE CleanupSignal(c) \/ CleanupCrash(c)
  BY <1>0, <1>1 DEF CleanupSignal, CleanupCrash, AuditTypeOK, auditVars, cleanVars
<1>2. CASE CleanupStart(c) \/ CleanupComplete(c)
  BY <1>0, <1>2 DEF CleanupStart, CleanupComplete, StartExecution, CompleteExecution, AuditTypeOK
<1>3. CASE Preview(c) \/ Decide(c) \/ Prompt(c) \/ ExecuteStart(c)
  BY <1>3 DEF Preview, Decide, Prompt, ExecuteStart, auditVars
<1>4. CASE List(c) \/ NextKind(c) \/ DeleteNamespace(c)
  BY <1>4 DEF List, NextKind, DeleteNamespace, auditVars
<1>5. CASE \E it \in Obj \X Label : DeleteItem(c, it)
  BY <1>5 DEF DeleteItem, auditVars
<1>6. CASE Link(c) \/ MarkDeletions(c) \/ Counts(c)
  BY <1>0, <1>6 DEF Link, MarkDeletions, Counts, LinkCleanupToRuns, RecordCleanupCounts, AuditTypeOK
<1> QED
  BY <1>1, <1>2, <1>3, <1>4, <1>5, <1>6 DEF CleanupStep

\* The initial state.
LEMMA InitWholeInv == Init => WholeInv
<1> SUFFICES ASSUME Init PROVE WholeInv
  OBVIOUS
<1>1. TypeInv
  BY InitTypeInv DEF Init
<1>2. CleanTypeOK /\ KindReached
  BY FiveKinds DEF Init, CleanInit, CleanTypeOK, KindReached, CPC, COutcome
<1> QED
  BY <1>1, <1>2 DEF WholeInv

-----------------------------------------------------------------------------
\* The statements a cleanup executes keep the types of the tables.
LEMMA CleanupStatements ==
  ASSUME AuditTypeOK, NEW c \in Cleanups
  PROVE  /\ \A ok : StartExecution(c, ok) => log' \in [Procs -> LogStatus]
         /\ \A x \in LogStatus : \A ok : CompleteExecution(c, x, ok) => log' \in [Procs -> LogStatus]
         /\ \A t \in EventType, x \in Subject : \A ok : RecordEvent(c, t, x, ok) =>
              events' \in [Procs -> SUBSET (EventType \X Subject)]
         /\ \A os, ids, ok : MarkDeletedByName(c, os, ids, ok) =>
              rows' \in [Runs -> [Obj -> SUBSET {"created", "deleted"}]]
         /\ \A ids \in SUBSET Runs : \A ok : LinkCleanupToRuns(c, ids, ok) =>
              linked' \in [Cleanups -> SUBSET Runs]
         /\ \A os \in SUBSET Obj : \A ok : RecordCleanupCounts(c, os, ok) =>
              counts' \in [Cleanups -> SUBSET Obj]
<1> USE DEF AuditTypeOK
<1>0. c \in Procs
  BY DEF Procs
<1>1. /\ \A ok : StartExecution(c, ok) => log' \in [Procs -> LogStatus]
      /\ \A x \in LogStatus : \A ok : CompleteExecution(c, x, ok) => log' \in [Procs -> LogStatus]
  BY <1>0 DEF StartExecution, CompleteExecution, LogStatus
<1>2. \A t \in EventType, x \in Subject : \A ok : RecordEvent(c, t, x, ok) =>
        events' \in [Procs -> SUBSET (EventType \X Subject)]
  BY <1>0 DEF RecordEvent
<1>3. \A os, ids, ok : MarkDeletedByName(c, os, ids, ok) =>
        rows' \in [Runs -> [Obj -> SUBSET {"created", "deleted"}]]
  BY DEF MarkDeletedByName
<1>4. /\ \A ids \in SUBSET Runs : \A ok : LinkCleanupToRuns(c, ids, ok) =>
           linked' \in [Cleanups -> SUBSET Runs]
      /\ \A os \in SUBSET Obj : \A ok : RecordCleanupCounts(c, os, ok) =>
           counts' \in [Cleanups -> SUBSET Obj]
  BY DEF LinkCleanupToRuns, RecordCleanupCounts
<1> QED
  BY <1>1, <1>2, <1>3, <1>4

\* A step of a cleanup keeps the types of the cluster and of the database.
LEMMA CleanupSharedTypes ==
  ASSUME RunTypeOK, CleanTypeOK, NEW c \in Cleanups,
         CleanupStep(c) \/ CleanupSignal(c) \/ CleanupCrash(c)
  PROVE  ClusterTypeOK' /\ AuditTypeOK'
<1>0. ClusterTypeOK /\ AuditTypeOK /\ c \in Procs /\ c \in Subject
  BY DEF RunTypeOK, Procs, Subject
<1>1. CASE UNCHANGED <<clusterVars, ctx, auditVars>>
  BY <1>0, <1>1 DEF ClusterTypeOK, AuditTypeOK, clusterVars, auditVars
<1>2. CASE CleanupSignal(c)
  BY <1>0, <1>2 DEF CleanupSignal, ClusterTypeOK, AuditTypeOK, clusterVars, auditVars
<1>3. CASE CleanupStart(c)
  <2>1. log' \in [Procs -> LogStatus]
    BY <1>0, <1>3, CleanupStatements DEF CleanupStart, AuditTypeOK
  <2> QED
    BY <1>0, <1>3, <2>1 DEF CleanupStart, ClusterTypeOK, AuditTypeOK, clusterVars
<1>4. CASE CleanupComplete(c)
  <2>1. CleanupStatus(c) \in LogStatus
    BY DEF CleanupStatus, LogStatus
  <2>2. log' \in [Procs -> LogStatus]
    BY <1>0, <1>4, <2>1, CleanupStatements DEF CleanupComplete
  <2> QED
    BY <1>0, <1>4, <2>2 DEF CleanupComplete, ClusterTypeOK, AuditTypeOK, clusterVars
<1>5. CASE ExecuteStart(c)
  <2>1. events' \in [Procs -> SUBSET (EventType \X Subject)]
    BY <1>0, <1>5, CleanupStatements DEF ExecuteStart, EventType
  <2> QED
    BY <1>0, <1>5, <2>1 DEF ExecuteStart, ClusterTypeOK, AuditTypeOK, clusterVars
<1>6. CASE \E it \in Obj \X Label : DeleteItem(c, it)
  <2>1. PICK it \in Obj \X Label : DeleteItem(c, it)
    BY <1>6
  <2>2. st' \in [Obj -> ObjState]
    BY <1>0, <2>1 DEF DeleteItem, Delete, Remove, ClusterTypeOK, ObjState
  <2> QED
    BY <1>0, <2>1, <2>2 DEF DeleteItem, ClusterTypeOK, AuditTypeOK, auditVars
<1>7. CASE DeleteNamespace(c)
  BY <1>0, <1>7 DEF DeleteNamespace, ClusterTypeOK, AuditTypeOK, auditVars
<1>8. CASE Link(c)
  <2>1. linked' \in [Cleanups -> SUBSET Runs]
    BY <1>0, <1>8, CleanupStatements DEF Link, AuditTypeOK, CleanTypeOK
  <2> QED
    BY <1>0, <1>8, <2>1 DEF Link, ClusterTypeOK, AuditTypeOK, clusterVars
<1>9. CASE MarkDeletions(c)
  <2>1. rows' \in [Runs -> [Obj -> SUBSET {"created", "deleted"}]]
    BY <1>0, <1>9, CleanupStatements DEF MarkDeletions, AuditTypeOK
  <2> QED
    BY <1>0, <1>9, <2>1 DEF MarkDeletions, ClusterTypeOK, AuditTypeOK, clusterVars
<1>10. CASE Counts(c)
  <2>1. counts' \in [Cleanups -> SUBSET Obj] /\ events' \in [Procs -> SUBSET (EventType \X Subject)]
    BY <1>0, <1>10, CleanupStatements DEF Counts, CleanTypeOK, EventType
  <2> QED
    BY <1>0, <1>10, <2>1 DEF Counts, ClusterTypeOK, AuditTypeOK, clusterVars
<1>11. CASE Preview(c) \/ Decide(c) \/ Prompt(c) \/ List(c) \/ NextKind(c) \/ CleanupCrash(c)
  BY <1>1, <1>11 DEF Preview, Decide, Prompt, List, NextKind, CleanupCrash
<1> QED
  BY <1>2, <1>3, <1>4, <1>5, <1>6, <1>7, <1>8, <1>9, <1>10, <1>11 DEF CleanupStep

\* A step of a cleanup keeps the types of its own variables.
LEMMA CleanupOwnTypes ==
  ASSUME RunTypeOK, CleanTypeOK, KindReached, NEW c \in Cleanups,
         CleanupStep(c) \/ CleanupSignal(c) \/ CleanupCrash(c)
  PROVE  CleanTypeOK' /\ KindReached'
<1> USE FiveKinds DEF CleanTypeOK, KindReached, To, End, CPC, COutcome
<1>1. CASE CleanupSignal(c) \/ CleanupStart(c) \/ CleanupComplete(c)
  BY <1>1 DEF CleanupSignal, CleanupStart, CleanupComplete, cleanVars
<1>2. CASE CleanupCrash(c)
  BY <1>2 DEF CleanupCrash
<1>3. CASE Preview(c)
  <2>1. Selected(c, kind[c]) \subseteq Obj
    BY DEF Selected, Listed
  <2> QED
    BY <1>3, <2>1 DEF Preview
<1>4. CASE Decide(c) \/ Prompt(c) \/ ExecuteStart(c)
  BY <1>4 DEF Decide, Prompt, ExecuteStart
<1>5. CASE List(c)
  <2>1. {<<o, owner[o]>> : o \in Selected(c, kind[c])} \subseteq Obj \X Label
    BY DEF Selected, Listed, RunTypeOK, ClusterTypeOK
  <2> QED
    BY <1>5, <2>1 DEF List
<1>6. CASE NextKind(c)
  BY <1>6 DEF NextKind
<1>9. CASE DeleteNamespace(c)
  <2>1. errors' \in [Cleanups -> BOOLEAN]
    BY <1>9 DEF DeleteNamespace
  <2> QED
    BY <1>9, <2>1 DEF DeleteNamespace
<1>7. CASE \E it \in Obj \X Label : DeleteItem(c, it)
  <2>1. PICK it \in Obj \X Label : DeleteItem(c, it)
    BY <1>7
  <2>2. it[1] \in Obj /\ owner[it[1]] \in Label /\ collectRunID(it) \subseteq Runs
    BY DEF RunTypeOK, ClusterTypeOK, collectRunID, Label
  <2>3. items' \in [Cleanups -> SUBSET (Obj \X Label)] /\ runIDs' \in [Cleanups -> SUBSET Runs]
    BY <2>1, <2>2 DEF DeleteItem
  <2>4. deleted' \in [Cleanups -> SUBSET Obj] /\ hits' \in [Cleanups -> SUBSET (Obj \X Label)]
    BY <2>1, <2>2 DEF DeleteItem
  <2>5. errors' \in [Cleanups -> BOOLEAN]
    BY <2>1 DEF DeleteItem
  <2> QED
    BY <2>1, <2>3, <2>4, <2>5 DEF DeleteItem
<1>8. CASE Link(c) \/ MarkDeletions(c) \/ Counts(c)
  BY <1>8 DEF Link, MarkDeletions, Counts
<1> QED
  BY <1>1, <1>2, <1>3, <1>4, <1>5, <1>6, <1>7, <1>8, <1>9 DEF CleanupStep

\* Every step of every process and of the cluster keeps the types.
LEMMA NextWholeInv == WholeInv /\ [Next]_vars => WholeInv'
<1> SUFFICES ASSUME WholeInv, [Next]_vars PROVE WholeInv'
  OBVIOUS
<1>0. TypeInv /\ RunTypeOK /\ CleanTypeOK /\ KindReached
  BY DEF WholeInv, TypeInv
<1>1. CASE [RunsNext]_rvars /\ UNCHANGED cleanVars
  <2>1. TypeInv'
    BY <1>0, <1>1, NextTypeInv
  <2> QED
    BY <1>0, <1>1, <2>1 DEF WholeInv, cleanVars, CleanTypeOK, KindReached
<1>2. ASSUME NEW c \in Cleanups, CleanupProcess(c) PROVE WholeInv'
  <2>1. CleanTypeOK' /\ KindReached' /\ ClusterTypeOK' /\ AuditTypeOK'
    BY <1>0, <1>2, CleanupOwnTypes, CleanupSharedTypes DEF CleanupProcess
  <2>2. UNCHANGED <<cfg, pc, planned, wlID, todo, cur, job, tries, ready, outcome>>
    BY <1>2 DEF CleanupProcess, runVars
  <2>3. RunTypeOK'
    BY <1>0, <2>1, <2>2 DEF RunTypeOK
  <2>4. JobsPlanned' /\ RetriesLeft'
    BY <1>0, <2>2, JobsFrame
  <2> QED
    BY <2>1, <2>3, <2>4 DEF WholeInv, TypeInv
<1>3. CASE UNCHANGED vars \/ ClusterStep \/ \E r \in Runs : RunProcess(r)
  BY <1>1, <1>3 DEF vars, ClusterStep, RunProcess, RunsNext, rvars
<1> QED
  BY <1>2, <1>3 DEF Next

\* Type correctness of the whole tool: however many runs and cleanups
\* interleave, are signalled or killed, every variable has its type.  In
\* particular the loops over the kinds stay within Kinds.
THEOREM TypeCorrect == Spec => []TypeOK
<1>1. WholeInv => TypeOK
  BY DEF WholeInv, TypeInv, TypeOK
<1> QED
  BY <1>1, InitWholeInv, NextWholeInv, PTL DEF Spec

-----------------------------------------------------------------------------
Executing == {"start", "list", "delete", "delns", "link", "mark", "counts"}

\* A cleanup gets as far as CleanupAll only with something to delete and with
\* leave to delete it, and it has deleted nothing before.
Consent(c) ==
  /\ cpc[c] \in {"new", "preview", "prompt", "start"} => hits[c] = {} /\ cout[c] = "none"
  /\ cpc[c] \in Executing \cup {"prompt"} =>
       found[c] # {} /\ ~opt[c].dry /\ cout[c] = "none"
  /\ cpc[c] \in {"complete", "exited"} /\ found[c] = {} => hits[c] = {}
  /\ opt[c].dry \/ cout[c] = "aborted" => hits[c] = {}
  /\ log[c] = "aborted" => cout[c] = "aborted"

\* The inductive invariant.
ConsentInv == WholeInv /\ \A c \in Cleanups : Consent(c)

\* The initial state.
LEMMA InitConsentInv == Init => ConsentInv
<1> SUFFICES ASSUME Init PROVE ConsentInv
  OBVIOUS
<1>1. ASSUME NEW c \in Cleanups PROVE Consent(c)
  BY DEF Init, CleanInit, RunsInit, AuditInit, Consent, Executing, Procs
<1> QED
  BY <1>1, InitWholeInv DEF ConsentInv

\* A cleanup's own step: hits grows in the loop over the items only.
LEMMA ConsentStep ==
  ASSUME WholeInv, NEW c \in Cleanups, Consent(c),
         CleanupStep(c) \/ CleanupSignal(c) \/ CleanupCrash(c)
  PROVE  Consent(c)'
<1>0. CleanTypeOK /\ AuditTypeOK /\ c \in Procs
  BY DEF WholeInv, TypeInv, RunTypeOK, Procs
<1> USE <1>0 DEF Consent, Executing, CleanTypeOK, To, End
<1>1. CASE CleanupSignal(c)
  BY <1>1 DEF CleanupSignal, cleanVars, auditVars
<1>2. CASE CleanupCrash(c)
  BY <1>2 DEF CleanupCrash, auditVars
<1>3. CASE CleanupStart(c)
  <2>1. log'[c] \in {log[c], "in_progress"}
    BY <1>3 DEF CleanupStart, StartExecution, AuditTypeOK
  <2>2. log'[c] # "aborted"
    BY <1>3, <2>1 DEF CleanupStart
  <2> QED
    BY <1>3, <2>2 DEF CleanupStart
<1>4. CASE Preview(c) \/ Decide(c) \/ Prompt(c)
  BY <1>4 DEF Preview, Decide, Prompt, auditVars
<1>5. CASE ExecuteStart(c) \/ List(c) \/ NextKind(c) \/ DeleteNamespace(c)
  BY <1>5 DEF ExecuteStart, List, NextKind, DeleteNamespace, auditVars
<1>6. CASE \E it \in Obj \X Label : DeleteItem(c, it)
  BY <1>6 DEF DeleteItem, auditVars
<1>7. CASE Link(c) \/ MarkDeletions(c) \/ Counts(c)
  BY <1>7 DEF Link, MarkDeletions, Counts
<1>8. CASE CleanupComplete(c)
  <2>1. log'[c] = "aborted" => cout[c] = "aborted"
    <3>1. CleanupStatus(c) = "aborted" => cout[c] = "aborted"
      BY DEF CleanupStatus
    <3> QED
      BY <1>8, <3>1 DEF CleanupComplete, CompleteExecution, AuditTypeOK
  <2> QED
    BY <1>8, <2>1 DEF CleanupComplete
<1> QED
  BY <1>1, <1>2, <1>3, <1>4, <1>5, <1>6, <1>7, <1>8 DEF CleanupStep

\* Every step keeps the invariant.
LEMMA NextConsentInv == ConsentInv /\ [Next]_vars => ConsentInv'
<1> SUFFICES ASSUME ConsentInv, [Next]_vars PROVE ConsentInv'
  OBVIOUS
<1>0. WholeInv /\ TypeInv /\ CleanTypeOK /\ \A c \in Cleanups : Consent(c)
  BY DEF ConsentInv, WholeInv
<1>1. WholeInv'
  BY <1>0, NextWholeInv
<1>2. ASSUME NEW d \in Cleanups PROVE Consent(d)'
  <2>1. CASE UNCHANGED cleanVars /\ log'[d] = log[d]
    BY <1>0, <2>1 DEF cleanVars, Consent
  <2>2. ASSUME NEW r \in Runs, RunProcess(r) PROVE Consent(d)'
    BY <1>0, <2>1, <2>2, CleanupsFrame DEF RunProcess
  <2>3. CASE ClusterStep \/ UNCHANGED vars
    BY <2>1, <2>3 DEF ClusterStep, vars, auditVars
  <2>4. ASSUME NEW c \in Cleanups, CleanupProcess(c) PROVE Consent(d)'
    <3>1. CASE c = d
      BY <1>0, <2>4, <3>1, ConsentStep DEF CleanupProcess
    <3>2. CASE c # d
      <4>1. UNCHANGED opt
        BY <2>4 DEF CleanupProcess, CleanupStep, CleanupSignal, CleanupCrash, CleanupStart, Preview,
           Decide, Prompt, ExecuteStart, List, NextKind, DeleteNamespace, DeleteItem, Link,
           MarkDeletions, Counts, CleanupComplete, cleanVars
      <4>2. /\ cpc'[d] = cpc[d] /\ found'[d] = found[d] /\ cout'[d] = cout[d]
            /\ hits'[d] = hits[d] /\ log'[d] = log[d]
        BY <1>0, <2>4, <3>2, OtherCleanups DEF CleanupProcess
      <4> QED
        BY <1>0, <4>1, <4>2 DEF Consent
    <3> QED
      BY <3>1, <3>2
  <2> QED
    BY <2>2, <2>3, <2>4 DEF Next
<1> QED
  BY <1>1, <1>2 DEF ConsentInv

\* A dry run, a declined prompt and an empty preview delete nothing, whatever
\* other processes put on the cluster after the preview.
THEOREM UnconfirmedIsHarmless == Spec => []UnconfirmedDeletesNothing
<1>1. ConsentInv => UnconfirmedDeletesNothing
  BY DEF ConsentInv, Consent, UnconfirmedDeletesNothing
<1> QED
  BY <1>1, InitConsentInv, NextConsentInv, PTL DEF Spec
-----------------------------------------------------------------------------
\* What a run does to the objects: it creates what is absent, under its own
\* label, and changes no other.
LEMMA RunObjects ==
  ASSUME TypeInv, NEW r \in Runs, RunStep(r) \/ Signal(r) \/ Crash(r), NEW o \in Obj
  PROVE  \/ st'[o] = st[o] /\ owner'[o] = owner[o]
         \/ st[o] = "absent" /\ st'[o] = "created" /\ owner'[o] = RunLabel(r)
<1>0. ClusterTypeOK
  BY DEF TypeInv, RunTypeOK
<1>1. \/ UNCHANGED <<st, owner>>
      \/ \E w \in Workloads : CreateService(r, w)
      \/ \E s \in Slot : SecretReply(r, s) \/ VMReply(r, s)
  BY DEF RunStep, SerialStep, GoroutineStep, Signal, Crash, Start, PlanWorkload,
     PlanDone, EnsureNamespace, RecordService, MarkWorkload, ServicesDone, SecretsDone, VMsDone,
     WaitDone, Report, ReportDone, MarkDone, Complete, Launch, SendSecret, RecordSecret, SendVM,
     Backoff, RecordVMCreated, RecordVMEvent, Poll, clusterVars
<1>2. \/ UNCHANGED <<st, owner>>
      \/ \E x, cut, res : Create(x, RunLabel(r), cut, res)
  BY <1>1 DEF CreateService, SecretReply, VMReply
<1> QED
  BY <1>0, <1>2 DEF Create, Put, ClusterTypeOK

\* What a Delete request does.
LEMMA DeleteFacts ==
  ASSUME WholeInv, NEW c \in Cleanups, NEW it \in Obj \X Label, DeleteItem(c, it)
  PROVE  /\ cpc[c] = "delete" /\ it \in items[c] /\ it[1] \in Obj
         /\ UNCHANGED <<owner, ctx, auditVars, opt, cpc, kind, found, cout>>
         /\ items'[c] = items[c] \ {it}
         /\ runIDs'[c] = runIDs[c] \cup collectRunID(it)
         /\ \A o \in Obj : (Live(o)' => Live(o)) /\ (o # it[1] => st'[o] = st[o])
         /\ errors[c] => errors'[c]
         /\ \/ /\ hits'[c] = hits[c] \cup {<<it[1], owner[it[1]]>>}
               /\ deleted'[c] = deleted[c] \cup {it[1]} /\ ~Live(it[1])'
            \/ /\ hits'[c] = hits[c] \cup {<<it[1], owner[it[1]]>>}
               /\ deleted'[c] = deleted[c] /\ errors'[c]
            \/ /\ hits'[c] = hits[c]
               /\ deleted'[c] = deleted[c] /\ (errors'[c] \/ ~Live(it[1])')
<1>0. CleanTypeOK /\ ClusterTypeOK /\ it[1] \in Obj
  BY DEF WholeInv, TypeInv, RunTypeOK
<1>1. PICK res \in DeleteResult :
        /\ Delete(it[1], ctx[c] = "cancelled", res)
        /\ deleted' = IF Confirmed(res) THEN [deleted EXCEPT ![c] = @ \cup {it[1]}] ELSE deleted
        /\ errors' = [errors EXCEPT ![c] = @ \/ res = "error"]
        /\ hits' = IF res = "ok" \/ st' # st
                   THEN [hits EXCEPT ![c] = @ \cup {<<it[1], owner[it[1]]>>}] ELSE hits
  BY DEF DeleteItem
<1>2. /\ cpc[c] = "delete" /\ it \in items[c]
      /\ UNCHANGED <<owner, ctx, auditVars, opt, cpc, kind, found, cout>>
      /\ items'[c] = items[c] \ {it}
      /\ runIDs'[c] = runIDs[c] \cup collectRunID(it)
  BY <1>0 DEF DeleteItem, CleanTypeOK
<1>3. \A o \in Obj : (Live(o)' => Live(o)) /\ (o # it[1] => st'[o] = st[o])
  BY <1>0, <1>1 DEF Delete, Remove, Live, ClusterTypeOK
<1>4. res = "ok" => ~Live(it[1])'
  BY <1>0, <1>1 DEF Delete, Remove, Live, ClusterTypeOK
<1>5. res = "notfound" => ~Live(it[1])' /\ st' = st
  BY <1>0, <1>1 DEF Delete, Live
<1>6. errors'[c] = (errors[c] \/ res = "error")
  BY <1>0, <1>1 DEF CleanTypeOK
<1>7. /\ deleted'[c] = IF res = "ok" THEN deleted[c] \cup {it[1]} ELSE deleted[c]
      /\ hits'[c] = IF res = "ok" \/ st' # st THEN hits[c] \cup {<<it[1], owner[it[1]]>>} ELSE hits[c]
  BY <1>0, <1>1 DEF CleanTypeOK, Confirmed
<1> QED
  BY <1>0, <1>1, <1>2, <1>3, <1>4, <1>5, <1>6, <1>7 DEF DeleteResult

\* Only a cleanup ends a namespace.
LEMMA RunNamespace ==
  ASSUME NEW r \in Runs, RunStep(r) \/ Signal(r) \/ Crash(r), ns # "terminating"
  PROVE  ns' # "terminating"
<1>1. UNCHANGED ns \/ EnsureNamespace(r)
  BY DEF RunStep, SerialStep, GoroutineStep, Signal, Crash, Start, PlanWorkload,
     PlanDone, RecordService, MarkWorkload, ServicesDone, SecretsDone, VMsDone,
     WaitDone, Report, ReportDone, MarkDone, Complete, Launch, SendSecret, RecordSecret, SendVM,
     Backoff, RecordVMCreated, RecordVMEvent, Poll, CreateService, SecretReply, VMReply, clusterVars
<1> QED
  BY <1>1 DEF EnsureNamespace

\* Another cleanup may have taken o away from c.
Rival(c, o) == \E d \in Cleanups \ {c} : MayHaveRemoved(d, o)

\* Only cleanups put anything into Terminating.
Explained ==
  /\ ns = "terminating" => \E d \in Cleanups : RemovesNamespace(d)
  /\ \A o \in Obj : st[o] = "terminating" => \E d \in Cleanups, l \in Label : <<o, l>> \in hits[d]

\* What c has hit lies behind the point its loops have reached, so it is not c
\* itself that took a listed object away.
Behind(c) ==
  /\ cpc[c] = "list" => \A h \in hits[c], j \in kind[c]..5 : h[1][1] # Kinds[j]
  /\ cpc[c] = "delete" => \A h \in hits[c] :
       /\ \A j \in (kind[c] + 1)..5 : h[1][1] # Kinds[j]
       /\ \A it \in items[c] : h[1] # it[1]
  /\ cpc[c] = "delns" => opt[c].deleteNS

\* A listed object is still the one that was listed, or has a rival.
Listing(c) ==
  cpc[c] = "delete" => \A it \in items[c] :
    /\ it[1][1] = Kinds[kind[c]] /\ opt[c].target \in {NoRun, it[2]}
    /\ \A other \in items[c] : other[1] = it[1] => other = it
    /\ (Live(it[1]) /\ owner[it[1]] = it[2]) \/ Rival(c, it[1])

ScopeOf(c) ==
  opt[c].target # NoRun => \A h \in hits[c] : h[2] = opt[c].target \/ Rival(c, h[1])

\* The inductive invariant.
RivalInv == ConsentInv /\ Explained /\ \A c \in Cleanups : Behind(c) /\ Listing(c) /\ ScopeOf(c)

\* What has been removed stays removed.
StaysRemoved(d) == hits[d] \subseteq hits'[d] /\ (RemovesNamespace(d) => RemovesNamespace(d)')

LEMMA RemovedStays ==
  ASSUME ConsentInv, [Next]_vars, NEW d \in Cleanups
  PROVE  StaysRemoved(d)
<1>0. WholeInv /\ TypeInv /\ CleanTypeOK /\ Consent(d)
  BY DEF ConsentInv, WholeInv
<1>1. CASE UNCHANGED cleanVars
  BY <1>1 DEF cleanVars, StaysRemoved, RemovesNamespace
<1>2. ASSUME NEW c \in Cleanups \ {d}, CleanupProcess(c) PROVE StaysRemoved(d)
  <2>1. UNCHANGED opt
    BY <1>2 DEF CleanupProcess, CleanupStep, CleanupSignal, CleanupCrash, CleanupStart, Preview,
       Decide, Prompt, ExecuteStart, List, NextKind, DeleteNamespace, DeleteItem, Link,
       MarkDeletions, Counts, CleanupComplete, cleanVars
  <2>2. cpc'[d] = cpc[d] /\ found'[d] = found[d] /\ cout'[d] = cout[d] /\ hits'[d] = hits[d]
    BY <1>0, <1>2, OtherCleanups DEF CleanupProcess
  <2> QED
    BY <2>1, <2>2 DEF StaysRemoved, RemovesNamespace
<1>3. ASSUME CleanupProcess(d) PROVE StaysRemoved(d)
  <2> USE <1>0 DEF CleanTypeOK, To, End, Consent, Executing
  <2>1. ASSUME NEW it \in Obj \X Label, DeleteItem(d, it) PROVE StaysRemoved(d)
    <3>1. hits[d] \subseteq hits'[d] /\ UNCHANGED <<opt, cpc, cout, found>>
      BY <2>1, DeleteFacts
    <3> QED
      BY <3>1 DEF StaysRemoved, RemovesNamespace
  <2>2. CASE ~\E it \in Obj \X Label : DeleteItem(d, it)
    <3>1. UNCHANGED <<opt, hits>>
      BY <1>3, <2>2 DEF CleanupProcess, CleanupStep, CleanupSignal, CleanupCrash, CleanupStart,
         Preview, Decide, Prompt, ExecuteStart, List, NextKind, DeleteNamespace, Link,
         MarkDeletions, Counts, CleanupComplete, cleanVars
    <3>2. RemovesNamespace(d) => RemovesNamespace(d)'
      <4>1. CASE CleanupSignal(d) \/ CleanupCrash(d)
        BY <3>1, <4>1 DEF CleanupSignal, CleanupCrash, RemovesNamespace, cleanVars
      <4>2. CASE Link(d) \/ MarkDeletions(d) \/ Counts(d) \/ CleanupComplete(d)
        BY <3>1, <4>2 DEF Link, MarkDeletions, Counts, CleanupComplete, RemovesNamespace
      <4>3. CASE \/ CleanupStart(d) \/ Preview(d) \/ Decide(d) \/ Prompt(d) \/ ExecuteStart(d)
                 \/ List(d) \/ NextKind(d) \/ DeleteNamespace(d)
        <5>1. ~RemovesNamespace(d)
          BY <4>3 DEF CleanupStart, Preview, Decide, Prompt, ExecuteStart, List, NextKind,
             DeleteNamespace, RemovesNamespace
        <5> QED
          BY <5>1
      <4> QED
        BY <1>3, <2>2, <4>1, <4>2, <4>3 DEF CleanupProcess, CleanupStep
    <3> QED
      BY <3>1, <3>2 DEF StaysRemoved
  <2> QED
    BY <2>1, <2>2
<1> QED
  BY <1>1, <1>2, <1>3 DEF Next, RunProcess, ClusterStep, vars

\* The same of rivals.
LEMMA RivalStays ==
  ASSUME ConsentInv, [Next]_vars, NEW c \in Cleanups, NEW o, Rival(c, o)
  PROVE  Rival(c, o)'
<1>1. PICK d \in Cleanups \ {c} : MayHaveRemoved(d, o)
  BY DEF Rival
<1>2. MayHaveRemoved(d, o)'
  BY <1>1, RemovedStays DEF StaysRemoved, MayHaveRemoved
<1> QED
  BY <1>2 DEF Rival

\* The five kinds are different.
LEMMA KindsDiffer == \A i, j \in 1..5 : Kinds[i] = Kinds[j] => i = j
  BY DEF Kinds

\* A step of somebody else keeps what is known of c, provided a listed object
\* that is changed under it gets a rival.
LEMMA RivalFrame ==
  ASSUME ConsentInv, [Next]_vars, NEW c \in Cleanups, Behind(c), Listing(c), ScopeOf(c),
         opt' = opt, cpc'[c] = cpc[c], kind'[c] = kind[c], items'[c] = items[c], hits'[c] = hits[c],
         cpc[c] = "delete" => \A o \in Obj : Live(o) =>
           (Live(o)' /\ owner'[o] = owner[o]) \/ Rival(c, o)'
  PROVE  Behind(c)' /\ Listing(c)' /\ ScopeOf(c)'
<1>1. items[c] \subseteq Obj \X Label
  BY DEF ConsentInv, WholeInv, CleanTypeOK
<1>2. Behind(c)'
  BY DEF Behind
<1>3. ScopeOf(c)'
  BY RivalStays DEF ScopeOf
<1>4. ASSUME cpc[c] = "delete", NEW it \in items[c]
      PROVE  (Live(it[1])' /\ owner'[it[1]] = it[2]) \/ Rival(c, it[1])'
  <2>1. it[1] \in Obj
    BY <1>1
  <2>2. CASE Rival(c, it[1])
    BY <2>2, RivalStays
  <2>3. CASE Live(it[1]) /\ owner[it[1]] = it[2]
    BY <1>4, <2>1, <2>3
  <2> QED
    BY <1>4, <2>2, <2>3 DEF Listing
<1>5. Listing(c)'
  BY <1>4 DEF Listing
<1> QED
  BY <1>2, <1>3, <1>5

\* Its own steps.
LEMMA RivalOwn ==
  ASSUME ConsentInv, Explained, NEW c \in Cleanups, Behind(c), Listing(c), ScopeOf(c),
         CleanupProcess(c)
  PROVE  Behind(c)' /\ Listing(c)' /\ ScopeOf(c)'
<1>0. /\ WholeInv /\ TypeInv /\ CleanTypeOK /\ ClusterTypeOK /\ Consent(c) /\ [Next]_vars
      /\ items[c] \subseteq Obj \X Label
  BY DEF ConsentInv, WholeInv, TypeInv, RunTypeOK, Next, CleanTypeOK
<1>1. ASSUME NEW it \in Obj \X Label, DeleteItem(c, it)
      PROVE  Behind(c)' /\ Listing(c)' /\ ScopeOf(c)'
  <2>1. /\ cpc[c] = "delete" /\ cpc'[c] = "delete" /\ it \in items[c] /\ it[1] \in Obj
        /\ UNCHANGED <<owner, opt, kind>>
        /\ items'[c] = items[c] \ {it}
        /\ \A o \in Obj : o # it[1] => st'[o] = st[o]
    BY <1>0, <1>1, DeleteFacts
  <2>2. hits'[c] = hits[c] \/ hits'[c] = hits[c] \cup {<<it[1], owner[it[1]]>>}
    BY <1>0, <1>1, DeleteFacts
  <2>3. \A j \in items'[c] : j \in items[c] /\ j[1] # it[1] /\ j[1] \in Obj
    BY <1>0, <2>1 DEF Listing
  <2>4. it[1][1] = Kinds[kind[c]] /\ kind[c] \in 1..5
    BY <1>0, <2>1 DEF Listing, WholeInv, KindReached, CleanTypeOK
  <2>5. Behind(c)'
    <3>1. \A j \in (kind[c] + 1)..5 : it[1][1] # Kinds[j]
      BY <2>4, KindsDiffer
    <3> QED
      BY <2>1, <2>2, <2>3, <3>1 DEF Behind
  <2>6. Listing(c)'
    BY <1>0, <2>1, <2>3, RivalStays DEF Listing, Live
  <2>7. ScopeOf(c)'
    <3>1. opt[c].target # NoRun => owner[it[1]] = opt[c].target \/ Rival(c, it[1])
      BY <2>1 DEF Listing
    <3> QED
      BY <1>0, <2>1, <2>2, <3>1, RivalStays DEF ScopeOf
  <2> QED
    BY <2>5, <2>6, <2>7
<1>2. CASE List(c)
  <2>1. UNCHANGED <<opt, kind, hits, owner, st>> /\ cpc[c] = "list" /\ kind[c] \in 1..5
    BY <1>0, <1>2, FiveKinds DEF List, CleanTypeOK, clusterVars
  <2>2. ScopeOf(c)'
    BY <1>0, <2>1, RivalStays DEF ScopeOf
  <2>3. CASE cpc'[c] = "delete"
    <3>1. items'[c] = {<<o, owner[o]>> : o \in Selected(c, kind[c])}
      BY <1>0, <1>2, <2>3 DEF List, To, End, CleanTypeOK
    <3>2. ASSUME NEW o \in Selected(c, kind[c])
          PROVE  /\ o \in Obj /\ o[1] = Kinds[kind[c]] /\ opt[c].target \in {NoRun, owner[o]}
                 /\ \A h \in hits[c] : h[1] # o
                 /\ Live(o) \/ Rival(c, o)
      <4>1. o \in Obj /\ o[1] = Kinds[kind[c]] /\ st[o] # "absent" /\ opt[c].target \in {NoRun, owner[o]}
        BY DEF Selected, Listed
      <4>2. \A h \in hits[c] : h[1] # o
        BY <2>1, <4>1 DEF Behind
      <4>3. CASE st[o] = "terminating"
        <5>1. PICK d \in Cleanups, l \in Label : <<o, l>> \in hits[d]
          BY <4>1, <4>3 DEF Explained
        <5>2. d # c
          BY <4>2, <5>1
        <5> QED
          BY <4>1, <4>2, <5>1, <5>2 DEF Rival, MayHaveRemoved
      <4>4. CASE st[o] # "terminating"
        BY <1>0, <4>1, <4>2, <4>4 DEF ClusterTypeOK, ObjState, Live
      <4> QED
        BY <4>3, <4>4
    <3>3. ASSUME NEW it \in items'[c]
          PROVE  /\ it[1][1] = Kinds[kind[c]] /\ opt[c].target \in {NoRun, it[2]}
                 /\ \A h \in hits[c] : h[1] # it[1]
                 /\ (Live(it[1]) /\ owner[it[1]] = it[2]) \/ Rival(c, it[1])
      BY <3>1, <3>2
    <3>4. \A it, other \in items'[c] : other[1] = it[1] => other = it
      BY <3>1
    <3>5. Listing(c)'
      BY <1>0, <2>1, <3>3, <3>4, RivalStays DEF Listing, Live
    <3>6. Behind(c)'
      BY <2>1, <2>3, <3>3 DEF Behind
    <3> QED
      BY <2>2, <3>5, <3>6
  <2>4. CASE cpc'[c] = "complete"
    BY <2>2, <2>4 DEF Behind, Listing
  <2> QED
    BY <1>0, <1>2, <2>3, <2>4 DEF List, To, End, CleanTypeOK
<1>3. CASE ~List(c) /\ ~\E it \in Obj \X Label : DeleteItem(c, it)
  <2>1. UNCHANGED <<opt, hits>>
    BY <1>3 DEF CleanupProcess, CleanupStep, CleanupSignal, CleanupCrash, CleanupStart, Preview,
       Decide, Prompt, ExecuteStart, NextKind, DeleteNamespace, Link, MarkDeletions, Counts,
       CleanupComplete, cleanVars
  <2>2. ScopeOf(c)'
    BY <1>0, <2>1, RivalStays DEF ScopeOf
  <2> USE <1>0 DEF CleanTypeOK, To, End
  <2>3. CASE CleanupSignal(c)
    BY <2>2, <2>3, RivalStays DEF CleanupSignal, cleanVars, clusterVars, Behind, Listing, Live
  <2>4. CASE NextKind(c)
    <3>1. /\ cpc[c] = "delete" /\ kind[c] \in 1..5 /\ kind'[c] = kind[c] + 1
          /\ \/ cpc'[c] = "list"
             \/ cpc'[c] = "delns" /\ opt[c].deleteNS
             \/ cpc'[c] = "link"
      BY <2>4 DEF NextKind, WholeInv, KindReached
    <3>2. Behind(c)'
      BY <2>1, <3>1 DEF Behind
    <3> QED
      BY <2>2, <3>1, <3>2 DEF Listing
  <2>5. CASE ExecuteStart(c)
    BY <2>1, <2>2, <2>5 DEF ExecuteStart, Consent, Behind, Listing
  <2>6. CASE \/ CleanupCrash(c) \/ CleanupStart(c) \/ Preview(c) \/ Decide(c) \/ Prompt(c)
             \/ DeleteNamespace(c) \/ Link(c) \/ MarkDeletions(c) \/ Counts(c) \/ CleanupComplete(c)
    <3>1. cpc'[c] \notin {"list", "delete", "delns"}
      BY <2>6 DEF CleanupCrash, CleanupStart, Preview, Decide, Prompt, DeleteNamespace, Link,
         MarkDeletions, Counts, CleanupComplete
    <3> QED
      BY <2>2, <3>1 DEF Behind, Listing
  <2> QED
    BY <1>3, <2>3, <2>4, <2>5, <2>6 DEF CleanupProcess, CleanupStep
<1> QED
  BY <1>1, <1>2, <1>3

\* The steps of a cleanup, seen from the cluster: what it takes away it is
\* known to have taken away.
LEMMA RivalSeen ==
  ASSUME ConsentInv, NEW d \in Cleanups, Behind(d), CleanupProcess(d)
  PROVE  /\ UNCHANGED owner
         /\ \A o \in Obj : st'[o] = st[o] \/ \E l \in Label : <<o, l>> \in hits'[d]
         /\ ns' = ns \/ RemovesNamespace(d)'
<1>0. WholeInv /\ CleanTypeOK /\ ClusterTypeOK /\ Consent(d)
  BY DEF ConsentInv, WholeInv, TypeInv, RunTypeOK
<1>1. ASSUME NEW it \in Obj \X Label, DeleteItem(d, it)
      PROVE  /\ UNCHANGED <<ns, owner>>
             /\ \A o \in Obj : st'[o] = st[o] \/ \E l \in Label : <<o, l>> \in hits'[d]
  <2>1. it[1] \in Obj /\ owner[it[1]] \in Label
    BY <1>0 DEF ClusterTypeOK
  <2>2. st' # st => <<it[1], owner[it[1]]>> \in hits'[d]
    BY <1>0, <1>1 DEF DeleteItem, CleanTypeOK
  <2>3. UNCHANGED <<ns, owner>>
    BY <1>1 DEF DeleteItem
  <2>4. \A o \in Obj : o # it[1] => st'[o] = st[o]
    BY <1>0, <1>1, DeleteFacts
  <2> QED
    BY <2>1, <2>2, <2>3, <2>4
<1>2. CASE DeleteNamespace(d)
  <2>1. UNCHANGED <<st, owner, opt, found>> /\ cpc[d] = "delns" /\ cpc'[d] = "link"
    BY <1>0, <1>2 DEF DeleteNamespace, To, CleanTypeOK
  <2>2. RemovesNamespace(d)'
    BY <1>0, <2>1 DEF RemovesNamespace, Behind, Consent, Executing
  <2> QED
    BY <2>1, <2>2
<1>3. CASE ~DeleteNamespace(d) /\ ~\E it \in Obj \X Label : DeleteItem(d, it)
  BY <1>3 DEF CleanupProcess, CleanupStep, CleanupSignal, CleanupCrash, CleanupStart, Preview,
     Decide, Prompt, ExecuteStart, List, NextKind, Link, MarkDeletions, Counts,
     CleanupComplete, clusterVars
<1> QED
  BY <1>1, <1>2, <1>3

\* Every step keeps the invariant.
LEMMA NextRivalInv == RivalInv /\ [Next]_vars => RivalInv'
<1> SUFFICES ASSUME RivalInv, [Next]_vars PROVE RivalInv'
  OBVIOUS
<1>0. /\ ConsentInv /\ WholeInv /\ TypeInv /\ CleanTypeOK /\ ClusterTypeOK /\ Explained
      /\ \A c \in Cleanups : Behind(c) /\ Listing(c) /\ ScopeOf(c)
  BY DEF RivalInv, ConsentInv, WholeInv, TypeInv, RunTypeOK
<1>1. ConsentInv'
  BY <1>0, NextConsentInv
<1>2. \A d \in Cleanups : StaysRemoved(d)
  BY <1>0, RemovedStays
<1>3. ASSUME NEW r \in Runs, RunProcess(r) PROVE RivalInv'
  <2>1. (RunStep(r) \/ Signal(r) \/ Crash(r)) /\ UNCHANGED cleanVars
    BY <1>3 DEF RunProcess
  <2>2. \A o \in Obj : /\ st'[o] = "terminating" => st[o] = "terminating"
                       /\ Live(o) => Live(o)' /\ owner'[o] = owner[o]
    BY <1>0, <2>1, RunObjects DEF Live
  <2>3. Explained'
    BY <1>0, <1>2, <2>1, <2>2, RunNamespace DEF Explained, StaysRemoved
  <2>4. \A c \in Cleanups : Behind(c)' /\ Listing(c)' /\ ScopeOf(c)'
    BY <1>0, <2>1, <2>2, RivalFrame DEF cleanVars
  <2> QED
    BY <1>1, <2>3, <2>4 DEF RivalInv
<1>4. CASE ClusterStep \/ UNCHANGED vars
  <2>1. UNCHANGED <<owner, cleanVars>>
    BY <1>4 DEF ClusterStep, ClusterNext, Boot, Finalize, NamespaceGone, vars, clusterVars
  <2>2. /\ ns' = "terminating" => ns = "terminating"
        /\ \A o \in Obj : st'[o] = "terminating" => st[o] = "terminating"
        /\ ns = "terminating" \/ \A o \in Obj : Live(o) => Live(o)'
    BY <1>0, <1>4 DEF ClusterStep, ClusterNext, Boot, Finalize, NamespaceGone, vars, clusterVars,
       ClusterTypeOK, VMObj, Obj, Live
  <2>3. Explained'
    BY <1>0, <1>2, <2>2 DEF Explained, StaysRemoved
  <2>4. ASSUME NEW c \in Cleanups, cpc[c] = "delete", NEW o \in Obj, Live(o)
        PROVE  (Live(o)' /\ owner'[o] = owner[o]) \/ Rival(c, o)'
    <3>1. CASE ns = "terminating"
      <4>1. PICK d \in Cleanups : RemovesNamespace(d)
        BY <1>0, <3>1 DEF Explained
      <4>2. d # c
        BY <2>4, <4>1 DEF RemovesNamespace
      <4> QED
        BY <1>2, <4>1, <4>2 DEF StaysRemoved, Rival, MayHaveRemoved
    <3>2. CASE \A x \in Obj : Live(x) => Live(x)'
      BY <2>1, <2>4, <3>2
    <3> QED
      BY <2>2, <3>1, <3>2
  <2>5. \A c \in Cleanups : Behind(c)' /\ Listing(c)' /\ ScopeOf(c)'
    BY <1>0, <2>1, <2>4, RivalFrame DEF cleanVars
  <2> QED
    BY <1>1, <2>3, <2>5 DEF RivalInv
<1>5. ASSUME NEW d \in Cleanups, CleanupProcess(d) PROVE RivalInv'
  <2>1. /\ UNCHANGED owner
        /\ \A o \in Obj : st'[o] = st[o] \/ \E l \in Label : <<o, l>> \in hits'[d]
        /\ ns' = ns \/ RemovesNamespace(d)'
    BY <1>0, <1>5, RivalSeen
  <2>2. Explained'
    <3>1. ASSUME NEW o \in Obj, st'[o] = "terminating"
          PROVE  \E x \in Cleanups, l \in Label : <<o, l>> \in hits'[x]
      <4>1. CASE st'[o] = st[o]
        BY <1>0, <1>2, <3>1, <4>1 DEF Explained, StaysRemoved
      <4> QED
        BY <2>1, <4>1
    <3>2. ns' = "terminating" => \E x \in Cleanups : RemovesNamespace(x)'
      BY <1>0, <1>2, <2>1 DEF Explained, StaysRemoved
    <3> QED
      BY <3>1, <3>2 DEF Explained
  <2>3. ASSUME NEW c \in Cleanups \ {d} PROVE Behind(c)' /\ Listing(c)' /\ ScopeOf(c)'
    <3>1. /\ cpc'[c] = cpc[c] /\ kind'[c] = kind[c]
          /\ items'[c] = items[c] /\ hits'[c] = hits[c]
      BY <1>0, <1>5, OtherCleanups DEF CleanupProcess
    <3>2. UNCHANGED opt
      BY <1>5 DEF CleanupProcess, CleanupStep, CleanupSignal, CleanupCrash, CleanupStart, Preview,
         Decide, Prompt, ExecuteStart, List, NextKind, DeleteNamespace, DeleteItem, Link,
         MarkDeletions, Counts, CleanupComplete, cleanVars
    <3>3. \A o \in Obj : Live(o) => (Live(o)' /\ owner'[o] = owner[o]) \/ Rival(c, o)'
      BY <2>1 DEF Live, Rival, MayHaveRemoved
    <3> QED
      BY <1>0, <3>1, <3>2, <3>3, RivalFrame
  <2>4. Behind(d)' /\ Listing(d)' /\ ScopeOf(d)'
    BY <1>0, <1>5, RivalOwn
  <2> QED
    BY <1>1, <2>2, <2>3, <2>4 DEF RivalInv
<1> QED
  BY <1>3, <1>4, <1>5 DEF Next

\* However many runs and cleanups interleave, fail, are interrupted or killed,
\* cleanup --run-id hits an object of another run only if another cleanup may
\* have removed the object it had listed: its stale lists are safe against
\* runs and against the cluster's own controllers.
THEOREM ScopeIsKeptUnlessReplaced == Spec => []ScopedUnlessReplaced
<1>1. Init => RivalInv
  <2> SUFFICES ASSUME Init PROVE RivalInv
    OBVIOUS
  <2>1. ConsentInv
    BY InitConsentInv
  <2>2. Explained
    BY DEF Init, RunsInit, ClusterInit, Explained
  <2>3. \A c \in Cleanups : Behind(c) /\ Listing(c) /\ ScopeOf(c)
    BY DEF Init, CleanInit, Behind, Listing, ScopeOf
  <2> QED
    BY <2>1, <2>2, <2>3 DEF RivalInv
<1>2. RivalInv => ScopedUnlessReplaced
  BY DEF RivalInv, ScopeOf, Rival, ScopedUnlessReplaced
<1> QED
  BY <1>1, <1>2, NextRivalInv, PTL DEF Spec
=============================================================================
