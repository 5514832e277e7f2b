------------------------------ MODULE AuditDB ------------------------------
(***************************************************************************)
(* The SQLite audit database (internal/audit) shared by every virtwork     *)
(* process on the machine.  Each operator is one SQL statement; "ok" says  *)
(* whether it was executed.  Callers log a failed statement and go on.     *)
(***************************************************************************)
EXTENDS ClusterAPI

CONSTANTS
  Cleanups,    \* the "virtwork cleanup" invocations
  NoAudit,     \* the processes started with --no-audit (NoOpAuditor)
  MayStop,     \* the processes that may be sent SIGINT or SIGTERM
  MayDie,      \* the processes that may be killed, or lose their machine
  DBMayFail,   \* TRUE: any statement may fail (disk full, database locked)
  MaxReq       \* bound on the number of workloads one run requests

Procs == Runs \cup Cleanups

ASSUME AuditAssumption ==
  /\ NoAudit \subseteq Procs /\ MayStop \subseteq Procs /\ MayDie \subseteq Procs
  /\ DBMayFail \in BOOLEAN
  /\ MaxReq \in Nat
  /\ Runs \cap Cleanups = {}

VARIABLES
  ctx,      \* ctx[p]: the signal.NotifyContext every statement is run under
  log,      \* log[p]: status column of p's audit_log row
  wlRow,    \* wlRow[r][k]: status of the workload_details row r inserted k-th
  rows,     \* rows[r][o]: statuses among r's vm_details (a VM) or
            \*   resource_details (a Secret, a Service) rows for object o
  events,   \* events[p]: <<type, subject>> of the events rows of p
  linked,   \* linked[c]: linked_run_ids of cleanup c
  counts    \* counts[c]: the objects c's *_deleted counters count

auditVars == <<log, wlRow, rows, events, linked, counts>>

LogStatus == {"none", "in_progress", "success", "failed", "cancelled", "aborted"}
WlStatus == {"none", "pending", "created", "failed"}
EventType == {"execution_started", "workload_skipped", "service_created", "vm_created",
              "vm_failed", "vm_ready", "vm_timeout", "cleanup_started", "cleanup_completed"}
Subject == VMName \cup Workloads \cup Procs

AuditTypeOK ==
  /\ ctx \in [Procs -> {"live", "cancelled"}]
  /\ log \in [Procs -> LogStatus]
  /\ wlRow \in [Runs -> [1..MaxReq -> WlStatus]]
  /\ rows \in [Runs -> [Obj -> SUBSET {"created", "deleted"}]]
  /\ events \in [Procs -> SUBSET (EventType \X Subject)]
  /\ linked \in [Cleanups -> SUBSET Runs]
  /\ counts \in [Cleanups -> SUBSET Obj]

AuditInit ==
  /\ ctx = [p \in Procs |-> "live"]
  /\ log = [p \in Procs |-> "none"]
  /\ wlRow = [r \in Runs |-> [k \in 1..MaxReq |-> "none"]]
  /\ rows = [r \in Runs |-> [o \in Obj |-> {}]]
  /\ events = [p \in Procs |-> {}]
  /\ linked = [c \in Cleanups |-> {}]
  /\ counts = [c \in Cleanups |-> {}]

-----------------------------------------------------------------------------
\* ExecContext returns ctx.Err() without touching the database once the
\* context is cancelled; otherwise it executes, or fails if DBMayFail.
Executed(p) == IF ctx[p] = "cancelled" THEN {FALSE}
               ELSE IF DBMayFail THEN BOOLEAN ELSE {TRUE}

\* The statement changes the database: it ran, and p has a real auditor.
Writes(p, ok) == ok /\ p \notin NoAudit

\* The label StartExecution hands out: a fresh UUID, or "" from NoOpAuditor.
RunLabel(r) == IF r \in NoAudit THEN NoRun ELSE r

StartExecution(p, ok) ==
  log' = IF Writes(p, ok) THEN [log EXCEPT ![p] = "in_progress"] ELSE log

CompleteExecution(p, status, ok) ==
  log' = IF Writes(p, ok) THEN [log EXCEPT ![p] = status] ELSE log

RecordEvent(p, type, subject, ok) ==
  events' = IF Writes(p, ok) THEN [events EXCEPT ![p] = @ \cup {<<type, subject>>}]
            ELSE events

RecordWorkload(r, k, ok) ==
  wlRow' = IF Writes(r, ok) THEN [wlRow EXCEPT ![r][k] = "pending"] ELSE wlRow

\* id 0 (RecordWorkload failed, or NoOpAuditor) matches no row.
UpdateWorkloadStatus(r, id, status, ok) ==
  wlRow' = IF Writes(r, ok) /\ id # 0 THEN [wlRow EXCEPT ![r][id] = status] ELSE wlRow

Insert(r, o) == [rows EXCEPT ![r][o] = @ \cup {"created"}]

\* vm_details.workload_id is a foreign key, so workload id 0 is refused.
RecordVM(r, v, id, ok) ==
  rows' = IF Writes(r, ok) /\ id # 0 THEN Insert(r, VMObj(v)) ELSE rows

RecordResource(r, o, ok) == rows' = IF Writes(r, ok) THEN Insert(r, o) ELSE rows

\* UPDATE ... SET status='deleted' WHERE name IN os AND run_id IN runIDs.
MarkDeletedByName(c, os, runIDs, ok) ==
  rows' = IF Writes(c, ok)
          THEN [r \in Runs |-> [o \in Obj |->
                 IF r \in runIDs /\ o \in os /\ rows[r][o] # {} THEN {"deleted"}
                 ELSE rows[r][o]]]
          ELSE rows

LinkCleanupToRuns(c, runIDs, ok) ==
  linked' = IF Writes(c, ok) THEN [linked EXCEPT ![c] = runIDs] ELSE linked

RecordCleanupCounts(c, os, ok) ==
  counts' = IF Writes(c, ok) THEN [counts EXCEPT ![c] = os] ELSE counts
=============================================================================
