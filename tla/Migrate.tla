------------------------------ MODULE Migrate ------------------------------
(***************************************************************************)
(* Opening the audit database: NewSQLiteAuditor and migrateDB              *)
(* (internal/audit).  Every virtwork process does this first, and several  *)
(* may do it at once on the same file.  The checks of schema_version are   *)
(* statements of their own, outside the transaction of a migration.        *)
(***************************************************************************)
EXTENDS Naturals, Sequences

CONSTANTS
  Openers,        \* the processes that open the database
  Nobody,         \* not a process
  Last            \* len(migrations)

ASSUME MigrateAssumption == Nobody \notin Openers /\ Last \in Nat \ {0}

VARIABLES
  table,     \* whether the table schema_version exists
  versions,  \* its rows, oldest first
  applied,   \* the migrations whose DDL is committed
  lock,      \* the process inside a write transaction (SQLite has one writer)
  mpc,       \* mpc[p]: the statement p is at
  next       \* next[p]: i of migrateDB's loop

mvars == <<table, versions, applied, lock, mpc, next>>

MPC == {"create", "count", "init", "read", "loop", "tx", "open", "failed", "crashed"}

MigrateInit ==
  /\ table = FALSE /\ versions = <<>> /\ applied = {} /\ lock = Nobody
  /\ mpc = [p \in Openers |-> "create"]
  /\ next = [p \in Openers |-> 0]

At(p, l) == mpc[p] = l
Step(p, l) == mpc' = [mpc EXCEPT ![p] = l]

-----------------------------------------------------------------------------
\* CREATE TABLE IF NOT EXISTS schema_version.
CreateVersionTable(p) ==
  /\ At(p, "create") /\ (table \/ lock = Nobody)
  /\ table' = TRUE
  /\ Step(p, "count")
  /\ UNCHANGED <<versions, applied, lock, next>>

\* SELECT COUNT(*) FROM schema_version.
CountVersions(p) ==
  /\ At(p, "count")
  /\ Step(p, IF versions = <<>> THEN "init" ELSE "read")
  /\ UNCHANGED <<table, versions, applied, lock, next>>

\* Mutants: the row replaces what is there; a new file starts at the latest
\* version.
ReplaceVersion(p) ==
  /\ At(p, "init") /\ lock = Nobody
  /\ versions' = <<0>>
  /\ Step(p, "read")
  /\ UNCHANGED <<table, applied, lock, next>>
InitLatest(p) ==
  /\ At(p, "init") /\ lock = Nobody
  /\ versions' = Append(versions, Last)
  /\ Step(p, "read")
  /\ UNCHANGED <<table, applied, lock, next>>

\* INSERT INTO schema_version VALUES (0), on the strength of the count.
InitVersion(p) ==
  /\ At(p, "init") /\ lock = Nobody
  /\ versions' = Append(versions, 0)
  /\ Step(p, "read")
  /\ UNCHANGED <<table, applied, lock, next>>

\* QueryRow("SELECT version ..."): the first row, however many there are.
ReadVersion(p) ==
  /\ At(p, "read") /\ versions # <<>>
  /\ next' = [next EXCEPT ![p] = versions[1]]
  /\ Step(p, "loop")
  /\ UNCHANGED <<table, versions, applied, lock>>

\* Mutant: the loop's bound is not tested.
BeginAnyway(p) ==
  /\ At(p, "loop") /\ lock = Nobody
  /\ lock' = p
  /\ Step(p, "tx")
  /\ UNCHANGED <<table, versions, applied, next>>

\* db.Begin and the first write of the transaction.
BeginMigration(p) ==
  /\ At(p, "loop") /\ next[p] < Last /\ lock = Nobody
  /\ lock' = p
  /\ Step(p, "tx")
  /\ UNCHANGED <<table, versions, applied, next>>

\* The migration, UPDATE schema_version (every row) and Commit: one atomic
\* change of the file.
CommitMigration(p) ==
  /\ At(p, "tx")
  /\ applied' = applied \cup {next[p] + 1}
  /\ versions' = [j \in DOMAIN versions |-> next[p] + 1]
  /\ lock' = Nobody
  /\ next' = [next EXCEPT ![p] = @ + 1]
  /\ Step(p, "loop")
  /\ UNCHANGED table

\* migrateDB returns nil: NewSQLiteAuditor hands out the auditor.
OpenAuditor(p) ==
  /\ At(p, "loop") /\ next[p] >= Last
  /\ Step(p, "open")
  /\ UNCHANGED <<table, versions, applied, lock, next>>

\* Mutant: the failed migration is committed instead of rolled back.
FailCommitted(p) ==
  /\ mpc[p] \in {"create", "count", "init", "read", "loop", "tx"}
  /\ Step(p, "failed")
  /\ lock' = IF lock = p THEN Nobody ELSE lock
  /\ versions' = IF At(p, "tx") THEN [j \in DOMAIN versions |-> next[p] + 1] ELSE versions
  /\ UNCHANGED <<table, applied, next>>

\* Any statement may fail (locked beyond the busy timeout, I/O): Rollback in
\* a transaction, Close, and the command ends.
FailOpen(p) ==
  /\ mpc[p] \in {"create", "count", "init", "read", "loop", "tx"}
  /\ Step(p, "failed")
  /\ lock' = IF lock = p THEN Nobody ELSE lock
  /\ UNCHANGED <<table, versions, applied, next>>

\* The process dies; SQLite rolls its transaction back.
DieOpening(p) ==
  /\ mpc[p] \notin {"failed", "crashed"}
  /\ Step(p, "crashed")
  /\ lock' = IF lock = p THEN Nobody ELSE lock
  /\ UNCHANGED <<table, versions, applied, next>>

OpenStep(p) ==
  \/ CreateVersionTable(p) \/ CountVersions(p) \/ InitVersion(p) \/ ReadVersion(p)
  \/ BeginMigration(p) \/ CommitMigration(p) \/ OpenAuditor(p)
  \/ FailOpen(p) \/ DieOpening(p)

MigrateNext == \E p \in Openers : OpenStep(p)
MigrateSpec == MigrateInit /\ [][MigrateNext]_mvars

-----------------------------------------------------------------------------
\* Every variable has its type.
MigrateTypeOK ==
  /\ table \in BOOLEAN
  /\ versions \in Seq(0..Last)
  /\ applied \subseteq 1..Last
  /\ lock \in Openers \cup {Nobody}
  /\ mpc \in [Openers -> MPC]
  /\ next \in [Openers -> 0..Last]

\* NewSQLiteAuditor never hands out an auditor over an incomplete schema,
\* however the openers interleave, fail or die.
SchemaBeforeUse == \A p \in Openers : mpc[p] = "open" => applied = 1..Last

\* No row of schema_version, stale duplicates included, claims a migration
\* whose DDL is not there.
RecordedVersionIsTrue == \A j \in DOMAIN versions : 1..versions[j] \subseteq applied

\* The version the next opener will read never goes back, also when two
\* openers both saw an empty table and both insert a row.
VersionNeverFallsBack ==
  [][versions # <<>> => versions' # <<>> /\ versions'[1] >= versions[1]]_mvars
=============================================================================
