--------------------------- MODULE MigrateProofs ---------------------------
(* The audit schema is complete before it is used, for any number of       *)
(* openers and any number of migrations.                                   *)
EXTENDS Migrate, SequenceTheorems, TLAPS

\* What a process that has read the version knows: the migrations below its
\* loop index are in the file, and stay there.
KnownApplied ==
  \A p \in Openers :
    /\ mpc[p] \in {"loop", "tx", "open"} => 1..next[p] \subseteq applied
    /\ mpc[p] = "tx" => next[p] < Last
    /\ mpc[p] = "open" => next[p] = Last

OpenInv == MigrateTypeOK /\ RecordedVersionIsTrue /\ KnownApplied

\* UPDATE without WHERE keeps the rows, all with the new value.
LEMMA UpdateRows ==
  ASSUME NEW s \in Seq(0..Last), NEW v \in 0..Last
  PROVE  [j \in DOMAIN s |-> v] \in Seq(0..Last)
<1>1. DOMAIN s = 1..Len(s) /\ Len(s) \in Nat
  OBVIOUS
<1>2. [j \in 1..Len(s) |-> v] \in Seq(0..Last)
  BY <1>1
<1>3. QED
  BY <1>1, <1>2

\* A step that touches neither the rows nor the DDL, and moves no process
\* into the loop, preserves what is known.
LEMMA QuietStep ==
  ASSUME OpenInv, NEW p \in Openers, NEW l \in MPC \ {"loop", "tx", "open"},
         Step(p, l), UNCHANGED <<versions, applied, next>>
  PROVE  RecordedVersionIsTrue' /\ KnownApplied' /\ mpc' \in [Openers -> MPC]
<1>1. mpc' \in [Openers -> MPC]
  BY DEF OpenInv, MigrateTypeOK, Step
<1>2. RecordedVersionIsTrue'
  BY DEF OpenInv, RecordedVersionIsTrue
<1>3. KnownApplied'
  BY DEF OpenInv, MigrateTypeOK, KnownApplied, Step
<1>4. QED
  BY <1>1, <1>2, <1>3

\* INSERT of version 0 claims nothing.
LEMMA InitKeeps ==
  ASSUME OpenInv, NEW p \in Openers, InitVersion(p)
  PROVE  OpenInv'
<1>1. versions' = Append(versions, 0) /\ versions \in Seq(0..Last) /\ 0 \in 0..Last
  BY MigrateAssumption DEF OpenInv, MigrateTypeOK, InitVersion
<1>2. versions' \in Seq(0..Last)
  BY <1>1
<1>3. MigrateTypeOK'
  BY <1>2 DEF OpenInv, MigrateTypeOK, InitVersion, Step, MPC
<1>4. RecordedVersionIsTrue'
  <2>1. SUFFICES ASSUME NEW j \in DOMAIN versions'
                 PROVE  1..versions'[j] \subseteq applied'
    BY DEF RecordedVersionIsTrue
  <2>2. CASE j \in DOMAIN versions
    BY <1>1, <2>2 DEF OpenInv, RecordedVersionIsTrue, InitVersion
  <2>3. CASE j \notin DOMAIN versions
    <3>1. versions'[j] = 0
      BY <1>1, <2>1, <2>3
    <3>2. QED
      BY <3>1
  <2>4. QED
    BY <2>2, <2>3
<1>5. KnownApplied'
  BY DEF OpenInv, MigrateTypeOK, KnownApplied, InitVersion, Step
<1>6. QED
  BY <1>3, <1>4, <1>5 DEF OpenInv

\* A process enters the loop with an index that some row claims.
LEMMA ReadKeeps ==
  ASSUME OpenInv, NEW p \in Openers, ReadVersion(p)
  PROVE  OpenInv'
<1>1. 1 \in DOMAIN versions /\ versions[1] \in 0..Last
  <2>1. versions \in Seq(0..Last) /\ versions # <<>>
    BY DEF OpenInv, MigrateTypeOK, ReadVersion
  <2>2. Len(versions) \in Nat \ {0} /\ DOMAIN versions = 1..Len(versions)
    BY <2>1, EmptySeq, LenProperties
  <2>3. 1 \in 1..Len(versions)
    BY <2>2
  <2>4. versions[1] \in 0..Last
    BY <2>1, <2>3, ElementOfSeq
  <2>5. QED
    BY <2>2, <2>3, <2>4
<1>2. 1..versions[1] \subseteq applied
  BY <1>1 DEF OpenInv, RecordedVersionIsTrue
<1>3. MigrateTypeOK'
  BY <1>1 DEF OpenInv, MigrateTypeOK, ReadVersion, Step, MPC
<1>4. RecordedVersionIsTrue'
  BY DEF OpenInv, RecordedVersionIsTrue, ReadVersion
<1>5. KnownApplied'
  BY <1>2 DEF OpenInv, MigrateTypeOK, KnownApplied, ReadVersion, Step
<1>6. QED
  BY <1>3, <1>4, <1>5 DEF OpenInv

\* A commit extends what it already knows by one migration, for every row.
LEMMA CommitKeeps ==
  ASSUME OpenInv, NEW p \in Openers, CommitMigration(p)
  PROVE  OpenInv'
<1>1. next[p] \in 0..Last /\ next[p] < Last /\ 1..next[p] \subseteq applied /\ Last \in Nat
  BY MigrateAssumption DEF OpenInv, MigrateTypeOK, KnownApplied, CommitMigration, At
<1>2. next[p] + 1 \in 1..Last /\ next[p] + 1 \in 0..Last
  BY <1>1
<1>3. 1..(next[p] + 1) \subseteq applied'
  BY <1>1 DEF CommitMigration
<1>4. versions' \in Seq(0..Last)
  BY <1>2, UpdateRows DEF OpenInv, MigrateTypeOK, CommitMigration
<1>5. MigrateTypeOK'
  BY <1>2, <1>4 DEF OpenInv, MigrateTypeOK, CommitMigration, Step, MPC
<1>6. RecordedVersionIsTrue'
  BY <1>3 DEF RecordedVersionIsTrue, CommitMigration
<1>7. KnownApplied'
  <2>1. SUFFICES ASSUME NEW q \in Openers
                 PROVE  /\ mpc'[q] \in {"loop", "tx", "open"} => 1..next'[q] \subseteq applied'
                        /\ mpc'[q] = "tx" => next'[q] < Last
                        /\ mpc'[q] = "open" => next'[q] = Last
    BY DEF KnownApplied
  <2>2. CASE q = p
    BY <1>3, <2>2 DEF OpenInv, MigrateTypeOK, CommitMigration, Step
  <2>3. CASE q # p
    <3>1. mpc'[q] = mpc[q] /\ next'[q] = next[q] /\ applied \subseteq applied'
      BY <2>3 DEF OpenInv, MigrateTypeOK, CommitMigration, Step
    <3>2. QED
      BY <3>1 DEF OpenInv, KnownApplied
  <2>4. QED
    BY <2>2, <2>3
<1>8. QED
  BY <1>5, <1>6, <1>7 DEF OpenInv

\* Entering a transaction and leaving the loop go by the loop's own test.
LEMMA LoopKeeps ==
  ASSUME OpenInv, NEW p \in Openers, BeginMigration(p) \/ OpenAuditor(p)
  PROVE  OpenInv'
<1>1. MigrateTypeOK'
  BY DEF OpenInv, MigrateTypeOK, BeginMigration, OpenAuditor, Step, MPC
<1>2. RecordedVersionIsTrue'
  BY DEF OpenInv, RecordedVersionIsTrue, BeginMigration, OpenAuditor
<1>3. KnownApplied'
  BY MigrateAssumption
  DEF OpenInv, MigrateTypeOK, KnownApplied, BeginMigration, OpenAuditor, At, Step
<1>4. QED
  BY <1>1, <1>2, <1>3 DEF OpenInv

\* Every step of every opener preserves the invariant.
LEMMA OpenInductive == OpenInv /\ [MigrateNext]_mvars => OpenInv'
<1> SUFFICES ASSUME OpenInv, [MigrateNext]_mvars PROVE OpenInv'
  OBVIOUS
<1>1. CASE UNCHANGED mvars
  BY <1>1 DEF mvars, OpenInv, MigrateTypeOK, RecordedVersionIsTrue, KnownApplied
<1>2. ASSUME NEW p \in Openers, OpenStep(p) PROVE OpenInv'
  <2>1. CASE CreateVersionTable(p)
    BY <2>1, QuietStep DEF CreateVersionTable, OpenInv, MigrateTypeOK, MPC
  <2>2. CASE CountVersions(p)
    BY <2>2, QuietStep DEF CountVersions, OpenInv, MigrateTypeOK, MPC
  <2>3. CASE InitVersion(p)
    BY <2>3, InitKeeps
  <2>4. CASE ReadVersion(p)
    BY <2>4, ReadKeeps
  <2>5. CASE BeginMigration(p) \/ OpenAuditor(p)
    BY <2>5, LoopKeeps
  <2>6. CASE CommitMigration(p)
    BY <2>6, CommitKeeps
  <2>7. CASE FailOpen(p)
    BY <2>7, QuietStep DEF FailOpen, OpenInv, MigrateTypeOK, MPC
  <2>8. CASE DieOpening(p)
    BY <2>8, QuietStep DEF DieOpening, OpenInv, MigrateTypeOK, MPC
  <2>9. QED
    BY <1>2, <2>1, <2>2, <2>3, <2>4, <2>5, <2>6, <2>7, <2>8 DEF OpenStep
<1>3. QED
  BY <1>1, <1>2 DEF MigrateNext

\* The invariant holds from an empty file on.
LEMMA OpenInvariant == MigrateSpec => []OpenInv
<1>1. ASSUME MigrateInit PROVE OpenInv
  <2>1. MigrateTypeOK
    <3>1. versions \in Seq(0..Last) /\ applied \subseteq 1..Last
      BY <1>1 DEF MigrateInit
    <3>2. next \in [Openers -> 0..Last] /\ mpc \in [Openers -> MPC]
      BY <1>1, MigrateAssumption DEF MigrateInit, MPC
    <3>3. table \in BOOLEAN /\ lock \in Openers \cup {Nobody}
      BY <1>1, Zenon DEF MigrateInit
    <3>4. QED
      BY <3>1, <3>2, <3>3 DEF MigrateTypeOK
  <2>2. RecordedVersionIsTrue
    BY <1>1 DEF MigrateInit, RecordedVersionIsTrue
  <2>3. KnownApplied
    BY <1>1 DEF MigrateInit, KnownApplied
  <2>4. QED
    BY <2>1, <2>2, <2>3 DEF OpenInv
<1>2. QED
  BY <1>1, OpenInductive, PTL DEF MigrateSpec

\* NewSQLiteAuditor hands out auditors over a complete schema only.
THEOREM SchemaIsComplete == MigrateSpec => []SchemaBeforeUse
<1>1. OpenInv => SchemaBeforeUse
  BY DEF OpenInv, MigrateTypeOK, KnownApplied, SchemaBeforeUse
<1>2. QED
  BY <1>1, OpenInvariant, PTL

\* No row of schema_version runs ahead of the schema.
THEOREM VersionsAreTrue == MigrateSpec => []RecordedVersionIsTrue
<1>1. OpenInv => RecordedVersionIsTrue
  BY DEF OpenInv
<1>2. QED
  BY <1>1, OpenInvariant, PTL

\* Every variable has its type: in particular no opener's loop runs past the
\* list of migrations and schema_version never holds a version beyond it.
THEOREM MigrateTypeCorrect == MigrateSpec => []MigrateTypeOK
<1>1. OpenInv => MigrateTypeOK
  BY DEF OpenInv
<1>2. QED
  BY <1>1, OpenInvariant, PTL

-----------------------------------------------------------------------------
\* What ReadVersion would see, after each statement that writes the rows.
LEMMA FirstRowKept ==
  ASSUME OpenInv, Last = 1, versions # <<>>, NEW p \in Openers, OpenStep(p)
  PROVE  versions' # <<>> /\ versions'[1] >= versions[1]
<1>0. versions \in Seq(0..Last)
  BY DEF OpenInv, MigrateTypeOK
<1>1. Len(versions) \in Nat \ {0} /\ DOMAIN versions = 1..Len(versions)
  BY <1>0, EmptySeq, LenProperties
<1>2. 1 \in DOMAIN versions
  BY <1>1
<1>3. versions[1] \in 0..1
  BY <1>0, <1>1, <1>2, ElementOfSeq
<1>4. CASE InitVersion(p)
  <2>1. versions' = Append(versions, 0) /\ 0 \in 0..Last
    BY <1>4, MigrateAssumption DEF InitVersion
  <2>2. versions' # <<>> /\ versions'[1] = versions[1]
    BY <1>0, <1>1, <1>2, <2>1, AppendProperties
  <2>3. QED
    BY <1>3, <2>2
<1>5. CASE CommitMigration(p)
  <2>1. next[p] \in 0..Last /\ next[p] < Last
    BY <1>5 DEF OpenInv, MigrateTypeOK, KnownApplied, CommitMigration, At
  <2>2. next[p] + 1 = 1
    BY <2>1
  <2>3. versions' = [j \in DOMAIN versions |-> next[p] + 1]
    BY <1>5 DEF CommitMigration
  <2>4. versions'[1] = 1 /\ DOMAIN versions' = DOMAIN versions
    BY <1>2, <2>2, <2>3
  <2>5. versions' # <<>>
    BY <1>2, <2>4
  <2>6. QED
    BY <1>3, <2>4, <2>5
<1>6. CASE UNCHANGED versions
  BY <1>3, <1>6
<1>7. QED
  BY <1>4, <1>5, <1>6 DEF OpenStep, CreateVersionTable, CountVersions, ReadVersion,
     BeginMigration, OpenAuditor, FailOpen, DieOpening

\* The version the next opener reads never goes back, whatever rows openers
\* that raced on an empty table inserted, as long as there is one migration
\* (len(migrations) of internal/audit/migrate.go).
THEOREM VersionMonotone ==
  ASSUME Last = 1
  PROVE  MigrateSpec => VersionNeverFallsBack
<1>1. OpenInv /\ [MigrateNext]_mvars
        => [versions # <<>> => versions' # <<>> /\ versions'[1] >= versions[1]]_mvars
  BY FirstRowKept DEF MigrateNext
<1>2. QED
  BY <1>1, OpenInvariant, PTL DEF MigrateSpec, VersionNeverFallsBack
=============================================================================
