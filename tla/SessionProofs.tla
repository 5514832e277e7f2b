--------------------------- MODULE SessionProofs ---------------------------
(***************************************************************************)
(* What "virtwork cleanup" guarantees in a shell session, where one        *)
(* command ends, or is killed, before the next one starts: for any number  *)
(* of runs and cleanups, however each of them ended.                       *)
(***************************************************************************)
EXTENDS LedgerProofs, VirtworkProofs

Ended(r) == pc[r] \in {"exited", "crashed"}
InScope(c, o) == opt[c].target \in {NoRun, owner[o]}

\* c is done with object o, or has an error to report.
Gone(c, o) == InScope(c, o) => ~Live(o) \/ errors[c]

\* Every statement of cleanup c has been executed so far.
Kept(c) == ctx[c] = "live" /\ ~DBMayFail /\ c \notin NoAudit

HitNames(c) == {h[1] : h \in hits[c]}
HitRuns(c) == {h[2] : h \in hits[c]} \ {NoRun}

\* CleanupAll has run to its end, or found nothing to do.
Ok(c) == cpc[c] = "complete" /\ cout[c] = "ok"

-----------------------------------------------------------------------------
\* A label on the cluster is that of a run that has started, and a row says
\* 'deleted' only after its run has ended.
LabelsStarted == \A r \in Runs, o \in Obj : owner[o] = r => pc[r] # "new"
DeletedRows ==
  \A r \in Runs, o \in Obj : "deleted" \in rows[r][o] => Ended(r) /\ ~(Live(o) /\ owner[o] = r)

\* What a cleanup works with is not stale: it is alone, so the labels it
\* listed are those of the objects, and the runs they name have ended.
Alone(c) == CleanupAlive(c) => \A r \in Runs : ~Alive(r)
ItemsFresh(c) ==
  CleanupAlive(c) => \A it \in items[c] : it[2] = owner[it[1]] /\ opt[c].target \in {NoRun, it[2]}
RunsEnded(c) == CleanupAlive(c) => \A r \in runIDs[c] : Ended(r)

\* What it deleted, named and counted is what it removed.
HitsScoped(c) == opt[c].target # NoRun => \A h \in hits[c] : h[2] = opt[c].target
HitsCollected(c) == CleanupAlive(c) => HitRuns(c) \subseteq runIDs[c]
DeletedGone(c) == CleanupAlive(c) => \A o \in deleted[c] : ~Live(o)
DeletedHits(c) ==
  /\ deleted[c] \subseteq HitNames(c) /\ counts[c] \subseteq HitNames(c)
  /\ CleanupAlive(c) /\ ~errors[c] => HitNames(c) \subseteq deleted[c]

\* How far the loops over the kinds have come.
Blank(c) ==
  /\ cpc[c] = "new" => items[c] = {} /\ runIDs[c] = {}
  /\ cpc[c] \in {"new", "prompt", "start"} => kind[c] = 1
Previewed(c) ==
  cpc[c] = "preview" => \A i \in 1..5, o \in Obj :
    i < kind[c] /\ Kinds[i] = o[1] /\ InScope(c, o) => o \in found[c] \/ st[o] = "absent"
Swept(c) ==
  /\ cpc[c] \in {"list", "delete"} =>
       \A i \in 1..5, o \in Obj : i < kind[c] /\ Kinds[i] = o[1] => Gone(c, o)
  /\ cpc[c] = "delete" =>
       \A o \in Obj : Kinds[kind[c]] = o[1] => Gone(c, o) \/ <<o, owner[o]>> \in items[c]
  /\ cpc[c] \in {"delns", "link", "mark", "counts"} \/ (Ok(c) /\ ~opt[c].dry) =>
       \A o \in Obj : Gone(c, o)
RowsClosed(c) ==
  Kept(c) /\ ~errors[c] =>
    /\ cpc[c] = "mark" => \A h \in hits[c], i \in 1..5 :
         i < kind[c] /\ Kinds[i] = h[1][1] /\ h[2] \in Runs => "created" \notin rows[h[2]][h[1]]
    /\ cpc[c] = "counts" \/ Ok(c) => \A h \in hits[c] :
         h[2] \in Runs => "created" \notin rows[h[2]][h[1]]
SelfRecord(c) ==
  Kept(c) /\ ~errors[c] =>
    /\ cpc[c] \in {"mark", "counts"} \/ Ok(c) => HitRuns(c) \subseteq linked[c]
    /\ Ok(c) => HitNames(c) \subseteq counts[c]

History(c) ==
  /\ Alone(c) /\ ItemsFresh(c) /\ RunsEnded(c)
  /\ HitsScoped(c) /\ HitsCollected(c) /\ DeletedGone(c) /\ DeletedHits(c)
Sweep(c) ==
  /\ History(c)
  /\ Blank(c) /\ Previewed(c) /\ Swept(c) /\ RowsClosed(c) /\ SelfRecord(c)

\* The inductive invariant.
SessionInv == ConsentInv /\ LabelsStarted /\ DeletedRows /\ \A c \in Cleanups : Sweep(c)

-----------------------------------------------------------------------------
\* Every object is of a kind that CleanupAll goes through.
LEMMA KindOf == \A o \in Obj : \E i \in 1..5 : Kinds[i] = o[1]
<1>1. Kinds[1] = "VM" /\ Kinds[2] = "Service" /\ Kinds[3] = "Secret"
  BY DEF Kinds
<1> QED
  BY <1>1 DEF Obj

\* A run that takes a step has not ended, and does not become new again.
LEMMA RunPlaces ==
  ASSUME TypeInv, NEW r \in Runs, RunStep(r) \/ Signal(r) \/ Crash(r)
  PROVE  ~Ended(r) /\ pc'[r] # "new"
<1> USE DEF TypeInv, RunTypeOK, Goto, Fail, Ended
<1>1. CASE Signal(r) \/ Crash(r) \/ Complete(r) \/ Start(r)
  BY <1>1 DEF Signal, Crash, Complete, Start, Alive, runVars
<1>2. CASE PlanWorkload(r) \/ PlanDone(r) \/ EnsureNamespace(r) \/ ServicesDone(r) \/ SecretsDone(r)
  BY <1>2 DEF PlanWorkload, PlanDone, EnsureNamespace, ToServices, ServicesDone, SecretsDone
<1>3. CASE VMsDone(r) \/ WaitDone(r) \/ ReportDone(r) \/ MarkDone(r) \/ \E v \in VMName : Report(r, v)
  BY <1>3 DEF VMsDone, WaitDone, ReportDone, MarkDone, Report
<1>4. CASE \E w \in Workloads : CreateService(r, w) \/ RecordService(r, w) \/ MarkWorkload(r, w)
  BY <1>4 DEF CreateService, RecordService, MarkWorkload
<1>5. CASE \E s \in Slot : GoroutineStep(r, s)
  BY <1>5 DEF GoroutineStep, Launch, SendSecret, SecretReply, RecordSecret, SendVM, VMReply,
     Backoff, RecordVMCreated, RecordVMEvent, Poll
<1> QED
  BY <1>1, <1>2, <1>3, <1>4, <1>5 DEF RunStep, SerialStep

\* A run writes no 'deleted'.
LEMMA RunRows ==
  ASSUME TypeInv, NEW r \in Runs, RunStep(r) \/ Signal(r) \/ Crash(r), NEW o \in Obj,
         "deleted" \in rows'[r][o]
  PROVE  "deleted" \in rows[r][o]
<1>0. AuditTypeOK
  BY DEF TypeInv, RunTypeOK
<1>1. \A x : "deleted" \in Insert(r, x)[r][o] => "deleted" \in rows[r][o]
  BY <1>0 DEF Insert, AuditTypeOK
<1>2. \/ UNCHANGED rows
      \/ \E x : rows' = Insert(r, x)
  BY DEF RunStep, SerialStep, GoroutineStep, Signal, Crash, Start, PlanWorkload,
     PlanDone, EnsureNamespace, RecordService, MarkWorkload, ServicesDone, SecretsDone, VMsDone,
     WaitDone, Report, ReportDone, MarkDone, Complete, Launch, SendSecret, RecordSecret, SendVM,
     Backoff, RecordVMCreated, RecordVMEvent, Poll, CreateService, SecretReply, VMReply, auditVars,
     RecordResource, RecordVM
<1> QED
  BY <1>1, <1>2

\* Nothing is claimed of a cleanup that is not alive but its history.
LEMMA IdleSweep ==
  ASSUME NEW d \in Cleanups, Sweep(d), ~CleanupAlive(d), opt'[d] = opt[d], cpc'[d] = cpc[d],
         kind'[d] = kind[d], items'[d] = items[d], runIDs'[d] = runIDs[d],
         deleted'[d] = deleted[d], hits'[d] = hits[d], counts'[d] = counts[d]
  PROVE  Sweep(d)'
<1>1. cpc[d] \in {"new", "exited", "crashed"} /\ ~CleanupAlive(d)'
  BY DEF CleanupAlive
<1>2. Alone(d)' /\ ItemsFresh(d)' /\ RunsEnded(d)' /\ HitsScoped(d)' /\ HitsCollected(d)'
      /\ DeletedGone(d)'
  BY <1>1 DEF Sweep, History, Alone, ItemsFresh, RunsEnded, HitsScoped, HitsCollected, DeletedGone
<1>3. DeletedHits(d)' /\ Blank(d)'
  BY <1>1 DEF Sweep, History, DeletedHits, HitNames, Blank
<1>4. Previewed(d)' /\ Swept(d)' /\ RowsClosed(d)' /\ SelfRecord(d)'
  BY <1>1 DEF Previewed, Swept, RowsClosed, SelfRecord, Ok
<1> QED
  BY <1>2, <1>3, <1>4 DEF Sweep, History

\* A step of a run, which is the only process alive.
LEMMA RunSession ==
  ASSUME SessionInv, NEW r \in Runs, OthersIdle(r), RunProcess(r)
  PROVE  LabelsStarted' /\ DeletedRows' /\ \A c \in Cleanups : Sweep(c)'
<1>0. TypeInv /\ LabelsStarted /\ DeletedRows /\ \A c \in Cleanups : Sweep(c)
  BY DEF SessionInv, ConsentInv, WholeInv
<1>a. RunStep(r) \/ Signal(r) \/ Crash(r)
  BY DEF RunProcess
<1>b. ~Ended(r) /\ pc'[r] # "new" /\ NoRun \notin Runs
  BY <1>0, <1>a, RunPlaces, ClusterAssumption
<1>c. \A q \in Runs \ {r} : pc'[q] = pc[q] /\ rows'[q] = rows[q]
  BY <1>0, <1>a, OthersFrame, AuditFrame DEF Untouched, Unwritten
<1>1. LabelsStarted'
  <2> SUFFICES ASSUME NEW q \in Runs, NEW o \in Obj, owner'[o] = q PROVE pc'[q] # "new"
    BY DEF LabelsStarted
  <2>1. CASE q = r
    BY <1>b, <2>1
  <2>2. CASE q # r
    <3>1. owner[o] = q
      BY <1>0, <1>a, <1>b, <2>2, RunObjects DEF RunLabel
    <3> QED
      BY <1>0, <1>c, <2>2, <3>1 DEF LabelsStarted
  <2> QED
    BY <2>1, <2>2
<1>2. DeletedRows'
  <2> SUFFICES ASSUME NEW q \in Runs, NEW o \in Obj, "deleted" \in rows'[q][o]
               PROVE  Ended(q)' /\ ~(Live(o)' /\ owner'[o] = q)
    BY DEF DeletedRows
  <2>1. q # r
    BY <1>0, <1>a, <1>b, RunRows DEF DeletedRows
  <2>2. Ended(q) /\ ~(Live(o) /\ owner[o] = q)
    BY <1>0, <1>c, <2>1 DEF DeletedRows
  <2>3. owner'[o] = q => owner[o] = q /\ st'[o] = st[o]
    BY <1>0, <1>a, <1>b, <2>1, RunObjects DEF RunLabel
  <2> QED
    BY <1>c, <2>1, <2>2, <2>3 DEF Ended, Live
<1>3. ASSUME NEW c \in Cleanups PROVE Sweep(c)'
  <2>1. ~CleanupAlive(c)
    BY AuditAssumption DEF OthersIdle
  <2>2. UNCHANGED counts
    BY <1>0, <1>a, CleanupsFrame
  <2> QED
    BY <1>0, <2>1, <2>2, IdleSweep DEF RunProcess, cleanVars
<1> QED
  BY <1>1, <1>2, <1>3

\* The cluster's controllers bring nothing back.
LEMMA ClusterSession ==
  ASSUME SessionInv, ClusterStep \/ UNCHANGED vars
  PROVE  LabelsStarted' /\ DeletedRows' /\ \A c \in Cleanups : Sweep(c)'
<1>0. /\ ClusterTypeOK /\ LabelsStarted /\ DeletedRows /\ \A c \in Cleanups : Sweep(c)
  BY DEF SessionInv, ConsentInv, WholeInv, TypeInv, RunTypeOK
<1>1. UNCHANGED <<owner, ctx, auditVars, runVars, cleanVars>>
  BY DEF ClusterStep, ClusterNext, Boot, Finalize, NamespaceGone, vars, clusterVars
<1>2. \A o \in Obj : (Live(o)' => Live(o)) /\ (st[o] = "absent" => st'[o] = "absent")
  <2>1. CASE \E v \in VMName : Boot(v) \/ Finalize(v)
    BY <1>0, <2>1 DEF Boot, Finalize, VMObj, Obj, Live, ClusterTypeOK
  <2>2. CASE NamespaceGone
    BY <2>2 DEF NamespaceGone, Live
  <2>3. CASE UNCHANGED vars
    BY <2>3 DEF vars, clusterVars, Live
  <2> QED
    BY <2>1, <2>2, <2>3 DEF ClusterStep, ClusterNext
<1> USE <1>1 DEF auditVars, runVars, cleanVars
<1>3. LabelsStarted' /\ DeletedRows'
  BY <1>0, <1>2 DEF LabelsStarted, DeletedRows, Ended
<1>4. ASSUME NEW c \in Cleanups PROVE Sweep(c)'
  <2>1. /\ Alone(c)' /\ ItemsFresh(c)' /\ RunsEnded(c)' /\ HitsScoped(c)' /\ HitsCollected(c)'
        /\ DeletedHits(c)' /\ Blank(c)' /\ SelfRecord(c)' /\ RowsClosed(c)'
    BY <1>0 DEF Sweep, History, Alone, ItemsFresh, RunsEnded, HitsScoped, HitsCollected, DeletedHits, Blank,
       SelfRecord, RowsClosed, CleanupAlive, Alive, Ended, HitRuns, HitNames, Kept, Ok
  <2>2. DeletedGone(c)'
    <3>1. deleted[c] \subseteq Obj
      BY DEF SessionInv, ConsentInv, WholeInv, CleanTypeOK
    <3> QED
      BY <1>0, <1>2, <3>1 DEF Sweep, History, DeletedGone, CleanupAlive
  <2>3. Previewed(c)'
    BY <1>0, <1>2 DEF Sweep, History, Previewed, InScope
  <2>4. \A o \in Obj : Gone(c, o) => Gone(c, o)'
    BY <1>2 DEF Gone, InScope
  <2>5. Swept(c)'
    BY <1>0, <2>4 DEF Sweep, History, Swept, Ok
  <2> QED
    BY <2>1, <2>2, <2>3, <2>5 DEF Sweep, History
<1> QED
  BY <1>3, <1>4

-----------------------------------------------------------------------------
\* The loop over the items, one iteration.
LEMMA DeleteSession ==
  ASSUME SessionInv, NEW c \in Cleanups, NEW it \in Obj \X Label, DeleteItem(c, it), UNCHANGED runVars
  PROVE  Sweep(c)'
<1>0. WholeInv /\ LabelsStarted /\ Sweep(c) /\ NoRun \notin Runs
  BY ClusterAssumption DEF SessionInv, ConsentInv
<1>1. /\ cpc[c] = "delete" /\ cpc'[c] = "delete" /\ it \in items[c] /\ it[1] \in Obj
      /\ UNCHANGED <<owner, ctx, auditVars, opt, kind, found, cout, pc>>
      /\ items'[c] = items[c] \ {it}
      /\ runIDs'[c] = runIDs[c] \cup collectRunID(it)
      /\ \A o \in Obj : (Live(o)' => Live(o)) /\ (o # it[1] => st'[o] = st[o])
      /\ errors[c] => errors'[c]
  BY <1>0, DeleteFacts DEF runVars
<1>2. \/ /\ hits'[c] = hits[c] \cup {<<it[1], owner[it[1]]>>}
         /\ deleted'[c] = deleted[c] \cup {it[1]} /\ ~Live(it[1])'
      \/ /\ hits'[c] = hits[c] \cup {<<it[1], owner[it[1]]>>}
         /\ deleted'[c] = deleted[c] /\ errors'[c]
      \/ /\ hits'[c] = hits[c]
         /\ deleted'[c] = deleted[c] /\ (errors'[c] \/ ~Live(it[1])')
  BY <1>0, DeleteFacts
<1>3. it[2] = owner[it[1]] /\ opt[c].target \in {NoRun, it[2]} /\ CleanupAlive(c) /\ CleanupAlive(c)'
  BY <1>0, <1>1 DEF Sweep, History, ItemsFresh, CleanupAlive
<1>4. Alone(c)' /\ ItemsFresh(c)' /\ Blank(c)'
  BY <1>0, <1>1, <1>3 DEF Sweep, History, Alone, ItemsFresh, Blank, Alive
<1>5. RunsEnded(c)'
  <2> SUFFICES ASSUME NEW r \in runIDs'[c] PROVE Ended(r)'
    BY DEF RunsEnded
  <2>1. CASE r \in runIDs[c]
    BY <1>0, <1>1, <1>3, <2>1 DEF Sweep, History, RunsEnded, Ended
  <2>2. CASE r = it[2] /\ r # NoRun
    <3>1. r \in Runs
      BY <2>2 DEF Label
    <3> QED
      BY <1>0, <1>1, <1>3, <2>2, <3>1 DEF Sweep, History, Alone, Alive, LabelsStarted, Ended
  <2> QED
    BY <1>1, <2>1, <2>2 DEF collectRunID
<1>6. HitsScoped(c)'
  BY <1>0, <1>1, <1>2, <1>3 DEF Sweep, History, HitsScoped
<1>7. HitsCollected(c)'
  BY <1>0, <1>1, <1>2, <1>3 DEF Sweep, History, HitsCollected, HitRuns, collectRunID
<1>8. DeletedGone(c)'
  <2>1. deleted[c] \subseteq Obj
    BY <1>0 DEF WholeInv, CleanTypeOK
  <2> QED
    BY <1>0, <1>1, <1>2, <1>3, <2>1 DEF Sweep, History, DeletedGone
<1>9. DeletedHits(c)'
  <2>1. \/ HitNames(c)' = HitNames(c) \cup {it[1]} /\ deleted'[c] = deleted[c] \cup {it[1]}
        \/ HitNames(c)' = HitNames(c) \cup {it[1]} /\ deleted'[c] = deleted[c] /\ errors'[c]
        \/ HitNames(c)' = HitNames(c) /\ deleted'[c] = deleted[c]
    <3>1. ASSUME NEW p, p[1] = it[1], hits'[c] = hits[c] \cup {p}
          PROVE  HitNames(c)' = HitNames(c) \cup {it[1]}
      BY <3>1, Zenon DEF HitNames
    <3>3. <<it[1], owner[it[1]]>>[1] = it[1]
      OBVIOUS
    <3>2. hits'[c] = hits[c] => HitNames(c)' = HitNames(c)
      BY DEF HitNames
    <3> QED
      BY <1>2, <3>1, <3>2, <3>3, Zenon
  <2> QED
    BY <1>0, <1>1, <1>3, <2>1 DEF Sweep, History, DeletedHits, auditVars
<1>10. Swept(c)'
  <2>1. \A o \in Obj : Gone(c, o) => Gone(c, o)'
    BY <1>1 DEF Gone, InScope
  <2>3. Gone(c, it[1])'
    BY <1>1, <1>2 DEF Gone
  <2>4. \A o \in Obj : o # it[1] => <<o, owner[o]>> # it
    OBVIOUS
  <2> QED
    BY <1>0, <1>1, <2>1, <2>3, <2>4 DEF Sweep, History, Swept, Ok
<1> QED
  BY <1>1, <1>4, <1>5, <1>6, <1>7, <1>8, <1>9, <1>10 DEF Sweep, History, Previewed, RowsClosed, SelfRecord, Ok

\* Steps that delete and list nothing keep what the cleanup did so far true.
LEMMA HistoryFrame ==
  ASSUME NEW c \in Cleanups, History(c), UNCHANGED <<st, owner, pc>>, opt'[c] = opt[c],
         CleanupAlive(c)' => CleanupAlive(c), items'[c] = items[c], runIDs'[c] = runIDs[c],
         deleted'[c] = deleted[c], hits'[c] = hits[c], errors[c] => errors'[c],
         counts'[c] = counts[c] \/ counts'[c] = deleted[c]
  PROVE  History(c)'
<1>1. Alone(c)' /\ ItemsFresh(c)' /\ RunsEnded(c)'
  BY DEF History, Alone, ItemsFresh, RunsEnded, Alive, Ended
<1>2. HitsScoped(c)' /\ HitsCollected(c)' /\ DeletedGone(c)'
  BY DEF History, HitsScoped, HitsCollected, DeletedGone, HitRuns, Live
<1>3. DeletedHits(c)'
  BY DEF History, DeletedHits, HitNames
<1> QED
  BY <1>1, <1>2, <1>3 DEF History

\* cleanupE up to CleanupAll.
LEMMA PreviewSession ==
  ASSUME SessionInv, NEW c \in Cleanups, OthersIdle(c), UNCHANGED runVars,
         CleanupStart(c) \/ Preview(c) \/ Decide(c) \/ Prompt(c) \/ ExecuteStart(c)
  PROVE  Sweep(c)'
<1>0. CleanTypeOK /\ Sweep(c) /\ Consent(c)
  BY DEF SessionInv, ConsentInv, WholeInv
<1>1. /\ UNCHANGED <<st, owner, ctx, rows, linked, counts, opt, items, runIDs, deleted, errors, hits, pc>>
      /\ cpc[c] \in {"new", "preview", "prompt", "start"} /\ hits[c] = {}
  BY <1>0 DEF CleanupStart, Preview, Decide, Prompt, ExecuteStart, clusterVars, auditVars, runVars,
     Consent
<1>2. HitNames(c) = {} /\ HitRuns(c) = {} /\ HitNames(c)' = {} /\ HitRuns(c)' = {}
  BY <1>1 DEF HitNames, HitRuns
<1>3. CASE CleanupStart(c)
  <2>1. /\ cpc[c] = "new" /\ cpc'[c] \in {"preview", "exited"} /\ kind' = kind
        /\ items[c] = {} /\ runIDs[c] = {} /\ kind[c] = 1
    BY <1>0, <1>3 DEF CleanupStart, To, Sweep, Blank, CleanTypeOK
  <2>2. \A r \in Runs : ~Alive(r)
    BY AuditAssumption DEF OthersIdle
  <2>3. deleted[c] = {} /\ counts[c] = {}
    BY <1>0, <1>2 DEF Sweep, History, DeletedHits
  <2>4. History(c)'
    BY <1>1, <1>2, <2>1, <2>2, <2>3 DEF History, Alone, ItemsFresh, RunsEnded, HitsScoped,
       HitsCollected, DeletedGone, DeletedHits, Alive
  <2>5. Previewed(c)'
    BY <2>1 DEF Previewed
  <2> QED
    BY <2>1, <2>4, <2>5 DEF Sweep, Blank, Swept, RowsClosed, SelfRecord, Ok
<1>4. CASE ~CleanupStart(c)
  <2>1. CleanupAlive(c) /\ cpc[c] # "new"
    BY <1>4 DEF CleanupAlive, Preview, Decide, Prompt, ExecuteStart
  <2>2. History(c)'
    BY <1>0, <1>1, <2>1, HistoryFrame DEF Sweep
  <2>3. RowsClosed(c)' /\ (cpc'[c] # "mark" => SelfRecord(c)')
    BY <1>1, <1>2 DEF RowsClosed, SelfRecord
  <2>4. CASE Preview(c)
    <3>1. \/ /\ cpc'[c] = "preview" /\ kind'[c] = kind[c] + 1
             /\ found'[c] = found[c] \cup Selected(c, kind[c])
          \/ cpc'[c] = "complete" /\ cout'[c] = "error"
      BY <1>0, <2>4 DEF Preview, End, To, CleanTypeOK
    <3>2. cpc[c] = "preview" /\ kind[c] \in 1..6
      BY <1>0, <2>4, FiveKinds DEF Preview, CleanTypeOK
    <3>3. Previewed(c)'
      <4> SUFFICES ASSUME cpc'[c] = "preview", NEW i \in 1..5, NEW o \in Obj, i < kind'[c],
                          Kinds[i] = o[1], InScope(c, o)
                   PROVE  o \in found'[c] \/ st[o] = "absent"
        BY <1>1 DEF Previewed, InScope
      <4>1. CASE i < kind[c]
        BY <1>0, <3>1, <3>2, <4>1 DEF Sweep, Previewed
      <4>2. CASE i = kind[c]
        BY <3>1, <4>2 DEF Selected, Listed, InScope
      <4> QED
        BY <3>1, <3>2, <4>1, <4>2
    <3> QED
      BY <2>2, <2>3, <3>1, <3>3 DEF Sweep, Blank, Swept, Ok
  <2>5. CASE Decide(c)
    <3>1. /\ kind'[c] = 1 /\ cpc[c] = "preview" /\ kind[c] > 5
          /\ \/ cpc'[c] = "complete" /\ (found[c] = {} \/ opt[c].dry)
             \/ cpc'[c] \in {"prompt", "start"}
      BY <1>0, <2>5, FiveKinds DEF Decide, End, To, CleanTypeOK
    <3>2. found[c] = {} => \A o \in Obj : InScope(c, o) => st[o] = "absent"
      <4>1. \A i \in 1..5 : i < kind[c]
        BY <1>0, <3>1, FiveKinds DEF CleanTypeOK
      <4> QED
        BY <1>0, <3>1, <4>1, KindOf DEF Sweep, Previewed
    <3>3. found[c] = {} => \A o \in Obj : Gone(c, o)'
      BY <1>1, <3>2 DEF Gone, InScope, Live
    <3> QED
      BY <1>1, <2>2, <2>3, <3>1, <3>3 DEF Sweep, Blank, Previewed, Swept, Ok
  <2>6. CASE Prompt(c)
    <3>1. /\ kind' = kind /\ cpc[c] = "prompt"
          /\ \/ cpc'[c] = "start"
             \/ cpc'[c] = "complete" /\ cout'[c] = "aborted"
             \/ cpc'[c] = "exited"
      BY <1>0, <2>6 DEF Prompt, End, To, CleanTypeOK
    <3> QED
      BY <1>0, <2>2, <2>3, <3>1 DEF Sweep, Blank, Previewed, Swept, Ok
  <2>7. CASE ExecuteStart(c)
    <3>1. kind' = kind /\ cpc[c] = "start" /\ cpc'[c] = "list"
      BY <1>0, <2>7 DEF ExecuteStart, To, CleanTypeOK
    <3> QED
      BY <1>0, <2>2, <2>3, <3>1 DEF Sweep, Blank, Previewed, Swept, Ok
  <2> QED
    BY <1>4, <2>4, <2>5, <2>6, <2>7
<1> QED
  BY <1>3, <1>4

\* The loop over the kinds, and the namespace.
LEMMA KindsSession ==
  ASSUME SessionInv, NEW c \in Cleanups, UNCHANGED runVars, List(c) \/ NextKind(c) \/ DeleteNamespace(c)
  PROVE  Sweep(c)'
<1>0. CleanTypeOK /\ KindReached /\ Sweep(c)
  BY DEF SessionInv, ConsentInv, WholeInv
<1>1. /\ UNCHANGED <<st, owner, ctx, rows, linked, counts, opt, runIDs, deleted, hits, pc>>
      /\ cpc[c] \in {"list", "delete", "delns"} /\ CleanupAlive(c)
  BY DEF List, NextKind, DeleteNamespace, clusterVars, auditVars, runVars, CleanupAlive
<1>2. CASE List(c)
  <2>1. /\ cpc[c] = "list" /\ UNCHANGED <<kind, errors>>
        /\ \/ /\ cpc'[c] = "delete"
              /\ items'[c] = {<<o, owner[o]>> : o \in Selected(c, kind[c])}
           \/ cpc'[c] = "complete" /\ cout'[c] = "error" /\ items' = items
    BY <1>0, <1>2 DEF List, End, To, CleanTypeOK
  <2>2. History(c)'
    <3>1. CASE items' = items
      BY <1>0, <1>1, <2>1, <3>1, HistoryFrame DEF Sweep
    <3>2. CASE items'[c] = {<<o, owner[o]>> : o \in Selected(c, kind[c])}
      <4>1. ItemsFresh(c)'
        BY <1>1, <3>2 DEF ItemsFresh, Selected, Listed
      <4> QED
        BY <1>0, <1>1, <2>1, <4>1 DEF Sweep, History, Alone, RunsEnded, HitsScoped, HitsCollected,
           DeletedGone, DeletedHits, HitNames, HitRuns, Live, Alive, Ended
    <3> QED
      BY <2>1, <3>1, <3>2
  <2>3. \A o \in Obj : Gone(c, o)' <=> Gone(c, o)
    BY <1>1, <2>1 DEF Gone, InScope, Live
  <2>4. cpc'[c] = "delete" => \A o \in Obj :
          Kinds[kind[c]] = o[1] => Gone(c, o) \/ <<o, owner[o]>> \in items'[c]
    <3> SUFFICES ASSUME cpc'[c] = "delete", NEW o \in Obj, Kinds[kind[c]] = o[1],
                        InScope(c, o), Live(o)
                 PROVE  <<o, owner[o]>> \in items'[c]
      BY DEF Gone
    <3>1. o \in Selected(c, kind[c])
      BY DEF Selected, Listed, InScope, Live
    <3> QED
      BY <2>1, <3>1
  <2>5. Swept(c)'
    BY <1>0, <1>1, <2>1, <2>3, <2>4 DEF Sweep, Swept, Ok
  <2> QED
    BY <2>1, <2>2, <2>5 DEF Sweep, Blank, Previewed, RowsClosed, SelfRecord, Ok
<1>3. CASE NextKind(c)
  <2>1. /\ cpc[c] = "delete" /\ items[c] = {} /\ kind'[c] = kind[c] + 1 /\ UNCHANGED <<errors, items>>
        /\ kind[c] \in 1..5
        /\ \/ cpc'[c] = "list"
           \/ cpc'[c] \in {"delns", "link"} /\ kind[c] = 5
    BY <1>0, <1>3, FiveKinds DEF NextKind, To, CleanTypeOK, KindReached
  <2>2. History(c)'
    BY <1>0, <1>1, <2>1, HistoryFrame DEF Sweep
  <2>3. \A o \in Obj : Gone(c, o)' <=> Gone(c, o)
    BY <1>1, <2>1 DEF Gone, InScope, Live
  <2>4. \A i \in 1..5, o \in Obj : i < kind[c] + 1 /\ Kinds[i] = o[1] => Gone(c, o)
    <3>1. \A i \in 1..5 : i < kind[c] + 1 => i < kind[c] \/ i = kind[c]
      BY <2>1
    <3> QED
      BY <1>0, <2>1, <3>1 DEF Sweep, Swept
  <2>5. kind[c] = 5 => \A o \in Obj : Gone(c, o)
    BY <2>4, KindOf
  <2>6. Swept(c)'
    BY <2>1, <2>3, <2>4, <2>5 DEF Swept, Ok
  <2> QED
    BY <2>1, <2>2, <2>6 DEF Sweep, Blank, Previewed, RowsClosed, SelfRecord, Ok
<1>4. CASE DeleteNamespace(c)
  <2>1. /\ cpc[c] = "delns" /\ cpc'[c] = "link" /\ UNCHANGED <<items, kind>>
        /\ errors[c] => errors'[c]
    BY <1>0, <1>4 DEF DeleteNamespace, To, CleanTypeOK
  <2>2. History(c)'
    BY <1>0, <1>1, <2>1, HistoryFrame DEF Sweep
  <2>3. \A o \in Obj : Gone(c, o) => Gone(c, o)'
    BY <1>1, <2>1 DEF Gone, InScope, Live
  <2>4. Swept(c)'
    BY <1>0, <2>1, <2>3 DEF Sweep, Swept, Ok
  <2> QED
    BY <2>1, <2>2, <2>4 DEF Sweep, Blank, Previewed, RowsClosed, SelfRecord, Ok
<1> QED
  BY <1>2, <1>3, <1>4

\* The statements of an undisturbed cleanup are executed.
LEMMA KeptWrites ==
  ASSUME NEW c, Kept(c)
  PROVE  \A ok \in Executed(c) : ok = TRUE /\ Writes(c, ok)
  BY DEF Kept, Executed, Writes

\* markDeletionsInAudit, one UPDATE.
LEMMA MarkSession ==
  ASSUME SessionInv, NEW c \in Cleanups, MarkDeletions(c), Kept(c), ~errors[c],
         NEW h \in hits[c], h[2] \in Runs
  PROVE  /\ "created" \in rows'[h[2]][h[1]] => "created" \in rows[h[2]][h[1]]
         /\ Kinds[kind[c]] = h[1][1] => "created" \notin rows'[h[2]][h[1]]
<1> DEFINE os == {o \in deleted[c] : o[1] = Kinds[kind[c]]}
<1>0. AuditTypeOK /\ CleanTypeOK /\ History(c) /\ NoRun \notin Runs
  BY ClusterAssumption DEF SessionInv, ConsentInv, WholeInv, TypeInv, RunTypeOK, Sweep
<1>1. cpc[c] = "mark" /\ CleanupAlive(c) /\ h[1] \in Obj
  BY <1>0 DEF MarkDeletions, CleanupAlive, CleanTypeOK
<1>2. \/ UNCHANGED rows /\ (os = {} \/ runIDs[c] = {})
      \/ rows' = [r \in Runs |-> [o \in Obj |->
                   IF r \in runIDs[c] /\ o \in os /\ rows[r][o] # {} THEN {"deleted"} ELSE rows[r][o]]]
  BY KeptWrites DEF MarkDeletions, MarkDeletedByName
<1>3. Kinds[kind[c]] = h[1][1] => h[1] \in os /\ h[2] \in runIDs[c]
  <2>1. h[1] \in deleted[c]
    BY <1>0, <1>1 DEF History, DeletedHits, HitNames
  <2>2. h[2] \in runIDs[c]
    BY <1>0, <1>1 DEF History, HitsCollected, HitRuns
  <2> QED
    BY <2>1, <2>2
<1> HIDE DEF os
<1>4. CASE UNCHANGED rows /\ (os = {} \/ runIDs[c] = {})
  BY <1>3, <1>4
<1>5. CASE rows' = [r \in Runs |-> [o \in Obj |->
             IF r \in runIDs[c] /\ o \in os /\ rows[r][o] # {} THEN {"deleted"} ELSE rows[r][o]]]
  <2>1. rows'[h[2]][h[1]] = IF h[2] \in runIDs[c] /\ h[1] \in os /\ rows[h[2]][h[1]] # {}
                            THEN {"deleted"} ELSE rows[h[2]][h[1]]
    BY <1>1, <1>5
  <2> QED
    BY <1>3, <2>1
<1> QED
  BY <1>2, <1>4, <1>5

\* Execute after CleanupAll.
LEMMA RecordSession ==
  ASSUME SessionInv, NEW c \in Cleanups, UNCHANGED runVars, Link(c) \/ MarkDeletions(c) \/ Counts(c)
  PROVE  Sweep(c)'
<1>0. CleanTypeOK /\ AuditTypeOK /\ KindReached /\ Sweep(c)
  BY DEF SessionInv, ConsentInv, WholeInv, TypeInv, RunTypeOK
<1>1. /\ UNCHANGED <<st, owner, ctx, opt, items, runIDs, deleted, errors, hits, pc>>
      /\ cpc[c] \in {"link", "mark", "counts"} /\ CleanupAlive(c)
  BY DEF Link, MarkDeletions, Counts, clusterVars, runVars, CleanupAlive
<1>2. HitNames(c)' = HitNames(c) /\ HitRuns(c)' = HitRuns(c) /\ (Kept(c)' <=> Kept(c))
  BY <1>1 DEF HitNames, HitRuns, Kept
<1>3. \A o \in Obj : Gone(c, o)'
  <2>1. \A o \in Obj : Gone(c, o)
    BY <1>0, <1>1 DEF Sweep, Swept
  <2> QED
    BY <1>1, <2>1 DEF Gone, InScope, Live
<1>4. Kept(c) /\ ~errors[c] => HitNames(c) \subseteq deleted[c] /\ HitRuns(c) \subseteq runIDs[c]
  BY <1>0, <1>1 DEF Sweep, History, DeletedHits, HitsCollected
<1>5. CASE Link(c)
  <2>1. cpc[c] = "link" /\ cpc'[c] = "mark" /\ kind'[c] = 1 /\ UNCHANGED <<rows, counts>>
    BY <1>0, <1>5 DEF Link, To, CleanTypeOK
  <2>2. History(c)'
    BY <1>0, <1>1, <2>1, HistoryFrame DEF Sweep
  <2>3. Kept(c) => runIDs[c] \subseteq linked'[c]
    BY <1>0, <1>5, KeptWrites DEF Link, LinkCleanupToRuns, AuditTypeOK
  <2>4. SelfRecord(c)'
    BY <1>1, <1>2, <1>4, <2>1, <2>3 DEF SelfRecord, Ok
  <2>5. RowsClosed(c)' /\ Swept(c)' /\ Previewed(c)' /\ Blank(c)'
    BY <1>3, <2>1 DEF RowsClosed, Swept, Previewed, Blank, Ok
  <2> QED
    BY <2>2, <2>4, <2>5 DEF Sweep
<1>6. CASE MarkDeletions(c)
  <2>1. /\ cpc[c] = "mark" /\ kind'[c] = kind[c] + 1 /\ UNCHANGED <<linked, counts>>
        /\ kind[c] \in 1..5
        /\ \/ cpc'[c] = "mark"
           \/ cpc'[c] = "counts" /\ kind[c] = 5
    BY <1>0, <1>6, FiveKinds DEF MarkDeletions, To, CleanTypeOK, KindReached
  <2>2. History(c)'
    BY <1>0, <1>1, <2>1, HistoryFrame DEF Sweep
  <2>3. ASSUME Kept(c), ~errors[c], NEW h \in hits[c], NEW i \in 1..5, i < kind[c] + 1,
               Kinds[i] = h[1][1], h[2] \in Runs
        PROVE  "created" \notin rows'[h[2]][h[1]]
    <3>1. CASE i < kind[c]
      BY <1>0, <1>6, <2>1, <2>3, <3>1, MarkSession DEF Sweep, RowsClosed
    <3>2. CASE i = kind[c]
      BY <1>6, <2>3, <3>2, MarkSession
    <3> QED
      BY <2>1, <2>3, <3>1, <3>2
  <2>4. ASSUME Kept(c), ~errors[c], kind[c] = 5, NEW h \in hits[c], h[2] \in Runs
        PROVE  "created" \notin rows'[h[2]][h[1]]
    <3>1. h[1] \in Obj
      BY <1>0 DEF CleanTypeOK
    <3>2. PICK i \in 1..5 : Kinds[i] = h[1][1]
      BY <3>1, KindOf
    <3> QED
      BY <2>3, <2>4, <3>2
  <2>5. RowsClosed(c)'
    BY <1>1, <1>2, <2>1, <2>3, <2>4 DEF RowsClosed, Ok
  <2>6. SelfRecord(c)'
    BY <1>0, <1>1, <1>2, <2>1 DEF Sweep, SelfRecord, Ok
  <2> QED
    BY <1>3, <2>1, <2>2, <2>5, <2>6 DEF Sweep, Swept, Previewed, Blank, Ok
<1>7. CASE Counts(c)
  <2>1. cpc[c] = "counts" /\ cpc'[c] = "complete" /\ UNCHANGED <<rows, linked, kind>>
    BY <1>0, <1>7 DEF Counts, End, To, CleanTypeOK
  <2>2. counts'[c] = counts[c] \/ counts'[c] = deleted[c]
    BY <1>0, <1>7 DEF Counts, RecordCleanupCounts, AuditTypeOK
  <2>3. Kept(c) => counts'[c] = deleted[c]
    BY <1>0, <1>7, KeptWrites DEF Counts, RecordCleanupCounts, AuditTypeOK
  <2>4. History(c)'
    BY <1>0, <1>1, <2>1, <2>2, HistoryFrame DEF Sweep
  <2>5. RowsClosed(c)'
    BY <1>0, <1>1, <1>2, <2>1 DEF Sweep, RowsClosed, Ok
  <2>6. SelfRecord(c)'
    BY <1>0, <1>1, <1>2, <1>4, <2>1, <2>3 DEF Sweep, SelfRecord, Ok
  <2> QED
    BY <1>3, <2>1, <2>4, <2>5, <2>6 DEF Sweep, Swept, Previewed, Blank, Ok
<1> QED
  BY <1>5, <1>6, <1>7

\* The end of cleanupE, a signal, and the death of the process.
LEMMA StopSession ==
  ASSUME SessionInv, NEW c \in Cleanups, UNCHANGED runVars,
         CleanupComplete(c) \/ CleanupSignal(c) \/ CleanupCrash(c)
  PROVE  Sweep(c)'
<1>0. CleanTypeOK /\ AuditTypeOK /\ Sweep(c) /\ c \in Procs
  BY DEF SessionInv, ConsentInv, WholeInv, TypeInv, RunTypeOK, Procs
<1>1. CASE CleanupComplete(c)
  <2>1. /\ UNCHANGED <<st, owner, counts, opt, items, runIDs, deleted, errors, hits, pc>>
        /\ cpc[c] = "complete" /\ cpc'[c] = "exited"
    BY <1>0, <1>1 DEF CleanupComplete, To, CleanTypeOK, clusterVars, runVars
  <2>2. History(c)'
    BY <1>0, <2>1, HistoryFrame DEF Sweep, CleanupAlive
  <2> QED
    BY <2>1, <2>2 DEF Sweep, Swept, Previewed, Blank, RowsClosed, SelfRecord, Ok
<1>2. CASE CleanupSignal(c)
  <2>1. UNCHANGED <<st, owner, rows, linked, counts, cleanVars, pc>> /\ ctx'[c] = "cancelled"
    BY <1>0, <1>2 DEF CleanupSignal, clusterVars, auditVars, runVars, AuditTypeOK
  <2>2. History(c)'
    BY <1>0, <2>1, HistoryFrame DEF Sweep, cleanVars, CleanupAlive
  <2>3. Swept(c)' /\ Previewed(c)' /\ Blank(c)'
    BY <1>0, <2>1 DEF Sweep, Swept, Previewed, Blank, Ok, Gone, InScope, Live, cleanVars
  <2> QED
    BY <2>1, <2>2, <2>3 DEF Sweep, RowsClosed, SelfRecord, Kept
<1>3. CASE CleanupCrash(c)
  <2>1. UNCHANGED <<counts, opt, hits>> /\ cpc'[c] = "crashed" /\ deleted'[c] = {}
    BY <1>0, <1>3 DEF CleanupCrash, To, CleanTypeOK, auditVars
  <2>2. History(c)'
    BY <1>0, <2>1 DEF Sweep, History, Alone, ItemsFresh, RunsEnded, HitsScoped, HitsCollected,
       DeletedGone, DeletedHits, HitNames, CleanupAlive
  <2> QED
    BY <2>1, <2>2 DEF Sweep, Swept, Previewed, Blank, RowsClosed, SelfRecord, Ok
<1> QED
  BY <1>1, <1>2, <1>3

\* A cleanup marks the rows of runs that have ended, and of objects that it
\* has deleted.
LEMMA CleanupRows ==
  ASSUME SessionInv, NEW c \in Cleanups, CleanupProcess(c)
  PROVE  LabelsStarted' /\ DeletedRows'
<1>0. /\ WholeInv /\ AuditTypeOK /\ History(c) /\ LabelsStarted /\ DeletedRows
      /\ UNCHANGED pc /\ deleted[c] \subseteq Obj
  BY DEF SessionInv, ConsentInv, WholeInv, TypeInv, RunTypeOK, Sweep, CleanupProcess, runVars,
     CleanTypeOK
<1>1. UNCHANGED owner /\ \A o \in Obj : Live(o)' => Live(o)
  <2>1. CASE \E it \in Obj \X Label : DeleteItem(c, it)
    BY <1>0, <2>1, DeleteFacts
  <2>2. CASE ~\E it \in Obj \X Label : DeleteItem(c, it)
    <3>1. UNCHANGED <<st, owner>>
      BY <2>2 DEF CleanupProcess, CleanupStep, CleanupSignal, CleanupCrash, CleanupStart, Preview,
         Decide, Prompt, ExecuteStart, List, NextKind, DeleteNamespace, Link, MarkDeletions, Counts,
         CleanupComplete, clusterVars
    <3> QED
      BY <3>1 DEF Live
  <2> QED
    BY <2>1, <2>2
<1>2. LabelsStarted'
  BY <1>0, <1>1 DEF LabelsStarted
<1>3. ASSUME NEW r \in Runs, NEW o \in Obj, "deleted" \in rows'[r][o], "deleted" \notin rows[r][o]
      PROVE  Ended(r) /\ ~Live(o)
  <2>1. MarkDeletions(c)
    <3>1. ~UNCHANGED rows
      BY <1>3
    <3> QED
      BY <3>1 DEF CleanupProcess, CleanupStep, CleanupSignal, CleanupCrash, CleanupStart, Preview,
         Decide, Prompt, ExecuteStart, List, NextKind, DeleteNamespace, DeleteItem, Link, Counts,
         CleanupComplete, auditVars
  <2>2. r \in runIDs[c] /\ o \in deleted[c]
    BY <1>3, <2>1 DEF MarkDeletions, MarkDeletedByName
  <2>3. CleanupAlive(c)
    BY <2>1 DEF MarkDeletions, CleanupAlive
  <2> QED
    BY <1>0, <2>2, <2>3 DEF History, RunsEnded, DeletedGone
<1>4. DeletedRows'
  BY <1>0, <1>1, <1>3 DEF DeletedRows, Ended
<1> QED
  BY <1>2, <1>4

-----------------------------------------------------------------------------
\* The session starts with nothing on the cluster and nothing on record.
LEMMA InitSessionInv == Init => SessionInv
<1> SUFFICES ASSUME Init PROVE SessionInv
  OBVIOUS
<1>1. ConsentInv
  <2>1. ASSUME NEW c \in Cleanups PROVE Consent(c)
    BY DEF Init, CleanInit, RunsInit, AuditInit, Consent, Executing, Procs
  <2> QED
    BY <2>1, InitWholeInv DEF ConsentInv
<1>2. LabelsStarted /\ DeletedRows
  BY ClusterAssumption DEF Init, RunsInit, ClusterInit, AuditInit, LabelsStarted, DeletedRows
<1>3. ASSUME NEW c \in Cleanups PROVE Sweep(c)
  <2>1. /\ cpc[c] = "new" /\ kind[c] = 1 /\ items[c] = {} /\ runIDs[c] = {} /\ deleted[c] = {}
        /\ hits[c] = {} /\ counts[c] = {}
    BY DEF Init, CleanInit, RunsInit, AuditInit
  <2>2. History(c)
    BY <2>1 DEF History, Alone, ItemsFresh, RunsEnded, HitsScoped, HitsCollected, DeletedGone,
       DeletedHits, CleanupAlive
  <2> QED
    BY <2>1, <2>2 DEF Sweep, Blank, Previewed, Swept, RowsClosed, SelfRecord, Ok
<1> QED
  BY <1>1, <1>2, <1>3 DEF SessionInv

\* A session is one way in which the processes may interleave.
LEMMA SessionIsNext == [SessionNext]_vars => [Next]_vars
  BY DEF SessionNext, Next

\* Every step of a session keeps the invariant.
LEMMA NextSessionInv == SessionInv /\ [SessionNext]_vars => SessionInv'
<1> SUFFICES ASSUME SessionInv, [SessionNext]_vars PROVE SessionInv'
  OBVIOUS
<1>1. ConsentInv'
  BY SessionIsNext, NextConsentInv DEF SessionInv
<1>2. ASSUME NEW r \in Runs, OthersIdle(r), RunProcess(r) PROVE SessionInv'
  BY <1>1, <1>2, RunSession DEF SessionInv
<1>3. CASE ClusterStep \/ UNCHANGED vars
  BY <1>1, <1>3, ClusterSession DEF SessionInv
<1>4. ASSUME NEW c \in Cleanups, OthersIdle(c), CleanupProcess(c) PROVE SessionInv'
  <2>0. TypeInv /\ CleanTypeOK /\ UNCHANGED runVars /\ \A d \in Cleanups : Sweep(d)
    BY <1>4 DEF SessionInv, ConsentInv, WholeInv, CleanupProcess
  <2>1. LabelsStarted' /\ DeletedRows'
    BY <1>4, CleanupRows
  <2>2. Sweep(c)'
    <3>1. CASE CleanupSignal(c) \/ CleanupCrash(c) \/ CleanupComplete(c)
      BY <2>0, <3>1, StopSession
    <3>2. CASE CleanupStart(c) \/ Preview(c) \/ Decide(c) \/ Prompt(c) \/ ExecuteStart(c)
      BY <1>4, <2>0, <3>2, PreviewSession
    <3>3. CASE List(c) \/ NextKind(c) \/ DeleteNamespace(c)
      BY <2>0, <3>3, KindsSession
    <3>4. CASE \E it \in Obj \X Label : DeleteItem(c, it)
      BY <2>0, <3>4, DeleteSession
    <3>5. CASE Link(c) \/ MarkDeletions(c) \/ Counts(c)
      BY <2>0, <3>5, RecordSession
    <3> QED
      BY <1>4, <3>1, <3>2, <3>3, <3>4, <3>5 DEF CleanupProcess, CleanupStep
  <2>3. ASSUME NEW d \in Cleanups \ {c} PROVE Sweep(d)'
    <3>1. ~CleanupAlive(d)
      BY <1>4 DEF OthersIdle
    <3>2. UNCHANGED opt
      BY <1>4 DEF CleanupProcess, CleanupStep, CleanupSignal, CleanupCrash, CleanupStart, Preview,
         Decide, Prompt, ExecuteStart, List, NextKind, DeleteNamespace, DeleteItem, Link,
         MarkDeletions, Counts, CleanupComplete, cleanVars
    <3> QED
      BY <1>4, <2>0, <3>1, <3>2, OtherCleanups, IdleSweep DEF CleanupProcess
  <2> QED
    BY <1>1, <2>1, <2>2, <2>3 DEF SessionInv
<1> QED
  BY <1>2, <1>3, <1>4 DEF SessionNext

\* The invariant, once for all theorems.
LEMMA SessionInvariant == Session => []SessionInv
  BY InitSessionInv, NextSessionInv, PTL DEF Session

\* Labels are enough: however the runs before it ended, a cleanup that has
\* nothing to complain about leaves nothing live in its scope.
THEOREM SweepIsComplete == Session => []CleanupLeavesNothing
<1>1. SessionInv => CleanupLeavesNothing
  BY DEF SessionInv, Sweep, Swept, CleanupLeavesNothing, CleanSweep, Ok, Gone, InScope
<1> QED
  BY <1>1, SessionInvariant, PTL

\* cleanup --run-id removes objects of that run only.
THEOREM ScopeIsKept == Session => []CleanupScoped
<1>1. SessionInv => CleanupScoped
  BY DEF SessionInv, Sweep, History, HitsScoped, CleanupScoped
<1> QED
  BY <1>1, SessionInvariant, PTL

\* A detail row says 'deleted' only of an object its run no longer has on the
\* cluster, also when the same names were deployed again since.
THEOREM DeletedRowsAreTrue == Session => []DeletedRowIsTrue
<1>1. SessionInv => DeletedRowIsTrue
  BY DEF SessionInv, DeletedRows, DeletedRowIsTrue
<1> QED
  BY <1>1, SessionInvariant, PTL

\* After a clean, audited sweep no row says 'created' of what it removed.
THEOREM RemovedRowsClosed == Session => []RemovedRowsAreClosed
<1>1. SessionInv => RemovedRowsAreClosed
  BY DEF SessionInv, Sweep, RowsClosed, Kept, Ok, CleanSweep, RemovedRowsAreClosed
<1> QED
  BY <1>1, SessionInvariant, PTL

\* A cleanup counts only what it removed, and after a clean, audited sweep all
\* of it, and links the runs it belonged to.
THEOREM CleanupLedger == Session => []CleanupLedgerIsTrue
<1>1. SessionInv => CleanupLedgerIsTrue
  BY DEF SessionInv, Sweep, History, DeletedHits, SelfRecord, HitNames, HitRuns, Kept, Ok,
     CleanSweep, CleanupLedgerIsTrue
<1> QED
  BY <1>1, SessionInvariant, PTL
=============================================================================
