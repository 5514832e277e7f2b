------------------------ MODULE CleanupOrchestrator ------------------------
(***************************************************************************)
(* "virtwork cleanup": cleanupE (cmd/virtwork/main.go), the                *)
(* CleanupOrchestrator (internal/orchestrator/cleanup.go) and              *)
(* PreviewCleanup / CleanupAll (internal/cleanup/cleanup.go).  Nothing but *)
(* the labels on the cluster tells a cleanup what to delete.               *)
(***************************************************************************)
EXTENDS AuditDB, Sequences

CONSTANT CleanupConfigs   \* the invocations considered: [target, dry, yes, deleteNS]

ASSUME CleanupAssumption ==
  CleanupConfigs \subseteq [target : Label, dry : BOOLEAN, yes : BOOLEAN, deleteNS : BOOLEAN]

VARIABLES
  opt,      \* opt[c]: flags of cleanup c; target NoRun means no --run-id
  cpc,      \* cpc[c]: the call cleanup c is in
  kind,     \* kind[c]: index of the kind its list or mark loop has reached
  found,    \* found[c]: what the preview listed
  items,    \* items[c]: <<object, label>> of the current list, not deleted yet
  runIDs,   \* runIDs[c]: runIDSet
  deleted,  \* deleted[c]: the Deleted*Names
  errors,   \* errors[c]: whether result.Errors is non-empty
  cout,     \* cout[c]: what cleanupE will report or has returned
  hits      \* history: <<object, label>> that c's Delete requests applied to

cleanVars == <<opt, cpc, kind, found, items, runIDs, deleted, errors, cout, hits>>
cvars == <<clusterVars, ctx, auditVars, cleanVars>>

\* Mutant: a kind is forgotten.
KindsWithoutSecret == <<"VM", "Service", "DataVolume", "PersistentVolumeClaim">>

\* The order in which CleanupAll lists and deletes.
Kinds == <<"VM", "Service", "Secret", "DataVolume", "PersistentVolumeClaim">>

CPC == {"new", "preview", "prompt", "start", "list", "delete", "delns", "link", "mark",
        "counts", "complete", "exited", "crashed"}
COutcome == {"none", "ok", "error", "aborted", "unread"}

CleanInit ==
  /\ opt \in [Cleanups -> CleanupConfigs]
  /\ cpc = [c \in Cleanups |-> "new"]
  /\ kind = [c \in Cleanups |-> 1]
  /\ found = [c \in Cleanups |-> {}]
  /\ items = [c \in Cleanups |-> {}]
  /\ runIDs = [c \in Cleanups |-> {}]
  /\ deleted = [c \in Cleanups |-> {}]
  /\ errors = [c \in Cleanups |-> FALSE]
  /\ cout = [c \in Cleanups |-> "none"]
  /\ hits = [c \in Cleanups |-> {}]

-----------------------------------------------------------------------------
To(c, l) == cpc' = [cpc EXCEPT ![c] = l]
End(c, how) == To(c, "complete") /\ cout' = [cout EXCEPT ![c] = how]
ListFails(c) == ctx[c] = "cancelled" \/ "list" \in Faults
\* Mutant: the run-id label is left out of the selector.
SelectedAnyRun(c, i) == Listed(Kinds[i], NoRun)

Selected(c, i) == Listed(Kinds[i], opt[c].target)
AskFirst(c) == ~opt[c].yes /\ opt[c].target = NoRun

\* cleanupE up to the deferred CompleteExecution.
CleanupStart(c) ==
  /\ cpc[c] = "new"
  /\ \/ /\ ConnectFails
        /\ To(c, "exited") /\ cout' = [cout EXCEPT ![c] = "error"] /\ UNCHANGED log
     \/ \E ok \in Executed(c) :
          /\ StartExecution(c, ok)
          /\ To(c, IF ok THEN "preview" ELSE "exited")
          /\ cout' = [cout EXCEPT ![c] = IF ok THEN "none" ELSE "error"]
  /\ UNCHANGED <<clusterVars, ctx, wlRow, rows, events, linked, counts,
                 opt, kind, found, items, runIDs, deleted, errors, hits>>

\* PreviewCleanup, one list call.
Preview(c) ==
  /\ cpc[c] = "preview" /\ kind[c] <= Len(Kinds)
  /\ \/ /\ ctx[c] = "live"
        /\ found' = [found EXCEPT ![c] = @ \cup Selected(c, kind[c])]
        /\ kind' = [kind EXCEPT ![c] = @ + 1]
        /\ UNCHANGED <<cpc, cout>>
     \/ ListFails(c) /\ End(c, "error") /\ UNCHANGED <<found, kind>>
  /\ UNCHANGED <<clusterVars, ctx, auditVars, opt, items, runIDs, deleted, errors, hits>>

\* What cleanupE decides from the preview and the flags.
Decide(c) ==
  /\ cpc[c] = "preview" /\ kind[c] > Len(Kinds)
  /\ kind' = [kind EXCEPT ![c] = 1]
  /\ IF found[c] = {} \/ opt[c].dry THEN End(c, "ok")
     ELSE To(c, IF AskFirst(c) THEN "prompt" ELSE "start") /\ UNCHANGED cout
  /\ UNCHANGED <<clusterVars, ctx, auditVars, opt, found, items, runIDs, deleted, errors, hits>>

\* Mutant: no return after the abort is recorded.
PromptIgnored(c) ==
  /\ cpc[c] = "prompt"
  /\ To(c, "start")
  /\ cout' \in {[cout EXCEPT ![c] = "aborted"], cout}
  /\ UNCHANGED <<clusterVars, ctx, auditVars,
                 opt, kind, found, items, runIDs, deleted, errors, hits>>

\* "yes" confirms, anything else (end of input included) does not; a read
\* error is neither.
PromptForConfirmation == {"confirmed", "declined", "unreadable"}

\* A read error leaves cleanupE's err unset: the deferred CompleteExecution
\* does nothing.
Prompt(c) ==
  /\ cpc[c] = "prompt"
  /\ \E answer \in PromptForConfirmation :
       \/ answer = "confirmed" /\ To(c, "start") /\ UNCHANGED cout
       \/ answer = "declined" /\ End(c, "aborted")
       \/ answer = "unreadable" /\ To(c, "exited") /\ cout' = [cout EXCEPT ![c] = "unread"]
  /\ UNCHANGED <<clusterVars, ctx, auditVars,
                 opt, kind, found, items, runIDs, deleted, errors, hits>>

ExecuteStart(c) ==
  /\ cpc[c] = "start"
  /\ \E ok \in Executed(c) : RecordEvent(c, "cleanup_started", c, ok)
  /\ To(c, "list")
  /\ UNCHANGED <<clusterVars, ctx, log, wlRow, rows, linked, counts,
                 opt, kind, found, items, runIDs, deleted, errors, cout, hits>>

-----------------------------------------------------------------------------
\* CleanupAll, one kind: list it, then delete the items one by one.
List(c) ==
  /\ cpc[c] = "list" /\ kind[c] <= Len(Kinds)
  /\ \/ /\ ctx[c] = "live"
        /\ items' = [items EXCEPT ![c] = {<<o, owner[o]>> : o \in Selected(c, kind[c])}]
        /\ To(c, "delete") /\ UNCHANGED cout
     \/ ListFails(c) /\ End(c, "error") /\ UNCHANGED items
  /\ UNCHANGED <<clusterVars, ctx, auditVars,
                 opt, kind, found, runIDs, deleted, errors, hits>>

\* Mutants: no continue after an error; NotFound counted as deleted.
ConfirmedAlways(res) == TRUE
ConfirmedIfGone(res) == res \in {"ok", "notfound"}

\* Only a Delete that succeeded is counted and named in the result.
Confirmed(res) == res = "ok"

\* The label on the listed copy, unless it is empty.
collectRunID(it) == {it[2]} \ {NoRun}

\* One iteration: the run-id is collected before Delete is tried.
DeleteItem(c, it) ==
  /\ cpc[c] = "delete" /\ it \in items[c]
  /\ items' = [items EXCEPT ![c] = @ \ {it}]
  /\ runIDs' = [runIDs EXCEPT ![c] = @ \cup collectRunID(it)]
  /\ \E res \in DeleteResult :
       /\ Delete(it[1], ctx[c] = "cancelled", res)
       /\ deleted' = IF Confirmed(res) THEN [deleted EXCEPT ![c] = @ \cup {it[1]}] ELSE deleted
       /\ errors' = [errors EXCEPT ![c] = @ \/ res = "error"]
       /\ hits' = IF res = "ok" \/ st' # st
                  THEN [hits EXCEPT ![c] = @ \cup {<<it[1], owner[it[1]]>>}] ELSE hits
  /\ UNCHANGED <<ns, owner, ctx, auditVars, opt, cpc, kind, found, cout>>

\* Mutants: the loop steps over a kind; the loop does not advance.
NextKindSkips(c) ==
  /\ cpc[c] = "delete" /\ items[c] = {}
  /\ kind' = [kind EXCEPT ![c] = @ + 2]
  /\ To(c, IF kind[c] < Len(Kinds) THEN "list"
           ELSE IF opt[c].deleteNS THEN "delns" ELSE "link")
  /\ UNCHANGED <<clusterVars, ctx, auditVars,
                 opt, found, items, runIDs, deleted, errors, cout, hits>>
NextKindStays(c) ==
  /\ cpc[c] = "delete" /\ items[c] = {}
  /\ To(c, IF kind[c] < Len(Kinds) THEN "list"
           ELSE IF opt[c].deleteNS THEN "delns" ELSE "link")
  /\ UNCHANGED <<clusterVars, ctx, auditVars,
                 opt, kind, found, items, runIDs, deleted, errors, cout, hits>>

NextKind(c) ==
  /\ cpc[c] = "delete" /\ items[c] = {}
  /\ kind' = [kind EXCEPT ![c] = @ + 1]
  /\ To(c, IF kind[c] < Len(Kinds) THEN "list"
           ELSE IF opt[c].deleteNS THEN "delns" ELSE "link")
  /\ UNCHANGED <<clusterVars, ctx, auditVars,
                 opt, found, items, runIDs, deleted, errors, cout, hits>>

\* The namespace goes last; the request carries no dry-run option.
DeleteNamespace(c) ==
  /\ cpc[c] = "delns"
  /\ \/ ctx[c] = "live" /\ ns # "absent" /\ ns' = "terminating" /\ UNCHANGED errors
     \/ ctx[c] = "live" /\ ns = "absent" /\ UNCHANGED <<ns, errors>>
     \/ /\ ctx[c] = "cancelled" \/ "delete" \in Faults
        /\ errors' = [errors EXCEPT ![c] = TRUE] /\ UNCHANGED ns
  /\ To(c, "link")
  /\ UNCHANGED <<st, owner, ctx, auditVars,
                 opt, kind, found, items, runIDs, deleted, cout, hits>>

-----------------------------------------------------------------------------
\* Execute after CleanupAll: link, mark each kind, count.
Link(c) ==
  /\ cpc[c] = "link"
  /\ IF runIDs[c] = {} THEN UNCHANGED linked
     ELSE \E ok \in Executed(c) : LinkCleanupToRuns(c, runIDs[c], ok)
  /\ kind' = [kind EXCEPT ![c] = 1]
  /\ To(c, "mark")
  /\ UNCHANGED <<clusterVars, ctx, log, wlRow, rows, events, counts,
                 opt, found, items, runIDs, deleted, errors, cout, hits>>

\* Mutant: only the VMs are marked.
MarkVMsOnly(c) ==
  LET os == {o \in deleted[c] : o[1] = "VM"}
  IN
  /\ cpc[c] = "mark"
  /\ IF os = {} \/ runIDs[c] = {} THEN UNCHANGED rows
     ELSE \E ok \in Executed(c) : MarkDeletedByName(c, os, runIDs[c], ok)
  /\ To(c, "counts")
  /\ UNCHANGED <<clusterVars, ctx, log, wlRow, events, linked, counts,
                 opt, kind, found, items, runIDs, deleted, errors, cout, hits>>

\* markDeletionsInAudit: one UPDATE per kind, names times run-ids.
MarkDeletions(c) ==
  LET os == {o \in deleted[c] : o[1] = Kinds[kind[c]]}
  IN
  /\ cpc[c] = "mark"
  /\ IF os = {} \/ runIDs[c] = {} THEN UNCHANGED rows
     ELSE \E ok \in Executed(c) : MarkDeletedByName(c, os, runIDs[c], ok)
  /\ kind' = [kind EXCEPT ![c] = @ + 1]
  /\ To(c, IF kind[c] < Len(Kinds) THEN "mark" ELSE "counts")
  /\ UNCHANGED <<clusterVars, ctx, log, wlRow, events, linked, counts,
                 opt, found, items, runIDs, deleted, errors, cout, hits>>

Counts(c) ==
  /\ cpc[c] = "counts"
  /\ \E ok \in Executed(c), ev \in Executed(c) :
       /\ RecordCleanupCounts(c, deleted[c], ok)
       /\ RecordEvent(c, "cleanup_completed", c, ev)
  /\ End(c, "ok")
  /\ UNCHANGED <<clusterVars, ctx, log, wlRow, rows, linked,
                 opt, kind, found, items, runIDs, deleted, errors, hits>>

\* The end of cleanupE; individual delete errors do not make it fail.
CleanupStatus(c) ==
  CASE cout[c] = "ok" -> "success"
    [] cout[c] = "aborted" -> "aborted"
    [] OTHER -> IF ctx[c] = "cancelled" THEN "cancelled" ELSE "failed"

CleanupComplete(c) ==
  /\ cpc[c] = "complete"
  /\ \E ok \in Executed(c) : CompleteExecution(c, CleanupStatus(c), ok)
  /\ To(c, "exited")
  /\ UNCHANGED <<clusterVars, ctx, wlRow, rows, events, linked, counts,
                 opt, kind, found, items, runIDs, deleted, errors, cout, hits>>

-----------------------------------------------------------------------------
CleanupAlive(c) == cpc[c] \notin {"new", "exited", "crashed"}

CleanupSignal(c) ==
  /\ c \in MayStop /\ CleanupAlive(c) /\ ctx[c] = "live"
  /\ ctx' = [ctx EXCEPT ![c] = "cancelled"]
  /\ UNCHANGED <<clusterVars, auditVars, cleanVars>>

CleanupCrash(c) ==
  /\ c \in MayDie /\ CleanupAlive(c)
  /\ To(c, "crashed")
  /\ kind' = [kind EXCEPT ![c] = 1]
  /\ found' = [found EXCEPT ![c] = {}]
  /\ items' = [items EXCEPT ![c] = {}]
  /\ runIDs' = [runIDs EXCEPT ![c] = {}]
  /\ deleted' = [deleted EXCEPT ![c] = {}]
  /\ errors' = [errors EXCEPT ![c] = FALSE]
  /\ UNCHANGED <<clusterVars, ctx, auditVars, opt, cout, hits>>

CleanupStep(c) ==
  \/ CleanupStart(c) \/ Preview(c) \/ Decide(c) \/ Prompt(c) \/ ExecuteStart(c)
  \/ List(c) \/ NextKind(c) \/ DeleteNamespace(c)
  \/ \E it \in Obj \X Label : DeleteItem(c, it)
  \/ Link(c) \/ MarkDeletions(c) \/ Counts(c) \/ CleanupComplete(c)

\* Every variable of the cleanups has its type.
CleanTypeOK ==
  /\ opt \in [Cleanups -> CleanupConfigs]
  /\ cpc \in [Cleanups -> CPC]
  /\ kind \in [Cleanups -> 1..(Len(Kinds) + 1)]
  /\ found \in [Cleanups -> SUBSET Obj]
  /\ items \in [Cleanups -> SUBSET (Obj \X Label)]
  /\ runIDs \in [Cleanups -> SUBSET Runs]
  /\ deleted \in [Cleanups -> SUBSET Obj]
  /\ errors \in [Cleanups -> BOOLEAN]
  /\ cout \in [Cleanups -> COutcome]
  /\ hits \in [Cleanups -> SUBSET (Obj \X Label)]
=============================================================================
