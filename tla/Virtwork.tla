------------------------------ MODULE Virtwork ------------------------------
(***************************************************************************)
(* The whole tool: any number of "virtwork run" and "virtwork cleanup"     *)
(* processes over one namespace and one audit database.                    *)
(***************************************************************************)
EXTENDS RunOrchestrator, CleanupOrchestrator

vars == <<clusterVars, ctx, auditVars, runVars, cleanVars>>

Init == RunsInit /\ CleanInit

RunProcess(r) == (RunStep(r) \/ Signal(r) \/ Crash(r)) /\ UNCHANGED cleanVars
CleanupProcess(c) ==
  (CleanupStep(c) \/ CleanupSignal(c) \/ CleanupCrash(c)) /\ UNCHANGED runVars
ClusterStep == ClusterNext /\ UNCHANGED <<ctx, auditVars, runVars, cleanVars>>

\* Processes interleave freely.
Next ==
  \/ \E r \in Runs : RunProcess(r)
  \/ \E c \in Cleanups : CleanupProcess(c)
  \/ ClusterStep

Spec == Init /\ [][Next]_vars

\* One command at a time, as in a shell session: a process takes a step only
\* while no other one is alive.  Commands may still be killed at any point.
OthersIdle(p) ==
  /\ \A r \in Runs \ {p} : ~Alive(r)
  /\ \A c \in Cleanups \ {p} : ~CleanupAlive(c)

SessionNext ==
  \/ \E r \in Runs : OthersIdle(r) /\ RunProcess(r)
  \/ \E c \in Cleanups : OthersIdle(c) /\ CleanupProcess(c)
  \/ ClusterStep

Session == Init /\ [][SessionNext]_vars

\* At most two commands overlap at any time: one starts only while at most one
\* other is alive.  Which two they are changes as commands end and start.
RoomFor(p) ==
  Cardinality({r \in Runs \ {p} : Alive(r)} \cup {c \in Cleanups \ {p} : CleanupAlive(c)}) <= 1

OverlapNext ==
  \/ \E r \in Runs : RoomFor(r) /\ RunProcess(r)
  \/ \E c \in Cleanups : RoomFor(c) /\ CleanupProcess(c)
  \/ ClusterStep

Overlap == Init /\ [][OverlapNext]_vars

\* As for runs, a started cleanup that is not killed keeps being scheduled;
\* the person at the prompt answers, or the input ends.
Fairness ==
  /\ \A r \in Runs : WF_vars(pc[r] # "new" /\ RunStep(r) /\ UNCHANGED cleanVars)
  /\ \A c \in Cleanups : WF_vars(cpc[c] # "new" /\ CleanupStep(c) /\ UNCHANGED runVars)

FairSession == Session /\ Fairness

-----------------------------------------------------------------------------
Live(o) == st[o] \in {"created", "running"}

\* cleanup c has gone through CleanupAll and has nothing to complain about.
CleanSweep(c) ==
  /\ cpc[c] = "complete" /\ cout[c] = "ok" /\ ~opt[c].dry
  /\ ~errors[c] /\ ctx[c] = "live" /\ ~DBMayFail

\* Every variable has its type.
TypeOK == RunTypeOK /\ CleanTypeOK

\* Labels are enough: however the runs before it ended (killed between two
\* calls, interrupted, failed half way, answers lost), a cleanup that reports
\* no error leaves nothing in its scope on the cluster, except VMs that are
\* already terminating.
CleanupLeavesNothing ==
  \A c \in Cleanups : CleanSweep(c) =>
    \A o \in Obj : opt[c].target \in {NoRun, owner[o]} => ~Live(o)

\* cleanup --run-id removes objects of that run only.  (In a session; see
\* ScopedUnlessReplaced and OnlyMatchingDeleted for free interleaving.)
CleanupScoped ==
  \A c \in Cleanups : opt[c].target # NoRun =>
    \A h \in hits[c] : h[2] = opt[c].target

\* Cleanup d may have taken o off the cluster: a Delete of its reached o, or
\* it may have got as far as deleting the namespace (after a crash only the
\* flag is left to go by).
RemovesNamespace(d) ==
  /\ opt[d].deleteNS /\ ~opt[d].dry
  /\ \/ cpc[d] \in {"link", "mark", "counts", "crashed"}
     \/ cpc[d] \in {"complete", "exited"} /\ cout[d] = "ok" /\ found[d] # {}
MayHaveRemoved(d, o) == RemovesNamespace(d) \/ \E l \in Label : <<o, l>> \in hits[d]

\* However runs and cleanups interleave, cleanup --run-id deletes by name from
\* lists that are stale when used, and what it hits carries another label only
\* if another cleanup may have removed the object that was listed: no run, and
\* no controller of the cluster, can bring that about.
ScopedUnlessReplaced ==
  \A c \in Cleanups : opt[c].target # NoRun =>
    \A h \in hits[c] :
      h[2] = opt[c].target \/ \E d \in Cleanups \ {c} : MayHaveRemoved(d, h[1])

\* A dry run, a declined prompt and an empty preview delete nothing, whatever
\* other processes put on the cluster after the preview.
UnconfirmedDeletesNothing ==
  \A c \in Cleanups :
    \/ opt[c].dry \/ log[c] = "aborted" \/ cout[c] = "aborted"
    \/ cpc[c] \in {"preview", "prompt"}
    \/ cpc[c] \in {"complete", "exited"} /\ found[c] = {}
    => hits[c] = {}

\* A detail row says 'deleted' only of an object that its run no longer has
\* on the cluster: names whose Delete failed are not marked.
DeletedRowIsTrue ==
  \A r \in Runs, o \in Obj : "deleted" \in rows[r][o] => ~(Live(o) /\ owner[o] = r)

\* After a clean sweep under an auditor no detail row still says 'created' of
\* an object the sweep removed, if it is the row of the run whose label the
\* object carried.
RemovedRowsAreClosed ==
  \A c \in Cleanups \ NoAudit : CleanSweep(c) =>
    \A h \in hits[c] : h[2] \in Runs => "created" \notin rows[h[2]][h[1]]

\* What a cleanup writes about itself: it never counts an object it did not
\* remove, and after a clean sweep under an auditor it counts all it removed
\* and links at least the runs they belonged to.
CleanupLedgerIsTrue ==
  \A c \in Cleanups :
    /\ counts[c] \subseteq {h[1] : h \in hits[c]}
    /\ CleanSweep(c) /\ c \notin NoAudit =>
         /\ counts[c] = {h[1] : h \in hits[c]}
         /\ {h[2] : h \in hits[c]} \ {NoRun} \subseteq linked[c]

\* Every started cleanup comes to an end and, unless it is killed or
\* interrupted, or the answer to its prompt cannot be read, completes its
\* audit_log row: declined, confirmed, dry, with an empty preview or a failed
\* list.
CleanupTerminates ==
  \A c \in Cleanups : cpc[c] # "new" ~>
    /\ cpc[c] \in {"exited", "crashed"}
    /\ \/ cpc[c] = "crashed" \/ ctx[c] = "cancelled" \/ DBMayFail
       \/ cout[c] = "unread" \/ log[c] # "in_progress"

-----------------------------------------------------------------------------
\* Statements of the documentation that the code does not keep.

\* docs/guide/02-deploying-workloads.md on cleanup --run-id: "Other runs
\* remain untouched."  A VM of another run keeps its cloud-init Secret.
OtherRunsUntouched ==
  \A c \in Cleanups : opt[c].target # NoRun /\ cpc[c] = "exited" =>
    \A v \in VMName : Live(VMObj(v)) /\ owner[VMObj(v)] # opt[c].target =>
      st[SecretObj(v)] # "absent"

\* docs/architecture.md on idempotency: "AlreadyExists = skip | Safe to
\* re-run."  A run that succeeds with nothing else going on has live VMs.
SafeToRerun ==
  \A r \in Runs : pc[r] = "complete" /\ outcome[r] = "ok" /\ ~cfg[r].dry =>
    \A s \in Planned(r) : Live(VMObj(Name(r, s)))

\* docs/guide/02-deploying-workloads.md on cleanup --run-id: "Only resources
\* with the matching virtwork/run-id label are deleted."
OnlyMatchingDeleted ==
  \A c \in Cleanups, h \in Obj \X Label :
    opt[c].target # NoRun /\ h \in hits[c] => h[2] = opt[c].target
=============================================================================
