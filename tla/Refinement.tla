----------------------------- MODULE Refinement -----------------------------
(***************************************************************************)
(* RunOrchestrator implements DeploySpec: the abstract state read off the  *)
(* cluster and off each run's program counter and outcome.                 *)
(***************************************************************************)
EXTENDS RunOrchestrator

Present(o) == st[o] # "absent"

planOf ==
  [r \in Runs |-> [need |-> Enabled(r) \cap NeedsService,
                   want |-> {Name(r, s) : s \in Planned(r)},
                   dry |-> cfg[r].dry, wait |-> cfg[r].wait]]

phaseOf ==
  [r \in Runs |-> IF pc[r] = "new" THEN "idle"
                  ELSE IF pc[r] = "crashed" THEN "dead"
                  ELSE IF outcome[r] = "none" THEN "busy" ELSE outcome[r]]

servicesOf == {w \in Workloads : Present(ServiceObj(w))}
secretsOf == {v \in VMName : Present(SecretObj(v))}
vmsOf == {v \in VMName : Present(VMObj(v))}
upOf == {v \in VMName : st[VMObj(v)] = "running"}

D == INSTANCE DeploySpec WITH
       Services <- Workloads, VMs <- VMName,
       plan <- planOf, phase <- phaseOf, services <- servicesOf,
       secrets <- secretsOf, vms <- vmsOf, up <- upOf

\* With every interleaving of its goroutines, retry, lost answer, signal and
\* crash, a run does only what DeploySpec allows: every Service it needs is
\* there before its first Secret, every Secret before its first VM, nothing
\* appears outside a plan or after a verdict, and success is never premature.
Implements == D!Spec
=============================================================================
