----------------------------- MODULE DeploySpec -----------------------------
(***************************************************************************)
(* What "virtwork run" promises, without goroutines, retries, audit or API *)
(* calls: objects appear in the order Services, Secrets, VMs, each group   *)
(* complete before the next begins; only planned objects appear, and only  *)
(* while the run is at work; success is reported of a complete deployment. *)
(***************************************************************************)
CONSTANTS
  Runs,      \* invocations of "virtwork run"
  Services,  \* names of Services
  VMs        \* names of VMs; a Secret is named after its VM

VARIABLES
  plan,      \* plan[r]: the Services and VMs run r asks for, and its flags
  phase,     \* phase[r]: how far run r has come
  services, secrets, vms,   \* the objects on the cluster
  up         \* the VMs whose instance is Running

dvars == <<plan, phase, services, secrets, vms, up>>

Plan == [need : SUBSET Services, want : SUBSET VMs, dry : BOOLEAN, wait : BOOLEAN]

Init ==
  /\ plan \in [Runs -> Plan]
  /\ phase = [r \in Runs |-> "idle"]
  /\ services = {} /\ secrets = {} /\ vms = {} /\ up = {}

Enter(r, p) == phase' = [phase EXCEPT ![r] = p]
AtWork(r) == phase[r] = "busy" /\ ~plan[r].dry

Begin(r) ==
  /\ phase[r] = "idle" /\ Enter(r, "busy")
  /\ UNCHANGED <<plan, services, secrets, vms, up>>

\* A Service whose creation is answered with an error ends the run, and may
\* be there all the same.
PutService(r, w) ==
  /\ AtWork(r) /\ w \in plan[r].need
  /\ services' = services \cup {w}
  /\ UNCHANGED phase \/ Enter(r, "error")
  /\ UNCHANGED <<plan, secrets, vms, up>>

PutSecret(r, v) ==
  /\ AtWork(r) /\ v \in plan[r].want
  /\ plan[r].need \subseteq services
  /\ secrets' = secrets \cup {v}
  /\ UNCHANGED <<plan, phase, services, vms, up>>

PutVM(r, v) ==
  /\ AtWork(r) /\ v \in plan[r].want
  /\ plan[r].need \subseteq services /\ plan[r].want \subseteq secrets
  /\ vms' = vms \cup {v}
  /\ UNCHANGED <<plan, phase, services, secrets, up>>

\* The cluster starts the instance of a VM.
Boot(v) ==
  /\ v \in vms /\ up' = up \cup {v}
  /\ UNCHANGED <<plan, phase, services, secrets, vms>>

Succeed(r) ==
  /\ phase[r] = "busy" /\ Enter(r, "ok")
  /\ plan[r].dry \/ plan[r].want \subseteq vms
  /\ plan[r].dry \/ (plan[r].wait => plan[r].want \subseteq up)
  /\ UNCHANGED <<plan, services, secrets, vms, up>>

GiveUp(r) ==
  /\ phase[r] \in {"idle", "busy"} /\ Enter(r, "error")
  /\ UNCHANGED <<plan, services, secrets, vms, up>>

\* The process is killed, possibly after its verdict.
Die(r) ==
  /\ phase[r] \in {"busy", "ok", "error"} /\ Enter(r, "dead")
  /\ UNCHANGED <<plan, services, secrets, vms, up>>

Next ==
  \/ \E r \in Runs : \/ Begin(r) \/ Succeed(r) \/ GiveUp(r) \/ Die(r)
                     \/ \E w \in Services : PutService(r, w)
                     \/ \E v \in VMs : PutSecret(r, v) \/ PutVM(r, v)
  \/ \E v \in VMs : Boot(v)

Spec == Init /\ [][Next]_dvars
=============================================================================
