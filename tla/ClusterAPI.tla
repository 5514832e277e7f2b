----------------------------- MODULE ClusterAPI -----------------------------
(***************************************************************************)
(* The Kubernetes/KubeVirt API server as virtwork uses it: one namespace   *)
(* and the objects virtwork labels app.kubernetes.io/managed-by=virtwork.  *)
(* The server is outside the repository; what it may answer is taken from  *)
(* the way internal/vm, internal/resources, internal/wait and              *)
(* internal/cleanup call it and from the errors they tell apart.           *)
(***************************************************************************)
EXTENDS Naturals, FiniteSets

CONSTANTS
  Runs,        \* run-ids: the UUIDs of the "virtwork run" invocations
  NoRun,       \* the empty virtwork/run-id label written under --no-audit
  Workloads,   \* workload names
  VMCount,     \* VMCount[w]: how many VMs workload w plans
  Faults       \* which API failures the environment may inject

ASSUME ClusterAssumption ==
  /\ VMCount \in [Workloads -> Nat \ {0}]
  /\ NoRun \notin Runs
  /\ Faults \subseteq {"transient", "fatal", "lost", "list", "delete", "connect"}

\* A VM name virtwork-<workload>-<i>, and the objects named after it.
VMName == UNION {{w} \X (1..VMCount[w]) : w \in Workloads}
VMObj(v) == <<"VM", v>>
SecretObj(v) == <<"Secret", v>>
ServiceObj(w) == <<"Service", w>>
Obj == ({"VM", "Secret"} \X VMName) \cup ({"Service"} \X Workloads)
Label == Runs \cup {NoRun}

VARIABLES
  ns,      \* the target namespace
  st,      \* st[o]: life cycle of object o
  owner    \* owner[o]: its virtwork/run-id label (meaningful while it exists)

clusterVars == <<ns, st, owner>>

ObjState == {"absent", "created", "running", "terminating"}

ClusterTypeOK ==
  /\ ns \in {"absent", "active", "terminating"}
  /\ st \in [Obj -> ObjState]
  /\ owner \in [Obj -> Label]

ClusterInit ==
  /\ ns \in {"absent", "active"}
  /\ st = [o \in Obj |-> "absent"]
  /\ owner = [o \in Obj |-> NoRun]

-----------------------------------------------------------------------------
\* cluster.Connect finds no usable configuration.
ConnectFails == "connect" \in Faults

\* client.Create.  "fatal" stands for every error isTransientError rejects;
\* a call that fails may still have been applied (the answer was lost), and
\* one whose context is cut while it is in flight fails either way.
Put(o, l) ==
  /\ ns = "active" /\ st[o] = "absent"
  /\ st' = [st EXCEPT ![o] = "created"]
  /\ owner' = [owner EXCEPT ![o] = l]

CreateResult == {"ok", "exists", "transient", "fatal"}

Create(o, l, cut, res) ==
  \/ /\ res = "ok"
     /\ Put(o, l)
  \/ /\ res = "exists"
     /\ ns = "active" /\ st[o] # "absent"
     /\ UNCHANGED <<st, owner>>
  \/ /\ \/ res = "transient" /\ "transient" \in Faults
        \/ res = "fatal" /\ ("fatal" \in Faults \/ cut \/ ns # "active")
     /\ UNCHANGED <<st, owner>>
  \/ /\ \/ res = "transient" /\ {"transient", "lost"} \subseteq Faults
        \/ res = "fatal" /\ ("lost" \in Faults \/ cut)
     /\ Put(o, l)

\* client.Delete: VirtualMachines carry finalizers and go away later, the
\* other kinds at once.  Deletion is by name: no UID or resourceVersion
\* precondition is sent.
DeleteResult == {"ok", "notfound", "error"}

Remove(o) ==
  /\ st[o] # "absent"
  /\ st' = [st EXCEPT ![o] = IF o[1] = "VM" THEN "terminating" ELSE "absent"]

Delete(o, cut, res) ==
  \/ res = "ok" /\ ~cut /\ Remove(o)
  \/ res = "notfound" /\ ~cut /\ st[o] = "absent" /\ UNCHANGED st
  \/ res = "error" /\ ("delete" \in Faults \/ cut) /\ UNCHANGED st
  \/ res = "error" /\ {"delete", "lost"} \subseteq Faults /\ Remove(o)

\* client.List in the namespace with MatchingLabels(managed-by[, run-id]).
Listed(kind, target) ==
  {o \in Obj : /\ o[1] = kind
               /\ st[o] # "absent"
               /\ target \in {NoRun, owner[o]}}

\* client.Get of the VirtualMachineInstance: it exists once the VM booted,
\* and while a VM is being torn down its instance may still say Running.
SeesRunning(v) == st[VMObj(v)] \in {"running", "terminating"}

-----------------------------------------------------------------------------
\* Steps of the cluster's own controllers.
Boot(v) ==
  /\ st[VMObj(v)] = "created"
  /\ st' = [st EXCEPT ![VMObj(v)] = "running"]
  /\ UNCHANGED <<ns, owner>>

Finalize(v) ==
  /\ st[VMObj(v)] = "terminating"
  /\ st' = [st EXCEPT ![VMObj(v)] = "absent"]
  /\ UNCHANGED <<ns, owner>>

\* A terminating namespace takes everything in it along.
NamespaceGone ==
  /\ ns = "terminating"
  /\ ns' = "absent"
  /\ st' = [o \in Obj |-> "absent"]
  /\ UNCHANGED owner

ClusterNext == (\E v \in VMName : Boot(v) \/ Finalize(v)) \/ NamespaceGone
=============================================================================
