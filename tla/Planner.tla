------------------------------ MODULE Planner ------------------------------
(***************************************************************************)
(* One invocation of the tool from the command line to the objects it will *)
(* ask the cluster for: configuration, workload names, auditor, catalog,   *)
(* plan, VM specifications.  RunOrchestrator and CleanupOrchestrator say   *)
(* what happens to the objects; this module says which ones they are.      *)
(***************************************************************************)
EXTENDS BuiltIns, FiniteSetsExt

CONSTANTS
  Invocations,   \* command lines, environments and configuration files
  Catalogs       \* directories of catalog entries, by path

\* What the Go types say: lists of names are []string, and the sections, the
\* roles and the disks of a file are structures; a Service is there or not.
ASSUME InvocationsTyped ==
  \A i \in Invocations :
    /\ FromCatalog(i) \in Seq(Seq(STRING))
    /\ ListOr(i.flagList, "workloads", <<>>) \in Seq(Seq(STRING))
    /\ \A n \in DOMAIN i.sections :
         LET s == i.sections[n]
         IN DOMAIN s = DOMAIN NoSection /\ s.vmCount \in Number /\ s.cpuCores \in Number
RoleSpec == [role : Seq(STRING), count : Number]
StorageDefinition == [name : Seq(STRING), serial : STRING, mount : Seq(STRING), size : STRING]
ASSUME CatalogsTyped ==
  \A d \in DOMAIN Catalogs : \A n \in DOMAIN Catalogs[d] :
    LET m == Catalogs[d][n].manifest
    IN /\ n \in Seq(STRING)
       /\ m.roles \in Seq(RoleSpec) /\ m.storage \in Seq(StorageDefinition)
       /\ \A s, t \in m.service : s = t

VARIABLES
  in,         \* the invocation
  stage,      \* the next step; "done" or "failed" at the end
  failedAt,   \* the step that returned an error
  cfg,        \* *config.Config
  names,      \* the built-in workloads asked for
  left,       \* entries or workloads the current loop has still to visit
  loaded,     \* name -> Workload, of the catalog entries registered so far
  auditor,    \* "none" | "noop" | the path of the database
  instances,  \* the names in workloadInstances
  roles,      \* RoleSpecs the current workload has still to plan
  plans       \* []VMPlan with the VirtualMachine made of each

pvars == <<in, stage, failedAt, cfg, names, left, loaded, auditor, instances, roles, plans>>

PlannerInit ==
  /\ in \in Invocations
  /\ stage = "start" /\ failedAt = "" /\ cfg = None /\ names = <<>> /\ left = <<>>
  /\ loaded = None /\ auditor = "none" /\ instances = {} /\ roles = <<>> /\ plans = <<>>

registry == loaded ++ DefaultRegistry

Given(k) == k \in DOMAIN in.flag \cup DOMAIN in.flagList

\* The step ends in an error under "fails" and goes on to "next" otherwise.
Advance(fails, next) ==
  /\ stage' = IF fails THEN "failed" ELSE next
  /\ failedAt' = IF fails THEN stage ELSE failedAt

-----------------------------------------------------------------------------
LoadConfig ==
  /\ stage = "start" /\ in.cmd \in {"run", "cleanup"}
  /\ Advance(LoadFails(in), IF in.cmd = "run" THEN "names" ELSE "audit")
  /\ cfg' = IF LoadFails(in) THEN None ELSE Assemble(in)
  /\ UNCHANGED <<in, names, left, loaded, auditor, instances, roles, plans>>

\* --workloads defaults to all; naming catalog entries alone deploys only those.
SelectNames ==
  /\ stage = "names"
  /\ LET asked == IF cfg.fromCatalog # <<>> /\ ~Given("workloads") THEN <<>>
                  ELSE ListOr(in.flagList, "workloads", AllWorkloadNames)
     IN /\ names' = asked
        /\ Advance(\/ ~(ToSet(asked) \subseteq DOMAIN DefaultRegistry)
                   \/ asked = <<>> /\ cfg.fromCatalog = <<>>, "audit")
  /\ UNCHANGED <<in, cfg, left, loaded, auditor, instances, roles, plans>>

\* initAuditor, in run and in cleanup.
initAuditor ==
  /\ stage = "audit"
  /\ LET off == GetBool(ListOr(in.flag, "no-audit", "false")) \/ ~cfg.audit
     IN /\ Advance(~off /\ ~in.dbOpens, IF in.cmd = "run" THEN "load" ELSE "done")
        /\ auditor' = IF off THEN "noop" ELSE ListOr(in.flag, "audit-db", cfg.auditDB)
  /\ left' = cfg.fromCatalog
  /\ UNCHANGED <<in, cfg, names, loaded, instances, roles, plans>>

CatalogAt(dir) == IF dir \in DOMAIN Catalogs THEN Catalogs[dir] ELSE None

\* One turn of the loop over cfg.FromCatalog in Run.
LoadEntry ==
  /\ stage = "load" /\ left # <<>>
  /\ LET name == Head(left)
         catalog == CatalogAt(cfg.catalogDir)
         fails == name \in DOMAIN registry \/ ~Loads(catalog, name)
     IN /\ Advance(fails, "load")
        /\ loaded' = IF fails THEN loaded
                     ELSE Entry(name, Factory(name, catalog[name])) ++ loaded
  /\ left' = Tail(left)
  /\ UNCHANGED <<in, cfg, names, auditor, instances, roles, plans>>

\* The workload names Run plans, in order.
Requested == names \o cfg.fromCatalog

EntriesLoaded ==
  /\ stage = "load" /\ left = <<>>
  /\ Advance(FALSE, "plan")
  /\ left' = Requested
  /\ UNCHANGED <<in, cfg, names, loaded, auditor, instances, roles, plans>>

-----------------------------------------------------------------------------
\* The WorkloadConfig of a workload: flags overridden by its section.
Positive(n, default) == IF n > 0 THEN n ELSE default
VMCount(name) ==
  Positive(Section(cfg.sections, name).vmCount, GetInt(ListOr(in.flag, "vm-count", "1")))
CPUCores(name) == Positive(Section(cfg.sections, name).cpuCores, cfg.cpuCores)
Memory(name) ==
  LET memory == Section(cfg.sections, name).memory IN IF memory # "" THEN memory ELSE cfg.memory
Params(name) == Section(cfg.sections, name).params
Disabled(name) == Section(cfg.sections, name).enabled = {FALSE}

\* Mutant: vm-count is taken for every role.
CountFlagOnly(name, r) == Positive(VMCount(name), 1)

\* RoleDistribution and VMCount: the manifest's count of a role, else vm-count.
Count(name, r) == Positive(r.count, Positive(VMCount(name), 1))

Size(s) == IF s.size = "disk-size" THEN cfg.diskSize ELSE s.size

Fill(w, name, content) ==
  IF w.builtIn THEN Sprintf(w, Params(name), content)
  ELSE substituteParams(w, Params(name), content)

\* diskSetupScript: the disk of a serial is mounted at a place.
Setups(w, name) ==
  {<<w.storage[i].serial,
     IF w.builtIn THEN Fill(w, name, w.storage[i].mount) ELSE w.storage[i].mount>> :
     i \in DOMAIN w.storage}

\* cloudinit.BuildCloudConfig with the credentials BaseWorkload adds: files,
\* one setup script per disk, and the user.
BuildCloudConfig(w, name, role) ==
  [files |-> [f \in DOMAIN w.files[role] |-> Fill(w, name, w.files[role][f])],
   setups |-> Setups(w, name),
   dials |-> {[service |-> s, namespace |-> cfg.namespace] : s \in w.dials[role]},
   users |-> IF cfg.sshUser = "" THEN {}
             ELSE {[name |-> cfg.sshUser, password |-> cfg.sshPassword, keys |-> cfg.sshKeys]}]

\* CloudInitUserdata and UserdataForRole return an error.
UserdataFails(w, name) ==
  name = <<"tps">> /\ ~parseFileSize(GetParam(w, Params(name), <<"file-size">>))

\* Mutant: the role is left out of the name.
VMNameNoRole(name, role, i) == Prefix(name) \o <<Numeral(i)>>

VMName(name, role, i) == Prefix(name) \o role \o <<Numeral(i)>>

Labels(w, name, role) ==
  Entry("app", Prefix(name)) ++ Entry("component", name) ++ (IF w.multi THEN Entry("role", role) ELSE None)

\* Mutant: the volumes keep the names of the templates.
NamespaceTemplatesOnly(storage, vm) ==
  [templates |-> [i \in DOMAIN storage |-> [name |-> storage[i].dv \o vm, size |-> Size(storage[i])]],
   volumes |-> [i \in DOMAIN storage |-> [name |-> storage[i].name, source |-> storage[i].dv]]]

\* The templates of a VM and the volumes that refer to them, renamed after it.
NamespaceDataVolumes(storage, vm) ==
  [templates |-> [i \in DOMAIN storage |-> [name |-> storage[i].dv \o vm, size |-> Size(storage[i])]],
   volumes |-> [i \in DOMAIN storage |-> [name |-> storage[i].name, source |-> storage[i].dv \o vm]]]

\* The disks and volumes BuildVMSpec puts before those of the workload.
Disks(storage) ==
  <<[name |-> <<"containerdisk">>, serial |-> ""], [name |-> <<"cloudinitdisk">>, serial |-> ""]>>
  \o [i \in DOMAIN storage |-> [name |-> storage[i].name, serial |-> storage[i].serial]]
Volumes(vm, extra) ==
  <<[name |-> <<"containerdisk">>, source |-> <<cfg.image>>],
    [name |-> <<"cloudinitdisk">>, source |-> vm \o <<"cloudinit">>]>> \o extra

VM(w, name, role, i) ==
  LET vm == VMName(name, role, i)
      dv == NamespaceDataVolumes(w.storage, vm)
  IN [workload |-> name, role |-> role, name |-> vm, namespace |-> cfg.namespace,
      image |-> cfg.image, cpu |-> CPUCores(name), memory |-> Memory(name),
      labels |-> Labels(w, name, role), userdata |-> BuildCloudConfig(w, name, role),
      disks |-> Disks(w.storage), volumes |-> Volumes(vm, dv.volumes), templates |-> dv.templates]

\* Mutant: the last VM of a role is left out.
RoleVMsButOne(w, name, r) == [i \in 1..(Count(name, r) - 1) |-> VM(w, name, r.role, i - 1)]

RoleVMs(w, name, r) == [i \in 1..Count(name, r) |-> VM(w, name, r.role, i - 1)]

\* A turn of the loop of planVMs: a workload that is switched off is skipped;
\* the others are checked and then planned role by role.
SkipWorkload ==
  /\ stage = "plan" /\ left # <<>> /\ Disabled(Head(left))
  /\ Advance(FALSE, "plan")
  /\ left' = Tail(left)
  /\ UNCHANGED <<in, cfg, names, loaded, auditor, instances, roles, plans>>

PlanWorkload ==
  /\ stage = "plan" /\ left # <<>> /\ ~Disabled(Head(left))
  /\ LET name == Head(left)
         w == registry[name]
         fails == \/ ~ValidateParams(w, Params(name))
                  \/ \E i \in DOMAIN w.storage : Size(w.storage[i]) \notin Quantity
     IN /\ Advance(fails, "roles")
        /\ instances' = IF fails THEN instances ELSE instances \cup {name}
        /\ roles' = IF fails THEN <<>> ELSE w.roles
  /\ UNCHANGED <<in, cfg, names, left, loaded, auditor, plans>>

PlanRole ==
  /\ stage = "roles" /\ roles # <<>>
  /\ LET name == Head(left)
         w == registry[name]
     IN /\ Advance(UserdataFails(w, name), "roles")
        /\ plans' = IF UserdataFails(w, name) THEN plans ELSE plans \o RoleVMs(w, name, Head(roles))
  /\ roles' = Tail(roles)
  /\ UNCHANGED <<in, cfg, names, left, loaded, auditor, instances>>

WorkloadPlanned ==
  /\ stage = "roles" /\ roles = <<>>
  /\ Advance(FALSE, "plan")
  /\ left' = Tail(left)
  /\ UNCHANGED <<in, cfg, names, loaded, auditor, instances, roles, plans>>

\* BuildVMSpec of every plan, in a dry run and in createVMs.
BuildVMSpecs ==
  /\ stage = "plan" /\ left = <<>>
  /\ Advance(\E i \in DOMAIN plans : \/ plans[i].cpu <= 0
                                     \/ plans[i].image = ""
                                     \/ plans[i].memory \notin Quantity, "done")
  /\ UNCHANGED <<in, cfg, names, left, loaded, auditor, instances, roles, plans>>

-----------------------------------------------------------------------------
\* validateE: the flag or the home directory; named entries or all of them.
Validated ==
  /\ stage = "start" /\ in.cmd = "validate"
  /\ LET dir == ListOr(in.flag, "catalog-dir", "")
         path == IF dir = "" THEN "home" ELSE dir
         catalog == CatalogAt(path)
         entries == IF in.args # {} THEN in.args ELSE DOMAIN catalog
     IN Advance(\/ dir = "" /\ ~in.home
                \/ path \notin DOMAIN Catalogs
                \/ entries = {}
                \/ \E name \in entries : ~ValidatesOK(catalog, name), "done")
  /\ UNCHANGED <<in, cfg, names, left, loaded, auditor, instances, roles, plans>>

Exited == stage \in {"done", "failed"} /\ UNCHANGED pvars

PlannerNext ==
  \/ LoadConfig \/ SelectNames \/ initAuditor
  \/ LoadEntry \/ EntriesLoaded
  \/ SkipWorkload \/ PlanWorkload \/ PlanRole \/ WorkloadPlanned \/ BuildVMSpecs
  \/ Validated
  \/ Exited

PlannerSpec == PlannerInit /\ [][PlannerNext]_pvars

-----------------------------------------------------------------------------
Planned == stage = "done" /\ in.cmd = "run"

\* What the command asks for: names in order, disabled ones left out.
Asked == SelectSeq(Requested, LAMBDA n : ~Disabled(n))

\* The Services of the workloads planned: each is made in the namespace given to
\* the registry, whereas a client dials the one given to UserdataForRole.
Services ==
  UNION {{[workload |-> n, namespace |-> cfg.namespace, service |-> s] : s \in registry[n].service} :
           n \in instances}
Selects(s, vm) == \A k \in DOMAIN s.selector : k \in DOMAIN vm.labels /\ vm.labels[k] = s.selector[k]

\* Names are built by joining words with dashes and nothing checks them against
\* each other; a second VM or Service of a name is silently taken for one that
\* is already there.  Apart from a workload asked for twice, a role declared
\* twice, and a name that another one begins with, VM names never collide;
\* and Services collide only with an entry named after a built-in Service.
NamesDistinct ==
  Planned =>
    /\ \A i, j \in DOMAIN plans : i < j /\ plans[i].name = plans[j].name =>
         LET v == plans[i].workload
             w == plans[j].workload
         IN \/ v = w /\ \E a, b \in DOMAIN Requested : a # b /\ Requested[a] = v /\ Requested[b] = v
            \/ v = w /\ ~IsInjective([k \in DOMAIN registry[w].roles |-> registry[w].roles[k].role])
            \/ v # w /\ (IsPrefix(v, w) \/ IsPrefix(w, v))
    /\ \A s, t \in Services : s.service.name = t.service.name /\ s # t =>
         {s.workload, t.workload} \cap {<<"iperf3", "server">>, <<"tps", "server">>} # {}

\* Every disk of a VM has a name of its own and the volume of that name; every
\* data volume comes from a template of the same VM.  A template is named after
\* its disk and its VM with nothing to keep the two apart: no two VMs share
\* one, unless the name of a disk looks like it had a VM's name in it.
HidesVMName(n) ==
  \E k \in DOMAIN registry[n].storage : "virtwork" \in ToSet(Tail(registry[n].storage[k].dv))

StorageWired ==
  \A i \in DOMAIN plans :
    LET vm == plans[i]
        own == {vm.templates[k].name : k \in DOMAIN vm.templates}
    IN /\ IsInjective([k \in DOMAIN vm.disks |-> vm.disks[k].name])
       /\ {vm.disks[k].name : k \in DOMAIN vm.disks} = {vm.volumes[k].name : k \in DOMAIN vm.volumes}
       /\ \A k \in 3..Len(vm.volumes) : vm.volumes[k].source \in own
       /\ \A j \in DOMAIN plans :
            plans[j].name # vm.name /\ ~HidesVMName(vm.workload) /\ ~HidesVMName(plans[j].workload) =>
            own \cap {plans[j].templates[k].name : k \in DOMAIN plans[j].templates} = {}

\* The value a user gave a parameter: the last pair of --params or of its
\* variable, else the file, else the default.
Intended(name, key) ==
  LET pairs == [i \in DOMAIN Pairs(resolveRawParams(in)) |-> Pair(Pairs(resolveRawParams(in))[i])]
      mine == {i \in DOMAIN pairs : pairs[i].workload = name /\ pairs[i].key = key}
      file == Section(in.sections, name).params
  IN IF mine # {} THEN pairs[Max(mine)].value
     ELSE IF key \in DOMAIN file /\ file[key] # None THEN file[key]
     ELSE registry[name].schema[Find(registry[name].schema, key)].default

\* A text with every hole filled at once; a hole without a parameter stays.
Filled(name, content) ==
  LET hole(i) == i + 2 <= Len(content) /\ content[i] = "{{" /\ content[i + 2] = "}}"
      value(i) == IF Find(registry[name].schema, <<content[i + 1]>>) # 0
                  THEN Intended(name, <<content[i + 1]>>)
                  ELSE SubSeq(content, i, i + 2)
      out[i \in 1..(Len(content) + 3)] ==
        IF i > Len(content) THEN None
        ELSE IF hole(i) THEN value(i) \o out[i + 3] ELSE <<content[i]>> \o out[i + 1]
  IN out[1]

\* Values are plain text, so that the order of substitution cannot matter.
Plain(name) ==
  \A i \in DOMAIN registry[name].schema :
    ~Contains(Intended(name, registry[name].schema[i].key), "{{")

\* Through --params, VIRTWORK_PARAMS, the file, the merge, validation and
\* substitution, the units of a VM hold the value the user meant, each in its
\* place, and nothing else changed.  The units of tps are left out: they hold sizes
\* computed from the parameter; so are values that are placeholders themselves,
\* which the order of the schema decides.
UserValueReachesUserdata ==
  \A i \in DOMAIN plans :
    LET vm == plans[i]
        files == registry[vm.workload].files[vm.role]
    IN vm.workload # <<"tps">> /\ Plain(vm.workload) =>
         vm.userdata.files = [f \in DOMAIN files |-> Filled(vm.workload, files[f])]

\* The run names catalog entries, each once, that "virtwork validate" accepts,
\* and adds no section and no parameter of its own.
OnlyValidated ==
  /\ in.cmd = "run" /\ cfg # None
  /\ cfg.fromCatalog # <<>> /\ IsInjective(cfg.fromCatalog) /\ cfg.sections = None
  /\ \A n \in ToSet(cfg.fromCatalog) :
       n \notin DOMAIN DefaultRegistry /\ ValidatesOK(CatalogAt(cfg.catalogDir), n)

\* "virtwork validate" is worth running: the entries it accepts can be loaded
\* and planned.  Only an empty image, which no check looks for, can stop them.
ValidatedEntryDeploys ==
  OnlyValidated => failedAt \notin {"load", "plan", "roles"} \/ cfg.image = ""

\* The VMs of the entries it accepts get no unit with a placeholder left in it.
NoPlaceholderLeft ==
  OnlyValidated /\ (\A n \in ToSet(cfg.fromCatalog) : n \in DOMAIN registry => Plain(n)) =>
    \A i \in DOMAIN plans : \A f \in DOMAIN plans[i].userdata.files :
      Holes(plans[i].userdata.files[f]) = {}

\* What answers a client VM is a server: among the Services of the plan with the
\* name and the namespace its unit dials is one of its own workload, which selects
\* every server of that workload, one at least, and no client of any; and no other
\* Service goes by that name, but for an entry named like a built-in Service.
ClientsReachTheirServer ==
  Planned =>
    \A i \in DOMAIN plans : \A d \in plans[i].userdata.dials :
      LET own == plans[i].workload
          named == {s \in Services : s.service.name = d.service /\ s.namespace = d.namespace}
          servers == {j \in DOMAIN plans : /\ plans[j].workload = own /\ plans[j].role = <<"server">>
                                           /\ plans[j].namespace = d.namespace}
      IN /\ servers # {}
         /\ \E s \in named :
              /\ s.workload = own
              /\ \A j \in servers : Selects(s.service, plans[j])
              /\ \A j \in DOMAIN plans : Selects(s.service, plans[j]) => plans[j].role = <<"server">>
         /\ \A s \in named : s.workload \in {own, <<"iperf3", "server">>, <<"tps", "server">>}

FirstPositive(seq) == seq[Min({i \in DOMAIN seq : seq[i] > 0})]

\* How many VMs a role calls for: as many as the manifest says, else the
\* section of the workload, else --vm-count, else one.
Called(n, k) ==
  FirstPositive(<<registry[n].roles[k].count, Section(in.sections, n).vmCount,
                  GetInt(ListOr(in.flag, "vm-count", "1")), 1>>)

\* A finished plan has the VMs that the roles of the workloads asked for call
\* for, numbered from 0, and no other: none of a workload that is switched off.
AskedIsPlanned ==
  Planned =>
    {[workload |-> plans[i].workload, role |-> plans[i].role, name |-> plans[i].name] : i \in DOMAIN plans} =
    UNION {UNION {{[workload |-> n, role |-> registry[n].roles[k].role, name |-> VMName(n, registry[n].roles[k].role, m)] :
                     m \in 0..(Called(n, k) - 1)} : k \in DOMAIN registry[n].roles} :
             n \in {r \in ToSet(Requested) : ~Disabled(r)}}

\* A workload asked for more than once is planned as often.
PlannedAsOften ==
  Planned =>
    \A n \in ToSet(Asked) :
      Cardinality({i \in DOMAIN plans : plans[i].workload = n}) =
        Cardinality({a \in DOMAIN Asked : Asked[a] = n}) *
        MapThenSumSet(LAMBDA k : Called(n, k), DOMAIN registry[n].roles)

\* The text of a setting in the first place that has one.
Said(k) ==
  LET places == <<in.flag, RestrictValues(in.env, LAMBDA x : x # ""), in.file, SetDefaults>>
  IN places[Min({i \in DOMAIN places : k \in DOMAIN places[i]})][k]

\* What a user typed reaches the VMs, else the environment, else the file, else
\* the default; a workload's own section overrides cores and memory only.  The
\* variable goes before the file, which is viper's order and that of the table in
\* docs/configuration.md, though line 327 there says that the file "overrides env".
\* The account is made of the user's name alone, credentials or none, and the name
\* has a default: README.md says "When no SSH flags are provided, no user account
\* is configured in the VMs", and the code does otherwise.
SettingsReachVMs ==
  \A i \in DOMAIN plans :
    LET vm == plans[i]
        own == Section(in.sections, vm.workload)
    IN /\ vm.namespace = Said("namespace") /\ vm.image = Said("container-disk-image")
       /\ vm.memory = (IF own.memory = "" THEN Said("memory") ELSE own.memory)
       /\ vm.cpu = FirstPositive(<<own.cpuCores, GetInt(Said("cpu-cores"))>>)
       /\ registry[vm.workload].builtIn =>
            \A k \in DOMAIN vm.templates : vm.templates[k].size = Said("disk-size")
       /\ \A u \in vm.userdata.users : u.name = Said("ssh-user") /\ u.password = Said("ssh-password")
       /\ vm.userdata.users = {} <=> Said("ssh-user") = ""
       /\ cfg.dryRun <=> GetBool(Said("dry-run"))

-----------------------------------------------------------------------------
\* A statement of the documentation that the code does not keep.

\* internal/workloads/network.go on its Service: "A K8s Service routes traffic
\* to the server VM."  A Service of a plan selects VMs of its workload only.
ServiceSelectsOwnVMs ==
  Planned =>
    \A s \in Services, i \in DOMAIN plans :
      Selects(s.service, plans[i]) => plans[i].workload = s.workload
=============================================================================
