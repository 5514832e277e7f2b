----------------------------- MODULE MCPlanner -----------------------------
(* Command lines, environments, files and catalogs for Planner. *)
EXTENDS Planner

cpu == <<"cpu">>
disk == <<"disk">>
network == <<"network">>
tps == <<"tps">>
chaosDisk == <<"chaos", "disk">>

\* Catalog entries.
Unit == <<"exec">> \o Hole(<<"size">>) \o Hole(<<"mode">>) \o Hole(<<"size">>)
SizeMode == <<Param("size", "int", <<"1">>), Param("mode", "string", <<"fast">>)>>
Dir(manifest, files) == [parses |-> TRUE, manifest |-> manifest, files |-> files]
Disk(name, serial, size) ==
  [name |-> name, serial |-> serial, mount |-> <<"/", "data">>, size |-> size]
Exposed(role) == {[ports |-> {[port |-> 80, protocol |-> ""]}, selectorRole |-> role]}
Role(name, count) == [role |-> name, count |-> count]
Server == <<"server">>
Client == <<"client">>

Good == Dir([NoManifest EXCEPT !.params = SizeMode, !.service = Exposed(None),
                               !.storage = <<Disk(<<"data">>, "s1", "1Gi"), Disk(<<"log">>, "s2", "2Gi")>>],
            <<"a">> :> Unit @@ <<"b">> :> <<"exec">>)
Duo == Dir([NoManifest EXCEPT !.params = SizeMode, !.service = Exposed(Server),
                              !.storage = <<Disk(<<"data">>, "s1", "1Gi")>>,
                              !.roles = <<Role(Server, 2), Role(Client, 0)>>],
           Server :> Unit @@ Client :> Unit)
Bare == Dir(NoManifest, <<"a">> :> <<"exec">>)

Home ==
  <<"good">> :> Good @@ <<"duo">> :> Duo @@ <<"bare">> :> Bare
  \* a name that a built-in workload's names begin with, and the converse
  @@ <<"chaos">> :> Dir([NoManifest EXCEPT !.roles = <<Role(disk, 1), Role(Client, 1)>>],
                        disk :> <<"exec">> @@ Client :> <<"exec">>)
  @@ <<"tps", "server">> :> Dir([NoManifest EXCEPT !.service = Exposed(None)], <<"a">> :> <<"exec">>)
  @@ <<"cpu", "0">> :> Bare
  \* accepted, though a role is declared twice
  @@ <<"twin">> :> Dir([NoManifest EXCEPT !.roles = <<Role(Server, 0), Role(Server, 0)>>],
                       Server :> <<"exec">>)
  \* accepted, though a disk of the one is named like a VM of the other
  @@ <<"x", "virtwork", "y">> :> [Bare EXCEPT !.manifest.storage = <<Disk(<<"data">>, "s1", "1Gi")>>]
  @@ <<"y">> :> [Bare EXCEPT !.manifest.storage = <<Disk(<<"data", "virtwork", "x">>, "s1", "1Gi")>>]
  \* rejected when loaded
  @@ <<"unparsed">> :> [Bare EXCEPT !.parses = FALSE]
  @@ <<"empty">> :> Dir(NoManifest, None)
  @@ <<"big">> :> [Good EXCEPT !.manifest.storage[2].size = "lots"]
  @@ <<"reserved">> :> [Good EXCEPT !.manifest.storage[1].name = <<"containerdisk">>]
  @@ <<"samedisk">> :> [Good EXCEPT !.manifest.storage[2].name = <<"data">>]
  @@ <<"serial">> :> [Good EXCEPT !.manifest.storage[1].serial = "long"]
  @@ <<"mount">> :> [Good EXCEPT !.manifest.storage[1].mount = <<"data">>]
  @@ <<"port">> :> [Bare EXCEPT !.manifest.service = {[ports |-> {[port |-> 0, protocol |-> ""]}, selectorRole |-> None]}]
  @@ <<"noports">> :> [Bare EXCEPT !.manifest.service = {[ports |-> {}, selectorRole |-> None]}]
  @@ <<"sctp">> :> [Bare EXCEPT !.manifest.service = {[ports |-> {[port |-> 80, protocol |-> "SCTP"]}, selectorRole |-> None]}]
  @@ <<"norole">> :> [Duo EXCEPT !.files = Server :> Unit]
  \* loaded, but not valid
  @@ <<"undeclared">> :> Dir(NoManifest, <<"a">> :> Unit)

Directories == "home" :> Home @@ "other" :> (<<"good">> :> Bare) @@ "nothing" :> None

-----------------------------------------------------------------------------
Plainly ==
  [cmd |-> "run", args |-> {}, flag |-> None, flagList |-> None, env |-> None, envList |-> None,
   file |-> None, fileList |-> None, sections |-> None, fileReads |-> TRUE, home |-> TRUE,
   dbOpens |-> TRUE]

With(name) == [Plainly EXCEPT !.flagList = "workloads" :> <<name>>]
From(entries) == [Plainly EXCEPT !.flagList = "from-catalog" :> entries]

\* A setting, or nothing.
Maybe(k, texts) == {None} \cup {k :> x : x \in texts}

\* Every setting in every combination of places, blank and meaningless texts
\* among them.  A flag's text is always of its type; so is the file's.
Setting(k, flags, envs, files) ==
  {[With(disk) EXCEPT !.flag = f, !.env = e, !.file = y] :
     f \in Maybe(k, flags), e \in Maybe(k, envs), y \in Maybe(k, files)}

Settings ==
  Setting("namespace", {"n1", ""}, {"n2", ""}, {"n3", ""})
  \cup Setting("container-disk-image", {"i1", ""}, {"i2"}, {"i3", ""})
  \cup Setting("memory", {"1Gi", "lots"}, {"3Gi", "", "lots"}, {"4Gi"})
  \cup Setting("disk-size", {"1Gi", "lots"}, {"3Gi", "lots"}, {"4Gi"})
  \cup Setting("cpu-cores", {"4", "0"}, {"3", "", "many"}, {"1"})
  \cup Setting("ssh-user", {"u1", ""}, {"u2", ""}, {"u3"})
  \cup Setting("ssh-password", {"p1", ""}, {"p2"}, {"p3"})
  \cup Setting("dry-run", {"true", "false"}, {"1", "yes"}, {"true"})
  \cup Setting("timeout", {"0"}, {"5", "soon"}, {"7"})
  \cup Setting("vm-concurrency", {"2"}, {"many"}, {"3"})
  \cup Setting("kubeconfig", {"k1"}, {"k2"}, {"k3"})
  \cup Setting("audit-db", {"a1"}, {"a2"}, {"a3"})
  \cup Setting("audit", {"true"}, {"0", "off"}, {"false"})
  \cup {[With(cpu) EXCEPT !.flag = f, !.env = e, !.dbOpens = o, !.fileReads = r] :
          f \in Maybe("no-audit", {"true", "false"}), e \in Maybe("audit", {"false"}),
          o \in BOOLEAN, r \in BOOLEAN}
  \cup {[With(cpu) EXCEPT !.flag = f, !.env = "timeout" :> "0"] : f \in Maybe("no-wait", {"true", "false"})}
  \cup {[With(cpu) EXCEPT !.env = "workloads" :> x] : x \in {"cpu", ""}}

\* Keys: flags and files, the variable (a comma alone among them), the file.
Keys ==
  {[With(cpu) EXCEPT !.flagList = f @@ @, !.envList = e, !.fileList = y] :
     f \in Maybe("ssh-key", {<<<<"k1">>>>}) \cup Maybe("ssh-key-file", {<<<<"k2">>>>, <<None>>, <<Unreadable>>}),
     e \in Maybe("ssh-authorized-keys", {<<"k3", ",", "k4">>, <<",">>, None}),
     y \in Maybe("ssh-authorized-keys", {<<<<"k5">>>>})}

-----------------------------------------------------------------------------
\* Built-in workloads, catalog entries, and both.
Names ==
  {[Plainly EXCEPT !.flagList = w @@ c, !.envList = e, !.fileList = y, !.flag = d] :
     w \in Maybe("workloads", {<<>>, <<cpu, cpu>>, <<network, tps>>, <<<<"bogus">>>>, <<chaosDisk>>}),
     c \in Maybe("from-catalog", {<<>>, <<<<"good">>, <<"duo">>>>, <<<<"chaos">>>>, <<<<"tps", "server">>>>}),
     e \in Maybe("from-catalog", {<<"good", " ", "bare">>, <<"good", ",", "bare">>}),
     y \in Maybe("from-catalog", {<<<<"bare">>>>}),
     d \in Maybe("catalog-dir", {"other"})}
  \cup {[From(<<n>>) EXCEPT !.flag = d, !.home = h] :
          n \in DOMAIN Home \cup {cpu}, d \in Maybe("catalog-dir", {"home", "missing"}), h \in BOOLEAN}
  \cup {From(<<n, <<"good">>>>) : n \in {<<"good">>, <<"bare">>}}
  \cup {From(<<<<"y">>, <<"x", "virtwork", "y">>>>)}
  \cup {[From(<<<<"cpu", "0">>>>) EXCEPT !.flagList = "workloads" :> <<cpu>> @@ @]}

\* How many VMs, and what a workload's section changes.
Counts ==
  {[w EXCEPT !.flag = f, !.sections = s] :
     w \in {With(disk), With(network), From(<<<<"duo">>>>)}, f \in Maybe("vm-count", {"0", "2", "-1"}),
     s \in {None} \cup {n :> [NoSection EXCEPT !.vmCount = k] : n \in {disk, network, <<"duo">>}, k \in {0, 3}}}
  \cup {[Plainly EXCEPT !.flag = f, !.sections = disk :> [NoSection EXCEPT !.enabled = e, !.cpuCores = k, !.memory = m]] :
          f \in Maybe("vm-count", {"2"}), e \in {{}, {TRUE}, {FALSE}}, k \in {0, 8}, m \in {"", "1Gi", "lots"}}

\* Parameters, given once or twice, well formed or not.
Assign(name, key, value) == name \o <<".", key, "=">> \o value
DiskParams ==
  {None, Assign(disk, "runtime", <<"5">>),
   Assign(disk, "runtime", <<"5">>) \o <<",">> \o Assign(disk, "runtime", <<"6">>) \o <<",">>,
   Assign(disk, "numjobs", <<"many">>), Assign(disk, "numjobs", None), Assign(disk, "bogus", <<"1">>),
   Assign(cpu, "bogus", <<"1">>), <<"disk", ".">>, <<"runtime", "=", "5">>, <<".", "runtime", "=", "5">>}
Parameters ==
  {[With(disk) EXCEPT !.flagList = p @@ @, !.envList = e, !.sections = s] :
     p \in Maybe("params", DiskParams), e \in Maybe("params", {None, Assign(disk, "runtime", <<"7">>)}),
     s \in {None} \cup {disk :> [NoSection EXCEPT !.params = <<k>> :> <<v>>] :
                          k \in {"runtime", "rwmixread", "bogus"}, v \in {"8", "x"}}}
  \cup {[With(n) EXCEPT !.flagList = "params" :> p @@ @] :
          n \in {tps, chaosDisk},
          p \in {Assign(tps, "file-size", v) : v \in {<<"1", "G">>, <<"8", "k">>, <<"0", "M">>, <<"1", "T">>, <<"9">>}}
                \cup {Assign(chaosDisk, "mount", <<"/", "x">>), Assign(chaosDisk, "fill-sleep", <<"5">>)}}
  \cup {[From(<<n>>) EXCEPT !.flagList = "params" :> (Assign(n, "size", v) \o <<",">> \o Assign(n, "mode", m)) @@ @] :
          n \in {<<"good">>, <<"duo">>}, v \in {<<"2">>, <<"x">>}, m \in {<<"slow">>, Hole(<<"size">>)}}

Validations ==
  {[Plainly EXCEPT !.cmd = "validate", !.args = a, !.flag = d, !.home = h] :
     a \in {{}, {<<"good">>, <<"duo">>}, {<<"good">>, <<"missing">>}} \cup {{n} : n \in DOMAIN Home},
     d \in Maybe("catalog-dir", {"other", "nothing", "missing"}), h \in BOOLEAN}

CleanupsToo ==
  {[Plainly EXCEPT !.cmd = "cleanup", !.flag = f, !.env = e, !.dbOpens = o] :
     f \in Maybe("no-audit", {"true"}), e \in Maybe("timeout", {"0"}), o \in BOOLEAN}

AnyInvocation == Settings \cup Keys \cup Names \cup Counts \cup Parameters \cup Validations \cup CleanupsToo

-----------------------------------------------------------------------------
\* The default deployment.
Defaults == {Plainly}
=============================================================================
