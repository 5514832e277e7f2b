------------------------------ MODULE BuiltIns ------------------------------
(***************************************************************************)
(* The nine built-in workloads of internal/workloads, as Workload records, *)
(* and the registry that holds them.  A unit is reduced to the parameters  *)
(* Sprintf puts into it, in the order of the template.                     *)
(***************************************************************************)
EXTENDS Catalog

Text(key) == Hole(<<key>>)

Single(schema, content, storage) ==
  [schema |-> schema, builtIn |-> TRUE, multi |-> FALSE,
   roles |-> <<[role |-> None, count |-> 0]>>, files |-> Entry(None, Entry(None, content)),
   storage |-> storage, service |-> {}, dials |-> Entry(None, {})]

\* ExtraDisks, ExtraVolumes and DataVolumeTemplates of the workloads with a data
\* disk; the size is cfg.DataDiskSize.
DataDisk(dv, serial, mount) ==
  <<[name |-> <<"datadisk">>, dv |-> dv, serial |-> serial, mount |-> mount, size |-> "disk-size"]>>

CPUWorkload ==
  Single(<<Param("cpu-load-percent", "int", <<"100">>), Param("cpu-method", "string", <<"all">>)>>,
         Text("cpu-load-percent") \o Text("cpu-method"), <<>>)

MemoryWorkload ==
  Single(<<Param("memory-percent", "int", <<"80">>), Param("vm-stressors", "int", <<"1">>),
           Param("vm-method", "string", <<"all">>)>>,
         Text("vm-stressors") \o Text("memory-percent") \o Text("vm-method"), <<>>)

\* Two fio profiles; both take "runtime".
DiskWorkload ==
  Single(<<Param("block-size-rw", "string", <<"4k">>), Param("block-size-seq", "string", <<"128k">>),
           Param("rwmixread", "int", <<"70">>), Param("numjobs", "int", <<"4">>),
           Param("runtime", "int", <<"300">>)>>,
         Text("rwmixread") \o Text("block-size-rw") \o Text("numjobs") \o Text("runtime")
           \o Text("block-size-seq") \o Text("runtime"),
         DataDisk(<<"virtwork", "disk", "data">>, "virtwork-disk", <<"/", "mnt">>))

DatabaseWorkload ==
  Single(<<Param("scale-factor", "int", <<"50">>), Param("clients", "int", <<"10">>),
           Param("duration", "int", <<"300">>)>>,
         Text("scale-factor") \o Text("clients") \o Text("duration"),
         DataDisk(<<"virtwork", "database", "data">>, "virtwork-dbdisk", <<"/", "pgsql">>))

\* The mount point is a parameter: the setup script and the fill script share it.
ChaosDiskWorkload ==
  Single(<<Param("mount", "string", <<"/", "mnt">>), Param("fill-percent", "int", <<"90">>),
           Param("fill-sleep", "int", <<"60">>), Param("release-sleep", "int", <<"30">>)>>,
         Text("mount") \o Text("fill-percent") \o Text("release-sleep") \o Text("fill-sleep"),
         DataDisk(<<"virtwork", "chaos", "disk", "data">>, "virtwork-chdisk", Text("mount")))

ChaosNetworkWorkload ==
  Single(<<Param("latency-ms", "int", <<"100">>), Param("packet-loss-percent", "string", <<"5.0">>)>>,
         Text("latency-ms") \o Text("packet-loss-percent"), <<>>)

ChaosProcessWorkload ==
  Single(<<Param("signal", "string", <<"SIGTERM">>), Param("interval", "int", <<"30">>),
           Param("min-pid", "int", <<"1000">>)>>,
         Text("signal") \o Text("interval") \o Text("min-pid"), <<>>)

-----------------------------------------------------------------------------
\* Two roles, as many VMs of each as vm-count, a Service, and a client whose unit
\* dials a name.  The name of the Service and the dialled one are two literals.
Paired(schema, server, client, dialled, service) ==
  [schema |-> schema, builtIn |-> TRUE, multi |-> TRUE,
   roles |-> <<[role |-> <<"server">>, count |-> 0], [role |-> <<"client">>, count |-> 0]>>,
   files |-> Entry(<<"server">>, Entry(None, server)) ++ Entry(<<"client">>, Entry(None, client)),
   storage |-> <<>>, service |-> {service},
   dials |-> Entry(<<"server">>, {}) ++ Entry(<<"client">>, {dialled})]

\* Mutant: the selector takes the component for the role.
NetworkMisrouted ==
  Paired(<<Param("parallel-streams", "int", <<"4">>), Param("test-duration", "int", <<"60">>)>>,
         None, Text("test-duration") \o Text("parallel-streams"),
         Prefix(<<"iperf3", "server">>),
         [name |-> Prefix(<<"iperf3", "server">>), selector |-> Entry("component", <<"network">>)])

NetworkWorkload ==
  Paired(<<Param("parallel-streams", "int", <<"4">>), Param("test-duration", "int", <<"60">>)>>,
         None, Text("test-duration") \o Text("parallel-streams"),
         Prefix(<<"iperf3", "server">>),
         [name |-> Prefix(<<"iperf3", "server">>), selector |-> Entry("role", <<"server">>)])

\* The file the server creates in megabytes and the one the client expects in
\* bytes: "mb" and "bytes" stand for fileSizeMBCount and fileSizeBytes.
TPSServerScript == Text("file-size") \o Text("mb") \o Text("file-size")
TPSClientScript == Text("iterations") \o Text("duration") \o Text("bytes") \o Text("file-size")

TPSWorkload ==
  Paired(<<Param("file-size", "string", <<"10", "M">>), Param("iterations", "int", <<"30">>),
           Param("duration", "int", <<"60">>)>>,
         TPSServerScript, TPSClientScript,
         Prefix(<<"tps", "server">>),
         [name |-> Prefix(<<"tps", "server">>),
          selector |-> Entry("role", <<"server">>) ++ Entry("component", <<"tps">>)])

\* A size is a positive integer and a suffix.
parseFileSize(v) ==
  Len(v) = 2 /\ v[2] \in {"K", "M", "G", "k", "m", "g"} /\ IsInt(v[1]) /\ GetInt(v[1]) > 0
fileSizeMBCount(v) ==
  <<Numeral(CASE v[2] \in {"G", "g"} -> GetInt(v[1]) * 1024
               [] v[2] \in {"M", "m"} -> GetInt(v[1])
               [] OTHER -> 1)>>
fileSizeBytes(v) ==
  <<Numeral(GetInt(v[1]) * (CASE v[2] \in {"G", "g"} -> 1024 * 1024 * 1024
                               [] v[2] \in {"M", "m"} -> 1024 * 1024
                               [] OTHER -> 1024))>>

\* fmt.Sprintf of a built-in unit: every hole is filled once.
Arg(w, params, key) ==
  CASE key = <<"mb">>    -> fileSizeMBCount(GetParam(w, params, <<"file-size">>))
    [] key = <<"bytes">> -> fileSizeBytes(GetParam(w, params, <<"file-size">>))
    [] OTHER             -> GetParam(w, params, key)

Sprintf(w, params, content) ==
  LET out[i \in 1..(Len(content) + 3)] ==
        IF i > Len(content) THEN None
        ELSE IF content[i] = "{{" THEN Arg(w, params, <<content[i + 1]>>) \o out[i + 3]
        ELSE <<content[i]>> \o out[i + 1]
  IN out[1]

-----------------------------------------------------------------------------
\* DefaultRegistry, and its sorted List.
DefaultRegistry ==
  Table({<<<<"chaos", "disk">>, ChaosDiskWorkload>>, <<<<"chaos", "network">>, ChaosNetworkWorkload>>,
         <<<<"chaos", "process">>, ChaosProcessWorkload>>, <<<<"cpu">>, CPUWorkload>>,
         <<<<"database">>, DatabaseWorkload>>, <<<<"disk">>, DiskWorkload>>,
         <<<<"memory">>, MemoryWorkload>>, <<<<"network">>, NetworkWorkload>>, <<<<"tps">>, TPSWorkload>>})

AllWorkloadNames ==
  <<<<"chaos", "disk">>, <<"chaos", "network">>, <<"chaos", "process">>, <<"cpu">>,
    <<"database">>, <<"disk">>, <<"memory">>, <<"network">>, <<"tps">>>>

\* The words of these names and of their roles, Services and disks are text (as
\* every literal is; the provers have to be told).
ASSUME WordsAreText ==
  {"virtwork", "chaos", "disk", "network", "process", "cpu", "database", "memory", "tps",
   "server", "client", "iperf3", "data"} \subseteq STRING
=============================================================================
