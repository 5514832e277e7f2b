--------------------------- MODULE PlannerProofs ---------------------------
(***************************************************************************)
(* Theorems of Planner, for every set of invocations and every catalog:    *)
(* what a user typed reaches the VMs, exactly the VMs asked for are        *)
(* planned, their names and disks do not clash, clients find their server, *)
(* and what "virtwork validate" accepts can be planned.                    *)
(***************************************************************************)
EXTENDS Planner, SequenceTheorems, TLAPS

-----------------------------------------------------------------------------
\* Partial functions.

\* The entries of f ++ g: those of f, and those of g that f does not have.
LEMMA MergeEntries ==
  ASSUME NEW a, NEW b
  PROVE  /\ DOMAIN (a ++ b) = DOMAIN a \cup DOMAIN b
         /\ \A x \in DOMAIN a : (a ++ b)[x] = a[x]
         /\ \A x \in DOMAIN b \ DOMAIN a : (a ++ b)[x] = b[x]
<1>1. DOMAIN (a ++ b) = DOMAIN a \cup DOMAIN b
  BY DEF ++
<1>2. \A x \in DOMAIN a : (a ++ b)[x] = a[x]
  BY DEF ++
<1>3. \A x \in DOMAIN b \ DOMAIN a : (a ++ b)[x] = b[x]
  BY DEF ++
<1> QED
  BY <1>1, <1>2, <1>3

\* The entry of Entry(k, v).
LEMMA EntryEntries ==
  ASSUME NEW k, NEW v
  PROVE  DOMAIN Entry(k, v) = {k} /\ Entry(k, v)[k] = v
  BY DEF Entry

-----------------------------------------------------------------------------
\* Numbers and their texts.

\* GetInt yields a number that occurs, whatever the text.
LEMMA GetIntType == \A x : GetInt(x) \in Number
<1> SUFFICES ASSUME NEW x PROVE GetInt(x) \in Number
  OBVIOUS
<1>1. CASE x \in Numerals
  <2>1. \E n \in Number : Numeral(n) = x
    BY <1>1 DEF Numerals
  <2>2. Atoi[x] = CHOOSE n \in Number : Numeral(n) = x
    BY <1>1 DEF Atoi
  <2> QED
    BY <2>1, <2>2, <1>1 DEF GetInt, IsInt
<1>2. CASE x \notin Numerals
  BY <1>2, NumeralsDiffer DEF GetInt, IsInt, Number
<1> QED
  BY <1>1, <1>2

\* The default size of the tps workload is one that parseFileSize accepts.
LEMMA TenMegabytes == parseFileSize(<<"10", "M">>)
<1>1. "10" \in Numerals
  BY TenOccurs DEF Numerals
<1>2. Atoi["10"] = 10
  <2>1. Atoi["10"] = CHOOSE n \in Number : Numeral(n) = "10"
    BY <1>1 DEF Atoi
  <2> QED
    BY <2>1, TenOccurs, NumeralsDiffer
<1> QED
  BY <1>1, <1>2 DEF parseFileSize, IsInt, GetInt

-----------------------------------------------------------------------------
\* Names.

\* Short tuples are sequences.
LEMMA ShortSeqs ==
  ASSUME NEW S, NEW a \in S, NEW b \in S, NEW c \in S, NEW d \in S
  PROVE  /\ <<a>> \in Seq(S) /\ <<a, b>> \in Seq(S)
         /\ <<a, b, c>> \in Seq(S) /\ <<a, b, c, d>> \in Seq(S)
  OBVIOUS

\* The names that occur in the code.
LEMMA BuiltInNames ==
  /\ <<>> \in Seq(STRING) /\ <<"virtwork">> \in Seq(STRING)
  /\ <<"server">> \in Seq(STRING) /\ <<"client">> \in Seq(STRING)
  /\ <<"iperf3", "server">> \in Seq(STRING) /\ <<"tps", "server">> \in Seq(STRING)
  /\ <<"chaos", "disk">> \in Seq(STRING) /\ <<"chaos", "network">> \in Seq(STRING)
  /\ <<"chaos", "process">> \in Seq(STRING) /\ <<"cpu">> \in Seq(STRING)
  /\ <<"database">> \in Seq(STRING) /\ <<"disk">> \in Seq(STRING)
  /\ <<"memory">> \in Seq(STRING) /\ <<"network">> \in Seq(STRING) /\ <<"tps">> \in Seq(STRING)
  /\ <<"virtwork", "disk", "data">> \in Seq(STRING)
  /\ <<"virtwork", "database", "data">> \in Seq(STRING)
  /\ <<"virtwork", "chaos", "disk", "data">> \in Seq(STRING)
<1>1. \A S : \A a, b, c, d \in S :
        /\ <<a>> \in Seq(S) /\ <<a, b>> \in Seq(S)
        /\ <<a, b, c>> \in Seq(S) /\ <<a, b, c, d>> \in Seq(S)
  BY ShortSeqs
<1> QED
  BY <1>1, WordsAreText

-----------------------------------------------------------------------------
\* The built-in workloads.

\* The nine names of the registry.
LEMMA RegistryNames ==
  DOMAIN DefaultRegistry =
    {<<"chaos", "disk">>, <<"chaos", "network">>, <<"chaos", "process">>, <<"cpu">>,
     <<"database">>, <<"disk">>, <<"memory">>, <<"network">>, <<"tps">>}
  BY DEF DefaultRegistry, Table

\* What the registry holds under each name.
LEMMA RegistryHolds ==
  /\ DefaultRegistry[<<"chaos", "disk">>] = ChaosDiskWorkload
  /\ DefaultRegistry[<<"chaos", "network">>] = ChaosNetworkWorkload
  /\ DefaultRegistry[<<"chaos", "process">>] = ChaosProcessWorkload
  /\ DefaultRegistry[<<"cpu">>] = CPUWorkload
  /\ DefaultRegistry[<<"database">>] = DatabaseWorkload
  /\ DefaultRegistry[<<"disk">>] = DiskWorkload
  /\ DefaultRegistry[<<"memory">>] = MemoryWorkload
  /\ DefaultRegistry[<<"network">>] = NetworkWorkload
  /\ DefaultRegistry[<<"tps">>] = TPSWorkload
  BY DEF DefaultRegistry, Table

-----------------------------------------------------------------------------
\* What planning relies on in a Workload, built-in or from a catalog.
\* Names that may be joined, and at least one role.
Named(n, w) == n \in Seq(STRING) /\ w.roles \in Seq(RoleSpec) /\ w.roles # <<>>

\* Disks have names of their own, and data volumes a name to begin with.
Stored(w) ==
  /\ \E k \in Nat : DOMAIN w.storage = 1..k
  /\ \A i \in DOMAIN w.storage :
       /\ w.storage[i].name \notin {<<"containerdisk">>, <<"cloudinitdisk">>}
       /\ w.storage[i].dv \in Seq(STRING) /\ w.storage[i].dv # <<>>
       /\ w.builtIn => w.storage[i].size = "disk-size"
       /\ w.storage[i].size \in Quantity \cup {"disk-size"}
  /\ \A i, j \in DOMAIN w.storage : w.storage[i].name = w.storage[j].name => i = j

\* At most one Service; it has the name of its workload, or one of the two
\* names of the built-in servers.
Served(n, w) ==
  /\ \A s, t \in w.service : s = t
  /\ \A s \in w.service : \/ s.name = Prefix(n)
                          \/ n = <<"network">> /\ s.name = Prefix(<<"iperf3", "server">>)
                          \/ n = <<"tps">> /\ s.name = Prefix(<<"tps", "server">>)

\* Only the built-in pairs dial, and they dial the Service of the workload, which
\* selects its servers, and no VM without that role.
Dialled(n, w) ==
  \A k \in DOMAIN w.roles : \A d \in w.dials[w.roles[k].role] :
    /\ n \in {<<"network">>, <<"tps">>}
    /\ \E s \in w.service :
         /\ s.name = d /\ "role" \in DOMAIN s.selector /\ s.selector["role"] = <<"server">>
         /\ \E j \in DOMAIN w.roles : w.roles[j].role = <<"server">>
         /\ \A key \in DOMAIN s.selector : /\ key \in DOMAIN Labels(w, n, <<"server">>)
                                           /\ Labels(w, n, <<"server">>)[key] = s.selector[key]

WorkloadOK(n, w) == Named(n, w) /\ Stored(w) /\ Served(n, w) /\ Dialled(n, w)

\* A built-in workload without roles and without a Service.
LEMMA SingleOK ==
  ASSUME NEW n \in Seq(STRING), NEW schema, NEW content, NEW storage,
         NEW dv \in Seq(STRING), dv # <<>>, NEW serial, NEW mount,
         storage = <<>> \/ storage = DataDisk(dv, serial, mount)
  PROVE  WorkloadOK(n, Single(schema, content, storage))
<1> DEFINE w == Single(schema, content, storage)
<1>1. /\ w.roles = <<[role |-> None, count |-> 0]>> /\ w.service = {} /\ w.dials = Entry(None, {})
      /\ w.storage = storage /\ w.builtIn
  BY DEF Single
<1> HIDE DEF w
<1>2. Named(n, w)
  BY <1>1, BuiltInNames, ShortSeqs, NumeralsDiffer DEF Named, RoleSpec, None, Number
<1>3. Stored(w)
  <2>1. CASE storage = <<>>
    BY <1>1, <2>1 DEF Stored
  <2>2. CASE storage = DataDisk(dv, serial, mount)
    BY <1>1, <2>2 DEF Stored, DataDisk
  <2> QED
    BY <2>1, <2>2
<1>4. Served(n, w)
  BY <1>1 DEF Served
<1>5. Dialled(n, w)
  BY <1>1 DEF Dialled, Entry
<1> QED
  BY <1>2, <1>3, <1>4, <1>5 DEF WorkloadOK, w

\* The labels of a VM of a workload with roles.
LEMMA RoleLabels ==
  ASSUME NEW w, NEW n, NEW role, w.multi
  PROVE  /\ "role" \in DOMAIN Labels(w, n, role) /\ Labels(w, n, role)["role"] = role
         /\ "component" \in DOMAIN Labels(w, n, role) /\ Labels(w, n, role)["component"] = n
<1> DEFINE two == Entry("app", Prefix(n)) ++ Entry("component", n)
<1>1. Labels(w, n, role) = two ++ Entry("role", role)
  BY DEF Labels
<1>2. DOMAIN two = {"app", "component"} /\ two["component"] = n
  BY DEF Entry, ++
<1> HIDE DEF two
<1> QED
  BY <1>1, <1>2 DEF Entry, ++

\* A VM with a role among its labels has that role.
LEMMA LabelIsRole ==
  ASSUME NEW w, NEW n, NEW role, "role" \in DOMAIN Labels(w, n, role)
  PROVE  Labels(w, n, role)["role"] = role
<1>1. CASE w.multi
  BY <1>1, RoleLabels
<1>2. CASE ~w.multi
  BY <1>2 DEF Labels, Entry, ++, None
<1> QED
  BY <1>1, <1>2

\* A built-in workload with a server and a client that dials its Service.
LEMMA PairedOK ==
  ASSUME NEW n \in Seq(STRING), NEW schema, NEW server, NEW client, NEW dialled, NEW service,
         \/ n = <<"network">> /\ service.name = Prefix(<<"iperf3", "server">>)
         \/ n = <<"tps">> /\ service.name = Prefix(<<"tps", "server">>),
         dialled = service.name, "role" \in DOMAIN service.selector,
         \A key \in DOMAIN service.selector :
           \/ key = "role" /\ service.selector[key] = <<"server">>
           \/ key = "component" /\ service.selector[key] = n
  PROVE  WorkloadOK(n, Paired(schema, server, client, dialled, service))
<1> DEFINE w == Paired(schema, server, client, dialled, service)
<1>1. /\ w.roles = <<[role |-> <<"server">>, count |-> 0], [role |-> <<"client">>, count |-> 0]>>
      /\ w.service = {service} /\ w.dials = Entry(<<"server">>, {}) ++ Entry(<<"client">>, {dialled})
      /\ w.storage = <<>> /\ w.multi
  BY DEF Paired
<1> HIDE DEF w
<1>2. Named(n, w)
  BY <1>1, BuiltInNames, ShortSeqs, NumeralsDiffer DEF Named, RoleSpec, Number
<1>3. Stored(w)
  BY <1>1 DEF Stored
<1>4. Served(n, w)
  BY <1>1 DEF Served
<1>5. Dialled(n, w)
  <2>1. w.roles[1].role = <<"server">> /\ 1 \in DOMAIN w.roles
    BY <1>1
  <2>2. ASSUME NEW key \in DOMAIN service.selector
        PROVE  /\ key \in DOMAIN Labels(w, n, <<"server">>)
               /\ Labels(w, n, <<"server">>)[key] = service.selector[key]
    <3>1. /\ "role" \in DOMAIN Labels(w, n, <<"server">>)
          /\ Labels(w, n, <<"server">>)["role"] = <<"server">>
          /\ "component" \in DOMAIN Labels(w, n, <<"server">>)
          /\ Labels(w, n, <<"server">>)["component"] = n
      BY <1>1, RoleLabels
    <3> QED
      BY <2>2, <3>1
  <2>3. w.dials[<<"server">>] = {} /\ w.dials[<<"client">>] = {dialled}
    BY <1>1 DEF Entry, ++
  <2>4. \A k \in DOMAIN w.roles : w.roles[k].role = <<"server">> \/ w.roles[k].role = <<"client">>
    BY <1>1
  <2>5. \A key \in DOMAIN service.selector :
          /\ key \in DOMAIN Labels(w, n, <<"server">>)
          /\ Labels(w, n, <<"server">>)[key] = service.selector[key]
    BY <2>2
  <2>6. ASSUME NEW k \in DOMAIN w.roles, NEW d \in w.dials[w.roles[k].role]
        PROVE  d = service.name
    BY <2>3, <2>4
  <2> QED
    BY <1>1, <2>1, <2>5, <2>6 DEF Dialled
<1> QED
  BY <1>2, <1>3, <1>4, <1>5 DEF WorkloadOK, w

\* Every built-in workload is one that can be planned.
LEMMA BuiltInOK ==
  ASSUME NEW n \in DOMAIN DefaultRegistry
  PROVE  WorkloadOK(n, DefaultRegistry[n])
<1> USE RegistryHolds
<1>1. CASE n = <<"chaos", "disk">>
  BY BuiltInNames, <1>1, SingleOK DEF ChaosDiskWorkload
<1>2. CASE n = <<"chaos", "network">>
  BY BuiltInNames, <1>2, SingleOK DEF ChaosNetworkWorkload
<1>3. CASE n = <<"chaos", "process">>
  BY BuiltInNames, <1>3, SingleOK DEF ChaosProcessWorkload
<1>4. CASE n = <<"cpu">>
  BY BuiltInNames, <1>4, SingleOK DEF CPUWorkload
<1>5. CASE n = <<"database">>
  BY BuiltInNames, <1>5, SingleOK DEF DatabaseWorkload
<1>6. CASE n = <<"disk">>
  BY BuiltInNames, <1>6, SingleOK DEF DiskWorkload
<1>7. CASE n = <<"memory">>
  BY BuiltInNames, <1>7, SingleOK DEF MemoryWorkload
<1>8. CASE n = <<"network">>
  BY BuiltInNames, <1>8, PairedOK DEF NetworkWorkload, Entry
<1>9. CASE n = <<"tps">>
  <2> DEFINE selector == Entry("role", <<"server">>) ++ Entry("component", <<"tps">>)
             service == [name |-> Prefix(<<"tps", "server">>), selector |-> selector]
             schema == <<Param("file-size", "string", <<"10", "M">>), Param("iterations", "int", <<"30">>),
                         Param("duration", "int", <<"60">>)>>
  <2>1. /\ DOMAIN selector = {"role", "component"}
        /\ selector["role"] = <<"server">> /\ selector["component"] = <<"tps">>
    BY DEF Entry, ++
  <2>2. service.name = Prefix(<<"tps", "server">>) /\ service.selector = selector
    OBVIOUS
  <2>3. DefaultRegistry[n] =
          Paired(schema, TPSServerScript, TPSClientScript, Prefix(<<"tps", "server">>), service)
    BY <1>9 DEF TPSWorkload
  <2> HIDE DEF selector, service, schema
  <2> QED
    BY BuiltInNames, <1>9, <2>1, <2>2, <2>3, PairedOK
<1> QED
  BY <1>1, <1>2, <1>3, <1>4, <1>5, <1>6, <1>7, <1>8, <1>9, RegistryNames

-----------------------------------------------------------------------------
\* The workloads of a catalog.

\* What LoadCatalogEntry accepts is a workload that can be planned.
LEMMA EntryOK ==
  ASSUME NEW path, NEW n, Loads(CatalogAt(path), n)
  PROVE  /\ WorkloadOK(n, Factory(n, CatalogAt(path)[n]))
         /\ ~Factory(n, CatalogAt(path)[n]).builtIn
<1> DEFINE dir == CatalogAt(path)[n]
           m == dir.manifest
           w == Factory(n, dir)
<1>1. /\ n \in Seq(STRING) /\ m.roles \in Seq(RoleSpec)
      /\ m.storage \in Seq(StorageDefinition)
      /\ \A s, t \in m.service : s = t
  <2>1. path \in DOMAIN Catalogs
    BY DEF Loads, CatalogAt, None
  <2> QED
    BY <2>1, CatalogsTyped DEF Loads, CatalogAt
<1>2. validateManifest(m)
  BY DEF Loads
<1>3. /\ w.storage = Storage(m) /\ w.service = ServiceSpec(n, m) /\ w.builtIn = FALSE
      /\ \/ w.roles = m.roles /\ Len(m.roles) > 1
            /\ w.dials = [r \in {m.roles[i].role : i \in DOMAIN m.roles} |-> {}]
         \/ w.roles = <<[role |-> None, count |-> 0]>> /\ w.dials = Entry(None, {})
  <2>1. CASE IsMultiRole(m)
    BY <2>1 DEF Factory, IsMultiRole, GenericMultiWorkload
  <2>2. CASE ~IsMultiRole(m)
    BY <2>2 DEF Factory, GenericWorkload
  <2> QED
    BY <2>1, <2>2
<1> HIDE DEF dir, m, w
<1>4. Named(n, w)
  <2>1. CASE w.roles = m.roles /\ Len(m.roles) > 1
    BY <1>1, <2>1 DEF Named
  <2>2. CASE w.roles = <<[role |-> None, count |-> 0]>>
    BY <1>1, <2>2, BuiltInNames, NumeralsDiffer DEF Named, RoleSpec, Number, None
  <2> QED
    BY <1>3, <2>1, <2>2
<1>5. Stored(w)
  <2>1. DOMAIN w.storage = 1..Len(m.storage) /\ Len(m.storage) \in Nat
    BY <1>1, <1>3 DEF Storage
  <2>2. ASSUME NEW i \in DOMAIN w.storage
        PROVE  /\ w.storage[i].name = m.storage[i].name /\ w.storage[i].dv = m.storage[i].name
               /\ w.storage[i].size = m.storage[i].size
               /\ m.storage[i].name \in Seq(STRING) /\ StorageOK(m.storage[i])
    <3>1. i \in DOMAIN m.storage
      BY <1>3 DEF Storage
    <3>2. m.storage[i] \in StorageDefinition
      BY <1>1, <3>1
    <3>3. StorageOK(m.storage[i])
      BY <1>2, <3>1 DEF validateManifest
    <3> QED
      BY <1>3, <3>1, <3>2, <3>3 DEF Storage, StorageDefinition
  <2>3. \A i, j \in DOMAIN m.storage : m.storage[i].name = m.storage[j].name => i = j
    BY <1>2 DEF validateManifest
  <2>4. DOMAIN w.storage = DOMAIN m.storage
    BY <1>3 DEF Storage
  <2> QED
    BY <1>3, <2>1, <2>2, <2>3, <2>4 DEF Stored, StorageOK, reservedDiskNames, None
<1>6. Served(n, w)
  BY <1>1, <1>3 DEF Served, ServiceSpec, buildCatalogServiceSpec
<1>7. Dialled(n, w)
  BY <1>3 DEF Dialled, Entry
<1> QED
  BY <1>3, <1>4, <1>5, <1>6, <1>7 DEF WorkloadOK, w, dir

-----------------------------------------------------------------------------
\* Names are joined words.

\* Equal VM names: the name of one workload begins with that of the other, and
\* within a workload the role and the number are the same.
LEMMA SameVMName ==
  ASSUME NEW v \in Seq(STRING), NEW w \in Seq(STRING), NEW r \in Seq(STRING), NEW s \in Seq(STRING),
         NEW i \in Number, NEW j \in Number, VMName(v, r, i) = VMName(w, s, j)
  PROVE  /\ IsPrefix(v, w) \/ IsPrefix(w, v)
         /\ v = w => r = s /\ i = j
<1> DEFINE p == <<"virtwork">>
           x == (p \o v) \o r
           y == (p \o w) \o s
<1>1. p \in Seq(STRING) /\ Numeral(i) \in STRING /\ Numeral(j) \in STRING
  BY BuiltInNames, NumeralsDiffer
<1>2. x \o <<Numeral(i)>> = y \o <<Numeral(j)>>
  BY DEF VMName, Prefix
<1> HIDE DEF p
<1>3. p \o v \in Seq(STRING) /\ p \o w \in Seq(STRING) /\ x \in Seq(STRING) /\ y \in Seq(STRING)
  BY <1>1, ConcatProperties
<1>4. x = p \o (v \o r) /\ y = p \o (w \o s)
  <2>1. (p \o v) \o r = p \o (v \o r)
    BY <1>1, ConcatAssociative
  <2>2. (p \o w) \o s = p \o (w \o s)
    BY <1>1, ConcatAssociative
  <2> QED
    BY <2>1, <2>2
<1> HIDE DEF x, y
<1>5. x = y /\ Numeral(i) = Numeral(j)
  <2>1. Append(x, Numeral(i)) = x \o <<Numeral(i)>> /\ Append(y, Numeral(j)) = y \o <<Numeral(j)>>
    BY <1>1, <1>3, AppendIsConcat
  <2>2. Append(x, Numeral(i)) = Append(y, Numeral(j))
    BY <1>2, <2>1, Zenon
  <2> QED
    BY <1>1, <1>3, <2>2, AppendInjective
<1>6. v \o r \in Seq(STRING) /\ w \o s \in Seq(STRING)
  BY ConcatProperties
<1>7. v \o r = w \o s
  BY <1>1, <1>4, <1>5, <1>6, ConcatSimplifications
<1>8. IsPrefix(v, w) \/ IsPrefix(w, v)
  BY <1>7 DEF IsPrefix
<1>9. ASSUME v = w PROVE r = s
  BY <1>7, <1>9, ConcatSimplifications
<1> QED
  BY <1>5, <1>8, <1>9, NumeralsDiffer

\* A VM's name begins with "virtwork".
LEMMA VMNameType ==
  ASSUME NEW n \in Seq(STRING), NEW r \in Seq(STRING), NEW i \in Number
  PROVE  VMName(n, r, i) \in Seq(STRING) /\ VMName(n, r, i) # <<>> /\ VMName(n, r, i)[1] = "virtwork"
<1>1. <<Numeral(i)>> \in Seq(STRING)
  BY NumeralsDiffer, ShortSeqs
<1>2. <<"virtwork">> \in Seq(STRING)
  BY BuiltInNames
<1> HIDE DEF Numeral
<1>3. <<"virtwork">> \o n \o r \in Seq(STRING) /\ (<<"virtwork">> \o n \o r)[1] = "virtwork" /\ Len(<<"virtwork">> \o n \o r) > 0
  BY <1>2
<1> QED
  BY <1>1, <1>3 DEF VMName, Prefix

\* Disk names joined to different VM names are different, unless one of them has
\* the beginning of a VM name inside.
LEMMA SameTemplateName ==
  ASSUME NEW a \in Seq(STRING), NEW b \in Seq(STRING), NEW v \in Seq(STRING), NEW w \in Seq(STRING),
         a # <<>>, b # <<>>, v # <<>>, w # <<>>, v[1] = "virtwork", w[1] = "virtwork",
         v # w, a \o v = b \o w
  PROVE  "virtwork" \in ToSet(Tail(a)) \/ "virtwork" \in ToSet(Tail(b))
<1>1. CASE Len(a) < Len(b)
  <2>1. (a \o v)[Len(a) + 1] = "virtwork"
    <3>1. Len(a) + 1 \in 1..(Len(a) + Len(v))
      OBVIOUS
    <3>2. (a \o v)[Len(a) + 1] = v[1]
      BY <3>1
    <3> QED
      BY <3>2
  <2>2. (b \o w)[Len(a) + 1] = b[Len(a) + 1]
    BY <1>1
  <2>3. Tail(b)[Len(a)] = "virtwork" /\ Len(a) \in DOMAIN Tail(b)
    BY <1>1, <2>1, <2>2
  <2> QED
    BY <2>3 DEF ToSet
<1>2. CASE Len(b) < Len(a)
  <2>1. (b \o w)[Len(b) + 1] = "virtwork"
    <3>1. Len(b) + 1 \in 1..(Len(b) + Len(w))
      OBVIOUS
    <3>2. (b \o w)[Len(b) + 1] = w[1]
      BY <3>1
    <3> QED
      BY <3>2
  <2>2. (a \o v)[Len(b) + 1] = a[Len(b) + 1]
    BY <1>2
  <2>3. Tail(a)[Len(b)] = "virtwork" /\ Len(b) \in DOMAIN Tail(a)
    BY <1>2, <2>1, <2>2
  <2> QED
    BY <2>3 DEF ToSet
<1>3. CASE Len(a) = Len(b)
  <2>1. Len(v) = Len(w)
    BY <1>3, ConcatProperties
  <2>2. ASSUME NEW i \in 1..Len(v) PROVE v[i] = w[i]
    <3>1. (a \o v)[Len(a) + i] = v[i] /\ (b \o w)[Len(b) + i] = w[i]
      BY <2>1
    <3> QED
      BY <1>3, <3>1
  <2> QED
    BY <2>1, <2>2, SeqEqual
<1> QED
  BY <1>1, <1>2, <1>3

-----------------------------------------------------------------------------
\* The configuration.

\* Min picks the least element.
LEMMA MinIs ==
  ASSUME NEW S \in SUBSET Int, NEW m \in S, \A y \in S : m <= y
  PROVE  Min(S) = m
<1>1. \A z \in S : (\A y \in S : z <= y) => z = m
  OBVIOUS
<1> QED
  BY <1>1 DEF Min

\* The first positive number of two.
LEMMA FirstOfTwo ==
  ASSUME NEW a \in Int, NEW b \in Int, a > 0 \/ b > 0
  PROVE  FirstPositive(<<a, b>>) = Positive(a, b)
<1> DEFINE S == {i \in DOMAIN <<a, b>> : <<a, b>>[i] > 0}
<1>1. CASE a > 0
  <2>1. Min(S) = 1
    <3>1. S \in SUBSET Int /\ 1 \in S /\ \A y \in S : 1 <= y
      BY <1>1
    <3> QED
      BY <3>1, MinIs
  <2> QED
    BY <1>1, <2>1 DEF FirstPositive, Positive
<1>2. CASE ~(a > 0)
  <2>1. Min(S) = 2
    <3>1. S \in SUBSET Int /\ 2 \in S /\ \A y \in S : 2 <= y
      BY <1>2
    <3> QED
      BY <3>1, MinIs
  <2> QED
    BY <1>2, <2>1 DEF FirstPositive, Positive
<1> QED
  BY <1>1, <1>2

\* The first positive number of four, the last of which is 1.
LEMMA FirstOfFour ==
  ASSUME NEW a \in Int, NEW b \in Int, NEW c \in Int
  PROVE  FirstPositive(<<a, b, c, 1>>) = Positive(a, Positive(Positive(b, c), 1))
<1> DEFINE s == <<a, b, c, 1>>
           S == {i \in DOMAIN s : s[i] > 0}
           k == IF a > 0 THEN 1 ELSE IF b > 0 THEN 2 ELSE IF c > 0 THEN 3 ELSE 4
<1>1. S \in SUBSET Int /\ k \in S /\ \A y \in S : k <= y
  OBVIOUS
<1>2. Min(S) = k
  <2> HIDE DEF S, k
  <2> QED
    BY <1>1, MinIs
<1>3. FirstPositive(s) = s[k]
  BY <1>2 DEF FirstPositive
<1> QED
  BY <1>3 DEF Positive

\* LoadConfig reads a setting where the user put it last: the flag, the
\* variable unless it is empty, the file, the default.
LEMMA GetIsSaid ==
  ASSUME NEW k \in BoundFlags
  PROVE  Get(in, k) = Said(k)
<1> DEFINE e == RestrictValues(in.env, LAMBDA x : x # "")
           places == <<in.flag, e, in.file, SetDefaults>>
           S == {i \in DOMAIN places : k \in DOMAIN places[i]}
           o == Overrides(in)
<1>1. (k \in DOMAIN o <=> k \in DOMAIN in.flag) /\ (k \in DOMAIN in.flag => o[k] = in.flag[k])
  <2> DEFINE r == RestrictDomain(in.flag, LAMBDA x : x \in BoundFlags)
             u == IF "no-wait" \in DOMAIN in.flag
                  THEN Entry("wait-for-ready", IF GetBool(in.flag["no-wait"]) THEN "false" ELSE "true")
                  ELSE None
  <2>1. o = r ++ u
    BY DEF Overrides
  <2>2. k \notin DOMAIN u
    <3>1. k # "wait-for-ready"
      BY DEF BoundFlags
    <3>2. CASE "no-wait" \in DOMAIN in.flag
      BY <3>1, <3>2, EntryEntries
    <3>3. CASE "no-wait" \notin DOMAIN in.flag
      BY <3>3 DEF None
    <3> QED
      BY <3>2, <3>3
  <2>3. (k \in DOMAIN r <=> k \in DOMAIN in.flag) /\ (k \in DOMAIN in.flag => r[k] = in.flag[k])
    BY DEF RestrictDomain, Restrict
  <2> HIDE DEF r, u
  <2>4. DOMAIN (r ++ u) = DOMAIN r \cup DOMAIN u /\ \A x \in DOMAIN r : (r ++ u)[x] = r[x]
    BY MergeEntries
  <2> QED
    BY <2>1, <2>2, <2>3, <2>4
<1>2. k \in DOMAIN SetDefaults
  BY DEF SetDefaults, Table, BoundFlags
<1> HIDE DEF o, e
<1>3. Get(in, k) = IF k \in DOMAIN in.flag THEN in.flag[k]
                   ELSE IF k \in DOMAIN e THEN e[k]
                   ELSE IF k \in DOMAIN in.file THEN in.file[k] ELSE SetDefaults[k]
  <2>1. Get(in, k) = (((o ++ e) ++ in.file) ++ SetDefaults)[k]
    BY DEF Get, o, e, SetEnv
  <2> QED
    BY <1>1, <1>2, <2>1 DEF ++
<1>4. Said(k) = places[Min(S)][k]
  BY DEF Said, e
<1>5. CASE k \in DOMAIN in.flag
  <2>1. S \in SUBSET Int /\ 1 \in S /\ \A y \in S : 1 <= y
    BY <1>5
  <2>2. Min(S) = 1
    BY <2>1, MinIs
  <2> QED
    BY <1>3, <1>4, <1>5, <2>2
<1>6. CASE k \notin DOMAIN in.flag /\ k \in DOMAIN e
  <2>1. S \in SUBSET Int /\ 2 \in S /\ \A y \in S : 2 <= y
    BY <1>6
  <2>2. Min(S) = 2
    BY <2>1, MinIs
  <2> QED
    BY <1>3, <1>4, <1>6, <2>2
<1>7. CASE k \notin DOMAIN in.flag /\ k \notin DOMAIN e /\ k \in DOMAIN in.file
  <2>1. S \in SUBSET Int /\ 3 \in S /\ \A y \in S : 3 <= y
    BY <1>7
  <2>2. Min(S) = 3
    BY <2>1, MinIs
  <2> QED
    BY <1>3, <1>4, <1>7, <2>2
<1>8. CASE k \notin DOMAIN in.flag /\ k \notin DOMAIN e /\ k \notin DOMAIN in.file
  <2>1. S \in SUBSET Int /\ 4 \in S /\ \A y \in S : 4 <= y
    BY <1>2, <1>8
  <2>2. Min(S) = 4
    BY <2>1, MinIs
  <2> QED
    BY <1>3, <1>4, <1>8, <2>2
<1> QED
  BY <1>5, <1>6, <1>7, <1>8

\* --params changes the parameters of a section and nothing else.
LEMMA SectionKept ==
  ASSUME in \in Invocations, cfg = Assemble(in), NEW n
  PROVE  /\ Section(cfg.sections, n).memory = Section(in.sections, n).memory
         /\ Section(cfg.sections, n).cpuCores = Section(in.sections, n).cpuCores
         /\ Section(cfg.sections, n).vmCount = Section(in.sections, n).vmCount
         /\ Section(in.sections, n).cpuCores \in Number /\ Section(in.sections, n).vmCount \in Number
<1> DEFINE t == Section(in.sections, n)
           parsed == ParseParams(resolveRawParams(in))
<1>1. cfg.sections = [x \in DOMAIN parsed \cup DOMAIN in.sections |->
                        [Section(in.sections, x) EXCEPT !.params = ListOr(parsed, x, None) ++ @]]
  BY DEF Assemble, MergeParams
<1> HIDE DEF parsed
<1>2. DOMAIN t = DOMAIN NoSection /\ t.vmCount \in Number /\ t.cpuCores \in Number
  BY InvocationsTyped, NumeralsDiffer DEF Section, NoSection, Number
<1>3. {"memory", "cpuCores", "vmCount"} \subseteq DOMAIN t
  BY <1>2 DEF NoSection
<1>4. CASE n \in DOMAIN parsed \cup DOMAIN in.sections
  <2>1. Section(cfg.sections, n) = [t EXCEPT !.params = ListOr(parsed, n, None) ++ @]
    BY <1>1, <1>4 DEF Section
  <2> HIDE DEF t
  <2>2. /\ Section(cfg.sections, n).memory = t.memory /\ Section(cfg.sections, n).cpuCores = t.cpuCores
        /\ Section(cfg.sections, n).vmCount = t.vmCount
    BY <1>3, <2>1
  <2> QED
    BY <1>2, <2>2 DEF t
<1>5. CASE n \notin DOMAIN parsed \cup DOMAIN in.sections
  BY <1>1, <1>2, <1>5 DEF Section
<1> QED
  BY <1>4, <1>5

\* A role gets the number of VMs it calls for, which is positive.
LEMMA CountType ==
  ASSUME in \in Invocations, cfg = Assemble(in), NEW n, NEW r, r.count \in Number
  PROVE  /\ Count(n, r) \in 1..MaxNumber
         /\ Count(n, r) = FirstPositive(<<r.count, Section(in.sections, n).vmCount,
                                          GetInt(ListOr(in.flag, "vm-count", "1")), 1>>)
<1> DEFINE a == r.count
           b == Section(in.sections, n).vmCount
           c == GetInt(ListOr(in.flag, "vm-count", "1"))
<1>1. a \in Number /\ b \in Number /\ c \in Number
  BY SectionKept, GetIntType
<1>2. Count(n, r) = Positive(a, Positive(Positive(b, c), 1))
  BY SectionKept DEF Count, VMCount
<1> HIDE DEF a, b, c
<1>3. FirstPositive(<<a, b, c, 1>>) = Positive(a, Positive(Positive(b, c), 1))
  BY <1>1, FirstOfFour, NumeralsDiffer DEF Number
<1>4. Positive(a, Positive(Positive(b, c), 1)) \in 1..MaxNumber
  BY <1>1, NumeralsDiffer, TenOccurs DEF Positive, Number
<1> QED
  BY <1>2, <1>3, <1>4 DEF a, b, c

-----------------------------------------------------------------------------
\* What stays the same while the configuration does.

\* The VM of a workload, a role and a number depends on the configuration only.
LEMMA VMsStay ==
  ASSUME cfg' = cfg
  PROVE  \A w, n, r, i : VM(w, n, r, i)' = VM(w, n, r, i)
<1>1. \A n : /\ Params(n)' = Params(n) /\ CPUCores(n)' = CPUCores(n) /\ Memory(n)' = Memory(n)
  BY DEF Params, CPUCores, Memory
<1>2. \A s : Size(s)' = Size(s)
  BY DEF Size
<1>3. \A w, n, c : Fill(w, n, c)' = Fill(w, n, c)
  BY <1>1 DEF Fill
<1>4. \A w, n : Setups(w, n)' = Setups(w, n)
  BY <1>3 DEF Setups
<1>5. \A w, n, r : BuildCloudConfig(w, n, r)' = BuildCloudConfig(w, n, r)
  BY <1>3, <1>4 DEF BuildCloudConfig
<1>6. \A s, v : NamespaceDataVolumes(s, v)' = NamespaceDataVolumes(s, v)
  BY <1>2 DEF NamespaceDataVolumes
<1>7. \A v, x : Volumes(v, x)' = Volumes(v, x)
  BY DEF Volumes
<1> QED
  BY <1>1, <1>5, <1>6, <1>7 DEF VM

\* How many VMs a role gets, and which workloads are switched off.
LEMMA CountsStay ==
  ASSUME cfg' = cfg, in' = in
  PROVE  /\ \A n, r : Count(n, r)' = Count(n, r)
         /\ \A n : Disabled(n)' = Disabled(n)
<1>1. \A n : VMCount(n)' = VMCount(n)
  BY DEF VMCount
<1>2. \A n, r : Count(n, r)' = Count(n, r)
  BY <1>1 DEF Count
<1>3. \A n : Disabled(n)' = Disabled(n)
  BY DEF Disabled
<1> QED
  BY <1>2, <1>3

-----------------------------------------------------------------------------
\* The inductive invariant.

\* s is the rest of t.
Suffix(s, t) == Len(s) <= Len(t) /\ \A k \in 1..Len(s) : s[k] = t[Len(t) - Len(s) + k]

Read == ~LoadFails(in) /\ cfg = Assemble(in)
Planning == stage \in {"plan", "roles"} \/ Planned

\* A command fails once, only a run plans, and nothing is planned before.
Staged ==
  /\ stage # "failed" => failedAt = ""
  /\ stage \in {"names", "load", "plan", "roles"} => in.cmd = "run"
  /\ stage \in {"start", "names", "audit", "load"} => instances = {} /\ plans = <<>>
  /\ stage \in {"start", "names", "audit"} => DOMAIN loaded = {}
  /\ stage # "failed" => names \in Seq(DOMAIN DefaultRegistry)
  /\ Planned => left = <<>>

\* The configuration is the one LoadConfig assembled.
Configured ==
  /\ in \in Invocations
  /\ \/ cfg # None \/ instances # {} \/ Planned
     \/ stage \in {"names", "audit", "load", "plan", "roles"}
     => Read

\* What was registered was loaded from the catalog, under a name of its own.
Registered ==
  \A n \in DOMAIN loaded :
    /\ n \notin DOMAIN DefaultRegistry
    /\ Loads(CatalogAt(cfg.catalogDir), n)
    /\ loaded[n] = Factory(n, CatalogAt(cfg.catalogDir)[n])

\* The loop over cfg.FromCatalog has registered what it has passed.
Loading ==
  stage = "load" =>
    /\ left \in Seq(Seq(STRING)) /\ Suffix(left, cfg.fromCatalog)
    /\ DOMAIN loaded = {cfg.fromCatalog[k] : k \in 1..(Len(cfg.fromCatalog) - Len(left))}

\* The loop over the workloads meets registered ones only.
Visiting ==
  Planning =>
    /\ Requested \in Seq(DOMAIN registry) /\ left \in Seq(DOMAIN registry)
    /\ Suffix(left, Requested)
    /\ stage = "roles" => /\ left # <<>> /\ Head(left) \in instances
                          /\ roles \in Seq(RoleSpec) /\ Suffix(roles, registry[Head(left)].roles)

\* How far the loops have come: workloads passed, roles of the current one done.
Passed == Len(Requested) - Len(left)
RolesDone == Len(registry[Head(left)].roles) - Len(roles)

\* The VM with number i of the k-th role of a workload, and all there may be.
RoleVM(n, k, i) == VM(registry[n], n, registry[n].roles[k].role, i)
Numbers(n, k) == 0..(Count(n, registry[n].roles[k]) - 1)
PossibleVMs ==
  UNION {UNION {{RoleVM(n, k, i) : i \in Numbers(n, k)} : k \in DOMAIN registry[n].roles} : n \in instances}

\* Workloads that are planned are registered and not switched off, and every
\* plan is the VM of one of their roles.
Made ==
  /\ \A n \in instances : n \in DOMAIN registry /\ ~Disabled(n)
  /\ plans \in Seq(PossibleVMs)

\* Every workload passed is planned or switched off, and no other is.
Answered ==
  Planning =>
    /\ \A n \in instances : \E q \in DOMAIN Requested : Requested[q] = n
    /\ \A q \in 1..Passed : Disabled(Requested[q]) \/ Requested[q] \in instances

\* All VMs of all roles of a workload are planned, but for the roles that the
\* current turn has not come to.
Covered ==
  Planning =>
    \A n \in instances : \A k \in DOMAIN registry[n].roles :
      \/ stage = "roles" /\ n = Head(left) /\ k > RolesDone
      \/ \A i \in Numbers(n, k) : \E p \in DOMAIN plans : plans[p] = RoleVM(n, k, i)

\* A plan comes from an earlier turn, or from a role done in this one.
Origin ==
  Planning =>
    \A p \in DOMAIN plans :
      \/ \E q \in 1..Passed : Requested[q] = plans[p].workload
      \/ /\ stage = "roles" /\ plans[p].workload = Head(left)
         /\ \E k \in 1..RolesDone : registry[Head(left)].roles[k].role = plans[p].role

\* Within a workload, VM names are equal only by two turns or two equal roles.
TwoTurns(n) == \E a, b \in DOMAIN Requested : a # b /\ Requested[a] = n /\ Requested[b] = n
TwinRoles(n) == ~IsInjective([k \in DOMAIN registry[n].roles |-> registry[n].roles[k].role])
Apart ==
  Planning =>
    \A i, j \in DOMAIN plans :
      i < j /\ plans[i].name = plans[j].name /\ plans[i].workload = plans[j].workload =>
        TwoTurns(plans[i].workload) \/ TwinRoles(plans[i].workload)

PlanInv ==
  /\ Staged /\ Configured /\ Registered /\ Loading /\ Visiting
  /\ Made /\ Answered /\ Covered /\ Origin /\ Apart /\ ValidatedEntryDeploys

-----------------------------------------------------------------------------
\* Consequences of the invariant.

\* The entries of the registry.
LEMMA RegistryEntries ==
  /\ DOMAIN registry = DOMAIN loaded \cup DOMAIN DefaultRegistry
  /\ \A n \in DOMAIN loaded : registry[n] = loaded[n]
  /\ \A n \in DOMAIN DefaultRegistry \ DOMAIN loaded : registry[n] = DefaultRegistry[n]
  BY MergeEntries DEF registry

\* Every registered workload can be planned; the built-in ones are those of the
\* code.
LEMMA RegistryOK ==
  ASSUME Registered, NEW n \in DOMAIN registry
  PROVE  /\ WorkloadOK(n, registry[n])
         /\ n \in DOMAIN DefaultRegistry => registry[n] = DefaultRegistry[n]
         /\ n \notin DOMAIN DefaultRegistry =>
              /\ Loads(CatalogAt(cfg.catalogDir), n)
              /\ registry[n] = Factory(n, CatalogAt(cfg.catalogDir)[n])
<1>1. CASE n \in DOMAIN loaded
  <2>1. n \notin DOMAIN DefaultRegistry /\ Loads(CatalogAt(cfg.catalogDir), n)
        /\ registry[n] = Factory(n, CatalogAt(cfg.catalogDir)[n])
    BY <1>1, RegistryEntries DEF Registered
  <2> QED
    BY <2>1, EntryOK
<1>2. CASE n \notin DOMAIN loaded
  BY <1>2, RegistryEntries, BuiltInOK
<1> QED
  BY <1>1, <1>2

\* What the plan is made of does not change with the loop variables.
LEMMA Kept ==
  ASSUME in' = in, cfg' = cfg, names' = names, loaded' = loaded
  PROVE  /\ registry' = registry /\ Requested' = Requested /\ Read' = Read
         /\ \A n, k, i : RoleVM(n, k, i)' = RoleVM(n, k, i)
         /\ \A n, k : Numbers(n, k)' = Numbers(n, k)
         /\ \A n : Disabled(n)' = Disabled(n)
         /\ \A n : TwoTurns(n)' = TwoTurns(n)
         /\ \A n : TwinRoles(n)' = TwinRoles(n)
<1>1. registry' = registry /\ Requested' = Requested /\ Read' = Read
  BY DEF registry, Requested, Read
<1>2. \A n, k, i : RoleVM(n, k, i)' = RoleVM(n, k, i)
  BY <1>1, VMsStay DEF RoleVM
<1>3. \A n, k : Numbers(n, k)' = Numbers(n, k)
  BY <1>1, CountsStay DEF Numbers
<1>4. \A n : Disabled(n)' = Disabled(n)
  BY CountsStay
<1>5. \A n : TwoTurns(n)' = TwoTurns(n)
  BY <1>1 DEF TwoTurns
<1>6. \A n : TwinRoles(n)' = TwinRoles(n)
  BY <1>1 DEF TwinRoles
<1> QED
  BY <1>1, <1>2, <1>3, <1>4, <1>5, <1>6

\* Every plan is the VM of a role of a planned workload.
LEMMA PlanIsVM ==
  ASSUME Made, NEW p \in DOMAIN plans
  PROVE  \E n \in instances : \E k \in DOMAIN registry[n].roles : \E i \in Numbers(n, k) :
           plans[p] = RoleVM(n, k, i)
<1>1. plans[p] \in PossibleVMs
  BY DEF Made
<1> QED
  BY <1>1 DEF PossibleVMs

\* The fields of a VM that say where it comes from.
LEMMA RoleVMFields ==
  ASSUME NEW n, NEW k, NEW i
  PROVE  /\ RoleVM(n, k, i).workload = n /\ RoleVM(n, k, i).role = registry[n].roles[k].role
         /\ RoleVM(n, k, i).name = VMName(n, registry[n].roles[k].role, i)
  BY DEF RoleVM, VM

\* The parts of the userdata that say what is dialled and who logs in.
LEMMA CloudConfigFields ==
  ASSUME NEW w, NEW n, NEW role
  PROVE  /\ BuildCloudConfig(w, n, role).dials =
              {[service |-> s, namespace |-> cfg.namespace] : s \in w.dials[role]}
         /\ BuildCloudConfig(w, n, role).users =
              IF cfg.sshUser = "" THEN {}
              ELSE {[name |-> cfg.sshUser, password |-> cfg.sshPassword, keys |-> cfg.sshKeys]}
  BY DEF BuildCloudConfig

\* The data volumes of a VM: a template and a volume of each disk, of one name.
LEMMA DataVolumeFields ==
  ASSUME NEW storage, NEW vm
  PROVE  /\ DOMAIN NamespaceDataVolumes(storage, vm).templates = DOMAIN storage
         /\ DOMAIN NamespaceDataVolumes(storage, vm).volumes = DOMAIN storage
         /\ \A i \in DOMAIN storage :
              /\ NamespaceDataVolumes(storage, vm).templates[i].name = storage[i].dv \o vm
              /\ NamespaceDataVolumes(storage, vm).templates[i].size = Size(storage[i])
              /\ NamespaceDataVolumes(storage, vm).volumes[i].name = storage[i].name
              /\ NamespaceDataVolumes(storage, vm).volumes[i].source = storage[i].dv \o vm
  BY DEF NamespaceDataVolumes

\* A role of a registered workload, and the numbers its VMs have.
LEMMA RoleNumbers ==
  ASSUME Registered, in \in Invocations, Read,
         NEW n \in DOMAIN registry, NEW k \in DOMAIN registry[n].roles
  PROVE  /\ n \in Seq(STRING) /\ registry[n].roles[k] \in RoleSpec
         /\ registry[n].roles[k].role \in Seq(STRING)
         /\ Numbers(n, k) \subseteq Number /\ Numbers(n, k) # {}
         /\ Count(n, registry[n].roles[k]) \in 1..MaxNumber
<1>1. n \in Seq(STRING) /\ registry[n].roles \in Seq(RoleSpec)
  BY RegistryOK DEF WorkloadOK, Named
<1>2. registry[n].roles[k] \in RoleSpec
  BY <1>1
<1>3. registry[n].roles[k].role \in Seq(STRING) /\ registry[n].roles[k].count \in Number
  BY <1>2 DEF RoleSpec
<1>4. Count(n, registry[n].roles[k]) \in 1..MaxNumber
  BY <1>3, CountType DEF Read
<1>5. Numbers(n, k) \subseteq Number /\ Numbers(n, k) # {}
  <2> DEFINE c == Count(n, registry[n].roles[k])
  <2>1. c \in 1..MaxNumber /\ Numbers(n, k) = 0..(c - 1)
    BY <1>4 DEF Numbers
  <2> HIDE DEF c
  <2>2. 0 \in 0..(c - 1) /\ 0..(c - 1) \subseteq Number
    BY <2>1, NumeralsDiffer DEF Number
  <2> QED
    BY <2>1, <2>2
<1> QED
  BY <1>1, <1>2, <1>3, <1>4, <1>5

-----------------------------------------------------------------------------
\* Every step preserves the invariant.

\* Before and after the planning there is little to show.
LEMMA NothingPlanned ==
  ASSUME stage \notin {"plan", "roles"}, ~Planned
  PROVE  Visiting /\ Answered /\ Covered /\ Origin /\ Apart
  BY DEF Planning, Visiting, Answered, Covered, Origin, Apart

\* An empty plan is made of nothing.
LEMMA NoPlans ==
  ASSUME instances = {}, plans = <<>>
  PROVE  Made
<1>1. <<>> \in Seq(PossibleVMs)
  BY EmptySeq
<1> QED
  BY <1>1 DEF Made

\* A command starts with nothing read, registered or planned.
LEMMA InitPlanInv == PlannerInit => PlanInv
<1> SUFFICES ASSUME PlannerInit PROVE PlanInv
  OBVIOUS
<1>1. /\ in \in Invocations /\ stage = "start" /\ failedAt = "" /\ cfg = None /\ names = <<>>
      /\ DOMAIN loaded = {} /\ instances = {} /\ plans = <<>>
  <2>1. DOMAIN None = {}
    BY DEF None
  <2> QED
    BY <2>1 DEF PlannerInit
<1>2. Staged
  BY <1>1, EmptySeq DEF Staged, Planned
<1>3. Configured /\ Registered /\ Loading
  BY <1>1 DEF Configured, Registered, Loading, Planned
<1>4. Visiting /\ Answered /\ Covered /\ Origin /\ Apart
  BY <1>1, NothingPlanned DEF Planned
<1>5. Made
  BY <1>1, NoPlans
<1>6. ValidatedEntryDeploys
  BY <1>1 DEF ValidatedEntryDeploys
<1> QED
  BY <1>2, <1>3, <1>4, <1>5, <1>6 DEF PlanInv

\* The configuration is read or the command fails.
LEMMA LoadConfigInv == PlanInv /\ LoadConfig => PlanInv'
<1> SUFFICES ASSUME PlanInv, LoadConfig PROVE PlanInv'
  OBVIOUS
<1>1. /\ stage = "start" /\ in' = in /\ names' = names /\ loaded' = loaded
      /\ instances' = instances /\ plans' = plans
      /\ stage' = (IF LoadFails(in) THEN "failed" ELSE IF in.cmd = "run" THEN "names" ELSE "audit")
      /\ failedAt' = (IF LoadFails(in) THEN "start" ELSE failedAt)
      /\ cfg' = (IF LoadFails(in) THEN None ELSE Assemble(in))
  BY DEF LoadConfig, Advance
<1>2. instances = {} /\ plans = <<>> /\ DOMAIN loaded = {} /\ failedAt = "" /\ in \in Invocations
  BY <1>1 DEF PlanInv, Staged, Configured
<1>3. stage' \in {"failed", "names", "audit"} /\ (stage' = "names" => in.cmd = "run") /\ ~Planned'
  BY <1>1 DEF Planned
<1>4. Staged'
  BY <1>1, <1>2, <1>3 DEF PlanInv, Staged
<1>5. Configured'
  BY <1>1, <1>2, <1>3 DEF Configured, Read
<1>6. Registered' /\ Loading'
  BY <1>1, <1>2, <1>3 DEF Registered, Loading
<1>7. Visiting' /\ Answered' /\ Covered' /\ Origin' /\ Apart'
  BY <1>3, NothingPlanned DEF Planning, Visiting, Answered, Covered, Origin, Apart
<1>8. Made'
  BY <1>1, <1>2, EmptySeq DEF Made
<1>9. ValidatedEntryDeploys'
  BY <1>1, <1>2 DEF ValidatedEntryDeploys
<1> QED
  BY <1>4, <1>5, <1>6, <1>7, <1>8, <1>9 DEF PlanInv

\* The names asked for are names of the registry.
LEMMA SelectNamesInv == PlanInv /\ SelectNames => PlanInv'
<1> SUFFICES ASSUME PlanInv, SelectNames PROVE PlanInv'
  OBVIOUS
<1>1. /\ stage = "names" /\ in' = in /\ cfg' = cfg /\ loaded' = loaded
      /\ instances' = instances /\ plans' = plans
      /\ stage' \in {"failed", "audit"}
      /\ failedAt' = (IF stage' = "failed" THEN "names" ELSE failedAt)
      /\ stage' = "audit" => ToSet(names') \subseteq DOMAIN DefaultRegistry
      /\ names' = <<>> \/ names' = ListOr(in.flagList, "workloads", AllWorkloadNames)
  BY DEF SelectNames, Advance
<1>2. /\ instances = {} /\ plans = <<>> /\ DOMAIN loaded = {} /\ failedAt = "" /\ in \in Invocations
      /\ Read /\ in.cmd = "run"
  BY <1>1 DEF PlanInv, Staged, Configured
<1>3. ~Planned'
  BY <1>1 DEF Planned
<1>4. stage' # "failed" => names' \in Seq(DOMAIN DefaultRegistry)
  <2>1. names' = <<>> \/ names' = AllWorkloadNames \/ names' \in Seq(Seq(STRING))
    BY <1>1, <1>2, InvocationsTyped DEF ListOr
  <2>2. AllWorkloadNames \in Seq(DOMAIN DefaultRegistry)
    BY RegistryNames DEF AllWorkloadNames
  <2>3. ASSUME names' \in Seq(Seq(STRING)), ToSet(names') \subseteq DOMAIN DefaultRegistry
        PROVE  names' \in Seq(DOMAIN DefaultRegistry)
    BY <2>3 DEF ToSet
  <2> QED
    BY <1>1, <2>1, <2>2, <2>3, EmptySeq
<1>5. Staged'
  BY <1>1, <1>2, <1>3, <1>4 DEF Staged
<1>6. Configured' /\ Registered' /\ Loading'
  BY <1>1, <1>2, <1>3 DEF Configured, Registered, Loading, Read
<1>7. Visiting' /\ Answered' /\ Covered' /\ Origin' /\ Apart'
  BY <1>1, <1>3 DEF Planning, Visiting, Answered, Covered, Origin, Apart
<1>8. Made'
  BY <1>1, <1>2, EmptySeq DEF Made
<1>9. ValidatedEntryDeploys'
  BY <1>1, <1>2 DEF ValidatedEntryDeploys
<1> QED
  BY <1>5, <1>6, <1>7, <1>8, <1>9 DEF PlanInv

\* The loop over the catalog entries starts with all of them.
LEMMA initAuditorInv == PlanInv /\ initAuditor => PlanInv'
<1> SUFFICES ASSUME PlanInv, initAuditor PROVE PlanInv'
  OBVIOUS
<1>1. /\ stage = "audit" /\ in' = in /\ cfg' = cfg /\ loaded' = loaded /\ names' = names
      /\ instances' = instances /\ plans' = plans /\ left' = cfg.fromCatalog
      /\ stage' = "failed" \/ stage' = (IF in.cmd = "run" THEN "load" ELSE "done")
      /\ failedAt' = (IF stage' = "failed" THEN "audit" ELSE failedAt)
  BY DEF initAuditor, Advance
<1>2. /\ instances = {} /\ plans = <<>> /\ DOMAIN loaded = {} /\ failedAt = "" /\ in \in Invocations
      /\ Read /\ names \in Seq(DOMAIN DefaultRegistry)
  BY <1>1 DEF PlanInv, Staged, Configured
<1>3. ~Planned' /\ stage' \notin {"plan", "roles"} /\ (stage' = "load" => in.cmd = "run")
  BY <1>1 DEF Planned
<1>4. Staged'
  BY <1>1, <1>2, <1>3 DEF Staged
<1>5. Configured' /\ Registered'
  BY <1>1, <1>2, <1>3 DEF Configured, Registered, Read
<1>6. Loading'
  <2>1. cfg.fromCatalog \in Seq(Seq(STRING))
    BY <1>2, InvocationsTyped DEF Read, Assemble
  <2> DEFINE s == cfg.fromCatalog
  <2>2. Suffix(s, s) /\ {s[k] : k \in 1..(Len(s) - Len(s))} = {}
    <3> HIDE DEF s
    <3> QED
      BY <2>1 DEF Suffix, s
  <2> QED
    BY <1>1, <1>2, <2>1, <2>2 DEF Loading
<1>7. Visiting' /\ Answered' /\ Covered' /\ Origin' /\ Apart'
  BY <1>3 DEF Planning, Visiting, Answered, Covered, Origin, Apart
<1>8. Made'
  BY <1>1, <1>2, EmptySeq DEF Made
<1>9. ValidatedEntryDeploys'
  BY <1>1, <1>2 DEF ValidatedEntryDeploys
<1> QED
  BY <1>4, <1>5, <1>6, <1>7, <1>8, <1>9 DEF PlanInv

\* A step of a loop: the head of what is left is the next element of the list.
LEMMA SuffixStep ==
  ASSUME NEW S, NEW s \in Seq(S), NEW t \in Seq(S), Suffix(s, t), s # <<>>
  PROVE  /\ Tail(s) \in Seq(S) /\ Suffix(Tail(s), t) /\ Len(Tail(s)) = Len(s) - 1
         /\ Len(t) - Len(s) + 1 \in 1..Len(t)
         /\ Head(s) = t[Len(t) - Len(s) + 1]
<1>1. Tail(s) \in Seq(S) /\ Len(Tail(s)) = Len(s) - 1 /\ Head(s) = s[1] /\ Len(s) >= 1
  OBVIOUS
<1>2. \A k \in 1..(Len(s) - 1) : Tail(s)[k] = s[k + 1]
  OBVIOUS
<1>3. Head(s) = t[Len(t) - Len(s) + 1] /\ Len(t) - Len(s) + 1 \in 1..Len(t)
  BY <1>1 DEF Suffix
<1>4. Suffix(Tail(s), t)
  BY <1>1, <1>2 DEF Suffix
<1> QED
  BY <1>1, <1>3, <1>4

\* Everything is left at the beginning.
LEMMA SuffixWhole ==
  ASSUME NEW S, NEW s \in Seq(S)
  PROVE  Suffix(s, s)
  BY DEF Suffix

\* A sequence is one over any set that has its elements.
LEMMA SeqOfElements ==
  ASSUME NEW S, NEW T, NEW s \in Seq(S), \A k \in 1..Len(s) : s[k] \in T
  PROVE  s \in Seq(T)
  OBVIOUS

\* OnlyValidated depends on the invocation and the configuration.
LEMMA OnlyValidatedStays ==
  ASSUME in' = in, cfg' = cfg
  PROVE  OnlyValidated' = OnlyValidated
  BY DEF OnlyValidated

\* An entry is registered under a name that is not taken, or the run fails; one
\* that "virtwork validate" accepts is registered.
LEMMA LoadEntryInv == PlanInv /\ LoadEntry => PlanInv'
<1> SUFFICES ASSUME PlanInv, LoadEntry PROVE PlanInv'
  OBVIOUS
<1> DEFINE name == Head(left)
           catalog == CatalogAt(cfg.catalogDir)
           fails == name \in DOMAIN registry \/ ~Loads(catalog, name)
           fc == cfg.fromCatalog
<1>1. /\ stage = "load" /\ left # <<>> /\ in' = in /\ cfg' = cfg /\ names' = names
      /\ instances' = instances /\ plans' = plans /\ left' = Tail(left)
      /\ stage' = (IF fails THEN "failed" ELSE "load")
      /\ failedAt' = (IF fails THEN "load" ELSE failedAt)
      /\ loaded' = (IF fails THEN loaded ELSE Entry(name, Factory(name, catalog[name])) ++ loaded)
  BY DEF LoadEntry, Advance
<1>2. /\ instances = {} /\ plans = <<>> /\ failedAt = "" /\ in \in Invocations
      /\ Read /\ names \in Seq(DOMAIN DefaultRegistry) /\ in.cmd = "run"
  BY <1>1 DEF PlanInv, Staged, Configured
<1>3. /\ left \in Seq(Seq(STRING)) /\ Suffix(left, fc)
      /\ DOMAIN loaded = {fc[k] : k \in 1..(Len(fc) - Len(left))}
  BY <1>1 DEF PlanInv, Loading
<1>4. fc \in Seq(Seq(STRING))
  BY <1>2, InvocationsTyped DEF Read, Assemble
<1>5. stage' \in {"failed", "load"} /\ ~Planned'
  BY <1>1 DEF Planned
<1>6. DOMAIN registry = DOMAIN loaded \cup DOMAIN DefaultRegistry
  BY RegistryEntries
<1> HIDE DEF name, catalog, fails, fc
<1>7. /\ Tail(left) \in Seq(Seq(STRING)) /\ Suffix(Tail(left), fc) /\ Len(Tail(left)) = Len(left) - 1
      /\ Len(fc) - Len(left) + 1 \in 1..Len(fc) /\ name = fc[Len(fc) - Len(left) + 1]
  BY <1>1, <1>3, <1>4, SuffixStep DEF name
<1>7a. ASSUME ~fails
       PROVE  /\ DOMAIN loaded' = {name} \cup DOMAIN loaded
              /\ loaded'[name] = Factory(name, catalog[name])
              /\ \A n \in DOMAIN loaded \ {name} : loaded'[n] = loaded[n]
  <2> DEFINE e == Entry(name, Factory(name, catalog[name]))
  <2>1. DOMAIN e = {name} /\ e[name] = Factory(name, catalog[name])
    BY EntryEntries
  <2>2. loaded' = e ++ loaded
    BY <1>1, <1>7a
  <2> HIDE DEF e
  <2>3. /\ DOMAIN (e ++ loaded) = DOMAIN e \cup DOMAIN loaded
        /\ \A x \in DOMAIN e : (e ++ loaded)[x] = e[x]
        /\ \A x \in DOMAIN loaded \ DOMAIN e : (e ++ loaded)[x] = loaded[x]
    BY MergeEntries
  <2> QED
    BY <2>1, <2>2, <2>3
<1>8. Staged'
  BY <1>1, <1>2, <1>5 DEF Staged, fails
<1>9. Configured'
  BY <1>1, <1>2, <1>5 DEF Configured, Read
<1>10. Registered'
  <2>1. CASE fails
    BY <1>1, <2>1 DEF PlanInv, Registered
  <2>2. CASE ~fails
    <3>4. name \notin DOMAIN DefaultRegistry /\ Loads(catalog, name)
      BY <1>6, <2>2 DEF fails
    <3> QED
      BY <1>1, <1>7a, <2>2, <3>4 DEF PlanInv, Registered, catalog
  <2> QED
    BY <2>1, <2>2
<1>11. Loading'
  <2>1. CASE fails
    BY <1>1, <2>1 DEF Loading
  <2>2. CASE ~fails
    <3>1. DOMAIN loaded' = {name} \cup DOMAIN loaded
      BY <1>7a, <2>2
    <3> DEFINE m == Len(fc) - Len(left)
    <3>2. m \in Nat /\ Len(fc) - Len(Tail(left)) = m + 1 /\ name = fc[m + 1]
      BY <1>3, <1>4, <1>7
    <3>3. {fc[k] : k \in 1..(m + 1)} = {fc[m + 1]} \cup {fc[k] : k \in 1..m}
      <4>1. m \in Nat
        BY <3>2
      <4> HIDE DEF m
      <4>2. 1..(m + 1) = (1..m) \cup {m + 1}
        BY <4>1
      <4> QED
        BY <4>2
    <3>4. DOMAIN loaded' = {fc[k] : k \in 1..(Len(fc) - Len(Tail(left)))}
      BY <1>3, <3>1, <3>2, <3>3
    <3> QED
      BY <1>1, <1>7, <3>4 DEF Loading, fc
  <2> QED
    BY <2>1, <2>2
<1>12. Visiting' /\ Answered' /\ Covered' /\ Origin' /\ Apart'
  BY <1>5 DEF Planning, Visiting, Answered, Covered, Origin, Apart
<1>13. Made'
  BY <1>1, <1>2, EmptySeq DEF Made
<1>14. ValidatedEntryDeploys'
  <2>1. ASSUME OnlyValidated PROVE ~fails
    <3>1. name \in ToSet(fc)
      BY <1>4, <1>7 DEF ToSet
    <3>2. name \notin DOMAIN DefaultRegistry /\ Loads(catalog, name)
      BY <2>1, <3>1 DEF OnlyValidated, ValidatesOK, catalog, fc
    <3>3. \A a, b \in DOMAIN fc : fc[a] = fc[b] => a = b
      BY <2>1 DEF OnlyValidated, IsInjective, fc
    <3>4. name \notin DOMAIN loaded
      BY <1>3, <1>4, <1>7, <3>3
    <3> QED
      BY <1>6, <3>2, <3>4 DEF fails
  <2>2. OnlyValidated' => OnlyValidated
    BY <1>1, OnlyValidatedStays
  <2> QED
    BY <1>1, <1>2, <2>1, <2>2 DEF ValidatedEntryDeploys
<1> QED
  BY <1>8, <1>9, <1>10, <1>11, <1>12, <1>13, <1>14 DEF PlanInv

\* The loop over the workloads starts with all of them, each registered.
LEMMA EntriesLoadedInv == PlanInv /\ EntriesLoaded => PlanInv'
<1> SUFFICES ASSUME PlanInv, EntriesLoaded PROVE PlanInv'
  OBVIOUS
<1>1. /\ stage = "load" /\ left = <<>> /\ in' = in /\ cfg' = cfg /\ names' = names /\ loaded' = loaded
      /\ instances' = instances /\ plans' = plans /\ left' = Requested
      /\ stage' = "plan" /\ failedAt' = failedAt
  BY DEF EntriesLoaded, Advance
<1>2. /\ instances = {} /\ plans = <<>> /\ failedAt = "" /\ in \in Invocations
      /\ Read /\ names \in Seq(DOMAIN DefaultRegistry) /\ in.cmd = "run"
  BY <1>1 DEF PlanInv, Staged, Configured
<1> DEFINE fc == cfg.fromCatalog
<1>3. fc \in Seq(Seq(STRING))
  BY <1>2, InvocationsTyped DEF Read, Assemble
<1>4. DOMAIN loaded = {fc[k] : k \in 1..(Len(fc) - Len(left))}
  BY <1>1 DEF PlanInv, Loading
<1> HIDE DEF fc
<1>5. fc \in Seq(DOMAIN registry)
  <2>1. \A k \in 1..Len(fc) : fc[k] \in DOMAIN registry
    <3>1. Len(left) = 0 /\ Len(fc) \in Nat
      BY <1>1, <1>3
    <3>2. DOMAIN loaded = {fc[k] : k \in 1..Len(fc)}
      BY <1>4, <3>1
    <3> QED
      BY <3>2, RegistryEntries
  <2> QED
    BY <1>3, <2>1, SeqOfElements
<1>6. names \in Seq(DOMAIN registry)
  BY <1>2, RegistryEntries, SeqMonotonic
<1>7. Requested \in Seq(DOMAIN registry)
  BY <1>5, <1>6, ConcatProperties DEF Requested, fc
<1>8. registry' = registry /\ Requested' = Requested /\ Read' = Read
  BY <1>1, Kept
<1>9. Staged' /\ Configured' /\ Registered' /\ Loading'
  BY <1>1, <1>2, <1>8 DEF PlanInv, Staged, Configured, Registered, Loading, Planned
<1>10. Visiting'
  BY <1>1, <1>7, <1>8, SuffixWhole DEF Visiting
<1>11. Answered'
  <2>1. Passed' = 0
    <3>1. Passed' = Len(Requested) - Len(Requested)
      BY <1>1, <1>8 DEF Passed
    <3>2. Len(Requested) \in Nat
      BY <1>7
    <3> QED
      BY <3>1, <3>2
  <2>2. 1..Passed' = {}
    BY <2>1
  <2> QED
    BY <1>1, <1>2, <2>2 DEF Answered
<1>12. Covered' /\ Origin' /\ Apart'
  <2>1. instances' = {} /\ DOMAIN plans' = {}
    <3>1. instances' = {} /\ plans' = <<>>
      BY <1>1, <1>2
    <3>2. DOMAIN <<>> = {}
      OBVIOUS
    <3> QED
      BY <3>1, <3>2
  <2>2. Covered'
    BY <2>1 DEF Covered
  <2>3. Origin'
    BY <2>1 DEF Origin
  <2>4. Apart'
    BY <2>1 DEF Apart
  <2> QED
    BY <2>2, <2>3, <2>4
<1>13. Made'
  BY <1>1, <1>2, EmptySeq DEF Made
<1>14. ValidatedEntryDeploys'
  BY <1>1, <1>2 DEF ValidatedEntryDeploys
<1> QED
  BY <1>9, <1>10, <1>11, <1>12, <1>13, <1>14 DEF PlanInv

\* The steps of the planning leave alone what was read and loaded.
LEMMA PlanningStep ==
  ASSUME PlanInv, stage \in {"plan", "roles"}, in' = in, cfg' = cfg, names' = names, loaded' = loaded,
         stage' \in {"plan", "roles", "done", "failed"},
         failedAt' = (IF stage' = "failed" THEN stage ELSE failedAt),
         stage' = "done" => left' = <<>>
  PROVE  Staged' /\ Configured' /\ Registered' /\ Loading'
<1>1. in.cmd = "run" /\ in \in Invocations /\ Read /\ names \in Seq(DOMAIN DefaultRegistry) /\ failedAt = ""
  BY DEF PlanInv, Staged, Configured
<1>2. Staged'
  BY <1>1 DEF Staged, Planned
<1>3. Configured'
  BY <1>1, Kept DEF Configured
<1>4. Registered'
  BY DEF PlanInv, Registered
<1>5. Loading'
  BY DEF Loading
<1> QED
  BY <1>2, <1>3, <1>4, <1>5

\* Made while no plan is added.
LEMMA MadeStays ==
  ASSUME Made, in' = in, cfg' = cfg, names' = names, loaded' = loaded,
         instances' = instances, plans' = plans
  PROVE  Made'
<1>1. PossibleVMs' = PossibleVMs
  BY Kept DEF PossibleVMs
<1> QED
  BY <1>1, Kept DEF Made

\* Where the loop over the workloads stands, and a turn of it.
LEMMA NextTurn ==
  ASSUME PlanInv, stage \in {"plan", "roles"}, left # <<>>
  PROVE  /\ Requested \in Seq(DOMAIN registry) /\ Head(left) \in DOMAIN registry
         /\ Passed \in Nat /\ Passed + 1 \in DOMAIN Requested /\ Requested[Passed + 1] = Head(left)
         /\ Tail(left) \in Seq(DOMAIN registry) /\ Suffix(Tail(left), Requested)
         /\ Len(Requested) - Len(Tail(left)) = Passed + 1
<1> DEFINE S == DOMAIN registry
           t == Requested
<1>1. t \in Seq(S) /\ left \in Seq(S) /\ Suffix(left, t)
  BY DEF PlanInv, Visiting, Planning
<1> HIDE DEF S, t
<1>2. /\ Tail(left) \in Seq(S) /\ Suffix(Tail(left), t) /\ Len(Tail(left)) = Len(left) - 1
      /\ Len(t) - Len(left) + 1 \in 1..Len(t) /\ Head(left) = t[Len(t) - Len(left) + 1]
  BY <1>1, SuffixStep
<1>3. Len(t) \in Nat /\ Len(left) \in Nat /\ DOMAIN t = 1..Len(t) /\ Head(left) \in S
  BY <1>1
<1>4. Passed = Len(t) - Len(left)
  BY DEF Passed, t
<1>5. Passed \in Nat
  BY <1>1, <1>3, <1>4 DEF Suffix
<1>6. Passed + 1 \in DOMAIN t /\ t[Passed + 1] = Head(left) /\ Len(t) - Len(Tail(left)) = Passed + 1
  BY <1>2, <1>3, <1>4
<1> QED
  BY <1>1, <1>2, <1>3, <1>5, <1>6 DEF S, t

\* A workload that is switched off is passed over.
LEMMA SkipWorkloadInv == PlanInv /\ SkipWorkload => PlanInv'
<1> SUFFICES ASSUME PlanInv, SkipWorkload PROVE PlanInv'
  OBVIOUS
<1>1. /\ stage = "plan" /\ left # <<>> /\ Disabled(Head(left)) /\ left' = Tail(left)
      /\ in' = in /\ cfg' = cfg /\ names' = names /\ loaded' = loaded
      /\ instances' = instances /\ plans' = plans /\ stage' = "plan" /\ failedAt' = failedAt
  BY DEF SkipWorkload, Advance
<1>2. Staged' /\ Configured' /\ Registered' /\ Loading'
  BY <1>1, PlanningStep
<1>3. /\ Requested \in Seq(DOMAIN registry) /\ Passed \in Nat
      /\ Passed + 1 \in DOMAIN Requested /\ Requested[Passed + 1] = Head(left)
      /\ Tail(left) \in Seq(DOMAIN registry) /\ Suffix(Tail(left), Requested)
      /\ Len(Requested) - Len(Tail(left)) = Passed + 1
  BY <1>1, NextTurn
<1>4. Passed' = Passed + 1
  BY <1>1, <1>3, Kept DEF Passed
<1>5. Visiting'
  BY <1>1, <1>3, Kept DEF Visiting
<1>6. Made'
  BY <1>1, MadeStays DEF PlanInv
<1>7. Answered'
  <2>1. /\ \A n \in instances : \E q \in DOMAIN Requested : Requested[q] = n
        /\ \A q \in 1..Passed : Disabled(Requested[q]) \/ Requested[q] \in instances
    BY <1>1 DEF PlanInv, Answered, Planning
  <2>2. \A q \in 1..(Passed + 1) : Disabled(Requested[q]) \/ Requested[q] \in instances
    BY <1>1, <1>3, <2>1
  <2> QED
    BY <1>1, <1>4, <2>1, <2>2, Kept DEF Answered
<1>8. Covered'
  BY <1>1, Kept DEF PlanInv, Covered, Planning
<1>9. Origin'
  <2>1. \A p \in DOMAIN plans : \E q \in 1..Passed : Requested[q] = plans[p].workload
    BY <1>1 DEF PlanInv, Origin, Planning
  <2>2. 1..Passed \subseteq 1..(Passed + 1)
    BY <1>3
  <2> QED
    BY <1>1, <1>4, <2>1, <2>2, Kept DEF Origin
<1>10. Apart'
  BY <1>1, Kept DEF PlanInv, Apart, Planning
<1>11. ValidatedEntryDeploys'
  BY <1>1, OnlyValidatedStays DEF PlanInv, ValidatedEntryDeploys
<1> QED
  BY <1>2, <1>5, <1>6, <1>7, <1>8, <1>9, <1>10, <1>11 DEF PlanInv

\* A workload is finished when none of its roles is left.
LEMMA WorkloadPlannedInv == PlanInv /\ WorkloadPlanned => PlanInv'
<1> SUFFICES ASSUME PlanInv, WorkloadPlanned PROVE PlanInv'
  OBVIOUS
<1> DEFINE name == Head(left)
<1>1. /\ stage = "roles" /\ roles = <<>> /\ left' = Tail(left)
      /\ in' = in /\ cfg' = cfg /\ names' = names /\ loaded' = loaded
      /\ instances' = instances /\ plans' = plans /\ stage' = "plan" /\ failedAt' = failedAt
  BY DEF WorkloadPlanned, Advance
<1>2. left # <<>> /\ name \in instances
  BY <1>1 DEF PlanInv, Visiting, Planning
<1>3. Staged' /\ Configured' /\ Registered' /\ Loading'
  BY <1>1, PlanningStep
<1>4. /\ Requested \in Seq(DOMAIN registry) /\ Passed \in Nat /\ name \in DOMAIN registry
      /\ Passed + 1 \in DOMAIN Requested /\ Requested[Passed + 1] = name
      /\ Tail(left) \in Seq(DOMAIN registry) /\ Suffix(Tail(left), Requested)
      /\ Len(Requested) - Len(Tail(left)) = Passed + 1
  BY <1>1, <1>2, NextTurn
<1>5. Passed' = Passed + 1
  BY <1>1, <1>4, Kept DEF Passed
<1>6. \A k \in DOMAIN registry[name].roles : ~(k > RolesDone)
  <2>1. registry[name].roles \in Seq(RoleSpec)
    BY <1>4, RegistryOK DEF PlanInv, WorkloadOK, Named
  <2>2. RolesDone = Len(registry[name].roles)
    <3>1. Len(roles) = 0
      BY <1>1
    <3> QED
      BY <2>1, <3>1 DEF RolesDone
  <2> QED
    BY <2>1, <2>2
<1> HIDE DEF name
<1>7. Visiting'
  BY <1>1, <1>4, Kept DEF Visiting
<1>8. Made'
  BY <1>1, MadeStays DEF PlanInv
<1>9. Answered'
  <2>1. /\ \A n \in instances : \E q \in DOMAIN Requested : Requested[q] = n
        /\ \A q \in 1..Passed : Disabled(Requested[q]) \/ Requested[q] \in instances
    BY <1>1 DEF PlanInv, Answered, Planning
  <2>2. \A q \in 1..(Passed + 1) : Disabled(Requested[q]) \/ Requested[q] \in instances
    BY <1>2, <1>4, <2>1
  <2> QED
    BY <1>1, <1>5, <2>1, <2>2, Kept DEF Answered
<1>10. Covered'
  <2>1. \A n \in instances : \A k \in DOMAIN registry[n].roles :
          \A i \in Numbers(n, k) : \E p \in DOMAIN plans : plans[p] = RoleVM(n, k, i)
    BY <1>1, <1>6 DEF PlanInv, Covered, Planning, name
  <2> QED
    BY <1>1, <2>1, Kept DEF Covered
<1>11. Origin'
  <2>1. \A p \in DOMAIN plans :
          (\E q \in 1..Passed : Requested[q] = plans[p].workload) \/ plans[p].workload = name
    BY <1>1 DEF PlanInv, Origin, Planning, name
  <2>2. 1..Passed \subseteq 1..(Passed + 1) /\ Passed + 1 \in 1..(Passed + 1)
    BY <1>4
  <2>3. \A p \in DOMAIN plans : \E q \in 1..(Passed + 1) : Requested[q] = plans[p].workload
    BY <1>4, <2>1, <2>2
  <2> QED
    BY <1>1, <1>5, <2>3, Kept DEF Origin
<1>12. Apart'
  BY <1>1, Kept DEF PlanInv, Apart, Planning
<1>13. ValidatedEntryDeploys'
  BY <1>1, OnlyValidatedStays DEF PlanInv, ValidatedEntryDeploys
<1> QED
  BY <1>3, <1>7, <1>8, <1>9, <1>10, <1>11, <1>12, <1>13 DEF PlanInv

\* Without sections the settings that Validate looked at are those of every VM.
LEMMA NoSections ==
  ASSUME OnlyValidated, Read, NEW n
  PROVE  /\ Params(n) = None /\ CPUCores(n) >= 1 /\ Memory(n) \in Quantity
         /\ cfg.diskSize \in Quantity
<1>1. Section(cfg.sections, n) = NoSection
  <2>1. DOMAIN None = {}
    BY DEF None
  <2> QED
    BY <2>1 DEF OnlyValidated, Section
<1>2. Validate(cfg)
  BY DEF Read, LoadFails
<1>3. /\ NoSection.cpuCores = 0 /\ NoSection.memory = "" /\ NoSection.params = None
  BY DEF NoSection
<1>4. CPUCores(n) = cfg.cpuCores
  <2>1. CPUCores(n) = Positive(0, cfg.cpuCores)
    BY <1>1, <1>3 DEF CPUCores
  <2>2. \A x : Positive(0, x) = x
    BY DEF Positive
  <2> QED
    BY <2>1, <2>2
<1>5. Memory(n) = cfg.memory
  BY <1>1, <1>3 DEF Memory
<1>6. Params(n) = None
  BY <1>1, <1>3 DEF Params
<1> QED
  BY <1>2, <1>4, <1>5, <1>6 DEF Validate

\* The specifications are built, or the run ends.
LEMMA BuildVMSpecsInv == PlanInv /\ BuildVMSpecs => PlanInv'
<1> SUFFICES ASSUME PlanInv, BuildVMSpecs PROVE PlanInv'
  OBVIOUS
<1> DEFINE fails == \E i \in DOMAIN plans : \/ plans[i].cpu <= 0
                                            \/ plans[i].image = ""
                                            \/ plans[i].memory \notin Quantity
<1>1. /\ stage = "plan" /\ left = <<>> /\ left' = left
      /\ in' = in /\ cfg' = cfg /\ names' = names /\ loaded' = loaded
      /\ instances' = instances /\ plans' = plans
      /\ stage' = (IF fails THEN "failed" ELSE "done")
      /\ failedAt' = (IF fails THEN "plan" ELSE failedAt)
  BY DEF BuildVMSpecs, Advance
<1>2. Read /\ in.cmd = "run" /\ failedAt = ""
  BY <1>1 DEF PlanInv, Configured, Staged
<1>3. fails /\ OnlyValidated => cfg.image = ""
  <2>1. SUFFICES ASSUME OnlyValidated, NEW p \in DOMAIN plans
                 PROVE  ~(plans[p].cpu <= 0) /\ plans[p].memory \in Quantity /\ plans[p].image = cfg.image
    BY <2>1
  <2>2. PICK n \in instances : \E k \in DOMAIN registry[n].roles : \E i \in Numbers(n, k) :
          plans[p] = RoleVM(n, k, i)
    BY PlanIsVM DEF PlanInv
  <2>3. plans[p].cpu = CPUCores(n) /\ plans[p].memory = Memory(n) /\ plans[p].image = cfg.image
    BY <2>2 DEF RoleVM, VM
  <2>4. CPUCores(n) >= 1 /\ Memory(n) \in Quantity
    BY <1>2, <2>1, NoSections
  <2>5. CPUCores(n) \in Int
    <3>1. cfg.cpuCores \in Number
      BY <1>2, GetIntType DEF Read, Assemble
    <3>2. Section(cfg.sections, n).cpuCores \in Number
      BY <1>2, SectionKept DEF Read, PlanInv, Configured
    <3> QED
      BY <3>1, <3>2, NumeralsDiffer DEF CPUCores, Positive, Number
  <2> QED
    BY <2>3, <2>4, <2>5
<1> HIDE DEF fails
<1>4. Staged' /\ Configured' /\ Registered' /\ Loading'
  BY <1>1, PlanningStep
<1>5. Passed' = Passed /\ stage' # "roles" /\ (Planning' => Planning)
  BY <1>1, Kept DEF Passed, Planning
<1>6. Visiting'
  BY <1>1, <1>5, Kept DEF PlanInv, Visiting
<1>7. Made'
  BY <1>1, MadeStays DEF PlanInv
<1>8. Answered'
  BY <1>1, <1>5, Kept DEF PlanInv, Answered
<1>9. Covered'
  BY <1>1, <1>5, Kept DEF PlanInv, Covered
<1>10. Origin'
  BY <1>1, <1>5, Kept DEF PlanInv, Origin
<1>11. Apart'
  BY <1>1, <1>5, Kept DEF PlanInv, Apart
<1>12. ValidatedEntryDeploys'
  BY <1>1, <1>2, <1>3, OnlyValidatedStays DEF ValidatedEntryDeploys
<1> QED
  BY <1>4, <1>6, <1>7, <1>8, <1>9, <1>10, <1>11, <1>12 DEF PlanInv

\* A workload that is not switched off is checked before its roles are planned.
LEMMA PlanWorkloadInv == PlanInv /\ PlanWorkload => PlanInv'
<1> SUFFICES ASSUME PlanInv, PlanWorkload PROVE PlanInv'
  OBVIOUS
<1> DEFINE name == Head(left)
           w == registry[name]
           fails == \/ ~ValidateParams(w, Params(name))
                    \/ \E i \in DOMAIN w.storage : Size(w.storage[i]) \notin Quantity
<1>1. /\ stage = "plan" /\ left # <<>> /\ ~Disabled(name) /\ left' = left
      /\ in' = in /\ cfg' = cfg /\ names' = names /\ loaded' = loaded /\ plans' = plans
      /\ stage' = (IF fails THEN "failed" ELSE "roles")
      /\ failedAt' = (IF fails THEN "plan" ELSE failedAt)
      /\ instances' = (IF fails THEN instances ELSE instances \cup {name})
      /\ roles' = (IF fails THEN <<>> ELSE w.roles)
  BY DEF PlanWorkload, Advance
<1>2. Read /\ in.cmd = "run" /\ failedAt = ""
  BY <1>1 DEF PlanInv, Configured, Staged
<1>3. /\ Requested \in Seq(DOMAIN registry) /\ Passed \in Nat /\ name \in DOMAIN registry
      /\ Passed + 1 \in DOMAIN Requested /\ Requested[Passed + 1] = name
  BY <1>1, NextTurn
<1>4. Named(name, w) /\ Stored(w)
  BY <1>3, RegistryOK DEF PlanInv, WorkloadOK
<1>5. OnlyValidated => ~fails
  <2> SUFFICES ASSUME OnlyValidated PROVE ~fails
    OBVIOUS
  <2>1. Params(name) = None /\ cfg.diskSize \in Quantity
    BY <1>2, NoSections
  <2>2. DOMAIN None = {}
    BY DEF None
  <2>3. ValidateParams(w, Params(name))
    BY <2>1, <2>2 DEF ValidateParams
  <2>4. \A i \in DOMAIN w.storage : Size(w.storage[i]) \in Quantity
    BY <1>4, <2>1 DEF Stored, Size
  <2> QED
    BY <2>3, <2>4
<1> HIDE DEF fails
<1>6. Staged' /\ Configured' /\ Registered' /\ Loading'
  BY <1>1, PlanningStep
<1>7. ValidatedEntryDeploys'
  BY <1>1, <1>2, <1>5, OnlyValidatedStays DEF ValidatedEntryDeploys
<1>8. CASE fails
  <2>1. stage' = "failed" /\ instances' = instances
    BY <1>1, <1>8
  <2>2. ~Planning'
    BY <2>1 DEF Planning, Planned
  <2>3. Visiting' /\ Answered' /\ Covered' /\ Origin' /\ Apart'
    BY <2>2 DEF Visiting, Answered, Covered, Origin, Apart
  <2>4. Made'
    BY <1>1, <2>1, MadeStays DEF PlanInv
  <2> QED
    BY <1>6, <1>7, <2>3, <2>4 DEF PlanInv
<1>9. CASE ~fails
  <2>1. stage' = "roles" /\ instances' = instances \cup {name} /\ roles' = w.roles
    BY <1>1, <1>9
  <2>2. Visiting'
    <3>1. Suffix(w.roles, w.roles) /\ w.roles \in Seq(RoleSpec)
      BY <1>4, SuffixWhole DEF Named
    <3>2. left \in Seq(DOMAIN registry) /\ Suffix(left, Requested)
      BY <1>1 DEF PlanInv, Visiting, Planning
    <3> QED
      BY <1>1, <1>3, <2>1, <3>1, <3>2, Kept DEF Visiting
  <2>3. Made'
    <3>1. \A n \in instances' : n \in DOMAIN registry /\ ~Disabled(n)
      BY <1>1, <1>3, <2>1 DEF PlanInv, Made
    <3>2. PossibleVMs' = UNION {UNION {{RoleVM(n, k, i) : i \in Numbers(n, k)} : k \in DOMAIN registry[n].roles} : n \in instances'}
      BY <1>1, Kept DEF PossibleVMs
    <3>3. PossibleVMs \subseteq PossibleVMs'
      BY <2>1, <3>2 DEF PossibleVMs
    <3>4. plans \in Seq(PossibleVMs')
      BY <3>3, SeqMonotonic DEF PlanInv, Made
    <3> QED
      BY <1>1, <3>1, <3>4, Kept DEF Made
  <2>4. Passed' = Passed
    BY <1>1, Kept DEF Passed
  <2>5. Answered'
    <3>1. /\ \A n \in instances : \E q \in DOMAIN Requested : Requested[q] = n
          /\ \A q \in 1..Passed : Disabled(Requested[q]) \/ Requested[q] \in instances
      BY <1>1 DEF PlanInv, Answered, Planning
    <3> QED
      BY <1>1, <1>3, <2>1, <2>4, <3>1, Kept DEF Answered
  <2>6. Covered'
    <3>1. RolesDone' = 0
      <4>1. RolesDone' = Len(w.roles) - Len(w.roles)
        BY <1>1, <2>1, Kept DEF RolesDone
      <4>2. Len(w.roles) \in Nat
        BY <1>4 DEF Named
      <4> QED
        BY <4>1, <4>2
    <3>2. \A k \in DOMAIN w.roles : k > 0
      BY <1>4 DEF Named
    <3>3. \A n \in instances : \A k \in DOMAIN registry[n].roles :
            \A i \in Numbers(n, k) : \E p \in DOMAIN plans : plans[p] = RoleVM(n, k, i)
      BY <1>1 DEF PlanInv, Covered, Planning
    <3> QED
      BY <1>1, <2>1, <3>1, <3>2, <3>3, Kept DEF Covered
  <2>7. Origin'
    <3>1. \A p \in DOMAIN plans : \E q \in 1..Passed : Requested[q] = plans[p].workload
      BY <1>1 DEF PlanInv, Origin, Planning
    <3> QED
      BY <1>1, <2>4, <3>1, Kept DEF Origin
  <2>8. Apart'
    BY <1>1, Kept DEF PlanInv, Apart, Planning
  <2> QED
    BY <1>6, <1>7, <2>2, <2>3, <2>5, <2>6, <2>7, <2>8 DEF PlanInv
<1> QED
  BY <1>8, <1>9

\* Without parameters the userdata of every workload can be made: the default
\* size of the tps workload parses.
LEMMA UserdataMade ==
  ASSUME Registered, OnlyValidated, Read, NEW n \in DOMAIN registry
  PROVE  ~UserdataFails(registry[n], n)
<1>1. CASE n # <<"tps">>
  BY <1>1 DEF UserdataFails
<1>2. CASE n = <<"tps">>
  <2>1. registry[n] = TPSWorkload
    <3>1. n \in DOMAIN DefaultRegistry
      BY <1>2, RegistryNames
    <3> QED
      BY <1>2, <3>1, RegistryOK, RegistryHolds
  <2> DEFINE schema == <<Param("file-size", "string", <<"10", "M">>), Param("iterations", "int", <<"30">>),
                         Param("duration", "int", <<"60">>)>>
             I == {i \in 1..Len(schema) : schema[i].key = <<"file-size">>}
  <2>2. TPSWorkload.schema = schema
    BY DEF TPSWorkload, Paired
  <2>3. Len(schema) = 3 /\ schema[1].key = <<"file-size">> /\ schema[1].default = <<"10", "M">>
    BY DEF Param
  <2> HIDE DEF schema
  <2>4. Find(schema, <<"file-size">>) = 1
    <3>1. I \in SUBSET Int /\ 1 \in I /\ \A y \in I : 1 <= y
      BY <2>3
    <3>2. Find(schema, <<"file-size">>) = IF I # {} THEN Min(I) ELSE 0
      BY DEF Find, SelectInSeq
    <3>3. Min(I) = 1
      BY <3>1, MinIs
    <3> QED
      BY <3>1, <3>2, <3>3
  <2>5. Params(n) = None /\ DOMAIN None = {}
    BY NoSections DEF None
  <2>6. GetParam(TPSWorkload, Params(n), <<"file-size">>) = <<"10", "M">>
    BY <2>2, <2>3, <2>4, <2>5 DEF GetParam
  <2> QED
    BY <2>1, <2>6, TenMegabytes DEF UserdataFails
<1> QED
  BY <1>1, <1>2

\* The role the current turn comes to next.
LEMMA NextRole ==
  ASSUME PlanInv, stage = "roles", roles # <<>>
  PROVE  /\ left # <<>> /\ Head(left) \in instances /\ Head(left) \in DOMAIN registry
         /\ RolesDone \in Nat /\ RolesDone + 1 \in DOMAIN registry[Head(left)].roles
         /\ Head(roles) = registry[Head(left)].roles[RolesDone + 1]
         /\ Tail(roles) \in Seq(RoleSpec) /\ Suffix(Tail(roles), registry[Head(left)].roles)
         /\ Len(registry[Head(left)].roles) - Len(Tail(roles)) = RolesDone + 1
<1> DEFINE t == registry[Head(left)].roles
<1>1. left # <<>> /\ Head(left) \in instances /\ roles \in Seq(RoleSpec) /\ Suffix(roles, t)
  BY DEF PlanInv, Visiting, Planning
<1>2. Head(left) \in DOMAIN registry
  BY <1>1 DEF PlanInv, Made
<1>3. t \in Seq(RoleSpec)
  BY <1>2, RegistryOK DEF PlanInv, WorkloadOK, Named
<1>4. RolesDone = Len(t) - Len(roles)
  BY DEF RolesDone
<1> HIDE DEF t
<1>5. /\ Tail(roles) \in Seq(RoleSpec) /\ Suffix(Tail(roles), t) /\ Len(Tail(roles)) = Len(roles) - 1
      /\ Len(t) - Len(roles) + 1 \in 1..Len(t) /\ Head(roles) = t[Len(t) - Len(roles) + 1]
  BY <1>1, <1>3, SuffixStep
<1>6. Len(t) \in Nat /\ Len(roles) \in Nat /\ DOMAIN t = 1..Len(t) /\ Len(roles) <= Len(t)
  BY <1>1, <1>3 DEF Suffix
<1>7. RolesDone \in Nat /\ RolesDone + 1 \in DOMAIN t /\ Head(roles) = t[RolesDone + 1]
      /\ Len(t) - Len(Tail(roles)) = RolesDone + 1
  BY <1>4, <1>5, <1>6
<1> QED
  BY <1>1, <1>2, <1>5, <1>7 DEF t

\* The VMs of the roles of planned workloads are possible ones.
LEMMA RoleVMPossible ==
  ASSUME NEW n \in instances, NEW k \in DOMAIN registry[n].roles, NEW i \in Numbers(n, k)
  PROVE  RoleVM(n, k, i) \in PossibleVMs
  BY DEF PossibleVMs

\* What planning a role adds: its VMs, in order of their numbers.
LEMMA RoleAdded ==
  ASSUME PlanInv, stage = "roles", roles # <<>>,
         plans' = plans \o RoleVMs(registry[Head(left)], Head(left), Head(roles))
  PROVE  LET n == Head(left)
             k == RolesDone + 1
             c == Count(n, registry[n].roles[k])
         IN /\ c \in Nat /\ Numbers(n, k) = 0..(c - 1)
            /\ plans' \in Seq(PossibleVMs)
            /\ DOMAIN plans' = 1..(Len(plans) + c) /\ Len(plans) \in Nat
            /\ \A p \in 1..Len(plans) : plans'[p] = plans[p]
            /\ \A i \in 0..(c - 1) : plans'[Len(plans) + 1 + i] = RoleVM(n, k, i)
<1> DEFINE n == Head(left)
           k == RolesDone + 1
           r == registry[n].roles[k]
           c == Count(n, r)
           new == RoleVMs(registry[n], n, Head(roles))
<1>1. /\ n \in instances /\ n \in DOMAIN registry /\ k \in DOMAIN registry[n].roles
      /\ Head(roles) = r
  BY NextRole
<1>2. Registered /\ in \in Invocations /\ Read /\ plans \in Seq(PossibleVMs)
  BY DEF PlanInv, Configured, Made
<1>3. Numbers(n, k) = 0..(c - 1)
  BY DEF Numbers
<1>4. c \in 1..MaxNumber
  BY <1>1, <1>2, RoleNumbers
<1>5. new = [i \in 1..c |-> RoleVM(n, k, i - 1)]
  BY <1>1 DEF RoleVMs, RoleVM
<1>6. \A i \in 0..(c - 1) : RoleVM(n, k, i) \in PossibleVMs
  BY <1>1, <1>3, RoleVMPossible
<1>7. plans' = plans \o new
  OBVIOUS
<1> HIDE DEF n, k, c, new
<1>8. c \in Nat
  BY <1>4, NumeralsDiffer
<1>9. new \in Seq(PossibleVMs) /\ Len(new) = c
  <2>1. \A i \in 1..c : RoleVM(n, k, i - 1) \in PossibleVMs
    BY <1>6, <1>8
  <2> QED
    BY <1>5, <1>8, <2>1
<1>10. /\ plans' \in Seq(PossibleVMs) /\ Len(plans) \in Nat
       /\ DOMAIN plans' = 1..(Len(plans) + c)
       /\ \A p \in 1..Len(plans) : plans'[p] = plans[p]
  <2>1. /\ plans \o new \in Seq(PossibleVMs) /\ Len(plans) \in Nat
        /\ Len(plans \o new) = Len(plans) + Len(new)
    <3> DEFINE S == PossibleVMs
    <3>1. plans \in Seq(S) /\ new \in Seq(S)
      BY <1>2, <1>9
    <3> HIDE DEF S
    <3>2. plans \o new \in Seq(S) /\ Len(plans \o new) = Len(plans) + Len(new)
      BY <3>1, ConcatProperties
    <3>3. Len(plans) \in Nat
      BY <3>1
    <3> QED
      BY <3>2, <3>3 DEF S
  <2>2. \A p \in 1..Len(plans) : (plans \o new)[p] = plans[p]
    <3>1. \A p \in 1..(Len(plans) + Len(new)) :
            (plans \o new)[p] = IF p <= Len(plans) THEN plans[p] ELSE new[p - Len(plans)]
      BY <1>2, <1>9, ConcatProperties
    <3>2. Len(new) \in Nat /\ Len(plans) \in Nat
      BY <1>8, <1>9, <2>1
    <3> QED
      BY <3>1, <3>2
  <2>3. DOMAIN (plans \o new) = 1..Len(plans \o new)
    BY <2>1
  <2> QED
    BY <1>7, <1>9, <2>1, <2>2, <2>3
<1>11. ASSUME NEW i \in 0..(c - 1)
       PROVE  plans'[Len(plans) + 1 + i] = RoleVM(n, k, i)
  <2>1. i + 1 \in 1..c /\ (i + 1) - 1 = i
    BY <1>8
  <2>2. new[i + 1] = RoleVM(n, k, i)
    BY <1>5, <2>1
  <2>3. (plans \o new)[Len(plans) + (i + 1)] = new[i + 1]
    BY <1>2, <1>9, <2>1
  <2>4. Len(plans) + (i + 1) = Len(plans) + 1 + i
    BY <1>10
  <2> QED
    BY <1>7, <2>2, <2>3, <2>4
<1> QED
  BY <1>3, <1>8, <1>10, <1>11 DEF n, k, c

\* The VMs of the next role are added to the plan.
LEMMA PlanRoleInv == PlanInv /\ PlanRole => PlanInv'
<1> SUFFICES ASSUME PlanInv, PlanRole PROVE PlanInv'
  OBVIOUS
<1> DEFINE name == Head(left)
           w == registry[name]
           fails == UserdataFails(w, name)
<1>1. /\ stage = "roles" /\ roles # <<>> /\ left' = left /\ roles' = Tail(roles)
      /\ in' = in /\ cfg' = cfg /\ names' = names /\ loaded' = loaded /\ instances' = instances
      /\ stage' = (IF fails THEN "failed" ELSE "roles")
      /\ failedAt' = (IF fails THEN "roles" ELSE failedAt)
      /\ plans' = (IF fails THEN plans ELSE plans \o RoleVMs(w, name, Head(roles)))
  BY DEF PlanRole, Advance
<1>2. Registered /\ in \in Invocations /\ Read /\ failedAt = ""
  BY <1>1 DEF PlanInv, Configured, Staged
<1>3. /\ left # <<>> /\ name \in instances /\ name \in DOMAIN registry
      /\ RolesDone \in Nat /\ RolesDone + 1 \in DOMAIN w.roles
      /\ Head(roles) = w.roles[RolesDone + 1]
      /\ Tail(roles) \in Seq(RoleSpec) /\ Suffix(Tail(roles), w.roles)
      /\ Len(w.roles) - Len(Tail(roles)) = RolesDone + 1
  BY <1>1, NextRole
<1>4. OnlyValidated => ~fails
  BY <1>2, <1>3, UserdataMade
<1>5. /\ Passed \in Nat /\ Passed + 1 \in DOMAIN Requested /\ Requested[Passed + 1] = name
  BY <1>1, <1>3, NextTurn
<1> HIDE DEF fails
<1>6. Staged' /\ Configured' /\ Registered' /\ Loading'
  BY <1>1, PlanningStep
<1>7. ValidatedEntryDeploys'
  BY <1>1, <1>2, <1>4, OnlyValidatedStays DEF ValidatedEntryDeploys
<1>8. CASE fails
  <2>1. stage' = "failed" /\ plans' = plans
    BY <1>1, <1>8
  <2>2. ~Planning'
    BY <2>1 DEF Planning, Planned
  <2>3. Visiting' /\ Answered' /\ Covered' /\ Origin' /\ Apart'
    BY <2>2 DEF Visiting, Answered, Covered, Origin, Apart
  <2>4. Made'
    BY <1>1, <2>1, MadeStays DEF PlanInv
  <2> QED
    BY <1>6, <1>7, <2>3, <2>4 DEF PlanInv
<1>9. CASE ~fails
  <2> DEFINE k0 == RolesDone + 1
             c == Count(name, w.roles[k0])
             L == Len(plans)
  <2>1. /\ stage' = "roles" /\ Planning /\ Passed' = Passed /\ RolesDone' = k0
    <3>1. stage' = "roles" /\ Planning
      BY <1>1, <1>9 DEF Planning
    <3>2. Passed' = Passed
      BY <1>1, Kept DEF Passed
    <3>3. RolesDone' = k0
      BY <1>1, <1>3, Kept DEF RolesDone
    <3> QED
      BY <3>1, <3>2, <3>3
  <2>2. /\ c \in Nat /\ Numbers(name, k0) = 0..(c - 1)
        /\ plans' \in Seq(PossibleVMs) /\ DOMAIN plans' = 1..(L + c) /\ L \in Nat
        /\ \A p \in 1..L : plans'[p] = plans[p]
        /\ \A i \in 0..(c - 1) : plans'[L + 1 + i] = RoleVM(name, k0, i)
    BY <1>1, <1>9, RoleAdded
  <2>3. k0 \in DOMAIN w.roles /\ k0 \in Nat /\ 1..k0 = (1..RolesDone) \cup {k0}
    BY <1>3
  <2>4. DOMAIN plans = 1..L
    BY DEF PlanInv, Made
  <2>5. Visiting'
    BY <1>1, <1>3, <2>1, Kept DEF PlanInv, Visiting
  <2>6. Made'
    <3>1. PossibleVMs' = PossibleVMs
      BY <1>1, Kept DEF PossibleVMs
    <3> QED
      BY <1>1, <2>2, <3>1, Kept DEF PlanInv, Made
  <2>7. Answered'
    BY <1>1, <2>1, Kept DEF PlanInv, Answered
  <2> HIDE DEF k0, c, L, w
  <2>8. ASSUME NEW p \in DOMAIN plans'
        PROVE  \/ p \in DOMAIN plans /\ plans'[p] = plans[p]
               \/ ~(p <= L) /\ \E i \in Numbers(name, k0) : p = L + 1 + i /\ plans'[p] = RoleVM(name, k0, i)
    <3>1. CASE p <= L
      BY <2>2, <2>4, <3>1
    <3>2. CASE ~(p <= L)
      <4>1. p - L - 1 \in 0..(c - 1) /\ p = L + 1 + (p - L - 1)
        BY <2>2, <3>2
      <4> QED
        BY <2>2, <3>2, <4>1
    <3> QED
      BY <3>1, <3>2
  <2>9. Covered'
    <3>1. SUFFICES ASSUME NEW n \in instances, NEW k \in DOMAIN registry[n].roles,
                          ~(n = name /\ k > k0), NEW i \in Numbers(n, k)
                   PROVE  \E p \in DOMAIN plans' : plans'[p] = RoleVM(n, k, i)
      BY <1>1, <2>1, Kept DEF Covered
    <3>2. CASE n = name /\ k = k0
      <4>1. i \in 0..(c - 1) /\ L + 1 + i \in 1..(L + c)
        BY <2>2, <3>1, <3>2
      <4> QED
        BY <2>2, <3>2, <4>1
    <3>3. CASE ~(n = name /\ k = k0)
      <4>1. ~(n = name /\ k > RolesDone)
        <5>1. n = name => k \in Nat
          BY <1>3, RegistryOK DEF PlanInv, WorkloadOK, Named, w
        <5> QED
          BY <1>3, <3>1, <3>3, <5>1 DEF k0
      <4>2. \E p \in DOMAIN plans : plans[p] = RoleVM(n, k, i)
        BY <1>1, <2>1, <3>1, <4>1 DEF PlanInv, Covered
      <4>3. \A p \in DOMAIN plans : p \in DOMAIN plans' /\ plans'[p] = plans[p]
        BY <2>2, <2>4
      <4> QED
        BY <4>2, <4>3
    <3> QED
      BY <3>2, <3>3
  <2>10. Origin'
    <3>1. SUFFICES ASSUME NEW p \in DOMAIN plans'
                   PROVE  \/ \E q \in 1..Passed : Requested[q] = plans'[p].workload
                          \/ /\ plans'[p].workload = name
                             /\ \E k \in 1..k0 : w.roles[k].role = plans'[p].role
      BY <1>1, <2>1, Kept DEF Origin, w
    <3>2. CASE p \in DOMAIN plans /\ plans'[p] = plans[p]
      BY <1>1, <2>1, <2>3, <3>2 DEF PlanInv, Origin, w
    <3>3. ASSUME NEW i \in Numbers(name, k0), plans'[p] = RoleVM(name, k0, i)
          PROVE  plans'[p].workload = name /\ w.roles[k0].role = plans'[p].role
      BY <3>3, RoleVMFields DEF w
    <3> QED
      BY <2>3, <2>8, <3>2, <3>3
  <2>11. Apart'
    <3>1. SUFFICES ASSUME NEW i \in DOMAIN plans', NEW j \in DOMAIN plans', i < j,
                          plans'[i].name = plans'[j].name, plans'[i].workload = plans'[j].workload
                   PROVE  TwoTurns(plans'[i].workload) \/ TwinRoles(plans'[i].workload)
      BY <1>1, <2>1, Kept DEF Apart
    <3>2. i \in Nat /\ j \in Nat
      BY <2>2
    <3>3. name \in Seq(STRING) /\ w.roles[k0].role \in Seq(STRING) /\ Numbers(name, k0) \subseteq Number
      BY <1>2, <1>3, <2>3, RoleNumbers DEF w
    <3>4. CASE j \in DOMAIN plans /\ plans'[j] = plans[j]
      <4>1. i \in DOMAIN plans /\ plans'[i] = plans[i]
        BY <2>2, <2>4, <3>1, <3>2, <3>4
      <4> QED
        BY <2>1, <3>1, <3>4, <4>1 DEF PlanInv, Apart
    <3>5. ASSUME NEW b \in Numbers(name, k0), j = L + 1 + b, plans'[j] = RoleVM(name, k0, b)
          PROVE  TwoTurns(plans'[i].workload) \/ TwinRoles(plans'[i].workload)
      <4>1. plans'[i].workload = name /\ plans'[j].name = VMName(name, w.roles[k0].role, b) /\ b \in Number
        BY <3>1, <3>3, <3>5, RoleVMFields DEF w
      <4>2. ASSUME NEW a \in Numbers(name, k0), i = L + 1 + a, plans'[i] = RoleVM(name, k0, a)
            PROVE  FALSE
        <5>1. VMName(name, w.roles[k0].role, a) = VMName(name, w.roles[k0].role, b) /\ a \in Number
          BY <3>1, <3>3, <4>1, <4>2, RoleVMFields DEF w
        <5>2. a = b
          BY <3>3, <4>1, <5>1, SameVMName
        <5> QED
          BY <3>1, <3>2, <3>5, <4>2, <5>2
      <4>3. CASE i \in DOMAIN plans /\ plans'[i] = plans[i]
        <5>1. PICK n \in instances : \E k \in DOMAIN registry[n].roles :
                \E a \in Numbers(n, k) : plans[i] = RoleVM(n, k, a)
          BY <4>3, PlanIsVM DEF PlanInv
        <5>1a. PICK k \in DOMAIN registry[n].roles : \E a \in Numbers(n, k) : plans[i] = RoleVM(n, k, a)
          BY <5>1
        <5>2. PICK a \in Numbers(n, k) : plans[i] = RoleVM(n, k, a)
          BY <5>1a
        <5>3. n = name /\ plans[i].role = w.roles[k].role /\ plans[i].name = VMName(name, w.roles[k].role, a)
          BY <4>1, <4>3, <5>2, RoleVMFields DEF w
        <5>4. w.roles[k].role \in Seq(STRING) /\ a \in Number
          BY <1>2, <1>3, <5>2, <5>3, RoleNumbers DEF w
        <5>5. plans[i].role = w.roles[k0].role
          <6>1. VMName(name, w.roles[k].role, a) = VMName(name, w.roles[k0].role, b)
            BY <3>1, <4>1, <4>3, <5>3
          <6> QED
            BY <3>3, <4>1, <5>3, <5>4, <6>1, SameVMName
        <5>6. CASE \E q \in 1..Passed : Requested[q] = name
          <6>1. PICK q \in 1..Passed : Requested[q] = name
            BY <5>6
          <6>2. q # Passed + 1 /\ q \in DOMAIN Requested
            <7>1. Requested \in Seq(DOMAIN registry)
              BY <1>1, <1>3, NextTurn
            <7> QED
              BY <1>5, <7>1
          <6> QED
            BY <1>5, <4>1, <6>1, <6>2 DEF TwoTurns
        <5>7. CASE \E l \in 1..RolesDone : w.roles[l].role = plans[i].role
          <6>1. PICK l \in 1..RolesDone : w.roles[l].role = w.roles[k0].role
            BY <5>5, <5>7
          <6>2. l # k0 /\ l \in DOMAIN w.roles
            <7>1. w.roles \in Seq(RoleSpec)
              BY <1>3, RegistryOK DEF PlanInv, WorkloadOK, Named, w
            <7> QED
              BY <1>3, <2>3, <7>1 DEF k0
          <6> QED
            BY <2>3, <4>1, <6>1, <6>2 DEF TwinRoles, IsInjective, w
        <5> QED
          BY <1>1, <2>1, <4>1, <4>3, <5>6, <5>7 DEF PlanInv, Origin, w
      <4> QED
        BY <2>8, <4>2, <4>3
    <3> QED
      BY <2>8, <3>4, <3>5
  <2> QED
    BY <1>6, <1>7, <2>5, <2>6, <2>7, <2>9, <2>10, <2>11 DEF PlanInv
<1> QED
  BY <1>8, <1>9

\* "virtwork validate" plans nothing.
LEMMA ValidatedInv == PlanInv /\ Validated => PlanInv'
<1> SUFFICES ASSUME PlanInv, Validated PROVE PlanInv'
  OBVIOUS
<1>1. /\ stage = "start" /\ in.cmd = "validate" /\ in' = in /\ cfg' = cfg /\ names' = names
      /\ loaded' = loaded /\ instances' = instances /\ plans' = plans
      /\ stage' \in {"failed", "done"}
      /\ failedAt' = (IF stage' = "failed" THEN "start" ELSE failedAt)
  BY DEF Validated, Advance
<1>2. instances = {} /\ plans = <<>> /\ failedAt = "" /\ ~Planned /\ ~Planned'
  BY <1>1 DEF PlanInv, Staged, Planned
<1>3. Staged'
  BY <1>1, <1>2 DEF PlanInv, Staged
<1>4. Configured' /\ Registered' /\ Loading'
  <2>1. Configured'
    BY <1>1, <1>2, Kept DEF PlanInv, Configured
  <2>2. Registered'
    BY <1>1 DEF PlanInv, Registered
  <2>3. Loading'
    BY <1>1 DEF Loading
  <2> QED
    BY <2>1, <2>2, <2>3
<1>5. ~Planning'
  BY <1>1, <1>2 DEF Planning
<1>6. Visiting' /\ Answered' /\ Covered' /\ Origin' /\ Apart'
  BY <1>5 DEF Visiting, Answered, Covered, Origin, Apart
<1>7. Made'
  BY <1>1, MadeStays DEF PlanInv
<1>8. ValidatedEntryDeploys'
  BY <1>1, <1>2 DEF ValidatedEntryDeploys
<1> QED
  BY <1>3, <1>4, <1>6, <1>7, <1>8 DEF PlanInv

\* A step that changes nothing.
LEMMA IdleInv == PlanInv /\ UNCHANGED pvars => PlanInv'
<1> SUFFICES ASSUME PlanInv, UNCHANGED pvars PROVE PlanInv'
  OBVIOUS
<1>1. /\ in' = in /\ stage' = stage /\ failedAt' = failedAt /\ cfg' = cfg /\ names' = names
      /\ left' = left /\ loaded' = loaded /\ instances' = instances /\ roles' = roles /\ plans' = plans
  BY DEF pvars
<1>2. Planned' = Planned
  BY <1>1 DEF Planned
<1>3. Planning' = Planning /\ Passed' = Passed /\ RolesDone' = RolesDone
  BY <1>1, <1>2, Kept DEF Planning, Passed, RolesDone
<1>4. Staged' /\ Registered' /\ Loading'
  BY <1>1, <1>2 DEF PlanInv, Staged, Registered, Loading
<1>5. Configured'
  BY <1>1, <1>2, Kept DEF PlanInv, Configured
<1>6. Visiting'
  BY <1>1, <1>3, Kept DEF PlanInv, Visiting
<1>7. Made'
  BY <1>1, MadeStays DEF PlanInv
<1>8. Answered'
  BY <1>1, <1>3, Kept DEF PlanInv, Answered
<1>9. Covered'
  BY <1>1, <1>3, Kept DEF PlanInv, Covered
<1>10. Origin'
  BY <1>1, <1>3, Kept DEF PlanInv, Origin
<1>11. Apart'
  BY <1>1, <1>3, Kept DEF PlanInv, Apart
<1>12. ValidatedEntryDeploys'
  BY <1>1, OnlyValidatedStays DEF PlanInv, ValidatedEntryDeploys
<1> QED
  BY <1>4, <1>5, <1>6, <1>7, <1>8, <1>9, <1>10, <1>11, <1>12 DEF PlanInv

\* The invariant holds throughout, one action at a time.
LEMMA PlanInvariant == PlannerSpec => []PlanInv
<1>1. PlannerInit => PlanInv
  BY InitPlanInv
<1>2. PlanInv /\ [PlannerNext]_pvars => PlanInv'
  <2> SUFFICES ASSUME PlanInv, [PlannerNext]_pvars PROVE PlanInv'
    OBVIOUS
  <2>1. CASE LoadConfig
    BY <2>1, LoadConfigInv
  <2>2. CASE SelectNames
    BY <2>2, SelectNamesInv
  <2>3. CASE initAuditor
    BY <2>3, initAuditorInv
  <2>4. CASE LoadEntry
    BY <2>4, LoadEntryInv
  <2>5. CASE EntriesLoaded
    BY <2>5, EntriesLoadedInv
  <2>6. CASE SkipWorkload
    BY <2>6, SkipWorkloadInv
  <2>7. CASE PlanWorkload
    BY <2>7, PlanWorkloadInv
  <2>8. CASE PlanRole
    BY <2>8, PlanRoleInv
  <2>9. CASE WorkloadPlanned
    BY <2>9, WorkloadPlannedInv
  <2>10. CASE BuildVMSpecs
    BY <2>10, BuildVMSpecsInv
  <2>11. CASE Validated
    BY <2>11, ValidatedInv
  <2>12. CASE Exited \/ UNCHANGED pvars
    BY <2>12, IdleInv DEF Exited
  <2> QED
    BY <2>1, <2>2, <2>3, <2>4, <2>5, <2>6, <2>7, <2>8, <2>9, <2>10, <2>11, <2>12 DEF PlannerNext
<1> QED
  BY <1>1, <1>2, PTL DEF PlannerSpec

-----------------------------------------------------------------------------
\* The theorems.

\* "virtwork validate" is worth running: what it accepts is loaded and planned,
\* unless the image is empty (LoadCatalogEntry, planVMs, BuildVMSpec).
THEOREM ValidatedEntriesDeploy == PlannerSpec => []ValidatedEntryDeploys
<1>1. PlanInv => ValidatedEntryDeploys
  BY DEF PlanInv
<1> QED
  BY <1>1, PlanInvariant, PTL

\* The numbers of a role's VMs are as many as the role calls for.
LEMMA NumbersCalled ==
  ASSUME PlanInv, NEW n \in instances, NEW k \in DOMAIN registry[n].roles
  PROVE  Numbers(n, k) = 0..(Called(n, k) - 1)
<1>1. Registered /\ in \in Invocations /\ Read /\ n \in DOMAIN registry
  BY DEF PlanInv, Configured, Made
<1>2. registry[n].roles[k].count \in Number
  BY <1>1, RoleNumbers DEF RoleSpec
<1>3. Count(n, registry[n].roles[k]) = Called(n, k)
  BY <1>1, <1>2, CountType DEF Called, Read
<1> QED
  BY <1>3 DEF Numbers

\* When the plan is finished, the workloads planned are those asked for and not
\* switched off, and all VMs of all their roles are there.
LEMMA PlanFinished ==
  ASSUME PlanInv, Planned
  PROVE  /\ instances = {r \in ToSet(Requested) : ~Disabled(r)}
         /\ \A n \in instances : \A k \in DOMAIN registry[n].roles : \A i \in Numbers(n, k) :
              \E p \in DOMAIN plans : plans[p] = RoleVM(n, k, i)
<1>1. Planning /\ left = <<>> /\ stage # "roles"
  BY DEF PlanInv, Staged, Planning, Planned
<1>2. Requested \in Seq(DOMAIN registry)
  BY <1>1 DEF PlanInv, Visiting
<1>3. 1..Passed = DOMAIN Requested
  <2>1. Len(Requested) \in Nat /\ DOMAIN Requested = 1..Len(Requested)
    BY <1>2
  <2>2. Len(left) = 0
    BY <1>1
  <2> QED
    BY <2>1, <2>2 DEF Passed
<1>4. \A n \in instances : n \in ToSet(Requested) /\ ~Disabled(n)
  BY <1>1 DEF PlanInv, Answered, Made, ToSet
<1>5. \A n \in ToSet(Requested) : Disabled(n) \/ n \in instances
  BY <1>1, <1>3 DEF PlanInv, Answered, ToSet
<1>6. \A n \in instances : \A k \in DOMAIN registry[n].roles : \A i \in Numbers(n, k) :
        \E p \in DOMAIN plans : plans[p] = RoleVM(n, k, i)
  BY <1>1 DEF PlanInv, Covered
<1> QED
  BY <1>4, <1>5, <1>6

\* A finished plan has exactly the VMs that the roles of the workloads asked for
\* call for (planVMs, RoleDistribution, VMCount), whatever the flags, the
\* sections and the catalog.
THEOREM PlansWhatIsAsked == PlannerSpec => []AskedIsPlanned
<1>1. PlanInv => AskedIsPlanned
  <2> SUFFICES ASSUME PlanInv, Planned PROVE AskedIsPlanned
    BY DEF AskedIsPlanned
  <2> DEFINE Id(n, r, m) == [workload |-> n, role |-> r, name |-> VMName(n, r, m)]
             Of(n, k) == {Id(n, registry[n].roles[k].role, m) : m \in 0..(Called(n, k) - 1)}
             A == {[workload |-> plans[i].workload, role |-> plans[i].role, name |-> plans[i].name] : i \in DOMAIN plans}
             B == UNION {UNION {Of(n, k) : k \in DOMAIN registry[n].roles} : n \in instances}
  <2>1. ASSUME NEW x \in A PROVE x \in B
    <3>1. PICK p \in DOMAIN plans :
            x = [workload |-> plans[p].workload, role |-> plans[p].role, name |-> plans[p].name]
      OBVIOUS
    <3>2. PICK n \in instances : \E k \in DOMAIN registry[n].roles : \E i \in Numbers(n, k) :
            plans[p] = RoleVM(n, k, i)
      BY PlanIsVM DEF PlanInv
    <3>3. PICK k \in DOMAIN registry[n].roles : \E i \in Numbers(n, k) : plans[p] = RoleVM(n, k, i)
      BY <3>2
    <3>4. PICK i \in Numbers(n, k) : plans[p] = RoleVM(n, k, i)
      BY <3>3
    <3>5. i \in 0..(Called(n, k) - 1)
      BY NumbersCalled
    <3>6. x = Id(n, registry[n].roles[k].role, i)
      BY <3>1, <3>4, RoleVMFields
    <3> HIDE DEF Id
    <3>7. x \in Of(n, k)
      BY <3>5, <3>6
    <3> HIDE DEF Of
    <3> QED
      BY <3>7
  <2>2. ASSUME NEW x \in B PROVE x \in A
    <3>1. PICK n \in instances : \E k \in DOMAIN registry[n].roles : x \in Of(n, k)
      <4> HIDE DEF Of
      <4> QED
        OBVIOUS
    <3>2. PICK k \in DOMAIN registry[n].roles : x \in Of(n, k)
      BY <3>1
    <3>3. PICK i \in 0..(Called(n, k) - 1) : x = Id(n, registry[n].roles[k].role, i)
      BY <3>2
    <3>4. i \in Numbers(n, k)
      BY <3>3, NumbersCalled
    <3>5. PICK p \in DOMAIN plans : plans[p] = RoleVM(n, k, i)
      BY <3>4, PlanFinished
    <3>6. x = [workload |-> plans[p].workload, role |-> plans[p].role, name |-> plans[p].name]
      BY <3>3, <3>5, RoleVMFields
    <3> QED
      BY <3>6
  <2>3. A = B
    <3> HIDE DEF A, B
    <3> QED
      BY <2>1, <2>2
  <2>4. instances = {r \in ToSet(Requested) : ~Disabled(r)}
    BY PlanFinished
  <2> QED
    BY <2>3, <2>4 DEF AskedIsPlanned
<1> QED
  BY <1>1, PlanInvariant, PTL

\* Prefix tells names apart.
LEMMA SamePrefix ==
  ASSUME NEW v \in Seq(STRING), NEW w \in Seq(STRING), Prefix(v) = Prefix(w)
  PROVE  v = w
<1> DEFINE p == <<"virtwork">>
<1>1. p \in Seq(STRING) /\ p \o v = p \o w
  BY BuiltInNames DEF Prefix
<1> HIDE DEF p
<1> QED
  BY <1>1, ConcatSimplifications

\* Services of two workloads of one name: an entry is named after a built-in one.
LEMMA SameServiceName ==
  ASSUME NEW n \in Seq(STRING), NEW m \in Seq(STRING), n # m, NEW v, NEW w,
         Served(n, v), Served(m, w), NEW s \in v.service, NEW t \in w.service, s.name = t.name
  PROVE  {n, m} \cap {<<"iperf3", "server">>, <<"tps", "server">>} # {}
<1> DEFINE a == <<"iperf3", "server">>
           b == <<"tps", "server">>
<1>1. a \in Seq(STRING) /\ b \in Seq(STRING) /\ a # b /\ <<"network">> # <<"tps">>
  BY BuiltInNames
<1>2. /\ s.name = Prefix(n) \/ (n = <<"network">> /\ s.name = Prefix(a)) \/ (n = <<"tps">> /\ s.name = Prefix(b))
      /\ t.name = Prefix(m) \/ (m = <<"network">> /\ t.name = Prefix(a)) \/ (m = <<"tps">> /\ t.name = Prefix(b))
  BY DEF Served
<1> HIDE DEF a, b
<1>3. n \in {a, b} \/ m \in {a, b}
  BY <1>1, <1>2, SamePrefix
<1> QED
  BY <1>3 DEF a, b

\* Clients find their server: the name and namespace that a client's unit dials are
\* those of a Service of its workload, which selects every server of the workload
\* and no client, and of no other Service, but for an entry named like a built-in
\* one (network.go, tps.go, ServiceSpec, UserdataForRole, planVMs).
THEOREM ClientsFindServers == PlannerSpec => []ClientsReachTheirServer
<1>1. PlanInv => ClientsReachTheirServer
  <2> SUFFICES ASSUME PlanInv, Planned, NEW p \in DOMAIN plans, NEW d \in plans[p].userdata.dials
               PROVE  LET own == plans[p].workload
                          named == {s \in Services : s.service.name = d.service /\ s.namespace = d.namespace}
                          servers == {j \in DOMAIN plans :
                                        /\ plans[j].workload = own /\ plans[j].role = <<"server">>
                                        /\ plans[j].namespace = d.namespace}
                      IN /\ servers # {}
                         /\ \E s \in named :
                              /\ s.workload = own
                              /\ \A j \in servers : Selects(s.service, plans[j])
                              /\ \A j \in DOMAIN plans :
                                   Selects(s.service, plans[j]) => plans[j].role = <<"server">>
                         /\ \A s \in named : s.workload \in {own, <<"iperf3", "server">>, <<"tps", "server">>}
    BY DEF ClientsReachTheirServer
  <2>1. PICK n \in instances : \E k \in DOMAIN registry[n].roles : \E i \in Numbers(n, k) :
          plans[p] = RoleVM(n, k, i)
    BY PlanIsVM DEF PlanInv
  <2>2. PICK k \in DOMAIN registry[n].roles : \E i \in Numbers(n, k) : plans[p] = RoleVM(n, k, i)
    BY <2>1
  <2>3. PICK i \in Numbers(n, k) : plans[p] = RoleVM(n, k, i)
    BY <2>2
  <2> DEFINE w == registry[n]
  <2>4. plans[p].workload = n /\ d.service \in w.dials[w.roles[k].role] /\ d.namespace = cfg.namespace
    <3> DEFINE role == w.roles[k].role
    <3>1. plans[p].workload = n /\ plans[p].userdata = BuildCloudConfig(w, n, role)
      BY <2>3 DEF RoleVM, VM
    <3> HIDE DEF w, role
    <3>2. BuildCloudConfig(w, n, role).dials =
            {[service |-> s, namespace |-> cfg.namespace] : s \in w.dials[role]}
      BY CloudConfigFields
    <3>3. PICK s \in w.dials[role] : d = [service |-> s, namespace |-> cfg.namespace]
      BY <3>1, <3>2
    <3> QED
      BY <3>1, <3>3 DEF role
  <2>5. Registered /\ in \in Invocations /\ Read /\ n \in DOMAIN registry
        /\ \A m \in instances : m \in DOMAIN registry
    BY DEF PlanInv, Configured, Made
  <2>6. Dialled(n, w) /\ Served(n, w)
    BY <2>5, RegistryOK DEF WorkloadOK
  <2>7. n \in {<<"network">>, <<"tps">>}
    BY <2>4, <2>6 DEF Dialled
  <2>8. PICK s \in w.service :
          /\ s.name = d.service /\ "role" \in DOMAIN s.selector /\ s.selector["role"] = <<"server">>
          /\ \E j \in DOMAIN w.roles : w.roles[j].role = <<"server">>
          /\ \A key \in DOMAIN s.selector : /\ key \in DOMAIN Labels(w, n, <<"server">>)
                                            /\ Labels(w, n, <<"server">>)[key] = s.selector[key]
    BY <2>4, <2>6 DEF Dialled
  <2>9. ASSUME NEW q \in DOMAIN plans
        PROVE  /\ plans[q].labels = Labels(registry[plans[q].workload], plans[q].workload, plans[q].role)
               /\ plans[q].namespace = cfg.namespace
    <3>1. PICK m \in instances : \E l \in DOMAIN registry[m].roles : \E o \in Numbers(m, l) :
            plans[q] = RoleVM(m, l, o)
      BY PlanIsVM DEF PlanInv
    <3>2. PICK l \in DOMAIN registry[m].roles : \E o \in Numbers(m, l) : plans[q] = RoleVM(m, l, o)
      BY <3>1
    <3>3. PICK o \in Numbers(m, l) : plans[q] = RoleVM(m, l, o)
      BY <3>2
    <3> QED
      BY <3>3 DEF RoleVM, VM
  \* A server of the workload is planned.
  <2>10. \E q \in DOMAIN plans : /\ plans[q].workload = n /\ plans[q].role = <<"server">>
                                 /\ plans[q].namespace = d.namespace
    <3>1. PICK j \in DOMAIN w.roles : w.roles[j].role = <<"server">>
      BY <2>8
    <3>2. PICK m \in Numbers(n, j) : TRUE
      BY <2>5, RoleNumbers
    <3>3. PICK q \in DOMAIN plans : plans[q] = RoleVM(n, j, m)
      BY <3>2, PlanFinished
    <3> QED
      BY <2>4, <3>1, <3>3 DEF RoleVM, VM
  \* The Service selects the servers of the workload, and no client of any.
  <2>11. ASSUME NEW q \in DOMAIN plans, plans[q].workload = n, plans[q].role = <<"server">>
         PROVE  Selects(s, plans[q])
    BY <2>8, <2>9, <2>11 DEF Selects
  <2>12. ASSUME NEW q \in DOMAIN plans, Selects(s, plans[q])
         PROVE  plans[q].role = <<"server">>
    <3>1. "role" \in DOMAIN plans[q].labels /\ plans[q].labels["role"] = <<"server">>
      BY <2>8, <2>12 DEF Selects
    <3> QED
      BY <2>9, <3>1, LabelIsRole
  <2> DEFINE x == [workload |-> n, namespace |-> cfg.namespace, service |-> s]
  <2>13. x \in Services
    BY <2>8 DEF Services
  <2>14. x.workload = n /\ x.service = s /\ x.namespace = cfg.namespace
    OBVIOUS
  <2> HIDE DEF x
  \* Another Service of the name belongs to an entry named like it.
  <2>15. ASSUME NEW t \in Services, t.service.name = d.service
         PROVE  t.workload \in {n, <<"iperf3", "server">>, <<"tps", "server">>}
    <3>1. PICK m \in instances : \E y \in registry[m].service :
            t = [workload |-> m, namespace |-> cfg.namespace, service |-> y]
      BY DEF Services
    <3>2. PICK y \in registry[m].service : t = [workload |-> m, namespace |-> cfg.namespace, service |-> y]
      BY <3>1
    <3>3. t.workload = m /\ y.name = s.name
      BY <2>8, <2>15, <3>2
    <3>4. CASE m = n
      BY <3>3, <3>4
    <3>5. CASE m # n
      <4>1. n \in Seq(STRING) /\ m \in Seq(STRING) /\ Served(m, registry[m])
        BY <2>5, RegistryOK DEF WorkloadOK, Named
      <4>2. {n, m} \cap {<<"iperf3", "server">>, <<"tps", "server">>} # {}
        BY <2>6, <2>8, <3>2, <3>3, <3>5, <4>1, SameServiceName
      <4>3. n \notin {<<"iperf3", "server">>, <<"tps", "server">>}
        BY <2>7
      <4> QED
        BY <3>3, <4>2, <4>3
    <3> QED
      BY <3>4, <3>5
  <2> HIDE DEF w
  <2> QED
    BY <2>4, <2>8, <2>10, <2>11, <2>12, <2>13, <2>14, <2>15
<1> QED
  BY <1>1, PlanInvariant, PTL

\* What a user typed reaches the VMs: the flag, else the variable, else the file,
\* else the default (LoadConfig, its bindings, resolveWorkloadConfig).
THEOREM SettingsArrive == PlannerSpec => []SettingsReachVMs
<1>1. PlanInv => SettingsReachVMs
  <2> SUFFICES ASSUME PlanInv, NEW p \in DOMAIN plans
               PROVE  LET vm == plans[p]
                          own == Section(in.sections, vm.workload)
                      IN /\ vm.namespace = Said("namespace") /\ vm.image = Said("container-disk-image")
                         /\ vm.memory = (IF own.memory = "" THEN Said("memory") ELSE own.memory)
                         /\ vm.cpu = FirstPositive(<<own.cpuCores, GetInt(Said("cpu-cores"))>>)
                         /\ registry[vm.workload].builtIn =>
                              \A k \in DOMAIN vm.templates : vm.templates[k].size = Said("disk-size")
                         /\ \A u \in vm.userdata.users : u.name = Said("ssh-user") /\ u.password = Said("ssh-password")
                         /\ vm.userdata.users = {} <=> Said("ssh-user") = ""
                         /\ cfg.dryRun <=> GetBool(Said("dry-run"))
    BY DEF SettingsReachVMs
  <2>1. PICK n \in instances : \E k \in DOMAIN registry[n].roles : \E i \in Numbers(n, k) :
          plans[p] = RoleVM(n, k, i)
    BY PlanIsVM DEF PlanInv
  <2>2. PICK k \in DOMAIN registry[n].roles : \E i \in Numbers(n, k) : plans[p] = RoleVM(n, k, i)
    BY <2>1
  <2>3. PICK i \in Numbers(n, k) : plans[p] = RoleVM(n, k, i)
    BY <2>2
  <2> DEFINE vm == plans[p]
             own == Section(in.sections, n)
             w == registry[n]
             role == w.roles[k].role
             dv == NamespaceDataVolumes(w.storage, VMName(n, role, i))
  <2>4. Registered /\ in \in Invocations /\ Read /\ n \in DOMAIN registry
    BY DEF PlanInv, Configured, Made
  <2>5. /\ vm.workload = n /\ vm.namespace = cfg.namespace /\ vm.image = cfg.image
        /\ vm.cpu = CPUCores(n) /\ vm.memory = Memory(n)
        /\ vm.userdata = BuildCloudConfig(w, n, role) /\ vm.templates = dv.templates
    BY <2>3 DEF RoleVM, VM
  <2>6. /\ Get(in, "namespace") = Said("namespace") /\ Get(in, "memory") = Said("memory")
        /\ Get(in, "container-disk-image") = Said("container-disk-image")
        /\ Get(in, "cpu-cores") = Said("cpu-cores") /\ Get(in, "disk-size") = Said("disk-size")
        /\ Get(in, "ssh-user") = Said("ssh-user") /\ Get(in, "ssh-password") = Said("ssh-password")
        /\ Get(in, "dry-run") = Said("dry-run")
    <3>1. {"namespace", "memory", "container-disk-image", "cpu-cores", "disk-size", "ssh-user",
           "ssh-password", "dry-run"} \subseteq BoundFlags
      BY DEF BoundFlags
    <3>2. \A flag \in BoundFlags : Get(in, flag) = Said(flag)
      BY GetIsSaid
    <3> QED
      BY <3>1, <3>2
  <2>7. /\ cfg.namespace = Said("namespace") /\ cfg.memory = Said("memory")
        /\ cfg.image = Said("container-disk-image") /\ cfg.cpuCores = GetInt(Said("cpu-cores"))
        /\ cfg.diskSize = Said("disk-size") /\ cfg.sshUser = Said("ssh-user")
        /\ cfg.sshPassword = Said("ssh-password") /\ cfg.dryRun = GetBool(Said("dry-run"))
    <3>1. cfg = Assemble(in)
      BY <2>4 DEF Read
    <3> QED
      BY <2>6, <3>1 DEF Assemble
  <2>8. /\ Section(cfg.sections, n).memory = own.memory
        /\ Section(cfg.sections, n).cpuCores = own.cpuCores /\ own.cpuCores \in Number
    BY <2>4, SectionKept DEF Read
  <2>9. cfg.cpuCores \in Number /\ cfg.cpuCores >= 1
    <3>1. Validate(cfg)
      BY <2>4 DEF Read, LoadFails
    <3> QED
      BY <2>7, <3>1, GetIntType DEF Validate
  <2> HIDE DEF own, vm, w
  <2>10. vm.memory = (IF own.memory = "" THEN Said("memory") ELSE own.memory)
    BY <2>5, <2>7, <2>8 DEF Memory
  <2>11. vm.cpu = FirstPositive(<<own.cpuCores, GetInt(Said("cpu-cores"))>>)
    <3> DEFINE a == own.cpuCores
               b == cfg.cpuCores
    <3>1. a \in Int /\ b \in Int /\ b > 0
      BY <2>8, <2>9, NumeralsDiffer DEF Number
    <3>2. vm.cpu = Positive(a, b)
      BY <2>5, <2>8 DEF CPUCores
    <3> HIDE DEF a, b
    <3>3. FirstPositive(<<a, b>>) = Positive(a, b)
      BY <3>1, FirstOfTwo
    <3> QED
      BY <2>7, <3>2, <3>3 DEF a, b
  <2>12. w.builtIn => \A x \in DOMAIN vm.templates : vm.templates[x].size = Said("disk-size")
    <3>1. Stored(w)
      BY <2>4, RegistryOK DEF WorkloadOK, w
    <3>2. /\ DOMAIN vm.templates = DOMAIN w.storage
          /\ \A x \in DOMAIN w.storage : vm.templates[x].size = Size(w.storage[x])
      BY <2>5, DataVolumeFields
    <3> QED
      BY <2>7, <3>1, <3>2 DEF Stored, Size
  <2>13. vm.userdata.users = IF Said("ssh-user") = "" THEN {}
                             ELSE {[name |-> Said("ssh-user"), password |-> Said("ssh-password"), keys |-> cfg.sshKeys]}
    <3> HIDE DEF role
    <3>1. BuildCloudConfig(w, n, role).users =
            IF cfg.sshUser = "" THEN {}
            ELSE {[name |-> cfg.sshUser, password |-> cfg.sshPassword, keys |-> cfg.sshKeys]}
      BY CloudConfigFields
    <3> QED
      BY <2>5, <2>7, <3>1
  <2>14. \A u \in vm.userdata.users : u.name = Said("ssh-user") /\ u.password = Said("ssh-password")
    <3> DEFINE user == [name |-> Said("ssh-user"), password |-> Said("ssh-password"), keys |-> cfg.sshKeys]
    <3>1. user.name = Said("ssh-user") /\ user.password = Said("ssh-password")
      OBVIOUS
    <3>2. \A u \in vm.userdata.users : u = user
      <4> HIDE DEF user
      <4> QED
        BY <2>13 DEF user
    <3> QED
      BY <3>1, <3>2
  <2>15. vm.userdata.users = {} <=> Said("ssh-user") = ""
    BY <2>13
  <2> QED
    BY <2>5, <2>7, <2>10, <2>11, <2>12, <2>14, <2>15 DEF vm, own, w
<1> QED
  BY <1>1, PlanInvariant, PTL

\* Names do not clash: VMs of a plan have names of their own, but for workloads
\* asked for twice, roles declared twice and names that begin with another; and
\* so have Services (planVMs, ServiceSpec).
THEOREM NamesDoNotClash == PlannerSpec => []NamesDistinct
<1>1. PlanInv => NamesDistinct
  <2> SUFFICES ASSUME PlanInv, Planned PROVE NamesDistinct
    BY DEF NamesDistinct
  <2>1. Registered /\ in \in Invocations /\ Read /\ Planning
    BY DEF PlanInv, Configured, Planning
  <2>2. \A n \in instances : n \in DOMAIN registry
    BY DEF PlanInv, Made
  <2>3. ASSUME NEW p \in DOMAIN plans
        PROVE  \E n \in instances : \E k \in DOMAIN registry[n].roles : \E i \in Numbers(n, k) :
                 /\ plans[p].workload = n /\ plans[p].name = VMName(n, registry[n].roles[k].role, i)
    BY PlanIsVM, RoleVMFields DEF PlanInv
  <2>4. ASSUME NEW p \in DOMAIN plans, NEW q \in DOMAIN plans, plans[p].name = plans[q].name
        PROVE  LET v == plans[p].workload
                   w == plans[q].workload
               IN IsPrefix(v, w) \/ IsPrefix(w, v)
    <3>1. ASSUME NEW z \in DOMAIN plans
          PROVE  /\ plans[z].workload \in Seq(STRING)
                 /\ \E r \in Seq(STRING), i \in Number : plans[z].name = VMName(plans[z].workload, r, i)
      <4>1. PICK n \in instances : \E k \in DOMAIN registry[n].roles : \E i \in Numbers(n, k) :
                 /\ plans[z].workload = n /\ plans[z].name = VMName(n, registry[n].roles[k].role, i)
        BY <2>3
      <4>2. PICK k \in DOMAIN registry[n].roles : \E i \in Numbers(n, k) :
                 /\ plans[z].workload = n /\ plans[z].name = VMName(n, registry[n].roles[k].role, i)
        BY <4>1
      <4>3. /\ n \in Seq(STRING) /\ registry[n].roles[k].role \in Seq(STRING)
            /\ Numbers(n, k) \subseteq Number
        BY <2>1, <2>2, <4>2, RoleNumbers
      <4> QED
        BY <4>2, <4>3
    <3>2. PICK r \in Seq(STRING), i \in Number : plans[p].name = VMName(plans[p].workload, r, i)
      BY <3>1
    <3>3. PICK s \in Seq(STRING), j \in Number : plans[q].name = VMName(plans[q].workload, s, j)
      BY <3>1
    <3>4. plans[p].workload \in Seq(STRING) /\ plans[q].workload \in Seq(STRING)
      BY <3>1
    <3>5. VMName(plans[p].workload, r, i) = VMName(plans[q].workload, s, j)
      BY <2>4, <3>2, <3>3
    <3> QED
      BY <3>4, <3>5, SameVMName
  <2>5. ASSUME NEW p \in DOMAIN plans, NEW q \in DOMAIN plans, p < q, plans[p].name = plans[q].name,
               plans[p].workload = plans[q].workload
        PROVE  TwoTurns(plans[p].workload) \/ TwinRoles(plans[p].workload)
    BY <2>1, <2>5 DEF PlanInv, Apart
  <2>6. ASSUME NEW s \in Services, NEW t \in Services, s.service.name = t.service.name, s # t
        PROVE  {s.workload, t.workload} \cap {<<"iperf3", "server">>, <<"tps", "server">>} # {}
    <3>1. PICK n \in instances : \E x \in registry[n].service : s = [workload |-> n, namespace |-> cfg.namespace, service |-> x]
      BY DEF Services
    <3>2. PICK x \in registry[n].service : s = [workload |-> n, namespace |-> cfg.namespace, service |-> x]
      BY <3>1
    <3>3. PICK m \in instances : \E y \in registry[m].service : t = [workload |-> m, namespace |-> cfg.namespace, service |-> y]
      BY DEF Services
    <3>4. PICK y \in registry[m].service : t = [workload |-> m, namespace |-> cfg.namespace, service |-> y]
      BY <3>3
    <3>5. s.workload = n /\ s.service = x /\ t.workload = m /\ t.service = y /\ x.name = y.name
      BY <2>6, <3>2, <3>4
    <3>6. \A z \in instances : z \in Seq(STRING) /\ Served(z, registry[z])
      BY <2>1, <2>2, RegistryOK DEF WorkloadOK, Named
    <3>7. n # m
      BY <2>6, <3>2, <3>4, <3>6 DEF Served
    <3>8. n \in Seq(STRING) /\ m \in Seq(STRING) /\ Served(n, registry[n]) /\ Served(m, registry[m])
      BY <3>6
    <3>9. {n, m} \cap {<<"iperf3", "server">>, <<"tps", "server">>} # {}
      BY <3>2, <3>4, <3>5, <3>7, <3>8, SameServiceName
    <3> QED
      BY <3>5, <3>9
  <2>7. \A p, q \in DOMAIN plans : p < q /\ plans[p].name = plans[q].name =>
          LET v == plans[p].workload
              w == plans[q].workload
          IN \/ v = w /\ \E a, b \in DOMAIN Requested : a # b /\ Requested[a] = v /\ Requested[b] = v
             \/ v = w /\ ~IsInjective([k \in DOMAIN registry[w].roles |-> registry[w].roles[k].role])
             \/ v # w /\ (IsPrefix(v, w) \/ IsPrefix(w, v))
    BY <2>4, <2>5 DEF TwoTurns, TwinRoles
  <2>8. \A s, t \in Services : s.service.name = t.service.name /\ s # t =>
          {s.workload, t.workload} \cap {<<"iperf3", "server">>, <<"tps", "server">>} # {}
    BY <2>6
  <2> QED
    BY <2>7, <2>8 DEF NamesDistinct
<1> QED
  BY <1>1, PlanInvariant, PTL

\* Two elements before others.
LEMMA TwoBefore ==
  ASSUME NEW a, NEW b, NEW K \in Nat, NEW d, DOMAIN d = 1..K, d = [i \in 1..K |-> d[i]]
  PROVE  /\ DOMAIN (<<a, b>> \o d) = 1..(K + 2) /\ Len(<<a, b>> \o d) = K + 2
         /\ (<<a, b>> \o d)[1] = a /\ (<<a, b>> \o d)[2] = b
         /\ \A i \in 1..K : (<<a, b>> \o d)[i + 2] = d[i]
<1> DEFINE S == {a, b} \cup {d[i] : i \in 1..K}
           two == <<a, b>>
<1>1. two \in Seq(S) /\ Len(two) = 2 /\ two[1] = a /\ two[2] = b
  <2>1. a \in S /\ b \in S
    OBVIOUS
  <2> HIDE DEF S
  <2> QED
    BY <2>1
<1>2. d \in Seq(S) /\ Len(d) = K
  <2>1. \A i \in 1..K : d[i] \in S
    OBVIOUS
  <2> HIDE DEF S
  <2>2. d \in [1..K -> S]
    BY <2>1
  <2> QED
    BY <2>2
<1> HIDE DEF S, two
<1>3. /\ two \o d \in Seq(S) /\ Len(two \o d) = K + 2
      /\ \A i \in 1..(2 + K) : (two \o d)[i] = IF i <= 2 THEN two[i] ELSE d[i - 2]
  <2>1. /\ two \o d \in Seq(S) /\ Len(two \o d) = Len(two) + Len(d)
        /\ \A i \in 1..(Len(two) + Len(d)) :
             (two \o d)[i] = IF i <= Len(two) THEN two[i] ELSE d[i - Len(two)]
    BY <1>1, <1>2, ConcatProperties, Zenon
  <2> QED
    BY <1>1, <1>2, <2>1
<1>4. DOMAIN (two \o d) = 1..(K + 2)
  BY <1>3
<1>5. (two \o d)[1] = a /\ (two \o d)[2] = b
  BY <1>1, <1>3
<1>6. \A i \in 1..K : (two \o d)[i + 2] = d[i]
  BY <1>3
<1> QED
  BY <1>3, <1>4, <1>5, <1>6 DEF two

\* The disks of a VM: the two of every VM, then those of the workload.
LEMMA DisksAre ==
  ASSUME NEW storage, NEW K \in Nat, DOMAIN storage = 1..K
  PROVE  /\ DOMAIN Disks(storage) = 1..(K + 2)
         /\ Disks(storage)[1].name = <<"containerdisk">> /\ Disks(storage)[2].name = <<"cloudinitdisk">>
         /\ \A i \in 1..K : Disks(storage)[i + 2].name = storage[i].name
<1> DEFINE a == [name |-> <<"containerdisk">>, serial |-> ""]
           b == [name |-> <<"cloudinitdisk">>, serial |-> ""]
           d == [i \in 1..K |-> [name |-> storage[i].name, serial |-> storage[i].serial]]
<1>1. Disks(storage) = <<a, b>> \o d
  BY DEF Disks
<1>2. a.name = <<"containerdisk">> /\ b.name = <<"cloudinitdisk">> /\ DOMAIN d = 1..K
      /\ \A i \in 1..K : d[i].name = storage[i].name
  OBVIOUS
<1>3. d = [i \in 1..K |-> d[i]]
  OBVIOUS
<1> HIDE DEF a, b, d
<1>4. /\ DOMAIN (<<a, b>> \o d) = 1..(K + 2)
      /\ (<<a, b>> \o d)[1] = a /\ (<<a, b>> \o d)[2] = b
      /\ \A i \in 1..K : (<<a, b>> \o d)[i + 2] = d[i]
  BY <1>2, <1>3, TwoBefore
<1> QED
  BY <1>1, <1>2, <1>4

\* Volumes vs are those of a VM with a given storage.
LaidOut(vs, storage, vm, K) ==
  /\ DOMAIN vs = 1..(K + 2) /\ Len(vs) = K + 2
  /\ vs[1].name = <<"containerdisk">> /\ vs[2].name = <<"cloudinitdisk">>
  /\ \A i \in 1..K : vs[i + 2].name = storage[i].name /\ vs[i + 2].source = storage[i].dv \o vm

\* The volumes of a VM: the two of every VM, then those of the workload.
LEMMA VolumesAre ==
  ASSUME NEW storage, NEW vm, NEW K \in Nat, DOMAIN storage = 1..K,
         NEW vs, vs = Volumes(vm, NamespaceDataVolumes(storage, vm).volumes)
  PROVE  LaidOut(vs, storage, vm, K)
<1> DEFINE a == [name |-> <<"containerdisk">>, source |-> <<cfg.image>>]
           b == [name |-> <<"cloudinitdisk">>, source |-> vm \o <<"cloudinit">>]
           d == NamespaceDataVolumes(storage, vm).volumes
<1>1. vs = <<a, b>> \o d
  BY DEF Volumes
<1>2. a.name = <<"containerdisk">> /\ b.name = <<"cloudinitdisk">>
  OBVIOUS
<1>3. d = [i \in 1..K |-> [name |-> storage[i].name, source |-> storage[i].dv \o vm]]
  BY DEF NamespaceDataVolumes
<1>4. /\ DOMAIN d = 1..K /\ d = [i \in 1..K |-> d[i]]
      /\ \A i \in 1..K : d[i].name = storage[i].name /\ d[i].source = storage[i].dv \o vm
  <2> HIDE DEF d
  <2> QED
    BY <1>3
<1> HIDE DEF a, b, d
<1>5. /\ DOMAIN (<<a, b>> \o d) = 1..(K + 2) /\ Len(<<a, b>> \o d) = K + 2
      /\ (<<a, b>> \o d)[1] = a /\ (<<a, b>> \o d)[2] = b
      /\ \A i \in 1..K : (<<a, b>> \o d)[i + 2] = d[i]
  BY <1>4, TwoBefore
<1> QED
  BY <1>1, <1>2, <1>4, <1>5 DEF LaidOut

\* The storage of a planned VM in terms of its workload's.
LEMMA PlanStorage ==
  ASSUME PlanInv, NEW p \in DOMAIN plans
  PROVE  LET vm == plans[p]
             storage == registry[vm.workload].storage
         IN \E K \in Nat :
              /\ vm.workload \in DOMAIN registry /\ Stored(registry[vm.workload])
              /\ DOMAIN storage = 1..K /\ DOMAIN vm.disks = 1..(K + 2)
              /\ DOMAIN vm.volumes = 1..(K + 2) /\ Len(vm.volumes) = K + 2 /\ DOMAIN vm.templates = 1..K
              /\ vm.disks[1].name = <<"containerdisk">> /\ vm.disks[2].name = <<"cloudinitdisk">>
              /\ vm.volumes[1].name = <<"containerdisk">> /\ vm.volumes[2].name = <<"cloudinitdisk">>
              /\ \A i \in 1..K : /\ vm.disks[i + 2].name = storage[i].name
                                /\ vm.volumes[i + 2].name = storage[i].name
                                /\ vm.volumes[i + 2].source = storage[i].dv \o vm.name
                                /\ vm.templates[i].name = storage[i].dv \o vm.name
              /\ vm.name \in Seq(STRING) /\ vm.name # <<>> /\ vm.name[1] = "virtwork"
<1>1. PICK n \in instances : \E k \in DOMAIN registry[n].roles : \E i \in Numbers(n, k) :
        plans[p] = RoleVM(n, k, i)
  BY PlanIsVM DEF PlanInv
<1>2. PICK k \in DOMAIN registry[n].roles : \E i \in Numbers(n, k) : plans[p] = RoleVM(n, k, i)
  BY <1>1
<1>3. PICK m \in Numbers(n, k) : plans[p] = RoleVM(n, k, m)
  BY <1>2
<1> DEFINE storage == registry[n].storage
           role == registry[n].roles[k].role
           name == VMName(n, role, m)
           vm == plans[p]
<1>4. Registered /\ in \in Invocations /\ Read /\ n \in DOMAIN registry
  BY DEF PlanInv, Configured, Made
<1>5. /\ vm.workload = n /\ vm.name = name /\ vm.disks = Disks(storage)
      /\ vm.volumes = Volumes(name, NamespaceDataVolumes(storage, name).volumes)
      /\ vm.templates = NamespaceDataVolumes(storage, name).templates
  BY <1>3 DEF RoleVM, VM
<1>6. Stored(registry[n])
  BY <1>4, RegistryOK DEF WorkloadOK
<1>7. PICK K \in Nat : DOMAIN storage = 1..K
  BY <1>6 DEF Stored
<1>8. name \in Seq(STRING) /\ name # <<>> /\ name[1] = "virtwork"
  BY <1>4, RoleNumbers, VMNameType
<1> HIDE DEF storage, name, vm
<1>9. /\ DOMAIN vm.disks = 1..(K + 2)
      /\ vm.disks[1].name = <<"containerdisk">> /\ vm.disks[2].name = <<"cloudinitdisk">>
      /\ \A j \in 1..K : vm.disks[j + 2].name = storage[j].name
  BY <1>5, <1>7, DisksAre
<1>10. /\ DOMAIN vm.volumes = 1..(K + 2) /\ Len(vm.volumes) = K + 2
       /\ vm.volumes[1].name = <<"containerdisk">> /\ vm.volumes[2].name = <<"cloudinitdisk">>
       /\ \A j \in 1..K : /\ vm.volumes[j + 2].name = storage[j].name
                         /\ vm.volumes[j + 2].source = storage[j].dv \o name
  <2> DEFINE vs == vm.volumes
  <2>1. vs = Volumes(name, NamespaceDataVolumes(storage, name).volumes)
    BY <1>5
  <2> HIDE DEF vs
  <2>2. LaidOut(vs, storage, name, K)
    BY <1>7, <2>1, VolumesAre
  <2> QED
    BY <2>2 DEF vs, LaidOut
<1>11. DOMAIN vm.templates = 1..K /\ \A j \in 1..K : vm.templates[j].name = storage[j].dv \o name
  BY <1>5, <1>7, DataVolumeFields
<1>12. storage = registry[vm.workload].storage /\ vm.workload \in DOMAIN registry
       /\ Stored(registry[vm.workload])
  BY <1>4, <1>5, <1>6 DEF storage
<1> QED
  BY <1>5, <1>7, <1>8, <1>9, <1>10, <1>11, <1>12 DEF vm

\* The storage of a VM is wired up: disks have names of their own, each has its
\* volume, each data volume its template, and VMs do not share templates
\* (BuildVMSpec, NamespaceDataVolumes).
THEOREM StorageIsWired == PlannerSpec => []StorageWired
<1>1. PlanInv => StorageWired
  <2> SUFFICES ASSUME PlanInv, NEW p \in DOMAIN plans
               PROVE  LET vm == plans[p]
                          own == {vm.templates[k].name : k \in DOMAIN vm.templates}
                      IN /\ IsInjective([k \in DOMAIN vm.disks |-> vm.disks[k].name])
                         /\ {vm.disks[k].name : k \in DOMAIN vm.disks} = {vm.volumes[k].name : k \in DOMAIN vm.volumes}
                         /\ \A k \in 3..Len(vm.volumes) : vm.volumes[k].source \in own
                         /\ \A j \in DOMAIN plans :
                              plans[j].name # vm.name /\ ~HidesVMName(vm.workload) /\ ~HidesVMName(plans[j].workload) =>
                              own \cap {plans[j].templates[k].name : k \in DOMAIN plans[j].templates} = {}
    BY DEF StorageWired
  <2> DEFINE vm == plans[p]
             storage == registry[vm.workload].storage
             own == {vm.templates[k].name : k \in DOMAIN vm.templates}
  <2>1. PICK K \in Nat :
          /\ vm.workload \in DOMAIN registry /\ Stored(registry[vm.workload])
          /\ DOMAIN storage = 1..K /\ DOMAIN vm.disks = 1..(K + 2)
          /\ DOMAIN vm.volumes = 1..(K + 2) /\ Len(vm.volumes) = K + 2 /\ DOMAIN vm.templates = 1..K
          /\ vm.disks[1].name = <<"containerdisk">> /\ vm.disks[2].name = <<"cloudinitdisk">>
          /\ vm.volumes[1].name = <<"containerdisk">> /\ vm.volumes[2].name = <<"cloudinitdisk">>
          /\ \A i \in 1..K : /\ vm.disks[i + 2].name = storage[i].name
                            /\ vm.volumes[i + 2].name = storage[i].name
                            /\ vm.volumes[i + 2].source = storage[i].dv \o vm.name
                            /\ vm.templates[i].name = storage[i].dv \o vm.name
          /\ vm.name \in Seq(STRING) /\ vm.name # <<>> /\ vm.name[1] = "virtwork"
    BY PlanStorage
  <2>2. /\ \A i \in 1..K : storage[i].name \notin {<<"containerdisk">>, <<"cloudinitdisk">>}
        /\ \A i, j \in 1..K : storage[i].name = storage[j].name => i = j
    BY <2>1 DEF Stored
  <2> HIDE DEF vm, storage
  <2>3. \A k \in 1..(K + 2) : k = 1 \/ k = 2 \/ (k - 2 \in 1..K /\ k = (k - 2) + 2)
    BY <2>1
  <2>4. \A k \in 1..(K + 2) : vm.disks[k].name = vm.volumes[k].name
    BY <2>1, <2>3
  <2>5. \A k, l \in 1..(K + 2) : vm.disks[k].name = vm.disks[l].name => k = l
    <3>1. \A k \in 1..(K + 2) : k = 1 \/ k = 2 \/ (k - 2 \in 1..K /\ vm.disks[k].name = storage[k - 2].name)
      BY <2>1, <2>3
    <3>2. <<"containerdisk">> # <<"cloudinitdisk">>
      OBVIOUS
    <3> DEFINE nm(k) == vm.disks[k].name
    <3>3. nm(1) = <<"containerdisk">> /\ nm(2) = <<"cloudinitdisk">>
      BY <2>1
    <3>4. \A k \in 1..(K + 2) : k = 1 \/ k = 2 \/ nm(k) \notin {<<"containerdisk">>, <<"cloudinitdisk">>}
      BY <2>2, <3>1
    <3>5. ASSUME NEW k \in 1..(K + 2), NEW l \in 1..(K + 2), nm(k) = nm(l), k # 1, k # 2, l # 1, l # 2
          PROVE  k = l
      <4>1. k - 2 \in 1..K /\ l - 2 \in 1..K /\ storage[k - 2].name = storage[l - 2].name
        BY <3>1, <3>5
      <4>2. k - 2 = l - 2
        BY <2>2, <4>1
      <4> QED
        BY <4>2
    <3> HIDE DEF nm
    <3>6. \A k, l \in 1..(K + 2) : nm(k) = nm(l) => k = l
      BY <3>2, <3>3, <3>4, <3>5
    <3> QED
      BY <3>6 DEF nm
  <2>6. IsInjective([k \in DOMAIN vm.disks |-> vm.disks[k].name])
    BY <2>1, <2>5 DEF IsInjective
  <2>7. {vm.disks[k].name : k \in DOMAIN vm.disks} = {vm.volumes[k].name : k \in DOMAIN vm.volumes}
    BY <2>1, <2>4
  <2>8. ASSUME NEW k \in 3..Len(vm.volumes) PROVE vm.volumes[k].source \in own
    <3>1. k - 2 \in 1..K /\ k = (k - 2) + 2
      BY <2>1
    <3>2. vm.volumes[k].source = vm.templates[k - 2].name
      BY <2>1, <3>1
    <3> QED
      BY <2>1, <3>1, <3>2
  <2>9. ASSUME NEW j \in DOMAIN plans, plans[j].name # vm.name,
               ~HidesVMName(vm.workload), ~HidesVMName(plans[j].workload)
        PROVE  own \cap {plans[j].templates[k].name : k \in DOMAIN plans[j].templates} = {}
    <3> DEFINE um == plans[j]
               other == registry[um.workload].storage
    <3>1. PICK M \in Nat :
            /\ um.workload \in DOMAIN registry /\ Stored(registry[um.workload])
            /\ DOMAIN other = 1..M /\ DOMAIN um.templates = 1..M
            /\ \A i \in 1..M : um.templates[i].name = other[i].dv \o um.name
            /\ um.name \in Seq(STRING) /\ um.name # <<>> /\ um.name[1] = "virtwork"
      BY PlanStorage
    <3>2. ASSUME NEW a \in 1..K, NEW b \in 1..M, vm.templates[a].name = um.templates[b].name
          PROVE  FALSE
      <4>1. storage[a].dv \o vm.name = other[b].dv \o um.name
        BY <2>1, <3>1, <3>2
      <4>2. /\ storage[a].dv \in Seq(STRING) /\ storage[a].dv # <<>>
            /\ other[b].dv \in Seq(STRING) /\ other[b].dv # <<>>
        BY <2>1, <3>1 DEF Stored, storage
      <4>3. "virtwork" \in ToSet(Tail(storage[a].dv)) \/ "virtwork" \in ToSet(Tail(other[b].dv))
        BY <2>1, <2>9, <3>1, <4>1, <4>2, SameTemplateName
      <4> QED
        BY <2>1, <2>9, <3>1, <4>3 DEF HidesVMName, storage
    <3> QED
      BY <2>1, <3>1, <3>2
  <2> QED
    BY <2>6, <2>7, <2>8, <2>9 DEF vm
<1> QED
  BY <1>1, PlanInvariant, PTL
=============================================================================
