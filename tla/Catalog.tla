------------------------------ MODULE Catalog ------------------------------
(***************************************************************************)
(* internal/workloads: parameters, the Workload interface, and the         *)
(* workloads users write: a directory with .service files and optionally   *)
(* a workload.yaml.                                                        *)
(*                                                                         *)
(* A Workload is a record: schema, multi (MultiVMWorkload), roles (one     *)
(* nameless role if not multi), files[role] (what cloud-init writes, with  *)
(* holes for parameters), storage, service (a set, empty or singleton) and *)
(* dials[role] (Services its units connect to).                            *)
(***************************************************************************)
EXTENDS Config

CONSTANT LongText   \* texts of more than 20 characters

Prefix(name) == <<"virtwork">> \o name

-----------------------------------------------------------------------------
\* params.go
Param(key, type, default) == [key |-> <<key>>, type |-> type, default |-> default]

Find(schema, key) == SelectInSeq(schema, LAMBDA d : d.key = key)

ParamDefValidate(d, value) ==
  LET parts == Split(value, ";")
  IN CASE d.type = "string" -> value # None
       [] d.type = "int"    -> Len(value) = 1 /\ IsInt(value[1])
       [] d.type = "bool"   -> value \in {<<"true">>, <<"false">>, <<"True">>}
       [] d.type = "list"   -> \A p \in ToSet(parts) : p # None
       [] d.type = "dict"   -> \A p \in ToSet(parts) : Contains(p, "=")

ValidateParams(w, params) ==
  \A key \in DOMAIN params :
    /\ Find(w.schema, key) # 0
    /\ ParamDefValidate(w.schema[Find(w.schema, key)], params[key])

GetParam(w, params, key) ==
  IF key \in DOMAIN params /\ params[key] # None THEN params[key]
  ELSE w.schema[Find(w.schema, key)].default

\* A hole for a parameter: %s in a built-in unit, {{key}} in a catalog file.
Hole(key) == <<"{{">> \o key \o <<"}}">>

\* strings.ReplaceAll(content, "{{key}}", value)
ReplaceHole(content, key, value) ==
  LET hole == Hole(key)
      rest[i \in 1..(Len(content) + Len(hole))] ==
        IF i > Len(content) THEN None
        ELSE IF i + Len(hole) - 1 <= Len(content) /\ SubSeq(content, i, i + Len(hole) - 1) = hole
        THEN value \o rest[i + Len(hole)]
        ELSE <<content[i]>> \o rest[i + 1]
  IN rest[1]

\* The keys of the holes in a text (placeholderRe).
Holes(content) ==
  {<<content[i + 1]>> : i \in {j \in 1..(Len(content) - 2) :
                                 content[j] = "{{" /\ content[j + 2] = "}}"}}

-----------------------------------------------------------------------------
\* catalog.go.  A directory: whether workload.yaml parses, the manifest (an
\* absent workload.yaml is the empty one), and the .service files by base name.
NoManifest == [params |-> <<>>, roles |-> <<>>, storage |-> <<>>, service |-> {}]

reservedDiskNames == {<<"containerdisk">>, <<"cloudinitdisk">>, <<"datadisk">>}

StorageOK(s) ==
  /\ s.name # None /\ s.name \notin reservedDiskNames
  /\ s.size \in Quantity
  /\ s.serial # "" /\ s.serial \notin LongText
  /\ s.mount # None /\ s.mount[1] = "/"

PortOK(p) == p.port \in 1..65535 /\ p.protocol \in {"", "tcp", "TCP", "udp", "UDP"}

\* Mutant: sizes are not checked.
validateNoSize(m) ==
  /\ \A i \in DOMAIN m.storage : m.storage[i].name # None
  /\ \A sd \in m.service : sd.ports # {} /\ \A p \in sd.ports : PortOK(p)

validateManifest(m) ==
  /\ \A i \in DOMAIN m.storage : StorageOK(m.storage[i])
  /\ \A i, j \in DOMAIN m.storage : m.storage[i].name = m.storage[j].name => i = j
  /\ \A sd \in m.service : sd.ports # {} /\ \A p \in sd.ports : PortOK(p)

IsMultiRole(m) == Len(m.roles) > 1

\* LoadCatalogEntry succeeds.
Loads(catalog, name) ==
  /\ name \in DOMAIN catalog
  /\ LET dir == catalog[name]
     IN /\ dir.parses /\ validateManifest(dir.manifest)
        /\ DOMAIN dir.files # {}
        /\ IsMultiRole(dir.manifest) =>
             \A i \in DOMAIN dir.manifest.roles : dir.manifest.roles[i].role \in DOMAIN dir.files

\* Placeholders that no parameter declares, in any file of the entry.
Undeclared(dir) ==
  {key \in UNION {Holes(dir.files[f]) : f \in DOMAIN dir.files} :
     Find(dir.manifest.params, key) = 0}

\* What "virtwork validate" says of an entry.
ValidatesOK(catalog, name) == Loads(catalog, name) /\ Undeclared(catalog[name]) = {}

buildCatalogServiceSpec(name, sd) ==
  [name |-> Prefix(name),
   selector |-> IF sd.selectorRole = None THEN Entry("app", Prefix(name))
                ELSE Entry("role", sd.selectorRole)]

\* Each storage definition becomes a disk, a volume and a template of its name.
Storage(m) ==
  [i \in DOMAIN m.storage |->
     LET s == m.storage[i]
     IN [name |-> s.name, dv |-> s.name, serial |-> s.serial, mount |-> s.mount, size |-> s.size]]
ServiceSpec(name, m) == {buildCatalogServiceSpec(name, sd) : sd \in m.service}

\* Every .service file of the entry on every VM.
GenericWorkload(name, dir) ==
  [schema |-> dir.manifest.params, builtIn |-> FALSE, multi |-> FALSE,
   roles |-> <<[role |-> None, count |-> 0]>>, files |-> Entry(None, dir.files),
   storage |-> Storage(dir.manifest), service |-> ServiceSpec(name, dir.manifest), dials |-> Entry(None, {})]

\* The file named after the role on the VMs of the role.
GenericMultiWorkload(name, dir) ==
  LET roles == {dir.manifest.roles[i].role : i \in DOMAIN dir.manifest.roles}
  IN [schema |-> dir.manifest.params, builtIn |-> FALSE, multi |-> TRUE,
      roles |-> dir.manifest.roles, files |-> [r \in roles |-> Entry(r, dir.files[r])],
      storage |-> Storage(dir.manifest), service |-> ServiceSpec(name, dir.manifest),
      dials |-> [r \in roles |-> {}]]

Factory(name, dir) ==
  IF IsMultiRole(dir.manifest) THEN GenericMultiWorkload(name, dir) ELSE GenericWorkload(name, dir)

\* Mutant: only the parameters the user gave are substituted.
substituteGiven(w, params, content) ==
  FoldLeft(LAMBDA text, d : IF d.key \in DOMAIN params THEN ReplaceHole(text, d.key, params[d.key]) ELSE text,
           content, w.schema)

\* substituteParams: one parameter after the other, in schema order, each over
\* the result of the ones before.
substituteParams(w, params, content) ==
  FoldLeft(LAMBDA text, d : ReplaceHole(text, d.key, GetParam(w, params, d.key)),
           content, w.schema)
=============================================================================
