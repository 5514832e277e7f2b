------------------------------- MODULE Config -------------------------------
(***************************************************************************)
(* internal/config: how LoadConfig assembles the configuration of a        *)
(* command from flags, VIRTWORK_* variables, the YAML file and defaults.   *)
(*                                                                         *)
(* An invocation is a record.  Settings are partial functions: the domain  *)
(* is what was given.  Text that the code takes apart (lists, parameters,  *)
(* workload names) is a sequence of tokens; the tokens ",", ".", "=", ";"  *)
(* and " " are separators, and the tokens of a name are its dash-separated *)
(* words.                                                                  *)
(***************************************************************************)
EXTENDS Integers, Sequences, SequencesExt, Functions, TLC

CONSTANTS
  Quantity,   \* texts resource.ParseQuantity accepts
  MaxNumber   \* bound on the numbers that occur

None == <<>>   \* no tokens; also the empty partial function

\* Partial functions: one entry, the entries of a set of pairs, and f ++ g,
\* where f's entries hide those of g.
Entry(k, v) == [x \in {k} |-> v]
Table(pairs) == [x \in {p[1] : p \in pairs} |-> (CHOOSE p \in pairs : p[1] = x)[2]]
f ++ g == [x \in DOMAIN f \cup DOMAIN g |-> IF x \in DOMAIN f THEN f[x] ELSE g[x]]

\* The numbers that occur, -1 for every negative one, and their decimal texts.
Number == (-1)..MaxNumber
Numeral(n) == ToString(n)

\* The texts of different numbers are different.
ASSUME NumeralsDiffer ==
  /\ MaxNumber \in Nat
  /\ \A m \in Number : Numeral(m) \in STRING /\ \A n \in Number : Numeral(m) = Numeral(n) => m = n
ASSUME TenOccurs == 10 \in Number /\ Numeral(10) = "10"

-----------------------------------------------------------------------------
\* viper's typed getters: a text that does not parse is the zero value.
Numerals == {Numeral(n) : n \in Number}
Atoi == [x \in Numerals |-> CHOOSE n \in Number : Numeral(n) = x]
IsInt(x) == x \in Numerals
GetInt(x) == IF IsInt(x) THEN Atoi[x] ELSE 0
GetBool(x) == x \in {"true", "1"}

\* strings.Split, strings.Fields and strings.Cut.
Split(s, sep) ==
  FoldLeft(LAMBDA parts, t : IF t = sep THEN Append(parts, None)
                             ELSE [parts EXCEPT ![Len(parts)] = Append(@, t)],
           <<None>>, s)
NonEmpty(parts) == SelectSeq(parts, LAMBDA p : p # None)
Fields(s) == NonEmpty(Split(s, " "))
Cut(s, sep) ==
  LET i == SelectInSeq(s, LAMBDA t : t = sep)
  IN IF i = 0 THEN [found |-> FALSE, before |-> s, after |-> None]
     ELSE [found |-> TRUE, before |-> SubSeq(s, 1, i - 1), after |-> SubSeq(s, i + 1, Len(s))]

-----------------------------------------------------------------------------
SetDefaults ==
  Table({<<"namespace", "virtwork">>, <<"container-disk-image", "fedora">>, <<"disk-size", "10Gi">>,
         <<"cpu-cores", "2">>, <<"memory", "2Gi">>, <<"wait-for-ready", "true">>, <<"timeout", "600">>,
         <<"dry-run", "false">>, <<"ssh-user", "virtwork">>, <<"ssh-password", "">>,
         <<"kubeconfig", "">>, <<"audit", "true">>, <<"audit-db", "virtwork.db">>,
         <<"vm-concurrency", "10">>, <<"catalog-dir", "">>})

\* Mutant: the memory flag is not bound.
BoundButMemory ==
  {"namespace", "kubeconfig", "container-disk-image", "disk-size", "ssh-user", "ssh-password",
   "cpu-cores", "timeout", "dry-run", "vm-concurrency", "catalog-dir"}

\* The flags LoadConfig copies into viper when they were given.  "audit" and
\* "audit-db" are not among them.
BoundFlags ==
  {"namespace", "kubeconfig", "container-disk-image", "disk-size", "memory", "ssh-user",
   "ssh-password", "cpu-cores", "timeout", "dry-run", "vm-concurrency", "catalog-dir"}

Overrides(in) ==
  RestrictDomain(in.flag, LAMBDA k : k \in BoundFlags) ++
  (IF "no-wait" \in DOMAIN in.flag
   THEN Entry("wait-for-ready", IF GetBool(in.flag["no-wait"]) THEN "false" ELSE "true")
   ELSE None)

\* AutomaticEnv: an empty variable counts as unset.
SetEnv(in) == RestrictValues(in.env, LAMBDA x : x # "")

\* v.GetString: flags > environment > file > defaults.
Get(in, k) == (Overrides(in) ++ SetEnv(in) ++ in.file ++ SetDefaults)[k]

ListOr(f, k, default) == IF k \in DOMAIN f THEN f[k] ELSE default

-----------------------------------------------------------------------------
\* cfg.FromCatalog: the flag is a comma-separated list; a variable goes through
\* v.GetStringSlice, which splits at blanks only.
FromCatalog(in) ==
  IF "from-catalog" \in DOMAIN in.flagList THEN in.flagList["from-catalog"]
  ELSE IF ListOr(in.envList, "from-catalog", None) # None
  THEN Fields(in.envList["from-catalog"])
  ELSE ListOr(in.fileList, "from-catalog", <<>>)

Unreadable == <<"unreadable">>

\* Flags and key files, else the variable, else YAML.  The last resort asks
\* viper, which sees the same variable first.
resolveSSHKeys(in) ==
  LET cli == ListOr(in.flagList, "ssh-key", <<>>) \o NonEmpty(ListOr(in.flagList, "ssh-key-file", <<>>))
      env == ListOr(in.envList, "ssh-authorized-keys", None)
      parts == NonEmpty(Split(env, ","))
  IN IF cli # <<>> THEN cli
     ELSE IF parts # <<>> THEN parts
     ELSE IF env # None THEN Fields(env)
     ELSE ListOr(in.fileList, "ssh-authorized-keys", <<>>)

resolveRawParams(in) ==
  IF "params" \in DOMAIN in.flagList THEN in.flagList["params"]
  ELSE ListOr(in.envList, "params", None)

\* ParseParams: workload.key=value pairs.
Pairs(raw) == NonEmpty(Split(raw, ","))
Pair(p) ==
  LET d == Cut(p, ".")
      e == Cut(d.after, "=")
  IN [ok |-> d.found /\ d.before # None /\ e.found /\ e.before # None,
      workload |-> d.before, key |-> e.before, value |-> e.after]
ParamsParse(raw) == \A p \in ToSet(Pairs(raw)) : Pair(p).ok

\* A workloads.<name> section of the file.
NoSection == [enabled |-> {}, vmCount |-> 0, cpuCores |-> 0, memory |-> "", params |-> None]
Section(sections, name) == IF name \in DOMAIN sections THEN sections[name] ELSE NoSection

\* The parameters by workload and key, pair by pair: the last one of a key wins.
ParseParams(raw) ==
  FoldLeft(LAMBDA acc, p :
             LET q == Pair(p)
             IN Entry(q.workload, Entry(q.key, q.value) ++ ListOr(acc, q.workload, None)) ++ acc,
           None, Pairs(raw))

\* Mutant: the file's parameters win over --params.
MergeUnder(sections, raw) ==
  LET parsed == ParseParams(raw)
  IN [n \in DOMAIN parsed \cup DOMAIN sections |->
        [Section(sections, n) EXCEPT !.params = @ ++ ListOr(parsed, n, None)]]

\* maps.Copy of every workload's parameters over those of its section.
MergeParams(sections, raw) ==
  LET parsed == ParseParams(raw)
  IN [n \in DOMAIN parsed \cup DOMAIN sections |->
        [Section(sections, n) EXCEPT !.params = ListOr(parsed, n, None) ++ @]]

-----------------------------------------------------------------------------
\* The Config structure.
Assemble(in) ==
  [namespace |-> Get(in, "namespace"), image |-> Get(in, "container-disk-image"),
   diskSize |-> Get(in, "disk-size"), cpuCores |-> GetInt(Get(in, "cpu-cores")),
   memory |-> Get(in, "memory"), wait |-> GetBool(Get(in, "wait-for-ready")),
   timeout |-> GetInt(Get(in, "timeout")), dryRun |-> GetBool(Get(in, "dry-run")),
   sshUser |-> Get(in, "ssh-user"), sshPassword |-> Get(in, "ssh-password"),
   sshKeys |-> resolveSSHKeys(in), kubeconfig |-> Get(in, "kubeconfig"),
   audit |-> GetBool(Get(in, "audit")), auditDB |-> Get(in, "audit-db"),
   limit |-> GetInt(Get(in, "vm-concurrency")),
   catalogDir |-> IF Get(in, "catalog-dir") = "" THEN "home" ELSE Get(in, "catalog-dir"),
   fromCatalog |-> FromCatalog(in),
   sections |-> MergeParams(in.sections, resolveRawParams(in))]

Validate(c) ==
  /\ c.namespace # "" /\ c.cpuCores >= 1
  /\ c.memory \in Quantity /\ c.diskSize \in Quantity
  /\ c.wait => c.timeout >= 1

\* LoadConfig returns an error.
LoadFails(in) ==
  \/ ~in.fileReads
  \/ Get(in, "catalog-dir") = "" /\ ~in.home
  \/ Contains(ListOr(in.flagList, "ssh-key-file", <<>>), Unreadable)
  \/ "workloads" \in DOMAIN SetEnv(in)
  \/ ~ParamsParse(resolveRawParams(in))
  \/ ~Validate(Assemble(in))
=============================================================================
