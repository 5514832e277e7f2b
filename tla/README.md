# Virtwork in TLA+

virtwork is a command-line tool that deploys VM workloads on an OpenShift /
KubeVirt cluster (`virtwork run`), removes them again (`virtwork cleanup`) and
keeps a ledger of both in a local SQLite database. This directory holds TLA+
models of the parts of it that carry state, TLC configurations that check them
on small instances, and theorems that TLAPS proves for every instance.

Paths are relative to the repository root.

## 1. Inventory

| Part | State it keeps | Operations | Interacts with |
|---|---|---|---|
| run command (`cmd/virtwork/main.go` runE, `internal/orchestrator/orchestrator.go`) | plan, workload row ids, two goroutine pools, readiness results | plan, ensure namespace, create services / secrets / VMs, wait, mark rows, complete | API server, audit database |
| VM creation (`internal/vm`) | attempt counter | create with retry | API server |
| readiness (`internal/wait`) | results map | one poller per VM | API server |
| resources (`internal/resources`) | none | namespace, service, secret; AlreadyExists is success | API server |
| cleanup command (`main.go` cleanupE, `internal/orchestrator/cleanup.go`, `internal/cleanup`) | preview, current list, run-ids, deleted names, errors | preview, prompt, list and delete five kinds, delete namespace, link, mark, count | API server, audit database |
| audit database (`internal/audit/audit.go`, `schema.go`) | audit_log, workload_details, vm_details, resource_details, events | one SQL statement per method | every process on the machine |
| schema migration (`internal/audit/migrate.go`) | schema_version, the tables | count, insert, read, one transaction per migration | every process that starts |
| Kubernetes / KubeVirt (external) | objects with labels, namespace | create, delete, list, get; boot, finalizers | every process |
| configuration (`internal/config`) | the Config of one invocation | merge flags, variables, file, defaults; parameters; validate | run and cleanup commands |
| catalog (`internal/workloads/catalog.go`, `generic*.go`) | entries on disk | load, validate, substitute parameters | registry, `virtwork validate` |
| registry and built-in workloads (`internal/workloads`) | the registry of one run | look up, check parameters, describe VMs, disks, Service, userdata | planning |
| planning (`planVMs`, `NamespaceDataVolumes`, `BuildVMSpec`, `internal/cloudinit`) | plan, workload instances | name, count, label, wire storage | configuration, registry, catalog |
| logging, constants, test utilities | none | | |

There is no state file: what belongs to a run is what carries its
`virtwork/run-id` label. Objects are named after workloads, so two runs of the
same workload share names, and AlreadyExists is taken for success. A process
may be interrupted (the signal cancels the context that every API call *and
every SQL statement* runs under) or killed at any point.

What is hard here, and what makes each part correct:

* **run**: the pools are cancelled by the first error while siblings are in any
  stage; answers get lost; VMs must not be created before the secrets are all
  there; "success", the workload rows, the events and the cluster must agree;
  everything must end.
* **cleanup**: it must find what any half-finished run left, delete nothing
  outside its scope or without consent, and write a true ledger although lists
  are stale and deletes fail one by one.
* **database**: rows of several processes, updates by name times run-id,
  statements that are skipped when the context is cancelled.
* **migration**: check-then-act in separate statements by several processes.
* **configuration to plan**: a value passes through six representations and four
  sources of different strength before it reaches a VM; names are joined from
  parts nobody compares; what `validate` accepts and what `run` needs are
  checked in different places.

`PROJECT.json` lists these hazards at their lines with the properties that
would catch each.

## 2. Modules

| Module | Models | Notes |
|---|---|---|
| `ClusterAPI` | the API server, external | `st[o]` life cycle, `owner[o]` run-id label, `ns`; results and errors the code tells apart |
| `AuditDB` | `SQLiteAuditor`, `NoOpAuditor` | one operator per SQL statement; `ctx[p]` decides whether it runs |
| `RunOrchestrator` | runE, Run, retry, readiness | one process per run, one goroutine per plan entry and pool |
| `CleanupOrchestrator` | cleanupE, Preview, Execute, CleanupAll | one process per cleanup |
| `Virtwork` | both over one cluster and database | `Spec` interleaves freely, `Overlap` lets two commands at a time do so, `Session` runs one after the other |
| `Migrate` | NewSQLiteAuditor, migrateDB | on its own: it is what justifies `AuditDB` starting from a complete schema |
| `DeploySpec` | what `virtwork run` promises | abstract: objects in the order Services, Secrets, VMs; verdicts; no goroutines, retries or audit |
| `Refinement` | `RunOrchestrator` as an implementation of it | `D == INSTANCE DeploySpec WITH ...` |
| `Config` | `internal/config` | LoadConfig as operators over an invocation record |
| `Catalog` | params.go, catalog.go, generic.go, generic_multi.go | directories to Workload records |
| `BuiltIns` | the nine workloads and DefaultRegistry | Workload records |
| `Planner` | one invocation of run, cleanup or validate up to the objects it asks for | LoadConfig, SelectNames, initAuditor, LoadEntry, EntriesLoaded, SkipWorkload, PlanWorkload, PlanRole, WorkloadPlanned, BuildVMSpecs, Validated |
| `MCRun`, `MCVirtwork`, `MCPlanner` | instances for TLC | constants only |
| `RunOrchestratorProofs` | type correctness of runs | theorems; see section 4 for all of these |
| `DeploymentProofs` | the secret barrier and the success verdict | extends `RunOrchestratorProofs` |
| `RefinementProofs` | the step simulation of `Refinement` | extends `DeploymentProofs` |
| `LedgerProofs` | what a run writes about itself is true | extends `DeploymentProofs` |
| `VirtworkProofs` | runs and cleanups in free interleaving | extends `RunOrchestratorProofs` |
| `SessionProofs` | what a cleanup removes and writes, one command at a time | extends `LedgerProofs` and `VirtworkProofs` |
| `MigrateProofs` | schema migration | |
| `PlannerProofs` | what an invocation plans | theorems of `Planner` |

How state and actions correspond to the code:

* `pc[r]` is the call a run is in. `SerialStep` holds the statements of the main
  goroutine, `GoroutineStep` those of the errgroups. `job[r][s]` is the state of
  the goroutine of plan entry `s = <<k, i>>` (i-th VM of the k-th requested
  workload; a workload named twice is planned twice, as planVMs does).
  `Launch` is `g.Go` with its limit, `Cut` the group's derived context,
  `AuditInGroup` the fact that the goroutines audit under the *outer* context.
  `SendX` / `XReply` split a request so that cancellation can fall in between.
  `AfterReply` and `Backoff` are retryOnTransient, `Poll` is WaitForVMReady by
  its ways of returning.
* Range loops over Go maps (`todo`) are taken in any order, as Go does.
* `cpc[c]` is the call a cleanup is in, `kind[c]` the list it has reached,
  `items[c]` the listed copies with the label they had *then*, `runIDs`,
  `deleted` and `errors` the fields of CleanupResult. `hits` is a history
  variable: the objects that c's Delete requests were applied to, with the label
  they had at that moment. No action reads it.
* A row's columns are reduced to its status. `rows[r][o]` is the set of statuses
  among r's rows for object o (duplicates of a row are indistinguishable to
  every statement of the code). Events are kept as a set of type and subject.
* `RunLabel` is the UUID of StartExecution, or the empty label under
  `--no-audit`.
* `BadParams`, `BadUserdata`, `BadSpec`, `TooLarge` and `Disabled` choose which
  workloads take the error or skip paths of planVMs, BuildVMSpec and
  CreateCloudInitSecret. A catalog entry that cannot be loaded fails a run before
  the first row, as a workload in `BadParams` in first place does; `Planner` has
  the loading itself.
* `Migrate`: `lock` is SQLite's single writer; a migration, its UPDATE and Commit
  are one atomic change of the file; a count is not protected by anything.

* `Planner`: `in` is the command line, environment and file; `stage` the statement
  of runE, Run or validateE it has reached; `left` the rest of the loop over
  entries or names, `roles` the rest of the loop over the roles of one workload;
  `plans` the VMPlans with the VirtualMachine made of each. An error ends the
  invocation, `failedAt` says where. Each turn of the loops of Run and planVMs,
  that over roles included, is an action. Go maps are partial functions: `Entry`
  is one entry, `Table` those of a set of pairs, `f ++ g` the map g written over
  by f.
* Text is reduced to what the code takes apart. Names, those of disks
  included, are sequences of their dash-separated words, because names are joined with dashes and may collide;
  parameter lists, lists of keys and unit files are sequences of tokens, because
  they are split, cut and substituted. Everything else is an opaque text, of
  which the model knows whether it is empty, a number, a boolean or a quantity.
  A text that is not what a viper getter wants is the zero value.
* A Workload is a record: schema, roles, files per role with holes for the
  parameters, storage, Service, and the Services its clients dial. Scripts and
  units are reduced to their holes; `Sprintf` fills them once, as fmt.Sprintf
  does, and `substituteParams` one parameter after the other, as
  strings.ReplaceAll in a loop does.
* `Planner` and `RunOrchestrator` meet at the plan: `Planner` says which VMs,
  Secrets and Services there are, `RunOrchestrator` (for any workloads and
  counts) what happens to them. `BadParams`, `BadUserdata`, `BadSpec` and
  `Disabled` are the outcomes of `PlanWorkload`, `PlanRole`, `BuildVMSpecs` and
  `SkipWorkload`.

**Refinement.** `phaseOf` reads idle, busy, the verdict or dead off `pc` and
`outcome`; the abstract objects are those that exist. The mapping is a step
simulation: planning, recording, polling and waiting are stuttering steps, an
applied create is PutService, PutSecret or PutVM, whether or not its answer
arrives. PutService may end the run in the same step, because a Service whose
creation is answered with an error can exist all the same. `DeploySpec` has no
removal: the refinement is claimed, and checked, for runs without a cleanup
beside them.

Simplifications: DataVolumes and PVCs are kinds a cleanup lists and marks but
virtwork itself creates none, so they hold no objects. CleanupAll's dry-run
delete option is left out: cleanupE returns before Execute in a dry run. Two
audit statements that follow each other with no shared state in between
(RecordResource and its event, RecordCleanupCounts and its event) are one step
with independent outcomes. A signal in the flight of a namespace or service
request is the same as one right after it: the following steps fail alike and
nothing has been recorded.

## 3. What the runs check

Passing runs:

| Run | Instance | Shows |
|---|---|---|
| `run_any` | one run; eight workloads that cover every planning and building error, a service, two VMs of one workload, a duplicated name, dry run; pool of 1 or unlimited; faults transient, fatal, lost, connect; signal and kill; `MaxRetries = 1` | `VMHasSecret`, `SuccessMeansDeployed`, `CreatedRowIsTrue`, `RowsAgree`, `EveryVMHasVerdict`, `EveryVMIsAccounted`, with fairness `RunTerminates`, `RunRowCompleted`, and `Implements` (DeploySpec) |
| `run_pair` | two runs over the same names at once, fatal errors, signals and kills | the same barriers and verdicts when objects are adopted, and `Implements` |
| `session` | a run, then a cleanup with any flags; fatal, lost, list, delete and connection faults; kills and a signal | `CleanupLeavesNothing`, `UnconfirmedDeletesNothing`, `DeletedRowIsTrue`, `RemovedRowsAreClosed`, `CleanupLedgerIsTrue`, `CleanupTerminates` |
| `rerun` | three runs and two cleanups over the same names, one of each with `--no-audit`, one after the other in any order, kills, failing deletes | scope (`CleanupScoped`), leftovers and ledger when labels and names disagree or labels are empty |
| `race` | two runs and two cleanups, one with `--run-id`, one of everything that also deletes the namespace and asks first; any two commands at a time, every step interleaved (`Overlap`) | `ScopedUnlessReplaced`: a Delete from a stale list hits another run's object only after another cleanup may have removed the listed one; `UnconfirmedDeletesNothing`, whatever appears after the preview |
| `migrate` | three openers, failures and kills, one migration as in the source | `SchemaBeforeUse`, `RecordedVersionIsTrue`, `VersionNeverFallsBack` |
| `launch` | 1327 invocations of run, cleanup and validate | see below |

`launch` starts from families of invocations: each setting in every combination
of flag, variable, file and default, with blank and meaningless texts; SSH keys;
built-in names, catalog entries and both, from flag, variable and file, with
names asked for twice, unknown names and names that begin with one another;
counts of zero, below zero and above one in flag, section and manifest; disabled
workloads; parameters well formed and not, given twice and in two places;
catalog entries that break each rule of validateManifest, lack files or leave
placeholders undeclared; unreadable files and databases. It shows

* `NamesDistinct`: exactly which requests can make two VMs or two Services of
  one name (the second is then silently not deployed);
* `StorageWired`: each disk of a VM has its own name and the volume of that name,
  data volumes come from templates of the VM that mounts them, and VMs of
  different names share no template, unless a disk has the word `virtwork` after
  the first word of its name (a template is named disk name, then VM name, and VM
  names begin with `virtwork`);
* `UserValueReachesUserdata`: the value a user meant is in the unit, in its place
  (not stated of tps, whose units hold sizes computed from the parameter, nor of
  values that are placeholders themselves);
* `ValidatedEntryDeploys`: a run of entries that `virtwork validate` accepts does
  not fail at loading, planning or building, unless the image is empty, which
  nothing checks before BuildVMSpec;
* `NoPlaceholderLeft`: the units of such a run hold no placeholder;
* `ClientsReachTheirServer`: the name and the namespace a client dials are those of
  a Service of its own workload, which selects every server of the workload and no
  client of any; and no other Service has that name there, unless an entry is
  named like a built-in Service. In the code the Service's name and the dialled
  one are two literals, its namespace comes from the registry and the dialled one
  from UserdataForRole;
* `AskedIsPlanned`: the plan has exactly the VMs that the roles of the workloads
  asked for call for, numbered from 0;
* `PlannedAsOften`: a workload asked for more than once is planned as often;
* `SettingsReachVMs`: the strongest source of each setting reaches every VM. That
  a VM has an account whenever the user's name is not empty is part of it, and is
  at odds with the documentation, see below.

The references in these properties (`Intended`, `Filled`, `FirstPositive`,
`Said`) are stated over the invocation and do not use the operators of `Config`
that assemble the configuration.

Every property has a mutant (operators marked "Mutant" beside the definition
they replace): a plausible slip in the mapped code that TLC finds through that
property.

Runs that TLC refutes, where a document says more than the code does:

| Run | Property | Counterexample |
|---|---|---|
| `signal` | `InterruptedRowCompleted` | a signal; CompleteExecution runs under the cancelled context; the row stays `in_progress` although `auditStatus` computed `cancelled` |
| `untouched` | `OtherRunsUntouched` | r1 is killed after its Secret; r2 adopts it and deploys; `cleanup --run-id r1` deletes the Secret of r2's live VM |
| `terminating` | `SafeToRerun` | run, cleanup, run: the second run meets the terminating VM, takes AlreadyExists for success |
| `stale` | `OnlyMatchingDeleted` | `cleanup --run-id r1` has listed a Secret; a full cleanup deletes it, r2 creates it again, and the Delete by name hits the Secret of r2 |
| `crosstalk` | `ServiceSelectsOwnVMs` | `virtwork run`: the Service of `network` selects on the role alone and so also selects the server VM of `tps` |

More gaps between documents and code. They have no run of their own: each is plain
from the definition named, and where a passing property comes near it, it says so.

* A prompt that cannot be read: cleanupE returns while the `err` its deferred function
  looks at is nil, and the row stays `in_progress` (`Prompt`, outcome "unread").
  `docs/audit-schema.md`:98 says "`success` or `failed` on completion".
  `CleanupTerminates` exempts this return and no other.
* `--workloads cpu,cpu` makes two rows and keeps the id of the last; the first stays
  `pending` under `success`. `docs/audit-schema.md`:140 says `created` "after all VMs
  succeed", and :126 "one row per workload-type per execution". `RowsAgree` says
  exactly which rows are left so.
* linked_run_ids names a run none of whose objects could be deleted, because the
  label is collected before Delete is tried (`DeleteItem`). `docs/audit-schema.md`:261
  says "present on the deleted resources".
* A list that fails after some deletes makes Execute return before it marks or counts
  them (`List`), and no later cleanup can: the objects are no longer listed.
  `docs/audit-schema.md`:261 says "deleted, counted". `RemovedRowsAreClosed` and
  `CleanupLedgerIsTrue` speak of sweeps that finished.
* `virtwork run` without any SSH flag makes an account in every VM: BuildCloudConfig
  asks for a user name only, and that has a default, `virtwork` (`SetDefaults`,
  `BuildCloudConfig`). README.md:270 and `docs/development.md`:1182 say "no user
  account" then, `docs/configuration.md`:53 "only created when at least one SSH
  credential is provided". `SettingsReachVMs` states what the code does.
* `--audit` is declared and never read (`BoundFlags`, `initAuditor`): `--audit=false`
  keeps the audit trail. `docs/configuration.md`:15 says "whatever you type wins", and
  :36 that the boolean "follows the standard chain".
* `VIRTWORK_FROM_CATALOG=good,bare` is one unknown entry, because GetStringSlice splits
  a variable at blanks (`FromCatalog`). `docs/configuration.md`:60 says
  "comma-separated" and :100 "string (csv)".
* `docs/configuration.md` writes file keys with underscores (`dry_run`); LoadConfig
  asks viper for `dry-run`, and the replacer applies to variables only.
* `docs/configuration.md`:327 says that the file "overrides env and defaults"; with
  viper the environment wins over the file (`Get`), as line 158 of config.go and
  the priority chain at the top of that document say. `SettingsReachVMs` follows
  these.
* `virtwork validate` does not look at `VIRTWORK_CATALOG_DIR`.
* `VIRTWORK_WORKLOADS` does not select workloads: viper takes it for the
  `workloads` section and LoadConfig fails (`LoadFails`).
* `VIRTWORK_SSH_AUTHORIZED_KEYS=","` has no key after splitting, and the fallback
  then reads the same variable as one key "," (`resolveSSHKeys`).
* The tps parameter `file-size` in K makes a file of 1 MiB on the server while the
  client computes with the size asked for (`fileSizeMBCount`, `fileSizeBytes`).
* A variable that does not parse is the zero value, without a word:
  `VIRTWORK_DRY_RUN=yes` is a real run (`GetBool`). No document says otherwise.

Two more gaps the model shows, where nothing in the repository promises the
contrary: a cleanup that deletes a VM between its Create and its RecordVM leaves a
row that says `created`; and if RecordWorkload fails, the VMs of that workload get
no row, because their foreign key is 0.

**Bounds.** `MaxReq` (requested workloads, 1 or 2), `MaxVMs` (VMs per workload,
1 or 2), `MaxRetries` (1 or 0 instead of 5), `SecretLimit` (1 or 2 instead of
10), and the sets of runs and cleanups. Two goroutines are enough for one to be
cancelled by the other in each stage, and a pool limit of one below their
number makes the limit bind; one retry reaches both exits of the retry loop.
Two runs are the least that share names, and two cleanups the least that meet
each other's leftovers; the third run is the one without a label. `race` and
`stale` let two commands overlap at a time (`Overlap`), of four: the cleanup that
holds a stale list overlaps with each of the others in turn, which is all that
`OnlyMatchingDeleted` takes to fail; that nothing worse comes of three at once is
in the theorem. `race` has no faults and no kills, so that all interleavings fit;
its cleanups are interchangeable until they start, hence the symmetry (only
invariants are checked). `MaxNumber`
(600, the default timeout) bounds the numbers a text can denote, `Quantity`
and `LongText` list the texts with a property, and `Invocations` and `Catalogs`
are finite: an invocation is a single process without choices, so each is one
behaviour, and coverage is that of the families above. The theorems of section 4 do not depend on these bounds.

**Fairness.** `RunsFairness` and `Fairness` assume weak fairness of the steps of
each *started* process: that the Go scheduler runs it and that the API server
answers its requests or closes the connection. The second is an assumption on the
cluster, not a fact about the code: `cluster.go` sets no timeout on its client, so a
server that keeps a request open for ever holds up the command until a signal
cancels its context. At the prompt it is assumed that the user answers or the
input ends. Nothing else is
assumed: not of users starting commands, signals or kills, and a VM may never boot, because the poller's deadline passes. Polls that see nothing are not
steps, so a deadline that passes is the fair outcome.

**Deadlock** is not checked: commands end, and then nothing moves. That they do
end is `RunTerminates` and `CleanupTerminates`. The Planner runs do check it: an
invocation stops in "done" or "failed" (`Exited`) and nowhere else.

## 4. What is proved

`RunsSpec` is any number of runs, with any workloads, flags, limits, faults,
signals, kills, `--no-audit` and failing databases, and no cleanup at the same
time.

* `RunsTypeCorrect` (`RunOrchestratorProofs`): `RunsSpec => []RunTypeOK`. The
  type invariant is not inductive: a retry increments `tries`, and a pool's
  goroutine indexes the plan. `TypeInv` adds `JobsPlanned` (only plan entries have
  goroutines) and `RetriesLeft` (who is in backoff has an attempt left).
* `SecretBeforeVM` and `SuccessIsTrue` (`DeploymentProofs`):
  `RunsSpec => []VMHasSecret` and `RunsSpec => []SuccessMeansDeployed`. The
  invariant `DeployInv` follows a run through its phases: a secret job that is
  past its reply has its Secret (`SecretsSoFar`), after the barrier all plan
  entries have theirs (`SecretsJoined`); a VM job past its reply has its VM
  (`VMsSoFar`, `VMsJoined`); a poller that said ok saw its VM running
  (`PolledSoFar`, `PollsJoined`), a result map without failures means all are
  (`AllReady`, `ReadyIsTrue`), and the outcome follows (`OutcomeIsTrue`). It needs
  `NothingTerminates`: objects only come into being and boot while no cleanup is
  about, so what one run has seen no other run undoes. `DeployInv` was checked
  with TLC before it was proved.
* `RunsImplementDeploySpec` (`RefinementProofs`): `RunsSpec => Implements`. Every
  step of a run is a step of `DeploySpec` or a stutter under the mapping of
  `Refinement`. `SimInv` adds to `DeployInv` what the guards of the abstract steps
  ask for: a verdict is there exactly when Run has returned (`VerdictAtEnd`), a
  dry run never leaves its plan, and a run past its Services has them all, those
  it did not create itself included.
* `CreatedRowsAreTrue`, `RowsAgreeWithLog`, `EveryVMGetsVerdict`,
  `EveryVMOnRecord` (`LedgerProofs`): `RunsSpec => []P` for `CreatedRowIsTrue`,
  `RowsAgree`, `EveryVMHasVerdict`, `EveryVMIsAccounted`. `LedgerInv` is
  `DeployInv` with, for each run, `Rows` and `VMRecords`. `Rows` ties the
  workload rows to the statement that writes them: the map auditWorkloadIDs leads
  to a row of that workload, a row turns 'created' only in a loop entered after
  the VMs are known to be there, and no row of another run changes. `RowsAgree`
  speaks of every row: the map leads to the row of the last request of a name, so
  the earlier ones are never touched again and stay 'pending'. `VMRecords`
  follows the goroutine of a VM: one whose spec was built and that has ended left
  an event (`JobVerdict`), and a VM with the run's label has a goroutine that will
  still record it, a row, or a vm_failed event (`Accounted`). Neither property is
  inductive alone, because the event is written steps after the create, under a
  context that a sibling's error does not cancel.
* `TypeCorrect`, `UnconfirmedIsHarmless` (`VirtworkProofs`): for runs and cleanups
  in free interleaving, `Spec => []TypeOK` and
  `Spec => []UnconfirmedDeletesNothing` (the run `race` checks it with two commands
  at a time). `WholeInv` adds `KindReached` to
  `TypeInv`: the body of a loop over the kinds is entered for a kind there is.
  `ConsentInv` says that who has deleted is past a confirmed prompt, not in a dry
  run and had a preview with something in it; the preview is the cleanup's own
  copy, so nothing another process does can undo this.
* `ScopeIsKeptUnlessReplaced` (`VirtworkProofs`): `Spec => []ScopedUnlessReplaced`,
  for any number of runs and cleanups in free interleaving. A list is stale when
  its items are deleted, and deletion is by name; `stale` shows that this can go
  wrong. The theorem says what it takes: another cleanup whose Delete reached that
  name, or that deletes the namespace. `RivalInv` follows a listed object: it is
  still live under the label it had when listed, or it has a rival, a cleanup other
  than the one that listed it that may have removed it (`Listing`). Runs create
  absent objects only, so they cannot replace a live one; whatever is terminating,
  the namespace included, is so because of some cleanup (`Explained`), and that is
  not the one that still holds the object in its list, because a cleanup never
  lists a kind again and deletes the namespace last (`Behind`). Rivals stay rivals
  (`RemovedStays`). `RivalInv` was checked with TLC first.
* `SweepIsComplete`, `ScopeIsKept`, `DeletedRowsAreTrue`, `RemovedRowsClosed`,
  `CleanupLedger` (`SessionProofs`): `Session => []P` for `CleanupLeavesNothing`,
  `CleanupScoped`, `DeletedRowIsTrue`, `RemovedRowsAreClosed`,
  `CleanupLedgerIsTrue`. Any number of runs and cleanups over shared names, one
  after the other, each ended by success, error, signal or kill. `SessionInv`
  says of a cleanup under way that no run is alive and its list is still true
  (`Alone`, `ItemsFresh`), that kinds already swept hold nothing live in its scope
  unless there is an error to report (`Swept`), that what it removed is among
  `hits`, its run-ids collected (`HitsCollected`) and its names gone
  (`DeletedGone`), that the rows of kinds already marked are closed
  (`RowsClosed`), and that what it has written of itself agrees with `hits`
  (`SelfRecord`). `LabelsStarted` and `DeletedRows` keep earlier results true: a
  label is that of a run that has started, a row says 'deleted' only when its run
  has ended, and a run starts once; so a run that follows puts its own label on
  what it creates and brings nothing back under an old one.
  `SessionInv` was checked with TLC on the `session` and `rerun` instances.

  The proof made two properties more precise. `RemovedRowsAreClosed` and the
  second part of `CleanupLedgerIsTrue` had been stated for every cleanup; they
  fail for `cleanup --no-audit`, which by design writes nothing. They now speak
  of audited cleanups, and `rerun` has one cleanup of each sort.
* `SchemaIsComplete`, `VersionsAreTrue`, `MigrateTypeCorrect` (`MigrateProofs`):
  for any number of openers and any number of migrations. `KnownApplied` is the
  strengthening: the loop index of an opener came from a row, rows never run ahead
  of the committed migrations, and migrations are never taken back; so a stale
  index is safe.
* `VersionMonotone` (`MigrateProofs`): `MigrateSpec => VersionNeverFallsBack`, an
  action property, under the assumption `Last = 1`, which is the length of the
  list `migrations` in the source. With two it would not hold: a slow opener would
  commit version 1 over version 2 (the tables would still be complete).

* `ValidatedEntriesDeploy`, `PlansWhatIsAsked`, `ClientsFindServers`,
  `SettingsArrive`, `NamesDoNotClash`, `StorageIsWired` (`PlannerProofs`):
  `PlannerSpec => []P` for `ValidatedEntryDeploys`, `AskedIsPlanned`,
  `ClientsReachTheirServer`, `SettingsReachVMs`, `NamesDistinct`, `StorageWired`;
  for every command line, environment, file and catalog, of any number of names,
  sections, roles and disks.

  `PlanInv` has three layers. Where the command is: `Staged` (nothing is planned
  before its stage), `Configured` (the configuration is what LoadConfig assembles
  from this invocation, and it did not fail), `Registered` and `Loading` (the
  registry holds the built-in workloads and the entries the loop has passed, each
  as its factory makes it), `Visiting` (the loops meet registered workloads only,
  and what is left of a loop is the rest of what it runs over). What is there:
  `Made` (each plan is the VM of a number of a role of a workload that is on),
  `Answered` and `Covered` (workloads and roles that a loop has passed are
  planned in full). How plans relate: `Origin` (which turn of which loop a plan
  came from) and `Apart` (two plans of one workload with one name need two turns
  or two equal roles). `AskedIsPlanned` is `Made` one way and `Covered` the other
  at the end of the loops; `Apart` is not inductive without `Origin`, because a
  new plan has to be compared with those of earlier turns. `PlanInv` was checked
  with TLC on the `launch` instance first.

  The rest is about operators, and is where the content is. `SameVMName`: two VM
  names are equal only if the words of one workload's name begin the other's;
  `SameTemplateName`: two VMs of different names share a template name only if one
  disk's name has `virtwork` after its first word; `GetIsSaid`: viper's precedence is the
  first source that says something; `WorkloadOK` and the lemmas around it: every
  built-in workload and every entry that loads has disks with names of their own,
  at most one Service, named after it, and, if its clients dial a name, a Service of
  that name that selects its servers and only VMs with that role;
  `SameServiceName`: a Service of another workload has the name of a built-in one
  only if that workload is named like it.

  The proof made three properties more precise. VMs could share a template if a
  disk was named after a VM: `StorageWired` now says so (`HidesVMName`).
  `NamesDistinct` had excused clashes within a workload when any workload was asked
  for twice; now it must be that workload. `AskedIsPlanned` compared numbers and now says which
  VMs there are; the numbers are `PlannedAsOften`.

Assumptions are the named ASSUMEs on constants, which TLC evaluates in the runs:
`ClusterAssumption`, `AuditAssumption`, `RunAssumption`, `CleanupAssumption`,
`MigrateAssumption`; for planning `InvocationsTyped` and `CatalogsTyped` (what the
Go types of flags, sections and manifests say), `NumeralsDiffer` (different
numbers have different decimal texts), `TenOccurs` (10 is a number that occurs and
is written "10") and `WordsAreText` (the literals of the model are strings).

Not claimed: `DeletedRowIsTrue` in free interleaving. A run that names a workload
twice, or retries a create whose answer was lost, puts back what a cleanup beside it
has deleted and not yet marked. Theorem and runs are about sessions.

Only model-checked:

* `RunTerminates`, `RunRowCompleted`, `CleanupTerminates`: the prover does not
  handle fairness.
* `UserValueReachesUserdata`, `NoPlaceholderLeft`: what substitution, one parameter
  after the other, makes of a text; it is computed by recursion over the text and
  over the schema, and needs induction over data.
* `PlannedAsOften`: a sum over roles, computed by a fold.

## 5. Not modelled

* "Did you mean" suggestions (`closestMatch`, `levenshtein`): they word an error.
* The text of cloud-init documents, scripts and units beyond their holes, YAML
  printing, logging: text without state. Packages, ports and permissions are
  copied through and no property tells them apart.
* The syntax that pflag, viper and yaml accept; that viper lower-cases the keys
  of the file, so that the section of an entry with capitals is never found.
* `DeleteVM`, `ListVMs`, `DeleteManaged*`, `UpdateVMStatus`, `RecordVMDeletion`,
  `RecordResourceDeletion`: no caller in the commands.
* Time: deadlines and backoffs are choices, not durations.
* `internal/testutil`: support code of the test suites.

## 6. Plan

Done: cluster, database, run, cleanup, their composition, migration; the
abstract specification and the refinement; configuration, catalog, built-in
workloads and planning. Proved: type correctness of runs, cleanups, their
composition and the migration; every safety invariant of runs, of sessions and
of the migration; the refinement; the invariants of `Planner` but for the three
that need induction over data.

Next, in this order:

1. `DeletedRowIsTrue` in free interleaving, for a single cleanup and runs that name
   each workload once and never retry a create that was applied.
2. Instances with `DBMayFail`.
3. What a run may do whose namespace a cleanup deletes under it.
