SPECIFICATION FairSession
CONSTANTS
  a = a
  b = b
  r1 = r1
  r2 = r2
  r3 = r3
  c1 = c1
  c2 = c2
  NoRun = NoRun
  Runs = {r1}
  Cleanups = {c1}
  Workloads = {a}
  VMCount <- One
  Faults = {"fatal", "lost", "delete", "list", "connect"}
  NoAudit = {}
  MayStop = {c1}
  MayDie = {r1, c1}
  DBMayFail = FALSE
  MaxReq = 1
  MaxVMs = 1
  MaxRetries = 0
  SecretLimit = 1
  RunConfigs <- RunA
  CleanupConfigs <- AnyCleanup
  NeedsService = {a}
  Disabled = {}
  BadParams = {}
  BadUserdata = {}
  BadSpec = {}
  TooLarge = {}
INVARIANTS
  TypeOK
  CleanupLeavesNothing
  UnconfirmedDeletesNothing
  DeletedRowIsTrue
  RemovedRowsAreClosed
  CleanupLedgerIsTrue
PROPERTIES
  CleanupTerminates
CHECK_DEADLOCK FALSE
