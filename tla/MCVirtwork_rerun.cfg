SPECIFICATION Session
CONSTANTS
  a = a
  b = b
  r1 = r1
  r2 = r2
  r3 = r3
  c1 = c1
  c2 = c2
  NoRun = NoRun
  Runs = {r1, r2, r3}
  Cleanups = {c1, c2}
  Workloads = {a}
  VMCount <- One
  Faults = {"delete"}
  NoAudit = {r3, c2}
  MayStop = {}
  MayDie = {r1, c1}
  DBMayFail = FALSE
  MaxReq = 1
  MaxVMs = 1
  MaxRetries = 0
  SecretLimit = 1
  RunConfigs <- RunA
  CleanupConfigs <- AllOrR1
  NeedsService = {}
  Disabled = {}
  BadParams = {}
  BadUserdata = {}
  BadSpec = {}
  TooLarge = {}
INVARIANTS
  CleanupLeavesNothing
  CleanupScoped
  DeletedRowIsTrue
  RemovedRowsAreClosed
  CleanupLedgerIsTrue
CHECK_DEADLOCK FALSE
