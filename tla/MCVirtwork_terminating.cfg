SPECIFICATION Session
CONSTANTS
  a = a
  b = b
  r1 = r1
  r2 = r2
  r3 = r3
  c1 = c1
  c2 = c2
  NoRun = NoRun
  Runs = {r1, r2}
  Cleanups = {c1}
  Workloads = {a}
  VMCount <- One
  Faults = {}
  NoAudit = {}
  MayStop = {}
  MayDie = {}
  DBMayFail = FALSE
  MaxReq = 1
  MaxVMs = 1
  MaxRetries = 0
  SecretLimit = 1
  RunConfigs <- RunA
  CleanupConfigs <- CleanAll
  NeedsService = {}
  Disabled = {}
  BadParams = {}
  BadUserdata = {}
  BadSpec = {}
  TooLarge = {}
INVARIANTS
  SafeToRerun
CHECK_DEADLOCK FALSE
