SPECIFICATION RunsFairSpec
CONSTANTS
  a = a
  b = b
  c = c
  d = d
  e = e
  f = f
  g = g
  h = h
  NoRun = NoRun
  Runs = {r1}
  Cleanups = {}
  Workloads = {a, b, c, d, e, f, g, h}
  VMCount <- Count
  Faults = {"transient", "fatal", "lost", "connect"}
  NoAudit = {}
  MayStop = {r1}
  MayDie = {r1}
  DBMayFail = FALSE
  MaxReq = 2
  MaxVMs = 2
  MaxRetries = 1
  SecretLimit = 2
  RunConfigs <- AnyRun
  NeedsService = {b}
  Disabled = {c}
  BadParams = {d}
  BadUserdata = {e}
  BadSpec = {f}
  TooLarge = {g}
INVARIANTS
  RunTypeOK
  VMHasSecret
  SuccessMeansDeployed
  CreatedRowIsTrue
  RowsAgree
  EveryVMHasVerdict
  EveryVMIsAccounted
PROPERTIES
  RunTerminates
  RunRowCompleted
  Implements
CHECK_DEADLOCK FALSE
