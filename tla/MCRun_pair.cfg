SPECIFICATION RunsSpec
CONSTANTS
  a = a
  b = b
  c = c
  d = d
  e = e
  f = f
  g = g
  h = h
  NoRun = NoRun
  Runs = {r1, r2}
  Cleanups = {}
  Workloads = {b}
  VMCount <- Count
  Faults = {"fatal"}
  NoAudit = {}
  MayStop = {r1, r2}
  MayDie = {r1, r2}
  DBMayFail = FALSE
  MaxReq = 1
  MaxVMs = 1
  MaxRetries = 0
  SecretLimit = 1
  RunConfigs <- Same
  NeedsService = {b}
  Disabled = {}
  BadParams = {}
  BadUserdata = {}
  BadSpec = {}
  TooLarge = {}
INVARIANTS
  VMHasSecret
  SuccessMeansDeployed
PROPERTIES
  Implements
CHECK_DEADLOCK FALSE
