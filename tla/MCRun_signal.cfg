SPECIFICATION RunsFairSpec
CONSTANTS
  a = a
  b = b
  c = c
  d = d
  e = e
  f = f
  g = g
  h = h
  NoRun = NoRun
  Runs = {r1}
  Cleanups = {}
  Workloads = {b}
  VMCount <- Count
  Faults = {}
  NoAudit = {}
  MayStop = {r1}
  MayDie = {}
  DBMayFail = FALSE
  MaxReq = 1
  MaxVMs = 1
  MaxRetries = 1
  SecretLimit = 1
  RunConfigs <- Same
  NeedsService = {b}
  Disabled = {}
  BadParams = {}
  BadUserdata = {}
  BadSpec = {}
  TooLarge = {}
PROPERTIES
  InterruptedRowCompleted
CHECK_DEADLOCK FALSE
