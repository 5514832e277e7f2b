SPECIFICATION PlannerSpec
CONSTANTS
  Invocations <- AnyInvocation
  Catalogs <- Directories
  Quantity = {"1Gi", "2Gi", "3Gi", "4Gi", "10Gi"}
  MaxNumber = 600
  LongText = {"long"}
INVARIANTS
  NamesDistinct
  StorageWired
  UserValueReachesUserdata
  ValidatedEntryDeploys
  NoPlaceholderLeft
  ClientsReachTheirServer
  AskedIsPlanned
  PlannedAsOften
  SettingsReachVMs
