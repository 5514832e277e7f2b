SPECIFICATION PlannerSpec
CONSTANTS
  Invocations <- Defaults
  Catalogs <- Directories
  Quantity = {"1Gi", "2Gi", "3Gi", "4Gi", "10Gi"}
  MaxNumber = 600
  LongText = {"long"}
INVARIANTS
  ServiceSelectsOwnVMs
