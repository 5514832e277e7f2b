SPECIFICATION MigrateSpec
CONSTANTS
  Openers = {p1, p2, p3}
  Nobody = Nobody
  Last = 1
INVARIANTS
  MigrateTypeOK
  SchemaBeforeUse
  RecordedVersionIsTrue
PROPERTIES
  VersionNeverFallsBack
CHECK_DEADLOCK FALSE
