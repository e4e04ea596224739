CONSTANTS
  N1 = N1
  N2 = N2
  V1 = V1
  V2 = V2
  Names <- MCNames
  Values <- MCValues
  Sizes <- MCSizes
  MaxEntries = 1
  MaxResets = 2
  MaxMediaErrors = 2
SPECIFICATION Spec
INVARIANTS
  TypeOK
  RestoreNeverStale
  DataSurvivesReset
