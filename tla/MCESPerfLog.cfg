CONSTANTS
  BufSize = 4
  MaxIds = 2
  DumpChunk = 3
  MaxAdds = 6

SPECIFICATION Spec

INVARIANTS
  TypeOK
  TriggerWindowKept

PROPERTIES
  DumpWritesNewestEntries
  DumpFinishes
