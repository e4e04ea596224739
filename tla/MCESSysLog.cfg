CONSTANTS
  LogSize = 8
  ChunkSize = 3
  TimeStampSize = 1
  MsgLens <- MCMsgLens
  MaxAppends = 5

SPECIFICATION Spec

INVARIANTS
  TypeOK
  DumpIsNewestWholeMessages

