CONSTANTS
  T1 = T1
  C1 = C1
  Zero = Zero
  None = None
  Publishers <- MCPublishers
  Listeners <- MCListeners
  NoMsgId <- Zero
  PriHdrSize = 6
  CmdHdrSize = 8
  TlmHdrSize = 12
  BufSize = 16
  Lengths = {3, 8, 16}
  DataLengths = {0, 4}
  WireLengths = {8, 20}
  Seconds = {7, 200}
  Subseconds = {0, 17, 255}
  CmdCodes = {2}
  SeqCounts = {5}
  Payloads = {1}
  SysSubsBits = 8
  PktSubsBits = 4
  ByteBits = 2

SPECIFICATION Spec
INVARIANTS
  TypeOK
  TimeRoundTrip
  UserDataLengthRoundTrip
