CONSTANTS
  T1 = T1
  C1 = C1
  Zero = Zero
  None = None
  Publishers <- MCPublishers
  Listeners <- MCListeners
  NoMsgId <- Zero
  PriHdrSize = 6
  CmdHdrSize = 8
  TlmHdrSize = 12
  BufSize = 16
  Lengths = {16}
  DataLengths = {0, 4}
  WireLengths = {3, 20}
  Seconds = {7}
  Subseconds = {0, 17, 255}
  CmdCodes = {2}
  SeqCounts = {5}
  Payloads = {1}
  SysSubsBits = 8
  PktSubsBits = 4
  ByteBits = 2

SPECIFICATION Spec
INVARIANT
  UserDataWithinMessage
