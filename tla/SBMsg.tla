------------------------------- MODULE SBMsg -------------------------------
(***************************************************************************)
(* The software-bus message header accessors of cfe_sb_util.c, acting on  *)
(* one message buffer.  Every accessor is one action over the header      *)
(* fields it reads or writes.  Another actor, Receive, stands for a       *)
(* packet arriving from outside (a command ingest link), whose header is  *)
(* whatever the sender put on the wire.                                    *)
(*                                                                         *)
(* The EDS run-time library (CFE_SB_Set/Get_PubSub_Parameters) and the    *)
(* CCSDS field macros are not part of the repository; they are taken as   *)
(* the environment: a MsgId fixes the packet type and the secondary       *)
(* header flag, the length field holds the value written modulo 2^16, and *)
(* a packet is a "publisher" (telemetry) or "listener" (command) component*)
(* exactly when its secondary header flag is set.                         *)
(*                                                                         *)
(* Bytes 6..9 of the packet are one field, secs: the telemetry Seconds,  *)
(* and for a command the function code (byte 6) and the checksum (byte 7) *)
(* of its secondary header.  A byte is ByteBits wide, reduced from 8.     *)
(***************************************************************************)
EXTENDS Integers, Sequences, Bitwise

CONSTANTS
  Publishers,     \* MsgIds of telemetry topics
  Listeners,      \* MsgIds of command topics
  NoMsgId,        \* the stream id of a zeroed buffer
  PriHdrSize,     \* sizeof(CCSDS_PriHdr_t)
  CmdHdrSize,     \* CFE_SB_CMD_HDR_SIZE
  TlmHdrSize,     \* CFE_SB_TLM_HDR_SIZE
  BufSize,        \* size of the caller's message buffer
  Lengths,        \* Length / TotalLength arguments the callers pass
  DataLengths,    \* DataLength arguments of CFE_SB_SetUserDataLength
  WireLengths,    \* length fields a received packet may carry
  Seconds,        \* CFE_TIME_SysTime_t.Seconds values
  Subseconds,     \* CFE_TIME_SysTime_t.Subseconds values
  CmdCodes,       \* function codes
  SeqCounts,      \* sequence counts
  Payloads,       \* non-zero user data contents
  SysSubsBits,    \* width of CFE_TIME_SysTime_t.Subseconds (32 in flight)
  PktSubsBits,    \* width of the packet's Sec.Subseconds (16 in flight)
  ByteBits,       \* width of a byte (8 in flight)
  None            \* no value recorded

MsgIds == Publishers \cup Listeners

ASSUME /\ Publishers \cap Listeners = {}
       /\ NoMsgId \notin MsgIds
       /\ PriHdrSize < CmdHdrSize /\ CmdHdrSize < TlmHdrSize /\ TlmHdrSize <= BufSize
       /\ Lengths \subseteq 0..BufSize
       /\ PktSubsBits < SysSubsBits
       /\ 0 \notin Payloads
       /\ CmdCodes \subseteq 1..(2^ByteBits - 1)

U16 == 2^16
AsU16(n) == n % U16

ByteMod == 2^ByteBits
SecsMod == ByteMod^4

\* Byte 6 + k of the packet, k in 0..3, as a byte of the Seconds field.
SecsByte(s, k) == (s \div ByteMod^(3 - k)) % ByteMod

\* The Seconds field with byte 6 + k replaced by b.
WithSecsByte(s, k, b) == s + (b - SecsByte(s, k)) * ByteMod^(3 - k)

CMD == "CMD"
TLM == "TLM"

CFE_SUCCESS == "CFE_SUCCESS"
CFE_SB_WRONG_MSG_TYPE == "CFE_SB_WRONG_MSG_TYPE"

VARIABLES
  msg,         \* the header fields and user data of the buffer
  lastStatus,  \* status returned by the last call that returns one
  timeSet,     \* ghost: time last written by a successful SetMsgTime
  dataLenSet   \* ghost: DataLength last given to SetUserDataLength

vars == <<msg, lastStatus, timeSet, dataLenSet>>

(* The byte CCSDS_LoadCheckSum stores in byte 7: the complement of the   *)
(* XOR of every other byte, so that the XOR of the whole packet is all    *)
(* ones.  Each field other than secs is folded into one byte.  The stream *)
(* id bytes are left out: no property tells packets apart by them.        *)
RECURSIVE XorAll(_)
XorAll(bs) == IF bs = <<>> THEN 0 ELSE Head(bs) ^^ XorAll(Tail(bs))

CheckSum(m) ==
  XorAll(<<ByteMod - 1, m.seq % ByteMod, m.len % ByteMod, m.data % ByteMod,
           m.subs % ByteMod, SecsByte(m.secs, 0), SecsByte(m.secs, 2),
           SecsByte(m.secs, 3)>>)

ZeroMsg == [apid |-> NoMsgId, type |-> TLM, shdr |-> 0, seq |-> 0, len |-> 0,
            secs |-> 0, subs |-> 0, data |-> 0]

TypeOK ==
  /\ msg.apid \in MsgIds \cup {NoMsgId}
  /\ msg.type \in {CMD, TLM}
  /\ msg.shdr \in {0, 1}
  /\ msg.seq \in SeqCounts \cup {0}
  /\ msg.len \in 0..(U16 - 1)
  /\ msg.secs \in 0..(SecsMod - 1)
  /\ msg.subs \in 0..(2^PktSubsBits - 1)
  /\ msg.data \in Payloads \cup {0}
  /\ lastStatus \in {CFE_SUCCESS, CFE_SB_WRONG_MSG_TYPE}
  /\ timeSet = None \/ timeSet \in [secs : Seconds, subs : Subseconds]
  /\ dataLenSet = None \/ dataLenSet \in DataLengths

-----------------------------------------------------------------------------
(* Environment: the EDS pub/sub parameters of a packet.                   *)
IsPublisherComponent(m) == m.shdr = 1 /\ m.type = TLM
IsListenerComponent(m)  == m.shdr = 1 /\ m.type = CMD

(* CFE_SB_Set_PubSub_Parameters: the stream id, type and secondary header *)
(* flag that the MsgId stands for.                                        *)
SetPubSub(m, mid) ==
  [m EXCEPT !.apid = mid, !.type = IF mid \in Listeners THEN CMD ELSE TLM,
            !.shdr = 1]

(* "msg type is a command or has no secondary header": the guard of every *)
(* command-header and time accessor.                                       *)
HasCmdSecHdr(m) == m.type = CMD /\ m.shdr # 0
HasTlmSecHdr(m) == m.type # CMD /\ m.shdr # 0

-----------------------------------------------------------------------------
(* CFE_SB_GetMsgHdrSize_Impl *)
GetMsgHdrSize(m) ==
  IF IsPublisherComponent(m) THEN TlmHdrSize
  ELSE IF IsListenerComponent(m) THEN CmdHdrSize
  ELSE PriHdrSize

(* CFE_SB_GetTotalMsgLength: CCSDS_RD_LEN *)
GetTotalMsgLength(m) == m.len

(* CFE_SB_GetUserDataLength: the uint16 difference of total and header size *)
GetUserDataLength(m) == AsU16(GetTotalMsgLength(m) - GetMsgHdrSize(m))

(* CFE_SB_GetMsgTime: zero unless the packet has a telemetry secondary    *)
(* header; the packet subseconds are left-justified into SysSubsBits.     *)
SubsShift == SysSubsBits - PktSubsBits
GetMsgTime(m) ==
  IF HasTlmSecHdr(m)
  THEN [secs |-> m.secs, subs |-> m.subs * 2^SubsShift]
  ELSE [secs |-> 0, subs |-> 0]

(* CFE_SB_GetCmdCode *)
GetCmdCode(m) == IF ~HasCmdSecHdr(m) THEN 0 ELSE SecsByte(m.secs, 0)

(* CFE_SB_GetChecksum *)
GetChecksum(m) == IF ~HasCmdSecHdr(m) THEN 0 ELSE SecsByte(m.secs, 1)

(* CFE_SB_ValidateChecksum: CCSDS_ValidCheckSum over the whole packet *)
ValidateChecksum(m) == HasCmdSecHdr(m) /\ SecsByte(m.secs, 1) = CheckSum(m)

-----------------------------------------------------------------------------
(* memset(PktPtr->Byte, 0, Length): zeroes the fields that lie wholly in  *)
(* the first Length bytes (seq at 2..3, length at 4..5, secs at 6..9,   *)
(* subseconds at 10..11, user data up to the end of the buffer).          *)
ClearedSecs(s, L) ==
  LET kept(k) == IF L >= 7 + k THEN 0 ELSE SecsByte(s, k) * ByteMod^(3 - k)
  IN  kept(0) + kept(1) + kept(2) + kept(3)

Cleared(m, L) ==
  [m EXCEPT !.apid = IF L >= 2 THEN NoMsgId ELSE @,
            !.type = IF L >= 1 THEN TLM ELSE @,
            !.shdr = IF L >= 1 THEN 0 ELSE @,
            !.seq  = IF L >= 4 THEN 0 ELSE @,
            !.len  = IF L >= 6 THEN 0 ELSE @,
            !.secs = ClearedSecs(@, L),
            !.subs = IF L >= 12 THEN 0 ELSE @,
            !.data = IF L >= BufSize THEN 0 ELSE @]

(* Mutant: a header clear that also wipes the secondary header. *)
ClrPriHdrWide(m) == [m EXCEPT !.apid = NoMsgId, !.type = TLM, !.shdr = 0,
                              !.seq = 0, !.len = 0, !.secs = 0, !.subs = 0]

(* CCSDS_CLR_PRI_HDR: zeroes the six primary header bytes only *)
ClrPriHdr(m) == [m EXCEPT !.apid = NoMsgId, !.type = TLM, !.shdr = 0,
                          !.seq = 0, !.len = 0]

(* CFE_SB_InitMsg *)
InitMsgResult(m, mid, L, clear) ==
  LET base == IF clear THEN Cleared(m, L) ELSE ClrPriHdr(m)
      hdr  == [SetPubSub(base, mid) EXCEPT !.len = AsU16(L)]
  IN  IF clear THEN hdr ELSE [hdr EXCEPT !.seq = m.seq]

InitMsg(mid, L, clear) ==
  /\ msg' = InitMsgResult(msg, mid, L, clear)
  /\ timeSet' = IF clear THEN None ELSE timeSet
  /\ dataLenSet' = None
  /\ UNCHANGED lastStatus

(* Mutant: the data length added to the primary header size only. *)
SetUserDataLengthPriOnly(m, d) == [m EXCEPT !.len = AsU16(PriHdrSize + d)]

(* CFE_SB_SetUserDataLength *)
SetUserDataLengthResult(m, d) ==
  [m EXCEPT !.len = AsU16(GetMsgHdrSize(m) + d)]

SetUserDataLength(d) ==
  /\ msg' = SetUserDataLengthResult(msg, d)
  /\ dataLenSet' = d
  /\ UNCHANGED <<lastStatus, timeSet>>

(* CFE_SB_SetTotalMsgLength *)
SetTotalMsgLength(L) ==
  /\ msg' = [msg EXCEPT !.len = AsU16(L)]
  /\ dataLenSet' = None
  /\ UNCHANGED <<lastStatus, timeSet>>

(* CFE_SB_SetMsgTime: the subseconds are right-shifted to the packet's   *)
(* width; a command or a packet without secondary header is refused.      *)
(* Mutant: the subseconds stored without the right shift. *)
SetMsgTimeNoShift(m, t) == [m EXCEPT !.secs = t.secs, !.subs = t.subs]

SetMsgTimeResult(m, t) ==
  [m EXCEPT !.secs = t.secs, !.subs = t.subs \div 2^SubsShift]

SetMsgTime(t) ==
  \/ /\ HasTlmSecHdr(msg)
     /\ msg' = SetMsgTimeResult(msg, t)
     /\ lastStatus' = CFE_SUCCESS
     /\ timeSet' = t
     /\ UNCHANGED dataLenSet
  \/ /\ ~HasTlmSecHdr(msg)
     /\ lastStatus' = CFE_SB_WRONG_MSG_TYPE
     /\ UNCHANGED <<msg, timeSet, dataLenSet>>

(* CFE_SB_TimeStampMsg: SetMsgTime with CFE_TIME_GetTime(), any time;   *)
(* its status is discarded, so on a packet without a telemetry secondary *)
(* header the call changes nothing (a stuttering step).                  *)
TimeStampMsg ==
  /\ HasTlmSecHdr(msg)
  /\ \E t \in [secs : Seconds, subs : Subseconds] :
       /\ msg' = SetMsgTimeResult(msg, t)
       /\ timeSet' = t
  /\ UNCHANGED <<lastStatus, dataLenSet>>

(* CFE_SB_SetCmdCode: CCSDS_WR_FC writes byte 6, which a telemetry       *)
(* header would read as part of its Seconds.                              *)
SetCmdCode(cc) ==
  \/ /\ ~HasCmdSecHdr(msg)
     /\ lastStatus' = CFE_SB_WRONG_MSG_TYPE
     /\ UNCHANGED <<msg, timeSet, dataLenSet>>
  \/ /\ HasCmdSecHdr(msg)
     /\ msg' = [msg EXCEPT !.secs = WithSecsByte(@, 0, cc)]
     /\ lastStatus' = CFE_SUCCESS
     /\ timeSet' = None
     /\ UNCHANGED dataLenSet

(* CFE_SB_GenerateChecksum: CCSDS_LoadCheckSum writes byte 7.           *)
GenerateChecksum ==
  /\ HasCmdSecHdr(msg)
  /\ msg' = [msg EXCEPT !.secs = WithSecsByte(@, 1, CheckSum(msg))]
  /\ timeSet' = None
  /\ UNCHANGED <<lastStatus, dataLenSet>>

(* The application fills its user data. *)
WriteUserData(p) ==
  /\ msg' = [msg EXCEPT !.data = p]
  /\ UNCHANGED <<lastStatus, timeSet, dataLenSet>>

(* A packet arrives from outside: every header field is what the sender  *)
(* wrote, the length field and bytes 6..9 included.                       *)
Receive ==
  \E mid \in MsgIds, s \in SeqCounts, L \in WireLengths, w \in Seconds, p \in Payloads :
    /\ msg' = [SetPubSub(msg, mid) EXCEPT !.seq = s, !.len = L, !.secs = w, !.data = p]
    /\ timeSet' = None
    /\ dataLenSet' = None
    /\ UNCHANGED lastStatus

-----------------------------------------------------------------------------
Init ==
  /\ msg = ZeroMsg
  /\ lastStatus = CFE_SUCCESS
  /\ timeSet = None
  /\ dataLenSet = None

Next ==
  \/ \E mid \in MsgIds, L \in Lengths, clear \in BOOLEAN : InitMsg(mid, L, clear)
  \/ \E d \in DataLengths : SetUserDataLength(d)
  \/ \E L \in Lengths : SetTotalMsgLength(L)
  \/ \E t \in [secs : Seconds, subs : Subseconds] : SetMsgTime(t)
  \/ TimeStampMsg
  \/ \E cc \in CmdCodes : SetCmdCode(cc)
  \/ GenerateChecksum
  \/ \E p \in Payloads : WriteUserData(p)
  \/ Receive

Spec == Init /\ [][Next]_vars

-----------------------------------------------------------------------------
(* Properties                                                             *)

(* The time last written by CFE_SB_SetMsgTime reads back through          *)
(* CFE_SB_GetMsgTime with only the subsecond bits the packet cannot hold  *)
(* lost, for as long as the packet keeps a telemetry secondary header and *)
(* no command header write (SetCmdCode, GenerateChecksum) reuses bytes    *)
(* 6..7: a non-clearing CFE_SB_InitMsg in between, even one that makes    *)
(* the packet a command and back, must leave the time alone.              *)
Truncated(t) == [secs |-> t.secs,
                 subs |-> (t.subs \div 2^SubsShift) * 2^SubsShift]

TimeRoundTrip ==
  (timeSet # None /\ HasTlmSecHdr(msg)) => GetMsgTime(msg) = Truncated(timeSet)

(* After CFE_SB_SetUserDataLength(d), and until the length or the header  *)
(* is rewritten, CFE_SB_GetUserDataLength returns d: both derive the      *)
(* header size from the same pub/sub parameters of the packet.            *)
UserDataLengthRoundTrip ==
  dataLenSet # None => GetUserDataLength(msg) = dataLenSet

(* Once a header has been written (by CFE_SB_InitMsg or by a sender), the *)
(* user data length never exceeds the total length: the packet holds at   *)
(* least its own header.  CFE_SB_GetUserDataLength documents its result   *)
(* as "size of the message minus the headers", and applications use it   *)
(* to bound their reads of the user data.                                 *)
UserDataWithinMessage ==
  msg.apid # NoMsgId => GetUserDataLength(msg) <= GetTotalMsgLength(msg)

=============================================================================
