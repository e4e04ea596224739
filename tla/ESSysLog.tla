------------------------------ MODULE ESSysLog ------------------------------
(***************************************************************************)
(* The ES system log (spec.md 4.5, 5, 8): a flat ring buffer of text in   *)
(* the reset area, with a write index, an end index and a DISCARD or       *)
(* OVERWRITE mode; and the dump that copies it to a file chunk by chunk.   *)
(*                                                                         *)
(* The ES source is not in the repository.  Every action follows the      *)
(* spec and the outcomes es_UT.c asserts for CFE_ES_SysLogAppend_Unsync,  *)
(* CFE_ES_SysLogReadStart_Unsync, CFE_ES_SysLogReadData and               *)
(* CFE_ES_SysLogDump.  A message is abstracted to its length and a unique *)
(* id: each cell of the buffer holds the id of the message it belongs to  *)
(* and whether it is that message's final newline.                         *)
(*                                                                         *)
(* Appends come from any task and run under the shared-data mutex, so each *)
(* is one atomic step.  The dump takes the mutex only around ReadStart and *)
(* around each ReadData (spec 5: no mutex across the file write), so       *)
(* appends, clears and mode commands interleave between its chunks.        *)
(***************************************************************************)
EXTENDS Naturals, Sequences, SequencesExt

CONSTANTS
  LogSize,        \* CFE_PLATFORM_ES_SYSTEM_LOG_SIZE
  ChunkSize,      \* sizeof(CFE_ES_SysLogReadBuffer_t.Data)
  TimeStampSize,  \* CFE_TIME_PRINTED_STRING_SIZE
  MsgLens,        \* lengths of formatted messages a task may append
  MaxAppends      \* bound on the number of appended messages

ASSUME /\ LogSize \in Nat \ {0}
       /\ ChunkSize \in Nat \ {0}
       /\ TimeStampSize < LogSize
       /\ MsgLens \subseteq Nat \ {0}

DISCARD == "DISCARD"
OVERWRITE == "OVERWRITE"

Idx == 0..LogSize-1
Cell == [id : 0..MaxAppends, nl : BOOLEAN]
Msg == [id : 1..MaxAppends, len : 1..LogSize]

VARIABLES
  log,        \* CFE_ES_ResetDataPtr->SystemLog
  writeIdx,   \* SystemLogWriteIdx
  endIdx,     \* SystemLogEndIdx
  mode,       \* SystemLogMode
  nextId,     \* id of the next message (bounds the run)
  written,    \* ghost: messages appended since the last clear, oldest first
  rd,         \* the dump's CFE_ES_SysLogReadBuffer_t, with its loop state
  out,        \* ghost: cells the dump has written to the file
  wrapped,    \* ghost: an append wrapped to the start since the last clear
  snap,       \* ghost: `written' and `wrapped' when the dump started
  disturbed   \* ghost: the log changed while the dump was reading

vars == <<log, writeIdx, endIdx, mode, nextId, written, wrapped, rd, out, snap, disturbed>>

ReadBuf == [state : {"Idle", "Reading"}, endIdx : 0..LogSize,
            lastOffset : 0..LogSize, sizeLeft : 0..LogSize]

TypeOK ==
  /\ log \in [Idx -> Cell]
  /\ writeIdx \in 0..LogSize
  /\ endIdx \in 0..LogSize
  /\ mode \in {DISCARD, OVERWRITE}
  /\ nextId \in 1..MaxAppends+1
  /\ written \in Seq(Msg)
  /\ rd \in ReadBuf
  /\ out \in Seq(Cell)
  /\ wrapped \in BOOLEAN
  /\ snap \in [msgs : Seq(Msg), wrapped : BOOLEAN]
  /\ disturbed \in BOOLEAN

Init ==
  /\ log = [i \in Idx |-> [id |-> 0, nl |-> FALSE]]
  /\ writeIdx = 0
  /\ endIdx = 0
  /\ mode \in {DISCARD, OVERWRITE}
  /\ nextId = 1
  /\ written = <<>>
  /\ rd = [state |-> "Idle", endIdx |-> 0, lastOffset |-> 0, sizeLeft |-> 0]
  /\ out = <<>>
  /\ wrapped = FALSE
  /\ snap = [msgs |-> <<>>, wrapped |-> FALSE]
  /\ disturbed = FALSE

-----------------------------------------------------------------------------
(* Appending.                                                              *)

\* A message longer than half the log is truncated to half the log.
TruncatedLen(len) == IF len > LogSize \div 2 THEN LogSize \div 2 ELSE len

\* Copy a message of len cells in at start, its last cell a newline; the
\* write index follows it and the end index never moves back.
WriteAt(start, len, end) ==
  /\ log' = [i \in Idx |->
               IF start <= i /\ i < start + len
                 THEN [id |-> nextId, nl |-> i = start + len - 1]
                 ELSE log[i]]
  /\ writeIdx' = start + len
  /\ endIdx' = IF end < start + len THEN start + len ELSE end
  /\ written' = Append(written, [id |-> nextId, len |-> len])
  /\ nextId' = nextId + 1

\* The message fits between the write index and the end of the buffer.
(* Mutant: one cell more accepted as fitting. *)
AppendFitsOffByOne(len) ==
  /\ writeIdx + len <= LogSize + 1
  /\ WriteAt(writeIdx, len, endIdx)
  /\ UNCHANGED wrapped

AppendFits(len) ==
  /\ writeIdx + len <= LogSize
  /\ WriteAt(writeIdx, len, endIdx)
  /\ UNCHANGED wrapped

\* OVERWRITE mode: the end index drops to the write index and the message
\* is written at the start of the buffer.
AppendWrap(len) ==
  /\ writeIdx + len > LogSize
  /\ mode = OVERWRITE
  /\ WriteAt(0, len, writeIdx)
  /\ wrapped' = TRUE

\* DISCARD mode with more than a time stamp of room left: the message is
\* cut to the room left and CFE_ES_ERR_SYS_LOG_TRUNCATED returned.
AppendTruncated(len) ==
  /\ writeIdx + len > LogSize
  /\ mode = DISCARD
  /\ writeIdx < LogSize - TimeStampSize
  /\ WriteAt(writeIdx, LogSize - writeIdx, endIdx)
  /\ UNCHANGED wrapped

\* DISCARD mode and no room: CFE_ES_ERR_SYS_LOG_FULL, nothing changes.
AppendFull(len) ==
  /\ writeIdx + len > LogSize
  /\ mode = DISCARD
  /\ writeIdx >= LogSize - TimeStampSize
  /\ UNCHANGED <<log, writeIdx, endIdx, written, nextId, wrapped>>

\* CFE_ES_SysLogAppend_Unsync of a nonempty formatted message.  (An empty
\* one returns CFE_SUCCESS and changes nothing: a stuttering step.)
SysLogAppend ==
  /\ nextId <= MaxAppends
  /\ \E msgLen \in MsgLens :
       LET len == TruncatedLen(msgLen) IN
       \/ AppendFits(len)
       \/ AppendWrap(len)
       \/ AppendTruncated(len)
       \/ AppendFull(len)
  /\ disturbed' = (disturbed \/ rd.state = "Reading")
  /\ UNCHANGED <<mode, rd, out, snap>>

\* CFE_ES_ClearSyslogCmd: the log is emptied by resetting its indices.
ClearSysLog ==
  /\ writeIdx' = 0
  /\ endIdx' = 0
  /\ written' = <<>>
  /\ wrapped' = FALSE
  /\ disturbed' = (disturbed \/ rd.state = "Reading")
  /\ UNCHANGED <<log, mode, nextId, rd, out, snap>>

\* CFE_ES_OverWriteSyslogCmd with a valid mode (an invalid one is rejected
\* with an event and changes nothing).
OverWriteSysLog ==
  /\ \E m \in {DISCARD, OVERWRITE} : mode' = m
  /\ UNCHANGED <<log, writeIdx, endIdx, nextId, written, wrapped, rd, out, snap, disturbed>>

-----------------------------------------------------------------------------
(* Reading.                                                                *)

\* CFE_ES_SysLogReadStart_Unsync's loop: from the write index, where the
\* oldest data (likely a fragment) is, step past the next newline, never
\* beyond the end index; total counts the cells left to read.
RECURSIVE SkipFragment(_, _)
SkipFragment(idx, total) ==
  IF total > 0 /\ idx < endIdx
    THEN IF log[idx].nl THEN [idx |-> idx + 1, total |-> total - 1]
                        ELSE SkipFragment(idx + 1, total - 1)
    ELSE [idx |-> idx, total |-> total]

(* Mutant: reading starts at the write index without skipping the      *)
(* fragment of the oldest, partly overwritten message.                   *)
ReadStartNoSkip ==
  [state |-> "Reading", endIdx |-> endIdx, lastOffset |-> writeIdx, sizeLeft |-> endIdx]

ReadStart ==
  LET s == SkipFragment(writeIdx, endIdx) IN
  [state |-> "Reading", endIdx |-> endIdx, lastOffset |-> s.idx, sizeLeft |-> s.total]

\* CFE_ES_SysLogReadData's loop: fill up to ChunkSize cells, wrapping the
\* offset to 0 at the end index, bounded by the cells left to read.
RECURSIVE ReadLoop(_, _)
ReadLoop(b, data) ==
  IF b.sizeLeft = 0 \/ Len(data) >= ChunkSize
    THEN [buf |-> b, data |-> data]
    ELSE LET off  == IF b.lastOffset >= b.endIdx THEN 0 ELSE b.lastOffset
             room == ChunkSize - Len(data)
             upto == IF off + room > b.endIdx THEN b.endIdx - off ELSE room
             n    == IF upto > b.sizeLeft THEN b.sizeLeft ELSE upto
         IN IF n = 0
              THEN [buf |-> [b EXCEPT !.lastOffset = off], data |-> data]
              ELSE ReadLoop([b EXCEPT !.lastOffset = off + n, !.sizeLeft = @ - n],
                            data \o [i \in 1..n |-> log[off + i - 1]])

\* CFE_ES_SysLogDump, first step: ReadStart under the mutex.
DumpStart ==
  /\ rd.state = "Idle"
  /\ rd' = ReadStart
  /\ out' = <<>>
  /\ snap' = [msgs |-> written, wrapped |-> wrapped]
  /\ disturbed' = FALSE
  /\ UNCHANGED <<log, writeIdx, endIdx, mode, nextId, written, wrapped>>

\* CFE_ES_SysLogDump, one pass of its loop: ReadData under the mutex, then
\* the file write; the loop ends after a read of zero cells.
DumpRead ==
  /\ rd.state = "Reading"
  /\ LET r == ReadLoop(rd, <<>>) IN
       /\ rd' = IF r.data = <<>> THEN [r.buf EXCEPT !.state = "Idle"] ELSE r.buf
       /\ out' = out \o r.data
  /\ UNCHANGED <<log, writeIdx, endIdx, mode, nextId, written, wrapped, snap, disturbed>>

Next ==
  \/ SysLogAppend
  \/ ClearSysLog
  \/ OverWriteSysLog
  \/ DumpStart
  \/ DumpRead

Spec == Init /\ [][Next]_vars

-----------------------------------------------------------------------------
(* Properties.                                                             *)

\* The cells of a whole message as they stand in the buffer.
MsgCells(m) == [i \in 1..m.len |-> [id |-> m.id, nl |-> i = m.len]]

\* A dump that no append or clear overlapped wrote exactly the newest
\* messages of the log, each whole and oldest first, and at least the
\* newest one; and all of them when no append wrapped to the start of the
\* buffer since the last clear (DISCARD mode loses new messages, never old
\* ones).  The fragment ReadStart skips, the wrap of ReadData at the end
\* index, truncation and the overwrite of old messages must never tear or
\* reorder a message, whatever appends, clears and mode changes came before.
DumpIsNewestWholeMessages ==
  rd.state = "Idle" /\ ~disturbed =>
    \E suffix \in Suffixes(snap.msgs) :
      /\ suffix = <<>> => snap.msgs = <<>>
      /\ ~snap.wrapped => suffix = snap.msgs
      /\ out = FlattenSeq([j \in 1..Len(suffix) |-> MsgCells(suffix[j])])

=============================================================================
