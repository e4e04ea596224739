------------------------------ MODULE ESPerfLog ------------------------------
(***************************************************************************)
(* The ES performance monitor (spec.md 4.5, 4.6, 8): markers logged into  *)
(* a ring of entries under filter and trigger masks, the START / CENTER / *)
(* END trigger modes, the start, stop and mask commands, and the          *)
(* background job that dumps the ring to a file a bounded chunk per call. *)
(*                                                                         *)
(* The ES source is not in the repository: each action follows the spec   *)
(* and what TestPerf in es_UT.c asserts for CFE_ES_SetupPerfVariables,    *)
(* CFE_ES_PerfLogAdd, the perf commands and CFE_ES_RunPerfLogDump.  An     *)
(* entry is abstracted to a unique id; the mask words to sets of markers.  *)
(*                                                                         *)
(* Three actors interleave: application tasks calling PerfLogAdd, the ES  *)
(* task executing commands, and the background task stepping the dump.   *)
(* Each PerfLogAdd is one atomic step.                                     *)
(***************************************************************************)
EXTENDS Naturals, Sequences, SequencesExt

CONSTANTS
  BufSize,     \* CFE_PLATFORM_ES_PERF_DATA_BUFFER_SIZE
  MaxIds,      \* CFE_PLATFORM_ES_PERF_MAX_IDS: markers 0..MaxIds-1 are valid
  DumpChunk,   \* entries the background job writes per call
  MaxAdds      \* bound on the number of logged entries

ASSUME /\ BufSize \in Nat /\ BufSize >= 2
       /\ DumpChunk \in Nat \ {0}

IDLE == "IDLE"
WAITING == "WAITING_FOR_TRIGGER"
TRIGGERED == "TRIGGERED"
START == "START"
CENTER == "CENTER"
END == "END"

\* Background dump states (CFE_ES_PerfDumpState_*), abstracted to the
\* points between which the job yields or reads the metadata.
DIDLE == "DUMP_IDLE"
DINIT == "DUMP_INIT"
DDELAY == "DUMP_DELAY"
DENTRIES == "DUMP_WRITE_ENTRIES"
DCLOSE == "DUMP_CLOSE"

Pos == 0..BufSize-1
Valid == 0..MaxIds-1
Marker == 0..MaxIds        \* MaxIds itself stands for any invalid marker

VARIABLES
  state, mode, triggerCount,        \* Perf->MetaData.State, Mode, TriggerCount
  dataStart, dataEnd, dataCount,    \* Perf->MetaData.DataStart, DataEnd, DataCount
  buf,                              \* Perf->DataBuffer: entry ids
  filterMask, triggerMask,          \* Perf->MetaData.FilterMask, TriggerMask
  invalidReported,                  \* Perf->MetaData.InvalidMarkerReported
  dump,                             \* CFE_ES_TaskData.BackgroundPerfDumpState
  nextId,                           \* id of the next entry (bounds the run)
  collected,                        \* ghost: entries logged since the last start
  trigId,                           \* ghost: id of the entry that triggered
  autoStopped,                      \* ghost: collection stopped by its trigger mode
  file                              \* ghost: entries the dump wrote to its file

vars == <<state, mode, triggerCount, dataStart, dataEnd, dataCount, buf,
          filterMask, triggerMask, invalidReported, dump, nextId, collected,
          trigId, autoStopped, file>>
perf == <<state, mode, triggerCount, dataStart, dataEnd, dataCount, buf,
          invalidReported, nextId, collected, trigId, autoStopped>>

DumpState == [cur : {DIDLE, DINIT, DDELAY, DENTRIES, DCLOSE}, pending : BOOLEAN,
              pos : Pos, counter : 0..BufSize, failed : BOOLEAN]

TypeOK ==
  /\ state \in {IDLE, WAITING, TRIGGERED}
  /\ mode \in {START, CENTER, END}
  /\ triggerCount \in 0..BufSize
  /\ dataStart \in Pos /\ dataEnd \in Pos /\ dataCount \in 0..BufSize
  /\ buf \in [Pos -> 0..MaxAdds]
  /\ filterMask \subseteq Valid /\ triggerMask \subseteq Valid
  /\ invalidReported \in BOOLEAN
  /\ dump \in DumpState
  /\ nextId \in 1..MaxAdds+1
  /\ collected \in Seq(1..MaxAdds)
  /\ trigId \in 0..MaxAdds
  /\ autoStopped \in BOOLEAN
  /\ file \in Seq(0..MaxAdds)

\* CFE_ES_SetupPerfVariables at power-on: idle, every marker passes the
\* filter, none triggers.
Init ==
  /\ state = IDLE
  /\ mode = START
  /\ triggerCount = 0
  /\ dataStart = 0 /\ dataEnd = 0 /\ dataCount = 0
  /\ buf = [p \in Pos |-> 0]
  /\ filterMask = Valid
  /\ triggerMask = {}
  /\ invalidReported = FALSE
  /\ dump = [cur |-> DIDLE, pending |-> FALSE, pos |-> 0, counter |-> 0, failed |-> FALSE]
  /\ nextId = 1
  /\ collected = <<>>
  /\ trigId = 0
  /\ autoStopped = FALSE
  /\ file = <<>>

-----------------------------------------------------------------------------
(* CFE_ES_PerfLogAdd.                                                      *)

(* Mutant: the wrap test one past the last position. *)
NextPosLate(p) == IF p + 1 > BufSize THEN 0 ELSE p + 1

\* A ring position advanced by one, wrapping at the buffer size.
NextPos(p) == IF p + 1 >= BufSize THEN 0 ELSE p + 1

\* Trigger-mode stop condition on the number of entries since the trigger.
StopReached(count) ==
  CASE mode = START  -> count >= BufSize
    [] mode = CENTER -> count >= BufSize \div 2
    [] mode = END    -> TRUE

(* Mutant: only entries after the triggering one are counted (else-if). *)
CountsTowardStopElse(old, new) == old = TRIGGERED

\* The entry that moves WAITING to TRIGGERED is itself counted.
CountsTowardStop(old, new) == new = TRIGGERED

\* An invalid marker is reported once and otherwise ignored.
AddInvalid(m) ==
  /\ m \notin Valid
  /\ invalidReported' = TRUE
  /\ UNCHANGED <<state, mode, triggerCount, dataStart, dataEnd, dataCount, buf,
                 nextId, collected, trigId, autoStopped>>

\* Outside WAITING/TRIGGERED, or for a filtered-out marker: nothing.
AddIgnored(m) ==
  /\ m \in Valid
  /\ state = IDLE \/ m \notin filterMask
  /\ UNCHANGED perf

\* A logged entry: written at DataEnd, the oldest dropped when the ring is
\* full; a trigger marker while WAITING triggers; while TRIGGERED the
\* trigger count advances and the mode's stop condition returns to IDLE.
AddEntry(m) ==
  /\ m \in Valid
  /\ state # IDLE
  /\ m \in filterMask
  /\ nextId <= MaxAdds
  /\ buf' = [buf EXCEPT ![dataEnd] = nextId]
  /\ dataEnd' = NextPos(dataEnd)
  /\ IF dataCount < BufSize
       THEN dataCount' = dataCount + 1 /\ UNCHANGED dataStart
       ELSE dataStart' = NextPos(dataStart) /\ UNCHANGED dataCount
  /\ collected' = Append(collected, nextId)
  /\ nextId' = nextId + 1
  /\ LET trig == state = WAITING /\ m \in triggerMask
         st   == IF trig THEN TRIGGERED ELSE state
         cnt  == IF CountsTowardStop(state, st) THEN triggerCount + 1 ELSE triggerCount
         stop == CountsTowardStop(state, st) /\ StopReached(cnt)
     IN /\ triggerCount' = cnt
        /\ state' = IF stop THEN IDLE ELSE st
        /\ trigId' = IF trig THEN nextId ELSE trigId
        /\ autoStopped' = stop
  /\ UNCHANGED <<mode, invalidReported>>

PerfLogAdd ==
  /\ \E m \in Marker : AddInvalid(m) \/ AddIgnored(m) \/ AddEntry(m)
  /\ UNCHANGED <<filterMask, triggerMask, dump, file>>

-----------------------------------------------------------------------------
(* Commands, executed by the ES task.                                      *)

(* Mutant: only the current dump state checked, not a pending request. *)
NoDumpInProgressCurrentOnly == dump.cur = DIDLE

\* No dump is running or requested and not yet picked up.
NoDumpInProgress == dump.cur = DIDLE /\ ~dump.pending

\* CFE_ES_StartPerfDataCmd with a valid trigger mode: restart collection
\* with an empty ring.  Rejected while a dump is in progress.
StartPerfData ==
  /\ NoDumpInProgress
  /\ \E md \in {START, CENTER, END} : mode' = md
  /\ state' = WAITING
  /\ triggerCount' = 0
  /\ dataStart' = 0 /\ dataEnd' = 0 /\ dataCount' = 0
  /\ collected' = <<>>
  /\ trigId' = 0
  /\ autoStopped' = FALSE
  /\ UNCHANGED <<buf, filterMask, triggerMask, invalidReported, dump, nextId, file>>

\* CFE_ES_StopPerfDataCmd: stop collecting and request the dump.  Ignored
\* while a dump is in progress.
StopPerfData ==
  /\ NoDumpInProgress
  /\ state' = IDLE
  /\ dump' = [dump EXCEPT !.pending = TRUE]
  /\ UNCHANGED <<mode, triggerCount, dataStart, dataEnd, dataCount, buf,
                 filterMask, triggerMask, invalidReported, nextId, collected,
                 trigId, autoStopped, file>>

\* CFE_ES_SetPerfFilterMaskCmd / CFE_ES_SetPerfTriggerMaskCmd with a mask
\* index in range (an index out of range is rejected with an event).
SetPerfFilterMask ==
  /\ \E m \in Valid, on \in BOOLEAN :
       filterMask' = IF on THEN filterMask \cup {m} ELSE filterMask \ {m}
  /\ UNCHANGED <<triggerMask, dump, file>> /\ UNCHANGED perf

SetPerfTriggerMask ==
  /\ \E m \in Valid, on \in BOOLEAN :
       triggerMask' = IF on THEN triggerMask \cup {m} ELSE triggerMask \ {m}
  /\ UNCHANGED <<filterMask, dump, file>> /\ UNCHANGED perf

-----------------------------------------------------------------------------
(* CFE_ES_RunPerfLogDump, one state of the background job per step.        *)

DumpSteps == <<filterMask, triggerMask>>

\* A requested dump is picked up.
DumpPickUp ==
  /\ dump.cur = DIDLE /\ dump.pending
  /\ dump' = [dump EXCEPT !.cur = DINIT, !.failed = FALSE]
  /\ file' = <<>>
  /\ UNCHANGED DumpSteps /\ UNCHANGED perf

\* Creating the file: on success the job waits a call (DELAY); on failure
\* it goes straight back to idle with CFE_ES_PERF_LOG_ERR_EID.
DumpOpen ==
  /\ dump.cur = DINIT
  /\ \/ dump' = [dump EXCEPT !.cur = DDELAY]
     \/ dump' = [dump EXCEPT !.cur = DIDLE, !.pending = FALSE, !.failed = TRUE]
  /\ UNCHANGED file /\ UNCHANGED DumpSteps /\ UNCHANGED perf

\* After the delay, the headers and metadata are written and the entry
\* loop set up from DataStart and DataCount.
DumpMetadata ==
  /\ dump.cur = DDELAY
  /\ dump' = [dump EXCEPT !.cur = DENTRIES, !.pos = dataStart, !.counter = dataCount]
  /\ UNCHANGED file /\ UNCHANGED DumpSteps /\ UNCHANGED perf

\* Up to DumpChunk entries written from DataPos, wrapping at the end of the
\* ring; a failed write abandons the entries and goes on to close.
RECURSIVE ChunkFrom(_, _)
ChunkFrom(p, n) == IF n = 0 THEN <<>> ELSE <<buf[p]>> \o ChunkFrom(NextPos(p), n - 1)

RECURSIVE Advance(_, _)
Advance(p, n) == IF n = 0 THEN p ELSE Advance(NextPos(p), n - 1)

DumpEntries ==
  /\ dump.cur = DENTRIES
  /\ LET n == IF dump.counter < DumpChunk THEN dump.counter ELSE DumpChunk IN
     \/ /\ dump' = [dump EXCEPT !.pos = Advance(dump.pos, n),
                                !.counter = @ - n,
                                !.cur = IF dump.counter - n = 0 THEN DCLOSE ELSE DENTRIES]
        /\ file' = file \o ChunkFrom(dump.pos, n)
     \/ /\ n > 0
        /\ dump' = [dump EXCEPT !.cur = DCLOSE, !.failed = TRUE]
        /\ UNCHANGED file
  /\ UNCHANGED DumpSteps /\ UNCHANGED perf

(* Mutant: closing without clearing the request. *)
DumpCloseKeepPending ==
  /\ dump.cur = DCLOSE
  /\ dump' = [dump EXCEPT !.cur = DIDLE]
  /\ UNCHANGED file /\ UNCHANGED DumpSteps /\ UNCHANGED perf

\* The file is closed and the job is idle again.
DumpClose ==
  /\ dump.cur = DCLOSE
  /\ dump' = [dump EXCEPT !.cur = DIDLE, !.pending = FALSE]
  /\ UNCHANGED file /\ UNCHANGED DumpSteps /\ UNCHANGED perf

RunPerfLogDump == DumpPickUp \/ DumpOpen \/ DumpMetadata \/ DumpEntries \/ DumpClose

Next ==
  \/ PerfLogAdd
  \/ StartPerfData
  \/ StopPerfData
  \/ SetPerfFilterMask
  \/ SetPerfTriggerMask
  \/ RunPerfLogDump

\* The background task is woken periodically (spec 4.6) and always gets to
\* run its next step.
Spec == Init /\ [][Next]_vars /\ WF_vars(RunPerfLogDump)

-----------------------------------------------------------------------------
(* Properties.                                                             *)

\* The entries in the ring, oldest first.
RingEntries == [i \in 1..dataCount |-> buf[(dataStart + i - 1) % BufSize]]

\* Entries a trigger mode keeps after the triggering one.
KeptAfterTrigger ==
  CASE mode = START -> BufSize - 1 [] mode = CENTER -> BufSize \div 2 - 1 [] mode = END -> 0

\* When collection stops by itself, the ring holds the triggering entry at
\* the place its mode promises: first of the window in START mode, in the
\* middle in CENTER mode, last in END mode, with every entry logged after
\* it still present.  The trigger count, the ring's wrap and the oldest
\* entry's eviction in CFE_ES_PerfLogAdd must all agree for this to hold.
TriggerWindowKept ==
  autoStopped =>
    \E i \in 1..dataCount :
      /\ RingEntries[i] = trigId
      /\ dataCount - i = KeptAfterTrigger
      /\ SubSeq(RingEntries, i, dataCount) = SubSeq(collected, Len(collected) - KeptAfterTrigger, Len(collected))

\* The newest entries, as many as the ring holds, oldest first.
NewestEntries == SubSeq(collected, IF Len(collected) > BufSize THEN Len(collected) - BufSize + 1 ELSE 1,
                        Len(collected))

\* A dump that completes without a write error has written exactly the
\* newest entries logged before it, oldest first: no start command or
\* PerfLogAdd changes the ring between the stop command and the last chunk,
\* and the chunked, wrapping copy loses or repeats nothing.
DumpWritesNewestEntries ==
  [][dump.cur = DCLOSE /\ dump'.cur = DIDLE /\ ~dump.failed => file = NewestEntries]_vars

\* A stop command's dump always finishes, whether the file cannot be
\* created, a write fails or it succeeds, and leaves no request behind.
DumpFinishes == dump.pending ~> NoDumpInProgress

=============================================================================
