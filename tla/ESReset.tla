------------------------------- MODULE ESReset -------------------------------
(***************************************************************************)
(* The ES reset bookkeeping (spec.md 3, 4.1, 4.5): the processor-reset    *)
(* counter that guards against boot loops, and the Exception and Reset   *)
(* (E&R) log, both kept in the reset area, which survives a processor    *)
(* reset and is cleared by a power-on reset.                             *)
(*                                                                         *)
(* The ES source is not in the repository: each action follows the spec   *)
(* and what es_UT.c asserts for CFE_ES_SetupResetVariables,              *)
(* CFE_ES_ResetCFE, CFE_ES_RunExceptionScan, CFE_ES_WriteToERLog, the     *)
(* restart, reset-count and E&R log commands and CFE_ES_RunERLogDump.     *)
(*                                                                         *)
(* A processor reset is counted once: by CFE_ES_ResetCFE, which then sets *)
(* ES_CausedReset, when ES commands it; by CFE_ES_SetupResetVariables on  *)
(* the next start, when the hardware (watchdog, special command) caused   *)
(* it.  The cFE is either up or between a restart and its next start;     *)
(* start-up itself is one step.  An E&R log entry is abstracted to a      *)
(* unique id.                                                              *)
(***************************************************************************)
EXTENDS Naturals, Sequences

CONSTANTS
  MaxPRDefault,  \* CFE_PLATFORM_ES_MAX_PROCESSOR_RESETS
  MaxPRValues,   \* MaxPRCount values a SetMaxPRCount command may carry
  EREntries,     \* CFE_PLATFORM_ES_ER_LOG_ENTRIES
  MaxResets      \* bound on the number of resets

ASSUME /\ MaxPRDefault \in Nat /\ MaxPRValues \subseteq Nat
       /\ EREntries \in Nat \ {0} /\ MaxResets \in Nat

PROCESSOR == "PROCESSOR"   \* CFE_PSP_RST_TYPE_PROCESSOR
POWERON == "POWERON"       \* CFE_PSP_RST_TYPE_POWERON

\* Each reset logs at most two entries (the escalation and the power-on).
MaxLogs == 2 * MaxResets + 1
ERSlots == 0..EREntries-1
EmptyERLog == [i \in ERSlots |-> 0]

VARIABLES
  prCount,      \* ResetVars.ProcessorResetCount
  maxPR,        \* ResetVars.MaxProcessorResetCount
  causedReset,  \* ResetVars.ES_CausedReset
  erLog,        \* ERLog: entry ids, 0 for an empty entry
  erIndex,      \* ERLogIndex
  erEntries,    \* ERLogEntries
  erPending,    \* BackgroundERLogDumpState.IsPending (RAM)
  up,           \* the cFE is running (FALSE: restarted, not yet started)
  bootType,     \* the reset type the PSP reports at the next start
  resets,       \* resets so far (bounds the run)
  nextLog,      \* id of the next E&R log entry
  sinceClear,   \* ghost: processor resets since the last power-on or count reset
  erHist        \* ghost: E&R entries logged since the log was last emptied

vars == <<prCount, maxPR, causedReset, erLog, erIndex, erEntries, erPending,
          up, bootType, resets, nextLog, sinceClear, erHist>>
resetVars == <<prCount, maxPR, causedReset>>
erVars == <<erLog, erIndex, erEntries, nextLog, erHist>>

TypeOK ==
  /\ prCount \in 0..MaxResets + 1
  /\ maxPR \in {MaxPRDefault} \cup MaxPRValues
  /\ causedReset \in BOOLEAN
  /\ erLog \in [ERSlots -> 0..MaxLogs]
  /\ erIndex \in ERSlots
  /\ erEntries \in 0..MaxLogs
  /\ erPending \in BOOLEAN
  /\ up \in BOOLEAN
  /\ bootType \in {PROCESSOR, POWERON}
  /\ resets \in 0..MaxResets
  /\ nextLog \in 1..MaxLogs + 1
  /\ sinceClear \in 0..MaxResets
  /\ erHist \in Seq(1..MaxLogs)

\* Power applied: the reset area holds no valid data until the first start,
\* a power-on one.
Init ==
  /\ prCount = 0 /\ maxPR = MaxPRDefault /\ causedReset = FALSE
  /\ erLog = EmptyERLog /\ erIndex = 0 /\ erEntries = 0
  /\ erPending = FALSE
  /\ up = FALSE
  /\ bootType = POWERON
  /\ resets = 0
  /\ nextLog = 1
  /\ sinceClear = 0
  /\ erHist = <<>>

-----------------------------------------------------------------------------
(* CFE_ES_WriteToERLog.                                                    *)

(* Mutant: the index wrapped only once it is past the last entry. *)
ERSlotLate(i) == IF i > EREntries THEN 0 ELSE i

\* An index at or past the end of the log wraps to its first entry.
ERSlot(i) == IF i >= EREntries THEN 0 ELSE i

\* One entry written at the (wrapped) index into a log whose index, entry
\* count and history are idx, n and hist; the index advances and wraps.
WriteToERLog(log, idx, n, hist) ==
  /\ erLog' = [log EXCEPT ![ERSlot(idx)] = nextLog]
  /\ erIndex' = ERSlot(ERSlot(idx) + 1)
  /\ erEntries' = n + 1
  /\ nextLog' = nextLog + 1
  /\ erHist' = Append(hist, nextLog)

-----------------------------------------------------------------------------
(* Resets.                                                                 *)

(* Mutant: the limit tested on the count before it is incremented. *)
OverLimitBeforeIncrement(n) == n - 1 > maxPR

\* A processor reset count past MaxProcessorResetCount.
OverLimit(n) == n > maxPR

\* The processor goes down; only the reset area survives.
Restart(t) ==
  /\ up' = FALSE
  /\ bootType' = t
  /\ erPending' = FALSE

(* Mutant: a commanded processor reset not marked as caused by ES. *)
ResetCFENoCaused(t) ==
  /\ up /\ resets < MaxResets
  /\ resets' = resets + 1
  /\ WriteToERLog(erLog, erIndex, erEntries, erHist)
  /\ IF t = PROCESSOR
       THEN /\ prCount' = prCount + 1
            /\ IF OverLimit(prCount + 1)
                 THEN Restart(POWERON) /\ UNCHANGED <<causedReset, sinceClear>>
                 ELSE Restart(PROCESSOR) /\ sinceClear' = sinceClear + 1
                      /\ UNCHANGED causedReset
       ELSE Restart(POWERON) /\ UNCHANGED <<prCount, causedReset, sinceClear>>
  /\ UNCHANGED maxPR

\* CFE_ES_ResetCFE(t): a processor reset is counted here; past the limit
\* it becomes a power-on reset, otherwise ES_CausedReset is set so the
\* next start does not count it again.  Either is logged first.
ResetCFE(t) ==
  /\ up /\ resets < MaxResets
  /\ resets' = resets + 1
  /\ WriteToERLog(erLog, erIndex, erEntries, erHist)
  /\ IF t = PROCESSOR
       THEN /\ prCount' = prCount + 1
            /\ IF OverLimit(prCount + 1)
                 THEN Restart(POWERON) /\ UNCHANGED <<causedReset, sinceClear>>
                 ELSE Restart(PROCESSOR) /\ sinceClear' = sinceClear + 1
                      /\ causedReset' = TRUE
       ELSE Restart(POWERON) /\ UNCHANGED <<prCount, causedReset, sinceClear>>
  /\ UNCHANGED maxPR

\* CFE_ES_RestartCmd with a valid restart type (an invalid one is rejected
\* with CFE_ES_BOOT_ERR_EID and changes nothing).
RestartCmd == \E t \in {PROCESSOR, POWERON} : ResetCFE(t)

\* CFE_ES_RunExceptionScan for an exception that is not an application
\* restart (a CORE app, RESTART_APP not set, or no owner found): a
\* processor reset through the same count and limit.
ExceptionReset == ResetCFE(PROCESSOR)

\* The hardware resets the processor (watchdog, special command): nothing
\* is counted or logged until the next start.
HardwareReset ==
  /\ up /\ resets < MaxResets
  /\ resets' = resets + 1
  /\ Restart(PROCESSOR)
  /\ sinceClear' = sinceClear + 1
  /\ UNCHANGED <<resetVars, erVars>>

\* Power cycled: the next start is a power-on one.
PowerCycle ==
  /\ up /\ resets < MaxResets
  /\ resets' = resets + 1
  /\ Restart(POWERON)
  /\ UNCHANGED <<resetVars, erVars, sinceClear>>

\* CFE_ES_SetupResetVariables, power-on start: the counters and the E&R
\* log are initialized and the power-on reset logged.
StartPowerOn ==
  /\ bootType = POWERON
  /\ prCount' = 0 /\ maxPR' = MaxPRDefault /\ causedReset' = FALSE
  /\ WriteToERLog(EmptyERLog, 0, 0, <<>>)
  /\ sinceClear' = 0
  /\ up' = TRUE
  /\ UNCHANGED <<bootType, erPending>>

\* Processor start after a reset ES caused and has counted and logged.
StartCausedByES ==
  /\ bootType = PROCESSOR /\ causedReset
  /\ causedReset' = FALSE
  /\ up' = TRUE
  /\ UNCHANGED <<prCount, maxPR, erVars, bootType, erPending, sinceClear>>

\* Processor start after a hardware reset: counted and logged here; past
\* the limit, CFE_PSP_Restart(POWERON) instead of starting.
StartCounted ==
  /\ bootType = PROCESSOR /\ ~causedReset
  /\ prCount' = prCount + 1
  /\ WriteToERLog(erLog, erIndex, erEntries, erHist)
  /\ IF OverLimit(prCount + 1)
       THEN bootType' = POWERON /\ UNCHANGED <<up, causedReset>>
       ELSE up' = TRUE /\ causedReset' = FALSE /\ UNCHANGED bootType
  /\ UNCHANGED <<maxPR, erPending, sinceClear>>

SetupResetVariables ==
  /\ ~up
  /\ StartPowerOn \/ StartCausedByES \/ StartCounted
  /\ UNCHANGED resets

-----------------------------------------------------------------------------
(* Ground commands and the E&R log dump job.                              *)

\* CFE_ES_ResetPRCountCmd.
ResetPRCount ==
  /\ up
  /\ prCount' = 0 /\ sinceClear' = 0
  /\ UNCHANGED <<maxPR, causedReset, erVars, erPending, up, bootType, resets>>

\* CFE_ES_SetMaxPRCountCmd.
SetMaxPRCount ==
  /\ up
  /\ \E m \in MaxPRValues : maxPR' = m
  /\ UNCHANGED <<prCount, causedReset, erVars, erPending, up, bootType, resets, sinceClear>>

\* CFE_ES_ClearERLogCmd: the log emptied, index and entry count zeroed.
ClearERLog ==
  /\ up
  /\ erLog' = EmptyERLog /\ erIndex' = 0 /\ erEntries' = 0 /\ erHist' = <<>>
  /\ UNCHANGED <<resetVars, nextLog, erPending, up, bootType, resets, sinceClear>>

\* CFE_ES_WriteERLogCmd: the background dump requested (a second request
\* while one is pending is rejected with CFE_ES_ERLOG_PENDING_ERR_EID).
WriteERLogCmd ==
  /\ up /\ ~erPending
  /\ erPending' = TRUE
  /\ UNCHANGED <<resetVars, erVars, up, bootType, resets, sinceClear>>

\* CFE_ES_RunERLogDump: the whole log written in one call; whether the
\* create, header or entry writes succeed, the request is cleared.
RunERLogDump ==
  /\ up /\ erPending
  /\ erPending' = FALSE
  /\ UNCHANGED <<resetVars, erVars, up, bootType, resets, sinceClear>>

Next ==
  \/ RestartCmd
  \/ ExceptionReset
  \/ HardwareReset
  \/ PowerCycle
  \/ SetupResetVariables
  \/ ResetPRCount
  \/ SetMaxPRCount
  \/ ClearERLog
  \/ WriteERLogCmd
  \/ RunERLogDump

Spec == Init /\ [][Next]_vars

-----------------------------------------------------------------------------
(* Properties.                                                             *)

\* While the cFE runs, ProcessorResetCount equals the processor resets
\* since the last power-on reset or ResetPRCount command: each counted
\* once, whether ES commanded it (counted in CFE_ES_ResetCFE, which sets
\* ES_CausedReset) or the hardware did (counted at the next start), and
\* whichever came after which.
ResetsCountedOnce == up => prCount = sinceClear

\* The cFE never comes up from a processor reset when more processor
\* resets than MaxProcessorResetCount have happened since the last
\* power-on reset or count reset: the limit test in CFE_ES_ResetCFE and in
\* CFE_ES_SetupResetVariables turns such a reset into a power-on reset,
\* also after a SetMaxPRCount command lowered the maximum.
ResetLimitHonoured ==
  [][~up /\ up' /\ bootType = PROCESSOR => sinceClear' <= maxPR']_vars

\* The E&R log holds the newest entries logged since it was last emptied
\* (by a power-on start or a clear command), each at its place in the
\* ring, and ERLogEntries counts them all: processor resets keep it, and
\* the index wraps exactly at the end of the log.
ERLogKeepsNewest ==
  /\ erEntries = Len(erHist)
  /\ \A k \in 1..Len(erHist) :
       k > Len(erHist) - EREntries => erLog[(k - 1) % EREntries] = erHist[k]

=============================================================================
