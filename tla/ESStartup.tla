------------------------------ MODULE ESStartup ------------------------------
(***************************************************************************)
(* ES start-up synchronisation (spec.md 4.1): the ES main task starts the *)
(* external applications of the start-up script, then waits, each time    *)
(* bounded by a timeout, first for every application to reach LATE_INIT   *)
(* (system state CORE_READY -> APPS_INIT) and then RUNNING (APPS_INIT ->  *)
(* OPERATIONAL).  Each application's main task meanwhile calls            *)
(* CFE_ES_WaitForSystemState, CFE_ES_WaitForStartupSync or CFE_ES_RunLoop. *)
(*                                                                         *)
(* The ES source is not in the repository: the actions follow the spec    *)
(* and what es_UT.c asserts of CFE_ES_Main ("Startup sync failure": two   *)
(* failed phases), CFE_ES_WaitForSystemState, CFE_ES_WaitForStartupSync   *)
(* and CFE_ES_RunLoop.  Core applications are started and synchronised    *)
(* before CORE_READY and are left out.  A timeout is a step the waiting    *)
(* task may take whenever the condition it waits for does not hold.       *)
(***************************************************************************)
EXTENDS Naturals

CONSTANTS
  Apps,          \* external applications of the start-up script
  Hangers,       \* applications that may hang before any start-up call
  AppTimeouts,   \* applications whose start-up waits have a finite timeout
  ESTimeouts     \* whether the ES main task's sync waits time out

ASSUME Hangers \subseteq Apps /\ AppTimeouts \subseteq Apps /\ ESTimeouts \in BOOLEAN

\* CFE_ES_AppState_*, in the order of their enumeration.
UNDEFINED == 0
EARLY_INIT == 1
LATE_INIT == 2
RUNNING == 3
STOPPED == 5

\* CFE_ES_SystemState_*, in the order of their enumeration.
CORE_READY == 3
APPS_INIT == 4
OPERATIONAL == 5
SHUTDOWN == 6

VARIABLES
  sysState,   \* CFE_ES_Global.SystemState
  esPc,       \* where the ES main task is in CFE_ES_Main
  appState,   \* AppTable[].AppState of each external application
  pc,         \* where each application's main task is
  waitFor     \* the system state an application's main task waits for

vars == <<sysState, esPc, appState, pc, waitFor>>

TypeOK ==
  /\ sysState \in {CORE_READY, APPS_INIT, OPERATIONAL}
  /\ esPc \in {"StartApps", "SyncLateInit", "SyncRunning", "Done"}
  /\ appState \in [Apps -> {UNDEFINED, EARLY_INIT, LATE_INIT, RUNNING, STOPPED}]
  /\ pc \in [Apps -> {"NotCreated", "NoTask", "Init", "Waiting", "Loop", "Hung"}]
  /\ waitFor \in [Apps -> {CORE_READY, APPS_INIT, OPERATIONAL, SHUTDOWN}]

\* The core is up (CORE_READY) and ES is about to process the script.
Init ==
  /\ sysState = CORE_READY
  /\ esPc = "StartApps"
  /\ appState = [a \in Apps |-> UNDEFINED]
  /\ pc = [a \in Apps |-> "NotCreated"]
  /\ waitFor = [a \in Apps |-> CORE_READY]

-----------------------------------------------------------------------------
(* The ES main task.                                                       *)

\* CFE_ES_StartApplications, one script entry per step: the application is
\* created in EARLY_INIT and its main task starts, or its creation fails
\* and the slot stays free.  After the last entry, the first sync.
StartApplication(a) ==
  /\ esPc = "StartApps"
  /\ pc[a] = "NotCreated"
  /\ \/ appState' = [appState EXCEPT ![a] = EARLY_INIT] /\ pc' = [pc EXCEPT ![a] = "Init"]
     \/ pc' = [pc EXCEPT ![a] = "NoTask"] /\ UNCHANGED appState
  /\ esPc' = IF \A b \in Apps \ {a} : pc[b] # "NotCreated" THEN "SyncLateInit" ELSE esPc
  /\ UNCHANGED <<sysState, waitFor>>

\* No application slot in use is in a state before required.
AllAtLeast(required) ==
  \A a \in Apps : appState[a] # UNDEFINED => appState[a] >= required

(* Mutant: the last phase announces the state after OPERATIONAL. *)
PhaseSkipsOperational == [SyncLateInit |-> [req |-> LATE_INIT, next |-> APPS_INIT, pc |-> "SyncRunning"],
                          SyncRunning  |-> [req |-> RUNNING, next |-> SHUTDOWN, pc |-> "Done"]]

\* The phases of the sync: the application state waited for, the system
\* state announced after it and the next phase.
Phase == [SyncLateInit |-> [req |-> LATE_INIT, next |-> APPS_INIT, pc |-> "SyncRunning"],
          SyncRunning  |-> [req |-> RUNNING, next |-> OPERATIONAL, pc |-> "Done"]]

\* CFE_ES_MainTaskSyncDelay returns success: the next system state.
SyncReached ==
  /\ esPc \in DOMAIN Phase
  /\ AllAtLeast(Phase[esPc].req)
  /\ sysState' = Phase[esPc].next
  /\ esPc' = Phase[esPc].pc
  /\ UNCHANGED <<appState, pc, waitFor>>

(* Mutant: after a failed sync the system state is left where it was. *)
SyncTimedOutKeepState ==
  /\ ESTimeouts
  /\ esPc \in DOMAIN Phase
  /\ ~AllAtLeast(Phase[esPc].req)
  /\ esPc' = Phase[esPc].pc
  /\ appState' = IF esPc = "SyncRunning"
                   THEN [a \in Apps |-> IF appState[a] = EARLY_INIT THEN STOPPED ELSE appState[a]]
                   ELSE appState
  /\ UNCHANGED <<sysState, pc, waitFor>>

\* CFE_ES_MainTaskSyncDelay times out: a start-up sync failure is logged
\* and start-up goes on; after the last phase, applications still in
\* EARLY_INIT are forced to STOPPED (spec 4.1).
SyncTimedOut ==
  /\ ESTimeouts
  /\ esPc \in DOMAIN Phase
  /\ ~AllAtLeast(Phase[esPc].req)
  /\ sysState' = Phase[esPc].next
  /\ esPc' = Phase[esPc].pc
  /\ appState' = IF esPc = "SyncRunning"
                   THEN [a \in Apps |-> IF appState[a] = EARLY_INIT THEN STOPPED ELSE appState[a]]
                   ELSE appState
  /\ UNCHANGED <<pc, waitFor>>

ESMain == (\E a \in Apps : StartApplication(a)) \/ SyncReached \/ SyncTimedOut

-----------------------------------------------------------------------------
(* The applications' main tasks.                                           *)

(* Mutant: APPS_INIT waited for without first moving to LATE_INIT. *)
StateForWaitNoLateInit(min) ==
  CASE min = APPS_INIT -> EARLY_INIT [] min = OPERATIONAL -> RUNNING [] min = SHUTDOWN -> STOPPED

\* The state CFE_ES_WaitForSystemState gives the caller before waiting:
\* LATE_INIT for APPS_INIT, RUNNING for OPERATIONAL, STOPPED for SHUTDOWN.
StateForWait(min) ==
  CASE min = APPS_INIT -> LATE_INIT [] min = OPERATIONAL -> RUNNING [] min = SHUTDOWN -> STOPPED

\* An application's state is only ever raised.
Raised(s, t) == IF s < t THEN t ELSE s

\* CFE_ES_WaitForSystemState(min) (CFE_ES_WaitForStartupSync waits for
\* OPERATIONAL): the caller's state is raised, then it waits.  SHUTDOWN is
\* only waited for with a timeout.
CallWait(a) ==
  /\ pc[a] = "Init"
  /\ \E min \in {APPS_INIT, OPERATIONAL, SHUTDOWN} :
       /\ min = SHUTDOWN => a \in AppTimeouts
       /\ appState' = [appState EXCEPT ![a] = Raised(@, StateForWait(min))]
       /\ waitFor' = [waitFor EXCEPT ![a] = min]
  /\ pc' = [pc EXCEPT ![a] = "Waiting"]
  /\ UNCHANGED <<sysState, esPc>>

\* The wait ends: the system state was reached (CFE_SUCCESS) or, for an
\* application with a finite timeout, CFE_ES_OPERATION_TIMED_OUT.  After
\* APPS_INIT the application goes on to wait for OPERATIONAL; otherwise it
\* enters its main loop.
WaitEnds(a) ==
  /\ pc[a] = "Waiting"
  /\ sysState >= waitFor[a] \/ a \in AppTimeouts
  /\ IF waitFor[a] = APPS_INIT
       THEN /\ appState' = [appState EXCEPT ![a] = Raised(@, StateForWait(OPERATIONAL))]
            /\ waitFor' = [waitFor EXCEPT ![a] = OPERATIONAL]
            /\ UNCHANGED pc
       ELSE pc' = [pc EXCEPT ![a] = "Loop"] /\ UNCHANGED <<appState, waitFor>>
  /\ UNCHANGED <<sysState, esPc>>

\* CFE_ES_RunLoop called without a start-up sync: EARLY_INIT -> RUNNING.
RunLoopFirst(a) ==
  /\ pc[a] = "Init"
  /\ appState' = [appState EXCEPT ![a] = IF @ = EARLY_INIT THEN RUNNING ELSE @]
  /\ pc' = [pc EXCEPT ![a] = "Loop"]
  /\ UNCHANGED <<sysState, esPc, waitFor>>

\* The application hangs in its own initialisation.
Hang(a) ==
  /\ pc[a] = "Init" /\ a \in Hangers
  /\ pc' = [pc EXCEPT ![a] = "Hung"]
  /\ UNCHANGED <<sysState, esPc, appState, waitFor>>

AppTask(a) == CallWait(a) \/ WaitEnds(a) \/ RunLoopFirst(a) \/ Hang(a)

Next == ESMain \/ \E a \in Apps : AppTask(a)

\* The ES main task always runs again (its sync waits are delay loops);
\* each application's main task, once ready, is eventually scheduled.
Spec == Init /\ [][Next]_vars /\ WF_vars(ESMain) /\ \A a \in Apps : WF_vars(AppTask(a))

-----------------------------------------------------------------------------
(* Properties.                                                             *)

\* No circular wait between the ES main task and an application: while ES
\* waits in a sync phase, every application waiting for the system state
\* that phase (or a later one) announces is already in the state the phase
\* requires, so it is never what holds the phase up.  This is what
\* CFE_ES_WaitForSystemState setting the caller's state before it waits
\* guarantees; without it ES waits for LATE_INIT while the application
\* waits for APPS_INIT, and only a timeout ends start-up.
NoCircularWait ==
  esPc \in DOMAIN Phase =>
    \A a \in Apps : pc[a] = "Waiting" /\ waitFor[a] >= Phase[esPc].next
                     => appState[a] >= Phase[esPc].req

\* However long the applications in Hangers hang, every other application
\* gets through start-up to its main loop, even one whose own waits never
\* time out: the ES main task's sync timeouts alone move the system state
\* on (an application whose creation failed has no task to wait for).
OthersStartDespiteHang ==
  <>(\A a \in Apps \ Hangers : pc[a] \in {"Loop", "NoTask"})

=============================================================================
