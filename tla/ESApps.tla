------------------------------ MODULE ESApps ------------------------------
(***************************************************************************)
(* The Executive Services application lifecycle: the application and task *)
(* tables, the control requests that ground commands and exceptions place *)
(* on an application, the application main task's calls into ES          *)
(* (CFE_ES_RunLoop, CFE_ES_ExitApp, child task creation and deletion),    *)
(* the periodic application table scan that times out and acts on those  *)
(* requests, the exception scan, and processor / power-on resets.         *)
(*                                                                         *)
(* The ES sources are not in the repository: the model follows spec.md   *)
(* sections 3, 4.1 and 5, and the outcomes the unit tests of              *)
(* unit-test/es_UT.c assert for CFE_ES_RunAppTableScan,                   *)
(* CFE_ES_ProcessControlRequest, CFE_ES_RunLoop, CFE_ES_ExitApp and       *)
(* CFE_ES_RunExceptionScan.                                               *)
(*                                                                         *)
(* Every action is one call made under the shared-data lock, so it is     *)
(* atomic; the scan and the processing of the requests it timed out are   *)
(* two steps, between which the application tasks may run.  Application  *)
(* tasks get no fairness: an application may hang and never call ES again.*)
(***************************************************************************)
EXTENDS Integers, FiniteSets

CONSTANTS
  Slots,            \* application table slots
  Tasks,            \* OS task ids
  Core,             \* the slots the startup script fills with CORE apps
  RestartOnExc,     \* external slots whose ExceptionAction is RESTART_APP
  KillTimeout,      \* scans a WAITING/STOPPED app gets before ES acts
  MaxProcResets,    \* MaxProcessorResetCount
  NoApp, NoTask     \* "no owner", "no main task"

ASSUME /\ Core \subseteq Slots /\ RestartOnExc \subseteq Slots \ Core
       /\ KillTimeout \in Nat \ {0} /\ MaxProcResets \in Nat
       /\ NoApp \notin Slots /\ NoTask \notin Tasks

External == Slots \ Core

\* CFE_ES_AppState_*
UNDEFINED == "UNDEFINED"  EARLY_INIT == "EARLY_INIT"  RUNNING == "RUNNING"
WAITING == "WAITING"      STOPPED == "STOPPED"
AppStates == {UNDEFINED, EARLY_INIT, RUNNING, WAITING, STOPPED}

\* CFE_ES_RunStatus_*
APP_RUN == "APP_RUN"   APP_EXIT == "APP_EXIT"   APP_ERROR == "APP_ERROR"
SYS_DELETE == "SYS_DELETE"  SYS_RESTART == "SYS_RESTART"
SYS_RELOAD == "SYS_RELOAD"
RunStatus == {APP_RUN, APP_EXIT, APP_ERROR, SYS_DELETE, SYS_RESTART, SYS_RELOAD}
CommandRequests == {SYS_DELETE, SYS_RESTART, SYS_RELOAD}

\* where an application's main task is in its own code
Looping == "looping"    \* calling CFE_ES_RunLoop
Exiting == "exiting"    \* RunLoop said stop: about to call CFE_ES_ExitApp
Parked  == "parked"     \* inside CFE_ES_ExitApp, waiting to be deleted
NoCode  == "none"

VARIABLES
  appState,     \* AppTable[a].AppState
  ctrlReq,      \* AppTable[a].ControlReq.AppControlRequest
  timer,        \* AppTable[a].ControlReq.AppTimer, in scans
  mainTask,     \* AppTable[a].TaskInfo.MainTaskId
  taskOwner,    \* TaskTable[t].AppId, NoApp when RecordUsed is false
  appPc,        \* the main task's position in its own loop
  pendingPCR,   \* apps the last table scan timed out, not yet processed
  excPending,   \* tasks with an exception the platform has recorded
  excStale,     \* pending exceptions whose recorded task id no longer
                \* names the task record (freed or reused since)
  procResets    \* ResetVars.ProcessorResetCount (survives processor resets)

vars == <<appState, ctrlReq, timer, mainTask, taskOwner, appPc, pendingPCR,
          excPending, excStale, procResets>>

TypeOK ==
  /\ appState \in [Slots -> AppStates]
  /\ ctrlReq \in [Slots -> RunStatus]
  /\ timer \in [Slots -> 0..KillTimeout]
  /\ mainTask \in [Slots -> Tasks \cup {NoTask}]
  /\ taskOwner \in [Tasks -> Slots \cup {NoApp}]
  /\ appPc \in [Slots -> {Looping, Exiting, Parked, NoCode}]
  /\ pendingPCR \subseteq External
  /\ excPending \subseteq Tasks
  /\ excStale \subseteq excPending
  /\ procResets \in 0..MaxProcResets

-----------------------------------------------------------------------------
FreeTasks == {t \in Tasks : taskOwner[t] = NoApp}

(* The empty tables of a power-on or processor reset. *)
EmptyTables ==
  /\ appState' = [a \in Slots |-> UNDEFINED]
  /\ ctrlReq' = [a \in Slots |-> APP_RUN]
  /\ timer' = [a \in Slots |-> 0]
  /\ mainTask' = [a \in Slots |-> NoTask]
  /\ taskOwner' = [t \in Tasks |-> NoApp]
  /\ appPc' = [a \in Slots |-> NoCode]
  /\ pendingPCR' = {}
  /\ excPending' = {}

Init ==
  /\ appState = [a \in Slots |-> UNDEFINED]
  /\ ctrlReq = [a \in Slots |-> APP_RUN]
  /\ timer = [a \in Slots |-> 0]
  /\ mainTask = [a \in Slots |-> NoTask]
  /\ taskOwner = [t \in Tasks |-> NoApp]
  /\ appPc = [a \in Slots |-> NoCode]
  /\ pendingPCR = {}
  /\ excPending = {}
  /\ excStale = {}
  /\ procResets = 0

(* CFE_ES_AppCreate into a free slot with main task t: the slot becomes   *)
(* EARLY_INIT with a fresh control request.  A load, symbol or task       *)
(* creation failure unwinds everything and changes no table.              *)
AppCreated(a, t) ==
  /\ appState' = [appState EXCEPT ![a] = EARLY_INIT]
  /\ ctrlReq' = [ctrlReq EXCEPT ![a] = APP_RUN]
  /\ timer' = [timer EXCEPT ![a] = 0]
  /\ mainTask' = [mainTask EXCEPT ![a] = t]
  /\ appPc' = [appPc EXCEPT ![a] = Looping]

AppCreate(a) ==
  /\ appState[a] = UNDEFINED
  /\ \E t \in FreeTasks :
       /\ AppCreated(a, t)
       /\ taskOwner' = [taskOwner EXCEPT ![t] = a]
  /\ UNCHANGED <<pendingPCR, excPending, procResets>>

(* CFE_ES_CleanUpApp's effect on the task table: every task record of the *)
(* application, main and child tasks, is freed, except those whose       *)
(* OS_TaskDelete failed (the set failed): their RecordUsed stays true,     *)
(* still naming the application, and the call returns                     *)
(* CFE_ES_APP_CLEANUP_ERR.                                                *)
CleanUpApp(a, owner, failed) ==
  [t \in Tasks |-> IF owner[t] = a /\ t \notin failed THEN NoApp ELSE owner[t]]

-----------------------------------------------------------------------------
(* Calls of an application's main task                                    *)

(* CFE_ES_RunLoop(&status): a status other than APP_RUN becomes the      *)
(* request if none is pending; with no request pending the first call    *)
(* moves EARLY_INIT to RUNNING and the loop goes on, otherwise it stops.  *)
(* Mutant: the caller's status stored over a pending request. *)
RunLoopRequestOverwrite(status, pending) == status

(* The request after RunLoop: the caller's exit status only when no     *)
(* request is pending.                                                  *)
RunLoopRequest(status, pending) ==
  IF status # APP_RUN /\ pending = APP_RUN THEN status ELSE pending

RunLoop(a, status) ==
  /\ appPc[a] = Looping
  /\ taskOwner[mainTask[a]] = a
  /\ LET req == RunLoopRequest(status, ctrlReq[a])
     IN  /\ ctrlReq' = [ctrlReq EXCEPT ![a] = req]
         /\ IF req = APP_RUN
            THEN /\ appState' = [appState EXCEPT ![a] =
                                   IF @ = EARLY_INIT THEN RUNNING ELSE @]
                 /\ UNCHANGED appPc
            ELSE /\ appPc' = [appPc EXCEPT ![a] = Exiting]
                 /\ UNCHANGED appState
  /\ UNCHANGED <<timer, mainTask, taskOwner, pendingPCR, excPending,
                 procResets>>

(* CFE_ES_ExitApp for an external application: STOPPED, and the task     *)
(* parks until ES deletes it.  A CORE application exiting is fatal and   *)
(* is handled as a processor reset (ExitCore below).                      *)
ExitApp(a) ==
  /\ appPc[a] = Exiting
  /\ a \in External
  /\ appState' = [appState EXCEPT ![a] = STOPPED]
  /\ appPc' = [appPc EXCEPT ![a] = Parked]
  /\ UNCHANGED <<ctrlReq, timer, mainTask, taskOwner, pendingPCR, excPending,
                 procResets>>

(* CFE_ES_CreateChildTask from the application's main task. *)
CreateChildTask(a) ==
  /\ appPc[a] = Looping
  /\ appState[a] = RUNNING
  /\ \E t \in FreeTasks : taskOwner' = [taskOwner EXCEPT ![t] = a]
  /\ UNCHANGED <<appState, ctrlReq, timer, mainTask, appPc, pendingPCR,
                 excPending, procResets>>

(* CFE_ES_DeleteChildTask: refused for a main task. *)
DeleteChildTask(a, t) ==
  /\ appPc[a] = Looping
  /\ taskOwner[t] = a
  /\ t # mainTask[a]
  /\ taskOwner' = [taskOwner EXCEPT ![t] = NoApp]
  /\ UNCHANGED <<appState, ctrlReq, timer, mainTask, appPc, pendingPCR,
                 excPending, procResets>>

(* CFE_ES_ExitChildTask called by child task t of application a: its     *)
(* record is freed and the task exits.  Called from the main task it only *)
(* logs an error, and from a task without a record it cannot resolve the *)
(* app id; neither changes the tables.                                    *)
ExitChildTask(a, t) ==
  /\ taskOwner[t] = a
  /\ t # mainTask[a]
  /\ taskOwner' = [taskOwner EXCEPT ![t] = NoApp]
  /\ UNCHANGED <<appState, ctrlReq, timer, mainTask, appPc, pendingPCR,
                 excPending, procResets>>

-----------------------------------------------------------------------------
(* Ground commands: CFE_ES_DeleteApp / RestartApp / ReloadApp accept only *)
(* a RUNNING external application and only record the request.           *)
(* The command checks of CFE_ES_DeleteApp / RestartApp / ReloadApp. *)
CommandAccepted(a) == a \in External /\ appState[a] = RUNNING

ControlCommand(a, req) ==
  /\ CommandAccepted(a)
  /\ ctrlReq' = [ctrlReq EXCEPT ![a] = req]
  /\ UNCHANGED <<appState, timer, mainTask, taskOwner, appPc, pendingPCR,
                 excPending, procResets>>

(* Mutant: a scan that never counts the timer down. *)
ScanTimerStuck(a) == timer[a]

(* The timer of a WAITING or STOPPED application after one scan period:  *)
(* decremented while it exceeds the elapsed period, else zero.            *)
ScanTimer(a) == IF timer[a] > 1 THEN timer[a] - 1 ELSE 0

(* The states in which the scan counts an application's kill timer down. *)
IsWindingDown(a) == appState[a] \in {WAITING, STOPPED}

(* CFE_ES_RunAppTableScan: a RUNNING external app with a request pending *)
(* becomes WAITING with the kill timeout; a WAITING or STOPPED one has    *)
(* its timer counted down, and once the timer no longer exceeds the scan *)
(* period it is zeroed and the app is listed for                          *)
(* CFE_ES_ProcessControlRequest.  EARLY_INIT and CORE apps are left       *)
(* alone.  The scan runs only once its previous list has been processed. *)
AppTableScan ==
  /\ pendingPCR = {}
  /\ LET Winding == {a \in External : IsWindingDown(a)}
         Asked == {a \in External : appState[a] = RUNNING /\ ctrlReq[a] # APP_RUN}
     IN  /\ pendingPCR' = {a \in Winding : ScanTimer(a) = 0}
         /\ appState' = [a \in Slots |-> IF a \in Asked THEN WAITING ELSE appState[a]]
         /\ timer' = [a \in Slots |->
                        CASE a \in Asked   -> KillTimeout
                          [] a \in Winding -> ScanTimer(a)
                          [] OTHER         -> timer[a]]
  /\ UNCHANGED <<ctrlReq, mainTask, taskOwner, appPc, excPending, procResets>>

(* The slot after a cleanup that is not followed by a new start. *)
SlotFreed(a, owner) ==
  /\ appState' = [appState EXCEPT ![a] = UNDEFINED]
  /\ taskOwner' = owner
  /\ mainTask' = [mainTask EXCEPT ![a] = NoTask]
  /\ appPc' = [appPc EXCEPT ![a] = NoCode]
  /\ UNCHANGED <<ctrlReq, timer>>

(* CFE_ES_ProcessControlRequest for a timed-out application: exit, error *)
(* and delete clean it up (an error event when the cleanup fails);       *)
(* restart and reload clean it up and, when the cleanup succeeded,       *)
(* create it again from its start parameters.  A failed cleanup          *)
(* (RESTART_APP_ERR4 / RELOAD_APP_ERR4) or a failed create               *)
(* (RESTART_APP_ERR3 / RELOAD_APP_ERR3) leaves the slot free.  failed is *)
(* the set of the application's tasks whose deletion fails.               *)
ProcessControlRequest(a) ==
  /\ a \in pendingPCR
  /\ pendingPCR' = pendingPCR \ {a}
  /\ \E failed \in SUBSET {t \in Tasks : taskOwner[t] = a} :
       LET owner == CleanUpApp(a, taskOwner, failed) IN
       \/ /\ ctrlReq[a] \in {APP_EXIT, APP_ERROR, SYS_DELETE}
          /\ SlotFreed(a, owner)
       \/ /\ ctrlReq[a] \in {SYS_RESTART, SYS_RELOAD}
          /\ failed = {}
          /\ \E t \in {u \in Tasks : owner[u] = NoApp} :
               /\ AppCreated(a, t)
               /\ taskOwner' = [owner EXCEPT ![t] = a]
       \/ /\ ctrlReq[a] \in {SYS_RESTART, SYS_RELOAD}
          /\ SlotFreed(a, owner)
  /\ UNCHANGED <<excPending, procResets>>

-----------------------------------------------------------------------------
(* Exceptions and resets                                                  *)

(* The platform records an exception in some task. *)
TaskException(t) ==
  /\ taskOwner[t] # NoApp
  /\ t \notin excPending
  /\ excPending' = excPending \cup {t}
  /\ UNCHANGED <<appState, ctrlReq, timer, mainTask, taskOwner, appPc,
                 pendingPCR, procResets>>

(* Mutant: the reset limit compared with <= instead of <. *)
BelowResetLimitOffByOne(n) == n <= MaxProcResets

(* Whether another processor reset is allowed before a power-on reset.   *)
BelowResetLimit(n) == n < MaxProcResets

(* A processor reset while the count allows one, a power-on reset (which *)
(* clears the count) once it has reached MaxProcessorResetCount.          *)
Reset ==
  /\ EmptyTables
  /\ procResets' = IF BelowResetLimit(procResets) THEN procResets + 1 ELSE 0

(* The application CFE_ES_RunExceptionScan resolves from the task id the *)
(* platform reported: none when that id no longer names a task record.   *)
ExceptionOwner(t) == IF t \in excStale THEN NoApp ELSE taskOwner[t]

(* CFE_ES_RunExceptionScan for the exception of task t: an external app   *)
(* whose ExceptionAction is RESTART_APP gets a SYS_RESTART request; an    *)
(* exception of a CORE app, of any other app, or of a task whose owner   *)
(* can no longer be found, resets the processor.                          *)
ExceptionScan(t) ==
  /\ t \in excPending
  /\ LET a == ExceptionOwner(t)
     IN  IF a \in RestartOnExc
         THEN /\ ctrlReq' = [ctrlReq EXCEPT ![a] = SYS_RESTART]
              /\ excPending' = excPending \ {t}
              /\ UNCHANGED <<appState, timer, mainTask, taskOwner, appPc,
                             pendingPCR, procResets>>
         ELSE Reset

(* CFE_ES_ExitApp of a CORE application: a CORE_APP_RUNTIME_ERROR, which *)
(* resets the processor.                                                  *)
ExitCore(a) ==
  /\ appPc[a] = Exiting
  /\ a \in Core
  /\ Reset

-----------------------------------------------------------------------------
(* A live application restarted in place by CFE_ES_ProcessControlRequest. *)
Restarted(a) ==
  /\ a # NoApp
  /\ appState[a] \notin {UNDEFINED, EARLY_INIT}
  /\ appState'[a] = EARLY_INIT

(* A task id names one use of a task record: an exception recorded for a *)
(* task no longer resolves once its record has been freed or reassigned, *)
(* or its app restarted (which may hand the same record to the new main  *)
(* task, under a new task id).  A record whose deletion failed keeps its *)
(* task id and still resolves, to whatever application now holds the    *)
(* slot it names.                                                        *)
TaskIdentity ==
  excStale' = {t \in excPending' :
                 \/ t \in excStale
                 \/ taskOwner[t] # NoApp /\ taskOwner'[t] # taskOwner[t]
                 \/ Restarted(taskOwner[t])}

Step ==
  \/ \E a \in Slots : AppCreate(a)
  \/ \E a \in Slots, s \in {APP_RUN, APP_EXIT, APP_ERROR} : RunLoop(a, s)
  \/ \E a \in Slots : ExitApp(a) \/ ExitCore(a) \/ CreateChildTask(a)
  \/ \E a \in Slots, t \in Tasks : DeleteChildTask(a, t) \/ ExitChildTask(a, t)
  \/ \E a \in Slots, r \in CommandRequests : ControlCommand(a, r)
  \/ AppTableScan
  \/ \E a \in Slots : ProcessControlRequest(a)
  \/ \E t \in Tasks : TaskException(t) \/ ExceptionScan(t)

(* Every step of the system, with the task ids it invalidates. *)
Tracked(A) == A /\ TaskIdentity

Next == Tracked(Step)

(* The ES background task runs the table scan periodically and processes *)
(* what it lists: weak fairness.  Application tasks, commands, exceptions *)
(* and creations get none.                                                *)
Fairness ==
  /\ WF_vars(Tracked(AppTableScan))
  /\ \A a \in Slots : WF_vars(Tracked(ProcessControlRequest(a)))

Spec == Init /\ [][Next]_vars /\ Fairness

-----------------------------------------------------------------------------
(* Properties                                                             *)

(* The refinement mapping: a slot is free when UNDEFINED, ending while a  *)
(* control request other than APP_RUN is pending, starting in EARLY_INIT *)
(* and running otherwise.                                                *)
AbstractSlot(a) ==
  CASE appState[a] = UNDEFINED  -> "Free"
    [] ctrlReq[a] # APP_RUN     -> "Ending"
    [] appState[a] = EARLY_INIT -> "Starting"
    [] OTHER                    -> "Running"

Abstract == INSTANCE AppSlots WITH slot <- [a \in Slots |-> AbstractSlot(a)]

(* The application table behaves as AppSlots promises: every call of the  *)
(* applications, commands, scans and resets either leaves each slot's    *)
(* abstract state alone or moves it along Free -> Starting -> Running -> *)
(* Ending -> Free or Starting.  In particular a pending request is never *)
(* withdrawn by a later RunLoop status, and no slot is reused before its *)
(* cleanup.                                                              *)
ImplementsAppSlots == Abstract!Spec

(* A control request placed on a RUNNING external application is acted   *)
(* on: the application eventually leaves RUNNING for a fresh start or a  *)
(* free slot, even when its task hangs and never calls CFE_ES_RunLoop     *)
(* again, because the table scan's kill timer runs out.                  *)
RequestEventuallyHonoured ==
  \A a \in External :
    (appState[a] = RUNNING /\ ctrlReq[a] # APP_RUN)
      ~> appState[a] \in {UNDEFINED, EARLY_INIT}

=============================================================================
