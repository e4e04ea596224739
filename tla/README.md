# TLA+ models of the cFE Executive Services and Software Bus utilities

This directory holds TLA+ models of the parts of this repository that the
TLC model checker can explore, the TLC configurations that check them, and
`PROJECT.json`. That file lists each component, run, mutant, source mapping,
finding and hazard.

## The system and its parts

`spec.md` describes the cFE Executive Services (ES). It has six parts:

- the application/task lifecycle manager;
- the persistent region (Critical Data Store, CDS) manager;
- the CDS block pool;
- the generic memory pools;
- the system, event and performance logs;
- the background job scheduler.

They share global tables behind one mutex. Application tasks call into ES
(`CFE_ES_RunLoop`, `CFE_ES_ExitApp`, child task calls, CDS and pool calls).
Ground commands place control requests on applications, clear or dump the
logs, and start or stop performance collection. A periodic ES background
task does two things:

- it scans the application table and acts on control requests;
- it steps the file-dump jobs, such as the performance-log dump.

The platform reports exceptions, which a polling scan turns into
application restarts or resets. The CDS survives a processor reset.
Everything else is rebuilt at start-up.

**The ES implementation is not in this repository.** Only its unit test,
`src/cfe/fsw/cfe-core/unit-test/es_UT.c`, is. The ES modules therefore follow
`spec.md` and the outcomes that test asserts. In `PROJECT.json` each ES
definition is mapped to the test cases that pin its behaviour: the lines
that set up a state, call the function and assert what it returns or leaves
behind. A definition no single test case pins is marked `spec_modelled`.

The C code that *is* here and has behaviour is
`src/cfe/fsw/cfe-core/src/sb/cfe_sb_util.c`: the Software Bus (SB) message
utilities. They are:

- the CCSDS header accessors: init, lengths, time, command code, checksum;
- the two bounded string copies that move text into and out of
  fixed-size message fields.

They are modelled line by line from the source.

## Modules

| Module | Models | State | Actions |
|---|---|---|---|
| `SBMsg` | `cfe_sb_util.c` header accessors | `msg`, a packet record; `lastStatus`; ghosts `timeSet`, `dataLenSet` | `InitMsg`, `SetUserDataLength`, `SetTotalMsgLength`, `SetMsgTime`, `TimeStampMsg`, `SetCmdCode`, `GenerateChecksum`; the environment's `WriteUserData` and `Receive` |
| `SBString` | `CFE_SB_MessageStringSet/Get` | `field`, `out` (the receiver's buffer and the memory after it), `lastGet`, ghost `sent` | `SetField`, `GetField` |
| `ESApps` | spec 4.1, 5, 8: the application table | `appState`, `ctrlReq`, `timer`, `mainTask` per slot; `taskOwner` per task id; `appPc`; `pendingPCR`; `excPending`; `excStale`; `procResets` | `AppCreate`, `RunLoop`, `ExitApp`, `ExitCore`, `CreateChildTask`, `DeleteChildTask`, `ExitChildTask`, `ControlCommand`, `AppTableScan`, `ProcessControlRequest`, `TaskException`, `ExceptionScan` |
| `AppSlots` | what the application table promises, per slot | `slot`: Free, Starting, Running or Ending | `Create`, `Start`, `Request`, `Finish`, `Renew`, `ResetAll` |
| `ESSysLog` | spec 4.5, 8: the system log ring and its dump | `log` (cells tagged with message id and newline), `writeIdx`, `endIdx`, `mode`, `rd` (the read buffer), ghosts `written`, `wrapped`, `out`, `snap`, `disturbed` | `SysLogAppend` (fits, wrap, truncate, full), `ClearSysLog`, `OverWriteSysLog`, `DumpStart`, `DumpRead` |
| `ESPerfLog` | spec 4.5, 4.6, 8: the performance log and its dump job | `state`, `mode`, `triggerCount`, `dataStart`, `dataEnd`, `dataCount`, `buf`, masks, `dump` (the job), ghosts `collected`, `trigId`, `autoStopped`, `file` | `PerfLogAdd`, `StartPerfData`, `StopPerfData`, `SetPerfFilterMask`, `SetPerfTriggerMask`, `RunPerfLogDump` |
| `ESMemPool` | spec 4.4: the generic memory pool | `bd` (block descriptors), `current`, `freeList` per size class; ghosts `trueSize`, `held`; `faults` | `GetPoolBuf`, `PutPoolBuf`, `Overrun` |
| `ESReset` | spec 4.1, 4.5: the reset chain, `CFE_ES_SetupResetVariables` and the exception-and-reset (E&R) log | reset area `prCount`, `maxPR`, `causedReset`, `erLog`, `erIndex`, `erEntries`; `up`, `bootType`, `erPending`, `resets`, `nextLog`; ghosts `sinceClear`, `erHist` | `RestartCmd`, `ExceptionReset`, `HardwareReset`, `PowerCycle`, `SetupResetVariables` (power-on, ES-caused, counted), `ResetPRCount`, `SetMaxPRCount`, `ClearERLog`, `WriteERLogCmd`, `RunERLogDump` |
| `ESStartup` | spec 4.1: start-up synchronisation | `sysState`, `esPc` (ES main task); `appState`, `pc`, `waitFor` per external app | `StartApplication`, `SyncReached`, `SyncTimedOut`; per app `CallWait`, `WaitEnds`, `RunLoopFirst`, `Hang` |
| `ESGenCounter` | the generic counters of `es_UT.c` TestAPI | `used`, `name`, `count` per record; `id`, `pc`, `regName` per task | `RegisterGenCounter`, `RegisterSearch`, `GetGenCounterIDByName`, `DeleteGenCounter`, `IncrementGenCounter`, `SetGenCount` |
| `ESCDS` | spec 4.2, 4.3: the CDS, its registry and block I/O | persistent `pValid`, `pReg`, `pBlk`; RAM `up`, `avail`, `reg`; `mediaErrs`, `resets`; ghosts `copied`, `committed`, `lastInit`, `restored` | `EarlyInit`, `ProcessorReset`, `PowerOnReset`, `RegisterCDS`, `CopyToCDS`, `RestoreFromCDS`, `DeleteCDS` |

Each `MC<Module>` module instantiates its module for TLC with model values
and small sets.

### How the models correspond to the code

**SBMsg.** Each C function is a TLA+ operator on the packet record:

- Every function that writes the record is an action.
- Every getter is an operator.
- `HasCmdSecHdr` and `HasTlmSecHdr` are the guards that open each command
  and time accessor.

Some details abstract the C representation:

- Lengths are uint16, so every arithmetic result is taken `% 2^16`
  (`AsU16`).
- `memset(Byte, 0, Length)` zeroes exactly the fields lying in the first
  `Length` bytes (`Cleared`).
- Bytes 6..9 of the header are one field, `secs`. A telemetry packet
  keeps its Seconds there. A command keeps its function code in byte 6
  and its checksum in byte 7. So `SetCmdCode` and `GenerateChecksum`
  overwrite the upper bytes of the seconds, and `SetMsgTime` overwrites
  the command code and checksum, as in the C header layout. A byte is
  `ByteBits` wide (2 in the runs).
- The checksum is the XOR of the header and data bytes with 0xFF
  (`CheckSum`, as `CCSDS_ComputeCheckSum` computes it), over the modelled
  fields. It validates when byte 7 equals that XOR.
- The EDS pub/sub parameters come from the message id.
- The subsecond shift keeps its form at a reduced width of 8 to 4 bits.

**SBString.** Each `while` loop is a `RECURSIVE` operator with one call per
iteration. The receiver's buffer is one cell longer than its largest
`DestMaxSize`, so that a write past the end is visible.

**ESApps.**

- Every action is one ES call made under the shared mutex.
- The table scan (`AppTableScan`) and the processing of the apps it timed
  out (`ProcessControlRequest`) are separate steps. Application tasks run
  between them.
- Task ids are reused after cleanup, as OS slots are.
- `CFE_ES_CleanUpApp` may fail to delete any of the app's tasks
  (`OS_TaskDelete` failing, `es_UT.c` 1842–1861). That task's record stays
  in use and still names the slot, while the slot itself is freed. A
  restart or reload whose cleanup failed does not create the app again
  (RESTART_APP_ERR4 / RELOAD_APP_ERR4).
- Timer units are scan periods.
- `ExceptionScan` resolves the faulting task's owner by task id, as
  `CFE_ES_RunExceptionScan` does.
- `AppSlots` is the abstract specification. `ESApps` maps each slot onto
  it:
  - UNDEFINED is Free;
  - a pending request other than APP_RUN is Ending;
  - EARLY_INIT is Starting;
  - everything else is Running.

**ESSysLog.**

- A message is abstracted to its id and length. Each cell of the ring
  records which message it belongs to and whether it is that message's
  newline.
- Appends run under the mutex. The dump takes the mutex only around
  `ReadStart` and each `ReadData`, so appends, clears and mode commands
  interleave between its chunks.
- `ReadStart`'s fragment skip and `ReadData`'s chunk loop are `RECURSIVE`
  operators.

**ESPerfLog.**

- Entries carry an id and a marker.
- Each trigger mode (START, CENTER, END) has its own stop condition.
- The dump job is a state machine: IDLE, INIT, DELAY, ENTRIES, CLOSE.
  - The background task steps it once per call.
  - It writes a chunk of entries per step.
  - A failed open or write sends it back to IDLE.

**ESMemPool.**

- Two pools created with a mutex.
- Blocks are carved at a cursor, each behind a descriptor with the check
  bits, the allocated marker and the size.
- Freed blocks go onto per-class free lists, head first.
- Callers may free any address:
  - one they hold;
  - one already freed;
  - one of the other pool;
  - one at no block's start.
- `Overrun` is the fault model. A user writes past a block's end into the
  next block's descriptor:
  - the check bits are spoiled;
  - the marker and size may take any value.

  The free-list link is assumed to survive. An overrun that reached it
  would corrupt the list itself, and no check of the pool could detect
  that.

**ESCDS.**

- The CDS keeps the sentinels, the registry copy and each name's block
  (used flag, CRC, data).
- RAM keeps the registry and whether the CDS is usable this boot.
- A CRC is abstracted to the value it was computed over.
- `CopyToCDS` writes the descriptor, then the data. Its outcomes are:
  - both writes succeed;
  - the descriptor write fails;
  - the data write fails;
  - a processor reset falls between the two writes.
- `EarlyInit` handles the start of each boot:
  - it rebuilds the registry when the sentinels are in place;
  - it reinitializes the CDS when they are not, or when the rebuild
    fails, and still returns success;
  - it leaves the CDS unusable when its own accesses fail.
- Any CDS read or write may fail, up to a bound.

**ESReset.**

- Each reset ends the boot (`up` false). The next `SetupResetVariables`
  step is the boot that follows it.
- The reset area survives a processor reset: the processor-reset count, its
  limit, `ES_CausedReset` and the E&R log. A power-on boot clears it.
- `ResetCFE(PROCESSOR)` logs an entry and increments the count. Past the
  limit it becomes a power-on reset. Otherwise it sets `ES_CausedReset`, so
  the boot that follows does not count the same reset again.
- A hardware processor reset goes through neither; its boot counts it.
- `WriteToERLog` wraps an out-of-range index to 0 before writing, then
  increments and wraps again (`ERSlot`), as the test at `es_UT.c` 1943
  shows.
- Sequence numbers stand for log entries. The ghost `erHist` lists every
  entry written since the last clear.

**ESStartup.**

- The ES main task creates the script's applications one at a time (a
  creation may fail). It then runs two sync phases, each ended by success
  or by a timeout, as the "Startup sync failure" test shows with its two
  messages:
  - LATE_INIT, after which the system state is APPS_INIT;
  - RUNNING, after which it is OPERATIONAL. On this timeout, applications
    still in EARLY_INIT are forced to STOPPED (spec 4.1).
- A sync succeeds when no application slot in use is below the required
  state. The test of `CFE_ES_MainTaskSyncDelay` counts the apps below it.
- `CFE_ES_WaitForSystemState(min)` first raises the caller to LATE_INIT,
  RUNNING or STOPPED for APPS_INIT, OPERATIONAL or SHUTDOWN. It then waits,
  and the wait may time out. An application woken from APPS_INIT goes on
  to `WaitForStartupSync`.
- `RunLoop` called without a sync moves EARLY_INIT to RUNNING.
- Core applications are up before CORE_READY and are left out.

**ESGenCounter.**

- A counter id is the index of its record, as in `CounterTable`.
- Each task keeps the id its last successful register or lookup gave it.
  A task that never got one passes an id out of range.
- Neither spec 5, which lists the tables under the ES mutex, nor the tests
  put the counter table under a lock. A register is therefore two steps.
  First it looks the name up, and a name in use is refused. Then it
  searches for the first free record, which takes the name and a count
  of 0, or it finds the table full and is refused. The search is one step.
  That allows fewer interleavings than the code does, so a violation found
  is one the code has.
- Delete only frees the record. Other tasks keep the id, now stale.
- A counter is a uint32 that wraps on increment. The model keeps the wrap
  at a width of 2 bits.
- Calls that fail change nothing, so they are stuttering steps.

## Runs

| Run | Config | Checks | Result |
|---|---|---|---|
| sb_msg | `MCSBMsg.cfg` | `TypeOK`, `TimeRoundTrip`, `UserDataLengthRoundTrip` | pass, 3.7k states |
| sb_msg_underflow | `MCSBMsgUnderflow.cfg` | `UserDataWithinMessage` | violation (finding) |
| sb_string | `MCSBString.cfg` | `TypeOK`, `StringGetMatchesReference`, `FieldRoundTrip` | pass, 1.4k states |
| es_lifecycle | `MCESApps.cfg` | `TypeOK`, `ImplementsAppSlots`, `RequestEventuallyHonoured` | pass, 297k states |
| es_syslog | `MCESSysLog.cfg` | `TypeOK`, `DumpIsNewestWholeMessages` | pass, 300k states |
| es_perflog | `MCESPerfLog.cfg` | `TypeOK`, `TriggerWindowKept`, `DumpWritesNewestEntries`, `DumpFinishes` | pass, 518k states |
| es_mempool | `MCESMemPool.cfg` | `TypeOK`, `BlocksPartitioned`, `HeldBlockFitsRequest` | pass, 65k states |
| es_cds | `MCESCDS.cfg` | `TypeOK`, `RestoreNeverStale`, `DataSurvivesReset` | pass, 41k states |
| es_reset | `MCESReset.cfg` | `TypeOK`, `ResetsCountedOnce`, `ERLogKeepsNewest`, `ResetLimitHonoured` | pass, 3k states |
| es_startup | `MCESStartup.cfg` | `TypeOK`, `NoCircularWait`, `OthersStartDespiteHang` | pass, 1.9k states |
| es_gencounter_race | `MCESGenCounter.cfg` | `NamesUnique` | violation (finding) |
| es_cds_delete_torn | `MCESCDSDelete.cfg` | `RegisteredNamesUsable` | violation (finding) |

What the runs show:

- **TimeRoundTrip, UserDataLengthRoundTrip.** After any sequence of
  accessor calls, the time and the user-data length read back are the ones
  last set. The time is truncated to the packet's precision. The time
  holds only while no command-header write reuses bytes 6..7. That
  includes a non-clearing `InitMsg` to a command type and back.
- **StringGetMatchesReference, FieldRoundTrip.** `MessageStringGet`
  agrees with a declarative definition. A string set and then read comes
  back cut only by the three sizes, even over a longer old string.
- **ImplementsAppSlots.** The application table refines `AppSlots`:
  - a pending request is never withdrawn;
  - a slot is reused only after cleanup;
  - an application ends only through a request.
- **RequestEventuallyHonoured.** A request on a running application is
  acted on even if the application hangs. Cleanups whose task deletions
  fail do not break either property.
- **DumpIsNewestWholeMessages.** Take a system-log dump that no append or
  clear overlapped. It writes the newest messages whole and oldest first,
  and it includes the newest message. If no append wrapped since the last
  clear, it writes all of them. This holds across truncation, wrap and the
  fragment skip.
- **TriggerWindowKept.** Suppose a trigger stops collection. The
  triggering entry is then kept where its mode promises:
  - START keeps it first;
  - CENTER keeps it in the middle;
  - END keeps it last.
- **DumpWritesNewestEntries.** A completed performance dump writes exactly
  the newest entries, even when commands race the background job.
- **DumpFinishes.** Every requested performance dump finishes.
- **BlocksPartitioned.** Every carved pool block is held by at most one
  caller or listed once, on its own pool's list for its true size. Double
  frees, wrong-pool frees and overruns never break this.
- **HeldBlockFitsRequest.** No caller ever gets a block smaller than it
  asked for.
- **RestoreNeverStale.** When `RestoreFromCDS` returns data, it is the
  value of the last completed `CopyToCDS` of that name. A torn copy, a
  reinitialized CDS or a re-registration with a new size never yields old
  data.
- **DataSurvivesReset.** A registration that returned success and was not
  deleted is still registered after a processor reset that rebuilt the
  registry, and its block still reads back its last value. The one
  exception is a re-registration with a new size that failed with an access
  error. That failure has freed the block and was reported, so no value is
  owed.
- **ResetsCountedOnce.** While the system is up, the processor-reset count
  equals the number of processor resets since it was last cleared.
  Commanded, exception and hardware resets may come in any order, with
  `ES_CausedReset` carried across each.
- **ResetLimitHonoured.** A processor boot never follows more processor
  resets than the limit in force, even after `SetMaxPRCount` lowered it
  below the count.
- **ERLogKeepsNewest.** The E&R log holds the newest `EREntries` entries
  written since the last clear, each at the slot the index wrap gives it.
  This holds across resets, wraps and the dump.
- **NoCircularWait.** While ES waits in a sync phase, every application
  waiting for the system state that phase announces already meets the
  phase's requirement. ES and an application therefore never wait on each
  other, and start-up needs no timeout unless an application hangs. This
  depends on `WaitForSystemState` raising the caller's state before it
  waits.
- **OthersStartDespiteHang.** An application hanging in its initialisation
  does not keep the others out of their loops, even those whose own waits
  never time out. The ES main task's sync timeouts are enough.
The three violation runs are findings. `PROJECT.json` describes them:

- **sb_msg_underflow.** `CFE_SB_GetUserDataLength` wraps below zero for a
  short packet.
- **es_cds_delete_torn.** A registered name can be left without a block
  in two ways:
  - `RegisterCDS` of a known name with a new size returns the old block
    first. The new block's descriptor access then fails (`es_UT.c` 5288,
    5296), so the call returns an access error with the name still
    registered.
  - `DeleteCDS` frees the block and the RAM entry, and the registry write
    after them fails. The next processor reset rebuilds a registry that
    names the freed block.

  Either way the name can be neither used nor deleted. Spec 4.2 says a
  failed write on delete leaves the registry consistent.
- **es_gencounter_race.** Two tasks register the same counter name at the
  same time. Both pass the name lookup before either takes a record, so
  the table holds two counters of that name. The test at `es_UT.c` 4571
  promises that a duplicate name is refused. The spec does not put the
  counter table under the ES mutex.

Every property of a passing run has a mutant in `PROJECT.json`: a plausible
coding error in a mapped definition that TLC shows the property catches.

### What the ES models do not reach

- **The APP_RUN to SYS_DELETE escalation.** The table-scan test
  (`es_UT.c` 1148–1200) escalates a timer expiring on an APP_RUN
  application. This cannot happen in `ESApps`: WAITING and STOPPED are
  only entered with a request other than APP_RUN pending. The run
  therefore makes no claim about a request being acted on twice.
- **Task records leaked by a failed cleanup.** The model reaches these.
  Spec 3 says every used task record belongs to a live application. One
  failed `OS_TaskDelete` breaks that, and the test at `es_UT.c` 1858
  asserts it. If the slot is later reused, the new application inherits
  the record. An exception in the leaked task then resolves to the new
  application. The code records nothing about which application faulted,
  so no property states which one it should be. Both hazards are listed.
- **A dump overlapped by appends.** The syslog dump takes the mutex per
  chunk only. An OVERWRITE append between two chunks can therefore tear
  the dump. Neither spec nor tests promise otherwise, so
  `DumpIsNewestWholeMessages` is scoped to undisturbed dumps, and the
  hazard is listed.

## Bounds

**sb_msg and sb_string.**

- sb_msg uses one publisher and one listener id.
- It uses lengths below, between and at the header ends.
- It uses subsecond values that truncate and hit the maximum.
- sb_string uses a field of size 4, with sources and destination sizes
  below, at and above it.

**es_lifecycle.**

- Slot A is external with RESTART_APP. Slot C is a CORE application.
  A third slot resetting the processor takes C's path and is left out.
- Three task ids give a main task, a child task and a spare, so records
  are reused while an exception is pending.
- Kill timeout 2.
- Reset budget 1, so processor and power-on resets both happen.
- No symmetry, since the run also checks liveness.

**es_syslog.**

- A ring of 8 cells, chunks of 3 and a time stamp of 1.
- Messages of 2, 3 and 5 cells: under half the ring, at it, and over it
  (5 is truncated to 4).
- Five appends, enough to wrap and fill it.

**es_perflog.**

- A buffer of 4 entries, 2 ids, chunks of 3 and six adds: enough to fill
  the buffer, evict entries and trigger in each mode.

**es_mempool.**

- Two pools, so cross-pool frees occur.
- Sizes 1 and 2 behind a descriptor of 1, in a pool of 6 units: three
  small or two large blocks, so both the free-list reuse and the
  exhaustion paths happen.
- A request of 3 that fits no class.
- One overrun.

**es_cds.**

- Two names and one registry slot, so the registry fills.
- Two values, so a stale value is distinguishable.
- Two sizes, so re-registration with a new size happens.
- Two resets and two media errors, so a torn copy or a failed registry
  write can precede a reset and a rebuild.

**es_reset.**

- A default limit of 2, and `SetMaxPRCount` values 0 and 3: below, at and
  above the count.
- An E&R log of 2 entries, so that five resets wrap it.
- Five resets, so that the limit is reached and passed.

**es_startup.**

- Three applications. a1 may hang, a2 has finite start-up timeouts, and a3
  has none, so a3 depends on the ES timeouts alone. An application that
  does not hang goes through the same waits as in a start-up without
  timeouts. That is where `NoCircularWait` is checked.
- The run sets `CHECK_DEADLOCK FALSE`. Start-up ends once every task has
  left it, and the model stops there.

**es_gencounter_race.**

- Two tasks and three names for two records, so the table fills and a
  registration is refused. Two tasks are enough for the race.
- Counters of 2 bits, so an increment wraps. Set values 0 and 3.

## Fairness

Only the ES background task is assumed to make progress. It gets weak
fairness on two things:

- the table scan and the processing of what it lists;
- each step of the performance-log dump job.

Application tasks get no fairness in `ESApps`, so an application may hang.
Ground commands, exceptions, creations, appends, faults and resets get
none either: they may never happen.

In `ESStartup` the ES main task has weak fairness: its sync waits are
delay loops that always run again. Each application's main task has weak
fairness as well: once it is ready, the scheduler eventually runs it.
Hanging is a separate step, allowed only for the applications in
`Hangers`.

`ESReset` and `ESGenCounter` check only safety and assume no fairness.

## Not modelled

- **Core application start-up** before CORE_READY, and the panic paths of
  `CFE_ES_Main` (mutex creation failure).
- **Reset-area validation at boot** (a reset area too small, a failed PSP
  read). These lead to a panic, not to a state the system continues from.
- **Cleanup failures of single resources other than tasks.** These are
  EVS, timer, queue and CDS cleanups. They report an error but leave no
  table state the model keeps. They are covered by the failed cleanup of
  a restart.
- **Argument errors with no state change.** These are bad names, null
  pointers, sizes of zero and pool-create argument checks. Each returns
  before touching any state.
- **Queries with no state change.** These are `GetPoolBufInfo`,
  `GetMemPoolStats` and the query commands.
- **Placement and size classes in the CDS pool, and `RebuildCDSPool`'s
  descriptor walk.** `ESCDS` gives each name its own block. No test pins
  the order of the walk's cursor update and descriptor write. `ESMemPool`
  checks the same descriptor discipline for the volatile pool.
- **Memory pools without a mutex shared between tasks.** Spec 5 restricts
  them to unshared use.
- **Re-creating a pool over live blocks.** This is misuse by the caller,
  and the spec promises nothing for it.
- **Shared library loading, the exit status `ExitApp` records, and
  `RegisterChildTask`.** The library table is a second slot table whose
  tests pin only argument and OS-call failures.
- **Stale generic-counter ids.** Ids are plain indices, so a task still
  holding a deleted counter's id counts on whatever counter takes the
  record next. `ESGenCounter` reaches this, but the code promises nothing a
  property could check. The hazard is listed without a property.
- **`PerfLogAdd` racing `StopPerfData`.** Neither the tests nor the spec
  say whether the add runs with interrupts locked. The hazard is listed
  without a property.
- **The start-up script parser.** It is text processing. A malformed line
  is a failed creation in `ESStartup`.
- **The E&R log's context buffers and the dump file's contents.** Only
  which entries the log holds is modelled.
- **The SCH_LAB table, the sample library, PSP/mission headers and OSAL
  test scaffolding.** They are data, console output or declarations only.

## Plan

- **Start-up and the lifecycle together.** Compose `ESStartup` with
  `ESApps`, so that an application forced to STOPPED by a sync timeout
  meets the table scan.
- **CDS pool placement.** Model it with the `ESMemPool` descriptor
  discipline, so that `RebuildCDSPool`'s walk over a partly written pool
  can be checked.
- **A composition of `ESApps` with `ESCDS`.** An application restarted by
  an exception re-registers its CDS and restores from it.
- **Larger bounds for `es_cds`.** Use three names and two registry slots.
