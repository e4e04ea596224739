---------------------------- MODULE ESGenCounter ----------------------------
(***************************************************************************)
(* ES generic counters: a fixed table of named counters that tasks        *)
(* register, look up by name, increment, set and delete.  A counter id is *)
(* the index of its record in CFE_ES_Global.CounterTable.                 *)
(*                                                                         *)
(* The ES source is not in the repository: the actions follow what        *)
(* es_UT.c asserts of CFE_ES_RegisterGenCounter, CFE_ES_GetGenCounterIDBy- *)
(* Name, CFE_ES_DeleteGenCounter, CFE_ES_IncrementGenCounter and          *)
(* CFE_ES_SetGenCount.  Neither the tests nor spec 5, which lists the     *)
(* tables the ES shared-data mutex protects, put the counter table under  *)
(* that lock.  RegisterGenCounter is therefore two steps: the lookup of   *)
(* the name, and the search for a free record that takes it.  The search  *)
(* is one step, which allows fewer interleavings than the code, so any    *)
(* violation found here is one the code has too.  The other calls read    *)
(* or write one record and are one step each.  Each task keeps the id    *)
(* its last successful register or lookup returned, and passes it to the *)
(* other calls; a task that never got one passes MaxGenCounters, an id    *)
(* out of range as the test's.                                             *)
(***************************************************************************)
EXTENDS Naturals, FiniteSets

CONSTANTS
  Tasks,           \* tasks calling the counter API
  CounterNames,    \* names they register
  MaxGenCounters,  \* CFE_PLATFORM_ES_MAX_GEN_COUNTERS
  SetValues,       \* values passed to CFE_ES_SetGenCount
  CountBits        \* width of a counter (uint32), reduced for checking

Ids == 0..MaxGenCounters - 1
BadId == MaxGenCounters
NoName == "NoName"
CountMod == 2^CountBits

VARIABLES
  used,      \* CounterTable[i].RecordUsed
  name,      \* CounterTable[i].CounterName
  count,     \* CounterTable[i].Counter
  id,        \* the counter id each task holds
  pc,        \* where each task is: idle, or between the name check and
             \* the record search of RegisterGenCounter
  regName    \* the name a task is registering

vars == <<used, name, count, id, pc, regName>>

TypeOK ==
  /\ used \in [Ids -> BOOLEAN]
  /\ name \in [Ids -> CounterNames \cup {NoName}]
  /\ count \in [Ids -> 0..CountMod - 1]
  /\ id \in [Tasks -> Ids \cup {BadId}]
  /\ pc \in [Tasks -> {"Idle", "Search"}]
  /\ regName \in [Tasks -> CounterNames \cup {NoName}]

Init ==
  /\ used = [i \in Ids |-> FALSE]
  /\ name = [i \in Ids |-> NoName]
  /\ count = [i \in Ids |-> 0]
  /\ id = [t \in Tasks |-> BadId]
  /\ pc = [t \in Tasks |-> "Idle"]
  /\ regName = [t \in Tasks |-> NoName]

\* The records in use with name n.
Named(n) == {i \in Ids : used[i] /\ name[i] = n}

\* An id the table accepts: in range and in use.
ValidId(i) == i \in Ids /\ used[i]

\* The task now holds counter i.
Holds(t, i) == id' = [id EXCEPT ![t] = i]

\* No counter in use has the name.
NameFree(n) == Named(n) = {}

\* The records a new counter may take: those not in use.
FreeSlot == {i \in Ids : ~used[i]}

\* CFE_ES_RegisterGenCounter, first step: CFE_ES_GetGenCounterIDByName of
\* the name.  A name already registered is CFE_ES_BAD_ARGUMENT and changes
\* nothing (a stuttering step); otherwise the search follows.
RegisterGenCounter(t, n) ==
  /\ pc[t] = "Idle"
  /\ NameFree(n)
  /\ pc' = [pc EXCEPT ![t] = "Search"]
  /\ regName' = [regName EXCEPT ![t] = n]
  /\ UNCHANGED <<used, name, count, id>>

\* RegisterGenCounter, second step: the first record not in use takes the
\* name and a count of 0, and its index is the new id; with every record
\* in use the call returns CFE_ES_BAD_ARGUMENT.
RegisterSearch(t) ==
  /\ pc[t] = "Search"
  /\ pc' = [pc EXCEPT ![t] = "Idle"]
  /\ regName' = [regName EXCEPT ![t] = NoName]
  /\ \/ /\ FreeSlot # {}
        /\ LET i == CHOOSE j \in FreeSlot : \A k \in FreeSlot : j <= k IN
             /\ used' = [used EXCEPT ![i] = TRUE]
             /\ name' = [name EXCEPT ![i] = regName[t]]
             /\ count' = [count EXCEPT ![i] = 0]
             /\ Holds(t, i)
     \/ FreeSlot = {} /\ UNCHANGED <<used, name, count, id>>

\* CFE_ES_GetGenCounterIDByName: the id of the record in use with the name;
\* CFE_ES_BAD_ARGUMENT and no change when there is none.
GetGenCounterIDByName(t, n) ==
  /\ pc[t] = "Idle"
  /\ Named(n) # {}
  /\ Holds(t, CHOOSE i \in Named(n) : \A j \in Named(n) : i <= j)
  /\ UNCHANGED <<used, name, count, pc, regName>>

\* CFE_ES_DeleteGenCounter of the id the task holds: the record is freed.
\* Every task holding that id now holds a stale one.
DeleteGenCounter(t) ==
  /\ pc[t] = "Idle"
  /\ ValidId(id[t])
  /\ used' = [used EXCEPT ![id[t]] = FALSE]
  /\ UNCHANGED <<name, count, id, pc, regName>>

\* The counter after ++ on a uint32: it wraps to 0.
Incremented(c) == (c + 1) % CountMod

\* CFE_ES_IncrementGenCounter of the id the task holds.
IncrementGenCounter(t) ==
  /\ pc[t] = "Idle"
  /\ ValidId(id[t])
  /\ count' = [count EXCEPT ![id[t]] = Incremented(@)]
  /\ UNCHANGED <<used, name, id, pc, regName>>

\* CFE_ES_SetGenCount of the id the task holds.
SetGenCount(t, v) ==
  /\ pc[t] = "Idle"
  /\ ValidId(id[t])
  /\ count' = [count EXCEPT ![id[t]] = v]
  /\ UNCHANGED <<used, name, id, pc, regName>>

\* A call that returns CFE_ES_BAD_ARGUMENT (a duplicate name on register,
\* an unknown name on lookup, an id out of range or not in use) changes
\* nothing and is a stuttering step.

Next ==
  \E t \in Tasks :
    \/ \E n \in CounterNames : RegisterGenCounter(t, n) \/ GetGenCounterIDByName(t, n)
    \/ RegisterSearch(t)
    \/ DeleteGenCounter(t)
    \/ IncrementGenCounter(t)
    \/ \E v \in SetValues : SetGenCount(t, v)

Spec == Init /\ [][Next]_vars

-----------------------------------------------------------------------------
(* Properties.                                                             *)

\* No two counters in use share a name: a second registration of a name
\* is refused (es_UT.c, "Attempt to register an existing counter"), so a
\* lookup by name is never ambiguous, even when two tasks register it at
\* the same time.
NamesUnique ==
  \A i, j \in Ids : used[i] /\ used[j] /\ i # j => name[i] # name[j]

=============================================================================
