------------------------------ MODULE AppSlots ------------------------------
(***************************************************************************)
(* What the ES application table promises, slot by slot (spec.md 3, 4.1): *)
(* a slot is free, holds an application that is starting or running, or  *)
(* holds one with a control request that has not been acted on yet.  A   *)
(* slot is reused only after full cleanup; an application ends only      *)
(* through a request; a request is never withdrawn, and ends in a free   *)
(* slot or a fresh start of the application; a reset empties every slot. *)
(***************************************************************************)
CONSTANTS Slots

VARIABLE slot

Free == "Free"  Starting == "Starting"  Running == "Running"  Ending == "Ending"

TypeOK == slot \in [Slots -> {Free, Starting, Running, Ending}]

Init == slot = [a \in Slots |-> Free]

Move(a, from, to) ==
  /\ slot[a] = from
  /\ slot' = [slot EXCEPT ![a] = to]

Create(a) == Move(a, Free, Starting)     \* an application is created
Start(a) == Move(a, Starting, Running)   \* its first RunLoop
Request(a) ==                            \* exit, error, delete, restart asked
  \E from \in {Starting, Running} : Move(a, from, Ending)
Finish(a) == Move(a, Ending, Free)       \* cleaned up, slot freed
Renew(a) == Move(a, Ending, Starting)    \* cleaned up and created again
ResetAll == slot' = [a \in Slots |-> Free]

Next ==
  \/ \E a \in Slots : Create(a) \/ Start(a) \/ Request(a) \/ Finish(a) \/ Renew(a)
  \/ ResetAll

Spec == Init /\ [][Next]_slot
=============================================================================
