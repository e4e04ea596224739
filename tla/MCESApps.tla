----------------------------- MODULE MCESApps -----------------------------
(* Slot A is external with ExceptionAction RESTART_APP and C is a CORE   *)
(* application (B, an external app resetting the processor on exception, *)
(* takes the same path as C and is left out to keep the runs small).     *)
(* Three task ids: a main task, a child task and a spare, so that a     *)
(* record freed by one app is reused while an exception is pending.     *)
(* There is no symmetry reduction, since the run checks liveness.       *)
EXTENDS ESApps

CONSTANTS A, B, C, T1, T2, T3

MCSlots == {A, B, C}
MCSlotsAC == {A, C}
MCTasks == {T1, T2, T3}
MCCore == {C}
MCRestartOnExc == {A}
=============================================================================
