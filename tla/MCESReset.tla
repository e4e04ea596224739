------------------------------ MODULE MCESReset ------------------------------
(* ESReset instantiated for TLC: a maximum of 2 processor resets, raised to *)
(* 3 or lowered to 0 by command, an E&R log of 2 entries and 5 resets, so   *)
(* the limit is reached and the log wraps.                                  *)
EXTENDS ESReset
=============================================================================
