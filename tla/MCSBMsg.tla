------------------------------ MODULE MCSBMsg ------------------------------
(* Model-checking instance of SBMsg: one telemetry and one command topic, *)
(* the flight header sizes, and subsecond widths scaled from 32/16 to 8/4 *)
(* bits so that every value stays within TLC's integers.                  *)
EXTENDS SBMsg

CONSTANTS T1, C1, Zero

MCPublishers == {T1}
MCListeners  == {C1}
=============================================================================
