------------------------------- MODULE MCESCDS -------------------------------
(* Two names, two data values, two block sizes and one registry slot, so   *)
(* that a second name finds the registry full; two resets and two media   *)
(* errors, so that a torn copy or failed registry write can precede a reset. *)
EXTENDS ESCDS

CONSTANTS N1, N2, V1, V2

MCNames == {N1, N2}
MCValues == {V1, V2}
MCSizes == {1, 2}
====
