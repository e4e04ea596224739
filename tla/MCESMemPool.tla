---------------------------- MODULE MCESMemPool -----------------------------
(* Two pools with mutex, block sizes 1 and 2 behind a descriptor of 1, and *)
(* room for three small or two large blocks each; requests of 1, 2 and one *)
(* larger than any class; one overrun.                                     *)
EXTENDS ESMemPool

CONSTANTS P1, P2

MCPools == {P1, P2}
MCSizes == {1, 2}
MCReqs == {1, 2, 3}
====
