---------------------------- MODULE MCESGenCounter ----------------------------
(* Model-checking instance of ESGenCounter; the constants are set by the .cfg. *)
EXTENDS ESGenCounter

=============================================================================
