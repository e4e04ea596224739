----------------------------- MODULE MCESStartup -----------------------------
(* Model-checking instance of ESStartup; the constants are set by the .cfg. *)
EXTENDS ESStartup

=============================================================================
