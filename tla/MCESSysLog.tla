----------------------------- MODULE MCESSysLog -----------------------------
(***************************************************************************)
(* ESSysLog for TLC: an 8-cell log read in 3-cell chunks, so that a dump  *)
(* needs several reads and a read wraps at the end index; messages of 2,  *)
(* 3 and 5 cells, the last one over half the log and so truncated, and 5  *)
(* appends, enough to wrap an 8-cell log twice in OVERWRITE mode and to   *)
(* fill it in DISCARD mode.                                                *)
(***************************************************************************)
EXTENDS ESSysLog

MCMsgLens == {2, 3, 5}

====
