----------------------------- MODULE MCESPerfLog ----------------------------
(***************************************************************************)
(* ESPerfLog for TLC: a 4-entry ring dumped 3 entries per call, so that a  *)
(* dump takes two calls and wraps at the end of the ring; two valid       *)
(* markers and one invalid one; 6 entries, enough to fill the ring and    *)
(* evict its oldest entries before a START-mode trigger window closes.     *)
(***************************************************************************)
EXTENDS ESPerfLog

====
