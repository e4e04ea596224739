\* Three applications: a1 may hang, a2 has finite start-up timeouts, a3 none.
CONSTANTS
  Apps = {a1, a2, a3}
  Hangers = {a1}
  AppTimeouts = {a2}
  ESTimeouts = TRUE

SPECIFICATION Spec

\* Start-up ends once every task has left it (or hangs).
CHECK_DEADLOCK FALSE

INVARIANTS
  TypeOK
  NoCircularWait

PROPERTIES
  OthersStartDespiteHang
