\* Two tasks, three names for two records (so the table fills), a counter
\* of 2 bits (so it wraps) and Set values at both ends of its range.  The
\* run expects NamesUnique to fail: two tasks register one name at once.
CONSTANTS
  Tasks = {t1, t2}
  CounterNames = {n1, n2, n3}
  MaxGenCounters = 2
  SetValues = {0, 3}
  CountBits = 2

SPECIFICATION Spec

INVARIANTS
  NamesUnique
