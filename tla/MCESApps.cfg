CONSTANTS
  A = A
  B = B
  C = C
  T1 = T1
  T2 = T2
  T3 = T3
  NoApp = NoApp
  NoTask = NoTask
  Slots <- MCSlotsAC
  Tasks <- MCTasks
  Core <- MCCore
  RestartOnExc <- MCRestartOnExc
  KillTimeout = 2
  MaxProcResets = 1

SPECIFICATION Spec

INVARIANTS
  TypeOK

PROPERTIES
  ImplementsAppSlots
  RequestEventuallyHonoured
