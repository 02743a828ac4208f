\* Two coroutines in the coordinator at once, interrupts, one crash.
SPECIFICATION Spec
CONSTANTS
  Actor = {a1, a2}
  TaskId = {t1}
  Request = {"look", "grasp"}
  Sem <- MCSem
  Own <- MCOwn
  Copies = 1
  MaxRecords = 2
  MaxCrashes = 1
  Modes = {"recovery"}
  MaxReplans = 1
  Faults = {"tracker", "interrupt", "amnesia"}
CHECK_DEADLOCK FALSE
SYMMETRY Symmetry
INVARIANTS
  FactsAuthoritative
  RuntimeGuarded
PROPERTIES
  CancelledIsStopped
  ImplementsLedger
  RecoveryComplete
