\* One turn at a time, two tasks, every Tool kind and mode, one crash.
SPECIFICATION Spec
CONSTANTS
  Actor = {a1}
  TaskId = {t1, t2}
  Request = {"look", "grasp", "follow", "map"}
  Sem <- MCSem
  Own <- MCOwn
  Copies = 1
  MaxRecords = 1
  MaxCrashes = 1
  Modes = {"off", "audit", "enforce", "recovery"}
  MaxReplans = 1
  Faults = {"torn", "tracker", "amnesia"}
CHECK_DEADLOCK FALSE
SYMMETRY Symmetry
INVARIANTS
  TypeOK
  BindingHeld
  CancelHonoured
PROPERTIES
  ImplementsSlot
