\* A first before-capture that fails is taken again after the Action.
SPECIFICATION Spec
CONSTANTS
  Actor = {a1}
  TaskId = {t1}
  Request = {"grasp"}
  Sem <- MCSem
  Own <- MCOwn
  Copies = 2
  MaxRecords = 2
  MaxCrashes = 0
  Modes = {"off"}
  MaxReplans = 1
  Faults = {}
CHECK_DEADLOCK FALSE
INVARIANT BeforeIsBefore
