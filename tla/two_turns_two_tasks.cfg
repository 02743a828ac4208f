\* A cancellation that awaits the Gateway while its task is finalized.
SPECIFICATION Spec
CONSTANTS
  Actor = {a1, a2}
  TaskId = {t1, t2}
  Request = {"grasp"}
  Sem <- MCSem
  Own <- MCOwn
  Copies = 1
  MaxRecords = 1
  MaxCrashes = 0
  Modes = {"off"}
  MaxReplans = 1
  Faults = {}
CHECK_DEADLOCK FALSE
INVARIANT OneActive
