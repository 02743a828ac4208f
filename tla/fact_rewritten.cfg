\* An answer read before another turn stored the final one is stored after it.
SPECIFICATION Spec
CONSTANTS
  Actor = {a1, a2}
  TaskId = {t1}
  Request = {"grasp"}
  Sem <- MCSem
  Own <- MCOwn
  Copies = 1
  MaxRecords = 1
  MaxCrashes = 0
  Modes = {"off"}
  MaxReplans = 1
  Faults = {}
CHECK_DEADLOCK FALSE
PROPERTY TerminalRecordsStable
