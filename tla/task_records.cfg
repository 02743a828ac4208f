\* One turn at a time, one task with two Actions or Sessions, one crash; what
\* a crash leaves pending is resolved.
SPECIFICATION FairSpec
CONSTANTS
  Actor = {a1}
  TaskId = {t1}
  Request = {"grasp", "follow"}
  Sem <- MCSem
  Own <- MCOwn
  Copies = 2
  MaxRecords = 2
  MaxCrashes = 1
  Modes = {"recovery"}
  MaxReplans = 0
  Faults = {"torn", "amnesia", "tracker"}
CHECK_DEADLOCK FALSE
INVARIANTS
  UnknownKeepsBinding
  NoWedge
PROPERTIES
  NoBlindResend
  IntentResolved
