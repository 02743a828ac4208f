\* A job is added while a one-time job runs: the timer cancels and repeats it.
SPECIFICATION Spec
CONSTANTS
  Job = {"sweep", "remind"}
  Kind <- MCKind
  MaxCalls = 2
CHECK_DEADLOCK FALSE
PROPERTY OneTimeRunsOnce
