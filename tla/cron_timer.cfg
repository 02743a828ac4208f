\* Three jobs, the API, another process that edits the file, crashes.
SPECIFICATION FairSpec
CONSTANTS
  Job = {"sweep", "remind", "check"}
  Kind <- MCKind
  MaxCalls = 4
CHECK_DEADLOCK FALSE
INVARIANTS
  TypeOK
  TimerCovers
PROPERTIES
  StartsOnlyWhenDue
  DueRuns
