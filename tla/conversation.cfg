SPECIFICATION FairSpec
CONSTANTS
  Key = {"alice", "bob", "cron"}
  UserKey = {"alice", "bob"}
  ChatOf <- MCChatOf
  MaxTurns = 3
  MaxRounds = 2
  Omits = FALSE
  MaxMessages = 3
  MaxSubs = 1
  MaxDirect = 1
  MaxCalls = 1
  MaxCrashes = 1
CHECK_DEADLOCK FALSE
INVARIANTS TypeOK NothingForgotten OwnChat
PROPERTIES StopLeavesNothing EveryMessageEnds
