SPECIFICATION Spec
CONSTANTS
  a1 = a1  a2 = a2  b1 = b1  b2 = b2
  s1 = s1  s2 = s2  s3 = s3  g1 = g1  g2 = g2
  p1 = p1  p2 = p2  ma = ma  mb = mb
  Root <- Two
  Cluster <- Other
  MinSuccess = 1
  MinLesson = 2
  MaxEvoCalls = 6
  MaxEvoTries = 2
  MaxRevision = 1
  MaxFaults = 1
  Version <- Other
  Process <- Two
  Size = 2
  Missing = Missing
  MaxOps = 4
  MaxInstFaults = 2
  Skill = {s1, s2, s3}
  Profile = {"mock", "real"}
  NoRuntime = NoRuntime
  ServesAt <- MCServesAt
  MaxSwitches = 2
  MaxSwitchFaults = 2
  MaxPosts = 3
  MaxSeen = 2
  MaxDeliveries = 3
  MaxRestarts = 1
  Message <- Two
  Parts <- Two
  MaxRedeliveries = 1
  MaxRemembered = 1
  MaxReplies = 2
  MaxChatFaults = 1
  Provider = {p1, p2}
  Model = {ma, mb}
  Routes <- MCRoutes
  NoProvider = NoProvider
  AutoMatch = AutoMatch
  Command <- Two
  Session = {"chat"}
  Retries = 1
  MaxCommands = 3
  MaxSelections = 1
  Source = {"cam1"}
  Actor <- Two
  MaxFrames = 2
  MaxActions = 2
  MaxEvidenceFaults = 1
  Worker <- Two
  Child = {"k1", "k2", "k3"}
  NoChild = NoChild
  MaxCalls = 3
  MaxVerifierFaults = 2
  Conversation <- Two
  NoConversation = NoConversation
  Instance <- Other
  NoInstance = NoInstance
  Tools = 2
  MaxTurns = 1
  Content = {"c1", "c2"}
  FirstContent = "c1"
  MaxChanges = 1
  MaxRestored = 1
  Platform <- Platforms
  MaxStacks = 2
SYMMETRY MCSymmetry
CHECK_DEADLOCK FALSE
INVARIANTS TypeOK LessonEarned RuntimeKeepsBundle OneRuntime MochatDelivers ConversationKept SelectionsHold AcceptedIsFresh StopLeavesNoChild BoundToOneMoment
PROPERTIES PromotionEarned UpdateKeepsVersion GatewayConnections
