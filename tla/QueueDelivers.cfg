SPECIFICATION FairQueueSpec
CONSTANTS
  Messages = {m1, m2, m3}
  Meetings = {e1}
  Functions <- SomeFunctions
  Triggers <- SomeTriggers
  Kinds <- SomeKinds
  NoMessage = NoMessage
INVARIANTS FiresItsAudience
PROPERTIES InOrder NoneLeft
CHECK_DEADLOCK FALSE
