SPECIFICATION FairSpec
CONSTANTS
  Subscribers = {"user", "max"}
  Capacity = 2
  MaxPlans = 3
  MaxLines = 5
  Verdicts = 2
INVARIANTS RequestIsOnScreen ConsentIsInformed ReplyIsOwed
PROPERTIES ReplyComes ShutdownEnds
CHECK_DEADLOCK FALSE
