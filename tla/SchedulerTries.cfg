SPECIFICATION Spec
CONSTANTS
  Tasks = {1, 2, 3}
  NoTask = 0
  MaxRetries = 1
  Subscribers = {"max", "scheduler", "leo"}
  Capacity = 3
  MaxRequests = 2
  Plans <- PairThenOne
  DependsOn <- Independent
  AgentName <- AllLeo
INVARIANT TriesWithinRetries
CHECK_DEADLOCK FALSE
