SPECIFICATION FairSpec
CONSTANTS
  Tasks = {1, 2, 3, 4}
  NoTask = 0
  MaxRetries = 1
  Subscribers = {"max", "scheduler", "leo"}
  Capacity = 6
  MaxRequests = 2
  Plans <- LadderThenOne
  DependsOn <- LadderDependsOn
  AgentName <- AllLeo
INVARIANTS DependenciesFirst UpstreamDelivered
PROPERTIES LifecycleKept RunningEnds PlanConcludes
CHECK_DEADLOCK FALSE
