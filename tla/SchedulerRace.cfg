SPECIFICATION Spec
CONSTANTS
  Tasks = {1, 2, 3, 4, 5, 6, 7}
  NoTask = 0
  MaxRetries = 1
  Subscribers = {"max", "scheduler", "leo"}
  Capacity = 2
  MaxRequests = 2
  Plans <- PairThenGhosts
  DependsOn <- GhostsDependOn
  AgentName <- Ghosts
INVARIANTS TypeOK HumanInTheLoop DispatchBudget RunningHasOwner FailureIsTold DoneKeepsResult ReportIsTrue
CHECK_DEADLOCK FALSE
