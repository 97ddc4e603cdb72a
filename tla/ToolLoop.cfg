SPECIFICATION Spec
CONSTANTS
  MaxTurns = 3
  MaxRetries = 1
  MaxHistoryLen = 4
  CallIDs = {a, b}
  MaxCalls = 2
  MaxRuns = 4
INVARIANTS CallsHaveResults RequestsAreBounded HistoryInExchanges
PROPERTY EveryRunEnds
CHECK_DEADLOCK FALSE
