SPECIFICATION Spec
CONSTANTS
  N = 3
  NoID = NoID
INVARIANT RunnablePlansPass
CHECK_DEADLOCK FALSE
