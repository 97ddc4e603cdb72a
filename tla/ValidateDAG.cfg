SPECIFICATION Spec
CONSTANTS
  TaskIDs = {1, 2, 3}
  IDs = {0, 1, 2, 3}
  MaxDeps = 2
INVARIANTS VerdictRight VisitsAreTasks DependenciesVisitedFirst
PROPERTY Terminates
CHECK_DEADLOCK FALSE
