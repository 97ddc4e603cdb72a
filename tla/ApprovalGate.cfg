SPECIFICATION Spec
CONSTANTS
  Requests = {r1, r2}
  Humans = {terminal, tab}
  None = None
INVARIANTS OutcomeWasSaid PendingIsCurrent
PROPERTIES FirstAnswerStands EveryWaitEnds PromiseKept
CHECK_DEADLOCK FALSE
