SPECIFICATION Spec
CONSTANTS
  leo = leo
  zoe = zoe
  Callers = {leo, zoe}
  Owner = Owner
  Nobody = Nobody
  MaxStrays = 2
  Files = {old, new}
  Tracked = {old}
  Texts = {original, changed, empty}
  Original = original
  Empty = empty
  Torn = torn
  Missing = missing
  Teams <- TwoTeams
  MaxCalls = 4
INVARIANTS ShiftedByStrays SuccessIsCommitted WorkIsShown
PROPERTY CallsEnd
CHECK_DEADLOCK FALSE
