SPECIFICATION Spec
CONSTANTS
  Clients = {c1, c2}
  SendSize = 1
  BroadcastSize = 1
  MaxMessages = 4
INVARIANTS ChannelsCloseOnce MissedMeansLeaving
PROPERTIES DeadAreForgotten SlowAreDropped
CHECK_DEADLOCK FALSE
