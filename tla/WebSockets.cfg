SPECIFICATION Spec
CONSTANTS
  MaxSockets = 2
  MaxSends = 2
  MaxMessages = 1
CHECK_DEADLOCK FALSE
INVARIANTS BothEndsSeeTheProtocol EveryWorkerWillBeJoined CloseIsUnderWay
PROPERTIES OnlyClosedSocketsAreForgotten
