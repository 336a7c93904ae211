SPECIFICATION Spec
CONSTANTS
  ClockMod = 1024
  Delays = {0, 1}
  MaxIterations = 2
  MaxId = 2
  MaxQueued = 1
  MaxNow = 1
INVARIANTS CheckpointBeforeTask FinishedTimersStayDead
PROPERTIES NothingIsEarly ReadyRunReturns
