SPECIFICATION Spec
CONSTANTS
  PathLength = 2
  Callbacks = {a, b}
  NoCallback = none
  Types = {"blur"}
  MaxListeners = 2
  MaxHandlers = 1
  MaxNesting = 2
  MaxCalls = 1
INVARIANTS ListenersAreCalledOnce FocusSettles
PROPERTIES CalledAreAlive
SYMMETRY Symmetry
