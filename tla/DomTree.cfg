SPECIFICATION Spec
CONSTANTS
  MaxSlots = 4
  MaxFree = 1
  MaxGeneration = 0
  PinMod = 2
  NodeTypes = {"element", "fragment"}
  MarksPending = TRUE
  FreesNodes = TRUE
  RootMoves = FALSE
INVARIANTS IsForest StateIsConnectivity InsertIsExact
