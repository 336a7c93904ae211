SPECIFICATION BufferSpec
CONSTANTS
  MaxSlots = 3
  MaxFree = 1
  MaxGeneration = 0
  PinMod = 256
  NodeTypes = {"element"}
  MarksPending = FALSE
  FreesNodes = TRUE
  RootMoves = FALSE
  MaxCommands = 2
  Kinds = {"AppendChild", "Remove", "SetTextContent"}
INVARIANTS PinsAreReferences
PROPERTIES QueuedNodesSurvive
