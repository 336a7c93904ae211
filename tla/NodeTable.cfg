SPECIFICATION Spec
CONSTANTS
  MaxSlots = 3
  MaxFree = 3
  MaxGeneration = 2
  PinMod = 3
  FreesOnce = TRUE
INVARIANTS FreeListSound
PROPERTIES EachHandleIsANode HandlesAreUnique LiveKeepsItsSlot
