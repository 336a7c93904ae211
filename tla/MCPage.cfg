SPECIFICATION Spec
CONSTANTS
  MaxNodes = 2
  MaxItems = 2
  MaxSteps = 3
  ViewportWidth = 60
  ViewportHeight = 40
  MaxKids = 2
  MaxVersion = 2
  MaxFetches = 2
  MaxWrites = 3
  MaxOps = 2
  MaxListeners = 3
  Byte = 2
  Short = 2
  Wide = 4
  MaxFrames = 3
  MaxLength = 5
CHECK_DEADLOCK FALSE
PROPERTY TextsParseAsWritten
PROPERTY SelectorsMatchAsDefined
PROPERTY StylesFollowTheCascade
PROPERTY BoxesAreInPlace
INVARIANT FetchesAreCurrent
INVARIANT StoresAreLastWrites
INVARIANT MessagesArriveWhole
INVARIANT HandlersAnswer
