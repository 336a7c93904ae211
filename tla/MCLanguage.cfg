SPECIFICATION Spec
CONSTANTS
  MaxLexemes = 3
  Registers = 14
  DirectArguments = 2
  MaxEntries = 2
  MaxWords = 5
  MaxObjects = 11
  MaxFrames = 4
  MaxOps = 5
  CollectsInNext = FALSE
  RefillsWalked = FALSE
CHECK_DEADLOCK FALSE
PROPERTY ProgramsReadAsWritten
PROPERTY EvaluatesAsWritten
PROPERTY ModulesRunAsDefined
INVARIANT HeapIsSound
