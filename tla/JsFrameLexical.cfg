SPECIFICATION FrameSpec
CONSTANTS
  Programs <- MCPrograms
  Compile <- MCCompile
  MaxChoices = 3
INVARIANTS EnvironmentsAreLexical
CHECK_DEADLOCK FALSE
