SPECIFICATION FrameSpec
CONSTANTS
  Programs <- MCPrograms
  Compile <- MCCompile
  MaxChoices = 4
CHECK_DEADLOCK FALSE
INVARIANTS FollowsTheSource StacksAreStatic
