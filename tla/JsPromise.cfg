SPECIFICATION Spec
CONSTANTS
  MaxPromises = 2
  MaxFrames = 1
  MaxReactions = 3
INVARIANTS ReactionsRunOnceInOrder OneWakerPerSuspendedFrame
PROPERTIES JobsRun
