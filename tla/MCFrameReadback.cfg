CONSTANTS
  Pipes = {p, q}
  None = None
  MaxFrames = 4
  MaxEpoch = 2
SPECIFICATION Spec
INVARIANTS SlotHasOneOwner NoUseAfterDelete NothingIsReplaced
PROPERTIES FramesInOrder CallsReturn
CHECK_DEADLOCK FALSE
