\* A heap that always has room.
CONSTANTS
  MaxPackets = 1
  MaxFrames = 1
  HeapCanFail = FALSE
SPECIFICATION Spec
INVARIANT CccdTold
