\* Three packets: one in the slot, one behind it, one after a restart; two
\* frames, so that a restart can come between them.
CONSTANTS
  MaxPackets = 3
  MaxFrames = 2
  HeapCanFail = TRUE
SPECIFICATION Spec
INVARIANTS
  WritesInOrder
  NewestFrameShown
  LinkTold
