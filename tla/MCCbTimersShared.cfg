\* Two chips of a World on one host thread; one timer is enough.
CONSTANTS
  Chips = {c1, c2}
  MaxTimers = 1
  ClockSize = 4
  MaxTimeout = 1
  MaxBoots = 0
SPECIFICATION CbSpec
INVARIANT CallsItsOwnCallbacks
