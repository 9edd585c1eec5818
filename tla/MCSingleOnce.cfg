\* A limit of three instructions, and a command.
CONSTANTS
  MaxInsns = 3
  LiveBurst = 2
  MaxGiven = 1
SPECIFICATION SingleSpec
PROPERTY OnceEnds
CHECK_DEADLOCK FALSE
