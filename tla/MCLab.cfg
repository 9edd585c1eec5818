\* Up to three chips at two places, with addresses that are not distinct, and a
\* clock that wraps; two lines typed; four events of a central.
CONSTANTS
  Ids = {"a", "b", "c"}
  MacOf <- TheMacOf
  Places = {"near", "far"}
  Audible <- TheAudible
  Worlds <- TheWorlds
  PathOf <- ThePathOf
  Period = 2
  BeatOf <- TheBeatOf
  ClockSize = 5
  NoNode = "nobody"
  MaxNodes = 2
  Starts <- TheStarts
  Ticks = 3
  MaxLines = 2
  MaxEvents = 4
  MaxTyped = 1
  MaxFrames = 1
  MaxInsns = 3
  LiveBurst = 2
  MaxGiven = 2
SPECIFICATION LabPartsSpec
INVARIANTS
  ShownIsHeard
  HeardIsShown
  ToldWhatIsHeard
  LinkFollows
PROPERTY RunsEnd
CHECK_DEADLOCK FALSE
