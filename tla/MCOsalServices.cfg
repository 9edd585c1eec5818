\* Heap: addresses of six bits; an arena of 23 bytes that starts unaligned, so
\* five aligned words; small requests, and requests at the top of the range
\* whose rounding saturates.  Queues: four messages and two queues, so that a
\* message comes from the front, the middle or the end of a list, and from
\* another list; a walk of two links is too short for a list of three.
\* Callbacks: one chip with two timers, so that each can be overtaken by the
\* other; a clock that wraps after six milliseconds; one reset.
\* Software timers: an eight-value clock (three bits for thirty-two), timeouts
\* up to the half of it, steps of up to three milliseconds so that a short
\* period can pass more than once between two services; two tasks with a timer
\* each for the same event.
CONSTANTS
  WordMax = 63
  HeapBase = 5
  HeapSize = 23
  Requests = {0, 1, 6, 56, 61}
  Adjustments <- Moves
  Messages = {m1, m2, m3, m4}
  Queues = {q1, q2}
  Null = Null
  MaxWalk = 2
  Stray = {Null, m1, m2}
  Limited = {q2}
  Limit = 2
  Chips = {c1}
  MaxTimers = 2
  ClockSize = 6
  MaxTimeout = 2
  MaxBoots = 1
  Tasks = {t1, t2}
  Flags = {e}
  MsRange = 8
  LongestTimeout = 4
  MaxStep = 3
SPECIFICATION ServicesSpec
INVARIANTS
  BlocksApart
  RequestHonoured
  ArenaCovered
  FreesOwnBlock
  ListsSound
  NeverEarly
  DeadlinesAhead
PROPERTIES
  ImplementsQueues
  ImplementsCountdown
  DueTimerIsCalled
