\* IRs of up to three elements, a hint and a screen; two threads with three
\* programs, the third of which neither starts nor could be saved.
CONSTANTS
  Elements <- TheElements
  Names <- TheNames
  Hints <- TheHints
  Screens <- TheScreens
  Items <- TheItems
  Letters <- TheLetters
  MaxElements = 3
  MaxHints = 1
  MaxScreens = 1
  Threads = {t1, t2}
  Programs = {p, q, r}
  Accepted = {p, q, r}
  Starting = {p, q}
  Portable = {p, q}
  Low <- LowLimits
  High <- HighLimits
  Values = {0, 1, 2}
SPECIFICATION SaturnSpec
INVARIANTS
  AcceptedIsWalkable
  CompiledIsFound
  OwnRuntime
PROPERTY LockReturns
CHECK_DEADLOCK FALSE
