-------------------------- MODULE OsalTimers_proofs --------------------------
(***************************************************************************)
(* Theorems about OsalTimers, for every even size of the clock: the 32-bit *)
(* deadlines are as good as a countdown in plain milliseconds, as long as  *)
(* no timeout exceeds half the range of the clock.                         *)
(***************************************************************************)
EXTENDS OsalTimers, ProofLemmas

-----------------------------------------------------------------------------
(* Arithmetic modulo the size of the clock. *)

LEMMA ClockFacts ==
  /\ MsRange \in Nat \ {0}
  /\ HalfRange \in Nat \ {0}
  /\ MsRange = 2 * HalfRange
  /\ LongestTimeout \in 1..HalfRange
  /\ MaxStep \in 1..LongestTimeout /\ MaxStep < HalfRange
BY MsRangeAssumption, LongestTimeoutAssumption, MaxStepAssumption DEF HalfRange

LEMMA ModBelow ==
  ASSUME NEW n \in Int
  PROVE  /\ n % MsRange \in Moments
         /\ n \in Moments => n % MsRange = n
         /\ n < 0 /\ n >= -MsRange => n % MsRange = n + MsRange
         /\ n >= MsRange /\ n < 2 * MsRange => n % MsRange = n - MsRange
BY ClockFacts DEF Moments

LEMMA WholeTurns ==
  ASSUME NEW n \in Int, NEW q \in Int
  PROVE  (n + MsRange * q) % MsRange = n % MsRange
<1> DEFINE p == n \div MsRange
           r == n % MsRange
           m == n + MsRange * q
<1>1. n = MsRange * p + r /\ p \in Int /\ r \in 0 .. MsRange - 1
  BY ClockFacts, Division
<1> HIDE DEF p, r
<1>2. m = MsRange * (p + q) + r /\ p + q \in Int /\ m \in Int
  BY <1>1, ClockFacts
<1> HIDE DEF m
<1>3. m % MsRange = r
  BY <1>1, <1>2, ClockFacts, Remainders
<1> QED BY <1>3 DEF m, r

\* Reducing the subtrahend first changes nothing.
LEMMA ModShift ==
  ASSUME NEW a \in Int, NEW e \in Int
  PROVE  (a - (e % MsRange)) % MsRange = (a - e) % MsRange
<1> DEFINE q == e \div MsRange
           r == e % MsRange
<1>1. e = MsRange * q + r /\ q \in Int /\ r \in 0 .. MsRange - 1
  BY ClockFacts, Division
<1> HIDE DEF q, r
<1>2. a - r = (a - e) + MsRange * q /\ a - e \in Int
  BY <1>1, ClockFacts
<1>3. (a - r) % MsRange = (a - e) % MsRange
  BY <1>1, <1>2, WholeTurns
<1> QED BY <1>3 DEF r

-----------------------------------------------------------------------------
(* Deadlines. *)

LEMMA SubLemma ==
  ASSUME NEW a \in Moments, NEW b \in Moments
  PROVE  /\ wrapping_sub(a, b) \in Moments
         /\ wrapping_sub(a, b) = IF a >= b THEN a - b ELSE a - b + MsRange
<1>1. a - b \in Int /\ a - b >= -MsRange /\ a - b < MsRange
  BY ClockFacts DEF Moments
<1>2. a >= b => a - b \in Moments
  BY ClockFacts DEF Moments
<1>3. a < b => a - b < 0
  BY DEF Moments
<1>4. a \in Int /\ b \in Int
  BY DEF Moments
<1> HIDE DEF Moments
<1> QED BY <1>1, <1>2, <1>3, <1>4, ModBelow DEF wrapping_sub

LEMMA AddLemma ==
  ASSUME NEW a \in Moments, NEW n \in 0..HalfRange
  PROVE  /\ wrapping_add(a, n) \in Moments
         /\ wrapping_add(a, n) = IF a + n < MsRange THEN a + n ELSE (a + n) - MsRange
<1> DEFINE e == a + n
<1>1. /\ e \in Int /\ e < 2 * MsRange
      /\ e < MsRange => e \in Moments
      /\ e >= MsRange \/ e < MsRange
  BY ClockFacts DEF Moments
<1> HIDE DEF e
<1>2. e % MsRange \in Moments
  BY <1>1, ModBelow
<1>3. e < MsRange => e % MsRange = e
  BY <1>1, ModBelow
<1>4. e >= MsRange => e % MsRange = e - MsRange
  BY <1>1, ModBelow
<1>5. wrapping_add(a, n) = e % MsRange
  BY DEF wrapping_add, e
<1>6. wrapping_add(a, n) = IF e < MsRange THEN e ELSE e - MsRange
  BY <1>1, <1>3, <1>4, <1>5
<1> QED BY <1>2, <1>5, <1>6 DEF e

\* How far a deadline lies ahead, for any two readings of the clock.
LEMMA RemainingLemma ==
  ASSUME NEW at \in Moments, NEW d \in Moments
  PROVE  /\ reached(at, d) => Remaining(at, d) = 0
         /\ ~reached(at, d) => /\ Remaining(at, d) \in 1..HalfRange
                               /\ Remaining(at, d) = IF d >= at THEN d - at ELSE d - at + MsRange
<1>1. wrapping_sub(at, d) = IF at >= d THEN at - d ELSE at - d + MsRange
  BY SubLemma
<1>2. wrapping_sub(d, at) = IF d >= at THEN d - at ELSE d - at + MsRange
  BY SubLemma
<1> QED BY <1>1, <1>2, ClockFacts DEF reached, Remaining, Moments

\* A deadline that lies ahead, seen from both sides: it is "left" milliseconds
\* ahead exactly if it is that many short of a whole turn behind.
LEMMA AheadLemma ==
  ASSUME NEW at \in Moments, NEW d \in Moments, NEW left \in 1..HalfRange,
         wrapping_sub(at, d) = MsRange - left
  PROVE  ~reached(at, d) /\ Remaining(at, d) = left
<1>1. wrapping_sub(at, d) = IF at >= d THEN at - d ELSE at - d + MsRange
  BY SubLemma
<1>2. ~reached(at, d)
  BY ClockFacts DEF reached
<1>3. Remaining(at, d) = IF d >= at THEN d - at ELSE d - at + MsRange
  BY <1>2, RemainingLemma
<1> QED BY <1>1, <1>2, <1>3, ClockFacts DEF Moments

\* A timeout that is just armed lies ahead by exactly as much.
LEMMA ArmedLemma ==
  ASSUME NEW at \in Moments, NEW ms \in 1..LongestTimeout
  PROVE  /\ wrapping_add(at, ms) \in Moments
         /\ ~reached(at, wrapping_add(at, ms))
         /\ Remaining(at, wrapping_add(at, ms)) = ms
<1> DEFINE d == wrapping_add(at, ms)
<1>0. ms \in 1..HalfRange /\ ms \in 0..HalfRange
  BY ClockFacts
<1>1. d \in Moments /\ d = IF at + ms < MsRange THEN at + ms ELSE (at + ms) - MsRange
  BY <1>0, AddLemma
<1> HIDE DEF d
<1>2. wrapping_sub(at, d) = IF at >= d THEN at - d ELSE at - d + MsRange
  BY <1>1, SubLemma
<1>3. wrapping_sub(at, d) = MsRange - ms
  BY <1>0, <1>1, <1>2, ClockFacts DEF Moments
<1>4. ~reached(at, d) /\ Remaining(at, d) = ms
  BY <1>0, <1>1, <1>3, AheadLemma
<1> QED BY <1>1, <1>4 DEF d

\* What some milliseconds do to a deadline that lies ahead.
LEMMA TickLemma ==
  ASSUME NEW at \in Moments, NEW d \in Moments, NEW ms \in 1..MaxStep, ~reached(at, d),
         NEW later, later = wrapping_add(at, ms),
         NEW left, left = Remaining(at, d)
  PROVE  /\ later \in Moments
         /\ left \in 1..HalfRange
         /\ reached(later, d) <=> left <= ms
         /\ left <= ms => wrapping_sub(later, d) = ms - left
         /\ left > ms => Remaining(later, d) = left - ms
<1>0. ms \in 0..HalfRange /\ ms < HalfRange
  BY ClockFacts
<1>1. later \in Moments /\ later = IF at + ms < MsRange THEN at + ms ELSE (at + ms) - MsRange
  BY <1>0, AddLemma
<1>2. left \in 1..HalfRange /\ left = IF d >= at THEN d - at ELSE d - at + MsRange
  BY RemainingLemma
<1>3. wrapping_sub(later, d) = IF later >= d THEN later - d ELSE later - d + MsRange
  BY <1>1, SubLemma
<1>4. CASE left <= ms
  <2>1. wrapping_sub(later, d) = ms - left
    BY <1>0, <1>1, <1>2, <1>3, <1>4, ClockFacts DEF Moments
  <2>2. reached(later, d)
    BY <2>1, <1>0, <1>2, <1>4, ClockFacts DEF reached
  <2> QED BY <1>1, <1>2, <1>4, <2>1, <2>2, ClockFacts
<1>5. CASE left > ms
  <2>1. wrapping_sub(later, d) = MsRange - (left - ms)
    BY <1>0, <1>1, <1>2, <1>3, <1>5, ClockFacts DEF Moments
  <2>2. left - ms \in 1..HalfRange
    BY <1>0, <1>2, <1>5, ClockFacts
  <2>3. ~reached(later, d) /\ Remaining(later, d) = left - ms
    BY <1>1, <2>1, <2>2, AheadLemma
  <2> QED BY <1>0, <1>1, <1>2, <1>5, <2>3
<1> QED BY <1>0, <1>2, <1>4, <1>5, ClockFacts

-----------------------------------------------------------------------------
(* Catching up with a period. *)

\* A deadline that is "late" milliseconds behind and is moved on by e: it is
\* still behind if e is not more than that, and otherwise ahead by the rest.
LEMMA MovedLemma ==
  ASSUME NEW at \in Moments, NEW d \in Moments, NEW e \in Nat,
         NEW late, late = wrapping_sub(at, d), late < HalfRange,
         e <= late + HalfRange,
         NEW moved, moved = wrapping_add(d, e)
  PROVE  /\ moved \in Moments
         /\ reached(at, moved) <=> e <= late
         /\ e > late => Remaining(at, moved) = e - late
<1>0. at \in Int /\ d \in Int /\ d + e \in Int
  BY DEF Moments
<1>1. moved \in Moments
  BY <1>0, ModBelow DEF wrapping_add
<1>2. late \in Moments /\ late = (at - d) % MsRange
  BY SubLemma DEF wrapping_sub
<1>3. wrapping_sub(at, moved) = (at - (d + e)) % MsRange
  BY <1>0, ModShift DEF wrapping_sub, wrapping_add
<1>4. wrapping_sub(at, moved) = (late - e) % MsRange
  <2>1. late = at - d \/ late = at - d + MsRange
    BY SubLemma
  <2>2. CASE late = at - d
    <3>1. late - e = at - (d + e)
      BY <1>0, <2>2
    <3> QED BY <3>1, <1>3
  <2>3. CASE late = at - d + MsRange
    <3>1. late - e = (at - (d + e)) + MsRange * 1 /\ at - (d + e) \in Int
      BY <1>0, <2>3, ClockFacts
    <3> QED BY <3>1, <1>3, WholeTurns
  <2> QED BY <2>1, <2>2, <2>3
<1>5. late - e \in Int /\ late \in Nat
  BY <1>2 DEF Moments
<1>6. CASE e <= late
  <2>1. late - e \in Moments
    BY <1>2, <1>6, ClockFacts DEF Moments
  <2>2. wrapping_sub(at, moved) = late - e
    BY <1>4, <1>5, <2>1, ModBelow
  <2>3. reached(at, moved)
    BY <1>5, <1>6, <2>2, ClockFacts DEF reached
  <2> QED BY <1>1, <1>5, <1>6, <2>3
<1>7. CASE e > late
  <2>1. late - e < 0 /\ late - e >= -MsRange /\ e - late \in 1..HalfRange
    BY <1>5, <1>7, ClockFacts
  <2>2. wrapping_sub(at, moved) = (late - e) + MsRange
    BY <1>4, <1>5, <2>1, ModBelow
  <2>3. wrapping_sub(at, moved) = MsRange - (e - late)
    BY <1>5, <2>2, ClockFacts
  <2>4. ~reached(at, moved) /\ Remaining(at, moved) = e - late
    BY <1>1, <2>1, <2>3, AheadLemma
  <2> QED BY <1>1, <1>5, <1>7, <2>4
<1> QED BY <1>5, <1>6, <1>7

LEMMA Quotient ==
  ASSUME NEW r \in Nat \ {0}, NEW n \in Nat
  PROVE  n \div r \in 0..n
OBVIOUS

LEMMA Monotone ==
  ASSUME NEW r \in Nat, NEW k \in Nat, NEW q \in Nat, k <= q
  PROVE  k * r <= q * r
OBVIOUS

\* The search for the next multiple of the period ends, and ends at the next
\* one: ahead by the period less what is over of the last one.
LEMMA RearmedLemma ==
  ASSUME NEW at \in Moments, NEW x \in Timer, x.reload # 0,
         NEW late, late = wrapping_sub(at, x.deadline), late < HalfRange,
         NEW y, y = Rearmed(x, at)
  PROVE  /\ y \in Timer
         /\ y.task = x.task /\ y.event = x.event /\ y.reload = x.reload
         /\ late \in Nat
         /\ x.reload - (late % x.reload) \in 1..x.reload
         /\ Remaining(at, y.deadline) = x.reload - (late % x.reload)
<1> DEFINE r == x.reload
           d == x.deadline
           q == late \div r
           m == late % r
           After(k) == wrapping_add(d, k * r)
           next == q + 1
           Ahead == {k \in 1..MsRange : ~reached(at, After(k))}
<1>1. /\ r \in Nat \ {0} /\ r <= HalfRange
      /\ d \in Moments
  BY ClockFacts DEF Timer
<1>2. late \in Nat /\ late \in Moments
  BY <1>1, SubLemma DEF Moments
<1>3. q \in 0..late
  BY <1>1, <1>2, Quotient
<1>4. late = r * q + m /\ m \in 0 .. r - 1
  <2>1. r \in Nat \ {0} /\ late \in Int
    BY <1>1, <1>2
  <2> HIDE DEF r
  <2>2. late = r * (late \div r) + (late % r) /\ late % r \in 0 .. r - 1
    BY <2>1, Division
  <2> QED BY <2>2
<1>5. y = [x EXCEPT !.deadline = After(Min(Ahead))]
  BY DEF Rearmed
<1> HIDE DEF q, m, r, d
<1>6. /\ next * r \in Nat /\ next * r = late + (r - m)
      /\ next * r > late /\ next * r <= late + HalfRange
  <2>1. r \in Nat /\ q \in Nat /\ m \in Nat /\ m < r
    BY <1>1, <1>2, <1>3, <1>4
  <2>2. (q + 1) * r = (r * q) + r
    BY <2>1
  <2>3. next * r = late + (r - m)
    BY <2>1, <2>2, <1>4
  <2> DEFINE e == next * r
  <2>4. e = late + (r - m)
    BY <2>3
  <2> HIDE DEF next, e
  <2>5. e \in Nat /\ e = late + (r - m) /\ e > late /\ e <= late + HalfRange
    BY <2>1, <2>4, <1>1, <1>2, ClockFacts
  <2> QED BY <2>5 DEF e
<1>7. After(next) \in Moments /\ ~reached(at, After(next)) /\ Remaining(at, After(next)) = r - m
  <2>1. late = wrapping_sub(at, d)
    BY DEF d
  <2> DEFINE e == next * r
  <2> HIDE DEF next, e
  <2>2. e \in Nat /\ e = late + (r - m) /\ e > late /\ e <= late + HalfRange
    BY <1>6 DEF e
  <2>3. /\ wrapping_add(d, e) \in Moments
        /\ reached(at, wrapping_add(d, e)) <=> e <= late
        /\ Remaining(at, wrapping_add(d, e)) = e - late
    BY <2>1, <2>2, <1>1, MovedLemma
  <2>4. ~(e <= late) /\ e - late = r - m
    BY <2>2, <1>1, <1>2, <1>4
  <2> QED BY <2>3, <2>4 DEF e
<1>8. next \in 1..MsRange
  BY <1>2, <1>3, ClockFacts
<1>9. ASSUME NEW k \in 1..MsRange, k < next
      PROVE  reached(at, After(k))
  <2> DEFINE e == k * r
  <2>1. k \in Nat /\ q \in Nat /\ r \in Nat /\ k <= q
    BY <1>1, <1>2, <1>3, <1>9
  <2>2. e <= q * r
    BY <2>1, Monotone
  <2>3. e \in Nat /\ e <= late
    BY <2>1, <2>2, <1>2, <1>4
  <2>4. e <= late + HalfRange /\ late = wrapping_sub(at, d)
    BY <2>3, <1>2, ClockFacts DEF d
  <2> HIDE DEF e
  <2>5. reached(at, wrapping_add(d, e))
    BY <2>3, <2>4, <1>1, MovedLemma
  <2> QED BY <2>5 DEF e
<1>10. next \in Ahead /\ \A k \in Ahead : next <= k
  BY <1>3, <1>7, <1>8, <1>9
<1>11. Min(Ahead) = next
  <2> HIDE DEF next
  <2>1. \A k \in Ahead : k \in Int
    OBVIOUS
  <2> HIDE DEF Ahead
  <2> QED BY <1>10, <2>1 DEF Min
<1>12. y = [x EXCEPT !.deadline = After(next)]
  BY <1>5, <1>11
<1> HIDE DEF After, next
<1>13. /\ y \in Timer
       /\ y.task = x.task /\ y.event = x.event /\ y.reload = x.reload
       /\ y.deadline = After(next)
  BY <1>7, <1>12 DEF Timer
<1> QED BY <1>1, <1>2, <1>4, <1>7, <1>13 DEF r, m

-----------------------------------------------------------------------------
(***************************************************************************)
(* The inductive invariant: the checked ones together, written timer by    *)
(* timer.  That no timer is overdue bounds how late one can be when the    *)
(* clock moves; otherwise half of the clock would not tell the past from   *)
(* the future.                                                             *)
(***************************************************************************)

\* A timer that is well-formed, not overdue and not too far ahead.
Sound(x, at) ==
  /\ x \in Timer
  /\ ~reached(at, x.deadline)
  /\ Remaining(at, x.deadline) \in 1 .. (IF x.reload = 0 THEN LongestTimeout ELSE x.reload)

IInv ==
  /\ now \in Moments
  /\ events \in [Tasks -> SUBSET Flags]
  /\ OneTimerPerEvent
  /\ \A x \in softTimers : Sound(x, now)

LEMMA IInvImplies == IInv => TimerTypeOK /\ OneTimerPerEvent /\ DeadlinesAhead
BY DEF IInv, Sound, TimerTypeOK, DeadlinesAhead

\* One clock tick for one timer that is not due at its end.
LEMMA KeptTimer ==
  ASSUME NEW x, NEW at \in Moments, Sound(x, at), NEW ms \in 1..MaxStep,
         NEW later, later = wrapping_add(at, ms), ~reached(later, x.deadline)
  PROVE  Sound(x, later)
<1> DEFINE left == Remaining(at, x.deadline)
           most == IF x.reload = 0 THEN LongestTimeout ELSE x.reload
<1>1. x.deadline \in Moments /\ most \in Nat
  BY ClockFacts DEF Sound, Timer
<1>2. left > ms /\ Remaining(later, x.deadline) = left - ms /\ left \in 1..most
  <2>1. ~reached(at, x.deadline) /\ left \in 1..most
    BY DEF Sound
  <2>2. /\ left \in 1..HalfRange
        /\ reached(later, x.deadline) <=> left <= ms
        /\ left > ms => Remaining(later, x.deadline) = left - ms
    BY <1>1, <2>1, TickLemma
  <2> QED BY <2>1, <2>2, ClockFacts
<1> HIDE DEF left, most
<1>3. Remaining(later, x.deadline) \in 1..most
  BY <1>1, <1>2, ClockFacts
<1> QED BY <1>3 DEF Sound, most

\* One clock tick for one reload timer that is due at its end.
LEMMA RearmedTimer ==
  ASSUME NEW x, NEW at \in Moments, Sound(x, at), x.reload # 0, NEW ms \in 1..MaxStep,
         NEW later, later = wrapping_add(at, ms), reached(later, x.deadline),
         NEW left, left = Remaining(at, x.deadline),
         NEW y, y = Rearmed(x, later)
  PROVE  /\ Sound(y, later)
         /\ y.task = x.task /\ y.event = x.event /\ y.reload = x.reload
         /\ left <= ms
         /\ Remaining(later, y.deadline) = x.reload - ((ms - left) % x.reload)
<1> DEFINE late == wrapping_sub(later, x.deadline)
<1>1. x.deadline \in Moments /\ x \in Timer
  BY DEF Sound, Timer
<1>2. later \in Moments /\ left <= ms /\ late = ms - left
  BY <1>1, TickLemma DEF Sound
<1>3. late < HalfRange
  BY DEF reached
<1> HIDE DEF late
<1>4. /\ y \in Timer
      /\ y.task = x.task /\ y.event = x.event /\ y.reload = x.reload
      /\ x.reload - (late % x.reload) \in 1..x.reload
      /\ Remaining(later, y.deadline) = x.reload - (late % x.reload)
  BY <1>1, <1>2, <1>3, RearmedLemma DEF late
<1>5. ~reached(later, y.deadline)
  <2>1. y.deadline \in Moments /\ Remaining(later, y.deadline) # 0
    BY <1>4 DEF Timer
  <2> QED BY <1>2, <2>1, RemainingLemma
<1> QED BY <1>2, <1>4, <1>5 DEF Sound

\* Everything in the list after a tick was kept or rearmed.
LEMMA ExpireTimers ==
  ASSUME NEW ms \in 1..MaxStep, now \in Moments, \A x \in softTimers : Sound(x, now), Handle(ms)
  PROVE  /\ now' \in Moments
         /\ \A y \in softTimers' :
              /\ Sound(y, now')
              /\ \E x \in softTimers : x.task = y.task /\ x.event = y.event
                   /\ y = IF reached(now', x.deadline) THEN Rearmed(x, now') ELSE x
<1>1. now' = wrapping_add(now, ms) /\ now' \in Moments
  BY ClockFacts, AddLemma DEF Handle
<1>2. ASSUME NEW y \in softTimers'
      PROVE  /\ Sound(y, now')
             /\ \E x \in softTimers : x.task = y.task /\ x.event = y.event
                  /\ y = IF reached(now', x.deadline) THEN Rearmed(x, now') ELSE x
  <2>1. CASE y \in softTimers /\ ~reached(now', y.deadline)
    BY <1>1, <2>1, KeptTimer
  <2>2. ASSUME NEW x \in softTimers, reached(now', x.deadline), x.reload # 0, y = Rearmed(x, now')
        PROVE  Sound(y, now') /\ x.task = y.task /\ x.event = y.event
    BY <1>1, <2>2, RearmedTimer
  <2>3. \/ y \in softTimers /\ ~reached(now', y.deadline)
        \/ \E x \in softTimers : reached(now', x.deadline) /\ x.reload # 0 /\ y = Rearmed(x, now')
    BY DEF Handle, Expire
  <2> QED BY <2>1, <2>2, <2>3
<1> QED BY <1>1, <1>2

\* A timer that has just been set.
LEMMA SetTimerSound ==
  ASSUME now \in Moments, NEW t \in Tasks, NEW e \in Flags, NEW ms \in 1..LongestTimeout,
         NEW reload \in BOOLEAN,
         NEW x, x = [task |-> t, event |-> e, deadline |-> wrapping_add(now, ms),
                     reload |-> IF reload THEN ms ELSE 0]
  PROVE  /\ Sound(x, now)
         /\ Remaining(now, x.deadline) = ms
<1>1. /\ wrapping_add(now, ms) \in Moments
      /\ ~reached(now, wrapping_add(now, ms))
      /\ Remaining(now, wrapping_add(now, ms)) = ms
  BY ArmedLemma
<1>2. /\ x \in Timer
      /\ x.deadline = wrapping_add(now, ms) /\ x.reload = IF reload THEN ms ELSE 0
  BY <1>1, ClockFacts DEF Timer
<1> QED BY <1>1, <1>2, ClockFacts DEF Sound

LEMMA InitIInv == TimerInit => IInv
BY DEF TimerInit, IInv, OneTimerPerEvent

LEMMA NextIInv == IInv /\ [TimerNext]_timerVars => IInv'
<1> SUFFICES ASSUME IInv, [TimerNext]_timerVars PROVE IInv'
  OBVIOUS
<1>0. /\ now \in Moments
      /\ events \in [Tasks -> SUBSET Flags]
      /\ OneTimerPerEvent
      /\ \A x \in softTimers : Sound(x, now)
  BY DEF IInv
<1>1. ASSUME NEW ms \in 1..MaxStep, Handle(ms)
      PROVE  IInv'
  <2>1. /\ now' \in Moments
        /\ \A y \in softTimers' :
             /\ Sound(y, now')
             /\ \E x \in softTimers : x.task = y.task /\ x.event = y.event
                  /\ y = IF reached(now', x.deadline) THEN Rearmed(x, now') ELSE x
    BY <1>0, <1>1, ExpireTimers
  <2>2. events' \in [Tasks -> SUBSET Flags]
    <3>1. \A x \in softTimers : x.event \in Flags
      BY <1>0 DEF Sound, Timer
    <3>2. ASSUME NEW t \in Tasks, NEW due \in SUBSET softTimers
          PROVE  events[t] \cup {x.event : x \in {y \in due : y.task = t}} \in SUBSET Flags
      BY <1>0, <3>1
    <3> DEFINE due == {x \in softTimers : reached(now', x.deadline)}
    <3>3. due \in SUBSET softTimers
      OBVIOUS
    <3>4. events' = [t \in Tasks |-> events[t] \cup {x.event : x \in {y \in due : y.task = t}}]
      BY <1>1 DEF Handle, Expire
    <3> HIDE DEF due
    <3> QED BY <3>2, <3>3, <3>4
  <2>3. OneTimerPerEvent'
    <3> SUFFICES ASSUME NEW y \in softTimers', NEW z \in softTimers',
                        y.task = z.task, y.event = z.event
                 PROVE  y = z
      BY DEF OneTimerPerEvent
    <3>1. PICK x \in softTimers : x.task = y.task /\ x.event = y.event
                 /\ y = IF reached(now', x.deadline) THEN Rearmed(x, now') ELSE x
      BY <2>1
    <3>2. PICK w \in softTimers : w.task = z.task /\ w.event = z.event
                 /\ z = IF reached(now', w.deadline) THEN Rearmed(w, now') ELSE w
      BY <2>1
    <3>3. x = w
      BY <1>0, <3>1, <3>2 DEF OneTimerPerEvent
    <3> QED BY <3>1, <3>2, <3>3
  <2> QED BY <2>1, <2>2, <2>3 DEF IInv
<1>2. ASSUME NEW t \in Tasks, TakeEvents(t)
      PROVE  IInv'
  BY <1>0, <1>2 DEF TakeEvents, IInv, OneTimerPerEvent
<1>3. ASSUME NEW t \in Tasks, NEW e \in Flags, SetTimerNow(t, e)
      PROVE  IInv'
  BY <1>0, <1>3 DEF SetTimerNow, Except, IInv, OneTimerPerEvent
<1>4. ASSUME NEW t \in Tasks, NEW e \in Flags, StopTimer(t, e)
      PROVE  IInv'
  BY <1>0, <1>4 DEF StopTimer, Except, IInv, OneTimerPerEvent
<1>5. ASSUME NEW t \in Tasks, NEW e \in Flags, NEW ms \in 1..LongestTimeout,
             NEW reload \in BOOLEAN, SetTimer(t, e, ms, reload)
      PROVE  IInv'
  <2> DEFINE x == [task |-> t, event |-> e, deadline |-> wrapping_add(now, ms),
                   reload |-> IF reload THEN ms ELSE 0]
  <2>1. Sound(x, now) /\ x.task = t /\ x.event = e
    BY <1>0, SetTimerSound
  <2>2. softTimers' = Except(t, e) \cup {x} /\ now' = now /\ events' = events
    BY <1>5 DEF SetTimer
  <2> HIDE DEF x
  <2>3. \A y \in softTimers' : Sound(y, now')
    BY <1>0, <2>1, <2>2 DEF Except
  <2>4. OneTimerPerEvent'
    BY <1>0, <2>1, <2>2 DEF OneTimerPerEvent, Except
  <2> QED BY <1>0, <2>2, <2>3, <2>4 DEF IInv
<1>6. CASE UNCHANGED timerVars
  BY <1>0, <1>6 DEF timerVars, IInv, OneTimerPerEvent
<1> QED BY <1>1, <1>2, <1>3, <1>4, <1>5, <1>6 DEF TimerNext

THEOREM Invariance == TimerSpec => []IInv
BY InitIInv, NextIInv, PTL DEF TimerSpec

\* The clock, the deadlines and the event words keep their types.
THEOREM TypeCorrect == TimerSpec => []TimerTypeOK
BY Invariance, IInvImplies, PTL

\* There is never more than one timer for a task and an event, so restarting,
\* stopping and reading a timer mean the same one.
THEOREM OneTimer == TimerSpec => []OneTimerPerEvent
BY Invariance, IInvImplies, PTL

\* No timer is overdue after a call of handle, and none lies further ahead than
\* it was set, for every size of the clock.
THEOREM NothingOverdue == TimerSpec => []DeadlinesAhead
BY Invariance, IInvImplies, PTL

-----------------------------------------------------------------------------
(* The countdown: every step of the timers is one of the abstract timers. *)

\* A timer as the countdown sees it.
View(x, at) ==
  [task |-> x.task, flag |-> x.event, left |-> Remaining(at, x.deadline), period |-> x.reload]

Armed == {View(x, now) : x \in softTimers}

\* Time passes for a timer in the same way on both sides.
LEMMA ViewTick ==
  ASSUME NEW x, NEW at \in Moments, Sound(x, at), NEW ms \in 1..MaxStep,
         NEW later, later = wrapping_add(at, ms),
         NEW v, v = View(x, at)
  PROVE  /\ reached(later, x.deadline) <=> v.left <= ms
         /\ ~reached(later, x.deadline) =>
              View(x, later) = [v EXCEPT !.left = @ - ms]
         /\ x.reload # 0 <=> v.period > 0
         /\ reached(later, x.deadline) /\ x.reload # 0 =>
              View(Rearmed(x, later), later) =
                [v EXCEPT !.left = Countdown!ToNextMultiple(ms - @, v.period)]
<1> DEFINE left == Remaining(at, x.deadline)
<1>1. x.deadline \in Moments /\ x.reload \in Nat /\ ~reached(at, x.deadline)
  BY ClockFacts DEF Sound, Timer
<1>2. v = [task |-> x.task, flag |-> x.event, left |-> left, period |-> x.reload]
  BY DEF View
<1>3. /\ reached(later, x.deadline) <=> left <= ms
      /\ left > ms => Remaining(later, x.deadline) = left - ms
      /\ left \in Nat
  BY <1>1, TickLemma
<1>4. ASSUME reached(later, x.deadline), x.reload # 0
      PROVE  View(Rearmed(x, later), later) =
               [v EXCEPT !.left = Countdown!ToNextMultiple(ms - @, v.period)]
  <2> DEFINE y == Rearmed(x, later)
  <2>1. /\ y.task = x.task /\ y.event = x.event /\ y.reload = x.reload
        /\ Remaining(later, y.deadline) = x.reload - ((ms - left) % x.reload)
    BY <1>4, RearmedTimer
  <2> HIDE DEF y, left
  <2>2. View(y, later) = [task |-> x.task, flag |-> x.event,
                          left |-> x.reload - ((ms - left) % x.reload), period |-> x.reload]
    BY <2>1 DEF View
  <2> QED BY <2>2, <1>2 DEF y, Countdown!ToNextMultiple
<1>5. ASSUME ~reached(later, x.deadline)
      PROVE  View(x, later) = [v EXCEPT !.left = @ - ms]
  <2>1. Remaining(later, x.deadline) = left - ms
    BY <1>3, <1>5
  <2> QED BY <2>1, <1>2 DEF View
<1> QED BY <1>1, <1>2, <1>3, <1>4, <1>5

LEMMA TickElapses ==
  ASSUME IInv, NEW ms \in 1..MaxStep, Handle(ms)
  PROVE  Countdown!Elapse(ms)
<1> DEFINE due == {x \in softTimers : reached(now', x.deadline)}
           due2 == {a \in Armed : a.left <= ms}
           Moved(a) == [a EXCEPT !.left = @ - ms]
           Again(a) == [a EXCEPT !.left = Countdown!ToNextMultiple(ms - @, a.period)]
<1>1. /\ now \in Moments /\ now' = wrapping_add(now, ms)
      /\ \A x \in softTimers : Sound(x, now)
      /\ events' = [t \in Tasks |-> events[t] \cup {x.event : x \in {y \in due : y.task = t}}]
      /\ softTimers' = (softTimers \ due) \cup {Rearmed(x, now') : x \in {y \in due : y.reload # 0}}
  BY DEF IInv, Handle, Expire
<1>2. ASSUME NEW x \in softTimers
      PROVE  /\ x \in due <=> View(x, now) \in due2
             /\ x \notin due => View(x, now') = Moved(View(x, now))
             /\ x.reload # 0 <=> View(x, now).period > 0
             /\ x \in due /\ x.reload # 0 => View(Rearmed(x, now'), now') = Again(View(x, now))
             /\ View(x, now).task = x.task /\ View(x, now).flag = x.event
  <2>1. Sound(x, now)
    BY <1>1
  <2>2. /\ reached(now', x.deadline) <=> View(x, now).left <= ms
        /\ ~reached(now', x.deadline) => View(x, now') = Moved(View(x, now))
        /\ x.reload # 0 <=> View(x, now).period > 0
        /\ reached(now', x.deadline) /\ x.reload # 0 =>
             View(Rearmed(x, now'), now') = Again(View(x, now))
    BY <1>1, <2>1, ViewTick
  <2>3. View(x, now).task = x.task /\ View(x, now).flag = x.event
    BY DEF View
  <2>4. x \in due <=> reached(now', x.deadline)
    OBVIOUS
  <2>5. View(x, now) \in due2 <=> View(x, now).left <= ms
    BY DEF Armed
  <2> QED BY <2>2, <2>3, <2>4, <2>5
<1> HIDE DEF due, due2, Moved, Again
<1>3. events' = [t \in Tasks |-> events[t] \cup {a.flag : a \in {b \in due2 : b.task = t}}]
  <2>1. ASSUME NEW t \in Tasks
        PROVE  {x.event : x \in {y \in due : y.task = t}} = {a.flag : a \in {b \in due2 : b.task = t}}
    <3>1. due \subseteq softTimers /\ due2 \subseteq Armed
      BY DEF due, due2
    <3>2. \A x \in due : View(x, now) \in due2
      BY <1>2, <3>1
    <3>3. \A a \in due2 : \E x \in due : a = View(x, now)
      BY <1>2, <3>1 DEF Armed
    <3> QED BY <1>2, <3>1, <3>2, <3>3
  <2> QED BY <1>1, <2>1
<1>4. Armed' = {Moved(a) : a \in Armed \ due2} \cup {Again(a) : a \in {b \in due2 : b.period > 0}}
  <2>1. ASSUME NEW y \in softTimers'
        PROVE  View(y, now') \in {Moved(a) : a \in Armed \ due2}
                                   \cup {Again(a) : a \in {b \in due2 : b.period > 0}}
    <3>1. CASE y \in softTimers \ due
      BY <1>2, <3>1 DEF Armed
    <3>2. ASSUME NEW x \in due, x.reload # 0, y = Rearmed(x, now')
          PROVE  View(y, now') \in {Again(a) : a \in {b \in due2 : b.period > 0}}
      <4>1. x \in softTimers
        BY DEF due
      <4> QED BY <1>2, <3>2, <4>1
    <3> QED BY <1>1, <3>1, <3>2
  <2>2. ASSUME NEW a \in Armed \ due2
        PROVE  Moved(a) \in Armed'
    <3>1. PICK x \in softTimers : a = View(x, now)
      BY DEF Armed
    <3>2. x \in softTimers' /\ View(x, now') = Moved(a)
      BY <1>1, <1>2, <2>2, <3>1
    <3> QED BY <3>2 DEF Armed
  <2>3. ASSUME NEW a \in due2, a.period > 0
        PROVE  Again(a) \in Armed'
    <3>1. PICK x \in softTimers : a = View(x, now)
      BY DEF Armed, due2
    <3>2. x \in due /\ x.reload # 0 /\ View(Rearmed(x, now'), now') = Again(a)
      BY <1>2, <2>3, <3>1
    <3>3. Rearmed(x, now') \in softTimers'
      BY <1>1, <3>2
    <3> QED BY <3>2, <3>3 DEF Armed
  <2> QED BY <2>1, <2>2, <2>3 DEF Armed
<1> QED BY <1>3, <1>4 DEF Countdown!Elapse, Armed, View, due2, Moved, Again

\* What is armed for other events, on both sides.
LEMMA OthersView ==
  ASSUME NEW t \in Tasks, NEW e \in Flags
  PROVE  {View(x, now) : x \in Except(t, e)} = {a \in Armed : <<a.task, a.flag>> # <<t, e>>}
BY DEF Except, Armed, View

LEMMA StepImplements ==
  ASSUME IInv, [TimerNext]_timerVars
  PROVE  [Countdown!Next]_<<Armed, events>>
<1>1. ASSUME NEW ms \in 1..MaxStep, Handle(ms)
      PROVE  Countdown!Next
  <2>1. ms \in 0..LongestTimeout
    BY ClockFacts
  <2> QED BY <1>1, <2>1, TickElapses DEF Countdown!Next
<1>2. ASSUME NEW t \in Tasks, TakeEvents(t)
      PROVE  Countdown!Next
  BY <1>2 DEF TakeEvents, Countdown!Next, Countdown!Collect
<1>3. ASSUME NEW t \in Tasks, NEW e \in Flags, SetTimerNow(t, e)
      PROVE  Countdown!Next
  <2>1. Countdown!ArmNow(t, e)
    BY <1>3, OthersView DEF SetTimerNow, Countdown!ArmNow, Countdown!Other, Armed, View
  <2> QED BY <2>1 DEF Countdown!Next
<1>4. ASSUME NEW t \in Tasks, NEW e \in Flags, StopTimer(t, e)
      PROVE  Countdown!Next
  <2>1. Countdown!Disarm(t, e)
    BY <1>4, OthersView DEF StopTimer, Countdown!Disarm, Countdown!Other, Armed, View
  <2> QED BY <2>1 DEF Countdown!Next
<1>5. ASSUME NEW t \in Tasks, NEW e \in Flags, NEW ms \in 1..LongestTimeout,
             NEW reload \in BOOLEAN, SetTimer(t, e, ms, reload)
      PROVE  Countdown!Next
  <2> DEFINE x == [task |-> t, event |-> e, deadline |-> wrapping_add(now, ms),
                   reload |-> IF reload THEN ms ELSE 0]
             v == [task |-> t, flag |-> e, left |-> ms, period |-> IF reload THEN ms ELSE 0]
  <2>1. now \in Moments /\ x = [task |-> t, event |-> e, deadline |-> wrapping_add(now, ms),
                              reload |-> IF reload THEN ms ELSE 0]
    BY DEF IInv
  <2>2. softTimers' = Except(t, e) \cup {x} /\ now' = now /\ events' = events
    BY <1>5 DEF SetTimer
  <2> HIDE DEF x
  <2>3. View(x, now) = v
    BY <2>1, SetTimerSound DEF View
  <2>4. Armed' = {View(y, now) : y \in Except(t, e)} \cup {v}
    BY <2>2, <2>3 DEF Armed
  <2>5. Armed' = {a \in Armed : <<a.task, a.flag>> # <<t, e>>} \cup {v}
    BY <2>4, OthersView
  <2>6. Countdown!Arm(t, e, ms, reload)
    BY <2>2, <2>5 DEF Countdown!Arm, Countdown!Other, Armed, View
  <2>7. ms \in 0..LongestTimeout
    BY ClockFacts
  <2> QED BY <2>6, <2>7 DEF Countdown!Next
<1>6. CASE UNCHANGED timerVars
  BY <1>6 DEF timerVars, Armed, View
<1> QED BY <1>1, <1>2, <1>3, <1>4, <1>5, <1>6 DEF TimerNext

\* For every size of the clock, the wrapping deadlines are a countdown in plain
\* milliseconds: no timer fires early or late, and a periodic one does not
\* drift, however late handle is entered.
THEOREM Countdowns == TimerSpec => ImplementsCountdown
<1>1. TimerInit => Countdown!Init
  BY DEF TimerInit, Countdown!Init
<1>2. IInv /\ [TimerNext]_timerVars => [Countdown!Next]_Countdown!timerVars
  BY StepImplements DEF Countdown!timerVars, Armed, View
<1> QED BY <1>1, <1>2, Invariance, PTL DEF TimerSpec, ImplementsCountdown, Countdown!Spec
=============================================================================
