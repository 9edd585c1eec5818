------------------------------ MODULE OsalTimers ------------------------------
(***************************************************************************)
(* The software timers of soc/phy6252/osal.rs.  Time is the cycle counter  *)
(* of the CPU in milliseconds, a 32-bit number that wraps; a timer stores  *)
(* the wrapped moment it is due.  Due timers are looked for on every call  *)
(* of HostOsal::handle, that is before every instruction, whatever task    *)
(* runs, and only raise an event: the scheduler hands it over later.       *)
(***************************************************************************)
EXTENDS Integers, FiniteSetsExt

CONSTANTS
  Tasks, Flags,
  MsRange,         \* 2^32: how many values the clock has
  LongestTimeout,  \* bound: the longest timeout the firmware asks for
  MaxStep          \* bound: how far the clock moves between two calls of handle

HalfRange == MsRange \div 2

ASSUME MsRangeAssumption == MsRange \in Nat /\ MsRange % 2 = 0
ASSUME LongestTimeoutAssumption == LongestTimeout \in 1..HalfRange
ASSUME MaxStepAssumption == MaxStep \in 1..LongestTimeout /\ MaxStep < HalfRange

Moments == 0 .. MsRange - 1

VARIABLES
  now,         \* simulated_ms at the last call of handle
  softTimers,  \* HostOsal.timers
  events       \* events[t]: the event word of task t

timerVars == <<now, softTimers, events>>

Timer == [task : Tasks, event : Flags, deadline : Moments, reload : 0..LongestTimeout]

TimerTypeOK ==
  /\ now \in Moments
  /\ softTimers \subseteq Timer
  /\ events \in [Tasks -> SUBSET Flags]

TimerInit ==
  /\ now \in Moments
  /\ softTimers = {}
  /\ events = [t \in Tasks |-> {}]

wrapping_add(a, b) == (a + b) % MsRange
wrapping_sub(a, b) == (a - b) % MsRange

\* Faulty variant: the half of the clock that counts as the past is one too big.
ReachedLate(at, deadline) == wrapping_sub(at, deadline) <= HalfRange

reached(at, deadline) == wrapping_sub(at, deadline) < HalfRange

Remaining(at, deadline) == IF reached(at, deadline) THEN 0 ELSE wrapping_sub(deadline, at)

Except(t, e) == {x \in softTimers : ~(x.task = t /\ x.event = e)}

\* osal_start_timerEx and osal_start_reload_timer.  There is one timer for
\* each task and event.
SetTimer(t, e, ms, reload) ==
  /\ ms > 0
  /\ softTimers' = Except(t, e) \cup
       {[task |-> t, event |-> e, deadline |-> wrapping_add(now, ms),
         reload |-> IF reload THEN ms ELSE 0]}
  /\ UNCHANGED <<now, events>>

\* With zero milliseconds they raise the event and leave no timer behind.
SetTimerNow(t, e) ==
  /\ softTimers' = Except(t, e)
  /\ events' = [events EXCEPT ![t] = @ \cup {e}]
  /\ UNCHANGED now

StopTimer(t, e) ==
  /\ softTimers' = Except(t, e)
  /\ UNCHANGED <<now, events>>

\* The deadline moves on by whole periods until it lies in the future.
Rearmed(x, at) ==
  LET After(k) == wrapping_add(x.deadline, k * x.reload)
      periods == Min({k \in 1..MsRange : ~reached(at, After(k))})
  IN  [x EXCEPT !.deadline = After(periods)]

\* Faulty variant: the next period counts from the moment of service.
ExpireDrifting(at) ==
  LET due == {x \in softTimers : reached(at, x.deadline)}
  IN  /\ events' = [t \in Tasks |-> events[t] \cup {x.event : x \in {y \in due : y.task = t}}]
      /\ softTimers' = (softTimers \ due) \cup
           {[x EXCEPT !.deadline = wrapping_add(at, x.reload)] : x \in {y \in due : y.reload # 0}}

Expire(at) ==
  LET due == {x \in softTimers : reached(at, x.deadline)}
  IN  /\ events' = [t \in Tasks |-> events[t] \cup {x.event : x \in {y \in due : y.task = t}}]
      /\ softTimers' = (softTimers \ due) \cup {Rearmed(x, at) : x \in {y \in due : y.reload # 0}}

\* The CPU executes for some milliseconds and enters handle again.
Handle(ms) ==
  /\ now' = wrapping_add(now, ms)
  /\ Expire(now')

\* The scheduler empties the event word of a task (OsalKernel!Dispatch).
TakeEvents(t) ==
  /\ events' = [events EXCEPT ![t] = {}]
  /\ UNCHANGED <<now, softTimers>>

TimerNext ==
  \/ \E ms \in 1..MaxStep : Handle(ms)
  \/ \E t \in Tasks :
       \/ TakeEvents(t)
       \/ \E e \in Flags :
            \/ SetTimerNow(t, e)
            \/ StopTimer(t, e)
            \/ \E ms \in 1..LongestTimeout, reload \in BOOLEAN : SetTimer(t, e, ms, reload)

TimerSpec == TimerInit /\ [][TimerNext]_timerVars

-----------------------------------------------------------------------------
(* Properties. *)

\* Restarting a timer replaces it: osal_get_timeoutEx and osal_stop_timerEx,
\* which look a timer up by task and event, always mean the same one.
OneTimerPerEvent ==
  \A x, y \in softTimers : x.task = y.task /\ x.event = y.event => x = y

\* No timer is left overdue, however the clock has wrapped: once handle has
\* run, every deadline lies ahead, and no further ahead than was asked for.
DeadlinesAhead ==
  \A x \in softTimers : Remaining(now, x.deadline) \in 1 .. (IF x.reload = 0 THEN LongestTimeout ELSE x.reload)

\* The wrapping deadlines implement a countdown in plain milliseconds: no
\* timer fires early or late and a periodic one does not drift.
Countdown ==
  INSTANCE TimerCountdown WITH
    armed <- {[task |-> x.task, flag |-> x.event,
               left |-> Remaining(now, x.deadline), period |-> x.reload] : x \in softTimers},
    raised <- events,
    Delays <- 0..LongestTimeout

ImplementsCountdown == Countdown!Spec
=============================================================================
