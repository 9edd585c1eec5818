---------------------------- MODULE TimerCountdown ----------------------------
(***************************************************************************)
(* What the OSAL software timers promise a firmware, in plain milliseconds *)
(* and without a clock that wraps: a timer fires once the time asked for   *)
(* has passed, neither before nor after, and a periodic one keeps to the   *)
(* multiples of its period however late it was serviced.                   *)
(***************************************************************************)
EXTENDS Integers

CONSTANTS
  Tasks, Flags,
  Delays  \* the numbers of milliseconds that occur, as timeouts and as steps

VARIABLES
  armed,  \* timers waiting to fire: task, flag, milliseconds left, period (0: one-shot)
  raised  \* raised[t]: the flags raised for t and not handed to its handler yet

timerVars == <<armed, raised>>

Init ==
  /\ armed = {}
  /\ raised = [t \in Tasks |-> {}]

Other(t, f) == {a \in armed : <<a.task, a.flag>> # <<t, f>>}

Arm(t, f, ms, periodic) ==
  /\ ms > 0
  /\ armed' = Other(t, f) \cup
       {[task |-> t, flag |-> f, left |-> ms, period |-> IF periodic THEN ms ELSE 0]}
  /\ UNCHANGED raised

\* A timer of zero milliseconds, periodic or not, fires once and at once.
ArmNow(t, f) ==
  /\ armed' = Other(t, f)
  /\ raised' = [raised EXCEPT ![t] = @ \cup {f}]

Disarm(t, f) ==
  /\ armed' = Other(t, f)
  /\ UNCHANGED raised

\* The milliseconds to the next multiple of the period, "late" after one.
ToNextMultiple(late, period) == period - (late % period)

Elapse(ms) ==
  LET due == {a \in armed : a.left <= ms}
  IN  /\ raised' = [t \in Tasks |-> raised[t] \cup {a.flag : a \in {b \in due : b.task = t}}]
      /\ armed' = {[a EXCEPT !.left = @ - ms] : a \in armed \ due}
             \cup {[a EXCEPT !.left = ToNextMultiple(ms - @, a.period)] :
                     a \in {b \in due : b.period > 0}}

Collect(t) ==
  /\ raised' = [raised EXCEPT ![t] = {}]
  /\ UNCHANGED armed

Next ==
  \/ \E ms \in Delays : Elapse(ms)
  \/ \E t \in Tasks :
       \/ Collect(t)
       \/ \E f \in Flags :
            \/ ArmNow(t, f)
            \/ Disarm(t, f)
            \/ \E ms \in Delays, periodic \in BOOLEAN : Arm(t, f, ms, periodic)

Spec == Init /\ [][Next]_timerVars
=============================================================================
