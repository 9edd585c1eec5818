------------------------------- MODULE CbTimers -------------------------------
(***************************************************************************)
(* The callback timers of soc/phy6252/cbtimer_rom.rs.  A guest function is *)
(* registered with a timeout and called, as guest code, when the CPU next  *)
(* fetches the idle loop after the deadline.  The table of timers belongs  *)
(* to the host thread: every chip that runs on the thread shares it, and   *)
(* a reset of a chip leaves it alone.                                      *)
(*                                                                         *)
(* "owner" and "wait" of a timer are history: which chip registered the    *)
(* callback, in which of its boots, and the milliseconds it has to wait.   *)
(***************************************************************************)
EXTENDS Integers, Sequences, SequencesExt, FiniteSetsExt, Selection

CONSTANTS
  Chips,       \* the chips of one host thread
  MaxTimers,   \* MAX_TIMERS, 16
  ClockSize,   \* 2^32
  MaxTimeout,  \* bound: the longest timeout the firmware asks for
  MaxBoots     \* bound: how often a chip is reset

HalfClock == ClockSize \div 2

ASSUME MaxTimersAssumption == MaxTimers \in 1..255
ASSUME ClockAssumption == ClockSize \in Nat \ {0} /\ ClockSize % 2 = 0
ASSUME MaxTimeoutAssumption == MaxTimeout \in Nat /\ MaxTimeout <= HalfClock
ASSUME MaxBootsAssumption == MaxBoots \in Nat

Clock == 0 .. ClockSize - 1
Ids == 0 .. MaxTimers - 1

\* What the CPU executes: guest code called by the scheduler, the idle loop,
\* the callback of a timer, or nothing that ever returns to the scheduler.
Modes == {"task", "idle", "callback", "lost"}

VARIABLES
  timers,   \* TIMERS, in the order of the vector
  clock,    \* clock[c]: now_ms of the CPU of c
  mode,     \* mode[c]
  current,  \* current[c]: the timer whose callback runs
  boot      \* boot[c]: how often c was reset

cbVars == <<timers, clock, mode, current, boot>>

Owner == [chip : Chips, boot : 0..MaxBoots]
CbTimer == [id : Ids, owner : Owner, deadline : Clock, wait : 0..MaxTimeout]
NoTimer == [id |-> MaxTimers]

CbTypeOK ==
  /\ timers \in Seq(CbTimer)
  /\ Len(timers) <= MaxTimers
  /\ clock \in [Chips -> Clock]
  /\ mode \in [Chips -> Modes]
  /\ current \in [Chips -> CbTimer \cup {NoTimer}]
  /\ \A c \in Chips : mode[c] = "callback" => current[c] # NoTimer
  /\ boot \in [Chips -> 0..MaxBoots]

CbInit ==
  /\ timers = <<>>
  /\ clock = [c \in Chips |-> 0]
  /\ mode = [c \in Chips |-> "task"]
  /\ current = [c \in Chips |-> NoTimer]
  /\ boot = [c \in Chips |-> 0]

\* The instance of the firmware of c that runs now.
Me(c) == [chip |-> c, boot |-> boot[c]]

WrappingAdd(a, b) == (a + b) % ClockSize
WrappingSub(a, b) == (a - b) % ClockSize

\* Faulty variant: a deadline counts as reached a millisecond too soon.
ReachedSoon(at, deadline) == WrappingSub(at + 1, deadline) < HalfClock

Reached(at, deadline) == WrappingSub(at, deadline) < HalfClock
Due(c) == {i \in DOMAIN timers : Reached(clock[c], timers[i].deadline)}
InGuest(c) == mode[c] \in {"task", "callback"}

-----------------------------------------------------------------------------
(* The calls the firmware makes. *)

FreeIds == Ids \ {timers[i].id : i \in DOMAIN timers}

Entry(c, id, timeout) ==
  [id |-> id, owner |-> Me(c), deadline |-> WrappingAdd(clock[c], timeout), wait |-> timeout]

\* The lowest free identifier is taken; with none left the call fails.
Start(c, timeout) ==
  /\ InGuest(c)
  /\ FreeIds # {}
  /\ timers' = Append(timers, Entry(c, Min(FreeIds), timeout))
  /\ UNCHANGED <<clock, mode, current, boot>>

Stop(c, id) ==
  /\ InGuest(c)
  /\ timers' = Selected(timers, {x \in CbTimer : x.id # id})
  /\ UNCHANGED <<clock, mode, current, boot>>

\* A timer that is updated keeps its place.
Update(c, id, timeout) ==
  /\ InGuest(c)
  /\ timers' = [i \in DOMAIN timers |->
       IF timers[i].id = id
         THEN [timers[i] EXCEPT !.deadline = WrappingAdd(clock[c], timeout), !.wait = timeout]
         ELSE timers[i]]
  /\ UNCHANGED <<clock, mode, current, boot>>

-----------------------------------------------------------------------------
(* The CPU. *)

\* Faulty variant: the last due timer of the vector is taken.
DispatchLast(c) ==
  /\ mode[c] = "idle"
  /\ Due(c) # {}
  /\ LET last == Max(Due(c))
     IN  /\ current' = [current EXCEPT ![c] = timers[last]]
         /\ timers' = RemoveAt(timers, last)
  /\ mode' = [mode EXCEPT ![c] = "callback"]
  /\ UNCHANGED <<clock, boot>>

\* The first due timer of the vector is removed and its callback is called.
DispatchDue(c) ==
  /\ mode[c] = "idle"
  /\ Due(c) # {}
  /\ LET first == Min(Due(c))
     IN  /\ current' = [current EXCEPT ![c] = timers[first]]
         /\ timers' = RemoveAt(timers, first)
  /\ mode' = [mode EXCEPT ![c] = "callback"]
  /\ UNCHANGED <<clock, boot>>

\* The callback returns to the continuation trap.  The trap is recognised by
\* the constant in R3, a register a function may use freely; without it the
\* CPU runs on through an address range that holds no code.
Return(c) ==
  /\ mode[c] = "callback"
  /\ \E kept \in BOOLEAN : mode' = [mode EXCEPT ![c] = IF kept THEN "idle" ELSE "lost"]
  /\ current' = [current EXCEPT ![c] = NoTimer]
  /\ UNCHANGED <<timers, clock, boot>>

\* In the idle loop a due callback goes before everything else.
RunTask(c) ==
  /\ mode[c] = "idle"
  /\ Due(c) = {}
  /\ mode' = [mode EXCEPT ![c] = "task"]
  /\ UNCHANGED <<timers, clock, current, boot>>

Idle(c) ==
  /\ mode[c] = "task"
  /\ mode' = [mode EXCEPT ![c] = "idle"]
  /\ UNCHANGED <<timers, clock, current, boot>>

\* One millisecond of cycles.  Bound: a CPU that is not lost keeps no due
\* timer waiting for half the range of the clock (24 days).
Tick(c) ==
  /\ mode[c] # "lost" => \A i \in Due(c) : Reached(WrappingAdd(clock[c], 1), timers[i].deadline)
  /\ clock' = [clock EXCEPT ![c] = WrappingAdd(@, 1)]
  /\ timers' = [i \in DOMAIN timers |->
       IF timers[i].owner = Me(c) /\ timers[i].wait > 0
         THEN [timers[i] EXCEPT !.wait = @ - 1]
         ELSE timers[i]]
  /\ UNCHANGED <<mode, current, boot>>

\* A reset of the chip restarts its firmware; whether the emulated CPU keeps
\* its cycle count is not decided here.
CbReset(c) ==
  /\ boot[c] < MaxBoots
  /\ boot' = [boot EXCEPT ![c] = @ + 1]
  /\ mode' = [mode EXCEPT ![c] = "task"]
  /\ current' = [current EXCEPT ![c] = NoTimer]
  /\ \E at \in {0, clock[c]} : clock' = [clock EXCEPT ![c] = at]
  /\ UNCHANGED timers

-----------------------------------------------------------------------------
CbNext ==
  \E c \in Chips :
    \/ \E timeout \in 0..MaxTimeout :
         Start(c, timeout) \/ \E id \in Ids : Update(c, id, timeout)
    \/ \E id \in Ids : Stop(c, id)
    \/ DispatchDue(c)
    \/ Return(c)
    \/ RunTask(c)
    \/ Idle(c)
    \/ Tick(c)
    \/ CbReset(c)

CbSpec == CbInit /\ [][CbNext]_cbVars

-----------------------------------------------------------------------------
(* Properties. *)

\* A callback never runs before its timeout has passed, across the wrap of
\* the clock and any number of updates: of a chip that has the table for
\* itself, for another could update its timers on a clock of its own.
NeverEarly ==
  \A c \in Chips :
    (mode[c] = "callback" /\ current[c].owner = Me(c)) => current[c].wait = 0

\* No timer is starved by others, not even by callbacks that register
\* themselves again with no timeout: as long as the CPU of a chip keeps
\* coming back to the idle loop, a due timer is called.
Waits(c, id) == \E i \in Due(c) : timers[i].id = id

DueTimerIsCalled ==
  \A c \in Chips, id \in Ids :
    []<>(mode[c] = "idle") => (Waits(c, id) ~> ~Waits(c, id))

\* A chip calls only callbacks that its own firmware has registered: chips
\* that share a host thread stay independent of one another.
CallsItsOwnCallbacks ==
  \A c \in Chips : mode[c] = "callback" => current[c].owner.chip = c
=============================================================================
