------------------------------- MODULE SaturnPlc -------------------------------
(***************************************************************************)
(* Saturn controllers in one process (SaturnPlc of saturn.rs) on the C     *)
(* runtime (saturn_bridge.c, saturn_state.inc), which exists once: a       *)
(* controller holds a process-wide lock from its load until it is dropped. *)
(*                                                                         *)
(* What a program does in a step is not modelled: its memory is a number   *)
(* that the step changes in some way.                                      *)
(***************************************************************************)
EXTENDS Integers

CONSTANTS
  Threads,
  Programs,
  Accepted,   \* the programs that inspect_fbdbin accepts
  Starting,   \* those that fbdInit starts
  Portable,   \* those without blocks that reach outside, see snapshot_supported
  Low, High,  \* the limits of the setpoint of each program
  Values      \* bound: inputs, setpoints and memories

ASSUME ProgramsAssumption ==
  /\ Starting \subseteq Programs /\ Accepted \subseteq Programs /\ Portable \subseteq Programs
  /\ 0 \in Values /\ Values \subseteq Int
  /\ {Low, High} \subseteq [Programs -> Int]

NoThread == "nobody"
NoProgram == "no program"
ASSUME NobodyAssumption == NoThread \notin Threads /\ NoProgram \notin Programs

VARIABLES
  lock,      \* RUNTIME_LOCK: its holder
  poisoned,  \* a holder panicked
  plc,       \* of each thread: how far its controller is, its program and inputs
  runtime,   \* the statics of saturn_bridge.c but for the NVRAM
  snapshots  \* what snapshot() has returned: a set of at most one

plcVars == <<lock, poisoned, plc, runtime, snapshots>>

\* "of" is history: the program whose run led to the memory.
Unloaded == [program |-> NoProgram, input |-> 0, memory |-> 0, setpoint |-> 0, of |-> NoProgram]
Idle == [at |-> "none", program |-> NoProgram, reset |-> FALSE, input |-> 0]

PlcInit ==
  /\ lock = NoThread /\ poisoned = FALSE
  /\ plc = [t \in Threads |-> Idle]
  /\ runtime = Unloaded
  /\ snapshots = {}

At(t, step) == plc[t].at = step
Goes(t, step) == plc' = [plc EXCEPT ![t].at = step]

-----------------------------------------------------------------------------
(* SaturnPlc::load. *)

\* The program is inspected before anything is locked.
Load(t, p, reset) ==
  /\ At(t, "none")
  /\ p \in Accepted
  /\ plc' = [plc EXCEPT ![t] = [at |-> "waiting", program |-> p, reset |-> reset, input |-> 0]]
  /\ UNCHANGED <<lock, poisoned, runtime, snapshots>>

\* A poisoned lock is an error, for all time to come.
Acquire(t) ==
  /\ At(t, "waiting")
  /\ lock = NoThread
  /\ IF poisoned
       THEN plc' = [plc EXCEPT ![t] = Idle] /\ UNCHANGED lock
       ELSE lock' = t /\ Goes(t, "locked")
  /\ UNCHANGED <<poisoned, runtime, snapshots>>

\* fv_fbd_load: all statics are cleared, the NVRAM only on demand; a setpoint
\* comes from there.
LoadRuntime(t) ==
  /\ At(t, "locked")
  /\ plc[t].program \in Starting
  /\ \E value \in Values :
       /\ plc[t].reset => value \in Low[plc[t].program] .. High[plc[t].program]
       /\ runtime' = [program |-> plc[t].program, input |-> 0, memory |-> 0,
                      setpoint |-> value, of |-> plc[t].program]
  /\ Goes(t, "alive")
  /\ UNCHANGED <<lock, poisoned, snapshots>>

\* Faulty variant: the lock is not given back.
LoadFailsLocked(t) ==
  /\ At(t, "locked")
  /\ plc[t].program \notin Starting
  /\ runtime' = Unloaded
  /\ plc' = [plc EXCEPT ![t] = Idle]
  /\ UNCHANGED <<lock, poisoned, snapshots>>

\* The runtime does not start: the guard of the lock is dropped with the error.
LoadFails(t) ==
  /\ At(t, "locked")
  /\ plc[t].program \notin Starting
  /\ runtime' = Unloaded
  /\ lock' = NoThread
  /\ plc' = [plc EXCEPT ![t] = Idle]
  /\ UNCHANGED <<poisoned, snapshots>>

-----------------------------------------------------------------------------
(* The controller at work. *)

SetInput(t, value) ==
  /\ At(t, "alive")
  /\ runtime' = [runtime EXCEPT !.input = value]
  /\ plc' = [plc EXCEPT ![t].input = value]
  /\ UNCHANGED <<lock, poisoned, snapshots>>

Step(t, memory) ==
  /\ At(t, "alive")
  /\ runtime' = [runtime EXCEPT !.memory = memory]
  /\ UNCHANGED <<lock, poisoned, plc, snapshots>>

\* The limits are those of the loaded program.
SetSetpoint(t, value) ==
  /\ At(t, "alive")
  /\ value \in Low[runtime.program] .. High[runtime.program]
  /\ runtime' = [runtime EXCEPT !.setpoint = value]
  /\ UNCHANGED <<lock, poisoned, plc, snapshots>>

\* snapshot: "program" is the fingerprint of the program.
Snapshot(t) ==
  /\ At(t, "alive")
  /\ plc[t].program \in Portable
  /\ snapshots' = {runtime}
  /\ UNCHANGED <<lock, poisoned, plc, runtime>>

\* Faulty variant: the fingerprint is not looked at.
FitsAny(s) == TRUE

\* fv_fbd_restore compares size, fingerprint and payload before it writes.
Fits(s) == s.program = runtime.program

Restore(t) ==
  /\ At(t, "alive")
  /\ plc[t].program \in Portable
  /\ \E s \in snapshots :
       /\ Fits(s)
       /\ runtime' = [s EXCEPT !.program = runtime.program]
       /\ plc' = [plc EXCEPT ![t].input = s.input]
  /\ UNCHANGED <<lock, poisoned, snapshots>>

-----------------------------------------------------------------------------
(* The controller is dropped, or its thread panics with it. *)

\* Drop::drop runs before the fields are dropped, the guard among them.
Unload(t) ==
  /\ At(t, "alive")
  /\ runtime' = Unloaded
  /\ Goes(t, "unloaded")
  /\ UNCHANGED <<lock, poisoned, snapshots>>

Release(t, panicking) ==
  /\ At(t, "unloaded")
  /\ lock' = NoThread
  /\ poisoned' = (poisoned \/ panicking)
  /\ plc' = [plc EXCEPT ![t] = Idle]
  /\ UNCHANGED <<runtime, snapshots>>

Drops(t) == Unload(t) \/ \E panicking \in BOOLEAN : Release(t, panicking)

PlcNext ==
  \E t \in Threads :
    \/ \E p \in Programs, reset \in BOOLEAN : Load(t, p, reset)
    \/ Acquire(t)
    \/ LoadRuntime(t)
    \/ LoadFails(t)
    \/ \E value \in Values : SetInput(t, value) \/ Step(t, value) \/ SetSetpoint(t, value)
    \/ Snapshot(t)
    \/ Restore(t)
    \/ Drops(t)

PlcSpec == PlcInit /\ [][PlcNext]_plcVars

\* A thread in load goes on, and drops its controller some time, as run_plc does
\* after its last step.  Nothing is asked of the order in which threads get the
\* lock.
PlcFairness ==
  \A t \in Threads : WF_plcVars(LoadRuntime(t) \/ LoadFails(t)) /\ WF_plcVars(Drops(t))

PlcFairSpec == PlcSpec /\ PlcFairness

-----------------------------------------------------------------------------
(* Properties. *)

\* A controller runs its own program, on the inputs that it was given itself,
\* from a memory that this program led to: whatever other controllers, loads
\* that failed and snapshots of other programs there were in the process.
OwnRuntime ==
  \A t \in Threads : At(t, "alive") =>
    /\ lock = t
    /\ runtime.program = plc[t].program /\ runtime.of = plc[t].program
    /\ runtime.input = plc[t].input

\* The lock comes back from every thread that takes it, although loads fail and
\* threads panic.
LockReturns == \A t \in Threads : lock = t ~> lock # t
=============================================================================
