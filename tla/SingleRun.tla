----------------------------- MODULE SingleRun -----------------------------
(***************************************************************************)
(* One chip on the command line: the loop of emu.rs, which drains the       *)
(* commands of a live run, ticks the chip, and ends when the chip has       *)
(* stopped.  It has no world and counts no ticks.  A run that is not live   *)
(* (--once) looks at the number of instructions, which a chip that sleeps   *)
(* or is in the monitor of its ROM does not increase.                       *)
(***************************************************************************)
EXTENDS Naturals, Sequences

CONSTANTS
  MaxInsns,   \* --max-insns
  LiveBurst,  \* how many instructions a tick of a live run may execute
  MaxGiven    \* bound: how many commands are typed

VARIABLES
  at,        \* where the loop is: "commands", "tick" or "ended"
  isLive,    \* RunOpts.live
  commands,  \* the channel of the reader thread
  given,     \* bound: how many commands were typed
  chip,      \* "runs", "sleeps", in the ROM "monitor", or "stopped"
  insn,      \* Chip.insn
  why        \* why the run has ended, or "none"

singleVars == <<at, isLive, commands, given, chip, insn, why>>

\* What parse_line makes of a line: "pin" may raise an input, and "help" stands
\* for everything that changes nothing here.
Lines == {"quit", "help", "pin", "uart"}

SingleTypeOK ==
  /\ at \in {"commands", "tick", "ended"}
  /\ isLive \in BOOLEAN
  /\ commands \in Seq(Lines) /\ given \in 0..MaxGiven
  /\ chip \in {"runs", "sleeps", "monitor", "stopped"}
  /\ insn \in 0..MaxInsns
  /\ why \in {"none", "quit", "stopped", "max instructions", "error"}

SingleInit ==
  /\ at = "commands" /\ isLive \in BOOLEAN
  /\ commands = <<>> /\ given = 0
  /\ chip = "runs" /\ insn = 0
  /\ why = "none"

Finish(reason) == at' = "ended" /\ why' = reason

\* spawn_cmd_reader.
Enter(line) ==
  /\ isLive /\ at = "commands" /\ given < MaxGiven
  /\ commands' = Append(commands, line)
  /\ given' = given + 1
  /\ UNCHANGED <<at, isLive, chip, insn, why>>

\* Chip::apply: an input that rises wakes the CPU; the UART is an error unless
\* the monitor listens, which may start the application again, or fail to.
Obey(line) ==
  \/ UNCHANGED <<at, chip, why>> /\ ~(line = "uart" /\ chip # "monitor")
  \/ line = "pin" /\ chip = "sleeps" /\ chip' = "runs" /\ UNCHANGED <<at, why>>
  \/ line = "uart" /\ chip = "monitor" /\ chip' = "runs" /\ UNCHANGED <<at, why>>
  \/ line = "uart" /\ Finish("error") /\ UNCHANGED chip

\* drain_cmds: one command.
DrainCommand ==
  /\ at = "commands" /\ commands # <<>>
  /\ commands' = Tail(commands)
  /\ IF Head(commands) = "quit" THEN Finish("quit") /\ UNCHANGED chip ELSE Obey(Head(commands))
  /\ UNCHANGED <<isLive, given, insn>>

AllDrained ==
  /\ at = "commands" /\ commands = <<>>
  /\ at' = "tick"
  /\ UNCHANGED <<isLive, commands, given, chip, insn, why>>

\* The instructions of one Chip::tick: the CPU goes to sleep, resets into the
\* ROM, or stops on a fault, a halt or the limit, or the burst is used up.
Execute ==
  \E n \in 0..(IF isLive THEN LiveBurst ELSE 1) :
    /\ insn + n <= MaxInsns /\ insn' = insn + n
    /\ \/ n > 0 /\ chip' \in {"sleeps", "monitor"}
       \/ chip' = "stopped"
       \/ n = (IF isLive THEN LiveBurst ELSE 1) /\ insn' < MaxInsns /\ chip' = "runs"

\* Chip::tick, and what the loop makes of it.
TickChip ==
  /\ at = "tick"
  /\ IF chip = "runs" THEN Execute ELSE UNCHANGED <<chip, insn>>
  /\ CASE chip' = "stopped" -> Finish("stopped")
       [] chip' # "stopped" /\ ~isLive /\ insn' >= MaxInsns -> Finish("max instructions")
       [] OTHER -> at' = "commands" /\ UNCHANGED why
  /\ UNCHANGED <<isLive, commands, given>>

SingleLoop == DrainCommand \/ AllDrained \/ TickChip

SingleNext == SingleLoop \/ \E line \in Lines : Enter(line)

\* The loop never waits for anything but a millisecond.
SingleSpec == SingleInit /\ [][SingleNext]_singleVars /\ WF_singleVars(SingleLoop)

-----------------------------------------------------------------------------
(* Properties. *)

\* A run comes to an end when "quit" was typed and when the chip has stopped;
\* and one that is not live, unless the chip sleeps or is in the ROM's monitor.
SingleEnds ==
  /\ chip = "stopped" \/ (\E k \in DOMAIN commands : commands[k] = "quit") ~> at = "ended"
  /\ ~isLive ~> at = "ended" \/ chip \in {"sleeps", "monitor"}

\* What PROTOCOL.md says of a run that is not live: "--once runs until halt or
\* the insn cap."  It does not end when the firmware has gone to sleep, or was
\* reset into the monitor of the ROM, before that many instructions.
OnceEnds == ~isLive ~> at = "ended"
=============================================================================
