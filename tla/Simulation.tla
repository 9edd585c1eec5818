----------------------------- MODULE Simulation -----------------------------
(***************************************************************************)
(* The simulation on the command line: the loop of sim.rs, which drives    *)
(* one or more chips on the clock of their world.  A live run reads lines  *)
(* from a thread of its own and goes on until it is told to quit; another  *)
(* run ends after some ticks.                                              *)
(***************************************************************************)
EXTENDS RadioWorld

CONSTANTS
  Starts,    \* the lists of chips that a run may start with
  Ticks,     \* --ticks of a run that is not live
  MaxLines   \* bound: how many lines are typed

ASSUME StartsAssumption == Starts \subseteq Seq([id : Ids, at : Places])

VARIABLES
  phase,     \* where the loop is: "lines", "air", "chips" or "ended"
  live,      \* SimOpts.live
  lines,     \* the channel of the reader thread
  typed,     \* bound: how many lines were typed
  chips,     \* chips[i]: "runs", in the ROM "monitor", or "stopped"
  outcome    \* why the run has ended, or "none"

simVars == <<worldVars, phase, live, lines, typed, chips, outcome>>

\* What parse_line makes of a line: "help" stands for every line that changes
\* nothing here, such as a level of a pin, bytes for the firmware or a line that
\* is not understood, and "scan" for a Scan or Gone packet that the user makes up.
Commands == {"quit", "help", "uart", "scan"}

SimTypeOK ==
  /\ TypeOK
  /\ phase \in {"lines", "air", "chips", "ended"}
  /\ lines \in Seq([to : {0} \cup Listeners, cmd : Commands])
  /\ chips \in [Listeners -> {"runs", "monitor", "stopped"}]
  /\ outcome \in {"none", "quit", "stopped", "ticks", "error"}

\* collect_nodes and run: names are distinct; a live run loops.
SimInit ==
  /\ nodes \in {start \in Starts :
                  \A i, j \in DOMAIN start : start[i].id = start[j].id => i = j}
  /\ live \in BOOLEAN
  /\ world \in [name : DOMAIN Worlds, looping : {TRUE, live}]
  /\ now = 0 /\ lastLink = {} /\ heard = {} /\ steady = TRUE
  /\ told = Nobody /\ lost = Nobody
  /\ phase = "lines"
  /\ lines = <<>> /\ typed = 0
  /\ chips = [i \in Listeners |-> "runs"]
  /\ outcome = "none"

-----------------------------------------------------------------------------
\* spawn_line_reader.  What is typed while the chips run is as good as typed
\* when the loop comes back to the channel.
Type(to, cmd) ==
  /\ phase = "lines" /\ live /\ typed < MaxLines
  /\ lines' = Append(lines, [to |-> to, cmd |-> cmd])
  /\ typed' = typed + 1
  /\ UNCHANGED <<worldVars, phase, live, chips, outcome>>

End(why) == phase' = "ended" /\ outcome' = why

\* split_target: one chip, or all of them in their order.
Targets(line) == IF line.to = 0 THEN Listeners ELSE {line.to}

\* Chip::apply: bytes for the UART are an error unless the ROM's monitor listens.
Refuses(i, cmd) == cmd = "uart" /\ chips[i] # "monitor"

\* The chips that get a command before one of them refuses it.
Served(line) ==
  {i \in Targets(line) : \A j \in Targets(line) : j <= i => ~Refuses(j, line.cmd)}

\* BootRom::feed_uart0: "reset" in the monitor starts the application again.
\* Any of the chips that got the bytes may be told so.
Restart(got) ==
  \E restarted \in SUBSET got :
    /\ chips' = [i \in Listeners |-> IF i \in restarted THEN "runs" ELSE chips[i]]
    /\ StartAnew({nodes[i].id : i \in restarted})
    /\ UNCHANGED steady

\* What a command does to the chips that get it.
Effect(got, cmd) ==
  CASE cmd = "uart" -> Restart(got)
    [] cmd = "scan" /\ got # {} -> Forgotten /\ steady' = FALSE /\ UNCHANGED chips
    [] OTHER -> UNCHANGED <<told, lost, steady, chips>>

\* apply_all, or apply for one chip: an error of one ends the run, be it that the
\* chip refuses the command or that it fails to restart.
Apply(line) ==
  /\ Effect(Served(line), line.cmd)
  /\ \/ Served(line) = Targets(line) /\ UNCHANGED <<phase, outcome>>
     \/ (Served(line) # Targets(line) \/ line.cmd = "uart") /\ End("error")

\* Faulty variant: "quit" is passed over if more was typed.
DrainLineToTheLast ==
  /\ phase = "lines" /\ lines # <<>>
  /\ lines' = Tail(lines)
  /\ CASE Head(lines).cmd = "quit" /\ Len(lines) = 1 ->
            End("quit") /\ UNCHANGED <<told, lost, steady, chips>>
       [] Head(lines).cmd = "help" \/ (Head(lines).cmd = "quit" /\ Len(lines) > 1) ->
            UNCHANGED <<told, lost, steady, phase, chips, outcome>>
       [] OTHER -> Apply(Head(lines))
  /\ UNCHANGED <<nodes, world, now, lastLink, heard, live, typed>>

\* drain_lines: one line.
DrainLine ==
  /\ phase = "lines" /\ lines # <<>>
  /\ lines' = Tail(lines)
  /\ CASE Head(lines).cmd = "quit" -> End("quit") /\ UNCHANGED <<told, lost, steady, chips>>
       [] Head(lines).cmd = "help" -> UNCHANGED <<told, lost, steady, phase, chips, outcome>>
       [] OTHER -> Apply(Head(lines))
  /\ UNCHANGED <<nodes, world, now, lastLink, heard, live, typed>>

Drained ==
  /\ phase = "lines" /\ lines = <<>>
  /\ phase' = "air"
  /\ UNCHANGED <<worldVars, live, lines, typed, chips, outcome>>

\* Chip::tick, as far as the loop sees it: a system reset enters the ROM, and a
\* fault, a halt or the limit of instructions stops the chip; in the ROM's
\* monitor no instruction is run.
Ticked == {c \in [Listeners -> {"runs", "monitor", "stopped"}] :
             \A i \in Listeners : chips[i] = "monitor" => c[i] = "monitor"}

AnyStopped(c) == \E i \in DOMAIN c : c[i] = "stopped"

\* One millisecond: what is in the air is applied to every chip, ...
Air ==
  /\ phase = "air"
  /\ Radio
  /\ Tell({})
  /\ phase' = "chips"
  /\ UNCHANGED <<nodes, world, now, steady, live, lines, typed, chips, outcome>>

\* ... and every chip runs; then the clock goes on, unless a chip has stopped.
ChipsTick ==
  /\ phase = "chips"
  /\ chips' \in Ticked
  /\ StartAnew({nodes[i].id : i \in {j \in Listeners : chips[j] # chips'[j] /\ chips'[j] = "monitor"}})
  /\ IF AnyStopped(chips')
       THEN End("stopped") /\ UNCHANGED now
       ELSE /\ NextMs
            /\ IF ~live /\ now' >= Ticks
                 THEN End("ticks")
                 ELSE phase' = "lines" /\ UNCHANGED outcome
  /\ UNCHANGED <<nodes, world, lastLink, heard, steady, live, lines, typed>>

Loop == DrainLine \/ Drained \/ Air \/ ChipsTick

SimNext ==
  \/ \E cmd \in Commands : \E to \in {0} \cup Listeners : Type(to, cmd)
  \/ Loop

\* The loop never waits for anything but a millisecond.
SimSpec == SimInit /\ [][SimNext]_simVars /\ WF_simVars(Loop)

-----------------------------------------------------------------------------
(* Properties. *)

\* A simulation comes to an end when "quit" was typed, however many lines are
\* before it, when a chip has stopped, and when it is not live.
SimulationEnds ==
  (\/ ~live
   \/ AnyStopped(chips)
   \/ \E k \in DOMAIN lines : lines[k].cmd = "quit") ~> phase = "ended"
=============================================================================
