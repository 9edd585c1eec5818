----------------------------- MODULE FlashSession -----------------------------
(***************************************************************************)
(* One flashing session after the other on the serial line, as flash.rs    *)
(* talks to the ROM of the chip: how the ROM is entered, the baud rates of *)
(* both ends, the commands and the chunks.  What is erased and programmed  *)
(* where is the subject of Flashing; here a part of the image is erased    *)
(* with one command and sent as one chunk.  The chip is HarnessTransport.  *)
(*                                                                         *)
(* The line may lose what either end sends, deliver an answer after the    *)
(* host has stopped waiting for it, and change a payload.                  *)
(***************************************************************************)
EXTENDS Naturals, Sequences

CONSTANTS
  StartBaud,    \* START_BAUD, 9600
  DefaultBaud,  \* DEFAULT_BAUD, 115200
  AppBaud,      \* ApplicationHandoff.app_baud
  RunBauds,     \* bound: what FlashOptions.baud may be
  ImageParts,   \* bound: the parts of an image, the first is the boot header
  Attempts,     \* bound: ApplicationHandoff.attempts
  Tries,        \* bound: how often UXTDWU is sent, 12 and 4000 in the code
  Polls,        \* bound: how often the status of an erase is read, 77
  MaxFaults     \* bound: the faults of the line in a session

ASSUME SessionAssumption ==
  /\ {StartBaud, DefaultBaud, AppBaud} \cup RunBauds \subseteq Nat \ {0}
  /\ StartBaud # DefaultBaud
  /\ {ImageParts, Attempts, Tries, Polls} \subseteq Nat \ {0} /\ MaxFaults \in Nat

VARIABLES
  chip,    \* HarnessTransport: state, rom_baud, whether the application listens
  stored,  \* the NOR: what each part of the image holds
  host,    \* the tool: its next step and baud rate, its options and counters
  rx,      \* answers that came too late to be read
  faults,  \* history: the faults of this session
  noisy,   \* history: a payload was changed in this session
  found    \* history: the chip as the session found it

lineVars == <<chip, stored, host, rx, faults, noisy, found>>

Partitions == 1 .. ImageParts

\* A zeroed part count stays zero until it is erased.
HeaderValid(nor) == nor[1] \notin {"blank", "zero"}

\* reset_from_boot_info
Restarted(c, nor) ==
  IF HeaderValid(nor) THEN [c EXCEPT !.mode = "application"]
  ELSE [c EXCEPT !.mode = "sync", !.baud = StartBaud]

LineInit ==
  /\ stored = [p \in Partitions |-> "old"]
  /\ \E listens \in BOOLEAN :
       chip = [mode |-> "application", baud |-> StartBaud, listens |-> listens, garbled |-> FALSE]
  /\ host = [at |-> "none", baud |-> StartBaud]
  /\ rx = <<>> /\ faults = 0 /\ noisy = FALSE /\ found = chip

-----------------------------------------------------------------------------
(* The chip: what it does with a word that reaches it. *)

Reaction(c, nor, answer) == [chip |-> c, stored |-> nor, answer |-> answer, failed |-> FALSE]
Ignored == Reaction(chip, stored, <<>>)

\* The harness refuses the word, which ends the session; it is left waiting for
\* a command, whatever it was waiting for.
Refused == [Reaction([chip EXCEPT !.mode = "command"], stored, <<>>) EXCEPT !.failed = TRUE]

\* accept_application: the token, after a break, at its own baud rate.
AcceptApplication(word) ==
  LET zeroed == [stored EXCEPT ![1] = "zero"]
  IN  IF word.kind = "token" /\ chip.listens /\ host.baud = AppBaud
        THEN Reaction(Restarted(chip, zeroed), zeroed, <<>>)
        ELSE Ignored

AwaitSync(word) ==
  IF word.kind = "UXTDWU"
    THEN Reaction([chip EXCEPT !.mode = "command", !.baud = DefaultBaud], stored, <<"cmd">>)
    ELSE Ignored

\* HarnessTransport::command
RomCommand(word) ==
  CASE word.kind = "rdrev" -> Reaction(chip, stored, <<"revision">>)
    [] word.kind = "rdreg" -> Reaction(chip, stored, <<"value">>)
    [] word.kind = "set"   -> Reaction(chip, stored, <<"ok">>)
    [] word.kind = "uarts" -> Reaction([chip EXCEPT !.baud = word.arg], stored, <<"ack">>)
    [] word.kind = "chip_erase" -> Reaction(chip, [p \in Partitions |-> "blank"], <<"ok">>)
    [] word.kind = "erase" -> Reaction(chip, [stored EXCEPT ![word.arg] = "blank"], <<"ok">>)
    [] word.kind = "cpbin" -> Reaction([chip EXCEPT !.mode = "data"], stored, <<"by_hex_mode">>)
    [] word.kind = "reset" -> Reaction(Restarted(chip, stored), stored, <<>>)
    [] OTHER -> Refused

\* accept_cpbin_data: any other word that arrives is taken for a part of the
\* payload, which it leaves incomplete, completes or exceeds.
CpbinData(word, noise) ==
  IF word.kind = "payload"
    THEN {Reaction([chip EXCEPT !.mode = "checksum", !.garbled = noise], stored, <<"challenge">>)}
    ELSE {Ignored, Refused,
          Reaction([chip EXCEPT !.mode = "checksum", !.garbled = TRUE], stored, <<"challenge">>)}

\* accept_cpbin_checksum
CpbinChecksum(word) ==
  IF word.kind = "echo"
    THEN Reaction([chip EXCEPT !.mode = "command", !.garbled = FALSE],
                  [stored EXCEPT ![word.arg] = IF chip.garbled THEN "garbled" ELSE "sent"], <<"ok">>)
    ELSE Refused

Reactions(word, noise) ==
  CASE chip.mode = "application" -> {AcceptApplication(word)}
    [] chip.mode # "application" /\ host.baud # chip.baud -> {Ignored}
    [] chip.mode = "sync" /\ host.baud = chip.baud -> {AwaitSync(word)}
    [] chip.mode = "command" /\ host.baud = chip.baud -> {RomCommand(word)}
    [] chip.mode = "data" /\ host.baud = chip.baud -> CpbinData(word, noise)
    [] chip.mode = "checksum" /\ host.baud = chip.baud -> {CpbinChecksum(word)}

-----------------------------------------------------------------------------
(* The line. *)

Word(kind, arg) == [kind |-> kind, arg |-> arg]

Fault == faults < MaxFaults /\ faults' = faults + 1

\* What the host has read when an exchange is over, and what comes too late.
Outcome(reaction, read, late, fault, noise) ==
  [chip |-> reaction.chip, stored |-> reaction.stored, failed |-> reaction.failed,
   read |-> read, rx |-> late, faults |-> faults + fault, noisy |-> noise]

\* The host writes a word and reads what comes back until it has the length of
\* the answer or its timeout is over.  With a fault the answer is lost or late,
\* the word is lost, or a payload is changed.
Exchange(word) ==
  LET reactions == Reactions(word, FALSE)
  IN  {Outcome(r, rx \o r.answer, <<>>, 0, noisy) : r \in reactions}
        \cup IF faults = MaxFaults THEN {}
             ELSE (UNION {{Outcome(r, rx, late, 1, noisy) : late \in {<<>>, r.answer}}
                           : r \in {r \in reactions : r.answer # <<>>}})
                    \cup {Outcome(Ignored, rx, <<>>, 1, noisy)}
                    \cup IF word.kind # "payload" THEN {}
                         ELSE {Outcome(r, rx \o r.answer, <<>>, 1, TRUE) : r \in Reactions(word, TRUE)}

-----------------------------------------------------------------------------
(* The tool. *)

Failed == [host EXCEPT !.at = "failed"]

\* An exchange has ended: the host goes on as "next" says, if the chip took the word.
Exchanged(outcome, next) ==
  /\ chip' = outcome.chip /\ stored' = outcome.stored
  /\ rx' = outcome.rx /\ faults' = outcome.faults /\ noisy' = outcome.noisy
  /\ host' = IF outcome.failed THEN Failed ELSE next

\* Phy62xxRom::command and its like: the one answer that is expected, or the end.
Expect(step, word, answer, next) ==
  /\ host.at = step
  /\ \E got \in Exchange(word) : Exchanged(got, IF got.read = <<answer>> THEN next ELSE Failed)
  /\ UNCHANGED found

To(step) == [host EXCEPT !.at = step]

\* Flasher::flash; enter_bootloader of Pb03fKit.
StartSession(boot, run, chipErase, resetAfter) ==
  /\ host.at \in {"none", "done", "failed"}
  /\ host' = [at |-> IF boot = "handoff" THEN "probe" ELSE "sync",
              baud |-> IF boot = "handoff" THEN DefaultBaud ELSE StartBaud,
              boot |-> boot, run |-> run, chipErase |-> chipErase, resetAfter |-> resetAfter,
              attempts |-> IF boot = "handoff" THEN Attempts ELSE 1,
              tries |-> Tries, polls |-> Polls, part |-> 1]
  /\ rx' = <<>> /\ faults' = 0 /\ noisy' = FALSE /\ found' = chip
  /\ UNCHANGED <<chip, stored>>

\* Faulty variant: the session starts with the token.
ProbeNever == host.at = "probe" /\ host' = To("wake") /\ UNCHANGED <<chip, stored, rx, faults, noisy, found>>

\* enter_via_application: perhaps the ROM is still there from an earlier session.
Probe ==
  /\ host.at = "probe"
  /\ \E got \in Exchange(Word("rdrev", 0)) :
       Exchanged(got, IF got.read = <<"revision">> THEN To("attach") ELSE To("wake"))
  /\ UNCHANGED found

\* A break, and the token again and again, which has no answer.
Wake ==
  /\ host.at = "wake"
  /\ host.attempts > 0
  /\ host.baud = AppBaud
  /\ \E got \in Exchange(Word("token", 0)) :
       Exchanged(got, [host EXCEPT !.at = "sync", !.baud = StartBaud,
                                   !.attempts = @ - 1, !.tries = Tries])
  /\ UNCHANGED found

WakeBaud ==
  /\ host.at = "wake"
  /\ host.baud # AppBaud
  /\ host' = [host EXCEPT !.baud = AppBaud]
  /\ rx' = <<>>
  /\ UNCHANGED <<chip, stored, faults, noisy, found>>

\* connect, and the inner loop of enter_via_application.
Sync ==
  /\ host.at = "sync"
  /\ host.tries > 0
  /\ \E got \in Exchange(Word("UXTDWU", 0)) :
       Exchanged(got, IF got.read = <<"cmd">> THEN [host EXCEPT !.at = "attach", !.baud = DefaultBaud]
                      ELSE [host EXCEPT !.tries = @ - 1])
  /\ UNCHANGED found

SyncFails ==
  /\ host.at = "sync"
  /\ host.tries = 0
  /\ host' = IF host.boot = "handoff" /\ host.attempts > 0 THEN To("wake") ELSE Failed
  /\ UNCHANGED <<chip, stored, rx, faults, noisy, found>>

\* attach: read_revision, then flash_unlock.
Attach == Expect("attach", Word("rdrev", 0), "revision", To("unlock"))
Unlock == Expect("unlock", Word("set", 0), "ok", To("uarts"))

AfterBaud(h) == [h EXCEPT !.at = IF h.chipErase THEN "chip_erase" ELSE "init"]

\* set_baud: without an acknowledgement, a register is read at the new rate.
SetBaud ==
  /\ host.at = "uarts"
  /\ IF host.baud = host.run
       THEN host' = AfterBaud(host) /\ UNCHANGED <<chip, stored, rx, faults, noisy>>
       ELSE \E got \in Exchange(Word("uarts", host.run)) :
              LET there == [host EXCEPT !.baud = host.run]
              IN  Exchanged(got, IF got.read = <<"ack">> THEN AfterBaud(there)
                                 ELSE [there EXCEPT !.at = "check"])
  /\ UNCHANGED found

CheckBaud == Expect("check", Word("rdreg", 0), "value", AfterBaud(host))

\* erase_all: the status is polled until the chip is no longer busy.
EraseAll == Expect("chip_erase", Word("chip_erase", 0), "ok", To("status"))

EraseStatus ==
  /\ host.at = "status"
  /\ host.polls > 0
  /\ \/ Expect("status", Word("rdreg", 0), "value", To("init"))
     \/ Expect("status", Word("rdreg", 0), "value", [host EXCEPT !.polls = @ - 1])

EraseTimesOut ==
  /\ host.at = "status"
  /\ host.polls = 0
  /\ host' = Failed
  /\ UNCHANGED <<chip, stored, rx, faults, noisy, found>>

\* init_spifs and expand_flash_window
InitSpifs == Expect("init", Word("set", 0), "ok", To("erase"))

ErasePart == Expect("erase", Word("erase", host.part), "ok", To("cpbin"))

\* send_chunk
OfferChunk == Expect("cpbin", Word("cpbin", host.part), "by_hex_mode", To("payload"))
SendPayload == Expect("payload", Word("payload", host.part), "challenge", To("echo"))

AfterChunk ==
  IF host.part < ImageParts THEN [host EXCEPT !.part = @ + 1, !.at = "erase"]
  ELSE IF host.resetAfter THEN To("reset") ELSE To("done")

\* Faulty variant: the answer to the checksum is not read.
EchoUnread ==
  /\ host.at = "echo"
  /\ \E got \in Exchange(Word("echo", host.part)) : Exchanged(got, AfterChunk)
  /\ UNCHANGED found

\* The checksum that the chip has sent is sent back to it: it is not compared
\* with that of the payload.
EchoChecksum == Expect("echo", Word("echo", host.part), "ok", AfterChunk)

\* Nothing answers a reset.
Reset ==
  /\ host.at = "reset"
  /\ \E got \in Exchange(Word("reset", 0)) : Exchanged(got, To("done"))
  /\ UNCHANGED found

-----------------------------------------------------------------------------
(* What happens around a session. *)

\* The tool is stopped, or the adapter unplugged.
Abort ==
  /\ host.at \notin {"none", "done", "failed"}
  /\ host' = [at |-> "none", baud |-> host.baud]
  /\ UNCHANGED <<chip, stored, rx, faults, noisy, found>>

\* Power is cut, or the ROM is entered by hand; a session notices it as a fault.
CutPower ==
  /\ Fault
  /\ \/ chip' = [Restarted(chip, stored) EXCEPT !.garbled = FALSE]
     \/ chip' = [chip EXCEPT !.mode = "sync", !.baud = StartBaud, !.garbled = FALSE]
  /\ rx' = <<>>
  /\ UNCHANGED <<stored, host, noisy, found>>

LineNext ==
  \/ \E boot \in {"handoff", "manual"}, run \in RunBauds, chipErase, resetAfter \in BOOLEAN :
       StartSession(boot, run, chipErase, resetAfter)
  \/ Probe
  \/ WakeBaud
  \/ Wake
  \/ Sync
  \/ SyncFails
  \/ Attach
  \/ Unlock
  \/ SetBaud
  \/ CheckBaud
  \/ EraseAll
  \/ EraseStatus
  \/ EraseTimesOut
  \/ InitSpifs
  \/ ErasePart
  \/ OfferChunk
  \/ SendPayload
  \/ EchoChecksum
  \/ Reset
  \/ Abort
  \/ CutPower

LineSpec == LineInit /\ [][LineNext]_lineVars

-----------------------------------------------------------------------------
(* Properties. *)

\* A session through the application gets into a chip that listens, that waits
\* for UXTDWU, or that waits for commands at the rate of the probe, whatever
\* earlier sessions did to it.  On a quiet line it fails only if an earlier
\* session left the ROM at another rate or within a chunk, or if the erase of
\* the chip takes too long.
EntryRecovers ==
  host.at = "failed" /\ host.boot = "handoff" /\ faults = 0 /\ host.polls > 0 =>
    \/ found.mode = "application" /\ ~found.listens
    \/ found.mode = "command" /\ found.baud # DefaultBaud
    \/ found.mode \in {"data", "checksum"}

\* A session that reports success has stored every part, although the line lost
\* and delayed words, and has started the application if the line was quiet.
\* Only a payload that was changed on the line is reported as stored.
ReportedIsStored ==
  host.at = "done" =>
    /\ ~noisy => \A p \in Partitions : stored[p] = "sent"
    /\ faults = 0 /\ host.resetAfter => chip.mode = "application"
=============================================================================
