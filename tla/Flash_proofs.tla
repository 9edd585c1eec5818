---------------------------- MODULE Flash_proofs ----------------------------
(***************************************************************************)
(* Theorems about flash memory.  The snapshot that a simulated chip keeps  *)
(* its NOR in, for every set of HEX files and every geometry of sectors:   *)
(* the snapshot of another HEX file is kept out by the fingerprint alone,  *)
(* so these theorems assume that HEX files differ in their NOR images; the *)
(* run with programs in SRAM shows that they must.  The sessions of the    *)
(* flashing tool on a serial line, for every number of parts, tries and    *)
(* faults.  What these sessions leave in the NOR, for every geometry and   *)
(* every list of images.  And the HEX files that an image comes from, for  *)
(* files of any length: their two readers, their layout and their writer.  *)
(***************************************************************************)
EXTENDS FlashState, FlashSession, HexFiles, ProofLemmas

Distinct == \A f, g \in Firmwares : Xip[f] = Xip[g] => f = g

Typed ==
  /\ file \subseteq Snapshots
  /\ hex \subseteq Firmwares
  /\ loaded \in BOOLEAN
  /\ hash \subseteq Cells
  /\ nor \subseteq Cells
  /\ origin \subseteq Firmwares
  /\ due \in [Firmwares -> SUBSET SUBSET Cells]

\* The running HEX file, what it started from, and that it is the only one.
RunningOk ==
  \A f \in hex :
    /\ hex = {f} /\ origin = {f}
    /\ loaded => hash = Xip[f]
    /\ ~loaded => nor = Xip[f]

\* A snapshot is complete and belongs to one HEX file.
FileOk ==
  \A s \in file : s.whole /\ \E f \in Firmwares : s.hash = Xip[f] /\ s.by = {f}

\* A call that is about to rename has written the whole temporary file.
TmpOk == call = "written" => tmp = "whole"

\* A call is under way only after the load.
CallOk == hex # {} /\ ~loaded => call = "none"

\* Every HEX file finds what is due to it: its snapshot, or its own image.
DueOk ==
  \A f \in Firmwares :
    /\ \A s \in file : s.hash = Xip[f] => s.image \in due[f]
    /\ (\A s \in file : s.hash # Xip[f]) => Xip[f] \in due[f]

\* There is one snapshot file.
OneFile == \A s, t \in file : s = t

IInv == Typed /\ OneFile /\ RunningOk /\ FileOk /\ TmpOk /\ CallOk /\ DueOk

-----------------------------------------------------------------------------
\* At the start nothing is stored and nothing runs.
LEMMA InitIInv == Init => IInv
<1> SUFFICES ASSUME Init PROVE IInv
  OBVIOUS
<1>1. \A f \in Firmwares : {Xip[f]} \in SUBSET SUBSET Cells
  BY NorAssumption
<1>2. Typed
  BY <1>1 DEF Init, Typed
<1>3. OneFile /\ RunningOk /\ FileOk /\ TmpOk /\ CallOk
  BY DEF Init, OneFile, RunningOk, FileOk, TmpOk, CallOk
<1>4. DueOk
  BY DEF Init, DueOk
<1> QED BY <1>2, <1>3, <1>4 DEF IInv

\* A snapshot that fits the running HEX file was stored by it, and is due to it.
LEMMA Fits ==
  ASSUME Distinct, IInv, ~loaded, NEW f \in hex, NEW s \in file, decode(s, nor)
  PROVE  /\ s.by = {f}
         /\ restore_xip(s.image) = s.image
         /\ s.image \in due[f]
         /\ s.image \subseteq Cells
<1>1. f \in Firmwares /\ nor = Xip[f] /\ s.hash = Xip[f]
  BY DEF IInv, Typed, RunningOk, decode
<1>2. PICK g \in Firmwares : s.hash = Xip[g] /\ s.by = {g}
  BY DEF IInv, FileOk
<1>3. g = f
  BY <1>1, <1>2 DEF Distinct
<1>4. s.image \subseteq Cells
  BY DEF IInv, Typed, Snapshots
<1>5. restore_xip(s.image) = s.image
  BY DEF restore_xip, IInv, Typed
<1>6. s.image \in due[f]
  BY <1>1 DEF IInv, DueOk
<1> QED BY <1>2, <1>3, <1>4, <1>5, <1>6

\* Loading leaves in the NOR what was due to the running HEX file, by its own hand.
LEMMA LoadFinds ==
  ASSUME Distinct, IInv, Load
  PROVE  \A f \in hex : nor' \in due[f] /\ origin' = {f} /\ nor' \subseteq Cells
<1> SUFFICES ASSUME NEW f \in hex
             PROVE  nor' \in due[f] /\ origin' = {f} /\ nor' \subseteq Cells
  OBVIOUS
<1> ~loaded
  BY DEF Load
<1>1. CASE \E s \in file : decode(s, nor) /\ nor' = restore_xip(s.image) /\ origin' = s.by
  BY <1>1, Fits
<1>2. CASE (\A s \in file : ~decode(s, nor)) /\ UNCHANGED <<nor, origin>>
  <2>1. f \in Firmwares /\ nor = Xip[f] /\ nor \subseteq Cells
    BY DEF IInv, Typed, RunningOk
  <2>2. \A s \in file : s.hash # Xip[f]
    BY <1>2, <2>1 DEF decode, IInv, FileOk
  <2>3. Xip[f] \in due[f]
    BY <2>1, <2>2 DEF IInv, DueOk
  <2>4. origin = {f}
    BY DEF IInv, RunningOk
  <2> QED BY <1>2, <2>1, <2>3, <2>4
<1> QED BY <1>1, <1>2 DEF Load

-----------------------------------------------------------------------------
\* Every step keeps the invariant.
LEMMA LoadIInv == ASSUME Distinct, IInv, Load PROVE IInv'
<1>1. PICK f \in Firmwares : hex = {f}
  BY DEF IInv, Typed, RunningOk, Load
<1>2. /\ nor' \in due[f] /\ origin' = {f} /\ nor' \subseteq Cells
      /\ hash' = Xip[f] /\ nor = Xip[f]
  BY <1>1, LoadFinds DEF IInv, RunningOk, Load
<1>3. due' = [g \in Firmwares |-> IF g = f THEN {nor'} ELSE due[g]]
  BY <1>1 DEF Load
<1>4. Typed'
  BY <1>1, <1>2, <1>3 DEF IInv, Typed, Load
<1>5. RunningOk' /\ FileOk' /\ TmpOk' /\ CallOk'
  BY <1>1, <1>2 DEF IInv, RunningOk, FileOk, TmpOk, CallOk, Load
<1>6. DueOk'
  <2> SUFFICES ASSUME NEW g \in Firmwares
               PROVE  /\ \A s \in file : s.hash = Xip[g] => s.image \in due'[g]
                      /\ (\A s \in file : s.hash # Xip[g]) => Xip[g] \in due'[g]
    BY DEF DueOk, Load
  <2>1. CASE g # f
    BY <2>1, <1>3 DEF IInv, DueOk
  <2>2. CASE g = f
    <3>1. \A s \in file : decode(s, nor) = (s.hash = Xip[f])
      BY <1>2 DEF IInv, FileOk, decode
    <3>2. \A s, t \in file : s = t
      BY DEF IInv, OneFile
    <3>3. \A s \in file : s.hash = Xip[f] => nor' = s.image
      BY <1>1, <1>2, <3>1, <3>2, Fits DEF Load
    <3>4. (\A s \in file : s.hash # Xip[f]) => nor' = Xip[f]
      BY <1>2, <3>1 DEF Load
    <3> QED BY <2>2, <3>3, <3>4, <1>3
  <2> QED BY <2>1, <2>2
<1>7. OneFile'
  BY DEF IInv, OneFile, Load
<1> QED BY <1>4, <1>5, <1>6, <1>7 DEF IInv

LEMMA ChangeIInv == ASSUME IInv, NEW image \in SUBSET Cells, Change(image) PROVE IInv'
<1>1. PICK f \in Firmwares : hex = {f}
  BY DEF IInv, Typed, RunningOk, Change
<1>2. origin' = {f}
  BY <1>1 DEF IInv, RunningOk, Change
<1>3. due' = [g \in Firmwares |-> IF g = f THEN due[g] \cup {image} ELSE due[g]]
  BY <1>1 DEF Change
<1>4. Typed'
  BY <1>1, <1>2, <1>3 DEF IInv, Typed, Change
<1>5. RunningOk' /\ FileOk' /\ TmpOk' /\ CallOk' /\ OneFile'
  BY <1>1, <1>2 DEF IInv, RunningOk, FileOk, TmpOk, CallOk, OneFile, Change
<1>6. \A g \in Firmwares : due[g] \subseteq due'[g]
  BY <1>3
<1>7. DueOk'
  BY <1>6 DEF IInv, DueOk, Change
<1> QED BY <1>4, <1>5, <1>7 DEF IInv

LEMMA RenameIInv == ASSUME Distinct, IInv, Rename PROVE IInv'
<1>1. PICK f \in Firmwares : hex = {f}
  BY DEF IInv, Typed, RunningOk, Rename
<1>2. loaded /\ tmp = "whole" /\ hash = Xip[f] /\ origin = {f}
  BY <1>1 DEF IInv, RunningOk, TmpOk, CallOk, Typed, Rename
<1> DEFINE s == [hash |-> hash, image |-> nor, whole |-> TRUE, by |-> origin]
<1>3. file' = {s}
  BY <1>2 DEF Rename
<1>4. due' = [g \in Firmwares |-> IF g = f THEN {nor} ELSE {Xip[g]}]
  BY <1>1 DEF Rename
<1>5. s \in Snapshots
  BY DEF IInv, Typed, Snapshots
<1>6. Typed'
  BY <1>3, <1>4, <1>5, NorAssumption DEF IInv, Typed, Rename
<1>7. RunningOk' /\ TmpOk' /\ CallOk'
  BY <1>1, <1>2 DEF IInv, RunningOk, TmpOk, CallOk, Rename
<1>8. FileOk' /\ OneFile'
  BY <1>2, <1>3 DEF FileOk, OneFile
<1>9. DueOk'
  <2> SUFFICES ASSUME NEW g \in Firmwares
               PROVE  /\ s.hash = Xip[g] => s.image \in due'[g]
                      /\ s.hash # Xip[g] => Xip[g] \in due'[g]
    BY <1>3 DEF DueOk
  <2>1. s.hash = Xip[f] /\ s.image = nor
    BY <1>2
  <2>2. s.hash = Xip[g] => g = f
    BY <2>1 DEF Distinct
  <2> QED BY <1>4, <2>1, <2>2
<1> QED BY <1>6, <1>7, <1>8, <1>9 DEF IInv

LEMMA NextIInv == ASSUME Distinct, IInv, [Next]_vars PROVE IInv'
<1>1. ASSUME NEW f \in Firmwares, Start(f) PROVE IInv'
  BY <1>1, NorAssumption
  DEF IInv, Typed, RunningOk, FileOk, TmpOk, CallOk, DueOk, OneFile, Start
<1>2. CASE Kill
  BY <1>2 DEF IInv, Typed, RunningOk, FileOk, TmpOk, CallOk, DueOk, OneFile, Kill
<1>3. CASE Load
  BY <1>3, LoadIInv
<1>4. CASE LoadFails
  <2>1. PICK f \in Firmwares : hex = {f}
    BY <1>4 DEF IInv, Typed, RunningOk, LoadFails
  <2>2. due' = [g \in Firmwares |-> IF g = f THEN due[g] \cup {nor} ELSE due[g]]
    BY <1>4, <2>1 DEF LoadFails
  <2>3. Typed'
    BY <1>4, <2>2 DEF IInv, Typed, LoadFails
  <2>4. RunningOk' /\ FileOk' /\ TmpOk' /\ CallOk' /\ OneFile'
    BY <1>4, <2>1 DEF IInv, RunningOk, FileOk, TmpOk, CallOk, OneFile, LoadFails
  <2>5. \A g \in Firmwares : due[g] \subseteq due'[g]
    BY <2>2
  <2>6. DueOk'
    BY <1>4, <2>5 DEF IInv, DueOk, LoadFails
  <2> QED BY <2>3, <2>4, <2>6 DEF IInv
<1>5. ASSUME NEW range \in SUBSET (Cells \cup {Beyond}), Program(range) PROVE IInv'
  <2>1. nor \cup range \in SUBSET Cells /\ Change(nor \cup range)
    BY <1>5 DEF Program, InNor, IInv, Typed
  <2> QED BY <2>1, ChangeIInv
<1>6. ASSUME NEW sectors \in Sectors, Erase(sectors) PROVE IInv'
  <2>1. nor \ sectors \in SUBSET Cells /\ Change(nor \ sectors)
    BY <1>6 DEF Erase, IInv, Typed
  <2> QED BY <2>1, ChangeIInv
<1>7. CASE OpenTmp
  BY <1>7 DEF IInv, Typed, RunningOk, FileOk, TmpOk, CallOk, DueOk, OneFile, OpenTmp
<1>8. CASE FillTmp
  BY <1>8 DEF IInv, Typed, RunningOk, FileOk, TmpOk, CallOk, DueOk, OneFile, FillTmp
<1>9. CASE TmpFails
  BY <1>9 DEF IInv, Typed, RunningOk, FileOk, TmpOk, CallOk, DueOk, OneFile, TmpFails
<1>10. CASE Rename
  BY <1>10, RenameIInv
<1>11. CASE UNCHANGED vars
  BY <1>11 DEF IInv, Typed, RunningOk, FileOk, TmpOk, CallOk, DueOk, OneFile, vars
<1> QED BY <1>1, <1>2, <1>3, <1>4, <1>5, <1>6, <1>7, <1>8, <1>9, <1>10, <1>11 DEF Next

-----------------------------------------------------------------------------
\* The NOR of a HEX file was written by its own guests only.
THEOREM OnlyOwnNor == ASSUME Distinct PROVE Spec => []OwnNorOnly
<1>1. IInv => OwnNorOnly
  BY DEF IInv, Typed, RunningOk, OwnNorOnly
<1> QED BY InitIInv, NextIInv, <1>1, PTL DEF Spec

\* Every start that can read the snapshot finds what the last flash call of the
\* same HEX file stored, whatever happened in between.
THEOREM Durable == ASSUME Distinct PROVE Spec => NorKept
<1>1. ASSUME IInv, [Next]_vars PROVE [Load => \A f \in hex : nor' \in due[f]]_vars
  BY <1>1, LoadFinds
<1> QED BY InitIInv, NextIInv, <1>1, PTL DEF Spec, NorKept

-----------------------------------------------------------------------------
(* The serial line: what a session knows of the chip and of the NOR.          *)

Modes == {"application", "sync", "command", "data", "checksum"}
Steps == {"probe", "wake", "sync", "attach", "unlock", "uarts", "check", "chip_erase", "status",
          "init", "erase", "cpbin", "payload", "echo", "reset", "done", "failed"}
ChipRecord == [mode : Modes, baud : Nat, listens : BOOLEAN, garbled : BOOLEAN]
HostRecord ==
  [at : Steps, baud : Nat, boot : {"handoff", "manual"}, run : Nat, chipErase : BOOLEAN,
   resetAfter : BOOLEAN, attempts : Nat, tries : Nat, polls : Nat, part : Partitions]
Nors == [Partitions -> {"old", "blank", "zero", "sent", "garbled"}]

ChipOk(c) == c \in ChipRecord /\ (c.mode = "sync" => c.baud = StartBaud)

LineTyped ==
  /\ ChipOk(chip) /\ ChipOk(found)
  /\ stored \in Nors
  /\ host.at = "none" \/ host \in HostRecord
  /\ faults \in Nat
  /\ noisy \in BOOLEAN

ChunkSteps == {"erase", "cpbin", "payload", "echo"}
Over == {"none", "done", "failed"}

\* The answers that may still be there when the next word is sent.
Late ==
  /\ faults = 0 => rx = <<>>
  /\ host.at = "attach" => rx \in {<<>>, <<"cmd">>, <<"challenge">>}
  /\ host.at = "check" => rx \in {<<>>, <<"ack">>, <<"challenge">>}
  /\ host.at \notin {"wake", "sync", "attach", "check"} \cup Over => rx = <<>>

\* The parts that were sent are stored.
Kept ==
  /\ noisy => faults > 0
  /\ host.at \notin ChunkSteps \cup {"reset"} \cup Over => host.part = 1
  /\ host.at \in ChunkSteps /\ ~noisy => \A p \in Partitions : p < host.part => stored[p] = "sent"
  /\ host.at \in {"reset", "done"} /\ ~noisy => \A p \in Partitions : stored[p] = "sent"
  /\ host.at = "echo" /\ chip.mode = "checksum" /\ ~noisy => ~chip.garbled

Waits(mode) == chip.mode = mode /\ chip.baud = host.baud

AtCommand == {"attach", "unlock", "uarts", "chip_erase", "status", "init", "erase", "cpbin", "reset"}

\* On a quiet line the chip waits for what the tool sends next, ...
Quiet ==
  faults = 0 =>
    /\ host.at \in AtCommand => Waits("command")
    /\ host.at # "check"
    /\ host.at = "payload" => Waits("data")
    /\ host.at = "echo" => Waits("checksum")
    /\ host.at = "done" /\ host.resetAfter => chip.mode = "application"

Lets(c) ==
  \/ c.mode = "application" /\ c.listens
  \/ c.mode = "sync"
  \/ c.mode = "command" /\ c.baud = DefaultBaud

Enters == host.at # "none" /\ host.boot = "handoff" /\ Lets(found)

\* ... from the start, if the application or the ROM lets the tool in.
Entering ==
  faults = 0 /\ Enters =>
    /\ host.at = "failed" => host.polls = 0
    /\ host.at = "probe" => chip = found /\ host.baud = DefaultBaud
    /\ host.at = "wake" => chip = found /\ chip.mode # "command"
    /\ host.at = "sync" => Waits("sync") /\ host.tries > 0

LineInv == LineTyped /\ Late /\ Kept /\ Quiet /\ Entering

LEMMA BaudFacts ==
  /\ StartBaud \in Nat /\ DefaultBaud \in Nat /\ AppBaud \in Nat /\ RunBauds \subseteq Nat
  /\ StartBaud # DefaultBaud
  /\ ImageParts \in Nat /\ ImageParts > 0 /\ Attempts \in Nat /\ Attempts > 0
  /\ Tries \in Nat /\ Tries > 0 /\ Polls \in Nat /\ MaxFaults \in Nat
  /\ 1 \in Partitions
BY SessionAssumption DEF Partitions

LEMMA ReadOne ==
  ASSUME NEW x, NEW y
  PROVE  /\ <<>> \o <<x>> = <<x>> /\ <<x>> \o <<>> = <<x>> /\ <<>> \o <<>> = <<>>
         /\ Len(<<x>> \o <<y>>) = 2 /\ Len(<<x>>) = 1 /\ <<x>> # <<>>
OBVIOUS

Answers == {"cmd", "revision", "value", "ok", "ack", "by_hex_mode", "challenge"}

LEMMA OneWord ==
  ASSUME NEW x, NEW y
  PROVE  <<x>> = <<y>> <=> x = y
OBVIOUS

\* "said" is one answer and not another.
Said(said, x) ==
  /\ said = <<x>> /\ said # <<>> /\ x \in Answers
  /\ said = <<"cmd">> <=> x = "cmd"
  /\ said = <<"revision">> <=> x = "revision"
  /\ said = <<"value">> <=> x = "value"
  /\ said = <<"ok">> <=> x = "ok"
  /\ said = <<"ack">> <=> x = "ack"
  /\ said = <<"by_hex_mode">> <=> x = "by_hex_mode"
  /\ said = <<"challenge">> <=> x = "challenge"

LEMMA SaidOne ==
  ASSUME NEW x \in Answers, NEW said, said = <<x>>
  PROVE  Said(said, x)
BY OneWord, ReadOne DEF Said

-----------------------------------------------------------------------------
(* What the chip does with a word, and what it says. *)

\* The faults aside: each answer says what the chip has done.
Did(word, noise, r) ==
  /\ ChipOk(r.chip) /\ r.stored \in Nors /\ r.failed \in BOOLEAN
  /\ word.kind \notin {"token", "chip_erase", "erase", "echo"} => r.stored = stored
  /\ word.kind \in {"erase", "echo"} => \A p \in Partitions : p # word.arg => r.stored[p] = stored[p]
  /\ r.answer = <<"cmd">> => r.chip.mode = "command" /\ r.chip.baud = DefaultBaud
  /\ r.answer = <<"revision">> => Waits("command") /\ r.chip = chip
  /\ r.answer = <<"value">> => Waits("command") /\ r.chip = chip
  /\ r.answer = <<"ok">> /\ word.kind # "echo" => Waits("command") /\ r.chip = chip
  /\ r.answer = <<"ok">> /\ word.kind = "echo" =>
       /\ chip.mode = "checksum"
       /\ r.chip.mode = "command" /\ r.chip.baud = host.baud
       /\ word.arg \in Partitions /\ ~chip.garbled => r.stored[word.arg] = "sent"
  /\ r.answer = <<"ack">> => r.chip.mode = "command" /\ r.chip.baud = word.arg
  /\ r.answer = <<"by_hex_mode">> => r.chip.mode = "data" /\ r.chip.baud = host.baud
  /\ r.answer = <<"challenge">> /\ word.kind = "payload" =>
       r.chip.mode = "checksum" /\ r.chip.baud = host.baud /\ r.chip.garbled = noise

Says(word, r) ==
  /\ r.answer \in {<<>>} \cup {<<x>> : x \in Answers}
  /\ r.answer = <<"cmd">> => word.kind = "UXTDWU"
  /\ r.answer = <<"revision">> => word.kind = "rdrev"
  /\ r.answer = <<"value">> => word.kind = "rdreg"
  /\ r.answer = <<"ok">> => word.kind \in {"set", "chip_erase", "erase", "echo"}
  /\ r.answer = <<"ack">> => word.kind = "uarts"
  /\ r.answer = <<"by_hex_mode">> => word.kind = "cpbin"

WordOk(word) == word.kind = "uarts" => word.arg \in Nat

LEMMA Keeps ==
  ASSUME LineTyped, NEW word, NEW noise \in BOOLEAN
  PROVE  Did(word, noise, Ignored) /\ Says(word, Ignored) /\ Did(word, noise, Refused) /\ Says(word, Refused)
<1>1. /\ Ignored.chip = chip /\ Ignored.stored = stored /\ Ignored.answer = <<>> /\ Ignored.failed = FALSE
      /\ Refused.chip = [chip EXCEPT !.mode = "command"] /\ Refused.stored = stored
      /\ Refused.answer = <<>> /\ Refused.failed = TRUE
  BY DEF Ignored, Refused, Reaction
<1>2. ChipOk(Ignored.chip) /\ ChipOk(Refused.chip) /\ stored \in Nors
  <2>1. ChipOk([chip EXCEPT !.mode = "command"])
    BY DEF LineTyped, ChipOk, ChipRecord, Modes
  <2> QED BY <1>1, <2>1 DEF LineTyped
<1>3. \A x : <<>> # <<x>>
  BY ReadOne
<1> HIDE DEF Ignored, Refused
<1> QED BY <1>1, <1>2, <1>3 DEF Did, Says

LEMMA RestartedOk ==
  ASSUME NEW c, ChipOk(c), NEW content
  PROVE  ChipOk(Restarted(c, content))
BY BaudFacts DEF Restarted, ChipOk, ChipRecord, Modes

LEMMA ApplicationDoes ==
  ASSUME LineTyped, NEW word, NEW noise \in BOOLEAN, NEW r, r = AcceptApplication(word)
  PROVE  Did(word, noise, r) /\ Says(word, r)
<1>1. CASE ~(word.kind = "token" /\ chip.listens /\ host.baud = AppBaud)
  <2>1. r = Ignored
    BY <1>1 DEF AcceptApplication
  <2> QED BY <2>1, Keeps
<1>2. CASE word.kind = "token" /\ chip.listens /\ host.baud = AppBaud
  <2> DEFINE zeroed == [stored EXCEPT ![1] = "zero"]
  <2>1. r.chip = Restarted(chip, zeroed) /\ r.stored = zeroed /\ r.answer = <<>> /\ r.failed = FALSE
    BY <1>2 DEF AcceptApplication, Reaction
  <2>2. zeroed \in Nors
    BY BaudFacts DEF LineTyped, Nors
  <2> HIDE DEF zeroed
  <2>3. ChipOk(r.chip)
    BY <2>1, RestartedOk DEF LineTyped
  <2>4. \A x : <<>> # <<x>>
    BY ReadOne
  <2> QED BY <1>2, <2>1, <2>2, <2>3, <2>4 DEF Did, Says
<1> QED BY <1>1, <1>2

LEMMA SyncDoes ==
  ASSUME LineTyped, NEW word, NEW noise \in BOOLEAN, NEW r, r = AwaitSync(word)
  PROVE  Did(word, noise, r) /\ Says(word, r)
<1>1. CASE word.kind # "UXTDWU"
  <2>1. r = Ignored
    BY <1>1 DEF AwaitSync
  <2> QED BY <2>1, Keeps
<1>2. CASE word.kind = "UXTDWU"
  <2> DEFINE woken == [chip EXCEPT !.mode = "command", !.baud = DefaultBaud]
  <2>1. r.chip = woken /\ r.stored = stored /\ r.answer = <<"cmd">> /\ r.failed = FALSE
    BY <1>2 DEF AwaitSync, Reaction
  <2>2. ChipOk(woken) /\ woken.mode = "command" /\ woken.baud = DefaultBaud
    BY BaudFacts DEF LineTyped, ChipOk, ChipRecord, Modes
  <2> HIDE DEF woken
  <2>3. Said(r.answer, "cmd")
    BY <2>1, SaidOne DEF Answers
  <2> QED BY <1>2, <2>1, <2>2, <2>3 DEF Did, Says, LineTyped, Answers, Said
<1> QED BY <1>1, <1>2

LEMMA RomDoes ==
  ASSUME LineTyped, Waits("command"), NEW word, WordOk(word), NEW noise \in BOOLEAN,
         NEW r, r = RomCommand(word)
  PROVE  Did(word, noise, r) /\ Says(word, r)
<1> USE DEF Reaction
<1>1. CASE word.kind \in {"rdrev", "rdreg", "set"}
  <2>1. /\ r.chip = chip /\ r.stored = stored /\ r.failed = FALSE
        /\ r.answer = IF word.kind = "rdrev" THEN <<"revision">>
                      ELSE IF word.kind = "rdreg" THEN <<"value">> ELSE <<"ok">>
    BY <1>1 DEF RomCommand
  <2>2. PICK x \in {"revision", "value", "ok"} :
          /\ Said(r.answer, x)
          /\ x = IF word.kind = "rdrev" THEN "revision" ELSE IF word.kind = "rdreg" THEN "value" ELSE "ok"
    <3>1. Said(<<"revision">>, "revision") /\ Said(<<"value">>, "value") /\ Said(<<"ok">>, "ok")
      BY SaidOne DEF Answers
    <3> QED BY <1>1, <2>1, <3>1
  <2> QED BY <1>1, <2>1, <2>2 DEF Did, Says, LineTyped, Answers, Said, Waits
<1>2. CASE word.kind = "uarts"
  <2> DEFINE faster == [chip EXCEPT !.baud = word.arg]
  <2>1. r.chip = faster /\ r.stored = stored /\ r.failed = FALSE /\ r.answer = <<"ack">>
    BY <1>2 DEF RomCommand
  <2>2. ChipOk(faster) /\ faster.mode = "command" /\ faster.baud = word.arg
    BY <1>2 DEF LineTyped, ChipOk, ChipRecord, Modes, Waits, WordOk
  <2> HIDE DEF faster
  <2>3. Said(r.answer, "ack")
    BY <2>1, SaidOne DEF Answers
  <2> QED BY <1>2, <2>1, <2>2, <2>3 DEF Did, Says, LineTyped, Answers, Said
<1>3. CASE word.kind = "chip_erase"
  <2> DEFINE blank == [p \in Partitions |-> "blank"]
  <2>1. r.chip = chip /\ r.stored = blank /\ r.failed = FALSE /\ r.answer = <<"ok">>
    BY <1>3 DEF RomCommand
  <2>2. blank \in Nors
    BY DEF Nors
  <2> HIDE DEF blank
  <2>3. Said(r.answer, "ok")
    BY <2>1, SaidOne DEF Answers
  <2> QED BY <1>3, <2>1, <2>2, <2>3 DEF Did, Says, LineTyped, Answers, Said
<1>4. CASE word.kind = "erase"
  <2> DEFINE less == [stored EXCEPT ![word.arg] = "blank"]
  <2>1. r.chip = chip /\ r.stored = less /\ r.failed = FALSE /\ r.answer = <<"ok">>
    BY <1>4 DEF RomCommand
  <2>2. less \in Nors /\ \A p \in Partitions : p # word.arg => less[p] = stored[p]
    BY DEF Nors, LineTyped
  <2> HIDE DEF less
  <2>3. Said(r.answer, "ok")
    BY <2>1, SaidOne DEF Answers
  <2> QED BY <1>4, <2>1, <2>2, <2>3 DEF Did, Says, LineTyped, Answers, Said
<1>5. CASE word.kind = "cpbin"
  <2> DEFINE waiting == [chip EXCEPT !.mode = "data"]
  <2>1. r.chip = waiting /\ r.stored = stored /\ r.failed = FALSE /\ r.answer = <<"by_hex_mode">>
    BY <1>5 DEF RomCommand
  <2>2. ChipOk(waiting) /\ waiting.mode = "data" /\ waiting.baud = chip.baud
    BY DEF LineTyped, ChipOk, ChipRecord, Modes
  <2> HIDE DEF waiting
  <2>3. Said(r.answer, "by_hex_mode")
    BY <2>1, SaidOne DEF Answers
  <2> QED BY <1>5, <2>1, <2>2, <2>3 DEF Did, Says, LineTyped, Answers, Waits, Said
<1>6. CASE word.kind = "reset"
  <2>1. r.chip = Restarted(chip, stored) /\ r.stored = stored /\ r.failed = FALSE /\ r.answer = <<>>
    BY <1>6 DEF RomCommand
  <2>2. ChipOk(r.chip)
    BY <2>1, RestartedOk DEF LineTyped
  <2>3. \A x : <<>> # <<x>>
    BY ReadOne
  <2> QED BY <1>6, <2>1, <2>2, <2>3 DEF Did, Says, LineTyped
<1>7. CASE word.kind \notin {"rdrev", "rdreg", "set", "uarts", "chip_erase", "erase", "cpbin", "reset"}
  <2>1. r = Refused
    BY <1>7 DEF RomCommand
  <2> QED BY <2>1, Keeps
<1> QED BY <1>1, <1>2, <1>3, <1>4, <1>5, <1>6, <1>7

LEMMA DataDoes ==
  ASSUME LineTyped, Waits("data"), NEW word, NEW noise \in BOOLEAN, NEW r \in CpbinData(word, noise)
  PROVE  Did(word, noise, r) /\ Says(word, r)
<1>1. ASSUME NEW g \in BOOLEAN, word.kind = "payload" => g = noise,
             r = Reaction([chip EXCEPT !.mode = "checksum", !.garbled = g], stored, <<"challenge">>)
      PROVE  Did(word, noise, r) /\ Says(word, r)
  <2> DEFINE full == [chip EXCEPT !.mode = "checksum", !.garbled = g]
  <2>1. r.chip = full /\ r.stored = stored /\ r.failed = FALSE /\ r.answer = <<"challenge">>
    BY <1>1 DEF Reaction
  <2>2. ChipOk(full) /\ full.mode = "checksum" /\ full.baud = host.baud /\ full.garbled = g
    BY DEF LineTyped, ChipOk, ChipRecord, Modes, Waits
  <2> HIDE DEF full
  <2>3. Said(r.answer, "challenge")
    BY <2>1, SaidOne DEF Answers
  <2> QED BY <1>1, <2>1, <2>2, <2>3 DEF Did, Says, LineTyped, Answers, Said
<1>2. CASE word.kind = "payload"
  BY <1>1, <1>2 DEF CpbinData
<1>3. CASE word.kind # "payload"
  <2>1. r = Ignored \/ r = Refused \/ r = Reaction([chip EXCEPT !.mode = "checksum", !.garbled = TRUE], stored, <<"challenge">>)
    BY <1>3 DEF CpbinData
  <2> QED BY <1>1, <1>3, <2>1, Keeps
<1> QED BY <1>2, <1>3

LEMMA ChecksumDoes ==
  ASSUME LineTyped, Waits("checksum"), NEW word, NEW noise \in BOOLEAN, NEW r, r = CpbinChecksum(word)
  PROVE  Did(word, noise, r) /\ Says(word, r)
<1>1. CASE word.kind # "echo"
  <2>1. r = Refused
    BY <1>1 DEF CpbinChecksum
  <2> QED BY <2>1, Keeps
<1>2. CASE word.kind = "echo"
  <2> DEFINE back == [chip EXCEPT !.mode = "command", !.garbled = FALSE]
             more == [stored EXCEPT ![word.arg] = IF chip.garbled THEN "garbled" ELSE "sent"]
  <2>1. r.chip = back /\ r.stored = more /\ r.failed = FALSE /\ r.answer = <<"ok">>
    BY <1>2 DEF CpbinChecksum, Reaction
  <2>2. ChipOk(back) /\ back.mode = "command" /\ back.baud = host.baud
    BY DEF LineTyped, ChipOk, ChipRecord, Modes, Waits
  <2>3. /\ more \in Nors /\ \A p \in Partitions : p # word.arg => more[p] = stored[p]
        /\ word.arg \in Partitions /\ ~chip.garbled => more[word.arg] = "sent"
    BY DEF Nors, LineTyped
  <2> HIDE DEF back, more
  <2>4. Said(r.answer, "ok")
    BY <2>1, SaidOne DEF Answers
  <2> QED BY <1>2, <2>1, <2>2, <2>3, <2>4 DEF Did, Says, Answers, Waits, Said, LineTyped
<1> QED BY <1>1, <1>2

LEMMA ReactionDoes ==
  ASSUME LineTyped, NEW word, WordOk(word), NEW noise \in BOOLEAN,
         NEW r, r \in Reactions(word, noise) \/ r = Ignored
  PROVE  Did(word, noise, r) /\ Says(word, r)
<1>1. CASE r = Ignored
  BY <1>1, Keeps
<1>2. CASE r # Ignored
  <2>1. r \in Reactions(word, noise)
    BY <1>2
  <2>2. \/ chip.mode = "application" /\ r = AcceptApplication(word)
        \/ Waits("sync") /\ r = AwaitSync(word)
        \/ Waits("command") /\ r = RomCommand(word)
        \/ Waits("data") /\ r \in CpbinData(word, noise)
        \/ Waits("checksum") /\ r = CpbinChecksum(word)
    BY <1>2, <2>1 DEF Reactions, Waits, LineTyped, ChipOk, ChipRecord, Modes
  <2> QED BY <2>2, ApplicationDoes, SyncDoes, RomDoes, DataDoes, ChecksumDoes
<1> QED BY <1>1, <1>2

-----------------------------------------------------------------------------
(* The line between them. *)

\* Without a fault, or with a payload that is changed, the answer is read; with
\* another fault it is not.
Clear(word, got, noise, r) ==
  /\ r \in Reactions(word, noise)
  /\ got.read = rx \o r.answer /\ got.rx = <<>>
  /\ \/ ~noise /\ got.faults = faults /\ got.noisy = noisy
     \/ noise /\ word.kind = "payload" /\ got.faults = faults + 1 /\ got.noisy = TRUE

Faulty(got, r) ==
  /\ got.read = rx /\ got.rx \in {<<>>, r.answer}
  /\ got.faults = faults + 1 /\ got.noisy = noisy

Came(word, got, noise, r) ==
  /\ r \in Reactions(word, noise) \/ r = Ignored
  /\ got.chip = r.chip /\ got.stored = r.stored /\ got.failed = r.failed
  /\ Clear(word, got, noise, r) \/ Faulty(got, r)

LEMMA ExchangeIs ==
  ASSUME LineTyped, NEW word, NEW got \in Exchange(word)
  PROVE  \E noise \in BOOLEAN : \E r : Came(word, got, noise, r)
<1>1. ASSUME NEW r \in Reactions(word, FALSE), got = Outcome(r, rx \o r.answer, <<>>, 0, noisy)
      PROVE  Came(word, got, FALSE, r)
  <2>1. /\ got.chip = r.chip /\ got.stored = r.stored /\ got.failed = r.failed
        /\ got.read = rx \o r.answer /\ got.rx = <<>> /\ got.faults = faults + 0 /\ got.noisy = noisy
    BY <1>1 DEF Outcome
  <2>2. faults + 0 = faults
    BY DEF LineTyped
  <2> QED BY <2>1, <2>2 DEF Came, Clear
<1>2. ASSUME NEW r \in Reactions(word, FALSE), NEW late \in {<<>>, r.answer},
             got = Outcome(r, rx, late, 1, noisy)
      PROVE  Came(word, got, FALSE, r)
  BY <1>2 DEF Came, Faulty, Outcome
<1>3. ASSUME got = Outcome(Ignored, rx, <<>>, 1, noisy)
      PROVE  Came(word, got, FALSE, Ignored)
  BY <1>3 DEF Came, Faulty, Outcome
<1>4. ASSUME word.kind = "payload", NEW r \in Reactions(word, TRUE),
             got = Outcome(r, rx \o r.answer, <<>>, 1, TRUE)
      PROVE  Came(word, got, TRUE, r)
  BY <1>4 DEF Came, Clear, Outcome
<1> DEFINE quiet == {Outcome(r, rx \o r.answer, <<>>, 0, noisy) : r \in Reactions(word, FALSE)}
           unread == UNION {{Outcome(r, rx, late, 1, noisy) : late \in {<<>>, r.answer}}
                            : r \in {r \in Reactions(word, FALSE) : r.answer # <<>>}}
           lost == {Outcome(Ignored, rx, <<>>, 1, noisy)}
           changed == {Outcome(r, rx \o r.answer, <<>>, 1, TRUE) : r \in Reactions(word, TRUE)}
<1>5. got \in quiet \/ got \in unread \/ got \in lost \/ (word.kind = "payload" /\ got \in changed)
  <2>1. Exchange(word) = quiet \cup (IF faults = MaxFaults THEN {}
                                     ELSE unread \cup lost \cup IF word.kind # "payload" THEN {} ELSE changed)
    BY DEF Exchange
  <2> HIDE DEF quiet, unread, lost, changed
  <2> QED BY <2>1
<1>6. CASE got \in quiet
  BY <1>1, <1>6
<1>7. CASE got \in unread
  BY <1>2, <1>7
<1>8. CASE got \in lost
  BY <1>3, <1>8
<1>9. CASE word.kind = "payload" /\ got \in changed
  BY <1>4, <1>9
<1> QED BY <1>5, <1>6, <1>7, <1>8, <1>9

\* What every exchange leaves behind.
LEMMA ExchangeKeeps ==
  ASSUME LineTyped, NEW word, WordOk(word), NEW got, NEW noise \in BOOLEAN, NEW r,
         Came(word, got, noise, r)
  PROVE  /\ ChipOk(got.chip) /\ got.stored \in Nors /\ got.faults \in Nat /\ got.noisy \in BOOLEAN
         /\ faults <= got.faults
         /\ got.faults = faults => got.noisy = noisy /\ Clear(word, got, FALSE, r)
         /\ (noisy => faults > 0) => (got.noisy => got.faults > 0)
         /\ noisy => got.noisy
         /\ faults = 0 /\ rx = <<>> => (got.faults = 0 => got.rx = <<>> /\ got.read = r.answer)
<1>1. Did(word, noise, r)
  BY ReactionDoes DEF Came
<1>2. Says(word, r)
  BY ReactionDoes DEF Came
<1>3. faults = 0 /\ rx = <<>> /\ got.faults = 0 => got.rx = <<>> /\ got.read = r.answer
  <2>1. \A x : <<>> \o <<x>> = <<x>> /\ <<>> \o <<>> = <<>>
    BY ReadOne
  <2> QED BY <1>2, <2>1 DEF Came, Clear, Faulty, Says, LineTyped
<1>4. ChipOk(got.chip) /\ got.stored \in Nors
  BY <1>1 DEF Did, Came
<1>5. /\ got.faults \in Nat /\ got.noisy \in BOOLEAN /\ faults <= got.faults
      /\ (noisy => faults > 0) => (got.noisy => got.faults > 0)
      /\ noisy => got.noisy
  <2>1. got.faults = faults \/ got.faults = faults + 1
    BY DEF Came, Clear, Faulty
  <2>2. got.noisy = noisy \/ (got.noisy = TRUE /\ got.faults = faults + 1)
    BY DEF Came, Clear, Faulty
  <2>3. faults \in Nat /\ noisy \in BOOLEAN
    BY DEF LineTyped
  <2>4. got.faults \in Nat /\ faults <= got.faults /\ (faults > 0 => got.faults > 0)
    BY <2>1, <2>3
  <2>5. got.faults = faults + 1 => got.faults > 0
    BY <2>3
  <2> QED BY <2>2, <2>3, <2>4, <2>5
<1>6. got.faults = faults => got.noisy = noisy /\ Clear(word, got, FALSE, r)
  <2>1. faults + 1 # faults
    BY DEF LineTyped
  <2>2. got.faults = faults => ~noise /\ got.noisy = noisy /\ Clear(word, got, noise, r)
    BY <2>1 DEF Came, Clear, Faulty
  <2>3. ~noise => noise = FALSE
    OBVIOUS
  <2> QED BY <2>2, <2>3
<1> QED BY <1>3, <1>4, <1>5, <1>6

-----------------------------------------------------------------------------
(* The tool, one step after the other. *)

LEMMA Goes ==
  ASSUME host \in HostRecord, NEW step \in Steps, NEW h, h = [host EXCEPT !.at = step]
  PROVE  /\ h \in HostRecord /\ h.at = step /\ h.baud = host.baud /\ h.boot = host.boot /\ h.part = host.part
         /\ h.polls = host.polls /\ h.tries = host.tries /\ h.resetAfter = host.resetAfter /\ h.run = host.run
         /\ h.chipErase = host.chipErase /\ h.attempts = host.attempts
BY DEF HostRecord

LEMMA FailKeeps ==
  ASSUME LineInv, host \in HostRecord, NEW word, WordOk(word), NEW got, NEW noise \in BOOLEAN, NEW r,
         Came(word, got, noise, r),
         chip' = got.chip, stored' = got.stored, rx' = got.rx, faults' = got.faults, noisy' = got.noisy,
         host' = Failed, found' = found,
         faults' # 0 \/ ~Enters \/ host.polls = 0
  PROVE  LineInv'
<1>1. /\ host' \in HostRecord /\ host'.at = "failed" /\ host'.boot = host.boot /\ host'.polls = host.polls
  BY Goes DEF Failed, Steps
<1>2. LineTyped /\ Late /\ Kept
  BY DEF LineInv
<1>3. /\ ChipOk(chip') /\ stored' \in Nors /\ faults' \in Nat /\ noisy' \in BOOLEAN
      /\ noisy' => faults' > 0
      /\ faults' = 0 => faults = 0 /\ rx' = <<>>
  <2>1. /\ ChipOk(got.chip) /\ got.stored \in Nors /\ got.faults \in Nat /\ got.noisy \in BOOLEAN
        /\ faults <= got.faults
        /\ (noisy => faults > 0) => (got.noisy => got.faults > 0)
        /\ faults = 0 /\ rx = <<>> => (got.faults = 0 => got.rx = <<>> /\ got.read = r.answer)
    BY <1>2, ExchangeKeeps
  <2>2. faults \in Nat
    BY <1>2 DEF LineTyped
  <2> QED BY <1>2, <2>1, <2>2 DEF Late, Kept
<1>4. LineTyped'
  BY <1>1, <1>2, <1>3 DEF LineTyped
<1>5. Late' /\ Kept' /\ Quiet'
  BY <1>1, <1>3 DEF Late, Kept, Quiet, Over, ChunkSteps, AtCommand
<1>6. Entering'
  <2>1. host.at # "none"
    BY DEF HostRecord, Steps
  <2>2. Enters' => Enters
    BY <1>1, <2>1 DEF Enters, Lets
  <2> QED BY <1>1, <2>2 DEF Entering
<1> QED BY <1>4, <1>5, <1>6 DEF LineInv

\* The step has had its answer.
Passed(word, answer, next, noise, r) ==
  /\ r \in Reactions(word, noise) /\ r.answer = <<answer>>
  /\ Did(word, noise, r)
  /\ chip' = r.chip /\ stored' = r.stored /\ rx' = <<>> /\ host' = next /\ found' = found
  /\ \/ ~noise /\ faults' = faults /\ noisy' = noisy
     \/ noise /\ word.kind = "payload" /\ faults' = faults + 1 /\ noisy' = TRUE

\* No answer is late that could be taken for this one.
Apart(answer) == rx = <<>> \/ \E x \in Answers : x # answer /\ rx = <<x>>

\* On a quiet line it is answered.
Sure(word, answer) ==
  faults = 0 => \A r \in Reactions(word, FALSE) : r.answer = <<answer>> /\ ~r.failed

\* What was read is the answer to this word, if no such answer is late.
LEMMA ReadIs ==
  ASSUME LineTyped, NEW word, WordOk(word), NEW got, NEW noise \in BOOLEAN, NEW r,
         Came(word, got, noise, r),
         NEW answer \in Answers, Apart(answer),
         got.read = <<answer>>
  PROVE  r.answer = <<answer>> /\ Clear(word, got, noise, r) /\ r \in Reactions(word, noise)
<1>1. Says(word, r)
  BY ReactionDoes DEF Came
<1>2. rx = <<>> \/ \E x \in Answers : x # answer /\ rx = <<x>>
  BY DEF Apart
<1>3. rx # <<answer>>
  BY <1>2, ReadOne, OneWord
<1>4. got.read = rx \o r.answer /\ Clear(word, got, noise, r)
  BY <1>3 DEF Came, Clear, Faulty
<1>5. r.answer = <<>> \/ \E y : r.answer = <<y>>
  BY <1>1 DEF Says
<1>6. ASSUME rx = <<>> PROVE r.answer = <<answer>>
  BY <1>4, <1>5, <1>6, ReadOne
<1>7. ASSUME NEW x, rx = <<x>> PROVE FALSE
  <2>1. CASE r.answer = <<>>
    BY <1>3, <1>4, <1>7, <2>1, ReadOne
  <2>2. ASSUME NEW y, r.answer = <<y>> PROVE FALSE
    <3>1. Len(<<x>> \o <<y>>) = 2 /\ Len(<<answer>>) = 1
      BY ReadOne
    <3> QED BY <1>4, <1>7, <2>2, <3>1
  <2> QED BY <1>5, <2>1, <2>2
<1>8. r.answer = <<answer>>
  BY <1>2, <1>6, <1>7
<1> QED BY <1>4, <1>8 DEF Clear

LEMMA Expected ==
  ASSUME LineInv, NEW step \in Steps \ Over, NEW word, WordOk(word), NEW answer \in Answers, NEW next,
         Expect(step, word, answer, next),
         Apart(answer),
         Sure(word, answer)
  PROVE  LineInv' \/ \E noise \in BOOLEAN : \E r : Passed(word, answer, next, noise, r)
<1>1. PICK got \in Exchange(word) : Exchanged(got, IF got.read = <<answer>> THEN next ELSE Failed)
  BY DEF Expect
<1>2. host.at = step /\ found' = found /\ LineTyped /\ Late
  BY DEF Expect, LineInv
<1>3. host \in HostRecord
  BY <1>2 DEF LineTyped, Steps, Over
<1>4. PICK noise \in BOOLEAN : \E r : Came(word, got, noise, r)
  BY <1>2, ExchangeIs
<1>5. PICK r : Came(word, got, noise, r)
  BY <1>4
<1>6. /\ chip' = got.chip /\ stored' = got.stored /\ rx' = got.rx /\ faults' = got.faults /\ noisy' = got.noisy
      /\ host' = IF got.failed THEN Failed ELSE IF got.read = <<answer>> THEN next ELSE Failed
  BY <1>1 DEF Exchanged
<1>7. CASE ~got.failed /\ got.read = <<answer>>
  <2>1. r.answer = <<answer>> /\ Clear(word, got, noise, r) /\ r \in Reactions(word, noise)
    BY <1>2, <1>5, <1>7, ReadIs
  <2>2. Did(word, noise, r)
    BY <1>2, <2>1, ReactionDoes
  <2>3. Passed(word, answer, next, noise, r)
    BY <1>2, <1>5, <1>6, <1>7, <2>1, <2>2 DEF Passed, Came, Clear
  <2> QED BY <2>3
<1>8. CASE got.failed \/ got.read # <<answer>>
  <2>1. host' = Failed
    BY <1>6, <1>8
  <2>2. faults' # 0
    <3> SUFFICES ASSUME faults' = 0 PROVE FALSE
      OBVIOUS
    <3>1. /\ faults <= got.faults
          /\ got.faults = faults => got.noisy = noisy /\ Clear(word, got, FALSE, r)
          /\ faults = 0 /\ rx = <<>> => (got.faults = 0 => got.rx = <<>> /\ got.read = r.answer)
      BY <1>2, <1>5, ExchangeKeeps
    <3>2. faults = 0 /\ rx = <<>>
      BY <1>2, <1>6, <3>1 DEF LineTyped, Late
    <3>3. r \in Reactions(word, FALSE) /\ got.read = r.answer
      BY <1>6, <3>1, <3>2 DEF Clear
    <3> QED BY <1>5, <1>8, <3>2, <3>3 DEF Came, Sure
  <2> HIDE DEF LineInv
  <2> QED BY <1>2, <1>3, <1>5, <1>6, <2>1, <2>2, FailKeeps
<1> QED BY <1>7, <1>8

\* What the ROM answers when it waits for a command, ...
LEMMA RomAnswers ==
  ASSUME Waits("command"), NEW word, NEW noise \in BOOLEAN, NEW r \in Reactions(word, noise)
  PROVE  /\ word.kind = "rdrev" => r.answer = <<"revision">> /\ ~r.failed
         /\ word.kind = "rdreg" => r.answer = <<"value">> /\ ~r.failed
         /\ word.kind \in {"set", "chip_erase", "erase"} => r.answer = <<"ok">> /\ ~r.failed
         /\ word.kind = "uarts" => r.answer = <<"ack">> /\ ~r.failed
         /\ word.kind = "cpbin" => r.answer = <<"by_hex_mode">> /\ ~r.failed
         /\ word.kind = "reset" => r.chip = Restarted(chip, stored) /\ ~r.failed
<1>1. r = RomCommand(word)
  BY DEF Reactions, Waits
<1>2. word.kind = "rdrev" => r.answer = <<"revision">> /\ ~r.failed
  BY <1>1 DEF RomCommand, Reaction
<1>3. word.kind = "rdreg" => r.answer = <<"value">> /\ ~r.failed
  BY <1>1 DEF RomCommand, Reaction
<1>4. word.kind \in {"set", "chip_erase", "erase"} => r.answer = <<"ok">> /\ ~r.failed
  BY <1>1 DEF RomCommand, Reaction
<1>5. word.kind = "uarts" => r.answer = <<"ack">> /\ ~r.failed
  BY <1>1 DEF RomCommand, Reaction
<1>6. word.kind = "cpbin" => r.answer = <<"by_hex_mode">> /\ ~r.failed
  BY <1>1 DEF RomCommand, Reaction
<1>7. word.kind = "reset" => r.chip = Restarted(chip, stored) /\ ~r.failed
  BY <1>1 DEF RomCommand, Reaction
<1> QED BY <1>2, <1>3, <1>4, <1>5, <1>6, <1>7

\* ... within a chunk, and when it is entered.
LEMMA OtherAnswers ==
  ASSUME LineTyped, NEW word, NEW noise \in BOOLEAN, NEW r \in Reactions(word, noise)
  PROVE  /\ Waits("data") /\ word.kind = "payload" => r.answer = <<"challenge">> /\ ~r.failed
         /\ Waits("checksum") /\ word.kind = "echo" => r.answer = <<"ok">> /\ ~r.failed
         /\ Waits("sync") /\ word.kind = "UXTDWU" => r.answer = <<"cmd">> /\ ~r.failed
         /\ chip.mode = "sync" /\ word.kind \in {"rdrev", "token"} => r = Ignored
         /\ chip.mode = "application" /\ word.kind = "rdrev" => r = Ignored
         /\ chip.mode = "application" /\ chip.listens /\ host.baud = AppBaud /\ word.kind = "token" =>
              /\ r.chip = [chip EXCEPT !.mode = "sync", !.baud = StartBaud] /\ ~r.failed
<1>1. CASE Waits("data") /\ word.kind = "payload"
  BY <1>1 DEF Reactions, Waits, CpbinData, Reaction
<1>2. CASE Waits("checksum") /\ word.kind = "echo"
  BY <1>2 DEF Reactions, Waits, CpbinChecksum, Reaction
<1>3. CASE Waits("sync") /\ word.kind = "UXTDWU"
  BY <1>3 DEF Reactions, Waits, AwaitSync, Reaction
<1>4. CASE chip.mode = "sync" /\ word.kind \in {"rdrev", "token"}
  <2>1. r = Ignored
    BY <1>4 DEF Reactions, AwaitSync
  <2> QED BY <1>4, <2>1 DEF Waits
<1>5. CASE chip.mode = "application"
  <2>1. r = AcceptApplication(word)
    BY <1>5 DEF Reactions
  <2>2. word.kind = "rdrev" => r = Ignored
    BY <2>1 DEF AcceptApplication
  <2>3. chip.listens /\ host.baud = AppBaud /\ word.kind = "token" =>
          r.chip = [chip EXCEPT !.mode = "sync", !.baud = StartBaud] /\ ~r.failed
    <3> DEFINE zeroed == [stored EXCEPT ![1] = "zero"]
    <3> SUFFICES ASSUME chip.listens, host.baud = AppBaud, word.kind = "token"
                 PROVE  r.chip = [chip EXCEPT !.mode = "sync", !.baud = StartBaud] /\ ~r.failed
      OBVIOUS
    <3>1. r.chip = Restarted(chip, zeroed) /\ r.failed = FALSE
      BY <2>1 DEF AcceptApplication, Reaction
    <3>2. zeroed[1] = "zero"
      BY BaudFacts DEF LineTyped, Nors
    <3> HIDE DEF zeroed
    <3> QED BY <3>1, <3>2 DEF Restarted, HeaderValid
  <2> QED BY <1>5, <2>2, <2>3 DEF Waits
<1>6. CASE /\ ~(Waits("data") /\ word.kind = "payload") /\ ~(Waits("checksum") /\ word.kind = "echo")
           /\ ~(Waits("sync") /\ word.kind = "UXTDWU")
           /\ ~(chip.mode = "sync" /\ word.kind \in {"rdrev", "token"}) /\ chip.mode # "application"
  BY <1>6
<1> QED BY <1>1, <1>2, <1>3, <1>4, <1>5, <1>6

LEMMA Counted ==
  ASSUME NEW f \in Nat, NEW g, g = f \/ g = f + 1
  PROVE  g \in Nat /\ (g = f + 1 => g > 0)
OBVIOUS

\* A step that has had its answer: what is left to show.
LEMMA PassedKeeps ==
  ASSUME LineInv, host.at # "none", NEW word, NEW answer, NEW next \in HostRecord, NEW noise \in BOOLEAN, NEW r,
         Passed(word, answer, next, noise, r),
         next.at \notin {"failed", "probe", "wake", "sync"},
         next.at \notin ChunkSteps \cup {"reset"} \cup Over => next.part = 1,
         next.at \in ChunkSteps /\ ~noisy' => \A p \in Partitions : p < next.part => stored'[p] = "sent",
         next.at \in {"reset", "done"} /\ ~noisy' => \A p \in Partitions : stored'[p] = "sent",
         next.at = "echo" /\ chip'.mode = "checksum" /\ ~noisy' => ~chip'.garbled,
         faults' = 0 =>
           /\ next.at \in AtCommand => chip'.mode = "command" /\ chip'.baud = next.baud
           /\ next.at # "check"
           /\ next.at = "payload" => chip'.mode = "data" /\ chip'.baud = next.baud
           /\ next.at = "echo" => chip'.mode = "checksum" /\ chip'.baud = next.baud
           /\ next.at = "done" /\ next.resetAfter => chip'.mode = "application"
  PROVE  LineInv'
<1>1. /\ LineTyped /\ (noisy => faults > 0)
      /\ Did(word, noise, r)
      /\ chip' = r.chip /\ stored' = r.stored /\ rx' = <<>> /\ host' = next /\ found' = found
      /\ \/ faults' = faults /\ noisy' = noisy
         \/ faults' = faults + 1 /\ noisy' = TRUE
  BY DEF LineInv, Kept, Passed
<1>2. LineTyped' /\ (noisy' => faults' > 0)
  <2>1. faults \in Nat /\ noisy \in BOOLEAN /\ ChipOk(found)
    BY <1>1 DEF LineTyped
  <2>2. faults' \in Nat /\ noisy' \in BOOLEAN /\ (noisy' => faults' > 0)
    <3>1. (faults' = faults \/ faults' = faults + 1) /\ (noisy' = noisy \/ noisy' = TRUE)
      BY <1>1
    <3>2. faults' \in Nat /\ (faults' = faults + 1 => faults' > 0)
      BY <2>1, <3>1, Counted
    <3>3. noisy' \in BOOLEAN
      BY <2>1, <3>1
    <3>4. faults' # faults + 1 => faults' = faults /\ noisy' = noisy
      BY <1>1
    <3> QED BY <1>1, <3>2, <3>3, <3>4
  <2>3. ChipOk(chip)' /\ stored' \in Nors /\ ChipOk(found)'
    BY <1>1, <2>1 DEF Did, ChipOk
  <2> QED BY <1>1, <2>2, <2>3 DEF LineTyped
<1>3. Late'
  BY <1>1 DEF Late
<1>4. Kept'
  BY <1>1, <1>2 DEF Kept
<1>5. Quiet'
  BY <1>1 DEF Quiet, Waits
<1>6. Entering'
  BY <1>1 DEF Entering
<1> QED BY <1>2, <1>3, <1>4, <1>5, <1>6 DEF LineInv

\* An answer to a command that changes neither the chip nor the NOR.
LEMMA AnsweredKeeps ==
  ASSUME LineInv, host \in HostRecord, NEW step \in Steps \ Over, NEW word, NEW answer \in {"revision", "value", "ok"},
         word.kind \notin {"token", "echo", "payload", "uarts"},
         word.kind \notin {"erase", "chip_erase"} \/ host.part = 1,
         NEW next \in HostRecord,
         next.at \in {"unlock", "uarts", "chip_erase", "status", "init", "erase"},
         next.part = 1, next.baud = host.baud,
         Expect(step, word, answer, next),
         Apart(answer),
         Sure(word, answer)
  PROVE  LineInv'
<1>1. CASE LineInv'
  BY <1>1
<1>2. CASE \E noise \in BOOLEAN : \E r : Passed(word, answer, next, noise, r)
  <2>1. PICK noise \in BOOLEAN : \E r : Passed(word, answer, next, noise, r)
    BY <1>2
  <2>2. PICK r : Passed(word, answer, next, noise, r)
    BY <2>1
  <2>3. Waits("command") /\ chip' = chip
    BY <2>2 DEF Passed, Did
  <2>4. \A p \in Partitions : ~(p < 1)
    BY DEF Partitions
  <2>5. host.at # "none"
    BY DEF HostRecord, Steps
  <2> HIDE DEF LineInv
  <2> QED BY <2>2, <2>3, <2>4, <2>5, PassedKeeps DEF Waits, ChunkSteps, Over, AtCommand
<1>3. answer \in Answers /\ WordOk(word)
  BY DEF Answers, WordOk
<1> HIDE DEF LineInv
<1>4. LineInv' \/ \E noise \in BOOLEAN : \E r : Passed(word, answer, next, noise, r)
  <2>1. step \in Steps \ Over
    OBVIOUS
  <2>2. LineInv /\ Expect(step, word, answer, next)
    OBVIOUS
  <2>4. Sure(word, answer) /\ Apart(answer)
    OBVIOUS
  <2> QED BY <1>3, <2>1, <2>2, <2>4, Expected
<1> QED BY <1>1, <1>2, <1>4

LEMMA LineAt ==
  ASSUME LineInv, host.at \in Steps \ Over
  PROVE  /\ host \in HostRecord /\ LineTyped /\ host.part \in Partitions
         /\ host.at \notin ChunkSteps \cup {"reset"} => host.part = 1
         /\ host.at \notin {"wake", "sync", "attach", "check"} => rx = <<>>
         /\ faults = 0 /\ host.at \in AtCommand => Waits("command")
         /\ host.at \in AtCommand \ {"attach"} => rx = <<>>
<1>1. host \in HostRecord
  BY DEF LineInv, LineTyped, Steps, Over
<1> QED BY <1>1 DEF LineInv, LineTyped, Kept, Late, Quiet, HostRecord, Over, AtCommand

LEMMA AttachKeeps ==
  ASSUME LineInv, Attach
  PROVE  LineInv'
<1> DEFINE word == Word("rdrev", 0)
           next == To("unlock")
<1>1. Expect("attach", word, "revision", next) /\ host.at = "attach"
  BY DEF Attach, Expect
<1>2. LineTyped /\ host \in HostRecord /\ host.part = 1 /\ (faults = 0 => Waits("command"))
  BY <1>1, LineAt DEF Steps, Over, ChunkSteps, AtCommand
<1>3. word.kind = "rdrev" /\ next \in HostRecord /\ next.at = "unlock" /\ next.part = 1 /\ next.baud = host.baud
  BY <1>2, Goes DEF Word, To, Steps
<1>4. Apart("revision")
  <2>1. rx \in {<<>>, <<"cmd">>, <<"challenge">>}
    BY <1>1 DEF LineInv, Late
  <2> QED BY <2>1 DEF Answers, Apart
<1> HIDE DEF word, next, LineInv
<1>5. Sure(word, "revision")
  BY <1>2, <1>3, RomAnswers DEF Sure
<1> QED BY <1>1, <1>2, <1>3, <1>4, <1>5, AnsweredKeeps DEF Steps, Over

\* The commands with one answer that leave the chip as it is.
LEMMA CommandKeeps ==
  ASSUME LineInv, NEW step \in {"unlock", "chip_erase", "status", "init"},
         NEW word, NEW answer, NEW next,
         \/ word.kind = "rdreg" /\ answer = "value"
         \/ word.kind \in {"set", "chip_erase"} /\ answer = "ok",
         Expect(step, word, answer, next),
         host \in HostRecord => next \in HostRecord /\ next.part = host.part /\ next.baud = host.baud
                                /\ next.at \in {"uarts", "status", "init", "erase"}
  PROVE  LineInv'
<1>1. host.at = step
  BY DEF Expect
<1>2. /\ LineTyped /\ host \in HostRecord /\ host.part = 1 /\ rx = <<>>
      /\ faults = 0 => Waits("command")
  BY <1>1, LineAt DEF Steps, Over, ChunkSteps, AtCommand
<1>3. Sure(word, answer) /\ Apart(answer)
  BY <1>2, RomAnswers DEF Sure, Apart
<1> HIDE DEF LineInv
<1>4. /\ next \in HostRecord /\ next.part = 1 /\ next.baud = host.baud
      /\ next.at \in {"unlock", "uarts", "chip_erase", "status", "init", "erase"}
      /\ step \in Steps \ Over /\ answer \in {"revision", "value", "ok"}
      /\ word.kind \notin {"token", "echo", "payload", "uarts"}
  BY <1>2 DEF Steps, Over
<1> QED BY <1>2, <1>3, <1>4, AnsweredKeeps

LEMMA UnlockKeeps == ASSUME LineInv, Unlock PROVE LineInv'
<1>1. host \in HostRecord => To("uarts") \in HostRecord /\ To("uarts").part = host.part
                             /\ To("uarts").baud = host.baud /\ To("uarts").at = "uarts"
  BY Goes DEF To, Steps
<1>2. Word("set", 0).kind = "set"
  BY DEF Word
<1> HIDE DEF LineInv, To, Word
<1> QED BY <1>1, <1>2, CommandKeeps DEF Unlock

LEMMA EraseAllKeeps == ASSUME LineInv, EraseAll PROVE LineInv'
<1>1. host \in HostRecord => To("status") \in HostRecord /\ To("status").part = host.part
                             /\ To("status").baud = host.baud /\ To("status").at = "status"
  BY Goes DEF To, Steps
<1>2. Word("chip_erase", 0).kind = "chip_erase"
  BY DEF Word
<1> HIDE DEF LineInv, To, Word
<1> QED BY <1>1, <1>2, CommandKeeps DEF EraseAll

LEMMA EraseStatusKeeps == ASSUME LineInv, EraseStatus PROVE LineInv'
<1> DEFINE again == [host EXCEPT !.polls = @ - 1]
           word == Word("rdreg", 0)
           on == To("init")
<1>1. host \in HostRecord => on \in HostRecord /\ on.part = host.part
                             /\ on.baud = host.baud /\ on.at = "init"
  BY Goes DEF To, Steps
<1>2. word.kind = "rdreg"
  BY DEF Word
<1>3. host \in HostRecord => again \in HostRecord /\ again.part = host.part
                             /\ again.baud = host.baud /\ again.at = "status"
  BY DEF EraseStatus, HostRecord
<1>4. Expect("status", word, "value", on) \/ Expect("status", word, "value", again)
  BY DEF EraseStatus
<1> HIDE DEF LineInv, word, again, on
<1> QED BY <1>1, <1>2, <1>3, <1>4, CommandKeeps

LEMMA InitSpifsKeeps == ASSUME LineInv, InitSpifs PROVE LineInv'
<1>1. host \in HostRecord => To("erase") \in HostRecord /\ To("erase").part = host.part
                             /\ To("erase").baud = host.baud /\ To("erase").at = "erase"
  BY Goes DEF To, Steps
<1>2. Word("set", 0).kind = "set"
  BY DEF Word
<1> HIDE DEF LineInv, To, Word
<1> QED BY <1>1, <1>2, CommandKeeps DEF InitSpifs

LEMMA ErasePartKeeps == ASSUME LineInv, ErasePart PROVE LineInv'
<1> DEFINE word == Word("erase", host.part)
           next == To("cpbin")
<1>1. Expect("erase", word, "ok", next) /\ host.at = "erase"
  BY DEF ErasePart, Expect
<1>2. /\ LineTyped /\ host \in HostRecord /\ rx = <<>> /\ host.part \in Partitions
      /\ faults = 0 => Waits("command")
  BY <1>1, LineAt DEF Steps, Over, AtCommand
<1>3. /\ word.kind = "erase" /\ word.arg = host.part
      /\ next \in HostRecord /\ next.at = "cpbin" /\ next.part = host.part /\ next.baud = host.baud
  BY <1>2, Goes DEF Word, To, Steps
<1>4. ~noisy => \A p \in Partitions : p < host.part => stored[p] = "sent"
  BY <1>1 DEF LineInv, Kept, ChunkSteps
<1> HIDE DEF word, next, LineInv
<1>5. Sure(word, "ok") /\ Apart("ok")
  BY <1>2, <1>3, RomAnswers DEF Sure, Apart
<1>6. WordOk(word) /\ "ok" \in Answers /\ "erase" \in Steps \ Over
  BY <1>3 DEF WordOk, Answers, Steps, Over
<1>7. ASSUME NEW noise \in BOOLEAN, NEW r, Passed(word, "ok", next, noise, r) PROVE LineInv'
  <2>1. Waits("command") /\ chip' = chip /\ noisy' = noisy
    BY <1>3, <1>7 DEF Passed, Did
  <2>2. \A p \in Partitions : p # host.part => stored'[p] = stored[p]
    BY <1>3, <1>7 DEF Passed, Did
  <2>3. ~noisy' => \A p \in Partitions : p < next.part => stored'[p] = "sent"
    <3>1. \A p \in Partitions : p < host.part => p # host.part
      BY <1>2 DEF Partitions
    <3> QED BY <1>3, <1>4, <2>1, <2>2, <3>1
  <2> QED BY <1>1, <1>3, <1>7, <2>1, <2>3, PassedKeeps DEF Waits, ChunkSteps, Over, AtCommand
<1>8. LineInv' \/ \E noise \in BOOLEAN : \E r : Passed(word, "ok", next, noise, r)
  BY <1>1, <1>5, <1>6, Expected
<1> QED BY <1>7, <1>8

LEMMA OfferChunkKeeps == ASSUME LineInv, OfferChunk PROVE LineInv'
<1> DEFINE word == Word("cpbin", host.part)
           next == To("payload")
<1>1. Expect("cpbin", word, "by_hex_mode", next) /\ host.at = "cpbin"
  BY DEF OfferChunk, Expect
<1>2. /\ LineTyped /\ host \in HostRecord /\ rx = <<>>
      /\ faults = 0 => Waits("command")
  BY <1>1, LineAt DEF Steps, Over, AtCommand
<1>3. /\ word.kind = "cpbin"
      /\ next \in HostRecord /\ next.at = "payload" /\ next.part = host.part /\ next.baud = host.baud
  BY <1>2, Goes DEF Word, To, Steps
<1>4. ~noisy => \A p \in Partitions : p < host.part => stored[p] = "sent"
  BY <1>1 DEF LineInv, Kept, ChunkSteps
<1> HIDE DEF word, next, LineInv
<1>5. Sure(word, "by_hex_mode") /\ Apart("by_hex_mode")
  BY <1>2, <1>3, RomAnswers DEF Sure, Apart
<1>6. WordOk(word) /\ "by_hex_mode" \in Answers /\ "cpbin" \in Steps \ Over
  BY <1>3 DEF WordOk, Answers, Steps, Over
<1>7. ASSUME NEW noise \in BOOLEAN, NEW r, Passed(word, "by_hex_mode", next, noise, r) PROVE LineInv'
  <2>1. chip'.mode = "data" /\ chip'.baud = host.baud /\ noisy' = noisy /\ stored' = stored
    BY <1>3, <1>7 DEF Passed, Did
  <2> QED BY <1>1, <1>3, <1>4, <1>7, <2>1, PassedKeeps DEF ChunkSteps, Over, AtCommand
<1>8. LineInv' \/ \E noise \in BOOLEAN : \E r : Passed(word, "by_hex_mode", next, noise, r)
  BY <1>1, <1>5, <1>6, Expected
<1> QED BY <1>7, <1>8

LEMMA SendPayloadKeeps == ASSUME LineInv, SendPayload PROVE LineInv'
<1> DEFINE word == Word("payload", host.part)
           next == To("echo")
<1>1. Expect("payload", word, "challenge", next) /\ host.at = "payload"
  BY DEF SendPayload, Expect
<1>2. LineTyped /\ host \in HostRecord /\ rx = <<>>
  BY <1>1, LineAt DEF Steps, Over
<1>3. /\ word.kind = "payload"
      /\ next \in HostRecord /\ next.at = "echo" /\ next.part = host.part /\ next.baud = host.baud
  BY <1>2, Goes DEF Word, To, Steps
<1>4. /\ ~noisy => \A p \in Partitions : p < host.part => stored[p] = "sent"
      /\ faults = 0 => Waits("data")
      /\ noisy \in BOOLEAN
  BY <1>1 DEF LineInv, Kept, ChunkSteps, Quiet, LineTyped
<1> HIDE DEF word, next, LineInv
<1>5. Sure(word, "challenge") /\ Apart("challenge")
  BY <1>2, <1>3, <1>4, OtherAnswers DEF Sure, Apart
<1>6. WordOk(word) /\ "challenge" \in Answers /\ "payload" \in Steps \ Over
  BY <1>3 DEF WordOk, Answers, Steps, Over
<1>7. ASSUME NEW noise \in BOOLEAN, NEW r, Passed(word, "challenge", next, noise, r) PROVE LineInv'
  <2>1. /\ chip'.mode = "checksum" /\ chip'.baud = host.baud /\ chip'.garbled = noise /\ stored' = stored
    BY <1>3, <1>7 DEF Passed, Did
  <2>2. ~noisy' => ~noise /\ noisy' = noisy
    BY <1>7 DEF Passed
  <2> QED BY <1>1, <1>3, <1>4, <1>7, <2>1, <2>2, PassedKeeps DEF ChunkSteps, Over, AtCommand
<1>8. LineInv' \/ \E noise \in BOOLEAN : \E r : Passed(word, "challenge", next, noise, r)
  BY <1>1, <1>5, <1>6, Expected
<1> QED BY <1>7, <1>8

LEMMA EchoChecksumKeeps == ASSUME LineInv, EchoChecksum PROVE LineInv'
<1> DEFINE word == Word("echo", host.part)
           next == AfterChunk
<1>1. Expect("echo", word, "ok", next) /\ host.at = "echo"
  BY DEF EchoChecksum, Expect
<1>2. LineTyped /\ host \in HostRecord /\ rx = <<>> /\ host.part \in Partitions
  BY <1>1, LineAt DEF Steps, Over
<1>3. /\ word.kind = "echo" /\ word.arg = host.part
      /\ next \in HostRecord /\ next.baud = host.baud /\ next.resetAfter = host.resetAfter
      /\ \/ next.at = "erase" /\ next.part = host.part + 1
         \/ next.at = "reset" /\ host.part = ImageParts
         \/ next.at = "done" /\ host.part = ImageParts /\ ~next.resetAfter
  <2>1. CASE host.part < ImageParts
    <3>1. next = [host EXCEPT !.part = @ + 1, !.at = "erase"]
      BY <2>1 DEF AfterChunk
    <3>2. host.part + 1 \in Partitions
      BY <1>2, <2>1, BaudFacts DEF Partitions
    <3> QED BY <1>2, <3>1, <3>2 DEF HostRecord, Steps, Word
  <2>2. CASE ~(host.part < ImageParts)
    <3>1. next = IF host.resetAfter THEN To("reset") ELSE To("done")
      BY <2>2 DEF AfterChunk
    <3>2. host.part = ImageParts
      BY <1>2, <2>2, BaudFacts DEF Partitions
    <3> QED BY <1>2, <3>1, <3>2, Goes DEF To, Steps, Word
  <2> QED BY <2>1, <2>2
<1>4. /\ ~noisy => \A p \in Partitions : p < host.part => stored[p] = "sent"
      /\ faults = 0 => Waits("checksum")
      /\ chip.mode = "checksum" /\ ~noisy => ~chip.garbled
  BY <1>1 DEF LineInv, Kept, ChunkSteps, Quiet
<1> HIDE DEF word, next, LineInv
<1>5. Sure(word, "ok") /\ Apart("ok")
  BY <1>2, <1>3, <1>4, OtherAnswers DEF Sure, Apart
<1>6. WordOk(word) /\ "ok" \in Answers /\ "echo" \in Steps \ Over
  BY <1>3 DEF WordOk, Answers, Steps, Over
<1>7. ASSUME NEW noise \in BOOLEAN, NEW r, Passed(word, "ok", next, noise, r) PROVE LineInv'
  <2>1. /\ chip.mode = "checksum" /\ chip'.mode = "command" /\ chip'.baud = host.baud
        /\ ~chip.garbled => stored'[host.part] = "sent"
        /\ \A p \in Partitions : p # host.part => stored'[p] = stored[p]
        /\ noisy' = noisy
    BY <1>2, <1>3, <1>7 DEF Passed, Did
  <2>2. ~noisy' => \A p \in Partitions : p <= host.part => stored'[p] = "sent"
    <3>1. \A p \in Partitions : p <= host.part => p = host.part \/ p < host.part
      BY <1>2 DEF Partitions
    <3>2. \A p \in Partitions : p < host.part => p # host.part
      BY <1>2 DEF Partitions
    <3> QED BY <1>4, <2>1, <3>1, <3>2
  <2>3. CASE next.at = "erase" /\ next.part = host.part + 1
    <3>1. \A p \in Partitions : p < next.part => p <= host.part
      BY <1>2, <2>3 DEF Partitions
    <3>2. ~noisy' => \A p \in Partitions : p < next.part => stored'[p] = "sent"
      BY <2>2, <3>1
    <3> QED BY <1>1, <1>3, <1>7, <2>1, <2>3, <3>2, PassedKeeps DEF ChunkSteps, Over, AtCommand
  <2>4. CASE host.part = ImageParts /\ next.at \in {"reset", "done"} /\ (next.at = "done" => ~next.resetAfter)
    <3>1. \A p \in Partitions : p <= host.part
      BY <2>4, BaudFacts DEF Partitions
    <3>2. ~noisy' => \A p \in Partitions : stored'[p] = "sent"
      BY <2>2, <3>1
    <3> QED BY <1>1, <1>3, <1>7, <2>1, <2>4, <3>2, PassedKeeps DEF ChunkSteps, Over, AtCommand
  <2> QED BY <1>3, <2>3, <2>4
<1>8. LineInv' \/ \E noise \in BOOLEAN : \E r : Passed(word, "ok", next, noise, r)
  BY <1>1, <1>5, <1>6, Expected
<1> QED BY <1>7, <1>8

LEMMA CheckBaudKeeps == ASSUME LineInv, CheckBaud PROVE LineInv'
<1> DEFINE word == Word("rdreg", 0)
           next == AfterBaud(host)
<1>1. Expect("check", word, "value", next) /\ host.at = "check"
  BY DEF CheckBaud, Expect
<1>2. LineTyped /\ host \in HostRecord /\ host.part = 1
  BY <1>1, LineAt DEF Steps, Over, ChunkSteps
<1>3. /\ word.kind = "rdreg"
      /\ next \in HostRecord /\ next.at \in {"chip_erase", "init"} /\ next.part = 1 /\ next.baud = host.baud
  BY <1>2, Goes DEF Word, AfterBaud, Steps
<1>4. Apart("value") /\ faults # 0
  <2>1. rx \in {<<>>, <<"ack">>, <<"challenge">>} /\ faults # 0
    BY <1>1 DEF LineInv, Late, Quiet
  <2> QED BY <2>1 DEF Answers, Apart
<1> HIDE DEF word, next, LineInv
<1>5. Sure(word, "value")
  BY <1>4 DEF Sure
<1> QED BY <1>1, <1>2, <1>3, <1>4, <1>5, AnsweredKeeps DEF Steps, Over

-----------------------------------------------------------------------------
(* The steps that go on without the answer. *)

Heard(word, got, noise, r) ==
  /\ Came(word, got, noise, r) /\ Did(word, noise, r) /\ Says(word, r)
  /\ chip' = r.chip /\ stored' = r.stored /\ rx' = got.rx /\ faults' = got.faults /\ noisy' = got.noisy
  /\ ChipOk(chip') /\ stored' \in Nors /\ faults' \in Nat /\ noisy' \in BOOLEAN
  /\ noisy' => faults' > 0
  /\ rx' \in {<<>>, r.answer}
  /\ faults' = 0 => faults = 0 /\ rx' = <<>> /\ got.read = r.answer /\ r \in Reactions(word, FALSE)
  /\ word.kind # "payload" => noisy' = noisy

LEMMA HeardIs ==
  ASSUME LineInv, NEW word, WordOk(word), NEW got \in Exchange(word), NEW next, Exchanged(got, next)
  PROVE  /\ \E noise \in BOOLEAN : \E r : Heard(word, got, noise, r)
         /\ got.failed => host' = Failed
         /\ ~got.failed => host' = next
<1>1. LineTyped /\ Late /\ (noisy => faults > 0)
  BY DEF LineInv, Kept
<1>2. PICK noise \in BOOLEAN : \E r : Came(word, got, noise, r)
  BY <1>1, ExchangeIs
<1>3. PICK r : Came(word, got, noise, r)
  BY <1>2
<1>4. Did(word, noise, r) /\ Says(word, r)
  BY <1>1, <1>3, ReactionDoes DEF Came
<1>5. /\ ChipOk(got.chip) /\ got.stored \in Nors /\ got.faults \in Nat /\ got.noisy \in BOOLEAN
      /\ faults <= got.faults
      /\ got.faults = faults => got.noisy = noisy /\ Clear(word, got, FALSE, r)
      /\ (noisy => faults > 0) => (got.noisy => got.faults > 0)
      /\ faults = 0 /\ rx = <<>> => (got.faults = 0 => got.rx = <<>> /\ got.read = r.answer)
  BY <1>1, <1>3, ExchangeKeeps
<1>6. got.faults = 0 => faults = 0 /\ got.rx = <<>> /\ got.read = r.answer /\ r \in Reactions(word, FALSE)
  <2>1. got.faults = 0 => faults = 0
    BY <1>1, <1>5 DEF LineTyped
  <2>2. faults = 0 => rx = <<>>
    BY <1>1 DEF Late
  <2> QED BY <1>5, <2>1, <2>2 DEF Clear
<1>7. got.rx \in {<<>>, r.answer} /\ (word.kind # "payload" => got.noisy = noisy)
  BY <1>3 DEF Came, Clear, Faulty
<1>8. Heard(word, got, noise, r)
  BY <1>1, <1>3, <1>4, <1>5, <1>6, <1>7 DEF Heard, Exchanged, Came
<1> QED BY <1>8 DEF Exchanged

LEMMA HeardTyped ==
  ASSUME LineInv, NEW word, NEW got, NEW noise \in BOOLEAN, NEW r, Heard(word, got, noise, r),
         host' \in HostRecord, found' = found
  PROVE  LineTyped' /\ (noisy' => faults' > 0) /\ (faults' = 0 => rx' = <<>>)
BY DEF Heard, LineInv, LineTyped, ChipOk

LEMMA HeardFails ==
  ASSUME LineInv, host \in HostRecord, NEW word, WordOk(word), NEW got, NEW noise \in BOOLEAN, NEW r,
         Heard(word, got, noise, r), host' = Failed, found' = found, faults' # 0 \/ ~Enters
  PROVE  LineInv'
<1>1. Came(word, got, noise, r) /\ chip' = got.chip /\ stored' = got.stored /\ rx' = got.rx
      /\ faults' = got.faults /\ noisy' = got.noisy
  BY DEF Heard, Came
<1> HIDE DEF LineInv
<1> QED BY <1>1, FailKeeps

LEMMA SetBaudKeeps == ASSUME LineInv, SetBaud PROVE LineInv'
<1>1. host.at = "uarts" /\ found' = found
  BY DEF SetBaud
<1>2. /\ LineTyped /\ host \in HostRecord /\ host.part = 1 /\ rx = <<>>
      /\ faults = 0 => Waits("command")
  BY <1>1, LineAt DEF Steps, Over, ChunkSteps, AtCommand
<1>3. CASE host.baud = host.run
  <2> DEFINE next == AfterBaud(host)
  <2>1. next \in HostRecord /\ next.at \in {"chip_erase", "init"} /\ next.part = 1 /\ next.baud = host.baud
    BY <1>2, Goes DEF AfterBaud, Steps
  <2>2. host' = next /\ UNCHANGED <<chip, stored, faults, noisy, rx, found>>
    BY <1>3 DEF SetBaud
  <2> HIDE DEF next
  <2>3. LineTyped'
    BY <2>1, <2>2, <1>2 DEF LineTyped, ChipOk
  <2>4. Late' /\ Kept'
    BY <1>1, <1>2, <2>1, <2>2 DEF Late, Kept, LineInv, ChunkSteps, Over
  <2>5. Quiet' /\ Entering'
    BY <1>2, <2>1, <2>2 DEF Quiet, Entering, Waits, AtCommand
  <2> QED BY <2>3, <2>4, <2>5 DEF LineInv
<1>4. CASE host.baud # host.run
  <2> DEFINE word == Word("uarts", host.run)
             there == [host EXCEPT !.baud = host.run]
             acked == AfterBaud(there)
             check == [there EXCEPT !.at = "check"]
  <2>1. PICK got \in Exchange(word) : Exchanged(got, IF got.read = <<"ack">> THEN acked ELSE check)
    BY <1>4 DEF SetBaud
  <2>2. word.kind = "uarts" /\ word.arg = host.run /\ WordOk(word)
    BY <1>2 DEF Word, WordOk, HostRecord
  <2>3. /\ acked \in HostRecord /\ acked.at \in {"chip_erase", "init"} /\ acked.part = 1 /\ acked.baud = host.run
        /\ check \in HostRecord /\ check.at = "check" /\ check.part = 1
    BY <1>2 DEF AfterBaud, HostRecord, Steps
  <2> HIDE DEF word, there, acked, check, LineInv
  <2>4. /\ \E noise \in BOOLEAN : \E r : Heard(word, got, noise, r)
        /\ got.failed => host' = Failed
        /\ ~got.failed => host' = IF got.read = <<"ack">> THEN acked ELSE check
    BY <2>1, <2>2, HeardIs
  <2>5. PICK noise \in BOOLEAN : \E r : Heard(word, got, noise, r)
    BY <2>4
  <2>6. PICK r : Heard(word, got, noise, r)
    BY <2>5
  <2>7. faults' = 0 => ~got.failed /\ got.read = <<"ack">>
    <3>1. faults' = 0 => r.answer = <<"ack">> /\ ~r.failed
      BY <1>2, <2>2, <2>6, RomAnswers DEF Heard
    <3> QED BY <2>6, <3>1 DEF Heard, Came
  <2>8. CASE got.failed
    BY <1>1, <1>2, <2>2, <2>4, <2>6, <2>7, <2>8, HeardFails
  <2>9. CASE ~got.failed /\ got.read = <<"ack">>
    <3>1. r.answer = <<"ack">> /\ rx' = <<>>
      <4>1. "ack" \in Answers /\ Apart("ack") /\ Came(word, got, noise, r)
        BY <1>2, <2>6 DEF Answers, Apart, Heard
      <4>2. r.answer = <<"ack">> /\ Clear(word, got, noise, r)
        BY <1>2, <2>2, <2>9, <4>1, ReadIs
      <4> QED BY <2>6, <4>2 DEF Clear, Heard
    <3>2. chip'.mode = "command" /\ chip'.baud = host.run
      BY <2>2, <2>6, <3>1 DEF Heard, Did
    <3>3. host' = acked
      BY <2>4, <2>9
    <3>4. LineTyped' /\ (noisy' => faults' > 0)
      BY <1>1, <2>3, <2>6, <3>3, HeardTyped
    <3>5. Late' /\ Kept'
      BY <2>3, <3>1, <3>3, <3>4 DEF Late, Kept, ChunkSteps, Over
    <3>6. Quiet' /\ Entering'
      BY <2>3, <3>2, <3>3 DEF Quiet, Entering, Waits, AtCommand
    <3> QED BY <3>4, <3>5, <3>6 DEF LineInv
  <2>10. CASE ~got.failed /\ got.read # <<"ack">>
    <3>1. host' = check /\ faults' # 0
      BY <2>4, <2>7, <2>10
    <3>2. LineTyped' /\ (noisy' => faults' > 0)
      BY <1>1, <2>3, <2>6, <3>1, HeardTyped
    <3>3. rx' \in {<<>>, <<"ack">>, <<"challenge">>}
      <4>1. r.answer \in {<<>>} \cup {<<x>> : x \in Answers} /\ rx' \in {<<>>, r.answer}
        BY <2>6 DEF Heard, Says
      <4>2. ASSUME NEW x \in Answers, r.answer = <<x>> PROVE x \in {"ack", "challenge"}
        <5>1. Said(r.answer, x)
          BY <4>2, SaidOne
        <5> QED BY <2>2, <2>6, <5>1 DEF Heard, Says, Said, Answers
      <4> QED BY <4>1, <4>2
    <3>4. Late' /\ Kept' /\ Quiet' /\ Entering'
      BY <2>3, <3>1, <3>2, <3>3 DEF Late, Kept, Quiet, Entering, ChunkSteps, Over
    <3> QED BY <3>2, <3>4 DEF LineInv
  <2> QED BY <2>8, <2>9, <2>10
<1> QED BY <1>3, <1>4

LEMMA ResetKeeps == ASSUME LineInv, Reset PROVE LineInv'
<1> DEFINE word == Word("reset", 0)
           next == To("done")
<1>1. host.at = "reset" /\ found' = found
  BY DEF Reset
<1>2. /\ LineTyped /\ host \in HostRecord /\ rx = <<>>
      /\ faults = 0 => Waits("command")
  BY <1>1, LineAt DEF Steps, Over, AtCommand
<1>3. PICK got \in Exchange(word) : Exchanged(got, next)
  BY DEF Reset
<1>4. word.kind = "reset" /\ WordOk(word) /\ next \in HostRecord /\ next.at = "done"
  BY <1>2, Goes DEF Word, WordOk, To, Steps
<1>5. (~noisy => \A p \in Partitions : stored[p] = "sent") /\ (noisy => faults > 0)
  BY <1>1 DEF LineInv, Kept
<1> HIDE DEF word, next, LineInv
<1>6. /\ \E noise \in BOOLEAN : \E r : Heard(word, got, noise, r)
      /\ got.failed => host' = Failed
      /\ ~got.failed => host' = next
  BY <1>3, <1>4, HeardIs
<1>7. PICK noise \in BOOLEAN : \E r : Heard(word, got, noise, r)
  BY <1>6
<1>8. PICK r : Heard(word, got, noise, r)
  BY <1>7
<1>9. faults' = 0 => chip' = Restarted(chip, stored) /\ ~got.failed
  <2>1. faults' = 0 => r.chip = Restarted(chip, stored) /\ ~r.failed
    BY <1>2, <1>4, <1>8, RomAnswers DEF Heard
  <2> QED BY <1>8, <2>1 DEF Heard, Came
<1>10. CASE got.failed
  BY <1>1, <1>2, <1>4, <1>6, <1>8, <1>9, <1>10, HeardFails
<1>11. CASE ~got.failed
  <2>1. host' = next /\ stored' = stored /\ noisy' = noisy
    BY <1>4, <1>6, <1>8, <1>11 DEF Heard, Did
  <2>2. LineTyped' /\ (noisy' => faults' > 0) /\ (faults' = 0 => rx' = <<>>)
    BY <1>1, <1>4, <1>8, <2>1, HeardTyped
  <2>3. Late' /\ Kept' /\ Entering'
    BY <1>4, <1>5, <2>1, <2>2 DEF Late, Kept, Entering, ChunkSteps, Over
  <2>4. faults' = 0 => chip'.mode = "application"
    <3>1. faults' = 0 => ~noisy
      BY <2>1, <2>2
    <3>2. faults' = 0 => stored[1] = "sent"
      BY <1>5, <3>1, BaudFacts
    <3>3. faults' = 0 => chip' = [chip EXCEPT !.mode = "application"]
      BY <1>9, <3>2 DEF Restarted, HeaderValid
    <3> QED BY <1>2, <3>3 DEF LineTyped, ChipOk, ChipRecord
  <2>5. Quiet'
    BY <1>4, <2>1, <2>4 DEF Quiet, AtCommand
  <2> QED BY <2>2, <2>3, <2>5 DEF LineInv
<1> QED BY <1>10, <1>11

LEMMA ProbeKeeps == ASSUME LineInv, Probe PROVE LineInv'
<1> DEFINE word == Word("rdrev", 0)
           attach == To("attach")
           wake == To("wake")
<1>1. host.at = "probe" /\ found' = found
  BY DEF Probe
<1>2. LineTyped /\ host \in HostRecord /\ host.part = 1 /\ rx = <<>>
  BY <1>1, LineAt DEF Steps, Over, ChunkSteps
<1>3. PICK got \in Exchange(word) : Exchanged(got, IF got.read = <<"revision">> THEN attach ELSE wake)
  BY DEF Probe
<1>4. /\ word.kind = "rdrev" /\ WordOk(word)
      /\ attach \in HostRecord /\ attach.at = "attach" /\ attach.part = 1 /\ attach.baud = host.baud
      /\ wake \in HostRecord /\ wake.at = "wake" /\ wake.part = 1 /\ wake.boot = host.boot
  BY <1>2, Goes DEF Word, WordOk, To, Steps
<1>5. faults = 0 /\ Enters => chip = found /\ host.baud = DefaultBaud
  BY <1>1 DEF LineInv, Entering
<1> HIDE DEF word, attach, wake, LineInv
<1>6. /\ \E noise \in BOOLEAN : \E r : Heard(word, got, noise, r)
      /\ got.failed => host' = Failed
      /\ ~got.failed => host' = IF got.read = <<"revision">> THEN attach ELSE wake
  BY <1>3, <1>4, HeardIs
<1>7. PICK noise \in BOOLEAN : \E r : Heard(word, got, noise, r)
  BY <1>6
<1>8. PICK r : Heard(word, got, noise, r)
  BY <1>7
<1>9. faults' = 0 /\ Enters => /\ ~got.failed
                               /\ got.read # <<"revision">> => chip' = found /\ found.mode # "command"
  <2> SUFFICES ASSUME faults' = 0, Enters
               PROVE  /\ ~got.failed
                      /\ got.read # <<"revision">> => chip' = found /\ found.mode # "command"
    OBVIOUS
  <2>1. /\ faults = 0 /\ got.read = r.answer /\ r \in Reactions(word, FALSE)
        /\ got.failed = r.failed /\ chip' = r.chip
    BY <1>8 DEF Heard, Came
  <2>2. chip = found /\ host.baud = DefaultBaud /\ Lets(chip) /\ (chip.mode = "sync" => chip.baud = StartBaud)
    BY <1>2, <1>5, <2>1 DEF Enters, LineTyped, ChipOk
  <2>3. CASE chip.mode = "command"
    <3>1. Waits("command")
      BY <2>2, <2>3 DEF Lets, Waits
    <3> QED BY <1>4, <2>1, <3>1, RomAnswers
  <2>4. CASE chip.mode \in {"sync", "application"}
    <3>1. r = Ignored
      BY <1>2, <1>4, <2>1, <2>4, OtherAnswers
    <3> QED BY <2>1, <2>2, <2>4, <3>1 DEF Ignored, Reaction
  <2> QED BY <2>2, <2>3, <2>4 DEF Lets
<1>10. CASE got.failed
  BY <1>1, <1>2, <1>4, <1>6, <1>8, <1>9, <1>10, HeardFails
<1>11. CASE ~got.failed /\ got.read = <<"revision">>
  <2>1. r.answer = <<"revision">> /\ rx' = <<>>
    <3>1. "revision" \in Answers /\ Apart("revision") /\ Came(word, got, noise, r)
      BY <1>2, <1>8 DEF Answers, Apart, Heard
    <3>2. LineTyped /\ WordOk(word) /\ got.read = <<"revision">>
      BY <1>2, <1>4, <1>11
    <3>3. r.answer = <<"revision">> /\ Clear(word, got, noise, r)
      BY <3>1, <3>2, ReadIs
    <3> QED BY <1>8, <3>3 DEF Clear, Heard
  <2>2. chip' = chip /\ Waits("command")
    BY <1>8, <2>1 DEF Heard, Did
  <2>3. host' = attach
    BY <1>6, <1>11
  <2>4. LineTyped' /\ (noisy' => faults' > 0)
    BY <1>1, <1>4, <1>8, <2>3, HeardTyped
  <2>5. Late' /\ Kept' /\ Quiet' /\ Entering'
    BY <1>4, <2>1, <2>2, <2>3, <2>4 DEF Late, Kept, Quiet, Entering, ChunkSteps, Over, Waits, AtCommand
  <2> QED BY <2>4, <2>5 DEF LineInv
<1>12. CASE ~got.failed /\ got.read # <<"revision">>
  <2>1. host' = wake
    BY <1>6, <1>12
  <2>2. LineTyped' /\ (noisy' => faults' > 0) /\ (faults' = 0 => rx' = <<>>)
    BY <1>1, <1>4, <1>8, <2>1, HeardTyped
  <2>3. Late' /\ Kept' /\ Quiet'
    BY <1>4, <2>1, <2>2 DEF Late, Kept, Quiet, ChunkSteps, Over, AtCommand
  <2>4. Enters' => Enters
    BY <1>1, <1>4, <2>1 DEF Enters, Lets
  <2>5. Entering'
    BY <1>1, <1>4, <1>9, <1>12, <2>1, <2>4 DEF Entering
  <2> QED BY <2>2, <2>3, <2>5 DEF LineInv
<1> QED BY <1>10, <1>11, <1>12

LEMMA WakeKeeps == ASSUME LineInv, Wake PROVE LineInv'
<1> DEFINE word == Word("token", 0)
           next == [host EXCEPT !.at = "sync", !.baud = StartBaud, !.attempts = @ - 1, !.tries = Tries]
<1>1. host.at = "wake" /\ found' = found /\ host.attempts > 0 /\ host.baud = AppBaud
  BY DEF Wake
<1>2. LineTyped /\ host \in HostRecord /\ host.part = 1
  BY <1>1, LineAt DEF Steps, Over, ChunkSteps
<1>3. PICK got \in Exchange(word) : Exchanged(got, next)
  BY DEF Wake
<1>4. /\ word.kind = "token" /\ WordOk(word)
      /\ next \in HostRecord /\ next.at = "sync" /\ next.part = 1 /\ next.boot = host.boot
      /\ next.baud = StartBaud /\ next.tries > 0
  <2>1. host.attempts - 1 \in Nat /\ Tries \in Nat /\ StartBaud \in Nat /\ Tries > 0
    BY <1>1, <1>2, BaudFacts DEF HostRecord
  <2>2. next \in HostRecord
    BY <1>2, <2>1 DEF HostRecord, Steps
  <2>3. next.at = "sync" /\ next.part = 1 /\ next.boot = host.boot /\ next.baud = StartBaud /\ next.tries = Tries
    BY <1>2 DEF HostRecord
  <2>4. word.kind = "token" /\ WordOk(word)
    BY DEF Word, WordOk
  <2> QED BY <2>1, <2>2, <2>3, <2>4
<1>5. faults = 0 /\ Enters => chip = found /\ chip.mode # "command"
  BY <1>1 DEF LineInv, Entering
<1> HIDE DEF word, next, LineInv
<1>6. /\ \E noise \in BOOLEAN : \E r : Heard(word, got, noise, r)
      /\ got.failed => host' = Failed
      /\ ~got.failed => host' = next
  BY <1>3, <1>4, HeardIs
<1>7. PICK noise \in BOOLEAN : \E r : Heard(word, got, noise, r)
  BY <1>6
<1>8. PICK r : Heard(word, got, noise, r)
  BY <1>7
<1>9. faults' = 0 /\ Enters => ~got.failed /\ chip'.mode = "sync" /\ chip'.baud = StartBaud
  <2> SUFFICES ASSUME faults' = 0, Enters
               PROVE  ~got.failed /\ chip'.mode = "sync" /\ chip'.baud = StartBaud
    OBVIOUS
  <2>1. /\ faults = 0 /\ r \in Reactions(word, FALSE)
        /\ got.failed = r.failed /\ chip' = r.chip
    BY <1>8 DEF Heard, Came
  <2>2. chip = found /\ chip.mode # "command" /\ Lets(chip) /\ (chip.mode = "sync" => chip.baud = StartBaud)
    BY <1>2, <1>5, <2>1 DEF Enters, LineTyped, ChipOk
  <2>3. CASE chip.mode = "sync"
    <3>1. r = Ignored
      BY <1>2, <1>4, <2>1, <2>3, OtherAnswers
    <3> QED BY <2>1, <2>2, <2>3, <3>1 DEF Ignored, Reaction
  <2>4. CASE chip.mode = "application" /\ chip.listens
    <3>1. r.chip = [chip EXCEPT !.mode = "sync", !.baud = StartBaud] /\ ~r.failed
      BY <1>1, <1>2, <1>4, <2>1, <2>4, OtherAnswers
    <3> QED BY <1>2, <2>1, <3>1 DEF LineTyped, ChipOk, ChipRecord
  <2> QED BY <2>2, <2>3, <2>4 DEF Lets
<1>10. CASE got.failed
  BY <1>1, <1>2, <1>4, <1>6, <1>8, <1>9, <1>10, HeardFails
<1>11. CASE ~got.failed
  <2>1. host' = next
    BY <1>6, <1>11
  <2>2. LineTyped' /\ (noisy' => faults' > 0) /\ (faults' = 0 => rx' = <<>>)
    BY <1>1, <1>4, <1>8, <2>1, HeardTyped
  <2>3. Late' /\ Kept' /\ Quiet'
    BY <1>4, <2>1, <2>2 DEF Late, Kept, Quiet, ChunkSteps, Over, AtCommand
  <2>4. Enters' => Enters
    BY <1>1, <1>4, <2>1 DEF Enters, Lets
  <2>5. Entering'
    BY <1>4, <1>9, <2>1, <2>4 DEF Entering, Waits
  <2> QED BY <2>2, <2>3, <2>5 DEF LineInv
<1> QED BY <1>10, <1>11

LEMMA SyncKeeps == ASSUME LineInv, Sync PROVE LineInv'
<1> DEFINE word == Word("UXTDWU", 0)
           attach == [host EXCEPT !.at = "attach", !.baud = DefaultBaud]
           again == [host EXCEPT !.tries = @ - 1]
<1>1. host.at = "sync" /\ found' = found /\ host.tries > 0
  BY DEF Sync
<1>2. LineTyped /\ host \in HostRecord /\ host.part = 1
  BY <1>1, LineAt DEF Steps, Over, ChunkSteps
<1>3. PICK got \in Exchange(word) : Exchanged(got, IF got.read = <<"cmd">> THEN attach ELSE again)
  BY DEF Sync
<1>4. /\ word.kind = "UXTDWU" /\ WordOk(word)
      /\ attach \in HostRecord /\ attach.at = "attach" /\ attach.part = 1 /\ attach.baud = DefaultBaud
      /\ again \in HostRecord /\ again.at = "sync" /\ again.part = 1 /\ again.boot = host.boot
  <2>1. host.tries - 1 \in Nat /\ DefaultBaud \in Nat
    BY <1>1, <1>2, BaudFacts DEF HostRecord
  <2>2. attach \in HostRecord /\ attach.at = "attach" /\ attach.part = 1 /\ attach.baud = DefaultBaud
    BY <1>2, <2>1 DEF HostRecord, Steps
  <2>3. again \in HostRecord /\ again.at = "sync" /\ again.part = 1 /\ again.boot = host.boot
    BY <1>1, <1>2, <2>1 DEF HostRecord
  <2>4. word.kind = "UXTDWU" /\ WordOk(word)
    BY DEF Word, WordOk
  <2> QED BY <2>2, <2>3, <2>4
<1>5. faults = 0 /\ Enters => Waits("sync")
  BY <1>1 DEF LineInv, Entering
<1> HIDE DEF word, attach, again, LineInv
<1>6. /\ \E noise \in BOOLEAN : \E r : Heard(word, got, noise, r)
      /\ got.failed => host' = Failed
      /\ ~got.failed => host' = IF got.read = <<"cmd">> THEN attach ELSE again
  BY <1>3, <1>4, HeardIs
<1>7. PICK noise \in BOOLEAN : \E r : Heard(word, got, noise, r)
  BY <1>6
<1>8. PICK r : Heard(word, got, noise, r)
  BY <1>7
<1>9. faults' = 0 /\ Enters => ~got.failed /\ got.read = <<"cmd">>
  <2>1. faults' = 0 => /\ faults = 0 /\ r \in Reactions(word, FALSE) /\ got.read = r.answer
                       /\ got.failed = r.failed
    BY <1>8 DEF Heard, Came
  <2> QED BY <1>2, <1>4, <1>5, <2>1, OtherAnswers
<1>10. CASE got.failed
  BY <1>1, <1>2, <1>4, <1>6, <1>8, <1>9, <1>10, HeardFails
<1>11. CASE ~got.failed /\ got.read = <<"cmd">>
  <2>1. host' = attach
    BY <1>6, <1>11
  <2>2. LineTyped' /\ (noisy' => faults' > 0) /\ (faults' = 0 => rx' = <<>>)
    BY <1>1, <1>4, <1>8, <2>1, HeardTyped
  <2>3. rx' \in {<<>>, <<"cmd">>, <<"challenge">>}
    <3>1. r.answer \in {<<>>} \cup {<<x>> : x \in Answers} /\ rx' \in {<<>>, r.answer}
      BY <1>8 DEF Heard, Says
    <3>2. ASSUME NEW x \in Answers, r.answer = <<x>> PROVE x \in {"cmd", "challenge"}
      <4>1. Said(r.answer, x)
        BY <3>2, SaidOne
      <4> QED BY <1>4, <1>8, <4>1 DEF Heard, Says, Said, Answers
    <3> QED BY <3>1, <3>2
  <2>4. faults' = 0 => chip'.mode = "command" /\ chip'.baud = DefaultBaud
    <3>1. faults' = 0 => r.answer = <<"cmd">>
      BY <1>8, <1>11 DEF Heard
    <3> QED BY <1>8, <3>1 DEF Heard, Did
  <2>5. Late' /\ Kept' /\ Quiet' /\ Entering'
    BY <1>4, <2>1, <2>2, <2>3, <2>4 DEF Late, Kept, Quiet, Entering, ChunkSteps, Over, Waits, AtCommand
  <2> QED BY <2>2, <2>5 DEF LineInv
<1>12. CASE ~got.failed /\ got.read # <<"cmd">>
  <2>1. host' = again
    BY <1>6, <1>12
  <2>2. LineTyped' /\ (noisy' => faults' > 0) /\ (faults' = 0 => rx' = <<>>)
    BY <1>1, <1>4, <1>8, <2>1, HeardTyped
  <2>3. Late' /\ Kept' /\ Quiet'
    BY <1>4, <2>1, <2>2 DEF Late, Kept, Quiet, ChunkSteps, Over, AtCommand
  <2>4. Enters' => Enters
    BY <1>1, <1>4, <2>1 DEF Enters, Lets
  <2>5. Entering'
    BY <1>9, <1>12, <2>4 DEF Entering
  <2> QED BY <2>2, <2>3, <2>5 DEF LineInv
<1> QED BY <1>10, <1>11, <1>12

\* The steps of the tool that send nothing.
LEMMA WakeBaudKeeps == ASSUME LineInv, WakeBaud PROVE LineInv'
<1> DEFINE next == [host EXCEPT !.baud = AppBaud]
<1>1. host.at = "wake" /\ host' = next /\ rx' = <<>> /\ UNCHANGED <<chip, stored, faults, noisy, found>>
  BY DEF WakeBaud
<1>2. LineTyped /\ host \in HostRecord /\ host.part = 1
  BY <1>1, LineAt DEF Steps, Over, ChunkSteps
<1>3. next \in HostRecord /\ next.at = "wake" /\ next.part = 1 /\ next.boot = host.boot
  BY <1>1, <1>2, BaudFacts DEF HostRecord, Steps
<1> HIDE DEF next
<1>4. LineTyped'
  BY <1>1, <1>2, <1>3 DEF LineTyped, ChipOk
<1>5. Late' /\ Kept' /\ Quiet'
  BY <1>1, <1>3 DEF LineInv, Late, Kept, Quiet, ChunkSteps, Over, AtCommand
<1>6. Enters' => Enters
  BY <1>1, <1>3 DEF Enters, Lets
<1>7. Entering'
  BY <1>1, <1>3, <1>6 DEF LineInv, Entering
<1> QED BY <1>4, <1>5, <1>7 DEF LineInv

LEMMA SyncFailsKeeps == ASSUME LineInv, SyncFails PROVE LineInv'
<1>1. host.at = "sync" /\ host.tries = 0 /\ UNCHANGED <<chip, stored, rx, faults, noisy, found>>
  BY DEF SyncFails
<1>2. LineTyped /\ host \in HostRecord /\ host.part = 1
  BY <1>1, LineAt DEF Steps, Over, ChunkSteps
<1>3. PICK next \in HostRecord : /\ host' = next /\ next.at \in {"wake", "failed"}
                                 /\ next.part = 1 /\ next.boot = host.boot
  BY <1>2, Goes DEF SyncFails, To, Failed, Steps
<1>4. ~(faults = 0 /\ Enters)
  BY <1>1 DEF LineInv, Entering
<1>5. LineTyped'
  BY <1>1, <1>2, <1>3 DEF LineTyped, ChipOk
<1>6. Late' /\ Kept' /\ Quiet'
  BY <1>1, <1>3 DEF LineInv, Late, Kept, Quiet, ChunkSteps, Over, AtCommand
<1>7. Enters' => Enters
  BY <1>1, <1>3 DEF Enters, Lets
<1>8. Entering'
  BY <1>1, <1>4, <1>7 DEF Entering
<1> QED BY <1>5, <1>6, <1>8 DEF LineInv

LEMMA EraseTimesOutKeeps == ASSUME LineInv, EraseTimesOut PROVE LineInv'
<1>1. host.at = "status" /\ host.polls = 0 /\ host' = Failed /\ UNCHANGED <<chip, stored, rx, faults, noisy, found>>
  BY DEF EraseTimesOut
<1>2. LineTyped /\ host \in HostRecord /\ rx = <<>>
  BY <1>1, LineAt DEF Steps, Over, AtCommand
<1>3. Failed \in HostRecord /\ Failed.at = "failed" /\ Failed.polls = 0
  BY <1>1, <1>2, Goes DEF Failed, Steps
<1> HIDE DEF Failed
<1>4. LineTyped'
  BY <1>1, <1>2, <1>3 DEF LineTyped, ChipOk
<1>5. Late' /\ Kept' /\ Quiet' /\ Entering'
  BY <1>1, <1>2, <1>3 DEF LineInv, Late, Kept, Quiet, Entering, ChunkSteps, Over, AtCommand
<1> QED BY <1>4, <1>5 DEF LineInv

LEMMA StartKeeps ==
  ASSUME LineInv, NEW boot \in {"handoff", "manual"}, NEW run \in RunBauds, NEW chipErase \in BOOLEAN,
         NEW resetAfter \in BOOLEAN, StartSession(boot, run, chipErase, resetAfter)
  PROVE  LineInv'
<1>1. /\ host' = [at |-> IF boot = "handoff" THEN "probe" ELSE "sync",
                  baud |-> IF boot = "handoff" THEN DefaultBaud ELSE StartBaud,
                  boot |-> boot, run |-> run, chipErase |-> chipErase, resetAfter |-> resetAfter,
                  attempts |-> IF boot = "handoff" THEN Attempts ELSE 1,
                  tries |-> Tries, polls |-> Polls, part |-> 1]
      /\ rx' = <<>> /\ faults' = 0 /\ noisy' = FALSE /\ found' = chip /\ chip' = chip /\ stored' = stored
  BY DEF StartSession
<1>2. /\ host' \in HostRecord /\ host'.part = 1 /\ host'.boot = boot
      /\ boot = "handoff" => host'.at = "probe" /\ host'.baud = DefaultBaud
      /\ boot = "manual" => host'.at = "sync"
  BY <1>1, BaudFacts DEF HostRecord, Steps
<1>3. LineTyped'
  BY <1>1, <1>2 DEF LineInv, LineTyped, ChipOk
<1>4. Late' /\ Kept' /\ Quiet'
  BY <1>1, <1>2 DEF Late, Kept, Quiet, ChunkSteps, Over, AtCommand
<1>5. Entering'
  BY <1>1, <1>2 DEF Entering, Enters
<1> QED BY <1>3, <1>4, <1>5 DEF LineInv

LEMMA AbortKeeps == ASSUME LineInv, Abort PROVE LineInv'
<1>1. host'.at = "none" /\ UNCHANGED <<chip, stored, rx, faults, noisy, found>>
  BY DEF Abort
<1>2. LineTyped'
  BY <1>1 DEF LineInv, LineTyped, ChipOk
<1>3. Late' /\ Kept' /\ Quiet' /\ Entering'
  BY <1>1 DEF LineInv, Late, Kept, Quiet, Entering, Enters, ChunkSteps, Over, AtCommand
<1> QED BY <1>2, <1>3 DEF LineInv

LEMMA CutPowerKeeps == ASSUME LineInv, CutPower PROVE LineInv'
<1>1. /\ faults' = faults + 1 /\ rx' = <<>> /\ UNCHANGED <<stored, host, noisy, found>>
      /\ \/ chip' = [Restarted(chip, stored) EXCEPT !.garbled = FALSE]
         \/ chip' = [chip EXCEPT !.mode = "sync", !.baud = StartBaud, !.garbled = FALSE]
  BY DEF CutPower, Fault
<1>2. ChipOk(chip)' /\ chip'.mode # "checksum"
  <2>1. ChipOk(chip)
    BY DEF LineInv, LineTyped
  <2>2. CASE chip' = [Restarted(chip, stored) EXCEPT !.garbled = FALSE]
    <3>1. PICK c : c = Restarted(chip, stored)
      OBVIOUS
    <3>2. ChipOk(c) /\ c.mode \in {"application", "sync"}
      BY <2>1, <3>1, RestartedOk DEF Restarted, ChipOk, ChipRecord
    <3> QED BY <2>2, <3>1, <3>2 DEF ChipOk, ChipRecord
  <2>3. CASE chip' = [chip EXCEPT !.mode = "sync", !.baud = StartBaud, !.garbled = FALSE]
    BY <2>1, <2>3, BaudFacts DEF ChipOk, ChipRecord, Modes
  <2> QED BY <1>1, <2>2, <2>3
<1>3. faults' \in Nat /\ faults' > 0
  BY <1>1 DEF LineInv, LineTyped
<1>4. LineTyped'
  BY <1>1, <1>2, <1>3 DEF LineInv, LineTyped, ChipOk
<1>5. Late' /\ Kept'
  BY <1>1, <1>2, <1>3 DEF LineInv, Late, Kept
<1>6. Quiet' /\ Entering'
  BY <1>3 DEF Quiet, Entering
<1> QED BY <1>4, <1>5, <1>6 DEF LineInv

LEMMA LineInitially == LineInit => LineInv
<1> SUFFICES ASSUME LineInit PROVE LineInv
  OBVIOUS
<1>1. LineTyped
  <2>1. ChipOk(chip) /\ found = chip
    BY BaudFacts DEF LineInit, ChipOk, ChipRecord, Modes
  <2>2. stored \in Nors
    BY DEF LineInit, Nors
  <2>3. host.at = "none" /\ faults \in Nat /\ noisy \in BOOLEAN
    BY DEF LineInit
  <2> QED BY <2>1, <2>2, <2>3 DEF LineTyped
<1>2. Late /\ Kept /\ Quiet /\ Entering
  BY DEF LineInit, Late, Kept, Quiet, Entering, Enters, ChunkSteps, Over, AtCommand
<1> QED BY <1>1, <1>2 DEF LineInv

LEMMA LineStep == LineInv /\ [LineNext]_lineVars => LineInv'
<1> SUFFICES ASSUME LineInv, [LineNext]_lineVars PROVE LineInv'
  OBVIOUS
<1>1. CASE UNCHANGED lineVars
  BY <1>1 DEF lineVars, LineInv, LineTyped, ChipOk, Late, Kept, Quiet, Entering, Enters, Waits, Lets
<1>2. ASSUME NEW boot \in {"handoff", "manual"}, NEW run \in RunBauds, NEW chipErase \in BOOLEAN,
             NEW resetAfter \in BOOLEAN, StartSession(boot, run, chipErase, resetAfter)
      PROVE  LineInv'
  BY <1>2, StartKeeps
<1> HIDE DEF LineInv
<1>3. CASE Probe \/ WakeBaud \/ Wake \/ Sync \/ SyncFails
  BY <1>3, ProbeKeeps, WakeBaudKeeps, WakeKeeps, SyncKeeps, SyncFailsKeeps
<1>4. CASE Attach \/ Unlock \/ SetBaud \/ CheckBaud
  BY <1>4, AttachKeeps, UnlockKeeps, SetBaudKeeps, CheckBaudKeeps
<1>5. CASE EraseAll \/ EraseStatus \/ EraseTimesOut \/ InitSpifs
  BY <1>5, EraseAllKeeps, EraseStatusKeeps, EraseTimesOutKeeps, InitSpifsKeeps
<1>6. CASE ErasePart \/ OfferChunk \/ SendPayload \/ EchoChecksum \/ Reset
  BY <1>6, ErasePartKeeps, OfferChunkKeeps, SendPayloadKeeps, EchoChecksumKeeps, ResetKeeps
<1>7. CASE Abort \/ CutPower
  BY <1>7, AbortKeeps, CutPowerKeeps
<1> QED BY <1>1, <1>2, <1>3, <1>4, <1>5, <1>6, <1>7 DEF LineNext

LEMMA LineAlways == LineSpec => []LineInv
BY LineInitially, LineStep, PTL DEF LineSpec

\* A session that reports success has stored every part, whatever the line lost
\* or delayed and wherever earlier sessions broke off, unless a payload was
\* changed on the line; and on a quiet line it has started the application
\* (Flasher::flash, send_chunk).
THEOREM ReportedTheorem == LineSpec => []ReportedIsStored
<1>1. LineInv => ReportedIsStored
  BY DEF LineInv, Kept, Quiet, ReportedIsStored
<1> QED BY <1>1, LineAlways, PTL

\* On a quiet line a session through the application fails only for the reasons
\* that the property names, for every number of attempts and whatever earlier
\* sessions have left behind (enter_via_application).
THEOREM EntryTheorem == LineSpec => []EntryRecovers
<1>1. LineInv => EntryRecovers
  <2> SUFFICES ASSUME LineInv, host.at = "failed", host.boot = "handoff", faults = 0, host.polls > 0,
                      ~(found.mode = "application" /\ ~found.listens),
                      ~(found.mode = "command" /\ found.baud # DefaultBaud),
                      found.mode \notin {"data", "checksum"}
               PROVE  FALSE
    BY DEF EntryRecovers
  <2>1. ~Lets(found)
    BY DEF LineInv, Entering, Enters
  <2> QED BY <2>1 DEF LineInv, LineTyped, ChipOk, ChipRecord, Modes, Lets
<1> QED BY <1>1, LineAlways, PTL

-----------------------------------------------------------------------------
(* The layout of an image: parts with addresses and lengths. *)

LEMMA GeometryFacts ==
  /\ Sector \in Nat \ {0} /\ BigSectors \in Nat \ {0} /\ Align \in Nat \ {0}
  /\ HeaderLen \in Nat \ {0} /\ HeaderOff \in Nat /\ StoreOff \in Nat /\ MaxFlash \in Nat
  /\ NorSize \in Nat
  /\ Chunk = 2 * Sector /\ Chunk \in Nat \ {0} /\ Big = BigSectors * Sector /\ Big \in Nat \ {0}
<1>1. /\ Sector \in Nat \ {0} /\ BigSectors \in Nat \ {0} /\ Align \in Nat \ {0}
      /\ HeaderLen \in Nat \ {0} /\ HeaderOff \in Nat /\ StoreOff \in Nat /\ MaxFlash \in Nat
      /\ NorSize \in Nat
  BY GeometryAssumption
<1>2. Chunk = 2 * Sector /\ Chunk \in Nat \ {0}
  BY <1>1 DEF Chunk
<1>3. Big = BigSectors * Sector /\ Big \in Nat \ {0}
  BY <1>1 DEF Big
<1> QED BY <1>1, <1>2, <1>3

\* Sums of numbers are numbers.
LEMMA TotalType ==
  ASSUME NEW q \in Seq(Nat)
  PROVE  Total(q) \in Nat
<1> DEFINE step(f) == [k \in 0 .. Len(q) |-> IF k = 0 THEN 0 ELSE f[k - 1] + q[k]]
           upTo(f, n) == /\ f \in [0 .. n -> Nat] /\ f[0] = 0
                         /\ \A k \in 1 .. n : f[k] = f[k - 1] + q[k]
           done == {n \in Nat : n <= Len(q) => \E f : upTo(f, n)}
           own == CHOOSE f : f = step(f)
<1>1. Total(q) = own[Len(q)] /\ Len(q) \in Nat
  BY DEF Total
<1>2. 0 \in done
  <2>1. upTo([k \in 0 .. 0 |-> 0], 0)
    OBVIOUS
  <2> QED BY <2>1
<1>3. ASSUME NEW n \in 0 .. Len(q) - 1, n \in done PROVE n + 1 \in done
  <2>1. n \in Nat /\ n <= Len(q) /\ n + 1 \in 1 .. Len(q)
    OBVIOUS
  <2>2. PICK f : upTo(f, n)
    <3> HIDE DEF upTo
    <3> QED BY <1>3, <2>1
  <2> DEFINE g == [k \in 0 .. n + 1 |-> IF k <= n THEN f[k] ELSE f[n] + q[n + 1]]
  <2>3. f[n] \in Nat /\ q[n + 1] \in Nat
    BY <2>1, <2>2
  <2>4. /\ g \in [0 .. n + 1 -> Nat] /\ g[n + 1] = f[n] + q[n + 1]
        /\ \A k \in 0 .. n : g[k] = f[k]
    BY <2>1, <2>2, <2>3
  <2> HIDE DEF g
  <2>5. ASSUME NEW k \in 1 .. n + 1 PROVE g[k] = g[k - 1] + q[k]
    <3>1. CASE k = n + 1
      BY <2>1, <2>4, <3>1
    <3>2. CASE k \in 1 .. n
      BY <2>1, <2>2, <2>4, <3>2
    <3> QED BY <2>1, <3>1, <3>2
  <2>6. upTo(g, n + 1)
    BY <2>1, <2>2, <2>4, <2>5
  <2> HIDE DEF upTo
  <2> QED BY <2>1, <2>6
<1>4. PICK f : upTo(f, Len(q))
  <2>1. 0 .. Len(q) \subseteq done
    <3> HIDE DEF done
    <3> QED BY <1>1, <1>2, <1>3, InductionOverSet
  <2>2. Len(q) \in done
    <3> HIDE DEF done
    <3> QED BY <2>1
  <2> HIDE DEF upTo
  <2> QED BY <2>2
<1>5. f = step(f)
  <2>1. \A k \in 0 .. Len(q) : f[k] = step(f)[k]
    BY <1>4
  <2> QED BY <1>4, <2>1
<1>6. own = step(own)
  <2> HIDE DEF step
  <2> QED BY <1>5
<1> HIDE DEF own
<1> DEFINE reached == {k \in Nat : k <= Len(q) => own[k] \in Nat}
<1>7. 0 \in reached /\ \A k \in 0 .. Len(q) - 1 : k \in reached => k + 1 \in reached
  <2>1. own[0] = 0
    BY <1>6
  <2>2. \A k \in 1 .. Len(q) : own[k] = own[k - 1] + q[k]
    BY <1>6
  <2>3. ASSUME NEW k \in 0 .. Len(q) - 1, k \in reached PROVE k + 1 \in reached
    <3>1. k + 1 \in 1 .. Len(q) /\ (k + 1) - 1 = k
      BY <1>1
    <3>2. own[k + 1] = own[k] + q[k + 1]
      BY <2>2, <3>1
    <3> QED BY <2>3, <3>1, <3>2
  <2> QED BY <2>1, <2>3
<1>8. 0 .. Len(q) \subseteq reached
  <2> HIDE DEF reached
  <2> QED BY <1>1, <1>7, InductionOverSet
<1> QED BY <1>1, <1>8

\* The largest of finitely many numbers is one of them.
LEMMA LargestType ==
  ASSUME NEW n \in Nat, NEW f \in [1 .. n -> Nat], NEW I \in SUBSET (1 .. n)
  PROVE  /\ Max({0} \cup {f[k] : k \in I}) \in Nat
         /\ \A i \in I : f[i] <= Max({0} \cup {f[k] : k \in I})
<1> DEFINE first(m) == {0} \cup {f[k] : k \in I \cap (1 .. m)}
           reached == {m \in Nat : m <= n => \E x \in first(m) : \A y \in first(m) : x >= y}
<1>1. \A m \in Nat : first(m) \subseteq Nat
  OBVIOUS
<1>2. 0 \in reached
  <2>1. first(0) = {0}
    OBVIOUS
  <2> QED BY <2>1
<1>3. ASSUME NEW m \in 0 .. n - 1, m \in reached PROVE m + 1 \in reached
  <2>1. PICK x \in first(m) : \A y \in first(m) : x >= y
    BY <1>3
  <2>2. first(m + 1) \subseteq first(m) \cup {f[m + 1]} /\ first(m) \subseteq first(m + 1)
        /\ (m + 1 \in I => f[m + 1] \in first(m + 1))
        /\ (m + 1 \notin I => first(m + 1) \subseteq first(m))
    OBVIOUS
  <2>3. x \in Nat /\ f[m + 1] \in Nat /\ m + 1 \in Nat /\ m \in Nat
    BY <1>1, <2>1
  <2> HIDE DEF first
  <2>4. CASE m + 1 \in I /\ f[m + 1] > x
    <3>1. \A y \in first(m + 1) : f[m + 1] >= y
      BY <1>1, <2>1, <2>2, <2>3, <2>4
    <3> QED BY <2>2, <2>3, <2>4, <3>1
  <2>5. CASE ~(m + 1 \in I /\ f[m + 1] > x)
    <3>1. \A y \in first(m + 1) : x >= y
      BY <1>1, <2>1, <2>2, <2>3, <2>5
    <3> QED BY <2>1, <2>2, <2>3, <3>1
  <2> QED BY <2>4, <2>5
<1>4. 0 .. n \subseteq reached
  <2> HIDE DEF reached
  <2> QED BY <1>2, <1>3, InductionOverSet
<1>5. \E x \in first(n) : \A y \in first(n) : x >= y
  <2> HIDE DEF first
  <2> QED BY <1>4
<1>6. first(n) = {0} \cup {f[k] : k \in I} /\ \A i \in I : f[i] \in first(n)
  OBVIOUS
<1>7. Max(first(n)) \in first(n) /\ \A y \in first(n) : Max(first(n)) >= y
  <2> HIDE DEF first
  <2> QED BY <1>5 DEF Max
<1>8. Max(first(n)) \in Nat /\ \A i \in I : f[i] <= Max(first(n))
  <2>1. first(n) \subseteq Nat
    BY <1>1
  <2> HIDE DEF first
  <2> QED BY <1>6, <1>7, <2>1
<1> HIDE DEF first
<1> QED BY <1>6, <1>8

LEMMA AlignUpType == ASSUME NEW n \in Nat PROVE AlignUp(n) \in Nat
<1>1. (n + Align - 1) \div Align \in Nat
  BY GeometryFacts
<1> QED BY <1>1, GeometryFacts DEF AlignUp

Segment == [sram : BOOLEAN, off : Nat, len : Nat \ {0}, ff : SUBSET Nat]
PartRecord == [off : Nat, len : Nat \ {0}, ff : SUBSET Nat]

LEMMA SramLensType ==
  ASSUME NEW image \in Seq(Segment)
  PROVE  SramLens(image) \in Seq(Nat)
<1> DEFINE those == {s \in Range(image) : s.sram}
           sram == Selected(image, those)
<1>1. sram \in Seq(Segment)
  <2>1. PICK pick : Picks(pick, image, those, Segment)
    BY PicksExist
  <2>2. sram = pick[Len(image)]
    <3> HIDE DEF those
    <3> QED BY <2>1, SelectedIs
  <2> HIDE DEF those
  <2> QED BY <2>1, <2>2 DEF Picks
<1>2. SramLens(image) = [k \in DOMAIN sram |-> sram[k].len]
  BY DEF SramLens
<1> HIDE DEF sram
<1>3. \A k \in DOMAIN sram : sram[k].len \in Nat
  <2> SUFFICES ASSUME NEW k \in DOMAIN sram PROVE sram[k].len \in Nat
    OBVIOUS
  <2>1. sram[k] \in Segment
    BY <1>1
  <2> QED BY <2>1 DEF Segment
<1> QED BY <1>1, <1>2, <1>3

\* The flash window is used up to a place.
LEMMA WindowEnds ==
  ASSUME NEW image \in Seq(Segment)
  PROVE  /\ FlashMax(image) \in Nat /\ Store(image) \in Nat
         /\ \A k \in InWindow(image) : image[k].off + image[k].len <= FlashMax(image)
<1>1. DOMAIN image = 1 .. Len(image) /\ Len(image) \in Nat
  OBVIOUS
<1>3. FlashMax(image) \in Nat /\ \A k \in InWindow(image) : image[k].off + image[k].len <= FlashMax(image)
  <2> DEFINE f == [i \in 1 .. Len(image) |-> image[i].off + image[i].len]
             I == InWindow(image)
  <2>1. f \in [1 .. Len(image) -> Nat] /\ I \in SUBSET (1 .. Len(image))
    <3>1. \A i \in 1 .. Len(image) : image[i].off + image[i].len \in Nat
      <4> SUFFICES ASSUME NEW i \in 1 .. Len(image) PROVE image[i].off + image[i].len \in Nat
        OBVIOUS
      <4>1. image[i] \in Segment
        BY <1>1
      <4> QED BY <4>1 DEF Segment
    <3> QED BY <1>1, <3>1 DEF InWindow
  <2>2. FlashMax(image) = Max({0} \cup {f[i] : i \in I})
    <3>1. {f[i] : i \in I} = {image[i].off + image[i].len : i \in I}
      BY <2>1
    <3> QED BY <3>1 DEF FlashMax
  <2>3. \A k \in I : f[k] = image[k].off + image[k].len
    BY <2>1
  <2> HIDE DEF f
  <2>4. FlashMax(image) \in Nat /\ \A k \in I : f[k] <= FlashMax(image)
    <3> HIDE DEF I
    <3> QED BY <1>1, <2>1, <2>2, LargestType
  <2> QED BY <2>3, <2>4
<1>2. Store(image) \in Nat
  BY <1>3, AlignUpType, GeometryFacts DEF Store
<1> QED BY <1>2, <1>3

LEMMA OffsetType ==
  ASSUME NEW image \in Seq(Segment), NEW k \in DOMAIN image
  PROVE  Offset(image, k) \in Nat
<1>1. DOMAIN image = 1 .. Len(image) /\ Len(image) \in Nat
  OBVIOUS
<1>2. image[k] \in Segment
  BY <1>1
<1>3. Store(image) \in Nat
  BY WindowEnds
<1>4. CASE image[k].sram
  <2> DEFINE before == SramLens(SubSeq(image, 1, k - 1))
             aligned == [j \in DOMAIN before |-> AlignUp(before[j])]
  <2>1. before \in Seq(Nat)
    <3>1. SubSeq(image, 1, k - 1) \in Seq(Segment)
      BY <1>1
    <3> QED BY <3>1, SramLensType
  <2>2. Offset(image, k) = Store(image) + Total(aligned)
    BY <1>4 DEF Offset
  <2>3. aligned \in Seq(Nat)
    <3> HIDE DEF before
    <3>1. \A j \in DOMAIN before : AlignUp(before[j]) \in Nat
      <4> TAKE j \in DOMAIN before
      <4>1. before[j] \in Nat
        BY <2>1
      <4> QED BY <4>1, AlignUpType
    <3> QED BY <2>1, <3>1
  <2> HIDE DEF aligned
  <2>4. Total(aligned) \in Nat
    BY <2>3, TotalType
  <2> QED BY <1>3, <2>2, <2>4
<1>5. CASE ~image[k].sram
  BY <1>2, <1>5 DEF Offset, Segment
<1> QED BY <1>4, <1>5

LEMMA PartsType ==
  ASSUME NEW image \in Seq(Segment)
  PROVE  /\ Parts(image) \in Seq(PartRecord)
         /\ DOMAIN Parts(image) = 1 .. Len(Parts(image)) /\ Len(Parts(image)) = 1 + Len(image)
         /\ Parts(image)[1] = [off |-> HeaderOff, len |-> HeaderLen, ff |-> {}]
         /\ \A k \in 1 .. Len(image) :
              Parts(image)[k + 1] = [off |-> Offset(image, k), len |-> image[k].len, ff |-> image[k].ff]
<1>1. DOMAIN image = 1 .. Len(image) /\ Len(image) \in Nat
  OBVIOUS
<1> DEFINE header == [off |-> HeaderOff, len |-> HeaderLen, ff |-> {}]
           rest == [k \in DOMAIN image |->
                     [off |-> Offset(image, k), len |-> image[k].len, ff |-> image[k].ff]]
<1>2. header \in PartRecord
  BY GeometryFacts DEF PartRecord
<1>3. rest \in Seq(PartRecord)
  <2>1. \A k \in DOMAIN image : Offset(image, k) \in Nat /\ image[k] \in Segment
    BY <1>1, OffsetType
  <2> QED BY <1>1, <2>1 DEF Segment, PartRecord
<1>4. Parts(image) = <<header>> \o rest
  BY DEF Parts
<1>5. Len(rest) = Len(image) /\ \A k \in 1 .. Len(image) :
        rest[k] = [off |-> Offset(image, k), len |-> image[k].len, ff |-> image[k].ff]
  BY <1>1
<1> HIDE DEF header, rest
<1>6. Parts(image) \in Seq(PartRecord) /\ Len(Parts(image)) = 1 + Len(rest) /\ Len(rest) \in Nat
  BY <1>2, <1>3, <1>4
<1>7. Parts(image)[1] = header /\ \A k \in 1 .. Len(rest) : Parts(image)[k + 1] = rest[k]
  BY <1>2, <1>3, <1>4
<1> QED BY <1>1, <1>5, <1>6, <1>7 DEF header

LEMMA PartsAre ==
  ASSUME NEW image \in Images
  PROVE  /\ Parts(image) \in Seq(PartRecord)
         /\ DOMAIN Parts(image) = 1 .. Len(Parts(image)) /\ Len(Parts(image)) \in Nat \ {0}
         /\ \A p \in DOMAIN Parts(image) : Parts(image)[p] \in PartRecord
<1>1. image \in Seq(Segment) /\ Len(image) \in Nat
  BY ImagesAssumption DEF Segment
<1>2. /\ Parts(image) \in Seq(PartRecord) /\ DOMAIN Parts(image) = 1 .. Len(Parts(image))
      /\ Len(Parts(image)) = 1 + Len(image)
  BY <1>1, PartsType
<1> QED BY <1>1, <1>2

-----------------------------------------------------------------------------
(* Sectors. *)

Whole(n) == n % Sector = 0

LEMMA Multiple ==
  ASSUME NEW C \in Nat \ {0}, NEW k \in Int
  PROVE  (C * k) % C = 0
BY Remainders, 0 \in 0 .. C - 1, C * k \in Int

LEMMA WholeIs ==
  ASSUME NEW n \in Int
  PROVE  Whole(n) <=> \E k \in Int : n = Sector * k
<1>1. Sector \in Nat \ {0}
  BY GeometryFacts
<1>2. ASSUME Whole(n) PROVE n = Sector * (n \div Sector) /\ n \div Sector \in Int
  BY <1>1, <1>2, Division DEF Whole
<1>3. ASSUME NEW k \in Int, n = Sector * k PROVE Whole(n)
  BY <1>1, <1>3, Multiple DEF Whole
<1> QED BY <1>2, <1>3

LEMMA WholeSum ==
  ASSUME NEW m \in Int, NEW n \in Int, Whole(m), Whole(n)
  PROVE  Whole(m + n) /\ Whole(m - n)
<1>1. PICK j \in Int : m = Sector * j
  BY WholeIs
<1>2. PICK k \in Int : n = Sector * k
  BY WholeIs
<1>3. m + n = Sector * (j + k) /\ j + k \in Int /\ m - n = Sector * (j - k) /\ j - k \in Int
  BY <1>1, <1>2, GeometryFacts
<1> QED BY <1>3, WholeIs, m + n \in Int, m - n \in Int

\* Between two multiples there is room for a sector.
LEMMA WholeGap ==
  ASSUME NEW m \in Int, NEW n \in Int, Whole(m), Whole(n), m < n
  PROVE  m + Sector <= n
<1>1. PICK j \in Int : m = Sector * j
  BY WholeIs
<1>2. PICK k \in Int : n = Sector * k
  BY WholeIs
<1>3. Sector \in Nat \ {0}
  BY GeometryFacts
<1>4. j < k
  <2> SUFFICES ASSUME j - k >= 0 PROVE FALSE
    OBVIOUS
  <2>1. Sector * (j - k) >= 0
    BY <1>3
  <2> QED BY <1>1, <1>2, <1>3, <2>1
<1>5. Sector * (k - j - 1) >= 0
  BY <1>3, <1>4
<1> QED BY <1>1, <1>2, <1>3, <1>5

LEMMA NorWhole == Whole(NorSize) /\ Whole(Sector) /\ Whole(Big) /\ Whole(0)
<1>1. NorSize = Big * (NorSize \div Big) /\ NorSize \div Big \in Int
  <2>1. NorSize \in Int /\ Big \in Nat \ {0} /\ NorSize % Big = 0
    BY GeometryFacts, GeometryAssumption DEF Big
  <2>2. NorSize = Big * (NorSize \div Big) + (NorSize % Big) /\ NorSize \div Big \in Int
    BY <2>1, Division
  <2> QED BY <2>1, <2>2
<1>2. NorSize = Sector * (BigSectors * (NorSize \div Big)) /\ BigSectors * (NorSize \div Big) \in Int
  BY <1>1, GeometryFacts
<1>3. Big = Sector * BigSectors /\ Sector = Sector * 1 /\ 0 = Sector * 0
  BY GeometryFacts
<1>4. Whole(NorSize)
  <2> DEFINE k == BigSectors * (NorSize \div Big)
  <2>1. NorSize = Sector * k /\ k \in Int /\ NorSize \in Int
    BY <1>2, GeometryFacts
  <2> HIDE DEF k
  <2> QED BY <2>1, WholeIs
<1>5. Whole(Sector) /\ Whole(Big) /\ Whole(0)
  BY <1>3, GeometryFacts, WholeIs
<1> QED BY <1>4, <1>5

\* The padding only adds.
LEMMA EraseSizeIs ==
  ASSUME NEW len \in Nat \ {0}
  PROVE  EraseSize(len) \in Nat /\ EraseSize(len) >= len
<1>1. len % Chunk \in 0 .. Chunk - 1
  BY GeometryFacts, Division
<1> QED BY <1>1, GeometryFacts DEF EraseSize

LEMMA SectorsAre ==
  ASSUME NEW part \in PartRecord
  PROVE  /\ FirstSector(part) \in Nat /\ Whole(FirstSector(part)) /\ FirstSector(part) <= part.off
         /\ SectorCount(part.off, EraseSize(part.len)) \in Nat \ {0}
         /\ SectorsEnd(part) = FirstSector(part) + SectorCount(part.off, EraseSize(part.len)) * Sector
         /\ SectorsEnd(part) \in Nat /\ Whole(SectorsEnd(part))
         /\ part.off + part.len <= SectorsEnd(part)
         /\ FirstSector(part) + Sector <= SectorsEnd(part)
<1> DEFINE off == part.off
           size == EraseSize(part.len)
           count == SectorCount(off, size)
           sum == size + Sector - 1 + (off % Sector)
<1>1. off \in Nat /\ part.len \in Nat \ {0} /\ size \in Nat /\ size >= part.len
  BY EraseSizeIs DEF PartRecord
<1>3. FirstSector(part) = off - (off % Sector)
  BY DEF FirstSector
<1>9. count = SectorCount(off, size) /\ SectorsEnd(part) = FirstSector(part) + count * Sector
  BY DEF SectorsEnd
<1> HIDE DEF off, size, count
<1>2. off = Sector * (off \div Sector) + (off % Sector) /\ off \div Sector \in Int /\ off % Sector \in 0 .. Sector - 1
  BY <1>1, GeometryFacts, Division
<1>4. FirstSector(part) = Sector * (off \div Sector) /\ FirstSector(part) \in Nat /\ FirstSector(part) <= off
  <2>1. off % Sector <= off
    BY <1>1, GeometryFacts
  <2> QED BY <1>1, <1>2, <1>3, <2>1, GeometryFacts
<1>5. Whole(FirstSector(part))
  BY <1>2, <1>4, WholeIs
<1>6. /\ sum \in Nat /\ count = sum \div Sector
      /\ sum = Sector * (sum \div Sector) + (sum % Sector)
      /\ sum \div Sector \in Int /\ sum % Sector \in 0 .. Sector - 1
  <2>1. sum \in Nat /\ count = sum \div Sector
    BY <1>1, <1>2, <1>9, GeometryFacts DEF SectorCount
  <2> HIDE DEF sum
  <2> QED BY <2>1, GeometryFacts, Division
<1>7. Sector * count >= size + (off % Sector)
  BY <1>1, <1>2, <1>6, GeometryFacts
<1> HIDE DEF sum
<1>8. count \in Nat \ {0}
  <2>1. count \in Int /\ Sector * count > 0 /\ Sector > 0
    BY <1>1, <1>2, <1>6, <1>7, GeometryFacts
  <2> SUFFICES ASSUME -count >= 0 PROVE FALSE
    BY <2>1
  <2>2. Sector * (-count) >= 0
    BY <2>1, GeometryFacts
  <2> QED BY <2>1, <2>2, GeometryFacts
<1>10. count * Sector = Sector * count /\ Sector * count \in Nat /\ Sector * count >= Sector
  <2>1. Sector * (count - 1) >= 0
    BY <1>8, GeometryFacts
  <2> QED BY <1>8, <2>1, GeometryFacts
<1>11. Whole(Sector * count) /\ Whole(SectorsEnd(part))
  <2>1. Whole(Sector * count)
    BY <1>8, <1>10, WholeIs
  <2> QED BY <1>4, <1>5, <1>9, <1>10, <2>1, WholeSum
<1>12. off + part.len <= SectorsEnd(part)
  BY <1>1, <1>2, <1>3, <1>4, <1>7, <1>9, <1>10, GeometryFacts
<1> QED BY <1>4, <1>5, <1>8, <1>9, <1>10, <1>11, <1>12, GeometryFacts DEF count, size, off

-----------------------------------------------------------------------------
(* A session at work.  Of the part it is at, the first cells are sent, and    *)
(* those that are erased are blank; of the range erased last, every cell is   *)
(* blank that nothing was sent to; and that range ends in the last sector     *)
(* that was erased or skipped, of this part or the one before.                *)

JobRecord == [image : Images, part : Nat, at : Nat, left : Nat, sent : Nat, from : Nat, to : Nat]

Working ==
  /\ job \in JobRecord
  /\ job.part \in DOMAIN Parts(job.image)
  /\ target = "rom" /\ report = NoReport

Place ==
  /\ job.at + job.left * Sector = SectorsEnd(Part) /\ FirstSector(Part) <= job.at
  /\ Whole(job.at) /\ Whole(job.to)
  /\ job.left > 0 => job.sent = 0
  /\ job.sent <= Part.len
  /\ job.sent % Chunk = 0 \/ job.sent = Part.len

Seated ==
  /\ flash = [a \in NorCells |-> flash[a]]
  /\ report \in Images \cup {NoReport}
  /\ job = NoJob \/ (Working /\ Place)

Before(a) == \E p \in 1 .. (job.part - 1) : a \in CellsOf(Parts(job.image)[p])
Sent(a) == a \in CellsOf(Part) /\ a < Part.off + job.sent

SentOk ==
  \A a \in CellsOf(Part) :
    Sent(a) => flash[a] = IF IsBlank(Part, a) THEN {} ELSE {<<job.image, job.part>>}

BlankOk == \A a \in CellsOf(Part) : ~Sent(a) /\ a < job.at => flash[a] = {}

InRange(a) == job.from <= a /\ a < job.to

RangeOk == \A a \in NorCells : InRange(a) /\ ~Before(a) /\ ~Sent(a) => flash[a] = {}

LastOk ==
  IF job.at # FirstSector(Part)
    THEN InRange(job.at - Sector)
    ELSE job.part > 1 => InRange(SectorsEnd(Parts(job.image)[job.part - 1]) - Sector)

Session ==
  job # NoJob =>
    /\ \A p \in 1 .. (job.part - 1) : Stored(job.image, p)
    /\ SentOk /\ BlankOk /\ RangeOk /\ LastOk

FlashInv == Seated /\ Session /\ FlashedImageReadsBack

LEMMA JobIs ==
  ASSUME NEW j \in JobRecord
  PROVE  /\ j # NoJob /\ j.image \in Images /\ j.image # <<>>
         /\ j.part \in Nat /\ j.at \in Nat /\ j.left \in Nat /\ j.sent \in Nat
         /\ j.from \in Nat /\ j.to \in Nat
<1>1. j.image \in Images /\ j.image # <<>>
  BY ImagesAssumption DEF JobRecord
<1>2. NoJob.image = <<>>
  BY DEF NoJob
<1> QED BY <1>1, <1>2 DEF JobRecord

LEMMA AtPartIs ==
  ASSUME NEW j \in JobRecord, NEW p \in DOMAIN Parts(j.image)
  PROVE  /\ AtPart(j, p) \in JobRecord
         /\ AtPart(j, p).image = j.image /\ AtPart(j, p).part = p
         /\ AtPart(j, p).at = FirstSector(Parts(j.image)[p]) /\ AtPart(j, p).sent = 0
         /\ AtPart(j, p).at + AtPart(j, p).left * Sector = SectorsEnd(Parts(j.image)[p])
         /\ AtPart(j, p).from = j.from /\ AtPart(j, p).to = j.to
<1> DEFINE part == Parts(j.image)[p]
           count == SectorCount(part.off, EraseSize(part.len))
<1>1. part \in PartRecord /\ p \in Nat
  BY JobIs, PartsAre
<1>2. /\ FirstSector(part) \in Nat /\ count \in Nat
      /\ SectorsEnd(part) = FirstSector(part) + count * Sector
  <2> HIDE DEF part
  <2> QED BY <1>1, SectorsAre DEF count
<1>3. AtPart(j, p) = [j EXCEPT !.part = p, !.at = FirstSector(part), !.left = count, !.sent = 0]
  BY DEF AtPart, FirstSector
<1> DEFINE new == AtPart(j, p)
<1> HIDE DEF part, count, new
<1>a. new = [image |-> j.image, part |-> p, at |-> FirstSector(part), left |-> count, sent |-> 0,
              from |-> j.from, to |-> j.to]
  BY <1>3 DEF JobRecord, new
<1>b. j.image \in Images /\ j.from \in Nat /\ j.to \in Nat
  BY JobIs
<1>4. /\ new \in JobRecord /\ new.image = j.image /\ new.part = p
      /\ new.at = FirstSector(part) /\ new.sent = 0 /\ new.left = count
      /\ new.from = j.from /\ new.to = j.to
  BY <1>1, <1>2, <1>a, <1>b DEF JobRecord
<1>5. new.at + new.left * Sector = SectorsEnd(part)
  BY <1>2, <1>4
<1> QED BY <1>4, <1>5 DEF part, new

LEMMA CellsIn ==
  ASSUME NEW part \in PartRecord, NEW a \in CellsOf(part)
  PROVE  a \in Nat /\ FirstSector(part) <= a /\ a < SectorsEnd(part)
<1>1. part.off \in Nat /\ part.len \in Nat
  BY DEF PartRecord
<1>2. a \in Nat /\ part.off <= a /\ a < part.off + part.len
  BY <1>1 DEF CellsOf
<1> QED BY <1>1, <1>2, SectorsAre

LEMMA PartIs ==
  ASSUME Working
  PROVE  /\ job # NoJob /\ job.image \in Images
         /\ job.part \in Nat /\ job.part >= 1 /\ job.at \in Nat /\ job.left \in Nat /\ job.sent \in Nat
         /\ job.from \in Nat /\ job.to \in Nat
         /\ Part \in PartRecord /\ Part.off \in Nat /\ Part.len \in Nat \ {0}
         /\ \A p \in 1 .. job.part : p \in DOMAIN Parts(job.image) /\ Parts(job.image)[p] \in PartRecord
         /\ FirstSector(Part) \in Nat /\ SectorsEnd(Part) \in Nat
         /\ Whole(FirstSector(Part)) /\ Whole(SectorsEnd(Part))
         /\ FirstSector(Part) + Sector <= SectorsEnd(Part)
<1>1. /\ job # NoJob /\ job.image \in Images
      /\ job.part \in Nat /\ job.at \in Nat /\ job.left \in Nat /\ job.sent \in Nat
      /\ job.from \in Nat /\ job.to \in Nat
  BY JobIs DEF Working
<1>2. /\ DOMAIN Parts(job.image) = 1 .. Len(Parts(job.image)) /\ Len(Parts(job.image)) \in Nat
      /\ \A p \in DOMAIN Parts(job.image) : Parts(job.image)[p] \in PartRecord
  BY <1>1, PartsAre
<1>3. job.part \in 1 .. Len(Parts(job.image))
  BY <1>2 DEF Working
<1>4. Part \in PartRecord
  BY <1>2, <1>3 DEF Part
<1>5. Part.off \in Nat /\ Part.len \in Nat \ {0}
  BY <1>4 DEF PartRecord
<1>6. \A p \in 1 .. job.part : p \in DOMAIN Parts(job.image) /\ Parts(job.image)[p] \in PartRecord
  BY <1>2, <1>3
<1>7. /\ FirstSector(Part) \in Nat /\ SectorsEnd(Part) \in Nat
      /\ Whole(FirstSector(Part)) /\ Whole(SectorsEnd(Part))
      /\ FirstSector(Part) + Sector <= SectorsEnd(Part)
  BY <1>4, SectorsAre
<1>8. job.part >= 1
  BY <1>2, <1>3
<1> HIDE DEF Working
<1> QED BY <1>1, <1>4, <1>5, <1>6, <1>7, <1>8

\* As long as sectors are left, there is room for one before the end of the part.
LEMMA PlaceIs ==
  ASSUME Working, Place
  PROVE  /\ job.left > 0 => job.at + Sector <= SectorsEnd(Part)
         /\ job.left = 0 => job.at = SectorsEnd(Part) /\ job.at # FirstSector(Part)
<1>1. Sector \in Nat \ {0} /\ job.left \in Nat /\ job.at \in Nat
  BY PartIs, GeometryFacts
<1>2. CASE job.left > 0
  <2>1. Sector * (job.left - 1) >= 0
    BY <1>1, <1>2
  <2> QED BY <1>1, <1>2, <2>1, PartIs DEF Place
<1>3. CASE job.left = 0
  BY <1>1, <1>3, PartIs DEF Place
<1> QED BY <1>1, <1>2, <1>3

-----------------------------------------------------------------------------
(* The steps of a session: what they do to the job. *)

LEMMA Begun ==
  ASSUME NEW image \in Images, NEW chipErase \in BOOLEAN, Begin(image, chipErase)
  PROVE  /\ job' \in JobRecord /\ job'.image = image /\ job'.part = 1
         /\ 1 \in DOMAIN Parts(image)
         /\ job'.at = FirstSector(Parts(image)[1]) /\ job'.sent = 0
         /\ job'.at + job'.left * Sector = SectorsEnd(Parts(image)[1])
         /\ chipErase => job'.from = 0 /\ flash' = Erased(0, NorSize)
         /\ ~chipErase => job'.from = NorSize /\ flash' = flash
         /\ job'.to = NorSize
         /\ target' = "rom" /\ report' = NoReport
<1> DEFINE blank == [NewJob(image) EXCEPT !.from = 0]
           j == IF chipErase THEN blank ELSE NewJob(image)
<1>1. /\ j \in JobRecord /\ j.image = image /\ j.to = NorSize
      /\ j.from = IF chipErase THEN 0 ELSE NorSize
  BY GeometryFacts DEF NewJob, JobRecord
<1>2. job' = AtPart(j, 1)
  BY DEF Begin
<1>3. 1 \in DOMAIN Parts(image)
  BY PartsAre
<1> HIDE DEF j
<1> QED BY <1>1, <1>2, <1>3, AtPartIs DEF Begin

LEMMA Skipped ==
  ASSUME Working, Place, SkipErased
  PROVE  /\ job' \in JobRecord
         /\ job'.image = job.image /\ job'.part = job.part /\ job'.sent = job.sent
         /\ job'.from = job.from /\ job'.to = job.to
         /\ job'.at = job.at + Sector /\ job'.left = job.left - 1
         /\ job.left > 0 /\ job.sent = 0 /\ InRange(job.at)
         /\ flash' = flash /\ target' = target /\ report' = report
<1>1. job.left > 0 /\ job.left \in Nat /\ job.at \in Nat /\ job.at + Sector \in Nat
  BY PartIs, GeometryFacts DEF SkipErased, Erasing
<1>2. job' = [job EXCEPT !.at = @ + Sector, !.left = @ - 1]
  BY DEF SkipErased
<1>3. /\ job.sent = 0 /\ InRange(job.at)
      /\ flash' = flash /\ target' = target /\ report' = report
  BY <1>1 DEF SkipErased, JustErased, InRange, Place
<1>4. job' = [image |-> job.image, part |-> job.part, at |-> job.at + Sector, left |-> job.left - 1,
              sent |-> job.sent, from |-> job.from, to |-> job.to]
  BY <1>2 DEF Working, JobRecord
<1>5. job.left - 1 \in Nat
  BY <1>1
<1>6. job' \in JobRecord
  BY <1>1, <1>4, <1>5, PartIs DEF JobRecord
<1> QED BY <1>1, <1>3, <1>4, <1>6

\* An erase covers whole sectors, and no more than the part still needs.
LEMMA Emptied ==
  ASSUME Working, Place, EraseBig \/ EraseSector
  PROVE  \E size \in Nat \ {0} :
           /\ Whole(size) /\ job.at + size <= SectorsEnd(Part)
           /\ job' \in JobRecord
           /\ job'.image = job.image /\ job'.part = job.part /\ job'.sent = job.sent
           /\ job'.at = job.at + size /\ job'.from = job.at /\ job'.to = job.at + size
           /\ job'.at + job'.left * Sector = SectorsEnd(Part)
           /\ job.left > 0 /\ job.sent = 0 /\ ~InRange(job.at)
           /\ flash' = Erased(job.at, size) /\ target' = target /\ report' = report
<1>1. PICK count \in Nat \ {0} : count <= job.left /\ EraseAt(count * Sector)
  <2>1. CASE EraseBig
    BY <2>1, GeometryFacts DEF EraseBig, FitsBig
  <2>2. CASE EraseSector
    <3>1. EraseAt(1 * Sector) /\ job.left \in Nat /\ job.left > 0
      BY <2>2, PartIs, GeometryFacts DEF EraseSector, Erasing
    <3> QED BY <3>1
  <2> QED BY <2>1, <2>2
<1> DEFINE size == count * Sector
<1>2. /\ job.left > 0 /\ job.left \in Nat /\ job.at \in Nat /\ Sector \in Nat \ {0}
      /\ job.at + job.left * Sector = SectorsEnd(Part)
  BY <1>1, PartIs, GeometryFacts DEF EraseAt, Erasing, Place
<1>3. size = Sector * count /\ size \in Nat \ {0} /\ Whole(size) /\ size \div Sector = count
  <2>1. size = Sector * count /\ size \in Int /\ size >= Sector
    <3>1. Sector * (count - 1) >= 0
      BY <1>2
    <3> QED BY <1>2, <3>1
  <2>2. Whole(size)
    BY <2>1, WholeIs
  <2>3. size = Sector * (size \div Sector) + 0 /\ size \div Sector \in Int
    <3> HIDE DEF size
    <3> QED BY <1>2, <2>1, <2>2, Division DEF Whole
  <2>4. Sector * (size \div Sector - count) = 0
    BY <1>2, <2>1, <2>3
  <2>5. size \div Sector = count
    BY <1>2, <2>3, <2>4
  <2> QED BY <1>2, <2>1, <2>2, <2>5
<1>4. job' = [job EXCEPT !.at = @ + size, !.left = @ - size \div Sector,
                        !.from = job.at, !.to = job.at + size]
  BY <1>1 DEF EraseAt
<1> HIDE DEF size
<1>5. /\ job' \in JobRecord
      /\ job'.image = job.image /\ job'.part = job.part /\ job'.sent = job.sent
      /\ job'.at = job.at + size /\ job'.from = job.at /\ job'.to = job.at + size
      /\ job'.left = job.left - count
  <2>1. job' = [image |-> job.image, part |-> job.part, at |-> job.at + size, left |-> job.left - count,
                sent |-> job.sent, from |-> job.at, to |-> job.at + size]
    BY <1>3, <1>4 DEF Working, JobRecord
  <2>2. job.left - count \in Nat /\ job.at + size \in Nat
    BY <1>1, <1>2, <1>3
  <2>3. job' \in JobRecord
    BY <1>2, <2>1, <2>2, PartIs DEF JobRecord
  <2> QED BY <2>1, <2>3
<1>6. job'.at + job'.left * Sector = SectorsEnd(Part)
  <2>1. (job.left - count) * Sector = job.left * Sector - count * Sector
    BY <1>2
  <2> QED BY <1>2, <1>5, <2>1, PartIs DEF size
<1>7. job.at + size <= SectorsEnd(Part)
  <2>1. Sector * (job.left - count) >= 0
    BY <1>1, <1>2
  <2> QED BY <1>1, <1>2, <1>3, <2>1
<1>8. /\ job.sent = 0 /\ ~InRange(job.at)
      /\ flash' = Erased(job.at, size) /\ target' = target /\ report' = report
  BY <1>1, <1>2 DEF EraseAt, JustErased, InRange, Place, size
<1> QED BY <1>2, <1>3, <1>5, <1>6, <1>7, <1>8

LEMMA MinOfTwo ==
  ASSUME NEW m \in Nat, NEW n \in Nat
  PROVE  /\ Min({m, n}) \in {m, n} /\ Min({m, n}) <= m /\ Min({m, n}) <= n
<1>1. \E x \in {m, n} : \A y \in {m, n} : x <= y
  <2>1. CASE m <= n
    BY <2>1
  <2>2. CASE n <= m
    BY <2>2
  <2> QED BY <2>1, <2>2
<1> QED BY <1>1 DEF Min

LEMMA ChunkSent ==
  ASSUME Working, Place, SendChunk
  PROVE  \E n \in Nat \ {0} :
           /\ job' \in JobRecord
           /\ job'.image = job.image /\ job'.part = job.part /\ job'.sent = job.sent + n
           /\ job'.at = job.at /\ job'.left = job.left /\ job'.from = job.from /\ job'.to = job.to
           /\ job.left = 0 /\ n <= Chunk /\ job.sent + n <= Part.len
           /\ job.sent % Chunk = 0
           /\ job'.sent % Chunk = 0 \/ job'.sent = Part.len
           /\ flash' = IF job.sent \div Chunk \in Part.ff THEN flash
                       ELSE [a \in NorCells |->
                              IF a \in Part.off + job.sent .. Part.off + job.sent + n - 1
                                THEN flash[a] \cup {<<job.image, job.part>>}
                                ELSE flash[a]]
           /\ target' = target /\ report' = report
<1> DEFINE n == Min({Chunk, Part.len - job.sent})
<1>1. /\ job.left = 0 /\ job.sent < Part.len /\ job.sent \in Nat /\ Part.len \in Nat
      /\ Chunk \in Nat \ {0}
  BY PartIs, GeometryFacts DEF SendChunk, Programming
<1>2. n \in {Chunk, Part.len - job.sent} /\ n <= Chunk /\ n <= Part.len - job.sent
  BY <1>1, MinOfTwo, Part.len - job.sent \in Nat
<1>3. job' = [job EXCEPT !.sent = @ + n]
  BY DEF SendChunk
<1>4. flash' = IF job.sent \div Chunk \in Part.ff THEN flash
               ELSE [a \in NorCells |->
                      IF a \in Part.off + job.sent .. Part.off + job.sent + n - 1
                        THEN flash[a] \cup {<<job.image, job.part>>}
                        ELSE flash[a]]
  BY DEF SendChunk
<1> HIDE DEF n
<1>5. n \in Nat \ {0} /\ job.sent + n <= Part.len /\ job.sent + n \in Nat
  BY <1>1, <1>2
<1>6. job.sent % Chunk = 0
  BY <1>1 DEF Place
<1>7. (job.sent + n) % Chunk = 0 \/ job.sent + n = Part.len
  <2>1. CASE n = Chunk
    <3>1. job.sent = Chunk * (job.sent \div Chunk) + 0 /\ job.sent \div Chunk \in Int
      <4>1. job.sent = Chunk * (job.sent \div Chunk) + (job.sent % Chunk) /\ job.sent \div Chunk \in Int
        <5>1. job.sent \in Int /\ Chunk \in Nat \ {0}
          BY <1>1
        <5> QED BY <5>1, Division
      <4> QED BY <4>1, <1>6
    <3>2. job.sent + n = Chunk * (job.sent \div Chunk + 1) /\ job.sent \div Chunk + 1 \in Int
      BY <1>1, <2>1, <3>1
    <3> QED BY <1>1, <3>2, Multiple
  <2>2. CASE n = Part.len - job.sent
    BY <1>1, <2>2
  <2> QED BY <1>2, <2>1, <2>2
<1>8. /\ job' \in JobRecord
      /\ job'.image = job.image /\ job'.part = job.part /\ job'.sent = job.sent + n
      /\ job'.at = job.at /\ job'.left = job.left /\ job'.from = job.from /\ job'.to = job.to
  <2>1. job' = [image |-> job.image, part |-> job.part, at |-> job.at, left |-> job.left,
                sent |-> job.sent + n, from |-> job.from, to |-> job.to]
    BY <1>3 DEF Working, JobRecord
  <2>2. job' \in JobRecord
    BY <1>5, <2>1, PartIs DEF JobRecord
  <2> QED BY <2>1, <2>2
<1>9. target' = target /\ report' = report
  BY DEF SendChunk
<1> QED BY <1>1, <1>2, <1>4, <1>5, <1>6, <1>7, <1>8, <1>9

LEMMA NextIs ==
  ASSUME Working, NextPart
  PROVE  /\ job' \in JobRecord
         /\ job'.image = job.image /\ job'.part = job.part + 1 /\ job.part + 1 \in DOMAIN Parts(job.image)
         /\ job'.at = FirstSector(Parts(job.image)[job.part + 1]) /\ job'.sent = 0
         /\ job'.at + job'.left * Sector = SectorsEnd(Parts(job.image)[job.part + 1])
         /\ job'.from = job.from /\ job'.to = job.to
         /\ job.left = 0 /\ job.sent = Part.len
         /\ flash' = flash /\ target' = target /\ report' = report
<1>1. job.part + 1 \in DOMAIN Parts(job.image)
  <2>1. DOMAIN Parts(job.image) = 1 .. Len(Parts(job.image)) /\ Len(Parts(job.image)) \in Nat
    BY PartIs, PartsAre
  <2> QED BY <2>1, PartIs DEF NextPart
<1>2. job \in JobRecord
  BY DEF Working
<1> QED BY <1>1, <1>2, AtPartIs DEF NextPart, PartDone, Programming

-----------------------------------------------------------------------------
(* Where a session is, which needs nothing of the image. *)

LEMMA SeatedAtOnce ==
  ASSUME Working', Place', flash' = [a \in NorCells |-> flash'[a]]
  PROVE  Seated'
BY DEF Seated, Working

LEMMA BeginSeats ==
  ASSUME Seated, NEW image \in Images, NEW chipErase \in BOOLEAN, Begin(image, chipErase)
  PROVE  Seated'
<1>1. Working'
  BY Begun DEF Working
<1>2. Part' = Parts(image)[1] /\ Parts(image)[1] \in PartRecord
  BY Begun, PartsAre DEF Part
<1>3. Place'
  <2>1. /\ FirstSector(Part') \in Nat /\ Whole(FirstSector(Part')) /\ Part'.len \in Nat
    BY <1>2, SectorsAre DEF PartRecord
  <2>2. 0 % Chunk = 0
    BY GeometryFacts
  <2> QED BY <1>2, <2>1, <2>2, Begun, NorWhole DEF Place, Whole
<1>4. flash' = [a \in NorCells |-> flash'[a]]
  BY Begun DEF Erased, Seated
<1> QED BY <1>1, <1>3, <1>4, SeatedAtOnce

LEMMA SkipSeats == ASSUME Seated, Working, Place, SkipErased PROVE Seated'
<1>1. Working' /\ Part' = Part
  BY Skipped DEF Working, Part
<1>2. Place'
  <2>1. /\ job.at \in Nat /\ job.left \in Nat /\ Sector \in Nat /\ FirstSector(Part) \in Nat
        /\ job.at + job.left * Sector = SectorsEnd(Part)
    BY PartIs, GeometryFacts DEF Place
  <2>2. (job.left - 1) * Sector = job.left * Sector - Sector
    BY <2>1
  <2>3. job'.at + job'.left * Sector = SectorsEnd(Part) /\ FirstSector(Part) <= job'.at
    BY <2>1, <2>2, Skipped DEF Place
  <2>4. Whole(job'.at)
    <3>1. job.at \in Int /\ Sector \in Int /\ Whole(job.at) /\ Whole(Sector)
      BY <2>1, NorWhole DEF Place
    <3>2. Whole(job.at + Sector)
      BY <3>1, WholeSum
    <3> QED BY <3>2, Skipped
  <2> QED BY <1>1, <2>3, <2>4, Skipped DEF Place, Whole
<1>3. flash' = [a \in NorCells |-> flash'[a]]
  BY Skipped DEF Seated
<1> QED BY <1>1, <1>2, <1>3, SeatedAtOnce

LEMMA EraseSeats == ASSUME Seated, Working, Place, EraseBig \/ EraseSector PROVE Seated'
<1>1. PICK size \in Nat \ {0} :
           /\ Whole(size) /\ job' \in JobRecord
           /\ job'.image = job.image /\ job'.part = job.part /\ job'.sent = job.sent
           /\ job'.at = job.at + size /\ job'.to = job.at + size
           /\ job'.at + job'.left * Sector = SectorsEnd(Part)
           /\ job.sent = 0
           /\ flash' = Erased(job.at, size) /\ target' = target /\ report' = report
  BY Emptied
<1>2. Working' /\ Part' = Part
  BY <1>1 DEF Working, Part
<1>3. job.at \in Nat /\ FirstSector(Part) \in Nat /\ FirstSector(Part) <= job.at /\ Whole(job.at)
  BY PartIs DEF Place
<1>4. Whole(job.at + size) /\ FirstSector(Part) <= job.at + size
  <2>1. size \in Int /\ job.at \in Int /\ Whole(size)
    BY <1>1, <1>3
  <2>2. Whole(job.at + size)
    BY <1>3, <2>1, WholeSum
  <2> QED BY <1>3, <2>2
<1>5. Place'
  BY <1>1, <1>2, <1>4 DEF Place, Whole
<1>6. flash' = [a \in NorCells |-> flash'[a]]
  BY <1>1 DEF Erased
<1> QED BY <1>2, <1>5, <1>6, SeatedAtOnce

LEMMA SendSeats == ASSUME Seated, Working, Place, SendChunk PROVE Seated'
<1>1. PICK n \in Nat \ {0} :
           /\ job' \in JobRecord
           /\ job'.image = job.image /\ job'.part = job.part /\ job'.sent = job.sent + n
           /\ job'.at = job.at /\ job'.left = job.left /\ job'.to = job.to
           /\ job.left = 0 /\ job.sent + n <= Part.len
           /\ job'.sent % Chunk = 0 \/ job'.sent = Part.len
           /\ target' = target /\ report' = report
  BY ChunkSent
<1>2. Working' /\ Part' = Part
  BY <1>1 DEF Working, Part
<1>3. Place'
  BY <1>1, <1>2 DEF Place, Whole
<1>4. flash' = [a \in NorCells |-> flash'[a]]
  BY DEF SendChunk, Seated
<1> QED BY <1>2, <1>3, <1>4, SeatedAtOnce

LEMMA NextSeats == ASSUME Seated, Working, Place, NextPart PROVE Seated'
<1>1. Working'
  BY NextIs DEF Working
<1>2. Part' = Parts(job.image)[job.part + 1] /\ Parts(job.image)[job.part + 1] \in PartRecord
  BY NextIs, PartIs, PartsAre DEF Part
<1>3. Place'
  <2>1. /\ FirstSector(Part') \in Nat /\ Whole(FirstSector(Part')) /\ Part'.len \in Nat
    BY <1>2, SectorsAre DEF PartRecord
  <2>2. 0 % Chunk = 0
    BY GeometryFacts
  <2> QED BY <1>2, <2>1, <2>2, NextIs DEF Place, Whole
<1>4. flash' = [a \in NorCells |-> flash'[a]]
  BY NextIs DEF Seated
<1> QED BY <1>1, <1>3, <1>4, SeatedAtOnce

LEMMA SeatedKept == ASSUME Seated, [FlashNext]_flashVars PROVE Seated'
<1>1. CASE \E image \in Images, chipErase \in BOOLEAN : Begin(image, chipErase)
  BY <1>1, BeginSeats
<1>2. CASE SkipErased \/ EraseBig \/ EraseSector \/ SendChunk \/ NextPart
  <2>1. job # NoJob
    BY <1>2 DEF SkipErased, EraseBig, EraseSector, Erasing, SendChunk, Programming, NextPart, PartDone
  <2>2. Working /\ Place
    BY <2>1 DEF Seated
  <2> QED BY <1>2, <2>2, SkipSeats, EraseSeats, SendSeats, NextSeats
<1>3. CASE \E resetAfter \in BOOLEAN : Finish(resetAfter)
  <2>1. job # NoJob
    BY <1>3 DEF Finish, PartDone, Programming
  <2>2. job.image \in Images
    BY <2>1, PartIs DEF Seated
  <2> QED BY <1>3, <2>2 DEF Finish, Seated
<1>4. CASE Interrupt \/ PowerCycle
  BY <1>4 DEF Interrupt, PowerCycle, Seated
<1>5. CASE Handoff \/ EnterRom
  <2>1. job = NoJob
    BY <1>5 DEF Handoff, EnterRom, Seated, Working
  <2>2. flash' = [a \in NorCells |-> flash'[a]]
    BY <1>5 DEF Handoff, EnterRom, Seated
  <2> QED BY <1>5, <2>1, <2>2 DEF Handoff, EnterRom, Seated
<1>6. CASE UNCHANGED flashVars
  BY <1>6 DEF flashVars, Seated, Working, Place, Part, Whole
<1> QED BY <1>1, <1>2, <1>3, <1>4, <1>5, <1>6 DEF FlashNext

LEMMA SeatedFirst == FlashInit => Seated
BY DEF FlashInit, Seated

LEMMA SeatedAlways == FlashSpec => []Seated
BY SeatedFirst, SeatedKept, PTL DEF FlashSpec

-----------------------------------------------------------------------------
(* What a session leaves alone. *)

\* The images that the NOR has room for.
AllFit == \A image \in Images : SectorsOf(image) \subseteq NorCells

LEMMA OwnSectors ==
  ASSUME Working, NEW a \in Nat, FirstSector(Part) <= a, a < SectorsEnd(Part)
  PROVE  a \in SectorsOf(job.image)
<1>1. a \in FirstSector(Part) .. SectorsEnd(Part) - 1
  BY PartIs
<1>2. job.part \in DOMAIN Parts(job.image) /\ Part = Parts(job.image)[job.part]
  BY DEF Working, Part
<1> QED BY <1>1, <1>2 DEF SectorsOf

\* The addresses of the ROM do not wrap.
LEMMA ErasedCells ==
  ASSUME Working, Place, SectorsOf(job.image) \subseteq NorCells, NEW size \in Nat \ {0},
         job.at + size <= SectorsEnd(Part)
  PROVE  /\ \A a \in NorCells : Erased(job.at, size)[a] =
              IF a \in job.at .. job.at + size - 1 THEN {} ELSE flash[a]
         /\ job.at .. job.at + size - 1 \subseteq NorCells
         /\ job.at .. job.at + size - 1 \subseteq FirstSector(Part) .. SectorsEnd(Part) - 1
<1>1. job.at \in Nat /\ FirstSector(Part) \in Nat /\ FirstSector(Part) <= job.at /\ SectorsEnd(Part) \in Nat
  BY PartIs DEF Place
<1>2. job.at .. job.at + size - 1 \subseteq FirstSector(Part) .. SectorsEnd(Part) - 1
  BY <1>1
<1>3. FirstSector(Part) .. SectorsEnd(Part) - 1 \subseteq NorCells
  BY <1>1, OwnSectors
<1>4. job.at \in 0 .. NorSize - 1
  BY <1>1, <1>2, <1>3 DEF NorCells
<1>5. job.at % NorSize = job.at
  <2>1. job.at = NorSize * 0 + job.at /\ NorSize \in Nat \ {0}
    BY <1>1, <1>4, GeometryFacts
  <2> QED BY <1>1, <1>4, <2>1, Remainders
<1> QED BY <1>2, <1>3, <1>5 DEF Erased

LEMMA StepSpares ==
  ASSUME AllFit, Seated, FlashNext, job # NoJob, NEW a \in NorCells \ SectorsOf(job.image)
  PROVE  flash'[a] = flash[a]
<1>1. Working /\ Place /\ SectorsOf(job.image) \subseteq NorCells
  BY PartIs DEF Seated, AllFit
<1>2. CASE EraseBig \/ EraseSector
  <2>1. PICK size \in Nat \ {0} : /\ job.at + size <= SectorsEnd(Part)
                                  /\ flash' = Erased(job.at, size)
    BY <1>1, <1>2, Emptied
  <2>2. a \notin FirstSector(Part) .. SectorsEnd(Part) - 1
    BY <1>1, OwnSectors, PartIs
  <2> QED BY <1>1, <2>1, <2>2, ErasedCells
<1>3. CASE SendChunk
  <2>1. PICK n \in Nat \ {0} :
           /\ job.sent + n <= Part.len
           /\ flash' = IF job.sent \div Chunk \in Part.ff THEN flash
                       ELSE [b \in NorCells |->
                              IF b \in Part.off + job.sent .. Part.off + job.sent + n - 1
                                THEN flash[b] \cup {<<job.image, job.part>>}
                                ELSE flash[b]]
    BY <1>1, <1>3, ChunkSent
  <2>2. a \notin CellsOf(Part)
    BY <1>1, PartIs, CellsIn, OwnSectors
  <2>3. a \notin Part.off + job.sent .. Part.off + job.sent + n - 1
    BY <1>1, <2>1, <2>2, PartIs DEF CellsOf
  <2> QED BY <2>1, <2>3
<1>4. CASE SkipErased \/ NextPart \/ (\E resetAfter \in BOOLEAN : Finish(resetAfter)) \/ Interrupt
           \/ PowerCycle \/ EnterRom
  BY <1>4 DEF SkipErased, NextPart, Finish, Interrupt, PowerCycle, EnterRom
<1>5. CASE (\E image \in Images, chipErase \in BOOLEAN : Begin(image, chipErase)) \/ Handoff
  BY <1>1, <1>5 DEF Begin, Handoff, Working
<1> QED BY <1>2, <1>3, <1>4, <1>5 DEF FlashNext

\* Flashing an image that fits into the NOR never changes a cell outside the
\* sectors it needs, by erasing or by programming, wherever the session breaks off.
THEOREM SparedTheorem == ASSUME AllFit PROVE FlashSpec => OthersUntouched
<1>1. ASSUME Seated, [FlashNext]_flashVars
      PROVE  [job # NoJob => \A a \in NorCells \ SectorsOf(job.image) : flash'[a] = flash[a]]_flashVars
  BY <1>1, StepSpares
<1> QED BY SeatedAlways, <1>1, PTL DEF FlashSpec, OthersUntouched

-----------------------------------------------------------------------------
(* What a session has stored.                                                 *)

LEMMA OthersAre ==
  ASSUME Working, Undisturbed(job.image), NEW a \in NorCells, Before(a)
  PROVE  /\ a \notin CellsOf(Part)
         /\ ~(FirstSector(Part) + Sector <= a /\ a < SectorsEnd(Part))
         /\ FirstSector(Part) <= a /\ a < FirstSector(Part) + Sector =>
              /\ job.part > 1
              /\ SectorsEnd(Parts(job.image)[job.part - 1]) = FirstSector(Part) + Sector
<1>1. PICK p \in 1 .. (job.part - 1) : a \in CellsOf(Parts(job.image)[p])
  BY DEF Before
<1>2. job.part \in DOMAIN Parts(job.image) /\ Part = Parts(job.image)[job.part]
  BY DEF Working, Part
<1> DEFINE earlier == CellsOf(Parts(job.image)[p])
           second == FirstSector(Part) + Sector
<1>3. /\ earlier \cap CellsOf(Part) = {}
      /\ earlier \cap (second .. SectorsEnd(Part) - 1) = {}
      /\ earlier \cap (FirstSector(Part) .. second - 1) # {} =>
           SectorsEnd(Parts(job.image)[job.part - 1]) = second
  BY <1>2 DEF Undisturbed
<1>4. /\ a \in Nat /\ FirstSector(Part) \in Nat /\ second \in Nat /\ SectorsEnd(Part) \in Nat
      /\ job.part \in Nat /\ p \in 1 .. (job.part - 1)
  BY PartIs, GeometryFacts DEF NorCells
<1>5. a \in earlier
  BY <1>1
<1> HIDE DEF earlier
<1>6. FirstSector(Part) <= a /\ a < second => a \in FirstSector(Part) .. second - 1
  BY <1>4
<1>7. second <= a /\ a < SectorsEnd(Part) => a \in second .. SectorsEnd(Part) - 1
  BY <1>4
<1>8. job.part > 1
  BY <1>4
<1> HIDE DEF second
<1>9. /\ a \notin CellsOf(Part) /\ ~(second <= a /\ a < SectorsEnd(Part))
      /\ FirstSector(Part) <= a /\ a < second =>
              SectorsEnd(Parts(job.image)[job.part - 1]) = second
  BY <1>3, <1>5, <1>6, <1>7
<1> QED BY <1>8, <1>9 DEF second

\* Every part lies in the NOR.
LEMMA CellsInNor ==
  ASSUME NEW image \in Images, Undisturbed(image), NEW p \in DOMAIN Parts(image),
         NEW a \in CellsOf(Parts(image)[p])
  PROVE  a \in NorCells
<1>1. Parts(image)[p] \in PartRecord
  BY PartsAre
<1>2. a \in FirstSector(Parts(image)[p]) .. SectorsEnd(Parts(image)[p]) - 1
  BY <1>1, CellsIn, SectorsAre
<1> QED BY <1>2 DEF Undisturbed, SectorsOf

LEMMA BeginSession ==
  ASSUME NEW image \in Images, NEW chipErase \in BOOLEAN, Begin(image, chipErase)
  PROVE  Session'
<1>1. /\ job'.image = image /\ job'.part = 1 /\ job'.sent = 0 /\ job'.to = NorSize
      /\ Part' = Parts(image)[1] /\ Parts(image)[1] \in PartRecord
      /\ job'.at = FirstSector(Part')
  BY Begun, PartsAre DEF Part
<1>2. /\ Part'.off \in Nat /\ FirstSector(Part') \in Nat /\ FirstSector(Part') <= Part'.off
      /\ NorSize \in Nat
  BY <1>1, SectorsAre, GeometryFacts DEF PartRecord
<1>3. \A a \in CellsOf(Part') : a \in Nat /\ Part'.off <= a
  <2>1. Part'.len \in Nat
    BY <1>1 DEF PartRecord
  <2> QED BY <1>2, <2>1 DEF CellsOf
<1>4. SentOk'
  BY <1>1, <1>2, <1>3 DEF SentOk, Sent
<1>5. BlankOk'
  BY <1>1, <1>2, <1>3 DEF BlankOk
<1>6. RangeOk'
  <2>1. CASE chipErase
    <3>1. NorSize > 0 => 0 % NorSize = 0
      BY <1>2
    <3>2. flash' = Erased(0, NorSize)
      BY <2>1, Begun
    <3>4. ASSUME NEW a \in NorCells PROVE flash'[a] = {}
      <4>1. 0 % NorSize = 0 /\ a \in NorCells /\ a \in 0 .. 0 + NorSize - 1
        BY <1>2, <3>1 DEF NorCells
      <4> QED BY <3>2, <4>1 DEF Erased
    <3> QED BY <3>4 DEF RangeOk
  <2>2. CASE ~chipErase
    <3>1. job'.from = NorSize
      BY <2>2, Begun
    <3>2. \A a \in NorCells : ~(NorSize <= a /\ a < NorSize)
      BY <1>2 DEF NorCells
    <3> QED BY <1>1, <3>1, <3>2 DEF RangeOk, InRange
  <2> QED BY <2>1, <2>2
<1>7. LastOk'
  BY <1>1 DEF LastOk
<1>8. \A p \in 1 .. (job'.part - 1) : Stored(job.image, p)'
  BY <1>1
<1> QED BY <1>4, <1>5, <1>6, <1>7, <1>8 DEF Session

LEMMA SkipSession ==
  ASSUME Working, Place, Session, Undisturbed(job.image), SkipErased
  PROVE  Session'
<1>1. /\ job'.image = job.image /\ job'.part = job.part /\ job'.sent = job.sent
      /\ job'.from = job.from /\ job'.to = job.to /\ job'.at = job.at + Sector
      /\ job.sent = 0 /\ InRange(job.at) /\ flash' = flash /\ Part' = Part
  BY Skipped DEF Part
<1>2. /\ job.at \in Nat /\ FirstSector(Part) \in Nat /\ FirstSector(Part) <= job.at /\ Sector \in Nat \ {0}
      /\ job.from \in Nat /\ job.to \in Nat /\ job # NoJob
      /\ SentOk /\ BlankOk /\ RangeOk /\ LastOk
      /\ \A p \in 1 .. (job.part - 1) : Stored(job.image, p)
  BY PartIs, GeometryFacts DEF Place, Session
<1>3. job.at + Sector <= job.to
  BY <1>1, <1>2, WholeGap DEF InRange, Place
<1>4. \A a : (Before(a)' <=> Before(a)) /\ (Sent(a)' <=> Sent(a))
  BY <1>1 DEF Before, Sent
<1>5. SentOk'
  BY <1>1, <1>2, <1>4 DEF SentOk
<1>6. BlankOk'
  <2> SUFFICES ASSUME NEW a \in CellsOf(Part), ~Sent(a), a < job.at + Sector
               PROVE  flash[a] = {}
    BY <1>1, <1>4 DEF BlankOk
  <2>1. a \in Nat
    BY PartIs, CellsIn
  <2>2. CASE a < job.at
    BY <1>2, <2>2 DEF BlankOk
  <2>3. CASE job.at <= a
    <3>1. InRange(a)
      BY <1>1, <1>2, <1>3, <2>1, <2>3 DEF InRange
    <3>2. a \in NorCells
      BY PartIs, CellsInNor DEF Part, Working
    <3>3. ~Before(a)
      BY <3>2, OthersAre
    <3> QED BY <1>2, <3>1, <3>2, <3>3 DEF RangeOk
  <2> QED BY <1>2, <2>1, <2>2, <2>3
<1>7. RangeOk'
  BY <1>1, <1>2, <1>4 DEF RangeOk, InRange
<1>8. LastOk'
  <2>1. job'.at # FirstSector(Part') /\ job'.at - Sector = job.at
    BY <1>1, <1>2
  <2> QED BY <1>1, <2>1 DEF LastOk, InRange
<1>9. ASSUME NEW p \in 1 .. (job'.part - 1) PROVE Stored(job.image, p)'
  <2>1. Stored(job.image, p)
    BY <1>1, <1>2
  <2> QED BY <1>1, <2>1 DEF Stored
<1> QED BY <1>5, <1>6, <1>7, <1>8, <1>9 DEF Session

\* The erase of a sector that an earlier part lies in would be the first one for
\* this part; but the range erased last then covers it.
LEMMA ErasesNoOther ==
  ASSUME Working, Place, Session, Undisturbed(job.image), ~InRange(job.at),
         NEW a \in NorCells, Before(a)
  PROVE  ~(job.at <= a /\ a < SectorsEnd(Part))
<1> SUFFICES ASSUME job.at <= a, a < SectorsEnd(Part) PROVE FALSE
  OBVIOUS
<1>1. /\ job.at \in Nat /\ FirstSector(Part) \in Nat /\ FirstSector(Part) <= job.at /\ Sector \in Nat \ {0}
      /\ a \in Nat /\ SectorsEnd(Part) \in Nat /\ Whole(job.at) /\ Whole(FirstSector(Part)) /\ job # NoJob
  BY PartIs, GeometryFacts DEF Place, NorCells
<1>2. a < FirstSector(Part) + Sector /\ FirstSector(Part) <= a
  BY <1>1, OthersAre
<1>3. job.at = FirstSector(Part)
  <2> SUFFICES ASSUME FirstSector(Part) < job.at PROVE FALSE
    BY <1>1
  <2>1. FirstSector(Part) + Sector <= job.at
    BY <1>1, WholeGap
  <2> QED BY <1>1, <1>2, <2>1
<1>4. job.part > 1 /\ SectorsEnd(Parts(job.image)[job.part - 1]) = FirstSector(Part) + Sector
  BY <1>2, OthersAre
<1>5. InRange(SectorsEnd(Parts(job.image)[job.part - 1]) - Sector)
  BY <1>1, <1>3, <1>4 DEF Session, LastOk
<1> QED BY <1>1, <1>3, <1>4, <1>5

LEMMA EraseSession ==
  ASSUME Working, Place, Session, Undisturbed(job.image), EraseBig \/ EraseSector
  PROVE  Session'
<1>1. PICK size \in Nat \ {0} :
           /\ Whole(size) /\ job.at + size <= SectorsEnd(Part)
           /\ job'.image = job.image /\ job'.part = job.part /\ job'.sent = job.sent
           /\ job'.at = job.at + size /\ job'.from = job.at /\ job'.to = job.at + size
           /\ job.sent = 0 /\ ~InRange(job.at)
           /\ flash' = Erased(job.at, size)
  BY Emptied
<1>2. /\ job.at \in Nat /\ FirstSector(Part) \in Nat /\ FirstSector(Part) <= job.at /\ Sector \in Nat \ {0}
      /\ SectorsEnd(Part) \in Nat /\ Part.off \in Nat /\ Part.len \in Nat
      /\ job # NoJob /\ job.image \in Images /\ job.part \in Nat
      /\ SentOk /\ BlankOk /\ RangeOk /\ LastOk
      /\ \A p \in 1 .. (job.part - 1) : Stored(job.image, p)
  BY PartIs, GeometryFacts DEF Place, Session
<1>3. Part' = Part
  BY <1>1 DEF Part
<1>4. /\ \A a \in NorCells : flash'[a] = IF a \in job.at .. job.at + size - 1 THEN {} ELSE flash[a]
      /\ job.at .. job.at + size - 1 \subseteq NorCells
  <2>1. SectorsOf(job.image) \subseteq NorCells
    BY DEF Undisturbed
  <2> QED BY <1>1, <2>1, ErasedCells
<1>5. \A a \in CellsOf(Part) : ~Sent(a) /\ ~Sent(a)'
  BY <1>1, <1>2, <1>3 DEF Sent, CellsOf
<1>6. SentOk'
  BY <1>3, <1>5 DEF SentOk
<1>7. BlankOk'
  <2> SUFFICES ASSUME NEW a \in CellsOf(Part), a < job.at + size PROVE flash'[a] = {}
    BY <1>1, <1>3 DEF BlankOk
  <2>1. a \in NorCells
    BY <1>2, CellsInNor DEF Part, Working
  <2>2. a < job.at => flash[a] = {}
    BY <1>2, <1>5 DEF BlankOk
  <2>3. a \in Nat
    BY <2>1, GeometryFacts DEF NorCells
  <2> QED BY <1>1, <1>2, <1>4, <2>1, <2>2, <2>3
<1>8. RangeOk'
  <2> SUFFICES ASSUME NEW a \in NorCells, job.at <= a, a < job.at + size PROVE flash'[a] = {}
    BY <1>1 DEF RangeOk, InRange
  <2>1. a \in job.at .. job.at + size - 1
    BY <1>2, GeometryFacts DEF NorCells
  <2> QED BY <1>4, <2>1
<1>9. LastOk'
  <2>1. job'.at # FirstSector(Part') /\ job.at + Sector <= job.at + size
    <3>1. Sector <= size
      BY <1>1, <1>2, WholeGap, NorWhole, 0 + Sector = Sector
    <3> QED BY <1>1, <1>2, <1>3, <3>1
  <2>2. job.at <= job'.at - Sector /\ job'.at - Sector < job.at + size
    BY <1>1, <1>2, <2>1
  <2> QED BY <1>1, <2>1, <2>2 DEF LastOk, InRange
<1>10. ASSUME NEW p \in 1 .. (job'.part - 1) PROVE Stored(job.image, p)'
  <2>1. p \in 1 .. (job.part - 1) /\ p \in DOMAIN Parts(job.image) /\ Stored(job.image, p)
    BY <1>1, <1>2, PartIs
  <2>2. ASSUME NEW a \in CellsOf(Parts(job.image)[p]) PROVE flash'[a] = flash[a]
    <3>1. a \in NorCells /\ Before(a)
      BY <1>2, <2>1, CellsInNor DEF Before
    <3>2. ~(job.at <= a /\ a < SectorsEnd(Part)) /\ a \in Nat
      BY <1>1, <3>1, ErasesNoOther, GeometryFacts DEF NorCells
    <3> QED BY <1>1, <1>2, <1>4, <3>1, <3>2
  <2> QED BY <1>1, <2>1, <2>2 DEF Stored
<1> QED BY <1>6, <1>7, <1>8, <1>9, <1>10 DEF Session

\* A chunk is one entry of the part: its cells are those of one index.
LEMMA OneChunk ==
  ASSUME Working, job.sent % Chunk = 0, NEW n \in Nat \ {0}, n <= Chunk,
         NEW a \in Part.off + job.sent .. Part.off + job.sent + n - 1
  PROVE  (a - Part.off) \div Chunk = job.sent \div Chunk
<1>1. Chunk \in Nat \ {0} /\ job.sent \in Int /\ Part.off \in Int
  BY PartIs, GeometryFacts
<1> DEFINE k == job.sent \div Chunk
           r == a - Part.off - job.sent
<1>2. job.sent = Chunk * k /\ k \in Int
  <2>1. job.sent = Chunk * k + (job.sent % Chunk) /\ k \in Int
    BY <1>1, Division
  <2> HIDE DEF k
  <2> QED BY <1>1, <2>1
<1>3. r \in 0 .. Chunk - 1 /\ a - Part.off = job.sent + r
  BY <1>1
<1> HIDE DEF k, r
<1>4. (Chunk * k + r) \div Chunk = k
  BY <1>1, <1>2, <1>3, Remainders
<1> QED BY <1>2, <1>3, <1>4 DEF k

LEMMA SendSession ==
  ASSUME Seated, Working, Place, Session, Undisturbed(job.image), SendChunk
  PROVE  Session'
<1>1. PICK n \in Nat \ {0} :
           /\ job'.image = job.image /\ job'.part = job.part /\ job'.sent = job.sent + n
           /\ job'.at = job.at /\ job'.from = job.from /\ job'.to = job.to
           /\ job.left = 0 /\ n <= Chunk /\ job.sent + n <= Part.len
           /\ job.sent % Chunk = 0
           /\ flash' = IF job.sent \div Chunk \in Part.ff THEN flash
                       ELSE [a \in NorCells |->
                              IF a \in Part.off + job.sent .. Part.off + job.sent + n - 1
                                THEN flash[a] \cup {<<job.image, job.part>>}
                                ELSE flash[a]]
  BY ChunkSent
<1>2. /\ job.at = SectorsEnd(Part) /\ job.sent \in Nat /\ Part.off \in Nat /\ Part.len \in Nat
      /\ Part \in PartRecord /\ job # NoJob /\ job.image \in Images /\ job.part \in Nat
      /\ SentOk /\ BlankOk /\ RangeOk /\ LastOk
      /\ \A p \in 1 .. (job.part - 1) : Stored(job.image, p)
  BY <1>1, PlaceIs, PartIs DEF Session
<1>3. Part' = Part /\ \A a : Before(a)' <=> Before(a)
  BY <1>1 DEF Part, Before
<1> DEFINE new == Part.off + job.sent .. Part.off + job.sent + n - 1
<1>4. /\ new \subseteq CellsOf(Part) /\ \A a \in new : ~Sent(a)
      /\ \A a \in CellsOf(Part) : Sent(a)' <=> Sent(a) \/ a \in new
      /\ \A a : Sent(a) => a \in CellsOf(Part) /\ Sent(a)'
  BY <1>1, <1>2, <1>3 DEF Sent, CellsOf
<1>5. ASSUME NEW a \in new
      PROVE  flash'[a] = IF IsBlank(Part, a) THEN {} ELSE {<<job.image, job.part>>}
  <2>1. a \in CellsOf(Part) /\ ~Sent(a) /\ a < job.at
    BY <1>2, <1>4, CellsIn
  <2>2. flash[a] = {}
    BY <1>2, <2>1 DEF BlankOk
  <2>3. a \in NorCells
    BY <1>2, <2>1, CellsInNor DEF Part, Working
  <2>4. IsBlank(Part, a) <=> job.sent \div Chunk \in Part.ff
    BY <1>1, OneChunk DEF IsBlank
  <2> QED BY <1>1, <2>2, <2>3, <2>4
<1>6. /\ \A a \in NorCells : a \notin new => flash'[a] = flash[a]
      /\ CellsOf(Part) \subseteq NorCells
  BY <1>1, <1>2, CellsInNor DEF Part, Working
<1>7. SentOk'
  BY <1>1, <1>2, <1>3, <1>4, <1>5, <1>6 DEF SentOk
<1>8. BlankOk'
  BY <1>1, <1>2, <1>3, <1>4, <1>6 DEF BlankOk
<1>9. RangeOk'
  <2> SUFFICES ASSUME NEW a \in NorCells, InRange(a), ~Before(a), ~Sent(a)'
               PROVE  flash'[a] = {}
    BY <1>1, <1>3 DEF RangeOk, InRange
  <2>1. a \notin new /\ ~Sent(a)
    BY <1>4
  <2> QED BY <1>2, <1>6, <2>1 DEF RangeOk
<1>10. LastOk'
  BY <1>1, <1>2, <1>3 DEF LastOk, InRange
<1>11. ASSUME NEW p \in 1 .. (job'.part - 1) PROVE Stored(job.image, p)'
  <2>1. p \in 1 .. (job.part - 1) /\ p \in DOMAIN Parts(job.image) /\ Stored(job.image, p)
    BY <1>1, <1>2, PartIs
  <2>2. ASSUME NEW a \in CellsOf(Parts(job.image)[p]) PROVE flash'[a] = flash[a]
    <3>1. a \in NorCells /\ Before(a)
      BY <1>2, <2>1, CellsInNor DEF Before
    <3>2. a \notin CellsOf(Part)
      BY <3>1, OthersAre
    <3> QED BY <1>4, <1>6, <3>1, <3>2
  <2> QED BY <1>1, <2>1, <2>2 DEF Stored
<1> QED BY <1>7, <1>8, <1>9, <1>10, <1>11 DEF Session

\* The part before has ended where the next one may begin.
LEMMA NextSession ==
  ASSUME Working, Place, Session, Undisturbed(job.image), NextPart
  PROVE  Session'
<1>1. /\ job'.image = job.image /\ job'.part = job.part + 1
      /\ job'.at = FirstSector(Parts(job.image)[job.part + 1]) /\ job'.sent = 0
      /\ job'.from = job.from /\ job'.to = job.to
      /\ job.part + 1 \in DOMAIN Parts(job.image)
      /\ job.left = 0 /\ job.sent = Part.len /\ flash' = flash
  BY NextIs
<1>2. /\ job.at = SectorsEnd(Part) /\ job.at # FirstSector(Part)
      /\ Part.off \in Nat /\ Part.len \in Nat
      /\ job # NoJob /\ job.image \in Images /\ job.part \in Nat
      /\ SentOk /\ BlankOk /\ RangeOk /\ LastOk
      /\ \A p \in 1 .. (job.part - 1) : Stored(job.image, p)
  BY <1>1, PlaceIs, PartIs DEF Session
<1>3. Part' = Parts(job.image)[job.part + 1] /\ Part' \in PartRecord
  BY <1>1, <1>2, PartsAre DEF Part
<1>4. /\ Part'.off \in Nat /\ Part'.len \in Nat
      /\ FirstSector(Part') \in Nat /\ FirstSector(Part') <= Part'.off
  BY <1>3, SectorsAre DEF PartRecord
<1>5. \A a \in CellsOf(Part') : a \in Nat /\ Part'.off <= a
  BY <1>4 DEF CellsOf
<1>6. SentOk'
  BY <1>1, <1>4, <1>5 DEF SentOk, Sent
<1>7. BlankOk'
  <2> SUFFICES ASSUME NEW a \in CellsOf(Part'), a < job'.at PROVE FALSE
    BY DEF BlankOk
  <2> QED BY <1>1, <1>3, <1>4, <1>5
<1>8. \A a : a \in CellsOf(Part) <=> Sent(a)
  BY <1>1, <1>2 DEF Sent, CellsOf
<1>9. RangeOk'
  <2> SUFFICES ASSUME NEW a \in NorCells, InRange(a), ~Before(a)' PROVE flash[a] = {}
    BY <1>1 DEF RangeOk, InRange
  <2>1. ~Before(a) /\ a \notin CellsOf(Part)
    <3>1. \A p \in 1 .. job.part : a \notin CellsOf(Parts(job.image)[p])
      BY <1>1, <1>2 DEF Before
    <3>2. job.part \in 1 .. job.part /\ 1 .. (job.part - 1) \subseteq 1 .. job.part
      BY PartIs
    <3> QED BY <3>1, <3>2 DEF Before, Part
  <2> QED BY <1>2, <1>8, <2>1 DEF RangeOk
<1>10. LastOk'
  <2>1. InRange(SectorsEnd(Part) - Sector)
    BY <1>2 DEF LastOk
  <2>2. Parts(job'.image)[job'.part - 1] = Part
    BY <1>1, <1>2 DEF Part
  <2>3. /\ job'.from <= SectorsEnd(Parts(job'.image)[job'.part - 1]) - Sector
        /\ SectorsEnd(Parts(job'.image)[job'.part - 1]) - Sector < job'.to
    BY <1>1, <2>1, <2>2 DEF InRange
  <2>4. job'.at = FirstSector(Part')
    BY <1>1, <1>3
  <2> QED BY <2>3, <2>4 DEF LastOk, InRange
<1>11. ASSUME NEW p \in 1 .. (job'.part - 1) PROVE Stored(job.image, p)'
  <2>1. Stored(job.image, p)
    <3>1. CASE p = job.part
      BY <1>2, <1>8, <3>1 DEF SentOk, Stored, Part
    <3>2. CASE p # job.part
      BY <1>1, <1>2, <3>2
    <3> QED BY <3>1, <3>2
  <2> QED BY <1>1, <2>1 DEF Stored
<1> QED BY <1>6, <1>7, <1>9, <1>10, <1>11, <1>1 DEF Session

\* The last part is done: all of them can be read back.
LEMMA FinishStores ==
  ASSUME Working, Place, Session, NEW resetAfter \in BOOLEAN, Finish(resetAfter)
  PROVE  FlashedImageReadsBack'
<1>1. /\ job.left = 0 /\ job.sent = Part.len /\ job.part = Len(Parts(job.image))
      /\ report' = job.image /\ flash' = flash
  BY DEF Finish, PartDone, Programming
<1>2. /\ Part.off \in Nat /\ Part.len \in Nat /\ job # NoJob /\ job.image \in Images /\ job.part \in Nat
      /\ SentOk /\ \A p \in 1 .. (job.part - 1) : Stored(job.image, p)
  BY PartIs DEF Session
<1>3. \A a \in CellsOf(Part) : Sent(a)
  BY <1>1, <1>2 DEF Sent, CellsOf
<1>4. DOMAIN Parts(job.image) = 1 .. job.part
  BY <1>1, <1>2, PartsAre
<1>5. ASSUME NEW p \in DOMAIN Parts(job.image) PROVE Stored(job.image, p)
  <2>1. CASE p = job.part
    BY <1>2, <1>3, <2>1 DEF SentOk, Stored, Part
  <2>2. CASE p # job.part
    BY <1>2, <1>4, <2>2
  <2> QED BY <2>1, <2>2
<1> QED BY <1>1, <1>5 DEF FlashedImageReadsBack, Stored

\* The images whose parts stay off each other, in the NOR.
AllUndisturbed == \A image \in Images : Undisturbed(image)

LEMMA FlashInvFirst == FlashInit => FlashInv
BY SeatedFirst DEF FlashInit, FlashInv, Session, FlashedImageReadsBack

LEMMA FlashInvKept == ASSUME AllUndisturbed, FlashInv, [FlashNext]_flashVars PROVE FlashInv'
<1>1. Seated /\ Session /\ FlashedImageReadsBack /\ Seated'
  BY SeatedKept DEF FlashInv
<1>2. CASE \E image \in Images, chipErase \in BOOLEAN : Begin(image, chipErase)
  <2>1. report' = NoReport
    BY <1>2 DEF Begin
  <2> QED BY <1>1, <1>2, <2>1, BeginSession DEF FlashInv, FlashedImageReadsBack
<1>3. CASE SkipErased \/ EraseBig \/ EraseSector \/ SendChunk \/ NextPart
  <2>1. job # NoJob
    BY <1>3 DEF SkipErased, EraseBig, EraseSector, Erasing, SendChunk, Programming, NextPart, PartDone
  <2>2. Working /\ Place /\ Undisturbed(job.image)
    BY <1>1, <2>1, PartIs DEF Seated, AllUndisturbed
  <2>3. report' = NoReport
    BY <1>3, <2>2 DEF Working, SkipErased, EraseBig, EraseSector, EraseAt, SendChunk, NextPart
  <2>4. Session'
    BY <1>1, <1>3, <2>2, SkipSession, EraseSession, SendSession, NextSession
  <2> QED BY <1>1, <2>3, <2>4 DEF FlashInv, FlashedImageReadsBack
<1>4. CASE \E resetAfter \in BOOLEAN : Finish(resetAfter)
  <2>1. job # NoJob /\ job' = NoJob
    BY <1>4 DEF Finish, PartDone, Programming
  <2>2. Working /\ Place
    BY <1>1, <2>1 DEF Seated
  <2>3. FlashedImageReadsBack'
    BY <1>1, <1>4, <2>2, FinishStores
  <2> QED BY <1>1, <2>1, <2>3 DEF FlashInv, Session
<1>5. CASE Interrupt \/ PowerCycle
  BY <1>1, <1>5 DEF Interrupt, PowerCycle, FlashInv, Session, FlashedImageReadsBack, Stored
<1>6. CASE Handoff \/ EnterRom
  <2>1. job = NoJob /\ job' = NoJob
    BY <1>1, <1>6 DEF Handoff, EnterRom, Seated, Working
  <2>2. FlashedImageReadsBack'
    BY <1>1, <1>6 DEF Handoff, EnterRom, FlashedImageReadsBack, Stored
  <2> QED BY <1>1, <2>1, <2>2 DEF FlashInv, Session
<1>7. CASE UNCHANGED flashVars
  <2>1. Session'
    BY <1>1, <1>7 DEF flashVars, Session, Stored, SentOk, BlankOk, RangeOk, LastOk, InRange,
                      Sent, Before, Part
  <2>2. FlashedImageReadsBack'
    BY <1>1, <1>7 DEF flashVars, FlashedImageReadsBack, Stored
  <2> QED BY <1>1, <2>1, <2>2 DEF FlashInv
<1> QED BY <1>2, <1>3, <1>4, <1>5, <1>6, <1>7 DEF FlashNext

\* A session that reports success has left every part of its image in the NOR,
\* whatever earlier sessions left there and wherever they broke off, for every
\* list of images whose parts stay off each other, and every geometry.
THEOREM ReadsBackTheorem == ASSUME AllUndisturbed PROVE FlashSpec => []FlashedImageReadsBack
<1>1. FlashInit => FlashInv
  BY FlashInvFirst
<1>2. FlashInv /\ [FlashNext]_flashVars => FlashInv'
  BY FlashInvKept
<1>3. FlashInv => FlashedImageReadsBack
  BY DEF FlashInv
<1> QED BY <1>1, <1>2, <1>3, PTL DEF FlashSpec

-----------------------------------------------------------------------------
(* HEX files. *)

\* A set of places in a list has a last one.
LEMMA LastPlace ==
  ASSUME NEW n \in Nat, NEW I \in SUBSET (1 .. n), I # {}
  PROVE  Max(I) \in I /\ \A i \in I : i <= Max(I)
<1> DEFINE J == {n - i : i \in I}
<1>1. J \in SUBSET Nat /\ J # {}
  <2>1. \A i \in I : i \in 1 .. n /\ n - i \in Nat
    OBVIOUS
  <2> QED BY <2>1
<1>2. PICK j \in J : \A k \in J : j <= k
  <2> HIDE DEF J
  <2> QED BY <1>1, LeastElement
<1>3. PICK m \in I : j = n - m
  OBVIOUS
<1>4. \A i \in I : m >= i
  <2> SUFFICES ASSUME NEW i \in I PROVE m >= i
    OBVIOUS
  <2>1. n - i \in J /\ i \in Nat /\ m \in Nat
    OBVIOUS
  <2>2. n - m <= n - i
    BY <1>2, <1>3, <2>1
  <2> HIDE DEF J
  <2> QED BY <2>1, <2>2
<1>5. Max(I) \in I /\ \A i \in I : Max(I) >= i
  BY <1>3, <1>4 DEF Max
<1> QED BY <1>5

LineRecord == [kind : LineKinds, at : Nat, bytes : Seq(Bytes), sum : BOOLEAN]
Byte == Nat \X Bytes
Reading == [ok : BOOLEAN, end : BOOLEAN, base : Nat, entry : Nat \cup {NoEntry}, bytes : Seq(Byte)]

LEMMA HexFacts ==
  /\ LowSize \in Nat \ {0} /\ RecordBytes \in Nat \ {0} /\ SramBase \in Nat /\ SramBase >= MaxFlash
  /\ DefaultStart \in Nat /\ HeaderOff + HeaderLen <= StoreOff
BY HexAssumption

LEMMA AddressedType ==
  ASSUME NEW base \in Nat, NEW line \in LineRecord
  PROVE  /\ Addressed(base, line) \in Seq(Byte)
         /\ Len(Addressed(base, line)) = Len(line.bytes) /\ Len(line.bytes) \in Nat
         /\ \A i \in 1 .. Len(line.bytes) :
              Addressed(base, line)[i] = <<base + line.at + i - 1, line.bytes[i]>>
<1>1. /\ line.at \in Nat /\ line.bytes \in Seq(Bytes) /\ DOMAIN line.bytes = 1 .. Len(line.bytes)
      /\ Len(line.bytes) \in Nat
  BY DEF LineRecord
<1>2. \A i \in 1 .. Len(line.bytes) : <<base + line.at + i - 1, line.bytes[i]>> \in Byte
  BY <1>1 DEF Byte
<1> QED BY <1>1, <1>2 DEF Addressed

LEMMA ReadLineIs ==
  ASSUME NEW read, NEW line, line.kind \in LineKinds
  PROVE  /\ read.end \/ ~read.ok => ReadLine(read, line) = read /\ LoadLine(read, line) = read
         /\ ~read.end /\ read.ok =>
              /\ line.kind = "comment" => ReadLine(read, line) = read /\ LoadLine(read, line) = read
              /\ line.kind \in {"text", "unknown"} => ReadLine(read, line) = [read EXCEPT !.ok = FALSE]
              /\ line.kind # "comment" /\ ~line.sum => ReadLine(read, line) = [read EXCEPT !.ok = FALSE]
              /\ line.kind = "data" =>
                   /\ line.sum => ReadLine(read, line) = [read EXCEPT !.bytes = @ \o Addressed(read.base, line)]
                   /\ LoadLine(read, line) = [read EXCEPT !.bytes = @ \o Addressed(read.base, line)]
              /\ line.kind = "base" =>
                   /\ line.sum => ReadLine(read, line) = [read EXCEPT !.base = line.at * LowSize]
                   /\ LoadLine(read, line) = [read EXCEPT !.base = line.at * LowSize]
              /\ line.kind = "start" =>
                   /\ line.sum => ReadLine(read, line) = [read EXCEPT !.entry = line.at]
                   /\ LoadLine(read, line) = read
              /\ line.kind = "end" =>
                   /\ line.sum => ReadLine(read, line) = [read EXCEPT !.end = TRUE]
                   /\ LoadLine(read, line) = [read EXCEPT !.end = TRUE]
              /\ line.kind = "unknown" => LoadLine(read, line) = [read EXCEPT !.ok = FALSE]
              /\ line.kind = "text" => LoadLine(read, line) = read
<1>1. read.end \/ ~read.ok => ReadLine(read, line) = read /\ LoadLine(read, line) = read
  BY DEF ReadLine, LoadLine
<1>2. CASE ~read.end /\ read.ok /\ line.kind = "data"
  BY <1>2 DEF ReadLine, LoadLine
<1>3. CASE ~read.end /\ read.ok /\ line.kind = "base"
  BY <1>3 DEF ReadLine, LoadLine, ReadBase
<1>4. CASE ~read.end /\ read.ok /\ line.kind = "start"
  BY <1>4 DEF ReadLine, LoadLine
<1>5. CASE ~read.end /\ read.ok /\ line.kind = "end"
  BY <1>5 DEF ReadLine, LoadLine
<1>6. CASE ~read.end /\ read.ok /\ line.kind \in {"comment", "text", "unknown"}
  BY <1>6 DEF ReadLine, LoadLine
<1> QED BY <1>1, <1>2, <1>3, <1>4, <1>5, <1>6 DEF LineKinds

LEMMA ReadLineType ==
  ASSUME NEW read \in Reading, NEW line \in LineRecord
  PROVE  ReadLine(read, line) \in Reading /\ LoadLine(read, line) \in Reading
<1>1. /\ line.kind \in LineKinds /\ line.at \in Nat /\ line.sum \in BOOLEAN
      /\ read.bytes \in Seq(Byte) /\ read.base \in Nat /\ read.ok \in BOOLEAN /\ read.end \in BOOLEAN
      /\ read.entry \in Nat \cup {NoEntry}
  BY DEF LineRecord, Reading
<1>2. Addressed(read.base, line) \in Seq(Byte)
  BY <1>1, AddressedType
<1>3. read.bytes \o Addressed(read.base, line) \in Seq(Byte) /\ line.at * LowSize \in Nat
  BY <1>1, <1>2, HexFacts, ConcatProperties
<1> DEFINE good == {read, [read EXCEPT !.ok = FALSE],
                    [read EXCEPT !.bytes = @ \o Addressed(read.base, line)],
                    [read EXCEPT !.base = line.at * LowSize],
                    [read EXCEPT !.entry = line.at], [read EXCEPT !.end = TRUE]}
<1>4. good \subseteq Reading
  BY <1>1, <1>3 DEF Reading
<1>5. /\ ReadLine(read, line) = read \/ ReadLine(read, line) \in good
      /\ LoadLine(read, line) = read \/ LoadLine(read, line) \in good
  <2>1. CASE read.end \/ ~read.ok
    BY <1>1, <2>1, ReadLineIs
  <2>2. CASE ~read.end /\ read.ok
    <3> DEFINE r == ReadLine(read, line)
               l == LoadLine(read, line)
    <3>1. r \in good /\ l \in good
      <4> HIDE DEF r, l
      <4>1. CASE line.kind = "data"
        BY <1>1, <2>2, <4>1, ReadLineIs DEF r, l
      <4>2. CASE line.kind = "base"
        BY <1>1, <2>2, <4>2, ReadLineIs DEF r, l
      <4>3. CASE line.kind = "start"
        BY <1>1, <2>2, <4>3, ReadLineIs DEF r, l
      <4>4. CASE line.kind = "end"
        BY <1>1, <2>2, <4>4, ReadLineIs DEF r, l
      <4>5. CASE line.kind \in {"comment", "text", "unknown"}
        BY <1>1, <2>2, <4>5, ReadLineIs DEF r, l
      <4> QED BY <1>1, <4>1, <4>2, <4>3, <4>4, <4>5 DEF LineKinds
    <3> QED BY <3>1
  <2> QED BY <2>1, <2>2
<1> HIDE DEF good
<1> QED BY <1>4, <1>5

\* The readings of a file, line after line.
ReadsSteps(lines, read) ==
  /\ read \in [0 .. Len(lines) -> Reading]
  /\ read[0] = NothingRead
  /\ \A k \in 1 .. Len(lines) : read[k] = ReadLine(read[k - 1], lines[k])

ParseSteps(lines, read) ==
  /\ read \in [0 .. Len(lines) -> Reading]
  /\ read[0] = NothingRead
  /\ \A k \in 1 .. Len(lines) : read[k] = LoadLine(read[k - 1], lines[k])

LEMMA NothingType == NothingRead \in Reading
BY DEF NothingRead, Reading

LEMMA ReadSteps ==
  ASSUME NEW lines \in Seq(LineRecord)
  PROVE  /\ \E read : ReadsSteps(lines, read)
         /\ \A read : ReadsSteps(lines, read) => Read(lines) = read[Len(lines)]
<1> DEFINE n == Len(lines)
           step == [p \in Reading \X (1 .. n) |-> ReadLine(p[1], lines[p[2]])]
           turn(f) == [k \in 0 .. n |-> IF k = 0 THEN NothingRead ELSE ReadLine(f[k - 1], lines[k])]
           own == CHOOSE f : f = turn(f)
<1>1. n \in Nat /\ \A k \in 1 .. n : lines[k] \in LineRecord
  OBVIOUS
<1>2. step \in [Reading \X (1 .. n) -> Reading]
  <2>1. \A p \in Reading \X (1 .. n) : ReadLine(p[1], lines[p[2]]) \in Reading
    BY <1>1, ReadLineType
  <2> QED BY <2>1
<1>3. Read(lines) = own[n]
  BY DEF Read
<1>4. \A r \in Reading, k \in 1 .. n : step[<<r, k>>] = ReadLine(r, lines[k])
  OBVIOUS
<1> HIDE DEF step
<1>5. PICK f : Recursion(f, n, Reading, NothingRead, step)
  <2>1. StepOn(step, n, Reading)
    BY <1>2 DEF StepOn
  <2> HIDE DEF n, own
  <2> QED BY <1>1, <2>1, NothingType, RecursionExists
<1>6. ReadsSteps(lines, f)
  BY <1>1, <1>4, <1>5 DEF ReadsSteps, Recursion
<1>7. ASSUME NEW g, ReadsSteps(lines, g) PROVE own[n] = g[n]
  <2>1. g = turn(g)
    <3>1. \A k \in 0 .. n : g[k] = turn(g)[k]
      BY <1>7 DEF ReadsSteps
    <3> QED BY <1>7, <3>1 DEF ReadsSteps
  <2>2. own = turn(own)
    <3> HIDE DEF turn
    <3> QED BY <2>1
  <2> HIDE DEF own
  <2>3. Recursion(g, n, Reading, NothingRead, step)
    <3>1. \A k \in 1 .. n : k - 1 \in 0 .. n
      BY <1>1
    <3>2. g \in [0 .. n -> Reading] /\ g[0] = NothingRead
      BY <1>7 DEF ReadsSteps
    <3>3. \A k \in 1 .. n : g[k] = step[<<g[k - 1], k>>]
      BY <1>4, <1>7, <3>1, <3>2 DEF ReadsSteps
    <3> QED BY <3>2, <3>3 DEF Recursion
  <2>4. Follows(own, n, Reading, NothingRead, step)
    BY <1>1, <1>4, <2>2 DEF Follows
  <2>6. \A k \in 0 .. n : own[k] = g[k]
    <3> HIDE DEF n
    <3> QED BY <1>1, <2>3, <2>4, RecursionSame
  <2> QED BY <1>1, <2>6
<1> QED BY <1>3, <1>6, <1>7

LEMMA ParseIs ==
  ASSUME NEW lines \in Seq(LineRecord)
  PROVE  \E f : ParseSteps(lines, f) /\ Parse(lines) = f[Len(lines)]
<1> DEFINE n == Len(lines)
           step == [p \in Reading \X (1 .. n) |-> LoadLine(p[1], lines[p[2]])]
           turn(f) == [k \in 0 .. n |-> IF k = 0 THEN NothingRead ELSE LoadLine(f[k - 1], lines[k])]
           own == CHOOSE f : f = turn(f)
<1>0. n \in Nat
  OBVIOUS
<1>1. n \in Nat /\ \A k \in 1 .. n : lines[k] \in LineRecord
  OBVIOUS
<1>2. step \in [Reading \X (1 .. n) -> Reading] /\ NothingRead \in Reading
  <2>1. \A p \in Reading \X (1 .. n) : LoadLine(p[1], lines[p[2]]) \in Reading
    BY <1>1, ReadLineType
  <2>2. NothingRead \in Reading
    BY NothingType
  <2> QED BY <2>1, <2>2
<1>3. Parse(lines) = own[n]
  BY DEF Parse
<1>4. \A r \in Reading, k \in 1 .. n : step[<<r, k>>] = LoadLine(r, lines[k])
  OBVIOUS
<1> HIDE DEF step
<1>5. PICK f : Recursion(f, n, Reading, NothingRead, step)
  <2>1. StepOn(step, n, Reading)
    BY <1>2 DEF StepOn
  <2> HIDE DEF n, own
  <2> QED BY <1>0, <1>2, <2>1, RecursionExists
<1>6. /\ f \in [0 .. n -> Reading] /\ f[0] = NothingRead
      /\ \A k \in 1 .. n : f[k] = step[<<f[k - 1], k>>]
  BY <1>5 DEF Recursion
<1>7. \A k \in 1 .. n : k - 1 \in 0 .. n /\ f[k - 1] \in Reading
  BY <1>1, <1>6
<1>8. own = turn(own)
  <2>1. f = turn(f)
    <3>1. \A k \in 1 .. n : f[k] = LoadLine(f[k - 1], lines[k])
      BY <1>4, <1>6, <1>7
    <3>2. \A k \in 0 .. n : f[k] = turn(f)[k]
      BY <1>6, <3>1
    <3> QED BY <1>6, <3>2
  <2> HIDE DEF turn
  <2> QED BY <2>1
<1> HIDE DEF own
<1>9. /\ own = [k \in 0 .. n |-> own[k]] /\ own[0] = NothingRead
      /\ \A k \in 1 .. n : own[k] = LoadLine(own[k - 1], lines[k])
  BY <1>1, <1>8
<1> HIDE DEF turn
<1>10. \A k \in 0 .. n : own[k] = f[k]
  <2>1. Follows(own, n, Reading, NothingRead, step)
    BY <1>4, <1>9 DEF Follows
  <2> HIDE DEF n
  <2> QED BY <1>0, <1>5, <2>1, RecursionSame
<1>11. ParseSteps(lines, own)
  <2>1. own \in [0 .. n -> Reading]
    BY <1>6, <1>9, <1>10
  <2> QED BY <1>9, <2>1 DEF ParseSteps
<1> QED BY <1>3, <1>11

\* One line more.
LEMMA ReadAppend ==
  ASSUME NEW lines \in Seq(LineRecord), NEW line \in LineRecord
  PROVE  /\ Read(lines) \in Reading
         /\ Append(lines, line) \in Seq(LineRecord)
         /\ Read(Append(lines, line)) = ReadLine(Read(lines), line)
<1>1. PICK f : ReadsSteps(lines, f)
  BY ReadSteps
<1> DEFINE more == Append(lines, line)
           next == ReadLine(f[Len(lines)], line)
           g == [k \in 0 .. Len(lines) + 1 |-> IF k <= Len(lines) THEN f[k] ELSE next]
<1>2. /\ more \in Seq(LineRecord) /\ Len(more) = Len(lines) + 1 /\ more[Len(lines) + 1] = line
      /\ \A k \in 1 .. Len(lines) : more[k] = lines[k]
      /\ Len(lines) \in Nat
  BY AppendProperties
<1>3. f[Len(lines)] \in Reading /\ next \in Reading
  <2>1. f[Len(lines)] \in Reading
    BY <1>1, <1>2 DEF ReadsSteps
  <2> QED BY <2>1, ReadLineType
<1> HIDE DEF more, next
<1>4. /\ g \in [0 .. Len(more) -> Reading] /\ g[Len(more)] = next
      /\ \A k \in 0 .. Len(lines) : g[k] = f[k]
  BY <1>1, <1>2, <1>3 DEF ReadsSteps
<1> HIDE DEF g
<1>5. ASSUME NEW k \in 1 .. Len(more) PROVE g[k] = ReadLine(g[k - 1], more[k])
  <2>1. CASE k \in 1 .. Len(lines)
    <3>1. g[k] = f[k] /\ g[k - 1] = f[k - 1] /\ more[k] = lines[k]
      BY <1>2, <1>4, <2>1
    <3> QED BY <1>1, <2>1, <3>1 DEF ReadsSteps
  <2>2. CASE k = Len(lines) + 1
    <3>1. g[k - 1] = f[Len(lines)] /\ g[k] = next /\ more[k] = line
      BY <1>2, <1>4, <2>2
    <3> QED BY <3>1 DEF next
  <2> QED BY <1>2, <2>1, <2>2
<1>6. ReadsSteps(more, g)
  <2>1. g[0] = NothingRead
    BY <1>1, <1>2, <1>4 DEF ReadsSteps
  <2> QED BY <1>4, <1>5, <2>1 DEF ReadsSteps
<1>7. Read(lines) = f[Len(lines)] /\ Read(more) = g[Len(more)]
  <2>1. Read(lines) = f[Len(lines)]
    BY <1>1, ReadSteps
  <2>2. Read(more) = g[Len(more)]
    BY <1>2, <1>6, ReadSteps
  <2> QED BY <2>1, <2>2
<1> QED BY <1>2, <1>3, <1>4, <1>7 DEF more, next

LEMMA ReadingType ==
  ASSUME NEW lines \in Seq(LineRecord)
  PROVE  Read(lines) \in Reading /\ Parse(lines) \in Reading
<1>1. PICK f : ReadsSteps(lines, f) /\ Read(lines) = f[Len(lines)]
  BY ReadSteps
<1>2. PICK g : ParseSteps(lines, g) /\ Parse(lines) = g[Len(lines)]
  BY ParseIs
<1>3. Len(lines) \in 0 .. Len(lines)
  OBVIOUS
<1> QED BY <1>1, <1>2, <1>3 DEF ReadsSteps, ParseSteps

\* A file that the programmer reads is read by the emulator, with the same bytes.
LEMMA ParseFollows ==
  ASSUME NEW lines \in Seq(LineRecord), Read(lines).ok
  PROVE  Parse(lines).bytes = Read(lines).bytes
<1>1. PICK f : ReadsSteps(lines, f) /\ Read(lines) = f[Len(lines)]
  BY ReadSteps
<1>2. PICK g : ParseSteps(lines, g) /\ Parse(lines) = g[Len(lines)]
  BY ParseIs
<1> DEFINE Alike(r, l) == r.ok => l.ok /\ l.end = r.end /\ l.base = r.base /\ l.bytes = r.bytes
           alike == {k \in Nat : k <= Len(lines) => Alike(f[k], g[k])}
<1>3. ASSUME NEW r \in Reading, NEW l \in Reading, NEW line \in LineRecord, Alike(r, l)
      PROVE  Alike(ReadLine(r, line), LoadLine(l, line))
  <2> SUFFICES ASSUME ReadLine(r, line).ok PROVE Alike(ReadLine(r, line), LoadLine(l, line))
    OBVIOUS
  <2>1. line.kind \in LineKinds
    BY DEF LineRecord
  <2>2. r.ok
    BY <2>1, ReadLineIs
  <2>3. l.ok /\ l.end = r.end /\ l.base = r.base /\ l.bytes = r.bytes
    BY <1>3, <2>2
  <2>4. CASE r.end \/ line.kind = "comment"
    <3>1. ReadLine(r, line) = r /\ LoadLine(l, line) = l
      <4>1. CASE r.end
        BY <2>1, <2>3, <4>1, ReadLineIs
      <4>2. CASE ~r.end /\ line.kind = "comment"
        <5>1. ReadLine(r, line) = r
          BY <2>1, <2>2, <4>2, ReadLineIs
        <5>2. ~l.end /\ l.ok
          BY <2>3, <4>2
        <5>3. LoadLine(l, line) = l
          BY <2>1, <4>2, <5>2, ReadLineIs
        <5> QED BY <5>1, <5>3
      <4> QED BY <2>4, <4>1, <4>2
    <3> QED BY <2>3, <3>1
  <2>5. CASE ~r.end /\ line.kind # "comment"
    <3>1. ~(line.kind \in {"text", "unknown"} \/ ~line.sum)
      <4> SUFFICES ASSUME line.kind \in {"text", "unknown"} \/ ~line.sum PROVE FALSE
        OBVIOUS
      <4>1. ReadLine(r, line) = [r EXCEPT !.ok = FALSE]
        BY <2>1, <2>2, <2>5, ReadLineIs
      <4> QED BY <4>1 DEF Reading
    <3>2. Addressed(l.base, line) = Addressed(r.base, line)
      BY <2>3
    <3>3. CASE line.kind = "data"
      <4>1. /\ ReadLine(r, line) = [r EXCEPT !.bytes = @ \o Addressed(r.base, line)]
            /\ LoadLine(l, line) = [l EXCEPT !.bytes = @ \o Addressed(l.base, line)]
        BY <2>1, <2>2, <2>3, <2>5, <3>1, <3>3, ReadLineIs
      <4> QED BY <4>1, <2>2, <2>3, <3>2 DEF Reading
    <3>4. CASE line.kind = "base"
      <4>1. /\ ReadLine(r, line) = [r EXCEPT !.base = line.at * LowSize]
            /\ LoadLine(l, line) = [l EXCEPT !.base = line.at * LowSize]
        BY <2>1, <2>2, <2>3, <2>5, <3>1, <3>4, ReadLineIs
      <4> QED BY <4>1, <2>2, <2>3 DEF Reading
    <3>5. CASE line.kind = "start"
      <4>1. ReadLine(r, line) = [r EXCEPT !.entry = line.at] /\ LoadLine(l, line) = l
        BY <2>1, <2>2, <2>3, <2>5, <3>1, <3>5, ReadLineIs
      <4> QED BY <4>1, <2>2, <2>3 DEF Reading
    <3>6. CASE line.kind = "end"
      <4>1. ReadLine(r, line) = [r EXCEPT !.end = TRUE] /\ LoadLine(l, line) = [l EXCEPT !.end = TRUE]
        BY <2>1, <2>2, <2>3, <2>5, <3>1, <3>6, ReadLineIs
      <4> QED BY <4>1, <2>2, <2>3 DEF Reading
    <3> QED BY <2>1, <2>5, <3>1, <3>3, <3>4, <3>5, <3>6 DEF LineKinds
  <2> QED BY <2>4, <2>5
<1>4. 0 \in alike
  <2>1. f[0] = g[0]
    BY <1>1, <1>2 DEF ReadsSteps, ParseSteps
  <2>2. f[0].ok
    BY <1>1 DEF ReadsSteps, NothingRead
  <2>3. g[0].ok
    BY <2>1, <2>2
  <2> QED BY <2>1, <2>3
<1>5. ASSUME NEW k \in 0 .. Len(lines) - 1, k \in alike PROVE k + 1 \in alike
  <2>1. k \in Nat /\ k <= Len(lines) /\ k \in 0 .. Len(lines) /\ k + 1 \in 1 .. Len(lines) /\ (k + 1) - 1 = k
    OBVIOUS
  <2>2. lines[k + 1] \in LineRecord /\ f[k] \in Reading /\ g[k] \in Reading
    BY <1>1, <1>2, <2>1 DEF ReadsSteps, ParseSteps
  <2>3. f[k + 1] = ReadLine(f[k], lines[k + 1]) /\ g[k + 1] = LoadLine(g[k], lines[k + 1])
    BY <1>1, <1>2, <2>1 DEF ReadsSteps, ParseSteps
  <2>4. Alike(f[k], g[k])
    <3> HIDE DEF Alike
    <3> QED BY <1>5, <2>1
  <2> HIDE DEF Alike
  <2>5. Alike(f[k + 1], g[k + 1])
    BY <1>3, <2>2, <2>3, <2>4
  <2> QED BY <2>1, <2>5
<1>6. Alike(f[Len(lines)], g[Len(lines)])
  <2>1. Len(lines) \in Nat
    OBVIOUS
  <2>2. 0 .. Len(lines) \subseteq alike
    <3> HIDE DEF alike
    <3> QED BY <1>4, <1>5, <2>1, InductionOverSet
  <2>3. Len(lines) \in alike
    <3> HIDE DEF alike
    <3> QED BY <2>1, <2>2
  <2> HIDE DEF Alike
  <2> QED BY <2>1, <2>3
<1> QED BY <1>1, <1>2, <1>6

-----------------------------------------------------------------------------
(* What the bytes of a file set an address to: the last value counts. *)

Final(bytes, a, v) ==
  \E i \in DOMAIN bytes : bytes[i] = <<a, v>> /\ \A j \in DOMAIN bytes : j > i => bytes[j][1] # a

LEMMA MemoryIs ==
  ASSUME NEW lines \in Seq(LineRecord)
  PROVE  /\ \A a \in DOMAIN Memory(lines) : Final(Parse(lines).bytes, a, Memory(lines)[a])
         /\ \A a, v : Final(Parse(lines).bytes, a, v) => a \in DOMAIN Memory(lines) /\ Memory(lines)[a] = v
<1> DEFINE bytes == Parse(lines).bytes
           at(a) == {i \in DOMAIN bytes : bytes[i][1] = a}
<1>1. bytes \in Seq(Byte) /\ DOMAIN bytes = 1 .. Len(bytes) /\ Len(bytes) \in Nat
  BY ReadingType DEF Reading
<1>2. Memory(lines) = [a \in {bytes[i][1] : i \in DOMAIN bytes} |-> bytes[Max(at(a))][2]]
  BY DEF Memory
<1> HIDE DEF bytes
<1>3. ASSUME NEW a \in DOMAIN Memory(lines) PROVE Final(bytes, a, Memory(lines)[a])
  <2>1. at(a) # {} /\ at(a) \in SUBSET (1 .. Len(bytes))
    BY <1>1, <1>2, <1>3
  <2>2. Max(at(a)) \in at(a) /\ \A i \in at(a) : i <= Max(at(a))
    <3> HIDE DEF at
    <3> QED BY <1>1, <2>1, LastPlace
  <2> DEFINE m == Max(at(a))
  <2>3. m \in DOMAIN bytes /\ bytes[m][1] = a /\ \A i \in at(a) : i <= m
    BY <2>2
  <2>5. Memory(lines)[a] = bytes[m][2]
    BY <1>2
  <2> HIDE DEF m
  <2>4. \A j \in DOMAIN bytes : j > m => bytes[j][1] # a
    BY <1>1, <2>3
  <2>6. bytes[m] = <<a, bytes[m][2]>>
    <3>1. bytes[m] \in Byte
      BY <1>1, <2>3
    <3> QED BY <2>3, <3>1 DEF Byte
  <2> QED BY <1>1, <2>3, <2>4, <2>5, <2>6 DEF Final
<1>4. ASSUME NEW a, NEW v, Final(bytes, a, v)
      PROVE  a \in DOMAIN Memory(lines) /\ Memory(lines)[a] = v
  <2>1. PICK i \in DOMAIN bytes :
          bytes[i] = <<a, v>> /\ \A j \in DOMAIN bytes : j > i => bytes[j][1] # a
    BY <1>4 DEF Final
  <2>2. a \in DOMAIN Memory(lines)
    <3>1. bytes[i][1] = a
      BY <2>1
    <3> QED BY <1>2, <3>1
  <2>3. at(a) # {} /\ at(a) \in SUBSET (1 .. Len(bytes)) /\ i \in at(a)
    BY <1>1, <2>1
  <2>4. Max(at(a)) \in at(a) /\ \A k \in at(a) : k <= Max(at(a))
    <3> HIDE DEF at
    <3> QED BY <1>1, <2>3, LastPlace
  <2>5. Max(at(a)) = i
    <3>1. Max(at(a)) \in DOMAIN bytes /\ bytes[Max(at(a))][1] = a /\ i <= Max(at(a))
      BY <2>3, <2>4
    <3> QED BY <1>1, <2>1, <3>1
  <2>6. Memory(lines)[a] = bytes[i][2]
    BY <1>2, <2>2, <2>5
  <2> QED BY <2>1, <2>2, <2>6
<1> QED BY <1>3, <1>4 DEF bytes

\* The last byte of a list.
LEMMA FinalAppend ==
  ASSUME NEW bytes \in Seq(Byte), NEW byte \in Byte, NEW a, NEW v
  PROVE  Final(Append(bytes, byte), a, v) <=> IF a = byte[1] THEN v = byte[2] ELSE Final(bytes, a, v)
<1> DEFINE more == Append(bytes, byte)
           n == Len(bytes)
<1>1. /\ n \in Nat /\ DOMAIN bytes = 1 .. n /\ DOMAIN more = 1 .. n + 1
      /\ more[n + 1] = byte /\ \A k \in 1 .. n : more[k] = bytes[k]
      /\ byte = <<byte[1], byte[2]>>
  BY AppendProperties DEF Byte
<1> HIDE DEF more, n
<1>2. CASE a = byte[1]
  <2>1. Final(more, a, v) => v = byte[2]
    <3> SUFFICES ASSUME Final(more, a, v) PROVE v = byte[2]
      OBVIOUS
    <3>1. PICK i \in DOMAIN more : more[i] = <<a, v>> /\ \A j \in DOMAIN more : j > i => more[j][1] # a
      BY DEF Final
    <3>2. i = n + 1
      BY <1>1, <1>2, <3>1
    <3> QED BY <1>1, <3>1, <3>2
  <2>2. v = byte[2] => Final(more, a, v)
    <3>1. n + 1 \in DOMAIN more /\ \A j \in DOMAIN more : ~(j > n + 1)
      BY <1>1
    <3> QED BY <1>1, <1>2, <3>1 DEF Final
  <2> QED BY <1>2, <2>1, <2>2 DEF more
<1>3. CASE a # byte[1]
  <2>1. Final(more, a, v) => Final(bytes, a, v)
    <3> SUFFICES ASSUME Final(more, a, v) PROVE Final(bytes, a, v)
      OBVIOUS
    <3>1. PICK i \in DOMAIN more : more[i] = <<a, v>> /\ \A j \in DOMAIN more : j > i => more[j][1] # a
      BY DEF Final
    <3>2. i \in 1 .. n
      BY <1>1, <1>3, <3>1
    <3> QED BY <1>1, <3>1, <3>2 DEF Final
  <2>2. Final(bytes, a, v) => Final(more, a, v)
    <3> SUFFICES ASSUME Final(bytes, a, v) PROVE Final(more, a, v)
      OBVIOUS
    <3>1. PICK i \in DOMAIN bytes : bytes[i] = <<a, v>> /\ \A j \in DOMAIN bytes : j > i => bytes[j][1] # a
      BY DEF Final
    <3>2. i \in DOMAIN more /\ more[i] = <<a, v>>
      BY <1>1, <3>1
    <3>3. \A j \in DOMAIN more : j > i => more[j][1] # a
      BY <1>1, <1>3, <3>1
    <3> QED BY <3>2, <3>3 DEF Final
  <2> QED BY <1>3, <2>1, <2>2 DEF more
<1> QED BY <1>2, <1>3

-----------------------------------------------------------------------------
(* The bytes in the order of their addresses. *)

Sorted(s) == \A i, j \in 1 .. Len(s) : i <= j => s[i][1] <= s[j][1]
Ordered == {s \in Seq(Byte) : Sorted(s)}

LEMMA InsertedIs ==
  ASSUME NEW s \in Ordered, NEW byte \in Byte
  PROVE  \E n \in 0 .. Len(s) :
           /\ \A i \in 1 .. n : s[i][1] <= byte[1]
           /\ \A i \in n + 1 .. Len(s) : s[i][1] > byte[1]
           /\ Inserted(s, byte) \in Seq(Byte)
           /\ Len(Inserted(s, byte)) = Len(s) + 1
           /\ \A i \in 1 .. n : Inserted(s, byte)[i] = s[i]
           /\ Inserted(s, byte)[n + 1] = byte
           /\ \A i \in n + 1 .. Len(s) : Inserted(s, byte)[i + 1] = s[i]
<1> DEFINE place(m) == /\ \A i \in 1 .. m : s[i][1] <= byte[1]
                       /\ \A i \in m + 1 .. Len(s) : s[i][1] > byte[1]
           n == CHOOSE m \in 0 .. Len(s) : place(m)
           low == {m \in 0 .. Len(s) : \A i \in 1 .. m : s[i][1] <= byte[1]}
<1>1. /\ s \in Seq(Byte) /\ Len(s) \in Nat /\ byte[1] \in Nat
      /\ \A i \in 1 .. Len(s) : s[i][1] \in Nat
      /\ \A i, j \in 1 .. Len(s) : i <= j => s[i][1] <= s[j][1]
  <2>1. s \in Seq(Byte) /\ Len(s) \in Nat
    BY DEF Ordered
  <2>2. \A i \in 1 .. Len(s) : s[i] \in Byte
    BY <2>1
  <2> QED BY <2>1, <2>2 DEF Ordered, Sorted, Byte
<1>2. \E m \in 0 .. Len(s) : place(m)
  <2>1. CASE Len(s) \in low
    <3>1. place(Len(s))
      BY <1>1, <2>1
    <3> HIDE DEF place
    <3> QED BY <1>1, <3>1
  <2>2. CASE Len(s) \notin low
    <3>1. low \in SUBSET (0 .. Len(s)) /\ 0 \in low
      BY <1>1
    <3>2. PICK m \in low : m < Len(s) /\ m + 1 \notin low
      <4> HIDE DEF low
      <4> QED BY <1>1, <2>2, <3>1, LastReached
    <3>3. m \in 0 .. Len(s) /\ m + 1 \in 1 .. Len(s) /\ s[m + 1][1] > byte[1]
      <4>1. m \in 0 .. Len(s) /\ m + 1 \in 1 .. Len(s)
        BY <1>1, <3>2
      <4>2. PICK i \in 1 .. m + 1 : ~(s[i][1] <= byte[1])
        BY <3>2, <4>1
      <4>3. i = m + 1
        BY <1>1, <3>2, <4>1, <4>2
      <4> QED BY <1>1, <4>1, <4>2, <4>3
    <3>4. place(m)
      BY <1>1, <3>2, <3>3
    <3> HIDE DEF place
    <3> QED BY <3>3, <3>4
  <2> QED BY <2>1, <2>2
<1>3. n \in 0 .. Len(s) /\ place(n)
  <2> HIDE DEF place
  <2> QED BY <1>2
<1>4. Inserted(s, byte) = SubSeq(s, 1, n) \o <<byte>> \o SubSeq(s, n + 1, Len(s))
  <2>1. Inserted(s, byte) = InsertAt(s, n + 1, byte)
    BY DEF Inserted
  <2> HIDE DEF n
  <2>2. (n + 1) - 1 = n
    BY <1>3
  <2> QED BY <2>1, <2>2 DEF InsertAt
<1> HIDE DEF n
<1> DEFINE a == SubSeq(s, 1, n)
           b == <<byte>>
           c == SubSeq(s, n + 1, Len(s))
<1>5. /\ a \in Seq(Byte) /\ Len(a) = n /\ \A i \in 1 .. n : a[i] = s[i]
      /\ b \in Seq(Byte) /\ Len(b) = 1 /\ b[1] = byte
      /\ c \in Seq(Byte) /\ Len(c) = Len(s) - n /\ \A i \in 1 .. Len(s) - n : c[i] = s[n + i]
  <2>1. a \in Seq(Byte) /\ Len(a) = n /\ \A i \in 1 .. n : a[i] = s[i]
    BY <1>1, <1>3
  <2>2. b \in Seq(Byte) /\ Len(b) = 1 /\ b[1] = byte
    OBVIOUS
  <2>3. c \in Seq(Byte) /\ Len(c) = Len(s) - n /\ \A i \in 1 .. Len(s) - n : c[i] = s[n + i]
    BY SMTT(30), <1>1, <1>3
  <2> QED BY <2>1, <2>2, <2>3
<1>6. Inserted(s, byte) = (a \o b) \o c
  BY <1>4
<1> HIDE DEF a, b, c
<1>7. /\ a \o b \in Seq(Byte) /\ Len(a \o b) = n + 1
      /\ \A i \in 1 .. n + 1 : (a \o b)[i] = IF i <= n THEN a[i] ELSE b[i - n]
  <2>1. /\ a \o b \in Seq(Byte) /\ Len(a \o b) = Len(a) + Len(b)
        /\ \A i \in 1 .. Len(a) + Len(b) : (a \o b)[i] = IF i <= Len(a) THEN a[i] ELSE b[i - Len(a)]
    BY <1>5, ConcatProperties
  <2> QED BY <1>3, <1>5, <2>1
<1> DEFINE ab == a \o b
<1> HIDE DEF ab
<1>8. /\ ab \o c \in Seq(Byte) /\ Len(ab \o c) = Len(s) + 1
      /\ \A i \in 1 .. Len(s) + 1 : (ab \o c)[i] = IF i <= n + 1 THEN ab[i] ELSE c[i - (n + 1)]
  <2>1. ab \in Seq(Byte) /\ Len(ab) = n + 1
    BY <1>7 DEF ab
  <2> QED BY <1>1, <1>3, <1>5, <2>1, ConcatProperties
<1>9. Inserted(s, byte) = ab \o c /\ \A i \in 1 .. n + 1 : ab[i] = IF i <= n THEN a[i] ELSE b[i - n]
  BY <1>6, <1>7 DEF ab
<1>10. \A i \in 1 .. n : Inserted(s, byte)[i] = s[i]
  BY <1>1, <1>3, <1>5, <1>8, <1>9
<1>11. Inserted(s, byte)[n + 1] = byte
  BY <1>1, <1>3, <1>5, <1>8, <1>9
<1>12. \A i \in n + 1 .. Len(s) : Inserted(s, byte)[i + 1] = s[i]
  <2> TAKE i \in n + 1 .. Len(s)
  <2>1. i + 1 \in 1 .. Len(s) + 1 /\ ~(i + 1 <= n + 1) /\ (i + 1) - (n + 1) = i - n
        /\ i - n \in 1 .. Len(s) - n /\ n + (i - n) = i
    BY <1>1, <1>3
  <2>2. (ab \o c)[i + 1] = c[i - n]
    BY <1>8, <2>1
  <2> QED BY <1>5, <1>9, <2>1, <2>2
<1> QED BY <1>3, <1>8, <1>9, <1>10, <1>11, <1>12

LEMMA InsertedKeeps ==
  ASSUME NEW s \in Ordered, NEW byte \in Byte
  PROVE  /\ Inserted(s, byte) \in Ordered
         /\ \A a, v : Final(Inserted(s, byte), a, v) <=>
                        IF a = byte[1] THEN v = byte[2] ELSE Final(s, a, v)
<1> DEFINE t == Inserted(s, byte)
<1>1. PICK n \in 0 .. Len(s) :
           /\ \A i \in 1 .. n : s[i][1] <= byte[1]
           /\ \A i \in n + 1 .. Len(s) : s[i][1] > byte[1]
           /\ t \in Seq(Byte)
           /\ Len(t) = Len(s) + 1
           /\ \A i \in 1 .. n : t[i] = s[i]
           /\ t[n + 1] = byte
           /\ \A i \in n + 1 .. Len(s) : t[i + 1] = s[i]
  BY InsertedIs
<1> HIDE DEF t
<1>2. /\ s \in Seq(Byte) /\ Len(s) \in Nat /\ byte[1] \in Nat
      /\ \A i \in 1 .. Len(s) : s[i][1] \in Nat
      /\ \A i, j \in 1 .. Len(s) : i <= j => s[i][1] <= s[j][1]
      /\ n \in Nat /\ n <= Len(s)
      /\ DOMAIN s = 1 .. Len(s) /\ DOMAIN t = 1 .. Len(s) + 1
      /\ byte = <<byte[1], byte[2]>>
  <2>1. s \in Seq(Byte) /\ Len(s) \in Nat
    BY DEF Ordered
  <2>2. \A i \in 1 .. Len(s) : s[i] \in Byte
    BY <2>1
  <2>3. byte[1] \in Nat /\ byte = <<byte[1], byte[2]>> /\ \A i \in 1 .. Len(s) : s[i][1] \in Nat
    BY <2>2 DEF Byte
  <2>4. \A i, j \in 1 .. Len(s) : i <= j => s[i][1] <= s[j][1]
    BY DEF Ordered, Sorted
  <2>5. n \in Nat /\ n <= Len(s)
    BY <2>1
  <2> QED BY <1>1, <2>1, <2>3, <2>4, <2>5
<1>3. \A i \in 1 .. Len(s) + 1 : i \in 1 .. n \/ i = n + 1 \/ (i - 1 \in n + 1 .. Len(s) /\ t[i] = s[i - 1])
  BY <1>1, <1>2
<1>4. Sorted(t)
  <2> SUFFICES ASSUME NEW i \in 1 .. Len(s) + 1, NEW j \in 1 .. Len(s) + 1, i <= j
               PROVE  t[i][1] <= t[j][1]
    BY <1>1 DEF Sorted
  <2>1. CASE i = j
    <3>1. t[i][1] \in Nat
      BY <1>1, <1>2, <1>3
    <3> QED BY <2>1, <3>1
  <2>2. CASE i < j /\ j \in 1 .. n
    BY <1>1, <1>2, <2>2
  <2>3. CASE i < j /\ j = n + 1
    BY <1>1, <1>2, <2>3
  <2>4. CASE i < j /\ j > n + 1
    <3>1. j - 1 \in n + 1 .. Len(s) /\ t[j] = s[j - 1] /\ j - 1 \in 1 .. Len(s)
      BY <1>2, <1>3, <2>4
    <3>2. CASE i \in 1 .. n
      BY <1>1, <1>2, <3>1, <3>2
    <3>3. CASE i = n + 1
      BY <1>1, <1>2, <3>1, <3>3
    <3>4. CASE i - 1 \in n + 1 .. Len(s) /\ t[i] = s[i - 1]
      BY <1>2, <2>4, <3>1, <3>4
    <3> QED BY <1>3, <3>2, <3>3, <3>4
  <2> QED BY <1>2, <2>1, <2>2, <2>3, <2>4
<1>5. ASSUME NEW a, NEW v PROVE Final(t, a, v) <=> IF a = byte[1] THEN v = byte[2] ELSE Final(s, a, v)
  <2>1. CASE a = byte[1]
    <3>1. n + 1 \in DOMAIN t /\ \A j \in DOMAIN t : j > n + 1 => t[j][1] # a
      BY <1>1, <1>2, <1>3, <2>1
    <3>2. v = byte[2] => Final(t, a, v)
      BY <1>1, <1>2, <2>1, <3>1 DEF Final
    <3>3. ASSUME Final(t, a, v) PROVE v = byte[2]
      <4>1. PICK i \in DOMAIN t : t[i] = <<a, v>> /\ \A j \in DOMAIN t : j > i => t[j][1] # a
        BY <3>3 DEF Final
      <4>2. i = n + 1
        <5>1. ~(n + 1 > i)
          BY <1>1, <2>1, <3>1, <4>1
        <5>2. ~(i > n + 1)
          BY <3>1, <4>1
        <5> QED BY <1>2, <5>1, <5>2
      <4> QED BY <1>1, <1>2, <4>1, <4>2
    <3> QED BY <2>1, <3>2, <3>3
  <2>2. CASE a # byte[1]
    <3>1. ASSUME Final(t, a, v) PROVE Final(s, a, v)
      <4>1. PICK i \in DOMAIN t : t[i] = <<a, v>> /\ \A j \in DOMAIN t : j > i => t[j][1] # a
        BY <3>1 DEF Final
      <4>2. CASE i \in 1 .. n
        <5>1. ASSUME NEW j \in 1 .. Len(s), j > i PROVE s[j][1] # a
          <6>1. CASE j \in 1 .. n
            BY <1>1, <1>2, <4>1, <5>1, <6>1
          <6>2. CASE j \in n + 1 .. Len(s)
            <7>1. t[j + 1] = s[j] /\ j + 1 \in DOMAIN t /\ j + 1 > i
              BY <1>1, <1>2, <4>2, <5>1, <6>2
            <7> QED BY <4>1, <7>1
          <6> QED BY <1>2, <6>1, <6>2
        <5>2. i \in DOMAIN s /\ s[i] = <<a, v>>
          BY <1>1, <1>2, <4>1, <4>2
        <5> QED BY <1>2, <5>1, <5>2 DEF Final
      <4>3. CASE i - 1 \in n + 1 .. Len(s) /\ t[i] = s[i - 1]
        <5>1. ASSUME NEW j \in 1 .. Len(s), j > i - 1 PROVE s[j][1] # a
          <6>1. j \in n + 1 .. Len(s) /\ t[j + 1] = s[j] /\ j + 1 \in DOMAIN t /\ j + 1 > i
            BY <1>1, <1>2, <4>3, <5>1
          <6> QED BY <4>1, <6>1
        <5>2. i - 1 \in DOMAIN s /\ s[i - 1] = <<a, v>>
          BY <1>2, <4>1, <4>3
        <5> QED BY <1>2, <5>1, <5>2 DEF Final
      <4>4. i # n + 1
        BY <1>1, <2>2, <4>1
      <4> QED BY <1>2, <1>3, <4>2, <4>3, <4>4
    <3>2. ASSUME Final(s, a, v) PROVE Final(t, a, v)
      <4>1. PICK i \in DOMAIN s : s[i] = <<a, v>> /\ \A j \in DOMAIN s : j > i => s[j][1] # a
        BY <3>2 DEF Final
      <4>2. CASE i \in 1 .. n
        <5>1. ASSUME NEW j \in DOMAIN t, j > i PROVE t[j][1] # a
          <6>1. CASE j \in 1 .. n
            BY <1>1, <1>2, <4>1, <5>1, <6>1
          <6>2. CASE j = n + 1
            BY <1>1, <2>2, <6>2
          <6>3. CASE j - 1 \in n + 1 .. Len(s) /\ t[j] = s[j - 1]
            BY <1>2, <4>1, <4>2, <6>3
          <6> QED BY <1>2, <1>3, <6>1, <6>2, <6>3
        <5>2. i \in DOMAIN t /\ t[i] = <<a, v>>
          BY <1>1, <1>2, <4>1, <4>2
        <5> QED BY <5>1, <5>2 DEF Final
      <4>3. CASE i \in n + 1 .. Len(s)
        <5>1. ASSUME NEW j \in DOMAIN t, j > i + 1 PROVE t[j][1] # a
          <6>1. j - 1 \in DOMAIN s /\ j - 1 > i /\ t[j] = s[j - 1]
            BY <1>2, <1>3, <4>3, <5>1
          <6> QED BY <4>1, <6>1
        <5>2. i + 1 \in DOMAIN t /\ t[i + 1] = <<a, v>>
          BY <1>1, <1>2, <4>1, <4>3
        <5> QED BY <5>1, <5>2 DEF Final
      <4> QED BY <1>2, <4>2, <4>3
    <3> QED BY <2>2, <3>1, <3>2
  <2> QED BY <2>1, <2>2
<1>6. t \in Ordered
  BY <1>1, <1>4 DEF Ordered
<1> QED BY <1>5, <1>6 DEF t

OrderSteps(bytes, f) ==
  /\ f \in [0 .. Len(bytes) -> Ordered]
  /\ f[0] = <<>>
  /\ \A k \in 1 .. Len(bytes) : f[k] = Inserted(f[k - 1], bytes[k])

LEMMA EmptyOrdered == <<>> \in Ordered
<1>1. <<>> \in Seq(Byte) /\ Len(<<>>) = 0
  OBVIOUS
<1> QED BY <1>1 DEF Ordered, Sorted

LEMMA OrderIs ==
  ASSUME NEW bytes \in Seq(Byte)
  PROVE  \E f : OrderSteps(bytes, f) /\ InOrder(bytes) = f[Len(bytes)]
<1> DEFINE n == Len(bytes)
           step == [p \in Ordered \X (1 .. n) |-> Inserted(p[1], bytes[p[2]])]
           turn(f) == [k \in 0 .. n |-> IF k = 0 THEN <<>> ELSE Inserted(f[k - 1], bytes[k])]
           own == CHOOSE f : f = turn(f)
<1>0. n \in Nat
  OBVIOUS
<1>1. n \in Nat /\ \A k \in 1 .. n : bytes[k] \in Byte
  OBVIOUS
<1>2. step \in [Ordered \X (1 .. n) -> Ordered] /\ <<>> \in Ordered
  <2>1. \A p \in Ordered \X (1 .. n) : Inserted(p[1], bytes[p[2]]) \in Ordered
    BY <1>1, InsertedKeeps
  <2>2. <<>> \in Ordered
    BY EmptyOrdered
  <2> QED BY <2>1, <2>2
<1>3. InOrder(bytes) = own[n]
  BY DEF InOrder
<1>4. \A r \in Ordered, k \in 1 .. n : step[<<r, k>>] = Inserted(r, bytes[k])
  OBVIOUS
<1> HIDE DEF step
<1>5. PICK f : Recursion(f, n, Ordered, <<>>, step)
  <2>1. StepOn(step, n, Ordered)
    BY <1>2 DEF StepOn
  <2> HIDE DEF n, own
  <2> QED BY <1>0, <1>2, <2>1, RecursionExists
<1>6. /\ f \in [0 .. n -> Ordered] /\ f[0] = <<>>
      /\ \A k \in 1 .. n : f[k] = step[<<f[k - 1], k>>]
  BY <1>5 DEF Recursion
<1>7. \A k \in 1 .. n : k - 1 \in 0 .. n /\ f[k - 1] \in Ordered
  BY <1>1, <1>6
<1>8. own = turn(own)
  <2>1. f = turn(f)
    <3>1. \A k \in 1 .. n : f[k] = Inserted(f[k - 1], bytes[k])
      BY <1>4, <1>6, <1>7
    <3>2. \A k \in 0 .. n : f[k] = turn(f)[k]
      BY <1>6, <3>1
    <3> QED BY <1>6, <3>2
  <2> HIDE DEF turn
  <2> QED BY <2>1
<1> HIDE DEF own
<1>9. /\ own = [k \in 0 .. n |-> own[k]] /\ own[0] = <<>>
      /\ \A k \in 1 .. n : own[k] = Inserted(own[k - 1], bytes[k])
  BY <1>1, <1>8
<1> HIDE DEF turn
<1>10. \A k \in 0 .. n : own[k] = f[k]
  <2>1. Follows(own, n, Ordered, <<>>, step)
    BY <1>4, <1>9 DEF Follows
  <2> HIDE DEF n
  <2> QED BY <1>0, <1>5, <2>1, RecursionSame
<1>11. OrderSteps(bytes, own)
  <2>1. own \in [0 .. n -> Ordered]
    BY <1>6, <1>9, <1>10
  <2> QED BY <1>9, <2>1 DEF OrderSteps
<1> QED BY <1>3, <1>11

\* Sorting keeps the last value of every address.
LEMMA OrderKeeps ==
  ASSUME NEW bytes \in Seq(Byte)
  PROVE  /\ InOrder(bytes) \in Ordered
         /\ \A a, v : Final(InOrder(bytes), a, v) <=> Final(bytes, a, v)
<1>1. PICK f : OrderSteps(bytes, f) /\ InOrder(bytes) = f[Len(bytes)]
  BY OrderIs
<1> DEFINE same(k) == \A a, v : Final(f[k], a, v) <=> Final(SubSeq(bytes, 1, k), a, v)
           done == {k \in Nat : k <= Len(bytes) => same(k)}
<1>2. 0 \in done
  BY <1>1, PrefixGrows DEF OrderSteps
<1>3. ASSUME NEW k \in 0 .. Len(bytes) - 1, k \in done PROVE k + 1 \in done
  <2>1. k \in Nat /\ k <= Len(bytes) /\ k \in 0 .. Len(bytes) /\ k + 1 \in 1 .. Len(bytes) /\ (k + 1) - 1 = k
    OBVIOUS
  <2>2. bytes[k + 1] \in Byte /\ f[k] \in Ordered /\ f[k + 1] = Inserted(f[k], bytes[k + 1])
    BY <1>1, <2>1 DEF OrderSteps
  <2>3. /\ SubSeq(bytes, 1, k) \in Seq(Byte)
        /\ SubSeq(bytes, 1, k + 1) = Append(SubSeq(bytes, 1, k), bytes[k + 1])
    BY PrefixGrows
  <2>4. same(k)
    <3> HIDE DEF same
    <3> QED BY <1>3, <2>1
  <2>5. ASSUME NEW a, NEW v PROVE Final(f[k + 1], a, v) <=> Final(SubSeq(bytes, 1, k + 1), a, v)
    <3> DEFINE byte == bytes[k + 1]
               s == SubSeq(bytes, 1, k)
    <3>1. byte \in Byte /\ s \in Seq(Byte) /\ (Final(f[k], a, v) <=> Final(s, a, v))
      BY <2>2, <2>3, <2>4
    <3>2. f[k + 1] = Inserted(f[k], byte) /\ SubSeq(bytes, 1, k + 1) = Append(s, byte)
      BY <2>2, <2>3
    <3> HIDE DEF byte, s
    <3>3. Final(Inserted(f[k], byte), a, v) <=> IF a = byte[1] THEN v = byte[2] ELSE Final(f[k], a, v)
      BY <2>2, <3>1, InsertedKeeps
    <3>4. Final(Append(s, byte), a, v) <=> IF a = byte[1] THEN v = byte[2] ELSE Final(s, a, v)
      BY <3>1, FinalAppend
    <3> QED BY <3>1, <3>2, <3>3, <3>4
  <2>6. same(k + 1)
    BY <2>5
  <2> HIDE DEF same
  <2> QED BY <2>1, <2>6
<1>4. same(Len(bytes))
  <2>1. Len(bytes) \in Nat
    OBVIOUS
  <2>2. 0 .. Len(bytes) \subseteq done
    <3> HIDE DEF done
    <3> QED BY <1>2, <1>3, <2>1, InductionOverSet
  <2>3. Len(bytes) \in done
    <3> HIDE DEF done
    <3> QED BY <2>1, <2>2
  <2> HIDE DEF same
  <2> QED BY <2>1, <2>3
<1>5. SubSeq(bytes, 1, Len(bytes)) = bytes
  BY PrefixGrows
<1>6. f[Len(bytes)] \in Ordered
  BY <1>1 DEF OrderSteps
<1> QED BY <1>1, <1>4, <1>5, <1>6

-----------------------------------------------------------------------------
(* The segments of a file. *)

DataRun == [addr : Nat, data : Seq(Bytes) \ {<<>>}]
EndOf(segment) == segment.addr + Len(segment.data)
Gapped(segments) == \A i, j \in 1 .. Len(segments) : i < j => EndOf(segments[i]) < segments[j].addr
Runs == {s \in Seq(DataRun) : Gapped(s)}

\* The segments put the value v at the address a.
Holds(segment, a, v) == \E i \in 1 .. Len(segment.data) : a = segment.addr + i - 1 /\ segment.data[i] = v
Placed(segments, a, v) == \E k \in 1 .. Len(segments) : Holds(segments[k], a, v)

LEMMA RunFacts ==
  ASSUME NEW segment \in DataRun
  PROVE  /\ segment.addr \in Nat /\ segment.data \in Seq(Bytes) /\ Len(segment.data) \in Nat \ {0}
         /\ EndOf(segment) \in Nat /\ segment.addr < EndOf(segment)
         /\ \A a, v : Holds(segment, a, v) => a \in segment.addr .. EndOf(segment) - 1
         /\ \A a \in segment.addr .. EndOf(segment) - 1 : \A v :
              Holds(segment, a, v) <=> v = segment.data[a - segment.addr + 1]
<1>1. segment.addr \in Nat /\ segment.data \in Seq(Bytes) /\ segment.data # <<>>
  BY DEF DataRun
<1>2. Len(segment.data) \in Nat \ {0}
  BY <1>1
<1>3. EndOf(segment) \in Nat /\ segment.addr < EndOf(segment) /\ EndOf(segment) = segment.addr + Len(segment.data)
  BY <1>1, <1>2 DEF EndOf
<1>4. ASSUME NEW a, NEW v, Holds(segment, a, v) PROVE a \in segment.addr .. EndOf(segment) - 1
  BY <1>1, <1>2, <1>3, <1>4 DEF Holds
<1>5. ASSUME NEW a \in segment.addr .. EndOf(segment) - 1, NEW v
      PROVE  Holds(segment, a, v) <=> v = segment.data[a - segment.addr + 1]
  <2> DEFINE m == a - segment.addr + 1
  <2>1. m \in 1 .. Len(segment.data) /\ a = segment.addr + m - 1
    BY <1>1, <1>2, <1>3
  <2>2. \A i \in 1 .. Len(segment.data) : a = segment.addr + i - 1 => i = m
    BY <1>1, <1>2, <1>3
  <2> HIDE DEF m
  <2>3. Holds(segment, a, v) <=> v = segment.data[m]
    BY <2>1, <2>2 DEF Holds
  <2> QED BY <2>3 DEF m
<1> QED BY <1>1, <1>2, <1>3, <1>4, <1>5

LEMMA RunsFacts ==
  ASSUME NEW segments \in Runs
  PROVE  /\ segments \in Seq(DataRun) /\ Len(segments) \in Nat /\ DOMAIN segments = 1 .. Len(segments)
         /\ \A k \in 1 .. Len(segments) : segments[k] \in DataRun
         /\ \A i, j \in 1 .. Len(segments) : i < j => EndOf(segments[i]) < segments[j].addr
         /\ \A k \in 1 .. Len(segments) : segments[k].addr \in Nat /\ EndOf(segments[k]) \in Nat
                                          /\ segments[k].addr < EndOf(segments[k])
<1>1. segments \in Seq(DataRun) /\ Len(segments) \in Nat /\ DOMAIN segments = 1 .. Len(segments)
  BY DEF Runs
<1>2. \A k \in 1 .. Len(segments) : segments[k] \in DataRun
  BY <1>1
<1>3. \A i, j \in 1 .. Len(segments) : i < j => EndOf(segments[i]) < segments[j].addr
  BY DEF Runs, Gapped
<1>4. \A k \in 1 .. Len(segments) : segments[k].addr \in Nat /\ EndOf(segments[k]) \in Nat
                                    /\ segments[k].addr < EndOf(segments[k])
  BY <1>2, RunFacts
<1> QED BY <1>1, <1>2, <1>3, <1>4

\* The last segment stays where it is, with other data; or one is added.
Longer(segments, joined, data) ==
  LET n == Len(segments)
  IN  /\ n > 0 /\ Len(joined) = n /\ joined \in Seq(DataRun)
      /\ \A k \in 1 .. n - 1 : joined[k] = segments[k]
      /\ joined[n] = [addr |-> segments[n].addr, data |-> data]

LEMMA LastChanges ==
  ASSUME NEW segments \in Runs, segments # <<>>, NEW data \in Seq(Bytes) \ {<<>>},
         NEW joined, joined = [segments EXCEPT ![Len(segments)].data = data]
  PROVE  Longer(segments, joined, data) /\ joined \in Runs
<1> DEFINE n == Len(segments)
           run == [addr |-> segments[n].addr, data |-> data]
<1>1. /\ segments \in Seq(DataRun) /\ n \in Nat /\ n > 0 /\ DOMAIN segments = 1 .. n
      /\ \A k \in 1 .. n : segments[k] \in DataRun
      /\ \A i, j \in 1 .. n : i < j => EndOf(segments[i]) < segments[j].addr
  BY RunsFacts
<1>2. [segments[n] EXCEPT !.data = data] = run /\ run \in DataRun
  <2>1. segments[n] \in DataRun
    BY <1>1
  <2> QED BY <2>1 DEF DataRun
<1>3. joined = [segments EXCEPT ![n] = run]
  BY <1>2
<1> HIDE DEF run
<1>4. joined \in Seq(DataRun) /\ Len(joined) = n
  BY <1>1, <1>2, <1>3
<1>5. joined[n] = run /\ \A k \in 1 .. n - 1 : joined[k] = segments[k]
  BY <1>1, <1>3
<1>6. Gapped(joined)
  <2> SUFFICES ASSUME NEW i \in 1 .. n, NEW j \in 1 .. n, i < j
               PROVE  EndOf(joined[i]) < joined[j].addr
    BY <1>4 DEF Gapped
  <2>1. joined[i] = segments[i]
    BY <1>1, <1>5
  <2>2. joined[j].addr = segments[j].addr
    <3>1. CASE j = n
      BY <1>5, <3>1 DEF run
    <3>2. CASE j # n
      BY <1>1, <1>5, <3>2
    <3> QED BY <3>1, <3>2
  <2> QED BY <1>1, <2>1, <2>2
<1> QED BY <1>1, <1>4, <1>5, <1>6 DEF Longer, run, Runs

LEMMA RunAdded ==
  ASSUME NEW segments \in Runs, NEW run \in DataRun,
         segments # <<>> => EndOf(segments[Len(segments)]) < run.addr
  PROVE  /\ Append(segments, run) \in Runs
         /\ Len(Append(segments, run)) = Len(segments) + 1
         /\ Append(segments, run)[Len(segments) + 1] = run
         /\ \A k \in 1 .. Len(segments) : Append(segments, run)[k] = segments[k]
<1> DEFINE n == Len(segments)
           more == Append(segments, run)
<1>1. /\ segments \in Seq(DataRun) /\ n \in Nat /\ DOMAIN segments = 1 .. n
      /\ \A k \in 1 .. n : segments[k] \in DataRun
      /\ \A i, j \in 1 .. n : i < j => EndOf(segments[i]) < segments[j].addr
      /\ \A k \in 1 .. n : segments[k].addr \in Nat /\ EndOf(segments[k]) \in Nat
                                          /\ segments[k].addr < EndOf(segments[k])
      /\ run.addr \in Nat
      /\ segments # <<>> => EndOf(segments[n]) < run.addr
  BY RunsFacts, RunFacts
<1>2. /\ more \in Seq(DataRun) /\ Len(more) = n + 1 /\ more[n + 1] = run
      /\ \A k \in 1 .. n : more[k] = segments[k]
  BY <1>1, AppendProperties
<1> HIDE DEF more, n
<1>3. \A i \in 1 .. n : EndOf(segments[i]) < run.addr
  <2> TAKE i \in 1 .. n
  <2>1. segments # <<>>
    BY DEF n
  <2>2. CASE i = n
    BY <1>1, <2>1, <2>2
  <2>3. CASE i < n
    <3>1. /\ EndOf(segments[i]) < segments[n].addr /\ segments[n].addr < EndOf(segments[n])
          /\ EndOf(segments[n]) < run.addr
          /\ EndOf(segments[i]) \in Nat /\ segments[n].addr \in Nat /\ EndOf(segments[n]) \in Nat
      BY <1>1, <2>1, <2>3
    <3> QED BY <1>1, <3>1
  <2>4. i = n \/ i < n
    BY <1>1
  <2> QED BY <2>2, <2>3, <2>4
<1>4. Gapped(more)
  <2> SUFFICES ASSUME NEW i \in 1 .. n + 1, NEW j \in 1 .. n + 1, i < j
               PROVE  EndOf(more[i]) < more[j].addr
    BY <1>2 DEF Gapped
  <2>1. more[i] = segments[i] /\ i \in 1 .. n
    BY <1>1, <1>2
  <2>2. CASE j = n + 1
    BY <1>2, <1>3, <2>1, <2>2
  <2>3. CASE j # n + 1
    <3>1. j \in 1 .. n
      BY <1>1, <2>3
    <3>2. more[j] = segments[j]
      BY <1>2, <3>1
    <3>3. EndOf(segments[i]) < segments[j].addr
      BY <1>1, <2>1, <3>1
    <3> QED BY <2>1, <3>2, <3>3
  <2> QED BY <2>2, <2>3
<1> QED BY <1>2, <1>4 DEF more, n, Runs

LEMMA JoinIs ==
  ASSUME NEW segments \in Runs, NEW byte \in Byte
  PROVE  LET n == Len(segments)
             last == segments[n]
             one == [addr |-> byte[1], data |-> <<byte[2]>>]
         IN  /\ Join(segments, byte) \in Runs
             /\ \/ /\ segments # <<>> => EndOf(last) < byte[1]
                   /\ one \in DataRun /\ Join(segments, byte) = Append(segments, one)
                \/ /\ segments # <<>> /\ byte[1] = EndOf(last)
                   /\ Longer(segments, Join(segments, byte), Append(last.data, byte[2]))
                \/ /\ segments # <<>> /\ byte[1] < EndOf(last)
                   /\ Longer(segments, Join(segments, byte),
                             [last.data EXCEPT ![byte[1] - last.addr + 1] = byte[2]])
<1> DEFINE n == Len(segments)
           last == segments[n]
           one == [addr |-> byte[1], data |-> <<byte[2]>>]
           appended == Append(last.data, byte[2])
           replaced == [last.data EXCEPT ![byte[1] - last.addr + 1] = byte[2]]
<1>1. byte[1] \in Nat /\ byte[2] \in Bytes
  BY DEF Byte
<1>2. one \in DataRun
  BY <1>1 DEF DataRun
<1>3. segments # <<>> => /\ last \in DataRun /\ EndOf(last) \in Nat /\ last.data \in Seq(Bytes) \ {<<>>}
                         /\ last.addr \in Nat
  <2> SUFFICES ASSUME segments # <<>> PROVE last \in DataRun
    BY RunFacts DEF DataRun
  <2>1. n \in 1 .. n
    BY RunsFacts
  <2> QED BY <2>1, RunsFacts
<1>4. CASE segments = <<>> \/ byte[1] > EndOf(last)
  <2>1. Join(segments, byte) = Append(segments, one)
    BY <1>1, <1>3, <1>4 DEF Join, EndOf
  <2>2. segments # <<>> => EndOf(last) < one.addr
    BY <1>1, <1>3, <1>4
  <2> HIDE DEF one
  <2>3. Append(segments, one) \in Runs
    BY <1>2, <2>2, RunAdded
  <2> QED BY <1>1, <1>2, <1>3, <1>4, <2>1, <2>3 DEF one
<1>5. CASE segments # <<>> /\ byte[1] = EndOf(last)
  <2>1. Join(segments, byte) = [segments EXCEPT ![n].data = appended]
    BY <1>1, <1>3, <1>5 DEF Join, EndOf
  <2>2. appended \in Seq(Bytes) \ {<<>>}
    BY <1>1, <1>3, <1>5
  <2> HIDE DEF appended
  <2>3. Longer(segments, Join(segments, byte), appended) /\ Join(segments, byte) \in Runs
    BY <1>5, <2>1, <2>2, LastChanges
  <2> QED BY <1>5, <2>3 DEF appended
<1>6. CASE segments # <<>> /\ byte[1] < EndOf(last)
  <2>1. Join(segments, byte) = [segments EXCEPT ![n].data = replaced]
    <3>1. byte[1] <= EndOf(last) /\ byte[1] # EndOf(last)
      BY <1>1, <1>3, <1>6
    <3>2. Join(segments, byte) =
            [segments EXCEPT ![n].data = [@ EXCEPT ![byte[1] - last.addr + 1] = byte[2]]]
      BY <1>6, <3>1 DEF Join, EndOf
    <3> QED BY <3>2
  <2>2. replaced \in Seq(Bytes) \ {<<>>}
    <3> DEFINE data == last.data
    <3>1. data \in Seq(Bytes) /\ Len(data) \in Nat /\ data # <<>>
      BY <1>3, <1>6
    <3> HIDE DEF data
    <3>2. \A i : /\ [data EXCEPT ![i] = byte[2]] \in Seq(Bytes)
                 /\ Len([data EXCEPT ![i] = byte[2]]) = Len(data)
      <4> TAKE i
      <4> DEFINE r == [k \in 1 .. Len(data) |-> IF k = i THEN byte[2] ELSE data[k]]
      <4>1. [data EXCEPT ![i] = byte[2]] = r
        BY <3>1
      <4>2. r \in Seq(Bytes) /\ Len(r) = Len(data)
        BY <1>1, <3>1
      <4> HIDE DEF r
      <4> QED BY <4>1, <4>2
    <3> QED BY <3>1, <3>2 DEF data
  <2> HIDE DEF replaced
  <2>3. Longer(segments, Join(segments, byte), replaced) /\ Join(segments, byte) \in Runs
    BY <1>6, <2>1, <2>2, LastChanges
  <2> QED BY <1>6, <2>3 DEF replaced
<1> QED BY <1>1, <1>3, <1>4, <1>5, <1>6

\* Where the last segment ends.
Reach(segments) == IF segments = <<>> THEN 0 ELSE EndOf(segments[Len(segments)])

\* A byte that comes behind the others, or at the last of their addresses.
LEMMA JoinPlaces ==
  ASSUME NEW segments \in Runs, NEW byte \in Byte, byte[1] >= Reach(segments) - 1
  PROVE  /\ Reach(Join(segments, byte)) = byte[1] + 1
         /\ \A a, v : Placed(Join(segments, byte), a, v) <=>
                        IF a = byte[1] THEN v = byte[2] ELSE Placed(segments, a, v)
<1> DEFINE n == Len(segments)
           last == segments[n]
           one == [addr |-> byte[1], data |-> <<byte[2]>>]
           joined == Join(segments, byte)
           appended == Append(last.data, byte[2])
           replaced == [last.data EXCEPT ![byte[1] - last.addr + 1] = byte[2]]
<1>1. /\ n \in Nat /\ byte[1] \in Nat
      /\ \A k \in 1 .. n : segments[k] \in DataRun
      /\ \A i, j \in 1 .. n : i < j => EndOf(segments[i]) < segments[j].addr
      /\ \A k \in 1 .. n : segments[k].addr \in Nat /\ EndOf(segments[k]) \in Nat
                           /\ segments[k].addr < EndOf(segments[k])
      /\ segments # <<>> <=> n > 0
  BY RunsFacts DEF Byte
<1>2. /\ joined \in Runs
      /\ \/ /\ segments # <<>> => EndOf(last) < byte[1]
            /\ one \in DataRun /\ joined = Append(segments, one)
         \/ /\ segments # <<>> /\ byte[1] = EndOf(last)
            /\ Longer(segments, joined, appended)
         \/ /\ segments # <<>> /\ byte[1] < EndOf(last)
            /\ Longer(segments, joined, replaced)
  BY JoinIs
<1>3. \A k \in 1 .. n : \A v : ~Holds(segments[k], EndOf(last), v) /\ (k < n => ~Holds(segments[k], EndOf(last) - 1, v))
  <2> SUFFICES ASSUME NEW k \in 1 .. n, NEW v
               PROVE  ~Holds(segments[k], EndOf(last), v) /\ (k < n => ~Holds(segments[k], EndOf(last) - 1, v))
    OBVIOUS
  <2>1. \A a : Holds(segments[k], a, v) => a < EndOf(segments[k])
    BY <1>1, RunFacts
  <2>2. EndOf(segments[k]) <= EndOf(last) /\ (k < n => EndOf(segments[k]) <= EndOf(last) - 1)
    <3>1. n \in 1 .. n
      BY <1>1
    <3>2. k < n => EndOf(segments[k]) < last.addr /\ last.addr < EndOf(last)
      BY <1>1, <3>1
    <3> QED BY <1>1, <3>1, <3>2
  <2>3. EndOf(segments[k]) \in Nat /\ EndOf(last) \in Nat
    BY <1>1
  <2>4. ~(EndOf(last) < EndOf(segments[k])) /\ (k < n => ~(EndOf(last) - 1 < EndOf(segments[k])))
    BY <2>2, <2>3
  <2> QED BY <2>1, <2>4
<1> HIDE DEF joined, appended, replaced
<1>4. CASE /\ segments # <<>> => EndOf(last) < byte[1]
           /\ one \in DataRun /\ joined = Append(segments, one)
  <2>1. /\ Len(joined) = n + 1 /\ joined[n + 1] = one
        /\ \A k \in 1 .. n : joined[k] = segments[k]
    <3>1. segments # <<>> => EndOf(last) < one.addr
      BY <1>4
    <3> HIDE DEF one
    <3> QED BY <1>4, <3>1, RunAdded
  <2>2. EndOf(one) = byte[1] + 1
    BY <1>1 DEF EndOf
  <2>3. \A a, v : Holds(one, a, v) <=> a = byte[1] /\ v = byte[2]
    <3>1. one.addr = byte[1] /\ Len(one.data) = 1 /\ one.data[1] = byte[2]
      OBVIOUS
    <3> HIDE DEF one
    <3> QED BY <1>1, <3>1 DEF Holds
  <2>4. \A v : ~Placed(segments, byte[1], v)
    <3> SUFFICES ASSUME NEW v, NEW k \in 1 .. n, Holds(segments[k], byte[1], v) PROVE FALSE
      BY DEF Placed
    <3>1. byte[1] < EndOf(segments[k])
      BY <1>1, RunFacts
    <3>2. EndOf(last) < byte[1] /\ EndOf(last) \in Nat
      BY <1>1, <1>4
    <3>3. EndOf(segments[k]) <= EndOf(last)
      <4>1. k < n => EndOf(segments[k]) < last.addr /\ last.addr < EndOf(last) /\ last.addr \in Nat
        BY <1>1
      <4> QED BY <1>1, <4>1
    <3> QED BY <1>1, <3>1, <3>2, <3>3
  <2> HIDE DEF one
  <2>5. Reach(joined) = byte[1] + 1
    <3>1. joined # <<>> /\ Len(joined) = n + 1
      BY <1>1, <2>1
    <3> QED BY <2>1, <2>2, <3>1 DEF Reach
  <2>6. \A a, v : Placed(joined, a, v) <=> Holds(one, a, v) \/ Placed(segments, a, v)
    <3> TAKE a, v
    <3>1. ASSUME Placed(joined, a, v) PROVE Holds(one, a, v) \/ Placed(segments, a, v)
      <4>1. PICK k \in 1 .. n + 1 : Holds(joined[k], a, v)
        BY <2>1, <3>1 DEF Placed
      <4>2. CASE k = n + 1
        BY <2>1, <4>1, <4>2
      <4>3. CASE k \in 1 .. n
        BY <2>1, <4>1, <4>3 DEF Placed
      <4> QED BY <1>1, <4>2, <4>3
    <3>2. Holds(one, a, v) => Placed(joined, a, v)
      <4>1. n + 1 \in 1 .. n + 1
        BY <1>1
      <4> QED BY <2>1, <4>1 DEF Placed
    <3>3. ASSUME Placed(segments, a, v) PROVE Placed(joined, a, v)
      <4>1. PICK k \in 1 .. n : Holds(segments[k], a, v)
        BY <3>3 DEF Placed
      <4>2. k \in 1 .. n + 1 /\ joined[k] = segments[k]
        BY <1>1, <2>1
      <4> QED BY <2>1, <4>1, <4>2 DEF Placed
    <3> QED BY <3>1, <3>2, <3>3
  <2> QED BY <2>3, <2>4, <2>5, <2>6 DEF joined
<1>5. ASSUME NEW data \in Seq(Bytes) \ {<<>>}, Longer(segments, joined, data), segments # <<>>,
             NEW m \in {EndOf(last) - 1, EndOf(last)}, byte[1] = m,
             Len(data) = m + 1 - last.addr,
             data[m + 1 - last.addr] = byte[2],
             \A i \in 1 .. m - last.addr : data[i] = last.data[i]
      PROVE  /\ Reach(joined) = byte[1] + 1
             /\ \A a, v : Placed(joined, a, v) <=> IF a = byte[1] THEN v = byte[2] ELSE Placed(segments, a, v)
  <2>1. /\ Len(joined) = n /\ \A k \in 1 .. n - 1 : joined[k] = segments[k]
        /\ joined[n] = [addr |-> last.addr, data |-> data]
        /\ n \in 1 .. n /\ last \in DataRun /\ joined[n] \in DataRun
    <3>1. n \in 1 .. n
      BY <1>1, <1>5
    <3> QED BY <1>1, <1>2, <1>5, <3>1, RunsFacts DEF Longer
  <2>2. last.addr \in Nat /\ EndOf(last) \in Nat /\ last.addr < EndOf(last) /\ EndOf(last) = last.addr + Len(last.data)
        /\ m \in Nat /\ last.addr <= m
    <3>1. /\ last.addr \in Nat /\ EndOf(last) \in Nat /\ last.addr < EndOf(last)
      BY <2>1, RunFacts
    <3>2. EndOf(last) = last.addr + Len(last.data)
      BY DEF EndOf
    <3>3. m \in Nat /\ last.addr <= m
      <4> DEFINE begin == last.addr
                 end == EndOf(last)
      <4>1. begin \in Nat /\ end \in Nat /\ begin < end /\ (m = end - 1 \/ m = end)
        BY <3>1
      <4> HIDE DEF begin, end
      <4>2. m \in Nat /\ begin <= m
        BY <4>1
      <4> QED BY <4>2 DEF begin
    <3> QED BY <3>1, <3>2, <3>3
  <2>3. joined[n].addr = last.addr /\ joined[n].data = data
    BY <2>1
  <2>4. EndOf(joined[n]) = m + 1
    BY <1>5, <2>2, <2>3 DEF EndOf
  <2>5. Reach(joined) = byte[1] + 1
    <3>1. joined # <<>>
      BY <2>1
    <3> QED BY <1>5, <2>1, <2>4, <3>1 DEF Reach
  <2>6. \A a, v : Holds(joined[n], a, v) <=> IF a = m THEN v = byte[2] ELSE Holds(last, a, v)
    <3> TAKE a, v
    <3> DEFINE t == joined[n]
    <3>1. /\ t \in DataRun /\ t.addr = last.addr /\ t.data = data /\ EndOf(t) = m + 1
      BY <2>1, <2>3, <2>4
    <3> HIDE DEF t
    <3>2. CASE a = m
      <4>1. a \in t.addr .. EndOf(t) - 1 /\ a - t.addr + 1 = m + 1 - last.addr
        BY <2>2, <3>1, <3>2
      <4>2. Holds(t, a, v) <=> v = t.data[a - t.addr + 1]
        BY <3>1, <4>1, RunFacts
      <4> QED BY <1>5, <3>1, <3>2, <4>1, <4>2 DEF t
    <3>3. CASE a # m
      <4>1. ASSUME a \in last.addr .. m - 1 PROVE Holds(t, a, v) <=> Holds(last, a, v)
        <5>1. a \in t.addr .. EndOf(t) - 1 /\ a \in last.addr .. EndOf(last) - 1
          BY <1>5, <2>2, <3>1, <4>1
        <5>2. a - t.addr + 1 = a - last.addr + 1 /\ a - last.addr + 1 \in 1 .. m - last.addr
          <6> DEFINE begin == last.addr
          <6>1. t.addr = begin /\ begin \in Nat /\ m \in Nat /\ a \in Int /\ begin <= a /\ a <= m - 1
            BY <2>2, <3>1, <4>1
          <6> HIDE DEF begin, t
          <6>2. a - t.addr + 1 = a - begin + 1 /\ a - begin + 1 \in 1 .. m - begin
            BY <6>1
          <6> QED BY <6>2 DEF begin
        <5>3. Holds(t, a, v) <=> v = t.data[a - t.addr + 1]
          BY <3>1, <5>1, RunFacts
        <5>4. Holds(last, a, v) <=> v = last.data[a - last.addr + 1]
          BY <2>1, <5>1, RunFacts
        <5> QED BY <1>5, <3>1, <5>2, <5>3, <5>4
      <4>2. ASSUME a \notin last.addr .. m - 1 PROVE ~Holds(t, a, v) /\ ~Holds(last, a, v)
        <5>1. a \notin t.addr .. EndOf(t) - 1
          BY <2>2, <3>1, <3>3, <4>2
        <5>2. a \notin last.addr .. EndOf(last) - 1
          BY <1>5, <2>2, <3>3, <4>2
        <5> QED BY <2>1, <3>1, <5>1, <5>2, RunFacts
      <4> QED BY <3>3, <4>1, <4>2 DEF t
    <3> QED BY <3>2, <3>3
  <2>7. \A v : \A k \in 1 .. n - 1 : ~Holds(segments[k], m, v)
    <3> TAKE v
    <3> TAKE k \in 1 .. n - 1
    <3>1. k \in 1 .. n /\ k < n
      BY <1>1
    <3>2. ~Holds(segments[k], EndOf(last), v) /\ ~Holds(segments[k], EndOf(last) - 1, v)
      BY <1>3, <3>1
    <3> QED BY <3>2
  <2>8. \A a, v : Placed(joined, a, v) <=> IF a = m THEN v = byte[2] ELSE Placed(segments, a, v)
    <3> TAKE a, v
    <3>1. 1 .. n = 1 .. n - 1 \cup {n}
      BY <1>1, <2>1
    <3>2. Placed(joined, a, v) <=> Holds(joined[n], a, v) \/ \E k \in 1 .. n - 1 : Holds(segments[k], a, v)
      BY <2>1, <3>1 DEF Placed
    <3>3. Placed(segments, a, v) <=> Holds(last, a, v) \/ \E k \in 1 .. n - 1 : Holds(segments[k], a, v)
      BY <2>1, <3>1 DEF Placed
    <3> QED BY <2>6, <2>7, <3>2, <3>3
  <2> QED BY <1>5, <2>5, <2>8
<1>6. segments # <<>> => /\ last \in DataRun /\ last.data \in Seq(Bytes) \ {<<>>} /\ Len(last.data) \in Nat \ {0}
                         /\ last.addr \in Nat /\ EndOf(last) = last.addr + Len(last.data)
                         /\ Reach(segments) = EndOf(last)
  <2> SUFFICES ASSUME segments # <<>>
               PROVE  last \in DataRun
    BY RunFacts DEF DataRun, EndOf, Reach
  <2> QED BY <1>1
<1>7. CASE segments # <<>> /\ byte[1] = EndOf(last) /\ Longer(segments, joined, appended)
  <2>1. /\ appended \in Seq(Bytes) \ {<<>>} /\ Len(appended) = Len(last.data) + 1
        /\ appended[Len(last.data) + 1] = byte[2]
        /\ \A i \in 1 .. Len(last.data) : appended[i] = last.data[i]
    <3>1. byte[2] \in Bytes /\ last.data \in Seq(Bytes)
      BY <1>6, <1>7 DEF Byte
    <3> QED BY <1>6, <1>7, <3>1, AppendProperties DEF appended
  <2>2. /\ EndOf(last) + 1 - last.addr = Len(last.data) + 1
        /\ EndOf(last) - last.addr = Len(last.data)
    BY <1>6, <1>7
  <2> QED BY <1>5, <1>7, <2>1, <2>2 DEF joined
<1>8. CASE segments # <<>> /\ byte[1] < EndOf(last) /\ Longer(segments, joined, replaced)
  <2>1. byte[1] = EndOf(last) - 1
    BY <1>1, <1>6, <1>8
  <2>2. /\ byte[1] - last.addr + 1 = Len(last.data) /\ (EndOf(last) - 1) + 1 - last.addr = Len(last.data)
        /\ (EndOf(last) - 1) - last.addr = Len(last.data) - 1
    BY <1>6, <1>8, <2>1
  <2>3. /\ replaced \in Seq(Bytes) \ {<<>>} /\ Len(replaced) = Len(last.data)
        /\ replaced[Len(last.data)] = byte[2]
        /\ \A i \in 1 .. Len(last.data) - 1 : replaced[i] = last.data[i]
    <3> DEFINE data == last.data
               r == [data EXCEPT ![Len(data)] = byte[2]]
    <3>1. byte[2] \in Bytes /\ data \in Seq(Bytes) /\ Len(data) \in Nat \ {0}
      BY <1>6, <1>8 DEF Byte
    <3>2. replaced = r
      BY <2>2 DEF replaced
    <3> HIDE DEF data
    <3>3. /\ r \in Seq(Bytes) /\ Len(r) = Len(data) /\ r[Len(data)] = byte[2]
          /\ \A i \in 1 .. Len(data) - 1 : r[i] = data[i]
      BY <3>1
    <3>4. r # <<>>
      BY <3>1, <3>3
    <3> QED BY <3>2, <3>3, <3>4 DEF data
  <2> QED BY <1>5, <1>8, <2>1, <2>2, <2>3 DEF joined
<1> QED BY <1>2, <1>4, <1>7, <1>8 DEF joined

JoinSteps(s, f) ==
  /\ f \in [0 .. Len(s) -> Runs]
  /\ f[0] = <<>>
  /\ \A k \in 1 .. Len(s) : f[k] = Join(f[k - 1], s[k])

LEMMA EmptyRuns == <<>> \in Runs
<1>1. <<>> \in Seq(DataRun) /\ Len(<<>>) = 0
  OBVIOUS
<1> QED BY <1>1 DEF Runs, Gapped

LEMMA JoinedIs ==
  ASSUME NEW s \in Seq(Byte)
  PROVE  \E f : JoinSteps(s, f) /\ Joined(s) = f[Len(s)]
<1> DEFINE n == Len(s)
           step == [p \in Runs \X (1 .. n) |-> Join(p[1], s[p[2]])]
           turn(f) == [k \in 0 .. n |-> IF k = 0 THEN <<>> ELSE Join(f[k - 1], s[k])]
           own == CHOOSE f : f = turn(f)
<1>0. n \in Nat
  OBVIOUS
<1>1. n \in Nat /\ \A k \in 1 .. n : s[k] \in Byte
  OBVIOUS
<1>2. step \in [Runs \X (1 .. n) -> Runs] /\ <<>> \in Runs
  <2>1. \A p \in Runs \X (1 .. n) : Join(p[1], s[p[2]]) \in Runs
    BY <1>1, JoinIs
  <2>2. <<>> \in Runs
    BY EmptyRuns
  <2> QED BY <2>1, <2>2
<1>3. Joined(s) = own[n]
  BY DEF Joined
<1>4. \A r \in Runs, k \in 1 .. n : step[<<r, k>>] = Join(r, s[k])
  OBVIOUS
<1> HIDE DEF step
<1>5. PICK f : Recursion(f, n, Runs, <<>>, step)
  <2>1. StepOn(step, n, Runs)
    BY <1>2 DEF StepOn
  <2> HIDE DEF n, own
  <2> QED BY <1>0, <1>2, <2>1, RecursionExists
<1>6. /\ f \in [0 .. n -> Runs] /\ f[0] = <<>>
      /\ \A k \in 1 .. n : f[k] = step[<<f[k - 1], k>>]
  BY <1>5 DEF Recursion
<1>7. \A k \in 1 .. n : k - 1 \in 0 .. n /\ f[k - 1] \in Runs
  BY <1>1, <1>6
<1>8. own = turn(own)
  <2>1. f = turn(f)
    <3>1. \A k \in 1 .. n : f[k] = Join(f[k - 1], s[k])
      BY <1>4, <1>6, <1>7
    <3>2. \A k \in 0 .. n : f[k] = turn(f)[k]
      BY <1>6, <3>1
    <3> QED BY <1>6, <3>2
  <2> HIDE DEF turn
  <2> QED BY <2>1
<1> HIDE DEF own
<1>9. /\ own = [k \in 0 .. n |-> own[k]] /\ own[0] = <<>>
      /\ \A k \in 1 .. n : own[k] = Join(own[k - 1], s[k])
  BY <1>1, <1>8
<1> HIDE DEF turn
<1>10. \A k \in 0 .. n : own[k] = f[k]
  <2>1. Follows(own, n, Runs, <<>>, step)
    BY <1>4, <1>9 DEF Follows
  <2> HIDE DEF n
  <2> QED BY <1>0, <1>5, <2>1, RecursionSame
<1>11. JoinSteps(s, own)
  <2>1. own \in [0 .. n -> Runs]
    BY <1>6, <1>9, <1>10
  <2> QED BY <1>9, <2>1 DEF JoinSteps
<1> QED BY <1>3, <1>11

\* The segments of a file put to every address what the file set it to last.
LEMMA CoalesceIs ==
  ASSUME NEW bytes \in Seq(Byte)
  PROVE  /\ Coalesce(bytes) \in Runs
         /\ \A a, v : Placed(Coalesce(bytes), a, v) <=> Final(bytes, a, v)
<1> DEFINE s == InOrder(bytes)
<1>1. /\ s \in Seq(Byte) /\ Len(s) \in Nat /\ \A k \in 1 .. Len(s) : s[k] \in Byte /\ s[k][1] \in Nat
      /\ \A i, j \in 1 .. Len(s) : i <= j => s[i][1] <= s[j][1]
      /\ \A a, v : Final(s, a, v) <=> Final(bytes, a, v)
  <2>1. s \in Ordered /\ \A a, v : Final(s, a, v) <=> Final(bytes, a, v)
    BY OrderKeeps
  <2> HIDE DEF s
  <2>2. s \in Seq(Byte) /\ Sorted(s)
    BY <2>1 DEF Ordered
  <2>3. \A k \in 1 .. Len(s) : s[k] \in Byte
    BY <2>2
  <2> QED BY <2>1, <2>2, <2>3 DEF Sorted, Byte
<1>2. Coalesce(bytes) = Joined(s)
  BY DEF Coalesce
<1> HIDE DEF s
<1>3. PICK f : JoinSteps(s, f) /\ Joined(s) = f[Len(s)]
  BY <1>1, JoinedIs
<1> DEFINE same(k) == /\ \A a, v : Placed(f[k], a, v) <=> Final(SubSeq(s, 1, k), a, v)
                      /\ Reach(f[k]) = IF k = 0 THEN 0 ELSE s[k][1] + 1
           done == {k \in Nat : k <= Len(s) => same(k)}
<1>4. 0 \in done
  <2>1. f[0] = <<>> /\ SubSeq(s, 1, 0) = <<>>
    BY <1>1, <1>3, PrefixGrows DEF JoinSteps
  <2>2. \A a, v : ~Placed(<<>>, a, v) /\ ~Final(<<>>, a, v)
    BY DEF Placed, Final
  <2>3. same(0)
    BY <2>1, <2>2 DEF Reach
  <2> HIDE DEF same
  <2> QED BY <2>3
<1>5. ASSUME NEW k \in 0 .. Len(s) - 1, k \in done PROVE k + 1 \in done
  <2>1. k \in Nat /\ k <= Len(s) /\ k \in 0 .. Len(s) /\ k + 1 \in 1 .. Len(s) /\ (k + 1) - 1 = k
    BY <1>1
  <2> DEFINE byte == s[k + 1]
             old == f[k]
             first == SubSeq(s, 1, k)
  <2>2. byte \in Byte /\ byte[1] \in Nat /\ old \in Runs /\ f[k + 1] = Join(old, byte)
    BY <1>1, <1>3, <2>1 DEF JoinSteps
  <2>3. first \in Seq(Byte) /\ SubSeq(s, 1, k + 1) = Append(first, byte)
    BY <1>1, PrefixGrows
  <2>4. same(k)
    <3> HIDE DEF same
    <3> QED BY <1>5, <2>1
  <2>5. byte[1] >= Reach(old) - 1
    <3>1. CASE k = 0
      BY <2>2, <2>4, <3>1
    <3>2. CASE k # 0
      <4>1. Reach(old) = s[k][1] + 1 /\ k \in 1 .. Len(s)
        BY <2>1, <2>4, <3>2
      <4>2. s[k][1] <= byte[1] /\ s[k][1] \in Nat
        BY <1>1, <2>1, <4>1
      <4> QED BY <2>2, <4>1, <4>2
    <3> QED BY <3>1, <3>2
  <2>6. \A a, v : Placed(old, a, v) <=> Final(first, a, v)
    BY <2>4
  <2>7. Reach(f[k + 1]) = s[k + 1][1] + 1
    <3> HIDE DEF byte, old
    <3>1. Reach(Join(old, byte)) = byte[1] + 1
      BY <2>2, <2>5, JoinPlaces
    <3> QED BY <2>2, <3>1 DEF byte
  <2>8. \A a, v : Placed(f[k + 1], a, v) <=> Final(SubSeq(s, 1, k + 1), a, v)
    <3> HIDE DEF byte, old, first
    <3> TAKE a, v
    <3>1. Placed(Join(old, byte), a, v) <=> IF a = byte[1] THEN v = byte[2] ELSE Placed(old, a, v)
      BY <2>2, <2>5, JoinPlaces
    <3>2. Final(Append(first, byte), a, v) <=> IF a = byte[1] THEN v = byte[2] ELSE Final(first, a, v)
      BY <2>2, <2>3, FinalAppend
    <3> QED BY <2>2, <2>3, <2>6, <3>1, <3>2
  <2>9. same(k + 1)
    BY <2>1, <2>7, <2>8
  <2> HIDE DEF same
  <2> QED BY <2>1, <2>9
<1>6. same(Len(s))
  <2>1. 0 .. Len(s) \subseteq done
    <3> HIDE DEF done
    <3> QED BY <1>1, <1>4, <1>5, InductionOverSet
  <2>2. Len(s) \in done
    <3> HIDE DEF done
    <3> QED BY <1>1, <2>1
  <2> HIDE DEF same
  <2> QED BY <1>1, <2>2
<1>7. SubSeq(s, 1, Len(s)) = s
  BY <1>1, PrefixGrows
<1>8. f[Len(s)] \in Runs
  BY <1>1, <1>3 DEF JoinSteps
<1> QED BY <1>1, <1>2, <1>3, <1>6, <1>7, <1>8

LEMMA SegmentsAre ==
  ASSUME NEW lines \in Seq(LineRecord)
  PROVE  /\ Segments(lines) \in Runs
         /\ \A a, v : Placed(Segments(lines), a, v) <=> Final(Read(lines).bytes, a, v)
<1>1. Read(lines).bytes \in Seq(Byte)
  BY ReadingType DEF Reading
<1> QED BY <1>1, CoalesceIs DEF Segments

-----------------------------------------------------------------------------
HexTyped == hexFile \in Seq(Lines)

LEMMA HexInitTyped == HexInit => HexTyped
BY DEF HexInit, HexTyped

LEMMA HexKeepsTyped == HexTyped /\ [HexNext]_hexFile => HexTyped'
<1> SUFFICES ASSUME HexTyped, [HexNext]_hexFile PROVE HexTyped'
  OBVIOUS
<1>1. CASE \E line \in Lines : hexFile' = Append(hexFile, line)
  BY <1>1 DEF HexTyped
<1>2. CASE hexFile' = <<>>
  BY <1>2 DEF HexTyped
<1>3. CASE UNCHANGED hexFile
  BY <1>3 DEF HexTyped
<1> QED BY <1>1, <1>2, <1>3 DEF HexNext

LEMMA FileType == ASSUME HexTyped PROVE hexFile \in Seq(LineRecord)
<1>1. Lines \subseteq LineRecord
  BY LinesAssumption DEF LineRecord
<1> QED BY <1>1 DEF HexTyped

LEMMA TypedAgrees == ASSUME HexTyped PROVE ReadersAgree
<1> SUFFICES ASSUME Read(hexFile).ok
             PROVE  LET segments == Segments(hexFile)
                        memory == Memory(hexFile)
                        placed == UNION {s.addr .. s.addr + Len(s.data) - 1 : s \in Range(segments)}
                    IN  /\ DOMAIN memory = placed
                        /\ \A s \in Range(segments) : \A i \in DOMAIN s.data : memory[s.addr + i - 1] = s.data[i]
  BY DEF ReadersAgree
<1> DEFINE segments == Segments(hexFile)
           memory == Memory(hexFile)
           placed == UNION {s.addr .. s.addr + Len(s.data) - 1 : s \in Range(segments)}
<1>1. segments \in Runs /\ \A a, v : Placed(segments, a, v) <=> Final(Read(hexFile).bytes, a, v)
  BY FileType, SegmentsAre
<1>2. /\ \A a \in DOMAIN memory : Final(Read(hexFile).bytes, a, memory[a])
      /\ \A a, v : Final(Read(hexFile).bytes, a, v) => a \in DOMAIN memory /\ memory[a] = v
  <2>1. Parse(hexFile).bytes = Read(hexFile).bytes
    BY FileType, ParseFollows
  <2> QED BY <2>1, FileType, MemoryIs
<1> HIDE DEF segments, memory
<1>3. Range(segments) = {segments[k] : k \in 1 .. Len(segments)} /\ Range(segments) \subseteq DataRun
  <2>1. DOMAIN segments = 1 .. Len(segments) /\ \A k \in 1 .. Len(segments) : segments[k] \in DataRun
    BY <1>1, RunsFacts
  <2> QED BY <2>1 DEF Range
<1>4. \A s \in Range(segments) : s.addr .. s.addr + Len(s.data) - 1 = s.addr .. EndOf(s) - 1
  <2> TAKE s \in Range(segments)
  <2>1. s.addr \in Nat /\ Len(s.data) \in Nat
    BY <1>3, RunFacts
  <2>2. EndOf(s) - 1 = s.addr + Len(s.data) - 1
    BY <2>1 DEF EndOf
  <2> QED BY <2>2
<1>5. ASSUME NEW a \in placed PROVE a \in DOMAIN memory
  <2>1. PICK k \in 1 .. Len(segments) : a \in segments[k].addr .. EndOf(segments[k]) - 1
    BY <1>3, <1>4
  <2> DEFINE s == segments[k]
             v == s.data[a - s.addr + 1]
  <2>2. s \in DataRun /\ a \in s.addr .. EndOf(s) - 1
    BY <1>3, <2>1
  <2> HIDE DEF s
  <2>3. Holds(s, a, v)
    BY <2>2, RunFacts
  <2> HIDE DEF v
  <2>4. Placed(segments, a, v)
    BY <2>3 DEF Placed, s
  <2> QED BY <1>1, <1>2, <2>4
<1>6. ASSUME NEW a \in DOMAIN memory PROVE a \in placed
  <2>1. Placed(segments, a, memory[a])
    BY <1>1, <1>2
  <2>2. PICK k \in 1 .. Len(segments) : Holds(segments[k], a, memory[a])
    BY <2>1 DEF Placed
  <2>3. segments[k] \in Range(segments)
    BY <1>3
  <2>4. a \in segments[k].addr .. EndOf(segments[k]) - 1
    BY <1>3, <2>2, <2>3, RunFacts
  <2> QED BY <1>4, <2>3, <2>4
<1>7. ASSUME NEW s \in Range(segments), NEW i \in DOMAIN s.data
      PROVE  memory[s.addr + i - 1] = s.data[i]
  <2>1. PICK k \in 1 .. Len(segments) : s = segments[k]
    BY <1>3
  <2>2. DOMAIN s.data = 1 .. Len(s.data)
    BY <1>3 DEF DataRun
  <2>3. Holds(s, s.addr + i - 1, s.data[i])
    BY <2>2 DEF Holds
  <2>4. Placed(segments, s.addr + i - 1, s.data[i])
    BY <2>1, <2>3 DEF Placed
  <2> QED BY <1>1, <1>2, <2>4
<1>8. DOMAIN memory = placed
  BY <1>5, <1>6
<1> QED BY <1>7, <1>8 DEF segments, memory

\* Both readers agree on every file, whatever its lines and however many.
THEOREM AgreeTheorem == HexSpec => []ReadersAgree
BY HexInitTyped, HexKeepsTyped, TypedAgrees, PTL DEF HexSpec

-----------------------------------------------------------------------------
(* The layout of the parts. *)

TotalSteps(q, f) ==
  /\ f \in [0 .. Len(q) -> Nat]
  /\ f[0] = 0
  /\ \A k \in 1 .. Len(q) : f[k] = f[k - 1] + q[k]

LEMMA TotalIs ==
  ASSUME NEW q \in Seq(Nat)
  PROVE  \E f : TotalSteps(q, f) /\ Total(q) = f[Len(q)]
<1> DEFINE n == Len(q)
           step == [p \in Nat \X (1 .. n) |-> p[1] + q[p[2]]]
           turn(f) == [k \in 0 .. n |-> IF k = 0 THEN 0 ELSE f[k - 1] + q[k]]
           own == CHOOSE f : f = turn(f)
<1>0. n \in Nat
  OBVIOUS
<1>1. n \in Nat /\ \A k \in 1 .. n : q[k] \in Nat
  OBVIOUS
<1>2. step \in [Nat \X (1 .. n) -> Nat] /\ 0 \in Nat
  <2>1. \A p \in Nat \X (1 .. n) : p[1] + q[p[2]] \in Nat
    BY <1>1
  <2>2. 0 \in Nat
    OBVIOUS
  <2> QED BY <2>1, <2>2
<1>3. Total(q) = own[n]
  BY DEF Total
<1>4. \A r \in Nat, k \in 1 .. n : step[<<r, k>>] = r + q[k]
  OBVIOUS
<1> HIDE DEF step
<1>5. PICK f : Recursion(f, n, Nat, 0, step)
  <2>1. StepOn(step, n, Nat)
    BY <1>2 DEF StepOn
  <2> HIDE DEF n, own
  <2> QED BY <1>0, <1>2, <2>1, RecursionExists
<1>6. /\ f \in [0 .. n -> Nat] /\ f[0] = 0
      /\ \A k \in 1 .. n : f[k] = step[<<f[k - 1], k>>]
  BY <1>5 DEF Recursion
<1>7. \A k \in 1 .. n : k - 1 \in 0 .. n /\ f[k - 1] \in Nat
  <2>1. f \in [0 .. n -> Nat]
    BY <1>6
  <2> HIDE DEF n
  <2> QED BY <1>0, <2>1
<1>8. own = turn(own)
  <2>1. f = turn(f)
    <3>1. \A k \in 1 .. n : f[k] = f[k - 1] + q[k]
      BY <1>4, <1>6, <1>7
    <3>2. \A k \in 0 .. n : f[k] = turn(f)[k]
      BY <1>6, <3>1
    <3> QED BY <1>6, <3>2
  <2> HIDE DEF turn
  <2> QED BY <2>1
<1> HIDE DEF own
<1>9. /\ own = [k \in 0 .. n |-> own[k]] /\ own[0] = 0
      /\ \A k \in 1 .. n : own[k] = own[k - 1] + q[k]
  BY <1>1, <1>8
<1> HIDE DEF turn
<1>10. \A k \in 0 .. n : own[k] = f[k]
  <2> DEFINE numbers == Nat
             zero == 0
  <2>1. Follows(own, n, numbers, zero, step)
    BY <1>4, <1>9 DEF Follows
  <2>2. Recursion(f, n, numbers, zero, step)
    BY <1>5
  <2> HIDE DEF n, numbers, zero
  <2> QED BY <1>0, <2>1, <2>2, RecursionSame
<1>11. TotalSteps(q, own)
  <2>1. own \in [0 .. n -> Nat]
    BY <1>6, <1>9, <1>10
  <2> QED BY <1>9, <2>1 DEF TotalSteps
<1> QED BY <1>3, <1>11

LEMMA TotalAppend ==
  ASSUME NEW q \in Seq(Nat), NEW x \in Nat
  PROVE  Total(Append(q, x)) = Total(q) + x
<1> DEFINE more == Append(q, x)
<1>1. /\ more \in Seq(Nat) /\ Len(more) = Len(q) + 1 /\ Len(q) \in Nat /\ more[Len(q) + 1] = x
      /\ \A k \in 1 .. Len(q) : more[k] = q[k]
  BY AppendProperties
<1> HIDE DEF more
<1>2. PICK f : TotalSteps(q, f) /\ Total(q) = f[Len(q)]
  BY TotalIs
<1>3. PICK g : TotalSteps(more, g) /\ Total(more) = g[Len(more)]
  BY <1>1, TotalIs
<1> DEFINE same == {k \in Nat : k <= Len(q) => g[k] = f[k]}
<1>4. 0 \in same
  BY <1>2, <1>3 DEF TotalSteps
<1>5. ASSUME NEW k \in 0 .. Len(q) - 1, k \in same PROVE k + 1 \in same
  <2>1. k + 1 \in 1 .. Len(q) /\ k + 1 \in 1 .. Len(more) /\ (k + 1) - 1 = k /\ k \in Nat /\ k <= Len(q)
    BY <1>1
  <2>2. f[k + 1] = f[k] + q[k + 1] /\ g[k + 1] = g[k] + more[k + 1]
    BY <1>2, <1>3, <2>1 DEF TotalSteps
  <2> QED BY <1>1, <1>5, <2>1, <2>2
<1>6. g[Len(q)] = f[Len(q)]
  <2>1. 0 .. Len(q) \subseteq same
    <3> HIDE DEF same
    <3> QED BY <1>1, <1>4, <1>5, InductionOverSet
  <2>2. Len(q) \in same
    <3> HIDE DEF same
    <3> QED BY <1>1, <2>1
  <2> QED BY <1>1, <2>2
<1>7. g[Len(q) + 1] = g[Len(q)] + more[Len(q) + 1]
  <2>1. Len(q) + 1 \in 1 .. Len(more) /\ (Len(q) + 1) - 1 = Len(q)
    BY <1>1
  <2> QED BY <1>3, <2>1 DEF TotalSteps
<1> QED BY <1>1, <1>2, <1>3, <1>6, <1>7 DEF more

LEMMA AlignUpIs ==
  ASSUME NEW n \in Nat
  PROVE  AlignUp(n) \in Nat /\ AlignUp(n) >= n /\ (n % Align = 0 => AlignUp(n) = n)
<1>1. Align \in Nat \ {0}
  BY GeometryFacts
<1> DEFINE m == n + Align - 1
           d == m \div Align
<1>2. m \in Int /\ m = n + (Align - 1)
  BY <1>1
<1>3. m = Align * d + (m % Align) /\ d \in Int /\ m % Align \in 0 .. Align - 1
  <2> HIDE DEF m
  <2> QED BY <1>1, <1>2, Division
<1>4. AlignUp(n) = d * Align
  BY DEF AlignUp
<1> HIDE DEF d
<1>5. d * Align = Align * d /\ Align * d \in Int
  BY <1>1, <1>3
<1> DEFINE product == Align * d
           rest == m % Align
<1>6. product \in Int /\ rest \in 0 .. Align - 1 /\ m = product + rest /\ AlignUp(n) = product
  BY <1>3, <1>4, <1>5
<1>7. ASSUME n % Align = 0 PROVE rest = Align - 1
  <2>1. n = Align * (n \div Align) + 0 /\ n \div Align \in Int
    BY <1>1, <1>7, Division
  <2>2. m = Align * (n \div Align) + (Align - 1) /\ Align - 1 \in 0 .. Align - 1
    <3> DEFINE p == Align * (n \div Align)
    <3>1. p \in Int /\ n = p + 0
      BY <1>1, <2>1
    <3> HIDE DEF p
    <3>2. m = p + (Align - 1)
      BY <1>1, <1>2, <3>1
    <3> QED BY <1>1, <3>2 DEF p
  <2> HIDE DEF m
  <2> QED BY <1>1, <1>2, <2>1, <2>2, Remainders
<1> HIDE DEF m, product, rest
<1> QED BY <1>1, <1>2, <1>6, <1>7

LEMMA SramLensGrows ==
  ASSUME NEW image \in Seq(Segment), NEW m \in Segment
  PROVE  /\ SramLens(image) \in Seq(Nat)
         /\ SramLens(Append(image, m)) =
              IF m.sram THEN Append(SramLens(image), m.len) ELSE SramLens(image)
<1> DEFINE more == Append(image, m)
           those == {s \in Range(image) : s.sram}
           others == {s \in Range(more) : s.sram}
           old == Selected(image, those)
           new == Selected(more, others)
<1>1. /\ more \in Seq(Segment) /\ Len(more) = Len(image) + 1 /\ Len(image) \in Nat
      /\ more[Len(image) + 1] = m /\ \A k \in 1 .. Len(image) : more[k] = image[k]
  BY AppendProperties
<1>2. \A k \in 1 .. Len(image) : image[k] \in others <=> image[k] \in those
  <2> TAKE k \in 1 .. Len(image)
  <2>1. image[k] \in Range(image) /\ image[k] \in Range(more)
    <3>1. k \in DOMAIN image /\ k \in DOMAIN more /\ more[k] = image[k]
      BY <1>1
    <3> QED BY <3>1 DEF Range
  <2> QED BY <2>1
<1>3. m \in others <=> m.sram
  <2>1. Len(image) + 1 \in DOMAIN more
    BY <1>1
  <2>2. m \in Range(more)
    BY <1>1, <2>1 DEF Range
  <2> QED BY <2>2
<1>4. SramLens(image) = [k \in DOMAIN old |-> old[k].len] /\ SramLens(more) = [k \in DOMAIN new |-> new[k].len]
  BY DEF SramLens
<1> HIDE DEF those, others, more
<1>5. old \in Seq(Segment) /\ new = Fed(old, m, others)
  <2>1. Selected(image, those) \in Seq(Segment)
        /\ Selected(Append(image, m), others) = Fed(Selected(image, those), m, others)
    BY <1>2, SelectedAppend
  <2> QED BY <2>1 DEF more
<1> HIDE DEF old, new
<1>6. SramLens(image) \in Seq(Nat)
  BY SramLensType
<1>7. CASE m.sram
  <2>1. new = Append(old, m)
    BY <1>3, <1>5, <1>7 DEF Fed
  <2>2. /\ DOMAIN old = 1 .. Len(old) /\ Len(old) \in Nat
        /\ DOMAIN new = 1 .. Len(old) + 1 /\ new[Len(old) + 1] = m
        /\ \A k \in 1 .. Len(old) : new[k] = old[k]
    BY <1>5, <2>1, AppendProperties
  <2>3. SramLens(more) = [k \in 1 .. Len(old) + 1 |-> new[k].len]
    BY <1>4, <2>2
  <2>4. SramLens(image) = [k \in 1 .. Len(old) |-> old[k].len] /\ Len(SramLens(image)) = Len(old)
    BY <1>4, <1>6, <2>2
  <2>5. Append(SramLens(image), m.len) = [k \in 1 .. Len(old) + 1 |-> new[k].len]
    <3> DEFINE right == Append(SramLens(image), m.len)
    <3>1. m.len \in Nat
      BY DEF Segment
    <3>2. right \in Seq(Nat) /\ Len(right) = Len(old) + 1 /\ right[Len(old) + 1] = m.len
          /\ \A k \in 1 .. Len(old) : right[k] = SramLens(image)[k]
      BY <1>6, <2>4, <3>1, AppendProperties
    <3>3. right = [k \in 1 .. Len(old) + 1 |-> right[k]]
      BY <2>2, <3>2
    <3> HIDE DEF right
    <3>4. \A k \in 1 .. Len(old) + 1 : right[k] = new[k].len
      <4>1. \A k \in 1 .. Len(old) : right[k] = new[k].len
        BY <2>2, <2>4, <3>2
      <4>2. right[Len(old) + 1] = new[Len(old) + 1].len
        BY <2>2, <3>2
      <4> QED BY <2>2, <4>1, <4>2
    <3> QED BY <3>3, <3>4 DEF right
  <2> QED BY <1>6, <1>7, <2>3, <2>5 DEF more
<1>8. CASE ~m.sram
  <2>1. new = old
    BY <1>3, <1>5, <1>8 DEF Fed
  <2> QED BY <1>4, <1>6, <1>8, <2>1 DEF more
<1> QED BY <1>7, <1>8

-----------------------------------------------------------------------------
(* The room that the SRAM segments among the first k are stored in. *)

AlignedLens(image) == [j \in DOMAIN SramLens(image) |-> AlignUp(SramLens(image)[j])]
Stacked(image, k) == Total(AlignedLens(SubSeq(image, 1, k)))

LEMMA AlignedType ==
  ASSUME NEW image \in Seq(Segment)
  PROVE  /\ AlignedLens(image) \in Seq(Nat) /\ Len(AlignedLens(image)) = Len(SramLens(image))
         /\ \A j \in 1 .. Len(SramLens(image)) : AlignedLens(image)[j] = AlignUp(SramLens(image)[j])
<1> DEFINE lens == SramLens(image)
<1>1. lens \in Seq(Nat) /\ DOMAIN lens = 1 .. Len(lens) /\ Len(lens) \in Nat
  BY SramLensType
<1>2. AlignedLens(image) = [j \in 1 .. Len(lens) |-> AlignUp(lens[j])]
  BY <1>1 DEF AlignedLens
<1>3. \A j \in 1 .. Len(lens) : AlignUp(lens[j]) \in Nat
  BY <1>1, AlignUpIs
<1> HIDE DEF lens
<1> QED BY <1>1, <1>2, <1>3 DEF lens

LEMMA AlignedGrows ==
  ASSUME NEW image \in Seq(Segment), NEW m \in Segment
  PROVE  Total(AlignedLens(Append(image, m))) =
           Total(AlignedLens(image)) + (IF m.sram THEN AlignUp(m.len) ELSE 0)
<1> DEFINE lens == SramLens(image)
           more == Append(image, m)
<1>1. lens \in Seq(Nat) /\ Len(lens) \in Nat
  BY SramLensType
<1>2. m.len \in Nat /\ m.sram \in BOOLEAN /\ AlignUp(m.len) \in Nat
  BY AlignUpIs DEF Segment
<1>3. /\ AlignedLens(image) \in Seq(Nat) /\ Len(AlignedLens(image)) = Len(lens)
      /\ \A j \in 1 .. Len(lens) : AlignedLens(image)[j] = AlignUp(lens[j])
  BY AlignedType
<1>4. more \in Seq(Segment)
  BY AppendProperties
<1>5. /\ AlignedLens(more) \in Seq(Nat) /\ Len(AlignedLens(more)) = Len(SramLens(more))
      /\ \A j \in 1 .. Len(SramLens(more)) : AlignedLens(more)[j] = AlignUp(SramLens(more)[j])
  BY <1>4, AlignedType
<1>6. CASE m.sram
  <2>1. SramLens(more) = Append(lens, m.len)
    BY <1>6, SramLensGrows
  <2> HIDE DEF lens, more
  <2>2. /\ Len(SramLens(more)) = Len(lens) + 1 /\ SramLens(more)[Len(lens) + 1] = m.len
        /\ \A j \in 1 .. Len(lens) : SramLens(more)[j] = lens[j]
    BY <1>1, <1>2, <2>1, AppendProperties
  <2> DEFINE x == AlignUp(m.len)
             a == AlignedLens(image)
             b == AlignedLens(more)
  <2>3. a \in Seq(Nat) /\ x \in Nat /\ b \in Seq(Nat) /\ Len(b) = Len(a) + 1 /\ Len(a) \in Nat
        /\ b[Len(a) + 1] = x /\ \A j \in 1 .. Len(a) : b[j] = a[j]
    BY <1>1, <1>2, <1>3, <1>5, <2>2
  <2> HIDE DEF a, b, x
  <2>4. Append(a, x) = b
    <3>1. Append(a, x) \in Seq(Nat) /\ Len(Append(a, x)) = Len(a) + 1 /\ Append(a, x)[Len(a) + 1] = x
          /\ \A j \in 1 .. Len(a) : Append(a, x)[j] = a[j]
      BY <2>3, AppendProperties
    <3>2. \A j \in 1 .. Len(a) + 1 : Append(a, x)[j] = b[j]
      BY <2>3, <3>1
    <3> QED BY <2>3, <3>1, <3>2, SeqEqual
  <2>5. Total(b) = Total(a) + x
    BY <2>3, <2>4, TotalAppend
  <2> QED BY <1>6, <2>5 DEF a, b, x, more
<1>7. CASE ~m.sram
  <2>1. SramLens(more) = lens
    BY <1>7, SramLensGrows
  <2>2. AlignedLens(more) = AlignedLens(image)
    BY <2>1 DEF AlignedLens
  <2>3. Total(AlignedLens(image)) \in Nat
    BY <1>3, TotalType
  <2> QED BY <1>7, <2>2, <2>3
<1> QED BY <1>6, <1>7

LEMMA StackedGrows ==
  ASSUME NEW image \in Seq(Segment)
  PROVE  /\ \A k \in 0 .. Len(image) : Stacked(image, k) \in Nat
         /\ \A k \in 1 .. Len(image) :
              Stacked(image, k) =
                Stacked(image, k - 1) + (IF image[k].sram THEN AlignUp(image[k].len) ELSE 0)
<1>1. Len(image) \in Nat /\ \A k \in 1 .. Len(image) : image[k] \in Segment
  OBVIOUS
<1>2. ASSUME NEW k \in 0 .. Len(image) PROVE Stacked(image, k) \in Nat
  <2>1. SubSeq(image, 1, k) \in Seq(Segment)
    BY <1>1
  <2>2. AlignedLens(SubSeq(image, 1, k)) \in Seq(Nat)
    BY <2>1, AlignedType
  <2> QED BY <2>2, TotalType DEF Stacked
<1>3. ASSUME NEW k \in 1 .. Len(image)
      PROVE  Stacked(image, k) = Stacked(image, k - 1) + (IF image[k].sram THEN AlignUp(image[k].len) ELSE 0)
  <2> DEFINE before == SubSeq(image, 1, k - 1)
  <2>1. k - 1 \in 0 .. Len(image) - 1 /\ (k - 1) + 1 = k
    BY <1>1
  <2>2. before \in Seq(Segment) /\ SubSeq(image, 1, k) = Append(before, image[k])
    BY <2>1, PrefixGrows
  <2>3. image[k] \in Segment
    BY <1>1
  <2> HIDE DEF before
  <2>4. Total(AlignedLens(Append(before, image[k]))) =
          Total(AlignedLens(before)) + (IF image[k].sram THEN AlignUp(image[k].len) ELSE 0)
    BY <2>2, <2>3, AlignedGrows
  <2> QED BY <2>2, <2>4 DEF Stacked, before
<1> QED BY <1>2, <1>3

LEMMA StackedMono ==
  ASSUME NEW image \in Seq(Segment), NEW i \in 0 .. Len(image), NEW j \in i .. Len(image)
  PROVE  Stacked(image, i) <= Stacked(image, j)
<1> DEFINE high(k) == Stacked(image, i) <= Stacked(image, k)
           done == {k \in Nat : k >= i /\ k <= Len(image) => high(k)}
<1>1. Len(image) \in Nat /\ Stacked(image, i) \in Nat
  BY StackedGrows
<1>2. ASSUME NEW k \in 0 .. Len(image) - 1, k + 1 >= i, k >= i => high(k) PROVE high(k + 1)
  <2>1. k \in 0 .. Len(image) /\ k + 1 \in 1 .. Len(image) /\ (k + 1) - 1 = k /\ k + 1 \in 0 .. Len(image)
    BY <1>1
  <2>2. Stacked(image, k) \in Nat /\ Stacked(image, k + 1) \in Nat
    BY <2>1, StackedGrows
  <2> DEFINE room == IF image[k + 1].sram THEN AlignUp(image[k + 1].len) ELSE 0
  <2>3. Stacked(image, k + 1) = Stacked(image, k) + room
    BY <2>1, StackedGrows
  <2>4. room \in Nat
    <3>1. image[k + 1] \in Segment
      BY <2>1
    <3> QED BY <3>1, AlignUpIs DEF Segment
  <2> HIDE DEF room
  <2>5. CASE k >= i
    BY <1>1, <1>2, <2>2, <2>3, <2>4, <2>5
  <2>6. CASE k + 1 = i
    BY <1>1, <2>6
  <2> QED BY <1>2, <2>5, <2>6
<1>3. 0 \in done
  BY <1>1
<1>4. ASSUME NEW k \in 0 .. Len(image) - 1, k \in done PROVE k + 1 \in done
  <2>1. k \in Nat /\ k <= Len(image) /\ k + 1 \in Nat
    BY <1>1
  <2> HIDE DEF high
  <2> QED BY <1>2, <1>4, <2>1
<1>5. 0 .. Len(image) \subseteq done
  <2> HIDE DEF done
  <2> QED BY <1>1, <1>3, <1>4, InductionOverSet
<1> QED BY <1>1, <1>5

\* No padding: the SRAM segments take their lengths.
LEMMA StackedUnpadded ==
  ASSUME NEW image \in Seq(Segment),
         \A k \in DOMAIN image \ InWindow(image) : image[k].len % Align = 0
  PROVE  Stacked(image, Len(image)) = Total(SramLens(image))
<1> DEFINE those == {s \in Range(image) : s.sram}
           sram == Selected(image, those)
           lens == SramLens(image)
<1>1. /\ Len(sram) \in Nat /\ sram \in Seq(Segment)
      /\ \A i \in 1 .. Len(sram) : \E j \in 1 .. Len(image) : sram[i] = image[j] /\ image[j] \in those
  <2> HIDE DEF those
  <2>1. sram \in Seq(Segment)
    BY SelectedKept
  <2> QED BY <2>1, SelectedKept
<1>2. lens = [i \in DOMAIN sram |-> sram[i].len]
  BY DEF SramLens
<1> HIDE DEF sram
<1>3. lens \in Seq(Nat) /\ Len(lens) = Len(sram) /\ DOMAIN lens = 1 .. Len(lens)
  <2>1. DOMAIN sram = 1 .. Len(sram)
    BY <1>1
  <2> QED BY <1>1, <1>2, <2>1, SramLensType
<1>4. ASSUME NEW i \in 1 .. Len(lens) PROVE AlignUp(lens[i]) = lens[i]
  <2>1. PICK j \in 1 .. Len(image) : sram[i] = image[j] /\ image[j] \in those
    BY <1>1, <1>3
  <2>2. lens[i] = image[j].len /\ image[j].sram
    BY <1>2, <1>3, <2>1
  <2>3. j \in DOMAIN image \ InWindow(image)
    BY <2>2 DEF InWindow
  <2>4. lens[i] \in Nat
    BY <1>3
  <2>5. lens[i] % Align = 0
    BY <2>2, <2>3
  <2> QED BY <2>4, <2>5, AlignUpIs
<1>5. AlignedLens(image) = lens
  <2>1. /\ AlignedLens(image) \in Seq(Nat) /\ Len(AlignedLens(image)) = Len(lens)
        /\ \A j \in 1 .. Len(lens) : AlignedLens(image)[j] = AlignUp(lens[j])
    BY AlignedType
  <2>2. \A j \in 1 .. Len(lens) : AlignedLens(image)[j] = lens[j]
    BY <1>4, <2>1
  <2> HIDE DEF lens
  <2> QED BY <1>3, <2>1, <2>2, SeqEqual
<1>6. SubSeq(image, 1, Len(image)) = image
  BY PrefixGrows
<1> QED BY <1>5, <1>6 DEF Stacked

\* The flash window is used from a place on.
LEMMA WindowBegins ==
  ASSUME NEW image \in Seq(Segment), \A k \in InWindow(image) : image[k].off < MaxFlash
  PROVE  /\ FlashMin(image) \in Int
         /\ \A k \in InWindow(image) : FlashMin(image) <= image[k].off
<1> DEFINE offs == {image[k].off : k \in InWindow(image)}
           all == {MaxFlash - 1} \cup offs
<1>1. FlashMin(image) = Min(all)
  BY DEF FlashMin
<1>2. offs \subseteq Nat /\ \A k \in InWindow(image) : image[k].off \in offs
  <2>1. \A k \in InWindow(image) : image[k].off \in Nat
    <3> SUFFICES ASSUME NEW k \in InWindow(image) PROVE image[k].off \in Nat
      OBVIOUS
    <3>1. image[k] \in Segment
      BY DEF InWindow
    <3> QED BY <3>1 DEF Segment
  <2> QED BY <2>1
<1>3. CASE offs = {}
  <2>1. all = {MaxFlash - 1}
    BY <1>3
  <2> HIDE DEF all, offs
  <2>2. Min(all) \in all
    BY <2>1, GeometryFacts DEF Min
  <2>3. MaxFlash - 1 \in Int
    BY GeometryFacts
  <2> QED BY <1>1, <1>2, <1>3, <2>1, <2>2, <2>3
<1>4. CASE offs # {}
  <2>1. MaxFlash - 1 \in Nat
    <3>1. PICK k \in InWindow(image) : image[k].off \in Nat
      BY <1>2, <1>4
    <3> QED BY <3>1, GeometryFacts
  <2>2. all \subseteq Nat /\ all # {} /\ offs \subseteq all
    BY <1>2, <1>4, <2>1
  <2> HIDE DEF all, offs
  <2>3. PICK m \in all : \A x \in all : m <= x
    BY <2>2, LeastElement
  <2>4. Min(all) \in all /\ \A x \in all : Min(all) <= x
    BY <2>3 DEF Min
  <2>5. \A k \in InWindow(image) : Min(all) <= image[k].off
    BY <1>2, <2>2, <2>4
  <2>6. Min(all) \in Nat
    BY <2>2, <2>4
  <2> QED BY <1>1, <2>5, <2>6
<1> QED BY <1>3, <1>4

-----------------------------------------------------------------------------
(* The parts do not run into each other. *)

Beside(x, y) == x.off + x.len <= y.off \/ y.off + y.len <= x.off

LEMMA BesideApart ==
  ASSUME NEW x \in PartRecord, NEW y \in PartRecord, Beside(x, y)
  PROVE  CellsOf(x) \cap CellsOf(y) = {} /\ CellsOf(y) \cap CellsOf(x) = {}
<1>1. x.off \in Nat /\ x.len \in Nat /\ y.off \in Nat /\ y.len \in Nat
  BY DEF PartRecord
<1>2. \A a \in CellsOf(x) : a \in Int /\ a >= x.off /\ a < x.off + x.len
  BY <1>1 DEF CellsOf
<1>3. \A a \in CellsOf(y) : a \in Int /\ a >= y.off /\ a < y.off + y.len
  BY <1>1 DEF CellsOf
<1>4. \A a : ~(a \in CellsOf(x) /\ a \in CellsOf(y))
  BY <1>1, <1>2, <1>3 DEF Beside
<1> QED BY <1>4

\* What the layout does not check: nothing of the window below the end of the
\* header, no padding, and room for SRAM segments that are alone.
Laid(image) ==
  /\ \A k \in InWindow(image) : image[k].off >= HeaderOff + HeaderLen /\ image[k].off < MaxFlash
  /\ \A k \in DOMAIN image \ InWindow(image) : image[k].len % Align = 0
  /\ InWindow(image) = {} => StoreOff + Total(SramLens(image)) < FlashMin(image)

\* Segments in the window are in the order of their addresses.
WindowApart(image) ==
  \A i, j \in InWindow(image) : i < j => image[i].off + image[i].len <= image[j].off

LEMMA StoreIs ==
  ASSUME NEW image \in Seq(Segment), Laid(image)
  PROVE  /\ Store(image) \in Nat /\ Store(image) >= HeaderOff + HeaderLen
         /\ \A k \in InWindow(image) :
              \/ Store(image) + Stacked(image, Len(image)) <= image[k].off
              \/ image[k].off + image[k].len <= Store(image)
<1> DEFINE room == Total(SramLens(image))
<1>1. /\ FlashMin(image) \in Int /\ \A k \in InWindow(image) : FlashMin(image) <= image[k].off
      /\ Stacked(image, Len(image)) = room
  BY WindowBegins, StackedUnpadded DEF Laid
<1>2. room \in Nat
  BY SramLensType, TotalType
<1>3. /\ FlashMax(image) \in Nat /\ Store(image) \in Nat
      /\ \A k \in InWindow(image) : image[k].off + image[k].len <= FlashMax(image)
  BY WindowEnds
<1>4. AlignUp(FlashMax(image)) \in Nat /\ AlignUp(FlashMax(image)) >= FlashMax(image)
  BY <1>3, AlignUpIs
<1>5. HeaderOff \in Nat /\ HeaderLen \in Nat /\ StoreOff \in Nat /\ HeaderOff + HeaderLen <= StoreOff
  BY GeometryFacts, HexFacts
<1>6. \A k \in InWindow(image) : image[k].off \in Nat /\ image[k].len \in Nat
  <2> TAKE k \in InWindow(image)
  <2>1. image[k] \in Segment
    BY DEF InWindow
  <2> QED BY <2>1 DEF Segment
<1> HIDE DEF room
<1>7. CASE StoreOff + room >= FlashMin(image)
  <2>1. Store(image) = AlignUp(FlashMax(image))
    BY <1>7 DEF Store, room
  <2>2. InWindow(image) # {}
    BY <1>1, <1>2, <1>5, <1>7 DEF Laid, room
  <2>3. PICK k \in InWindow(image) : image[k].off >= HeaderOff + HeaderLen
    BY <2>2 DEF Laid
  <2>4. FlashMax(image) >= HeaderOff + HeaderLen
    BY <1>3, <1>5, <1>6, <2>3
  <2>5. Store(image) >= HeaderOff + HeaderLen
    BY <1>3, <1>4, <1>5, <2>1, <2>4
  <2>6. \A i \in InWindow(image) : image[i].off + image[i].len <= Store(image)
    BY <1>3, <1>4, <1>6, <2>1
  <2> QED BY <1>3, <2>5, <2>6
<1>8. CASE ~(StoreOff + room >= FlashMin(image))
  <2>1. Store(image) = StoreOff
    BY <1>8 DEF Store, room
  <2>2. \A k \in InWindow(image) : StoreOff + room <= image[k].off
    BY <1>1, <1>2, <1>5, <1>6, <1>8
  <2> QED BY <1>1, <1>3, <1>5, <2>1, <2>2
<1> QED BY <1>7, <1>8

\* Where an SRAM segment is stored.
LEMMA SramStored ==
  ASSUME NEW image \in Seq(Segment), NEW k \in DOMAIN image, image[k].sram
  PROVE  /\ Offset(image, k) = Store(image) + Stacked(image, k - 1)
         /\ Offset(image, k) + image[k].len <= Store(image) + Stacked(image, k)
         /\ Stacked(image, k - 1) \in Nat /\ Stacked(image, k) \in Nat
<1>1. k \in 1 .. Len(image) /\ Len(image) \in Nat /\ k - 1 \in 0 .. Len(image) /\ k \in 0 .. Len(image)
      /\ image[k] \in Segment
  OBVIOUS
<1>2. Offset(image, k) = Store(image) + Stacked(image, k - 1)
  BY DEF Offset, Stacked, AlignedLens
<1>3. Stacked(image, k - 1) \in Nat /\ Stacked(image, k) \in Nat
  BY <1>1, StackedGrows
<1>4. Stacked(image, k) = Stacked(image, k - 1) + AlignUp(image[k].len)
  BY <1>1, StackedGrows
<1>5. image[k].len \in Nat /\ AlignUp(image[k].len) \in Nat /\ AlignUp(image[k].len) >= image[k].len
  BY <1>1, AlignUpIs DEF Segment
<1>6. Store(image) \in Nat
  BY WindowEnds
<1> QED BY <1>2, <1>3, <1>4, <1>5, <1>6

LEMMA PartsBeside ==
  ASSUME NEW image \in Seq(Segment), Laid(image), WindowApart(image),
         NEW p \in DOMAIN Parts(image), NEW q \in DOMAIN Parts(image), p < q
  PROVE  Beside(Parts(image)[p], Parts(image)[q])
<1> DEFINE n == Len(image)
           parts == Parts(image)
<1>1. n \in Nat /\ DOMAIN image = 1 .. n /\ \A k \in 1 .. n : image[k] \in Segment
  OBVIOUS
<1>2. /\ DOMAIN parts = 1 .. 1 + n
      /\ parts[1] = [off |-> HeaderOff, len |-> HeaderLen, ff |-> {}]
      /\ \A k \in 1 .. n : parts[k + 1] = [off |-> Offset(image, k), len |-> image[k].len, ff |-> image[k].ff]
  BY PartsType
<1>3. /\ Store(image) \in Nat /\ Store(image) >= HeaderOff + HeaderLen
      /\ \A k \in InWindow(image) :
              \/ Store(image) + Stacked(image, n) <= image[k].off
              \/ image[k].off + image[k].len <= Store(image)
  BY StoreIs
<1>4. HeaderOff \in Nat /\ HeaderLen \in Nat
  BY GeometryFacts
<1>5. /\ InWindow(image) = {k \in 1 .. n : ~image[k].sram}
      /\ \A k \in InWindow(image) : /\ image[k].off >= HeaderOff + HeaderLen
                                    /\ Offset(image, k) = image[k].off
  BY <1>1 DEF InWindow, Laid, Offset
<1>6. \A k \in 1 .. n : /\ image[k].len \in Nat /\ image[k].off \in Nat /\ Offset(image, k) \in Nat
                        /\ image[k].sram \in BOOLEAN
  BY <1>1, OffsetType DEF Segment
<1>7. \A k \in 1 .. n : image[k].sram =>
        /\ Offset(image, k) = Store(image) + Stacked(image, k - 1)
        /\ Offset(image, k) + image[k].len <= Store(image) + Stacked(image, k)
        /\ Stacked(image, k - 1) \in Nat /\ Stacked(image, k) \in Nat
  BY <1>1, SramStored
<1>8. Stacked(image, n) \in Nat
  BY <1>1, StackedGrows
<1> DEFINE j == q - 1
<1>9. j \in 1 .. n /\ q = j + 1
  BY <1>1, <1>2
<1>13. \A k \in 1 .. n : parts[k + 1].off = Offset(image, k) /\ parts[k + 1].len = image[k].len
  <2> TAKE k \in 1 .. n
  <2>1. parts[k + 1] = [off |-> Offset(image, k), len |-> image[k].len, ff |-> image[k].ff]
    BY <1>2
  <2> QED BY <2>1
<1>14. Store(image) \in Nat
  BY <1>3
<1>10. parts[q].off = Offset(image, j) /\ parts[q].len = image[j].len
  <2> HIDE DEF j, parts
  <2> QED BY <1>9, <1>13
<1>11. CASE p = 1
  <2>1. parts[p].off = HeaderOff /\ parts[p].len = HeaderLen
    BY <1>2, <1>11
  <2>2. Offset(image, j) >= HeaderOff + HeaderLen
    <3> HIDE DEF j
    <3>1. CASE image[j].sram
      BY <1>3, <1>4, <1>6, <1>7, <1>9, <3>1
    <3>2. CASE ~image[j].sram
      BY <1>5, <1>9, <3>2
    <3> QED BY <3>1, <3>2
  <2> HIDE DEF j, parts
  <2>3. Beside(parts[p], parts[q])
    BY <1>4, <1>10, <2>1, <2>2 DEF Beside
  <2> QED BY <2>3 DEF parts
<1>12. CASE p # 1
  <2> DEFINE i == p - 1
  <2>1. i \in 1 .. n /\ p = i + 1 /\ i < j
    BY <1>1, <1>2, <1>9, <1>12
  <2>2. parts[p].off = Offset(image, i) /\ parts[p].len = image[i].len
    <3> HIDE DEF i, j, parts
    <3> QED BY <1>13, <2>1
  <2> HIDE DEF i, j, n
  <2>3. image[i].len \in Nat /\ Offset(image, i) \in Nat /\ image[j].len \in Nat /\ Offset(image, j) \in Nat
    BY <1>6, <1>9, <2>1
  <2>4. CASE ~image[i].sram /\ ~image[j].sram
    <3>1. i \in InWindow(image) /\ j \in InWindow(image)
      BY <1>5, <1>9, <2>1, <2>4
    <3>2. image[i].off + image[i].len <= image[j].off
      BY <2>1, <3>1 DEF WindowApart
    <3>3. parts[p].off + parts[p].len <= parts[q].off
      BY <1>5, <1>10, <2>2, <3>1, <3>2
    <3> QED BY <3>3 DEF Beside
  <2>5. CASE image[i].sram /\ image[j].sram
    <3>1. Stacked(image, i) <= Stacked(image, j - 1)
      <4>1. i \in 0 .. Len(image) /\ j - 1 \in i .. Len(image)
        BY <1>1, <1>9, <2>1 DEF n
      <4> QED BY <4>1, StackedMono
    <3>2. /\ Offset(image, j) = Store(image) + Stacked(image, j - 1)
          /\ Offset(image, i) + image[i].len <= Store(image) + Stacked(image, i)
          /\ Stacked(image, j - 1) \in Nat /\ Stacked(image, i) \in Nat
      BY <1>7, <1>9, <2>1, <2>5
    <3>3. Offset(image, i) + image[i].len <= Offset(image, j)
      <4> DEFINE store == Store(image)
                 upTo == Stacked(image, i)
                 below == Stacked(image, j - 1)
                 at == Offset(image, i)
                 size == image[i].len
                 next == Offset(image, j)
      <4>1. /\ store \in Nat /\ upTo \in Nat /\ below \in Nat /\ at \in Nat /\ size \in Nat
            /\ next = store + below /\ at + size <= store + upTo /\ upTo <= below
        BY <1>14, <2>3, <3>1, <3>2
      <4> HIDE DEF store, upTo, below, at, size, next
      <4>2. at + size <= next
        BY <4>1
      <4> QED BY <4>2 DEF at, size, next
    <3> QED BY <1>10, <2>2, <3>3 DEF Beside
  <2>6. ASSUME NEW s \in 1 .. n, NEW w \in 1 .. n, image[s].sram, ~image[w].sram
        PROVE  \/ Offset(image, s) + image[s].len <= Offset(image, w)
               \/ Offset(image, w) + image[w].len <= Offset(image, s)
    <3>1. w \in InWindow(image)
      BY <1>5, <2>6
    <3>2. /\ Offset(image, s) = Store(image) + Stacked(image, s - 1)
          /\ Offset(image, s) + image[s].len <= Store(image) + Stacked(image, s)
          /\ Stacked(image, s - 1) \in Nat /\ Stacked(image, s) \in Nat
      BY <1>7, <2>6
    <3>3. Stacked(image, s) <= Stacked(image, n)
      <4>1. s \in 0 .. Len(image) /\ n \in s .. Len(image)
        BY <1>1 DEF n
      <4> QED BY <4>1, StackedMono
    <3>4. image[s].len \in Nat /\ Offset(image, s) \in Nat /\ image[w].len \in Nat /\ image[w].off \in Nat
      BY <1>6, <2>6
    <3>5. Offset(image, w) = image[w].off
      BY <1>5, <3>1
    <3> DEFINE store == Store(image)
               below == Stacked(image, s - 1)
               upTo == Stacked(image, s)
               all == Stacked(image, n)
               at == Offset(image, s)
               size == image[s].len
               window == Offset(image, w)
               width == image[w].len
    <3>8. /\ store \in Nat /\ below \in Nat /\ upTo \in Nat /\ all \in Nat /\ at \in Nat /\ size \in Nat
          /\ window \in Nat /\ width \in Nat
          /\ at = store + below /\ at + size <= store + upTo /\ upTo <= all
      BY <1>8, <1>14, <3>2, <3>3, <3>4, <3>5
    <3>6. CASE Store(image) + Stacked(image, n) <= image[w].off
      <4>1. store + all <= window
        BY <3>5, <3>6
      <4> HIDE DEF store, below, upTo, all, at, size, window, width
      <4>2. at + size <= window
        BY <3>8, <4>1
      <4> QED BY <4>2 DEF at, size, window
    <3>7. CASE image[w].off + image[w].len <= Store(image)
      <4>1. window + width <= store
        BY <3>5, <3>7
      <4> HIDE DEF store, below, upTo, all, at, size, window, width
      <4>2. window + width <= at
        BY <3>8, <4>1
      <4> QED BY <4>2 DEF at, width, window
    <3> QED BY <1>3, <3>1, <3>6, <3>7
  <2>7. CASE image[i].sram /\ ~image[j].sram
    BY <1>9, <1>10, <2>1, <2>2, <2>6, <2>7 DEF Beside
  <2>8. CASE ~image[i].sram /\ image[j].sram
    BY <1>9, <1>10, <2>1, <2>2, <2>6, <2>8 DEF Beside
  <2> QED BY <2>4, <2>5, <2>7, <2>8
<1> QED BY <1>11, <1>12

\* The image of a file.
LEMMA ImageIs ==
  ASSUME NEW segments \in Runs
  PROVE  /\ ImageOf(segments) \in Seq(Segment) /\ Len(ImageOf(segments)) = Len(segments)
         /\ \A k \in 1 .. Len(segments) :
              ImageOf(segments)[k] = [sram |-> IsSram(segments[k].addr), off |-> segments[k].addr,
                                      len |-> Len(segments[k].data), ff |-> {}]
         /\ \A k \in 1 .. Len(segments) :
              /\ ImageOf(segments)[k].off = segments[k].addr
              /\ ImageOf(segments)[k].len = Len(segments[k].data)
              /\ ImageOf(segments)[k].sram = IsSram(segments[k].addr)
         /\ WindowApart(ImageOf(segments))
<1> DEFINE image == ImageOf(segments)
           one(k) == [sram |-> IsSram(segments[k].addr), off |-> segments[k].addr,
                      len |-> Len(segments[k].data), ff |-> {}]
<1>1. /\ Len(segments) \in Nat /\ DOMAIN segments = 1 .. Len(segments)
      /\ \A k \in 1 .. Len(segments) : segments[k] \in DataRun
      /\ \A i, j \in 1 .. Len(segments) : i < j => EndOf(segments[i]) < segments[j].addr
  BY RunsFacts
<1>2. \A k \in 1 .. Len(segments) : /\ segments[k].addr \in Nat /\ Len(segments[k].data) \in Nat \ {0}
                                    /\ EndOf(segments[k]) = segments[k].addr + Len(segments[k].data)
  BY <1>1, RunFacts DEF EndOf
<1>3. image = [k \in 1 .. Len(segments) |-> one(k)]
  BY <1>1 DEF ImageOf
<1>4. \A k \in 1 .. Len(segments) : one(k) \in Segment
  <2> TAKE k \in 1 .. Len(segments)
  <2>1. IsSram(segments[k].addr) \in BOOLEAN
    BY DEF IsSram
  <2> QED BY <1>2, <2>1 DEF Segment
<1> HIDE DEF image
<1>5. image \in Seq(Segment) /\ Len(image) = Len(segments) /\ \A k \in 1 .. Len(segments) : image[k] = one(k)
  <2> HIDE DEF one
  <2> QED BY <1>1, <1>3, <1>4
<1>7. \A k \in 1 .. Len(segments) : /\ image[k].off = segments[k].addr
                                    /\ image[k].len = Len(segments[k].data)
                                    /\ image[k].sram = IsSram(segments[k].addr)
  <2> TAKE k \in 1 .. Len(segments)
  <2>1. image[k] = one(k)
    BY <1>5
  <2> QED BY <2>1
<1>6. WindowApart(image)
  <2> SUFFICES ASSUME NEW i \in InWindow(image), NEW j \in InWindow(image), i < j
               PROVE  image[i].off + image[i].len <= image[j].off
    BY DEF WindowApart
  <2>1. i \in 1 .. Len(segments) /\ j \in 1 .. Len(segments)
    BY <1>1, <1>5 DEF InWindow
  <2>2. EndOf(segments[i]) < segments[j].addr
    BY <1>1, <2>1
  <2>3. image[i].off = segments[i].addr /\ image[i].len = Len(segments[i].data) /\ image[j].off = segments[j].addr
    BY <1>7, <2>1
  <2> QED BY <1>2, <2>1, <2>2, <2>3
<1> QED BY <1>5, <1>6, <1>7 DEF image

LEMMA TypedLayout == ASSUME HexTyped PROVE LayoutApart
<1> DEFINE segments == Segments(hexFile)
           image == ImageOf(segments)
           parts == LayoutOf(hexFile)
<1> SUFFICES ASSUME Builds(hexFile),
                    \A k \in InWindow(image) : image[k].off >= HeaderOff + HeaderLen,
                    \A k \in DOMAIN image \ InWindow(image) : image[k].len % Align = 0,
                    InWindow(image) = {} => StoreOff + Total(SramLens(image)) < FlashMin(image),
                    NEW p \in DOMAIN parts, NEW q \in DOMAIN parts, p # q
             PROVE  CellsOf(parts[p]) \cap CellsOf(parts[q]) = {}
  BY DEF LayoutApart
<1>1. segments \in Runs
  BY FileType, SegmentsAre
<1>2. \A k \in DOMAIN segments : IsSram(segments[k].addr) \/ InFlash(segments[k].addr)
  BY DEF Builds
<1>3. parts = Parts(image)
  BY DEF LayoutOf
<1>4. DOMAIN segments = 1 .. Len(segments)
  BY <1>1, RunsFacts
<1> HIDE DEF segments, parts
<1>5. /\ image \in Seq(Segment) /\ Len(image) = Len(segments) /\ WindowApart(image)
      /\ \A k \in 1 .. Len(segments) :
           image[k].sram = IsSram(segments[k].addr) /\ image[k].off = segments[k].addr
  BY <1>1, ImageIs
<1> HIDE DEF image
<1>6. \A k \in InWindow(image) : image[k].off < MaxFlash
  <2> TAKE k \in InWindow(image)
  <2>1. k \in 1 .. Len(segments) /\ ~image[k].sram
    BY <1>5 DEF InWindow
  <2> QED BY <1>2, <1>4, <1>5, <2>1 DEF InFlash
<1>7. Laid(image)
  BY <1>6 DEF Laid
<1>8. DOMAIN parts = 1 .. Len(parts) /\ Len(parts) \in Nat /\ \A k \in 1 .. Len(parts) : parts[k] \in PartRecord
  <2>1. parts \in Seq(PartRecord)
    BY <1>3, <1>5, PartsType
  <2> QED BY <2>1
<1>9. ASSUME NEW i \in DOMAIN parts, NEW j \in DOMAIN parts, i < j
      PROVE  CellsOf(parts[i]) \cap CellsOf(parts[j]) = {} /\ CellsOf(parts[j]) \cap CellsOf(parts[i]) = {}
  <2>1. Beside(parts[i], parts[j])
    BY <1>3, <1>5, <1>7, <1>9, PartsBeside
  <2>2. parts[i] \in PartRecord /\ parts[j] \in PartRecord
    BY <1>8
  <2> QED BY <2>1, <2>2, BesideApart
<1>10. p < q \/ q < p
  BY <1>8
<1> QED BY <1>9, <1>10

\* Stored segments are apart in the layout of every file.
THEOREM LayoutTheorem == HexSpec => []LayoutApart
BY HexInitTyped, HexKeepsTyped, TypedLayout, PTL DEF HexSpec

-----------------------------------------------------------------------------
(* Segments are known by what they put where. *)

\* What a segment puts to one of its addresses is what all of them put there.
LEMMA PlacedAt ==
  ASSUME NEW segments \in Runs, NEW k \in 1 .. Len(segments),
         NEW a \in segments[k].addr .. EndOf(segments[k]) - 1
  PROVE  /\ Placed(segments, a, segments[k].data[a - segments[k].addr + 1])
         /\ \A v : Placed(segments, a, v) => v = segments[k].data[a - segments[k].addr + 1]
         /\ \A j \in 1 .. Len(segments) : a \in segments[j].addr .. EndOf(segments[j]) - 1 => j = k
<1>1. /\ Len(segments) \in Nat
      /\ \A j \in 1 .. Len(segments) : segments[j] \in DataRun
      /\ \A i, j \in 1 .. Len(segments) : i < j => EndOf(segments[i]) < segments[j].addr
      /\ \A j \in 1 .. Len(segments) : segments[j].addr \in Nat /\ EndOf(segments[j]) \in Nat
                                          /\ segments[j].addr < EndOf(segments[j])
  BY RunsFacts
<1>2. ASSUME NEW j \in 1 .. Len(segments), a \in segments[j].addr .. EndOf(segments[j]) - 1 PROVE j = k
  <2>1. /\ a \in Int /\ segments[j].addr <= a /\ a < EndOf(segments[j])
        /\ segments[k].addr <= a /\ a < EndOf(segments[k])
        /\ segments[k].addr \in Nat /\ EndOf(segments[k]) \in Nat
        /\ segments[j].addr \in Nat /\ EndOf(segments[j]) \in Nat
    BY <1>1, <1>2
  <2>2. ~(EndOf(segments[j]) < segments[k].addr) /\ ~(EndOf(segments[k]) < segments[j].addr)
    BY <2>1
  <2>3. ~(j < k) /\ ~(k < j)
    BY <1>1, <2>2
  <2> QED BY <1>1, <2>3
<1> DEFINE there == segments[k].data[a - segments[k].addr + 1]
<1>3. \A v : Holds(segments[k], a, v) <=> v = there
  BY <1>1, RunFacts
<1>4. \A j \in 1 .. Len(segments) : \A v :
        Holds(segments[j], a, v) => a \in segments[j].addr .. EndOf(segments[j]) - 1
  BY <1>1, RunFacts
<1> HIDE DEF there
<1>5. Placed(segments, a, there)
  BY <1>3 DEF Placed
<1>6. ASSUME NEW v, Placed(segments, a, v) PROVE v = there
  <2>1. PICK j \in 1 .. Len(segments) : Holds(segments[j], a, v)
    BY <1>6 DEF Placed
  <2>2. j = k
    BY <1>2, <1>4, <2>1
  <2> QED BY <1>3, <2>1, <2>2
<1> QED BY <1>2, <1>5, <1>6 DEF there

\* An address where something is put lies in a segment.
LEMMA PlacedIn ==
  ASSUME NEW segments \in Runs, NEW a, NEW v, Placed(segments, a, v)
  PROVE  \E k \in 1 .. Len(segments) : a \in segments[k].addr .. EndOf(segments[k]) - 1
<1>1. PICK k \in 1 .. Len(segments) : Holds(segments[k], a, v)
  BY DEF Placed
<1>2. segments[k] \in DataRun
  BY RunsFacts
<1> QED BY <1>1, <1>2, RunFacts

Alike(s, t) == \A a, v : Placed(s, a, v) <=> Placed(t, a, v)

\* The next segment of the one list begins where that of the other one does, ...
LEMMA NextBegins ==
  ASSUME NEW s \in Runs, NEW t \in Runs, Alike(s, t), NEW k \in Nat, k < Len(s),
         \A j \in 1 .. k : j <= Len(t) /\ s[j] = t[j]
  PROVE  k + 1 <= Len(t) /\ t[k + 1].addr <= s[k + 1].addr
<1> DEFINE a == s[k + 1].addr
<1>1. /\ Len(s) \in Nat /\ Len(t) \in Nat
      /\ \A i, j \in 1 .. Len(s) : i < j => EndOf(s[i]) < s[j].addr
      /\ \A i, j \in 1 .. Len(t) : i < j => EndOf(t[i]) < t[j].addr
      /\ \A j \in 1 .. Len(s) : s[j].addr \in Nat /\ EndOf(s[j]) \in Nat /\ s[j].addr < EndOf(s[j])
      /\ \A j \in 1 .. Len(t) : t[j].addr \in Nat /\ EndOf(t[j]) \in Nat /\ t[j].addr < EndOf(t[j])
  BY RunsFacts
<1>2. k + 1 \in 1 .. Len(s) /\ a \in Nat /\ a \in s[k + 1].addr .. EndOf(s[k + 1]) - 1
  <2>1. k + 1 \in 1 .. Len(s)
    BY <1>1
  <2> QED BY <1>1, <2>1
<1>3. PICK v : Placed(t, a, v)
  <2>1. \E v : Placed(s, a, v)
    BY <1>2, PlacedAt
  <2> QED BY <2>1 DEF Alike
<1>4. PICK j \in 1 .. Len(t) : a \in t[j].addr .. EndOf(t[j]) - 1
  BY <1>3, PlacedIn
<1>5. t[j].addr <= a /\ a < EndOf(t[j]) /\ t[j].addr \in Nat /\ EndOf(t[j]) \in Nat
  BY <1>1, <1>2, <1>4
<1>6. j >= k + 1
  <2> SUFFICES ASSUME j \in 1 .. k PROVE FALSE
    BY <1>1
  <2>1. s[j] = t[j] /\ j \in 1 .. Len(s) /\ j < k + 1
    BY <1>1
  <2>2. EndOf(s[j]) < a /\ EndOf(s[j]) \in Nat
    BY <1>1, <1>2, <2>1
  <2> QED BY <1>2, <1>5, <2>1, <2>2
<1>7. k + 1 \in 1 .. Len(t)
  BY <1>1, <1>6
<1>8. t[k + 1].addr <= t[j].addr
  <2>1. CASE j = k + 1
    BY <1>5, <2>1
  <2>2. CASE k + 1 < j
    <3>1. EndOf(t[k + 1]) < t[j].addr /\ t[k + 1].addr < EndOf(t[k + 1])
          /\ t[k + 1].addr \in Nat /\ EndOf(t[k + 1]) \in Nat
      BY <1>1, <1>7, <2>2
    <3> QED BY <1>5, <3>1
  <2> QED BY <1>1, <1>6, <2>1, <2>2
<1>9. t[k + 1].addr \in Nat
  BY <1>1, <1>7
<1>10. t[k + 1].addr <= a
  <2> DEFINE begin == t[k + 1].addr
             other == t[j].addr
  <2>1. begin \in Nat /\ other \in Nat /\ a \in Nat /\ begin <= other /\ other <= a
    BY <1>2, <1>5, <1>8, <1>9
  <2> HIDE DEF begin, other, a
  <2>2. begin <= a
    BY <2>1
  <2> QED BY <2>2 DEF begin
<1> QED BY <1>1, <1>7, <1>10

\* ... ends where it does, ...
LEMMA NextEnds ==
  ASSUME NEW s \in Runs, NEW t \in Runs, Alike(s, t),
         NEW k \in 1 .. Len(s), k <= Len(t), s[k].addr = t[k].addr
  PROVE  EndOf(t[k]) <= EndOf(s[k])
<1> DEFINE a == EndOf(s[k])
<1>1. /\ Len(s) \in Nat /\ Len(t) \in Nat
      /\ \A i, j \in 1 .. Len(s) : i < j => EndOf(s[i]) < s[j].addr
      /\ \A j \in 1 .. Len(s) : s[j].addr \in Nat /\ EndOf(s[j]) \in Nat /\ s[j].addr < EndOf(s[j])
      /\ \A j \in 1 .. Len(t) : t[j].addr \in Nat /\ EndOf(t[j]) \in Nat /\ t[j].addr < EndOf(t[j])
  BY RunsFacts
<1>2. k \in 1 .. Len(t) /\ a \in Nat /\ EndOf(t[k]) \in Nat /\ s[k].addr \in Nat /\ s[k].addr < a
  BY <1>1
<1> SUFFICES ASSUME a < EndOf(t[k]) PROVE FALSE
  BY <1>2
<1>3. a \in t[k].addr .. EndOf(t[k]) - 1
  BY <1>1, <1>2
<1>4. PICK v : Placed(s, a, v)
  <2>1. \E v : Placed(t, a, v)
    BY <1>2, <1>3, PlacedAt
  <2> QED BY <2>1 DEF Alike
<1>5. PICK j \in 1 .. Len(s) : a \in s[j].addr .. EndOf(s[j]) - 1
  BY <1>4, PlacedIn
<1>6. s[j].addr <= a /\ a < EndOf(s[j]) /\ s[j].addr \in Nat /\ EndOf(s[j]) \in Nat
  BY <1>1, <1>2, <1>5
<1>7. CASE j < k
  <2>1. EndOf(s[j]) < s[k].addr
    BY <1>1, <1>7
  <2> QED BY <1>2, <1>6, <2>1
<1>8. CASE j = k
  BY <1>2, <1>6, <1>8
<1>9. CASE k < j
  <2>1. a < s[j].addr
    BY <1>1, <1>9
  <2> QED BY <1>2, <1>6, <2>1
<1> QED BY <1>1, <1>7, <1>8, <1>9

\* ... and holds the same data.
LEMMA NextSame ==
  ASSUME NEW s \in Runs, NEW t \in Runs, Alike(s, t), NEW k \in 1 .. Len(s), k <= Len(t),
         s[k].addr = t[k].addr, EndOf(s[k]) = EndOf(t[k])
  PROVE  s[k] = t[k]
<1>1. /\ s[k] \in DataRun /\ t[k] \in DataRun /\ k \in 1 .. Len(t)
  BY RunsFacts
<1>2. /\ s[k].addr \in Nat /\ s[k].data \in Seq(Bytes) /\ t[k].data \in Seq(Bytes)
      /\ Len(s[k].data) \in Nat /\ Len(t[k].data) \in Nat
  BY <1>1, RunFacts
<1>3. Len(s[k].data) = Len(t[k].data)
  <2> DEFINE m == Len(s[k].data)
             n == Len(t[k].data)
             addr == s[k].addr
  <2>1. addr + m = addr + n /\ addr \in Nat /\ m \in Nat /\ n \in Nat
    BY <1>2 DEF EndOf
  <2> HIDE DEF m, n, addr
  <2>2. m = n
    BY <2>1
  <2> QED BY <2>2 DEF m, n
<1>4. ASSUME NEW i \in 1 .. Len(s[k].data) PROVE s[k].data[i] = t[k].data[i]
  <2> DEFINE a == s[k].addr + i - 1
  <2>1. /\ a \in s[k].addr .. EndOf(s[k]) - 1 /\ a \in t[k].addr .. EndOf(t[k]) - 1
        /\ a - s[k].addr + 1 = i /\ a - t[k].addr + 1 = i
    BY <1>2, <1>3 DEF EndOf
  <2> HIDE DEF a
  <2>2. Placed(s, a, s[k].data[i])
    BY <2>1, PlacedAt
  <2>3. Placed(t, a, s[k].data[i])
    BY <2>2 DEF Alike
  <2> QED BY <1>1, <2>1, <2>3, PlacedAt
<1>5. s[k].data = t[k].data
  BY <1>2, <1>3, <1>4, SeqEqual
<1> QED BY <1>1, <1>5 DEF DataRun

LEMMA SegmentsSame ==
  ASSUME NEW s \in Runs, NEW t \in Runs, Alike(s, t)
  PROVE  s = t
<1>1. /\ Len(s) \in Nat /\ Len(t) \in Nat /\ s \in Seq(DataRun) /\ t \in Seq(DataRun) /\ Alike(t, s)
      /\ \A j \in 1 .. Len(s) : s[j].addr \in Nat /\ EndOf(s[j]) \in Nat
      /\ \A j \in 1 .. Len(t) : t[j].addr \in Nat /\ EndOf(t[j]) \in Nat
  BY RunsFacts DEF Alike
<1> DEFINE same(k) == \A j \in 1 .. k : j <= Len(t) /\ s[j] = t[j]
           done == {k \in Nat : k <= Len(s) => same(k)}
<1>2. 0 \in done
  OBVIOUS
<1>3. ASSUME NEW k \in 0 .. Len(s) - 1, k \in done PROVE k + 1 \in done
  <2>1. k \in Nat /\ k < Len(s) /\ k + 1 \in 1 .. Len(s) /\ same(k)
    BY <1>1, <1>3
  <2>2. k + 1 <= Len(t) /\ t[k + 1].addr <= s[k + 1].addr
    BY <2>1, NextBegins
  <2>3. k + 1 \in 1 .. Len(t) /\ k < Len(t) /\ \A j \in 1 .. k : j <= Len(s) /\ t[j] = s[j]
    <3>1. Len(s) \in Nat /\ Len(t) \in Nat
      BY <1>1
    <3>2. k + 1 \in 1 .. Len(t) /\ k < Len(t)
      BY <2>1, <2>2, <3>1
    <3>3. \A j \in 1 .. k : j <= Len(s)
      BY <2>1, <3>1
    <3> QED BY <2>1, <3>2, <3>3
  <2>4. s[k + 1].addr <= t[k + 1].addr
    BY <1>1, <2>1, <2>3, NextBegins
  <2>5. s[k + 1].addr = t[k + 1].addr
    BY <1>1, <2>1, <2>2, <2>3, <2>4
  <2>6. EndOf(t[k + 1]) <= EndOf(s[k + 1]) /\ EndOf(s[k + 1]) <= EndOf(t[k + 1])
    <3>1. EndOf(t[k + 1]) <= EndOf(s[k + 1])
      BY <2>1, <2>2, <2>5, NextEnds
    <3>2. k + 1 <= Len(s)
      BY <2>1
    <3>3. EndOf(s[k + 1]) <= EndOf(t[k + 1])
      BY <1>1, <2>3, <2>5, <3>2, NextEnds
    <3> QED BY <3>1, <3>3
  <2>7. EndOf(s[k + 1]) = EndOf(t[k + 1])
    BY <1>1, <2>1, <2>3, <2>6
  <2>8. s[k + 1] = t[k + 1]
    BY <2>1, <2>2, <2>5, <2>7, NextSame
  <2>9. same(k + 1)
    <3> TAKE j \in 1 .. k + 1
    <3>1. CASE j = k + 1
      BY <2>2, <2>8, <3>1
    <3>2. CASE j \in 1 .. k
      BY <2>1, <3>2
    <3> QED BY <2>1, <3>1, <3>2
  <2> HIDE DEF same
  <2> QED BY <2>1, <2>9
<1>4. same(Len(s))
  <2>1. 0 .. Len(s) \subseteq done
    <3> HIDE DEF done
    <3> QED BY <1>1, <1>2, <1>3, InductionOverSet
  <2>2. Len(s) \in done
    <3> HIDE DEF done
    <3> QED BY <1>1, <2>1
  <2> HIDE DEF same
  <2> QED BY <1>1, <2>2
<1>5. Len(s) = Len(t)
  <2>1. Len(s) <= Len(t)
    BY <1>1, <1>4
  <2> SUFFICES ASSUME Len(s) < Len(t) PROVE FALSE
    BY <1>1, <2>1
  <2>2. \A j \in 1 .. Len(s) : j <= Len(s) /\ t[j] = s[j]
    BY <1>1, <1>4
  <2>3. Len(s) + 1 <= Len(s)
    BY <1>1, <2>2, NextBegins
  <2> QED BY <1>1, <2>3
<1> QED BY <1>1, <1>4, <1>5, SeqEqual

-----------------------------------------------------------------------------
(* Writing a HEX file, and reading it again. *)

LEMMA MinOfThree ==
  ASSUME NEW a \in Int, NEW b \in Int, NEW c \in Int
  PROVE  /\ Min({a, b, c}) \in {a, b, c}
         /\ Min({a, b, c}) <= a /\ Min({a, b, c}) <= b /\ Min({a, b, c}) <= c
<1> DEFINE S == {a, b, c}
<1>1. PICK x \in S : \A y \in S : x <= y
  <2>1. CASE a <= b /\ a <= c
    BY <2>1
  <2>2. CASE b <= a /\ b <= c
    BY <2>2
  <2>3. CASE c <= a /\ c <= b
    BY <2>3
  <2> QED BY <2>1, <2>2, <2>3
<1>2. a \in S /\ b \in S /\ c \in S
  OBVIOUS
<1> HIDE DEF S
<1>3. Min(S) \in S /\ \A y \in S : Min(S) <= y
  BY <1>1 DEF Min
<1> QED BY <1>2, <1>3 DEF S

\* A file that is read goes on being good.
Open(read) == read.ok /\ ~read.end /\ read.entry = NoEntry

LEMMA ReadData ==
  ASSUME NEW lines \in Seq(LineRecord), Open(Read(lines)), NEW low \in Nat, NEW bytes \in Seq(Bytes)
  PROVE  /\ Append(lines, DataLine(low, bytes)) \in Seq(LineRecord)
         /\ Open(Read(Append(lines, DataLine(low, bytes))))
         /\ Read(Append(lines, DataLine(low, bytes))).base = Read(lines).base
         /\ LET more == Read(Append(lines, DataLine(low, bytes))).bytes
                old == Read(lines).bytes
            IN  /\ more \in Seq(Byte) /\ Len(more) = Len(old) + Len(bytes)
                /\ \A i \in 1 .. Len(old) : more[i] = old[i]
                /\ \A i \in 1 .. Len(bytes) :
                     more[Len(old) + i] = <<Read(lines).base + low + i - 1, bytes[i]>>
<1> DEFINE line == DataLine(low, bytes)
           read == Read(lines)
           next == Read(Append(lines, line))
           added == Addressed(read.base, line)
<1>1. line \in LineRecord /\ line.kind = "data" /\ line.sum /\ line.at = low /\ line.bytes = bytes
  BY DEF DataLine, Line, LineRecord, LineKinds
<1> HIDE DEF line
<1>2. read \in Reading /\ Append(lines, line) \in Seq(LineRecord) /\ next = ReadLine(read, line)
      /\ next \in Reading
  <2>1. read \in Reading /\ Append(lines, line) \in Seq(LineRecord) /\ next = ReadLine(read, line)
    BY <1>1, ReadAppend
  <2> QED BY <1>1, <2>1, ReadLineType
<1>3. next = [read EXCEPT !.bytes = @ \o added]
  <2> HIDE DEF added, next, read
  <2>1. line.kind \in LineKinds /\ read.ok /\ ~read.end
    BY <1>1 DEF Open, read, LineKinds
  <2>2. ReadLine(read, line) = [read EXCEPT !.bytes = @ \o Addressed(read.base, line)]
    BY <1>1, <2>1, ReadLineIs
  <2> QED BY <1>2, <2>2 DEF added
<1> HIDE DEF next, read
<1>4. /\ next.ok = read.ok /\ next.end = read.end /\ next.entry = read.entry /\ next.base = read.base
      /\ next.bytes = read.bytes \o added
  BY <1>2, <1>3 DEF Reading
<1>5. read.base \in Nat /\ read.bytes \in Seq(Byte)
  BY <1>2 DEF Reading
<1>6. /\ added \in Seq(Byte) /\ Len(added) = Len(bytes)
      /\ \A i \in 1 .. Len(bytes) : added[i] = <<read.base + low + i - 1, bytes[i]>>
  <2>1. /\ Addressed(read.base, line) \in Seq(Byte)
        /\ Len(Addressed(read.base, line)) = Len(line.bytes)
        /\ \A i \in 1 .. Len(line.bytes) :
              Addressed(read.base, line)[i] = <<read.base + line.at + i - 1, line.bytes[i]>>
    BY <1>1, <1>5, AddressedType
  <2> QED BY <1>1, <2>1
<1> HIDE DEF added
<1>7. /\ next.bytes \in Seq(Byte) /\ Len(next.bytes) = Len(read.bytes) + Len(bytes)
      /\ \A i \in 1 .. Len(read.bytes) : next.bytes[i] = read.bytes[i]
      /\ \A i \in 1 .. Len(bytes) : next.bytes[Len(read.bytes) + i] = added[i]
  <2> DEFINE old == read.bytes
             more == next.bytes
             m == Len(old)
  <2>1. old \in Seq(Byte) /\ added \in Seq(Byte) /\ more = old \o added /\ Len(added) = Len(bytes)
    BY <1>4, <1>5, <1>6
  <2> HIDE DEF old, more
  <2>2. /\ more \in Seq(Byte) /\ Len(more) = m + Len(bytes) /\ m \in Nat
        /\ \A i \in 1 .. m + Len(bytes) : more[i] = IF i <= m THEN old[i] ELSE added[i - m]
    <3> HIDE DEF m
    <3>1. m = Len(old) /\ Len(old) \in Nat
      BY <2>1 DEF m
    <3>2. /\ old \o added \in Seq(Byte) /\ Len(old \o added) = Len(old) + Len(added)
          /\ \A i \in 1 .. Len(old) + Len(added) :
               (old \o added)[i] = IF i <= Len(old) THEN old[i] ELSE added[i - Len(old)]
      BY <2>1, ConcatProperties
    <3> QED BY <2>1, <3>1, <3>2
  <2>3. \A i \in 1 .. m : more[i] = old[i]
    BY <2>2
  <2>4. \A i \in 1 .. Len(bytes) : more[m + i] = added[i]
    <3> TAKE i \in 1 .. Len(bytes)
    <3>1. m + i \in 1 .. m + Len(bytes) /\ ~(m + i <= m) /\ (m + i) - m = i
      BY <2>2
    <3> QED BY <2>2, <3>1
  <2> QED BY <2>2, <2>3, <2>4 DEF old, more
<1>8. Open(next)
  BY <1>4 DEF Open, read
<1> QED BY <1>2, <1>4, <1>6, <1>7, <1>8 DEF next, read, line

LEMMA ReadUpper ==
  ASSUME NEW lines \in Seq(LineRecord), Open(Read(lines)), NEW upper \in Nat
  PROVE  /\ Append(lines, BaseLine(upper)) \in Seq(LineRecord)
         /\ Open(Read(Append(lines, BaseLine(upper))))
         /\ Read(Append(lines, BaseLine(upper))).base = upper * LowSize
         /\ Read(Append(lines, BaseLine(upper))).bytes = Read(lines).bytes
<1> DEFINE line == BaseLine(upper)
           read == Read(lines)
           next == Read(Append(lines, line))
<1>1. line \in LineRecord /\ line.kind = "base" /\ line.sum /\ line.at = upper
  BY DEF BaseLine, Line, LineRecord, LineKinds
<1> HIDE DEF line
<1>2. read \in Reading /\ Append(lines, line) \in Seq(LineRecord) /\ next = ReadLine(read, line)
  BY <1>1, ReadAppend
<1>3. next = [read EXCEPT !.base = upper * LowSize]
  <2> HIDE DEF next, read
  <2>1. line.kind \in LineKinds /\ read.ok /\ ~read.end
    BY <1>1 DEF Open, read, LineKinds
  <2>2. ReadLine(read, line) = [read EXCEPT !.base = line.at * LowSize]
    BY <1>1, <2>1, ReadLineIs
  <2> QED BY <1>1, <1>2, <2>2
<1> HIDE DEF next, read
<1>4. /\ next.ok = read.ok /\ next.end = read.end /\ next.entry = read.entry
      /\ next.base = upper * LowSize /\ next.bytes = read.bytes
  BY <1>2, <1>3 DEF Reading
<1>5. Open(next)
  BY <1>4 DEF Open, read
<1> QED BY <1>2, <1>4, <1>5 DEF next, read, line

\* Data at addresses one after the other, behind other bytes.
LEMMA FinalRun ==
  ASSUME NEW old \in Seq(Byte), NEW more \in Seq(Byte), NEW begin \in Nat, NEW data \in Seq(Bytes),
         Len(more) = Len(old) + Len(data),
         \A i \in 1 .. Len(old) : more[i] = old[i],
         \A i \in 1 .. Len(data) : more[Len(old) + i] = <<begin + i - 1, data[i]>>
  PROVE  \A a, v : Final(more, a, v) <=>
           IF a \in begin .. begin + Len(data) - 1 THEN v = data[a - begin + 1] ELSE Final(old, a, v)
<1> DEFINE m == Len(old)
           n == Len(data)
<1>1. /\ m \in Nat /\ n \in Nat /\ DOMAIN old = 1 .. m /\ DOMAIN more = 1 .. m + n
      /\ \A i \in 1 .. m : more[i] = old[i]
      /\ \A i \in 1 .. n : more[m + i] = <<begin + i - 1, data[i]>>
  OBVIOUS
<1> HIDE DEF m, n
<1>2. \A i \in m + 1 .. m + n : more[i] = <<begin + (i - m) - 1, data[i - m]>>
  <2> TAKE i \in m + 1 .. m + n
  <2>1. i - m \in 1 .. n /\ m + (i - m) = i
    BY <1>1
  <2> QED BY <1>1, <2>1
<1>3. \A i \in m + 1 .. m + n : more[i][1] = begin + (i - m) - 1 /\ more[i][2] = data[i - m]
  BY <1>2
<1> TAKE a, v
<1>4. CASE a \in begin .. begin + n - 1
  <2> DEFINE i == m + (a - begin) + 1
  <2>1. i \in m + 1 .. m + n /\ i - m = a - begin + 1 /\ begin + (i - m) - 1 = a
    BY <1>1, <1>4
  <2>2. \A j \in 1 .. m + n : j > i => more[j][1] # a
    <3> TAKE j \in 1 .. m + n
    <3> HAVE j > i
    <3>1. j \in m + 1 .. m + n
      BY <1>1, <2>1
    <3>2. more[j][1] = begin + (j - m) - 1
      BY <1>3, <3>1
    <3> HIDE DEF i
    <3>3. begin + (j - m) - 1 > begin + (i - m) - 1
      BY <1>1, <2>1, <3>1
    <3> QED BY <2>1, <3>2, <3>3, <1>4
  <2>3. more[i] = <<a, data[a - begin + 1]>>
    <3> HIDE DEF i
    <3> QED BY <1>2, <2>1
  <2>4. i \in 1 .. m + n
    BY <1>1, <2>1
  <2>5. ASSUME v = data[a - begin + 1] PROVE Final(more, a, v)
    <3> HIDE DEF i
    <3> QED BY <1>1, <2>2, <2>3, <2>4, <2>5 DEF Final
  <2>6. ASSUME Final(more, a, v) PROVE v = data[a - begin + 1]
    <3> HIDE DEF i
    <3>1. PICK j \in 1 .. m + n : more[j] = <<a, v>> /\ \A k \in 1 .. m + n : k > j => more[k][1] # a
      BY <1>1, <2>6 DEF Final
    <3>2. more[i][1] = a
      BY <2>3
    <3>3. ~(i > j) /\ ~(j > i)
      BY <2>2, <2>4, <3>1, <3>2
    <3>4. i = j
      BY <1>1, <2>4, <3>3
    <3> QED BY <2>3, <3>1, <3>4
  <2> QED BY <1>4, <2>5, <2>6 DEF n
<1>5. CASE a \notin begin .. begin + n - 1
  <2>1. \A i \in m + 1 .. m + n : more[i][1] # a
    <3> TAKE i \in m + 1 .. m + n
    <3>1. begin + (i - m) - 1 \in begin .. begin + n - 1
      BY <1>1
    <3> QED BY <1>3, <1>5, <3>1
  <2>2. ASSUME Final(old, a, v) PROVE Final(more, a, v)
    <3>1. PICK j \in 1 .. m : old[j] = <<a, v>> /\ \A k \in 1 .. m : k > j => old[k][1] # a
      BY <1>1, <2>2 DEF Final
    <3>2. j \in 1 .. m + n /\ more[j] = <<a, v>>
      BY <1>1, <3>1
    <3>3. \A k \in 1 .. m + n : k > j => more[k][1] # a
      <4> TAKE k \in 1 .. m + n
      <4>1. CASE k \in 1 .. m
        BY <1>1, <3>1, <4>1
      <4>2. CASE k \in m + 1 .. m + n
        BY <2>1, <4>2
      <4> QED BY <1>1, <4>1, <4>2
    <3> QED BY <1>1, <3>2, <3>3 DEF Final
  <2>3. ASSUME Final(more, a, v) PROVE Final(old, a, v)
    <3>1. PICK j \in 1 .. m + n : more[j] = <<a, v>> /\ \A k \in 1 .. m + n : k > j => more[k][1] # a
      BY <1>1, <2>3 DEF Final
    <3>2. more[j][1] = a
      BY <3>1
    <3>3. j \in 1 .. m
      BY <1>1, <2>1, <3>2
    <3>4. \A k \in 1 .. m : k > j => old[k][1] # a
      <4> TAKE k \in 1 .. m
      <4>1. k \in 1 .. m + n /\ more[k] = old[k]
        BY <1>1
      <4> QED BY <3>1, <4>1
    <3> QED BY <1>1, <3>1, <3>3, <3>4 DEF Final
  <2> QED BY <1>5, <2>2, <2>3 DEF n
<1> QED BY <1>4, <1>5

Written == [lines : Seq(LineRecord), upper : Nat \cup {NoUpper}, at : Nat]
Writing(segment) == {w \in Written : w.at <= Len(segment.data)}

\* What is written so far can be read: at the right upper part of the address.
Readable(w) ==
  Open(Read(w.lines)) /\ (w.upper # NoUpper => Read(w.lines).base = w.upper * LowSize)

\* One record more.
PieceLen(w, segment) ==
  Min({RecordBytes, Len(segment.data) - w.at, LowSize - ((segment.addr + w.at) % LowSize)})

LEMMA PieceFacts ==
  ASSUME NEW segment \in DataRun, NEW w \in Writing(segment), w.at # Len(segment.data)
  PROVE  LET addr == segment.addr + w.at
             upper == addr \div LowSize
             n == PieceLen(w, segment)
             piece == SubSeq(segment.data, w.at + 1, w.at + n)
         IN  /\ addr \in Nat /\ upper \in Nat /\ addr % LowSize \in Nat
             /\ addr = upper * LowSize + (addr % LowSize)
             /\ n \in Nat /\ n >= 1 /\ w.at + n <= Len(segment.data)
             /\ piece \in Seq(Bytes) /\ Len(piece) = n
             /\ \A i \in 1 .. n : piece[i] = segment.data[w.at + i]
<1> DEFINE addr == segment.addr + w.at
           upper == addr \div LowSize
           low == addr % LowSize
           size == Len(segment.data)
           data == segment.data
           at == w.at
           n == PieceLen(w, segment)
<1>1. segment.addr \in Nat /\ data \in Seq(Bytes) /\ size \in Nat /\ at \in Nat /\ at < size
  BY RunFacts DEF Writing, Written
<1>2. LowSize \in Nat \ {0} /\ RecordBytes \in Nat \ {0}
  BY HexFacts
<1>3. addr \in Nat
  BY <1>1
<1>4. addr = LowSize * upper + low /\ low \in 0 .. LowSize - 1 /\ upper \in Nat /\ upper * LowSize = LowSize * upper
  <2> HIDE DEF addr
  <2>1. addr = LowSize * upper + low /\ low \in 0 .. LowSize - 1 /\ upper \in Int
    BY <1>2, <1>3, Division
  <2>2. upper \in Nat
    BY <1>2, <1>3
  <2>3. upper * LowSize = LowSize * upper
    BY <1>2, <2>2
  <2> QED BY <2>1, <2>2, <2>3
<1>10. RecordBytes >= 1 /\ size - at >= 1 /\ LowSize - low >= 1
      /\ RecordBytes \in Int /\ size - at \in Int /\ LowSize - low \in Int
  <2>1. low \in 0 .. LowSize - 1
    BY <1>4
  <2> HIDE DEF low, size, at
  <2> QED BY <1>1, <1>2, <2>1
<1>5. n \in {RecordBytes, size - at, LowSize - low} /\ n <= size - at
  <2>1. n = Min({RecordBytes, size - at, LowSize - low})
    BY DEF PieceLen
  <2>2. RecordBytes \in Int /\ size - at \in Int /\ LowSize - low \in Int
    BY <1>10
  <2> HIDE DEF n, size, at, low
  <2> QED BY <2>1, <2>2, MinOfThree
<1> HIDE DEF n, low, upper
<1>7. n \in Nat /\ n >= 1 /\ at + n <= size
  <2>1. n \in Int /\ n >= 1
    BY <1>5, <1>10
  <2> HIDE DEF size, at
  <2> QED BY <1>1, <1>5, <2>1
<1> DEFINE piece == SubSeq(data, at + 1, at + n)
<1>8. piece \in Seq(Bytes) /\ Len(piece) = n /\ \A i \in 1 .. n : piece[i] = data[at + i]
  <2> HIDE DEF at, data
  <2>1. size = Len(data)
    BY DEF data
  <2> HIDE DEF size
  <2> QED BY <1>1, <1>7, <2>1
<1>9. addr = upper * LowSize + low /\ low \in Nat
  <2> DEFINE product == LowSize * upper
  <2>1. upper * LowSize = product
    BY <1>4
  <2>2. addr = product + low /\ low \in Nat
    BY <1>2, <1>4
  <2> HIDE DEF product, addr
  <2> QED BY <2>1, <2>2
<1> QED BY <1>3, <1>4, <1>7, <1>8, <1>9 DEF low, upper, n

LEMMA PieceIs ==
  ASSUME NEW segment \in DataRun, NEW w \in Writing(segment), w.at # Len(segment.data)
  PROVE  LET addr == segment.addr + w.at
             upper == addr \div LowSize
             n == PieceLen(w, segment)
             piece == SubSeq(segment.data, w.at + 1, w.at + n)
             first == IF w.upper = upper THEN w.lines ELSE Append(w.lines, BaseLine(upper))
         IN  EncodePiece(w, segment) =
               [lines |-> Append(first, DataLine(addr % LowSize, piece)), upper |-> upper, at |-> w.at + n]
<1> DEFINE addr == segment.addr + w.at
           upper == addr \div LowSize
           n == PieceLen(w, segment)
           piece == SubSeq(segment.data, w.at + 1, w.at + n)
           first == IF w.upper = upper THEN w.lines ELSE Append(w.lines, BaseLine(upper))
           base == IF w.upper = upper THEN <<>> ELSE <<BaseLine(upper)>>
           data == DataLine(addr % LowSize, piece)
<1>1. EncodePiece(w, segment) = [lines |-> w.lines \o Append(base, data), upper |-> upper, at |-> w.at + n]
  BY DEF EncodePiece, PieceLen
<1>2. w.lines \in Seq(LineRecord)
  BY DEF Writing, Written
<1>3. data \in LineRecord /\ BaseLine(upper) \in LineRecord
  <2>1. upper \in Nat /\ addr % LowSize \in Nat /\ piece \in Seq(Bytes)
    BY PieceFacts
  <2> HIDE DEF piece, upper, addr
  <2>2. data \in LineRecord
    BY <2>1 DEF DataLine, Line, LineRecord, LineKinds
  <2>3. BaseLine(upper) \in LineRecord
    BY <2>1 DEF BaseLine, Line, LineRecord, LineKinds
  <2> QED BY <2>2, <2>3
<1> HIDE DEF data, piece, upper, n
<1>4. w.lines \o Append(base, data) = Append(first, data)
  <2>1. CASE w.upper = upper
    <3>1. base = <<>> /\ first = w.lines
      BY <2>1
    <3>2. w.lines \o Append(<<>>, data) = Append(w.lines, data)
      BY <1>2, <1>3
    <3> QED BY <3>1, <3>2
  <2>2. CASE w.upper # upper
    <3> DEFINE one == BaseLine(upper)
    <3>1. base = <<one>> /\ first = Append(w.lines, one)
      BY <2>2
    <3>2. one \in LineRecord
      BY <1>3
    <3> HIDE DEF one
    <3>3. w.lines \o Append(<<one>>, data) = Append(Append(w.lines, one), data)
      BY <1>2, <1>3, <3>2
    <3> QED BY <3>1, <3>3
  <2> QED BY <2>1, <2>2
<1> QED BY <1>1, <1>4 DEF data, piece, upper, n

\* The bytes of a file that holds "before" and the first bytes of a segment.
Progress(w, segment, before) ==
  \A a, v : Final(Read(w.lines).bytes, a, v) <=>
    IF a \in segment.addr .. segment.addr + w.at - 1 THEN v = segment.data[a - segment.addr + 1]
    ELSE Final(before, a, v)

LEMMA PieceRead ==
  ASSUME NEW segment \in DataRun, NEW w \in Writing(segment)
  PROVE  /\ EncodePiece(w, segment) \in Writing(segment)
         /\ w.at = Len(segment.data) => EncodePiece(w, segment) = w
         /\ w.at # Len(segment.data) => EncodePiece(w, segment).at > w.at
         /\ Readable(w) => Readable(EncodePiece(w, segment))
         /\ \A before : Readable(w) /\ Progress(w, segment, before) =>
                          Progress(EncodePiece(w, segment), segment, before)
<1>1. CASE w.at = Len(segment.data)
  <2>1. EncodePiece(w, segment) = w
    BY <1>1 DEF EncodePiece
  <2> QED BY <1>1, <2>1
<1>2. CASE w.at # Len(segment.data)
  <2> DEFINE addr == segment.addr + w.at
             upper == addr \div LowSize
             low == addr % LowSize
             n == PieceLen(w, segment)
             piece == SubSeq(segment.data, w.at + 1, w.at + n)
             first == IF w.upper = upper THEN w.lines ELSE Append(w.lines, BaseLine(upper))
             all == Append(first, DataLine(low, piece))
             next == EncodePiece(w, segment)
  <2>1. /\ addr \in Nat /\ upper \in Nat /\ low \in Nat /\ addr = upper * LowSize + low
        /\ n \in Nat /\ n >= 1 /\ w.at + n <= Len(segment.data)
        /\ piece \in Seq(Bytes) /\ Len(piece) = n
        /\ \A i \in 1 .. n : piece[i] = segment.data[w.at + i]
    BY <1>2, PieceFacts
  <2>2. next = [lines |-> all, upper |-> upper, at |-> w.at + n]
    BY <1>2, PieceIs
  <2>3. /\ w.lines \in Seq(LineRecord) /\ w.upper \in Nat \cup {NoUpper} /\ w.at \in Nat
        /\ segment.addr \in Nat /\ segment.data \in Seq(Bytes) /\ Len(segment.data) \in Nat
    BY RunFacts DEF Writing, Written
  <2>4. addr = segment.addr + w.at
    OBVIOUS
  <2> HIDE DEF upper, low, n, piece, next, addr
  <2>5. next.lines = all /\ next.upper = upper /\ next.at = w.at + n
    BY <2>2
  <2>6. upper # NoUpper
    BY <2>1 DEF NoUpper
  <2>7. first \in Seq(LineRecord) /\ all \in Seq(LineRecord)
    <3>1. BaseLine(upper) \in LineRecord /\ DataLine(low, piece) \in LineRecord
      BY <2>1 DEF DataLine, BaseLine, Line, LineRecord, LineKinds
    <3>2. first \in Seq(LineRecord)
      BY <2>3, <3>1, AppendProperties
    <3> HIDE DEF first
    <3> QED BY <3>1, <3>2, AppendProperties
  <2>8. next \in Writing(segment)
    <3> HIDE DEF all
    <3> QED BY <2>1, <2>2, <2>3, <2>7 DEF Writing, Written
  <2>9. next.at > w.at
    BY <2>1, <2>3, <2>5
  <2>10. ASSUME Readable(w)
         PROVE  /\ Open(Read(first)) /\ Read(first).base = upper * LowSize
                /\ Read(first).bytes = Read(w.lines).bytes
    <3>1. CASE w.upper = upper
      BY <2>6, <2>10, <3>1 DEF Readable
    <3>2. CASE w.upper # upper
      <4>1. first = Append(w.lines, BaseLine(upper))
        BY <3>2
      <4> HIDE DEF first
      <4> QED BY <2>1, <2>3, <2>10, <4>1, ReadUpper DEF Readable
    <3> QED BY <3>1, <3>2
  <2> HIDE DEF first
  <2>11. ASSUME Readable(w)
         PROVE  /\ Open(Read(all)) /\ Read(all).base = upper * LowSize
                /\ Read(all).bytes \in Seq(Byte) /\ Read(first).bytes \in Seq(Byte)
                /\ Len(Read(all).bytes) = Len(Read(first).bytes) + Len(piece)
                /\ \A i \in 1 .. Len(Read(first).bytes) : Read(all).bytes[i] = Read(first).bytes[i]
                /\ \A i \in 1 .. Len(piece) :
                     Read(all).bytes[Len(Read(first).bytes) + i] = <<addr + i - 1, piece[i]>>
    <3>1. Open(Read(first)) /\ Read(first).base = upper * LowSize
      BY <2>10, <2>11
    <3>2. /\ Open(Read(all)) /\ Read(all).base = Read(first).base
          /\ Read(all).bytes \in Seq(Byte)
          /\ Len(Read(all).bytes) = Len(Read(first).bytes) + Len(piece)
          /\ \A i \in 1 .. Len(Read(first).bytes) : Read(all).bytes[i] = Read(first).bytes[i]
          /\ \A i \in 1 .. Len(piece) :
               Read(all).bytes[Len(Read(first).bytes) + i] = <<Read(first).base + low + i - 1, piece[i]>>
      BY <2>1, <2>7, <3>1, ReadData
    <3>3. Read(first).base + low = addr
      BY <2>1, <3>1
    <3>4. Read(first).bytes \in Seq(Byte)
      BY <2>7, ReadingType DEF Reading
    <3> QED BY <3>1, <3>2, <3>3, <3>4
  <2> HIDE DEF all
  <2>12. ASSUME Readable(w) PROVE Readable(next)
    BY <2>5, <2>11, <2>12 DEF Readable
  <2>13. ASSUME NEW before, Readable(w), Progress(w, segment, before) PROVE Progress(next, segment, before)
    <3> DEFINE old == Read(first).bytes
               more == Read(all).bytes
               begin == segment.addr
    <3>1. \A a, v : Final(more, a, v) <=>
            IF a \in addr .. addr + n - 1 THEN v = piece[a - addr + 1] ELSE Final(old, a, v)
      <4>1. /\ old \in Seq(Byte) /\ more \in Seq(Byte) /\ Len(more) = Len(old) + Len(piece)
            /\ \A i \in 1 .. Len(old) : more[i] = old[i]
            /\ \A i \in 1 .. Len(piece) : more[Len(old) + i] = <<addr + i - 1, piece[i]>>
        BY <2>11, <2>13
      <4> HIDE DEF old, more
      <4>2. \A a, v : Final(more, a, v) <=>
              IF a \in addr .. addr + Len(piece) - 1 THEN v = piece[a - addr + 1] ELSE Final(old, a, v)
        <5>1. addr \in Nat /\ piece \in Seq(Bytes)
          BY <2>1
        <5> QED BY <4>1, <5>1, FinalRun
      <4>3. Len(piece) = n
        BY <2>1
      <4> QED BY <4>2, <4>3
    <3>2. \A a, v : Final(old, a, v) <=>
            IF a \in begin .. addr - 1 THEN v = segment.data[a - begin + 1] ELSE Final(before, a, v)
      <4>1. old = Read(w.lines).bytes
        BY <2>10, <2>13
      <4> HIDE DEF old
      <4>2. segment.addr + w.at - 1 = addr - 1
        BY <2>3, <2>4
      <4>3. \A a, v : Final(old, a, v) <=>
              IF a \in segment.addr .. segment.addr + w.at - 1 THEN v = segment.data[a - segment.addr + 1]
              ELSE Final(before, a, v)
        BY <2>13, <4>1 DEF Progress
      <4> QED BY <4>2, <4>3
    <3>3. ASSUME NEW a, NEW v
          PROVE  Final(more, a, v) <=>
                   IF a \in begin .. addr + n - 1 THEN v = segment.data[a - begin + 1]
                   ELSE Final(before, a, v)
      <4> HIDE DEF old, more
      <4>1. CASE a \in addr .. addr + n - 1
        <5>1. a \in begin .. addr + n - 1
          BY <2>1, <2>3, <2>4, <4>1
        <5>2. a - addr + 1 \in 1 .. n /\ w.at + (a - addr + 1) = a - begin + 1
          <6> DEFINE at == w.at
          <6>1. at \in Nat /\ begin \in Nat /\ addr \in Nat /\ addr = begin + at /\ n \in Nat /\ a \in Int
                /\ addr <= a /\ a <= addr + n - 1
            BY <2>1, <2>3, <2>4, <4>1
          <6> HIDE DEF at, begin
          <6> QED BY <6>1 DEF at
        <5>3. piece[a - addr + 1] = segment.data[a - begin + 1]
          BY <2>1, <5>2
        <5> QED BY <3>1, <4>1, <5>1, <5>3
      <4>2. CASE a \in begin .. addr - 1
        <5>1. a \in begin .. addr + n - 1 /\ a \notin addr .. addr + n - 1
          <6>1. begin \in Nat /\ addr \in Nat /\ n \in Nat /\ a \in Int /\ begin <= a /\ a <= addr - 1
            BY <2>1, <2>3, <4>2
          <6> HIDE DEF begin
          <6> QED BY <6>1
        <5> QED BY <3>1, <3>2, <4>2, <5>1
      <4>3. CASE a \notin begin .. addr - 1 /\ a \notin addr .. addr + n - 1
        <5>1. a \notin begin .. addr + n - 1
          BY <2>1, <2>3, <2>4, <4>3
        <5> QED BY <3>1, <3>2, <4>3, <5>1
      <4> QED BY <4>1, <4>2, <4>3
    <3>4. segment.addr + next.at - 1 = addr + n - 1 /\ Read(next.lines).bytes = more
      BY <2>1, <2>3, <2>4, <2>5
    <3> HIDE DEF more
    <3>5. \A a, v : Final(more, a, v) <=>
             IF a \in segment.addr .. segment.addr + next.at - 1 THEN v = segment.data[a - segment.addr + 1]
             ELSE Final(before, a, v)
      BY <3>3, <3>4
    <3> QED BY <3>4, <3>5 DEF Progress
  <2> QED BY <1>2, <2>8, <2>9, <2>12, <2>13 DEF next
<1> QED BY <1>1, <1>2

PieceSteps(segment, w, f) ==
  /\ f \in [0 .. Len(segment.data) -> Writing(segment)]
  /\ f[0] = [w EXCEPT !.at = 0]
  /\ \A k \in 1 .. Len(segment.data) : f[k] = EncodePiece(f[k - 1], segment)

LEMMA AtBegin ==
  ASSUME NEW segment \in DataRun, NEW w \in Written
  PROVE  /\ [w EXCEPT !.at = 0] \in Writing(segment)
         /\ [w EXCEPT !.at = 0].lines = w.lines /\ [w EXCEPT !.at = 0].upper = w.upper
         /\ [w EXCEPT !.at = 0].at = 0
<1>1. Len(segment.data) \in Nat
  BY RunFacts
<1> QED BY <1>1 DEF Writing, Written

LEMMA PiecesAre ==
  ASSUME NEW segment \in DataRun, NEW w \in Written
  PROVE  \E f : PieceSteps(segment, w, f) /\ EncodeSegment(w, segment) = f[Len(segment.data)]
<1> DEFINE n == Len(segment.data)
           step == [p \in Writing(segment) \X (1 .. n) |-> EncodePiece(p[1], segment)]
           turn(f) == [k \in 0 .. n |-> IF k = 0 THEN [w EXCEPT !.at = 0] ELSE EncodePiece(f[k - 1], segment)]
           own == CHOOSE f : f = turn(f)
<1>0. n \in Nat
  BY RunFacts
<1>1. n \in Nat /\ TRUE
  BY <1>0
<1>2. step \in [Writing(segment) \X (1 .. n) -> Writing(segment)] /\ [w EXCEPT !.at = 0] \in Writing(segment)
  <2>1. \A p \in Writing(segment) \X (1 .. n) : EncodePiece(p[1], segment) \in Writing(segment)
    BY PieceRead
  <2>2. [w EXCEPT !.at = 0] \in Writing(segment)
    BY AtBegin
  <2> QED BY <2>1, <2>2
<1>3. EncodeSegment(w, segment) = own[n]
  BY DEF EncodeSegment
<1>4. \A r \in Writing(segment), k \in 1 .. n : step[<<r, k>>] = EncodePiece(r, segment)
  OBVIOUS
<1> HIDE DEF step
<1>5. PICK f : Recursion(f, n, Writing(segment), [w EXCEPT !.at = 0], step)
  <2>1. StepOn(step, n, Writing(segment))
    BY <1>2 DEF StepOn
  <2> HIDE DEF n, own
  <2> QED BY <1>0, <1>2, <2>1, RecursionExists
<1>6. /\ f \in [0 .. n -> Writing(segment)] /\ f[0] = [w EXCEPT !.at = 0]
      /\ \A k \in 1 .. n : f[k] = step[<<f[k - 1], k>>]
  BY <1>5 DEF Recursion
<1>7. \A k \in 1 .. n : k - 1 \in 0 .. n /\ f[k - 1] \in Writing(segment)
  BY <1>1, <1>6
<1>8. own = turn(own)
  <2>1. f = turn(f)
    <3>1. \A k \in 1 .. n : f[k] = EncodePiece(f[k - 1], segment)
      BY <1>4, <1>6, <1>7
    <3>2. \A k \in 0 .. n : f[k] = turn(f)[k]
      BY <1>6, <3>1
    <3> QED BY <1>6, <3>2
  <2> HIDE DEF turn
  <2> QED BY <2>1
<1> HIDE DEF own
<1>9. /\ own = [k \in 0 .. n |-> own[k]] /\ own[0] = [w EXCEPT !.at = 0]
      /\ \A k \in 1 .. n : own[k] = EncodePiece(own[k - 1], segment)
  <2> DEFINE start == [w EXCEPT !.at = 0]
  <2>1. own = [k \in 0 .. n |-> IF k = 0 THEN start ELSE EncodePiece(own[k - 1], segment)]
    BY <1>8
  <2> HIDE DEF start, turn
  <2>2. own[0] = start /\ own = [k \in 0 .. n |-> own[k]]
    BY <1>0, <2>1
  <2>3. \A k \in 1 .. n : own[k] = EncodePiece(own[k - 1], segment)
    BY <1>0, <2>1
  <2> QED BY <2>2, <2>3 DEF start
<1> HIDE DEF turn
<1>10. \A k \in 0 .. n : own[k] = f[k]
  <2>1. Follows(own, n, Writing(segment), [w EXCEPT !.at = 0], step)
    BY <1>4, <1>9 DEF Follows
  <2> HIDE DEF n
  <2> QED BY <1>0, <1>5, <2>1, RecursionSame
<1>11. PieceSteps(segment, w, own)
  <2>1. own \in [0 .. n -> Writing(segment)]
    BY <1>6, <1>9, <1>10
  <2> QED BY <1>9, <2>1 DEF PieceSteps
<1> QED BY <1>3, <1>11

LEMMA SegmentRead ==
  ASSUME NEW segment \in DataRun, NEW w \in Written
  PROVE  /\ EncodeSegment(w, segment) \in Written
         /\ Readable(w) =>
              /\ Readable(EncodeSegment(w, segment))
              /\ \A a, v : Final(Read(EncodeSegment(w, segment).lines).bytes, a, v) <=>
                   IF a \in segment.addr .. EndOf(segment) - 1 THEN v = segment.data[a - segment.addr + 1]
                   ELSE Final(Read(w.lines).bytes, a, v)
<1> DEFINE n == Len(segment.data)
           before == Read(w.lines).bytes
<1>1. n \in Nat /\ segment.addr \in Nat /\ EndOf(segment) = segment.addr + n
  BY RunFacts DEF EndOf
<1>2. PICK f : PieceSteps(segment, w, f) /\ EncodeSegment(w, segment) = f[n]
  BY PiecesAre
<1>3. /\ f \in [0 .. n -> Writing(segment)] /\ f[0] = [w EXCEPT !.at = 0]
      /\ \A k \in 1 .. n : f[k] = EncodePiece(f[k - 1], segment)
  BY <1>2 DEF PieceSteps
<1>4. \A k \in 0 .. n : f[k] \in Writing(segment) /\ f[k].at \in Nat /\ f[k].at <= n
  BY <1>3 DEF Writing, Written
<1> DEFINE good(k) == /\ f[k].at >= k
                      /\ Readable(w) => Readable(f[k]) /\ Progress(f[k], segment, before)
           done == {k \in Nat : k <= n => good(k)}
<1>5. good(0)
  <2>1. f[0].lines = w.lines /\ f[0].upper = w.upper /\ f[0].at = 0
    BY <1>3, AtBegin
  <2>2. Readable(w) => Readable(f[0])
    BY <2>1 DEF Readable
  <2>3. segment.addr .. segment.addr + f[0].at - 1 = {}
    BY <1>1, <2>1
  <2>4. Progress(f[0], segment, before)
    BY <2>1, <2>3 DEF Progress
  <2> QED BY <2>1, <2>2, <2>4
<1>6. ASSUME NEW k \in 0 .. n - 1, k \in done PROVE k + 1 \in done
  <2>1. k \in 0 .. n /\ k + 1 \in 1 .. n /\ k + 1 \in 0 .. n /\ (k + 1) - 1 = k /\ k \in Nat /\ k <= n
    BY <1>1
  <2>2. good(k)
    <3> HIDE DEF good
    <3> QED BY <1>6, <2>1
  <2> HIDE DEF before, n
  <2>3. f[k + 1] = EncodePiece(f[k], segment) /\ f[k] \in Writing(segment)
    BY <1>3, <2>1
  <2>4. /\ f[k].at = n => f[k + 1] = f[k]
        /\ f[k].at # n => f[k + 1].at > f[k].at
        /\ Readable(f[k]) => Readable(f[k + 1])
        /\ Readable(f[k]) /\ Progress(f[k], segment, before) => Progress(f[k + 1], segment, before)
    BY <2>3, PieceRead DEF n
  <2>5. f[k].at \in Nat /\ f[k + 1].at \in Nat /\ f[k].at <= n
    BY <1>4, <2>1
  <2>6. f[k + 1].at >= k + 1
    BY <1>1, <2>1, <2>2, <2>4, <2>5
  <2>7. good(k + 1)
    BY <2>2, <2>4, <2>6
  <2> HIDE DEF good
  <2> QED BY <2>1, <2>7
<1>7. good(n)
  <2>1. 0 .. n \subseteq done
    <3> HIDE DEF done, n
    <3>1. 0 \in done
      <4> HIDE DEF good
      <4> QED BY <1>5 DEF done
    <3> QED BY <1>1, <1>6, <3>1, InductionOverSet
  <2>2. n \in done
    <3> HIDE DEF done, n
    <3> QED BY <1>1, <2>1
  <2> HIDE DEF good, n
  <2> QED BY <1>1, <2>2
<1>8. f[n].at = n
  <2>1. n \in 0 .. n
    BY <1>1
  <2> HIDE DEF n
  <2> QED BY <1>1, <1>4, <1>7, <2>1
<1>9. f[n] \in Written
  <2>1. n \in 0 .. n
    BY <1>1
  <2> HIDE DEF n
  <2> QED BY <1>4, <2>1 DEF Writing
<1>10. segment.addr + f[n].at - 1 = EndOf(segment) - 1
  <2> HIDE DEF n
  <2> QED BY <1>1, <1>8
<1>11. ASSUME Readable(w)
       PROVE  \A a, v : Final(Read(f[n].lines).bytes, a, v) <=>
                IF a \in segment.addr .. EndOf(segment) - 1 THEN v = segment.data[a - segment.addr + 1]
                ELSE Final(before, a, v)
  <2> HIDE DEF n, before
  <2>1. \A a, v : Final(Read(f[n].lines).bytes, a, v) <=>
          IF a \in segment.addr .. segment.addr + f[n].at - 1 THEN v = segment.data[a - segment.addr + 1]
          ELSE Final(before, a, v)
    BY <1>7, <1>11 DEF Progress
  <2> QED BY <1>10, <2>1
<1> QED BY <1>2, <1>7, <1>9, <1>11

-----------------------------------------------------------------------------
SegmentSteps(segments, f) ==
  /\ f \in [0 .. Len(segments) -> Written]
  /\ f[0] = [lines |-> <<>>, upper |-> NoUpper, at |-> 0]
  /\ \A k \in 1 .. Len(segments) : f[k] = EncodeSegment(f[k - 1], segments[k])

LEMMA EncodeIs ==
  ASSUME NEW image, image.segments \in Seq(DataRun)
  PROVE  \E f : SegmentSteps(image.segments, f) /\ Encode(image) = f[Len(image.segments)].lines \o <<StartLine(image.entry), EndLine>>
<1> DEFINE n == Len(image.segments)
           step == [p \in Written \X (1 .. n) |-> EncodeSegment(p[1], image.segments[p[2]])]
           turn(f) == [k \in 0 .. n |-> IF k = 0 THEN [lines |-> <<>>, upper |-> NoUpper, at |-> 0] ELSE EncodeSegment(f[k - 1], image.segments[k])]
           own == CHOOSE f : f = turn(f)
<1>0. n \in Nat
  OBVIOUS
<1>1. n \in Nat /\ \A k \in 1 .. n : image.segments[k] \in DataRun
  OBVIOUS
<1>2. step \in [Written \X (1 .. n) -> Written] /\ [lines |-> <<>>, upper |-> NoUpper, at |-> 0] \in Written
  <2>1. \A p \in Written \X (1 .. n) : EncodeSegment(p[1], image.segments[p[2]]) \in Written
    BY <1>1, SegmentRead
  <2>2. [lines |-> <<>>, upper |-> NoUpper, at |-> 0] \in Written
    BY DEF Written, NoUpper
  <2> QED BY <2>1, <2>2
<1>3. Encode(image) = own[n].lines \o <<StartLine(image.entry), EndLine>>
  BY DEF Encode
<1>4. \A r \in Written, k \in 1 .. n : step[<<r, k>>] = EncodeSegment(r, image.segments[k])
  OBVIOUS
<1> HIDE DEF step
<1>5. PICK f : Recursion(f, n, Written, [lines |-> <<>>, upper |-> NoUpper, at |-> 0], step)
  <2>1. StepOn(step, n, Written)
    BY <1>2 DEF StepOn
  <2> HIDE DEF n, own
  <2> QED BY <1>0, <1>2, <2>1, RecursionExists
<1>6. /\ f \in [0 .. n -> Written] /\ f[0] = [lines |-> <<>>, upper |-> NoUpper, at |-> 0]
      /\ \A k \in 1 .. n : f[k] = step[<<f[k - 1], k>>]
  BY <1>5 DEF Recursion
<1>7. \A k \in 1 .. n : k - 1 \in 0 .. n /\ f[k - 1] \in Written
  <2>1. f \in [0 .. n -> Written]
    BY <1>6
  <2> HIDE DEF n
  <2> QED BY <1>0, <2>1
<1>8. own = turn(own)
  <2>1. f = turn(f)
    <3>1. \A k \in 1 .. n : f[k] = EncodeSegment(f[k - 1], image.segments[k])
      BY <1>4, <1>6, <1>7
    <3>2. \A k \in 0 .. n : f[k] = turn(f)[k]
      BY <1>6, <3>1
    <3> QED BY <1>6, <3>2
  <2> HIDE DEF turn
  <2> QED BY <2>1
<1> HIDE DEF own
<1>9. /\ own = [k \in 0 .. n |-> own[k]] /\ own[0] = [lines |-> <<>>, upper |-> NoUpper, at |-> 0]
      /\ \A k \in 1 .. n : own[k] = EncodeSegment(own[k - 1], image.segments[k])
  BY <1>1, <1>8
<1> HIDE DEF turn
<1>10. \A k \in 0 .. n : own[k] = f[k]
  <2>1. Follows(own, n, Written, [lines |-> <<>>, upper |-> NoUpper, at |-> 0], step)
    BY <1>4, <1>9 DEF Follows
  <2> HIDE DEF n
  <2> QED BY <1>0, <1>5, <2>1, RecursionSame
<1>11. SegmentSteps(image.segments, own)
  <2>1. own \in [0 .. n -> Written]
    BY <1>6, <1>9, <1>10
  <2> QED BY <1>9, <2>1 DEF SegmentSteps
<1> QED BY <1>3, <1>11

\* A file that is written of segments holds these segments and the entry.
LEMMA EncodeRead ==
  ASSUME NEW segments \in Runs, NEW entry \in Nat, NEW image,
         image = [segments |-> segments, entry |-> entry]
  PROVE  /\ Encode(image) \in Seq(LineRecord)
         /\ Read(Encode(image)).ok /\ Read(Encode(image)).entry = entry
         /\ Segments(Encode(image)) = segments
<1> DEFINE n == Len(segments)
<1>1. /\ segments \in Seq(DataRun) /\ n \in Nat /\ \A k \in 1 .. n : segments[k] \in DataRun
      /\ \A i, j \in 1 .. n : i < j => EndOf(segments[i]) < segments[j].addr
      /\ \A k \in 1 .. n : /\ segments[k].addr \in Nat /\ EndOf(segments[k]) \in Nat
                           /\ segments[k].addr < EndOf(segments[k])
  BY RunsFacts
<1>2. PICK f : SegmentSteps(segments, f) /\ Encode(image) = f[n].lines \o <<StartLine(entry), EndLine>>
  <2>1. image.segments = segments /\ image.entry = entry
    OBVIOUS
  <2> HIDE DEF n
  <2>2. \E f : SegmentSteps(image.segments, f)
               /\ Encode(image) = f[Len(image.segments)].lines \o <<StartLine(image.entry), EndLine>>
    BY <1>1, <2>1, EncodeIs
  <2> QED BY <2>1, <2>2 DEF n
<1>3. /\ f \in [0 .. n -> Written] /\ f[0] = [lines |-> <<>>, upper |-> NoUpper, at |-> 0]
      /\ \A k \in 1 .. n : f[k] = EncodeSegment(f[k - 1], segments[k])
  BY <1>2 DEF SegmentSteps
<1> DEFINE set(k, a, v) == \E j \in 1 .. k : Holds(segments[j], a, v)
           good(k) == Readable(f[k]) /\ \A a, v : Final(Read(f[k].lines).bytes, a, v) <=> set(k, a, v)
           done == {k \in Nat : k <= n => good(k)}
<1>4. good(0)
  <2>1. f[0].lines = <<>> /\ f[0].upper = NoUpper
    BY <1>3
  <2>2. Read(<<>>) = NothingRead
    <3>1. <<>> \in Seq(LineRecord) /\ Len(<<>>) = 0
      OBVIOUS
    <3>2. \E g : ReadsSteps(<<>>, g) /\ Read(<<>>) = g[Len(<<>>)]
      BY <3>1, ReadSteps
    <3>3. PICK g : ReadsSteps(<<>>, g) /\ Read(<<>>) = g[0]
      BY <3>1, <3>2
    <3> QED BY <3>3 DEF ReadsSteps
  <2>3. Readable(f[0])
    BY <2>1, <2>2 DEF Readable, Open, NothingRead
  <2>4. ASSUME NEW a, NEW v PROVE ~Final(Read(f[0].lines).bytes, a, v) /\ ~set(0, a, v)
    <3>1. Read(f[0].lines).bytes = <<>>
      BY <2>1, <2>2 DEF NothingRead
    <3> QED BY <3>1 DEF Final
  <2> QED BY <2>3, <2>4
<1>5. ASSUME NEW k \in 0 .. n - 1, k \in done PROVE k + 1 \in done
  <2> DEFINE segment == segments[k + 1]
             w == f[k]
  <2>1. k \in 0 .. n /\ k + 1 \in 1 .. n /\ (k + 1) - 1 = k /\ k \in Nat /\ k <= n
    BY <1>1
  <2>2. good(k)
    <3> HIDE DEF good
    <3> QED BY <1>5, <2>1
  <2>3. segment \in DataRun /\ w \in Written /\ f[k + 1] = EncodeSegment(w, segment)
    BY <1>1, <1>3, <2>1
  <2>4. Readable(w) /\ \A a, v : Final(Read(w.lines).bytes, a, v) <=> set(k, a, v)
    BY <2>2
  <2> HIDE DEF w, n
  <2>5. /\ Readable(f[k + 1])
        /\ \A a, v : Final(Read(f[k + 1].lines).bytes, a, v) <=>
             IF a \in segment.addr .. EndOf(segment) - 1 THEN v = segment.data[a - segment.addr + 1]
             ELSE Final(Read(w.lines).bytes, a, v)
    <3> HIDE DEF segment
    <3> QED BY <2>3, <2>4, SegmentRead
  <2>6. \A a, v : Holds(segment, a, v) => a \in segment.addr .. EndOf(segment) - 1
    BY <2>3, RunFacts
  <2>7. \A a \in segment.addr .. EndOf(segment) - 1 : \A v :
          Holds(segment, a, v) <=> v = segment.data[a - segment.addr + 1]
    BY <2>3, RunFacts
  <2>8. ASSUME NEW j \in 1 .. k, NEW a, NEW v, Holds(segments[j], a, v)
        PROVE  a \notin segment.addr .. EndOf(segment) - 1
    <3>1. j \in 1 .. n /\ j < k + 1
      BY <1>1, <2>1
    <3>2. EndOf(segments[j]) < segment.addr /\ segments[j] \in DataRun
      BY <1>1, <2>1, <3>1
    <3>3. a \in segments[j].addr .. EndOf(segments[j]) - 1
      BY <2>8, <3>2, RunFacts
    <3>4. segments[j].addr \in Nat /\ EndOf(segments[j]) \in Nat /\ segment.addr \in Nat
      BY <1>1, <2>1, <3>1
    <3> HIDE DEF segment
    <3> QED BY <3>2, <3>3, <3>4
  <2>9. ASSUME NEW a, NEW v PROVE Final(Read(f[k + 1].lines).bytes, a, v) <=> set(k + 1, a, v)
    <3>1. set(k + 1, a, v) <=> set(k, a, v) \/ Holds(segment, a, v)
      <4>1. \A j \in 1 .. k + 1 : j \in 1 .. k \/ j = k + 1
        BY <2>1
      <4>2. \A j \in 1 .. k : j \in 1 .. k + 1
        BY <2>1
      <4>3. k + 1 \in 1 .. k + 1
        BY <2>1
      <4> QED BY <4>1, <4>2, <4>3
    <3>2. CASE a \in segment.addr .. EndOf(segment) - 1
      <4>1. ~set(k, a, v)
        BY <2>8, <3>2
      <4>2. Holds(segment, a, v) <=> v = segment.data[a - segment.addr + 1]
        BY <2>7, <3>2
      <4> HIDE DEF set, segment
      <4> QED BY <2>5, <3>1, <3>2, <4>1, <4>2
    <3>3. CASE a \notin segment.addr .. EndOf(segment) - 1
      <4>1. ~Holds(segment, a, v)
        BY <2>6, <3>3
      <4>2. Final(Read(w.lines).bytes, a, v) <=> set(k, a, v)
        BY <2>4
      <4> HIDE DEF set, segment
      <4> QED BY <2>5, <3>1, <3>3, <4>1, <4>2
    <3> QED BY <3>2, <3>3
  <2>10. good(k + 1)
    <3> HIDE DEF set, segment
    <3> QED BY <2>5, <2>9
  <2> HIDE DEF good
  <2> QED BY <2>1, <2>10
<1>6. good(n)
  <2>1. 0 \in done
    <3> HIDE DEF good, n
    <3> QED BY <1>4
  <2>2. 0 .. n \subseteq done
    <3> HIDE DEF done, n
    <3> QED BY <1>1, <1>5, <2>1, InductionOverSet
  <2>3. n \in done
    <3> HIDE DEF done, n
    <3> QED BY <1>1, <2>2
  <2> HIDE DEF good, n
  <2> QED BY <1>1, <2>3
<1>7. \A a, v : Final(Read(f[n].lines).bytes, a, v) <=> Placed(segments, a, v)
  BY <1>6 DEF Placed
<1> DEFINE first == f[n].lines
           starts == Append(first, StartLine(entry))
           all == Append(starts, EndLine)
<1>8. first \in Seq(LineRecord) /\ Open(Read(first))
  <2>1. n \in 0 .. n
    BY <1>1
  <2> HIDE DEF n
  <2> QED BY <1>3, <1>6, <2>1 DEF Written, Readable
<1> HIDE DEF n, first
<1>9. /\ StartLine(entry) \in LineRecord /\ EndLine \in LineRecord
      /\ StartLine(entry).kind = "start" /\ StartLine(entry).at = entry /\ StartLine(entry).sum
      /\ EndLine.kind = "end" /\ EndLine.sum
  BY DEF StartLine, EndLine, Line, LineRecord, LineKinds
<1>10. Encode(image) = all
  <2> DEFINE s == StartLine(entry)
             e == EndLine
  <2>1. s \in LineRecord /\ e \in LineRecord
    BY <1>9
  <2> HIDE DEF s, e
  <2>2. first \o <<s, e>> = Append(Append(first, s), e)
    BY <1>8, <2>1
  <2> QED BY <1>2, <2>2 DEF s, e, first
<1>11. /\ starts \in Seq(LineRecord) /\ Read(first) \in Reading
       /\ Read(starts) = [Read(first) EXCEPT !.entry = entry]
  <2> DEFINE s == StartLine(entry)
  <2>1. s \in LineRecord /\ s.kind = "start" /\ s.at = entry /\ s.sum /\ s.kind \in LineKinds
    BY <1>9 DEF LineKinds
  <2> HIDE DEF s
  <2>2. /\ Read(first) \in Reading /\ Append(first, s) \in Seq(LineRecord)
        /\ Read(Append(first, s)) = ReadLine(Read(first), s)
    BY <1>8, <2>1, ReadAppend
  <2>3. ReadLine(Read(first), s) = [Read(first) EXCEPT !.entry = s.at]
    BY <1>8, <2>1, ReadLineIs DEF Open
  <2> QED BY <2>1, <2>2, <2>3 DEF s
<1>12. Read(starts).ok /\ ~Read(starts).end /\ Read(starts).entry = entry
       /\ Read(starts).bytes = Read(first).bytes
  BY <1>8, <1>11 DEF Open, Reading
<1> HIDE DEF starts
<1>13. all \in Seq(LineRecord) /\ Read(starts) \in Reading /\ Read(all) = [Read(starts) EXCEPT !.end = TRUE]
  <2> DEFINE e == EndLine
  <2>1. e \in LineRecord /\ e.kind = "end" /\ e.sum /\ e.kind \in LineKinds
    BY <1>9 DEF LineKinds
  <2> HIDE DEF e
  <2>2. /\ Read(starts) \in Reading /\ Append(starts, e) \in Seq(LineRecord)
        /\ Read(Append(starts, e)) = ReadLine(Read(starts), e)
    BY <1>11, <2>1, ReadAppend
  <2>3. ReadLine(Read(starts), e) = [Read(starts) EXCEPT !.end = TRUE]
    BY <1>12, <2>1, ReadLineIs
  <2> QED BY <2>2, <2>3 DEF e
<1>14. Read(all).ok /\ Read(all).entry = entry /\ Read(all).bytes = Read(first).bytes
  BY <1>12, <1>13 DEF Reading
<1> HIDE DEF all
<1>15. Segments(all) = segments
  <2>1. Segments(all) \in Runs /\ \A a, v : Placed(Segments(all), a, v) <=> Final(Read(all).bytes, a, v)
    BY <1>13, SegmentsAre
  <2>2. Alike(Segments(all), segments)
    BY <1>7, <1>14, <2>1 DEF Alike, first
  <2> QED BY <2>1, <2>2, SegmentsSame
<1> QED BY <1>10, <1>13, <1>14, <1>15

-----------------------------------------------------------------------------
(* What is read back. *)

\* The one value of a cell is each value that a part puts there.
LEMMA ContentsFinite ==
  ASSUME NEW lines \in Seq(LineRecord), NEW a
  PROVE  IsFiniteSet(Contents(lines, a))
<1> DEFINE parts == LayoutOf(lines)
           n == Len(parts)
           those == {q \in DOMAIN parts : a \in CellsOf(parts[q])}
           value == [p \in those |->
             IF p = 1 THEN "header" ELSE Segments(lines)[p - 1].data[a - parts[p].off + 1]]
<1>1. n \in Nat /\ DOMAIN parts = 1 .. n
  <2>1. Segments(lines) \in Runs
    BY SegmentsAre
  <2>2. ImageOf(Segments(lines)) \in Seq(Segment)
    BY <2>1, ImageIs
  <2>3. parts \in Seq(PartRecord)
    BY <2>2, PartsType DEF LayoutOf
  <2> HIDE DEF parts
  <2> QED BY <2>3
<1>2. IsFiniteSet(those)
  <2>1. IsFiniteSet(1 .. n)
    BY <1>1, FS_Interval
  <2>2. those \in SUBSET (1 .. n)
    BY <1>1
  <2> HIDE DEF those, n
  <2> QED BY <2>1, <2>2, FS_Subset
<1>3. Contents(lines, a) = {value[p] : p \in those}
  BY DEF Contents
<1> HIDE DEF those
<1>4. DOMAIN value = those
  OBVIOUS
<1> HIDE DEF value
<1> DEFINE T == {value[p] : p \in those}
<1>5. value \in [those -> T] /\ \A t \in T : \E p \in those : value[p] = t
  <2>1. value = [p \in those |-> value[p]]
    BY <1>4 DEF value
  <2> QED BY <2>1
<1>6. value \in Surjection(those, T)
  <2> HIDE DEF T
  <2> QED BY <1>5 DEF Surjection
<1>7. IsFiniteSet(T)
  <2> HIDE DEF T
  <2> QED BY <1>2, <1>6, FS_Surjection
<1> QED BY <1>3, <1>7

LEMMA BackData ==
  ASSUME NEW lines \in Seq(LineRecord), Verified(lines),
         NEW k \in DOMAIN Segments(lines), NEW i \in 1 .. Len(Segments(lines)[k].data)
  PROVE  /\ LayoutOf(lines)[k + 1].len = Len(Segments(lines)[k].data)
         /\ (CHOOSE v \in Contents(lines, LayoutOf(lines)[k + 1].off + i - 1) : TRUE)
              = Segments(lines)[k].data[i]
<1> DEFINE segments == Segments(lines)
           image == ImageOf(segments)
           parts == LayoutOf(lines)
           part == parts[k + 1]
           a == part.off + i - 1
           byte == segments[k].data[i]
           contents == Contents(lines, a)
<1>1. segments \in Runs
  BY SegmentsAre
<1>2. k \in 1 .. Len(segments) /\ Len(segments) \in Nat /\ segments[k] \in DataRun
  BY <1>1, RunsFacts
<1>3. /\ image \in Seq(Segment) /\ Len(image) = Len(segments)
      /\ image[k].len = Len(segments[k].data)
  BY <1>1, <1>2, ImageIs
<1> HIDE DEF image
<1>4. /\ parts \in Seq(PartRecord) /\ DOMAIN parts = 1 .. 1 + Len(segments)
      /\ part = [off |-> Offset(image, k), len |-> image[k].len, ff |-> image[k].ff]
  <2>1. parts = Parts(image)
    BY DEF LayoutOf, image
  <2> HIDE DEF parts
  <2> QED BY <1>2, <1>3, <2>1, PartsType
<1>5. k + 1 \in DOMAIN parts /\ k + 1 # 1 /\ (k + 1) - 1 = k
  BY <1>2, <1>4
<1>6. part \in PartRecord /\ part.len = Len(segments[k].data)
  <2>1. part.len = image[k].len
    BY <1>4
  <2> QED BY <1>3, <1>4, <1>5, <2>1
<1>7. part.off \in Nat /\ part.len \in Nat /\ i \in 1 .. part.len
  BY <1>6 DEF PartRecord
<1>8. a \in CellsOf(part) /\ a - part.off + 1 = i
  <2> HIDE DEF part
  <2> QED BY <1>7 DEF CellsOf
<1>9. byte \in contents
  <2>1. contents = {IF p = 1 THEN "header" ELSE Segments(lines)[p - 1].data[a - parts[p].off + 1] :
                      p \in {q \in DOMAIN parts : a \in CellsOf(parts[q])}}
    BY DEF Contents
  <2>2. k + 1 \in {q \in DOMAIN parts : a \in CellsOf(parts[q])}
    BY <1>5, <1>8
  <2>3. byte = (IF k + 1 = 1 THEN "header" ELSE Segments(lines)[(k + 1) - 1].data[a - parts[k + 1].off + 1])
    BY <1>5, <1>8
  <2> HIDE DEF contents, byte, parts, a
  <2> QED BY <2>1, <2>2, <2>3
<1>10. Cardinality(contents) = 1
  <2>1. part \in Range(LayoutOf(lines))
    BY <1>5 DEF Range
  <2> HIDE DEF part
  <2>2. \A p \in Range(LayoutOf(lines)) : \A c \in CellsOf(p) : Cardinality(Contents(lines, c)) = 1
    BY DEF Verified
  <2> QED BY <1>8, <2>1, <2>2
<1>11. IsFiniteSet(contents)
  BY ContentsFinite
<1> HIDE DEF contents, byte
<1>12. PICK x : contents = {x}
  BY <1>10, <1>11, FS_Singleton
<1>13. (CHOOSE v \in contents : TRUE) = byte
  BY <1>9, <1>12
<1> QED BY <1>6, <1>13 DEF contents, byte

LEMMA StartType ==
  ASSUME NEW lines \in Seq(LineRecord)
  PROVE  StartOf(lines) \in Nat
<1> DEFINE segments == Segments(lines)
           sram == {s.addr : s \in {x \in Range(segments) : IsSram(x.addr)}}
<1>1. Read(lines).entry \in Nat \cup {NoEntry}
  BY ReadingType DEF Reading
<1>2. sram \subseteq Nat
  <2>1. segments \in Runs
    BY SegmentsAre
  <2> HIDE DEF segments
  <2>2. DOMAIN segments = 1 .. Len(segments) /\ \A k \in 1 .. Len(segments) : segments[k].addr \in Nat
    BY <2>1, RunsFacts
  <2> QED BY <2>2 DEF Range
<1>3. StartOf(lines) = IF Read(lines).entry # NoEntry THEN Read(lines).entry
                       ELSE IF sram # {} THEN Min(sram) ELSE DefaultStart
  BY DEF StartOf
<1> HIDE DEF sram
<1>4. ASSUME sram # {} PROVE Min(sram) \in Nat
  <2>1. PICK m \in sram : \A x \in sram : m <= x
    BY <1>2, <1>4, LeastElement
  <2>2. Min(sram) \in sram
    BY <2>1 DEF Min
  <2> QED BY <1>2, <2>2
<1> QED BY <1>1, <1>3, <1>4, HexFacts

LEMMA BackIs ==
  ASSUME NEW lines \in Seq(LineRecord), Verified(lines)
  PROVE  ReadBack(lines) = [segments |-> Segments(lines), entry |-> StartOf(lines)]
<1> DEFINE segments == Segments(lines)
           read(k) == [i \in 1 .. LayoutOf(lines)[k + 1].len |->
                        CHOOSE v \in Contents(lines, LayoutOf(lines)[k + 1].off + i - 1) : TRUE]
           back == [k \in DOMAIN segments |-> [addr |-> segments[k].addr, data |-> read(k)]]
<1>1. ReadBack(lines) = [segments |-> back, entry |-> StartOf(lines)]
  BY DEF ReadBack
<1>2. /\ segments \in Seq(DataRun) /\ DOMAIN segments = 1 .. Len(segments) /\ Len(segments) \in Nat
      /\ \A k \in 1 .. Len(segments) : segments[k] \in DataRun
  BY SegmentsAre, RunsFacts
<1>3. ASSUME NEW k \in 1 .. Len(segments) PROVE read(k) = segments[k].data
  <2>1. segments[k].data \in Seq(Bytes) /\ Len(segments[k].data) \in Nat \ {0}
    BY <1>2, RunFacts
  <2>2. \A i \in 1 .. Len(segments[k].data) :
          /\ LayoutOf(lines)[k + 1].len = Len(segments[k].data)
          /\ (CHOOSE v \in Contents(lines, LayoutOf(lines)[k + 1].off + i - 1) : TRUE) = segments[k].data[i]
    BY <1>2, BackData
  <2>3. LayoutOf(lines)[k + 1].len = Len(segments[k].data)
    <3>1. 1 \in 1 .. Len(segments[k].data)
      BY <2>1
    <3> QED BY <2>2, <3>1
  <2> DEFINE data == segments[k].data
             copy == read(k)
  <2>4. copy = [i \in 1 .. Len(data) |-> data[i]]
    <3>1. copy = [i \in 1 .. Len(data) |->
                    CHOOSE v \in Contents(lines, LayoutOf(lines)[k + 1].off + i - 1) : TRUE]
      BY <2>3
    <3> QED BY <2>2, <3>1
  <2> HIDE DEF copy, data
  <2>5. data = [i \in 1 .. Len(data) |-> data[i]]
    BY <2>1 DEF data
  <2> QED BY <2>4, <2>5 DEF copy, data
<1> HIDE DEF read
<1>4. back = segments
  <2>1. \A k \in 1 .. Len(segments) : [addr |-> segments[k].addr, data |-> read(k)] = segments[k]
    <3> TAKE k \in 1 .. Len(segments)
    <3>1. segments[k] \in DataRun /\ read(k) = segments[k].data
      BY <1>2, <1>3
    <3> QED BY <3>1 DEF DataRun
  <2>2. back = [k \in 1 .. Len(segments) |-> segments[k]]
    BY <1>2, <2>1
  <2> HIDE DEF segments, back
  <2> QED BY <1>2, <2>2
<1> QED BY <1>1, <1>4

LEMMA TypedBoots == ASSUME HexTyped PROVE VerifiedBoots
<1> DEFINE back == ReadBack(hexFile)
           again == Encode(back)
<1> SUFFICES ASSUME Verified(hexFile), HeaderRead(hexFile)
             PROVE  /\ back.segments = Segments(hexFile)
                    /\ Read(again).ok
                    /\ Segments(again) = back.segments /\ Read(again).entry = back.entry
  BY DEF VerifiedBoots
<1>1. hexFile \in Seq(LineRecord)
  BY FileType
<1>2. back = [segments |-> Segments(hexFile), entry |-> StartOf(hexFile)]
  BY <1>1, BackIs
<1>3. Segments(hexFile) \in Runs /\ StartOf(hexFile) \in Nat
  BY <1>1, SegmentsAre, StartType
<1> HIDE DEF back
<1>4. Read(again).ok /\ Read(again).entry = StartOf(hexFile) /\ Segments(again) = Segments(hexFile)
  BY <1>2, <1>3, EncodeRead
<1> QED BY <1>2, <1>4

\* What was verified is found again and survives the way through another file.
THEOREM BootsTheorem == HexSpec => []VerifiedBoots
BY HexInitTyped, HexKeepsTyped, TypedBoots, PTL DEF HexSpec
=============================================================================
