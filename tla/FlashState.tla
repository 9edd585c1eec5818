------------------------------ MODULE FlashState ------------------------------
(***************************************************************************)
(* Persistent NOR (flash_state.rs) under the guest's flash calls (osal.rs, *)
(* dma_engine.rs): one emulator at a time runs one HEX file with           *)
(* PHY6252_FLASH_STATE naming the same snapshot file, may be killed at any *)
(* point, and is started again with the same HEX file or another one.      *)
(*                                                                         *)
(* A NOR image is the set of its cells that are programmed to zero; all    *)
(* others are erased.  Programming only adds to the set.                   *)
(***************************************************************************)
EXTENDS Naturals, FiniteSets

CONSTANTS
  Firmwares,  \* the HEX files
  Cells,      \* the cells of the NOR
  Beyond,     \* what lies behind its end
  Sectors,    \* what one erase call may erase
  Xip         \* Xip[f]: the NOR image in the HEX file f

ASSUME NorAssumption ==
  /\ Beyond \notin Cells
  /\ Sectors \subseteq SUBSET Cells
  /\ Xip \in [Firmwares -> SUBSET Cells]

VARIABLES
  file,    \* the snapshot file: a set of at most one snapshot
  tmp,     \* the file beside it
  hex,     \* the HEX file that is running: a set of at most one
  loaded,  \* State.initialized
  hash,    \* State.baseline_hash
  nor,     \* the NOR of the chip
  call,    \* how far the flash call of the guest is
  origin,  \* history: the HEX files whose guests wrote to this NOR
  due      \* history: due[f] holds the NOR images that f may find at its start

vars == <<file, tmp, hex, loaded, hash, nor, call, origin, due>>

\* A snapshot has the fingerprint of the image it started from, taken to be the
\* image itself, and whether it is complete; "by" is history.
Snapshots == [hash : SUBSET Cells, image : SUBSET Cells, whole : BOOLEAN,
              by : SUBSET Firmwares]

TypeOK ==
  /\ file \subseteq Snapshots /\ Cardinality(file) <= 1
  /\ tmp \in {"none", "torn", "whole"}
  /\ hex \subseteq Firmwares /\ Cardinality(hex) <= 1
  /\ loaded \in BOOLEAN
  /\ hash \subseteq Cells
  /\ nor \subseteq Cells
  /\ call \in {"none", "changed", "writing", "written"}
  /\ origin \subseteq Firmwares
  /\ due \in [Firmwares -> SUBSET SUBSET Cells]

Init ==
  /\ file = {} /\ tmp = "none"
  /\ hex = {} /\ loaded = FALSE /\ hash = {} /\ nor = {} /\ call = "none"
  /\ origin = {}
  /\ due = [f \in Firmwares |-> {Xip[f]}]

\* The emulator starts with the image of a HEX file.
Start(f) ==
  /\ hex = {}
  /\ hex' = {f}
  /\ loaded' = FALSE
  /\ nor' = Xip[f]
  /\ call' = "none"
  /\ origin' = {f}
  /\ UNCHANGED <<file, tmp, hash, due>>

\* It is killed, or ends.
Kill ==
  /\ hex # {}
  /\ hex' = {}
  /\ UNCHANGED <<file, tmp, loaded, hash, nor, call, origin, due>>

-----------------------------------------------------------------------------
\* Faulty variant: any complete snapshot will do.
DecodeAny(snapshot, baseline) == snapshot.whole

decode(snapshot, baseline) == snapshot.whole /\ snapshot.hash = baseline

\* restore_xip erases every sector and programs every byte.
restore_xip(image) == (nor \ Cells) \cup image

\* ensure_loaded, before the first instruction: a snapshot that fits is restored.
Load ==
  /\ hex # {} /\ ~loaded
  /\ loaded' = TRUE
  /\ hash' = nor
  /\ \/ /\ \A s \in file : ~decode(s, nor)
        /\ UNCHANGED <<nor, origin>>
     \/ \E s \in file :
          /\ decode(s, nor)
          /\ nor' = restore_xip(s.image)
          /\ origin' = s.by
  /\ due' = [f \in Firmwares |-> IF f \in hex THEN {nor'} ELSE due[f]]
  /\ UNCHANGED <<file, tmp, hex, call>>

\* The snapshot cannot be read.  The guest runs all the same, from the image of
\* the HEX file, and its next flash call replaces the snapshot.
LoadFails ==
  /\ hex # {} /\ ~loaded
  /\ loaded' = TRUE
  /\ hash' = nor
  /\ due' = [f \in Firmwares |-> IF f \in hex THEN due[f] \cup {nor} ELSE due[f]]
  /\ UNCHANGED <<file, tmp, hex, nor, call, origin>>

-----------------------------------------------------------------------------
(* A flash call changes the NOR, then persists it, then returns. *)

Change(image) ==
  /\ loaded /\ hex # {} /\ call = "none"
  /\ nor' = image
  /\ call' = "changed"
  /\ origin' = origin \cup hex
  /\ due' = [f \in Firmwares |-> IF f \in hex THEN due[f] \cup {image} ELSE due[f]]
  /\ UNCHANGED <<file, tmp, hex, loaded, hash>>

InNor(range) == range \subseteq Cells

\* flash_write and a DMA transfer; a range that leaves the NOR is refused.
Program(range) == InNor(range) /\ Change(nor \cup range)

\* flash_erase and flash_erase_all.
Erase(sectors) == Change(nor \ sectors)

\* Faulty variant: the snapshot itself is truncated, not a file beside it.
OpenInPlace ==
  /\ hex # {} /\ call = "changed"
  /\ tmp' = "torn"
  /\ file' = {[hash |-> hash, image |-> {}, whole |-> FALSE, by |-> origin]}
  /\ call' = "writing"
  /\ UNCHANGED <<hex, loaded, hash, nor, origin, due>>

\* fs::write truncates the temporary file, and fills it.
OpenTmp ==
  /\ hex # {} /\ call = "changed"
  /\ tmp' = "torn"
  /\ call' = "writing"
  /\ UNCHANGED <<file, hex, loaded, hash, nor, origin, due>>

FillTmp ==
  /\ hex # {} /\ call = "writing"
  /\ tmp' = "whole"
  /\ call' = "written"
  /\ UNCHANGED <<file, hex, loaded, hash, nor, origin, due>>

\* When the file cannot be written the call is not completed: the CPU is left at
\* a ROM address without code and the chip stops.
TmpFails ==
  /\ hex # {} /\ call \in {"changed", "writing"}
  /\ hex' = {}
  /\ UNCHANGED <<file, tmp, loaded, hash, nor, call, origin, due>>

\* The rename replaces the snapshot in one step, and the call succeeds.  What
\* other HEX files had stored is gone with the snapshot it replaces.
Rename ==
  /\ hex # {} /\ call = "written"
  /\ file' = {[hash |-> hash, image |-> nor, whole |-> tmp = "whole", by |-> origin]}
  /\ tmp' = "none"
  /\ call' = "none"
  /\ due' = [f \in Firmwares |-> IF f \in hex THEN {nor} ELSE {Xip[f]}]
  /\ UNCHANGED <<hex, loaded, hash, nor, origin>>

Next ==
  \/ \E f \in Firmwares : Start(f)
  \/ Kill
  \/ Load
  \/ LoadFails
  \/ \E range \in SUBSET (Cells \cup {Beyond}) : Program(range)
  \/ \E sectors \in Sectors : Erase(sectors)
  \/ OpenTmp
  \/ FillTmp
  \/ TmpFails
  \/ Rename

Spec == Init /\ [][Next]_vars

-----------------------------------------------------------------------------
(* Properties. *)

\* A restart that can read the snapshot finds the NOR as the last flash call of
\* the same HEX file that succeeded left it, or, if the emulator was killed
\* during a call, as that call would have: through any number of kills, torn
\* temporary files, failed reads and snapshots of other HEX files in between.
NorKept == [][Load => \A f \in hex : nor' \in due[f]]_vars

\* What is restored was stored by the HEX file that is running: a snapshot of
\* another one is not accepted.
OwnNorOnly == loaded /\ hex # {} => origin = hex
=============================================================================
