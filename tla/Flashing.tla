------------------------------- MODULE Flashing -------------------------------
(***************************************************************************)
(* Programming a PHY62xx through its ROM: the image layout of              *)
(* programmer.rs, the erase and program sequence of the Flasher in         *)
(* flash.rs, and the NOR memory behind the ROM, as HarnessTransport keeps  *)
(* it.  A session may break off between any two ROM commands, and the      *)
(* tool is simply run again.                                               *)
(*                                                                         *)
(* A cell of the NOR holds the set of those who have programmed it since   *)
(* it was last erased: programming only clears bits, so two of them leave  *)
(* a mixture.  Addresses are scaled down; the ratios that the code depends *)
(* on are constants.                                                       *)
(***************************************************************************)
EXTENDS Integers, Sequences, SequencesExt, FiniteSetsExt, Selection

CONSTANTS
  Sector,      \* 0x1000, what era4k erases
  BigSectors,  \* 16, the sectors that er64k erases
  Align,       \* 4, the alignment of SRAM parts in the NOR
  NorSize,     \* the size the ROM reports
  MaxFlash,    \* MAX_FLASH, 0x20_0000
  HeaderOff,   \* HEADER_FLASH_OFF and BOOT_INFO_OFFSET, 0x2000
  HeaderLen,   \* the bytes of the boot header
  StoreOff,    \* SRAM_STORE_OFF, 0x5000
  Images       \* bound: the firmware images, sequences of segments

ASSUME GeometryAssumption ==
  /\ {Sector, BigSectors, Align, HeaderLen} \subseteq Nat \ {0}
  /\ Sector % Align = 0
  /\ HeaderOff \in Nat /\ StoreOff \in Nat /\ MaxFlash \in Nat
  /\ NorSize \in Nat /\ NorSize % (BigSectors * Sector) = 0

\* A segment is loaded into SRAM, or lies at "off" in the flash window.  "ff"
\* names the chunks of it that are nothing but 0xFF.  An image without data is
\* refused.
ASSUME ImagesAssumption ==
  \A image \in Images :
    /\ image # <<>>
    /\ image \in Seq([sram : BOOLEAN, off : Nat, len : Nat \ {0}, ff : SUBSET Nat])

Chunk == 2 * Sector       \* CPBIN_BLK
Big == BigSectors * Sector

Total(numbers) ==
  LET sum[k \in 0 .. Len(numbers)] == IF k = 0 THEN 0 ELSE sum[k - 1] + numbers[k]
  IN  sum[Len(numbers)]
AlignUp(n) == ((n + Align - 1) \div Align) * Align

-----------------------------------------------------------------------------
(* build_flash_image: where each segment is stored. *)

SramLens(image) ==
  LET sram == Selected(image, {s \in Range(image) : s.sram})
  IN  [k \in DOMAIN sram |-> sram[k].len]

InWindow(image) == {k \in DOMAIN image : ~image[k].sram}
FlashMin(image) == Min({MaxFlash - 1} \cup {image[k].off : k \in InWindow(image)})
FlashMax(image) == Max({0} \cup {image[k].off + image[k].len : k \in InWindow(image)})

\* Faulty variant: whether they fit there is not looked at.
StoreFixed(image) == StoreOff

\* SRAM parts go to a fixed place, or behind the flash parts if they do not
\* fit below them.
Store(image) ==
  IF StoreOff + Total(SramLens(image)) >= FlashMin(image)
    THEN AlignUp(FlashMax(image))
    ELSE StoreOff

Offset(image, k) ==
  IF image[k].sram
    THEN LET before == SramLens(SubSeq(image, 1, k - 1))
         IN  Store(image) + Total([j \in DOMAIN before |-> AlignUp(before[j])])
    ELSE image[k].off

\* The header comes first.
Parts(image) ==
  <<[off |-> HeaderOff, len |-> HeaderLen, ff |-> {}]>>
    \o [k \in DOMAIN image |->
          [off |-> Offset(image, k), len |-> image[k].len, ff |-> image[k].ff]]

-----------------------------------------------------------------------------
VARIABLES
  flash,     \* HarnessTransport.flash
  target,  \* what the chip runs: its application or the ROM monitor
  job,     \* the Flasher at work: its image, position and erased range
  report   \* the image that the last session reported as flashed

flashVars == <<flash, target, job, report>>

NorCells == 0 .. NorSize - 1
NoJob == [image |-> <<>>]
NoReport == <<>>
Writers == {<<"factory">>, <<"zero">>} \cup {<<image, p>> : image \in Images, p \in 1..9}
\* Bound: no image has more than eight segments.

FlashTypeOK ==
  /\ flash \in [NorCells -> SUBSET Writers]
  /\ target \in {"application", "rom"}
  /\ report \in Images \cup {NoReport}
  /\ job # NoJob =>
       /\ job.image \in Images
       /\ job.part \in 1 .. Len(Parts(job.image))
       /\ job.left \in 0 .. NorSize \div Sector
       /\ job.sent \in 0 .. Parts(job.image)[job.part].len
       /\ target = "rom"

FlashInit ==
  /\ flash = [a \in NorCells |-> {<<"factory">>}]
  /\ target \in {"application", "rom"}
  /\ job = NoJob
  /\ report = NoReport

\* The ROM uses the low bits of an address only: it wraps at the end of the NOR.
Erased(from, size) ==
  LET start == from % NorSize
  IN  [a \in NorCells |-> IF a \in start .. start + size - 1 THEN {} ELSE flash[a]]

\* boot_info_valid: the part count is neither blank nor zero.
BootInfoValid == flash[HeaderOff] # {} /\ <<"zero">> \notin flash[HeaderOff]
BootState == IF BootInfoValid THEN "application" ELSE "rom"

-----------------------------------------------------------------------------
(* write_block and erase_range: the sectors to erase for a part. *)

\* Faulty variant: the offset of the part within its first sector is ignored.
SectorCountShort(off, size) == (size + Sector - 1) \div Sector

SectorCount(off, size) == (size + Sector - 1 + (off % Sector)) \div Sector

\* A last chunk of more than a sector will be padded to a whole chunk.
EraseSize(len) == IF len % Chunk > Sector THEN len + Chunk - (len % Chunk) ELSE len

\* The sectors that a part needs, its padding included.
FirstSector(part) == part.off - (part.off % Sector)
SectorsEnd(part) == FirstSector(part) + SectorCount(part.off, EraseSize(part.len)) * Sector

AtPart(j, p) ==
  LET part == Parts(j.image)[p]
  IN  [j EXCEPT !.part = p,
                !.at = FirstSector(part),
                !.left = SectorCount(part.off, EraseSize(part.len)),
                !.sent = 0]

NewJob(image) ==
  [image |-> image, part |-> 1, at |-> 0, left |-> 0, sent |-> 0, from |-> NorSize, to |-> NorSize]

\* Flasher::flash, up to the first part; a whole-chip erase is an option.
Begin(image, chipErase) ==
  /\ job = NoJob
  /\ target = "rom"
  /\ IF chipErase
       THEN /\ flash' = Erased(0, NorSize)
            /\ job' = AtPart([NewJob(image) EXCEPT !.from = 0], 1)
       ELSE /\ job' = AtPart(NewJob(image), 1)
            /\ UNCHANGED flash
  /\ report' = NoReport
  /\ UNCHANGED target

Erasing == job # NoJob /\ job.left > 0

\* Only the range that was erased last is remembered.
JustErased == job.from <= job.at /\ job.at < job.to

SkipErased ==
  /\ Erasing
  /\ JustErased
  /\ job' = [job EXCEPT !.at = @ + Sector, !.left = @ - 1]
  /\ UNCHANGED <<flash, target, report>>

\* Faulty variant: the number of sectors that are left is not looked at.
FitsBigAlways == job.at % Big = 0

FitsBig == job.at % Big = 0 /\ job.left >= BigSectors

EraseAt(size) ==
  /\ Erasing
  /\ ~JustErased
  /\ flash' = Erased(job.at, size)
  /\ job' = [job EXCEPT !.at = @ + size, !.left = @ - size \div Sector,
                        !.from = job.at, !.to = job.at + size]
  /\ UNCHANGED <<target, report>>

EraseBig == Erasing /\ FitsBig /\ EraseAt(Big)
EraseSector == Erasing /\ ~FitsBig /\ EraseAt(Sector)

-----------------------------------------------------------------------------
(* send_chunk: programming a part. *)

Part == Parts(job.image)[job.part]
Programming == job # NoJob /\ job.left = 0

\* pad_cpbin_chunk
Padded(n) == IF n > Sector THEN Chunk ELSE n

\* A chunk that is nothing but 0xFF is not sent; one that does not fit, padding
\* included, is refused.
SendChunk ==
  /\ Programming
  /\ job.sent < Part.len
  /\ LET n == Min({Chunk, Part.len - job.sent})
         from == Part.off + job.sent
     IN  /\ job.sent \div Chunk \notin Part.ff => from + Padded(n) <= NorSize
         /\ flash' = IF job.sent \div Chunk \in Part.ff THEN flash
                   ELSE [a \in NorCells |->
                          IF a \in from .. from + n - 1
                            THEN flash[a] \cup {<<job.image, job.part>>}
                            ELSE flash[a]]
         /\ job' = [job EXCEPT !.sent = @ + n]
  /\ UNCHANGED <<target, report>>

PartDone == Programming /\ job.sent = Part.len

NextPart ==
  /\ PartDone
  /\ job.part < Len(Parts(job.image))
  /\ job' = AtPart(job, job.part + 1)
  /\ UNCHANGED <<flash, target, report>>

\* The session reports success; a reset of the chip is an option.
Finish(resetAfter) ==
  /\ PartDone
  /\ job.part = Len(Parts(job.image))
  /\ report' = job.image
  /\ target' = IF resetAfter THEN BootState ELSE target
  /\ job' = NoJob
  /\ UNCHANGED flash

-----------------------------------------------------------------------------
(* What happens around a session. *)

\* A command fails or the link breaks: the ROM waits for the next run.
Interrupt ==
  /\ job # NoJob
  /\ job' = NoJob
  /\ UNCHANGED <<flash, target, report>>

\* Power is cut: the chip starts what its boot header describes.
PowerCycle ==
  /\ target' = BootState
  /\ job' = NoJob
  /\ UNCHANGED <<flash, report>>

\* The running application is asked to make room: it zeroes the part count of
\* the boot header and resets into the ROM.
Handoff ==
  /\ target = "application"
  /\ flash' = [flash EXCEPT ![HeaderOff] = @ \cup {<<"zero">>}]
  /\ target' = "rom"
  /\ report' = NoReport
  /\ UNCHANGED job

\* The ROM is entered by hand.
EnterRom ==
  /\ target = "application"
  /\ target' = "rom"
  /\ UNCHANGED <<flash, job, report>>

FlashNext ==
  \/ \E image \in Images, chipErase \in BOOLEAN : Begin(image, chipErase)
  \/ SkipErased
  \/ EraseBig
  \/ EraseSector
  \/ SendChunk
  \/ NextPart
  \/ \E resetAfter \in BOOLEAN : Finish(resetAfter)
  \/ Interrupt
  \/ PowerCycle
  \/ Handoff
  \/ EnterRom

FlashSpec == FlashInit /\ [][FlashNext]_flashVars

-----------------------------------------------------------------------------
(* Properties. *)

CellsOf(part) == part.off .. part.off + part.len - 1
IsBlank(part, a) == (a - part.off) \div Chunk \in part.ff

\* Part p of the image can be read back from the NOR.
Stored(image, p) ==
  LET part == Parts(image)[p]
  IN  \A a \in CellsOf(part) :
        flash[a] = IF IsBlank(part, a) THEN {} ELSE {<<image, p>>}

\* A session that reports success has left every part of its image in the
\* NOR, whatever earlier sessions left there, wherever they broke off, and
\* however the parts share sectors.
FlashedImageReadsBack ==
  report # NoReport => \A p \in DOMAIN Parts(report) : Stored(report, p)

\* The sectors that an image needs.
SectorsOf(image) ==
  UNION {FirstSector(Parts(image)[p]) .. SectorsEnd(Parts(image)[p]) - 1 : p \in DOMAIN Parts(image)}

\* Flashing an image changes nothing outside the sectors it needs: factory data
\* elsewhere in the NOR survives (only a whole-chip erase spares nothing).
OthersUntouched ==
  [][job # NoJob => \A a \in NorCells \ SectorsOf(job.image) : flash'[a] = flash[a]]_flashVars

\* An image whose parts fit into the NOR and stay off each other: the erase for a
\* part meets an earlier part in its first sector at most, and this one it skips,
\* because it was the last sector of the part just before.
Undisturbed(image) ==
  /\ SectorsOf(image) \subseteq NorCells
  /\ \A q \in DOMAIN Parts(image) : \A p \in 1 .. (q - 1) :
       LET part == Parts(image)[q]
           earlier == CellsOf(Parts(image)[p])
           second == FirstSector(part) + Sector
       IN  /\ earlier \cap CellsOf(part) = {}
           /\ earlier \cap (second .. SectorsEnd(part) - 1) = {}
           /\ earlier \cap (FirstSector(part) .. second - 1) # {} =>
                SectorsEnd(Parts(image)[q - 1]) = second
=============================================================================
