-------------------------------- MODULE HexFiles --------------------------------
(***************************************************************************)
(* Intel HEX files on their way into a chip and back.  programmer.rs reads *)
(* a file and lays it out in the NOR (the layout is that of Flashing);     *)
(* phy6252-flash.rs checks what it has flashed, reads the boot header back *)
(* from the NOR and writes a HEX file of that again.  The emulator reads   *)
(* the file with a reader of its own, hex.rs.                              *)
(*                                                                         *)
(* Addresses are scaled down: the flash window is 0 .. MaxFlash - 1, the   *)
(* SRAM begins at SramBase, and a record holds the low part of an address, *)
(* below LowSize.  A line is a record, or something else a file may hold.  *)
(***************************************************************************)
EXTENDS Flashing

CONSTANTS
  LowSize,      \* 2^16
  RecordBytes,  \* HEX_RECORD_BYTES, 16
  SramBase,
  DefaultStart, \* 0x1FFF_1838
  NoEntry,
  MaxSegments,  \* as many segments a header may name, 128
  Bytes,        \* bound: the values of a byte
  Lines,        \* bound: the lines a file may hold, see DataLine
  MaxLines      \* bound: how many

ASSUME HexAssumption ==
  /\ LowSize \in Nat \ {0} /\ RecordBytes \in Nat \ {0} /\ MaxLines \in Nat
  /\ MaxSegments \in Nat
  /\ SramBase \in Nat /\ SramBase >= MaxFlash
  /\ DefaultStart \in Nat /\ NoEntry \notin Nat
  /\ HeaderOff + HeaderLen <= StoreOff

LineKinds == {"data", "base", "start", "end", "comment", "text", "unknown"}

ASSUME LinesAssumption ==
  Lines \subseteq [kind : LineKinds, at : Nat, bytes : Seq(Bytes), sum : BOOLEAN]

VARIABLE hexFile  \* the lines of the file

\* "sum" tells whether the checksum of a record is right.
Line(kind, at, bytes, sum) == [kind |-> kind, at |-> at, bytes |-> bytes, sum |-> sum]
DataLine(low, bytes) == Line("data", low, bytes, TRUE)
BaseLine(upper) == Line("base", upper, <<>>, TRUE)
StartLine(entry) == Line("start", entry, <<>>, TRUE)
EndLine == Line("end", 0, <<>>, TRUE)

-----------------------------------------------------------------------------
(* parse_intel_hex. *)

NothingRead == [ok |-> TRUE, end |-> FALSE, base |-> 0, entry |-> NoEntry, bytes |-> <<>>]

Addressed(base, line) ==
  [i \in DOMAIN line.bytes |-> <<base + line.at + i - 1, line.bytes[i]>>]

ReadBase(base, upper) == upper * LowSize

ReadLine(read, line) ==
  IF read.end \/ ~read.ok \/ line.kind = "comment" THEN read
  ELSE IF line.kind \in {"text", "unknown"} \/ ~line.sum THEN [read EXCEPT !.ok = FALSE]
  ELSE CASE line.kind = "data"  -> [read EXCEPT !.bytes = @ \o Addressed(read.base, line)]
         [] line.kind = "base"  -> [read EXCEPT !.base = ReadBase(@, line.at)]
         [] line.kind = "start" -> [read EXCEPT !.entry = line.at]
         [] line.kind = "end"   -> [read EXCEPT !.end = TRUE]

Read(lines) ==
  LET read[k \in 0 .. Len(lines)] ==
        IF k = 0 THEN NothingRead ELSE ReadLine(read[k - 1], lines[k])
  IN  read[Len(lines)]

\* sort_by_key is stable: a byte goes behind those for the same address.
Inserted(sorted, byte) ==
  LET n == CHOOSE m \in 0 .. Len(sorted) :
             /\ \A i \in 1 .. m : sorted[i][1] <= byte[1]
             /\ \A i \in m + 1 .. Len(sorted) : sorted[i][1] > byte[1]
  IN  InsertAt(sorted, n + 1, byte)

InOrder(bytes) ==
  LET sorted[k \in 0 .. Len(bytes)] ==
        IF k = 0 THEN <<>> ELSE Inserted(sorted[k - 1], bytes[k])
  IN  sorted[Len(bytes)]

\* Faulty variant: the first of two values for an address is kept.
JoinKeepingFirst(segments, byte) ==
  LET last == segments[Len(segments)]
      end == last.addr + Len(last.data)
  IN  IF segments # <<>> /\ byte[1] < end THEN segments
      ELSE IF segments # <<>> /\ byte[1] = end
        THEN [segments EXCEPT ![Len(segments)].data = Append(@, byte[2])]
      ELSE Append(segments, [addr |-> byte[1], data |-> <<byte[2]>>])

\* A byte that follows the last segment extends it, one within it replaces.
Join(segments, byte) ==
  LET last == segments[Len(segments)]
      end == last.addr + Len(last.data)
  IN  IF segments # <<>> /\ byte[1] <= end
        THEN [segments EXCEPT ![Len(segments)].data =
                IF byte[1] = end THEN Append(@, byte[2])
                ELSE [@ EXCEPT ![byte[1] - last.addr + 1] = byte[2]]]
        ELSE Append(segments, [addr |-> byte[1], data |-> <<byte[2]>>])

Joined(sorted) ==
  LET joined[k \in 0 .. Len(sorted)] ==
        IF k = 0 THEN <<>> ELSE Join(joined[k - 1], sorted[k])
  IN  joined[Len(sorted)]

Coalesce(bytes) == Joined(InOrder(bytes))

Segments(lines) == Coalesce(Read(lines).bytes)

-----------------------------------------------------------------------------
(* build_flash_image: the image whose parts Flashing lays out. *)

IsSram(addr) == addr >= SramBase
InFlash(addr) == addr < MaxFlash

ImageOf(segments) ==
  [k \in DOMAIN segments |->
    [sram |-> IsSram(segments[k].addr), off |-> segments[k].addr,
     len |-> Len(segments[k].data), ff |-> {}]]

Builds(lines) ==
  /\ Read(lines).ok
  /\ Segments(lines) # <<>>
  /\ \A k \in DOMAIN Segments(lines) :
       IsSram(Segments(lines)[k].addr) \/ InFlash(Segments(lines)[k].addr)

\* infer_start: the lowest address in the SRAM.
StartOf(lines) ==
  LET sram == {s.addr : s \in {x \in Range(Segments(lines)) : IsSram(x.addr)}}
  IN  IF Read(lines).entry # NoEntry THEN Read(lines).entry
      ELSE IF sram # {} THEN Min(sram) ELSE DefaultStart

-----------------------------------------------------------------------------
(* phy6252-flash.rs: what the NOR holds, and what is read back from it. *)

LayoutOf(lines) == Parts(ImageOf(Segments(lines)))

\* The bytes that the parts put into a cell; those of the header are its own.
Contents(lines, a) ==
  LET parts == LayoutOf(lines)
  IN  {IF p = 1 THEN "header" ELSE Segments(lines)[p - 1].data[a - parts[p].off + 1] :
         p \in {q \in DOMAIN parts : a \in CellsOf(parts[q])}}

\* flash_harness: every part reads back as it was planned.
Verified(lines) ==
  /\ Builds(lines)
  /\ \A part \in Range(LayoutOf(lines)) : part.off + part.len <= NorSize
  /\ \A part \in Range(LayoutOf(lines)) : \A a \in CellsOf(part) :
       Cardinality(Contents(lines, a)) = 1

\* programmed_flash_to_hex: the header names the parts, if they are not too many.
HeaderRead(lines) == Len(Segments(lines)) \in 1 .. MaxSegments

ReadBack(lines) ==
  [segments |-> [k \in DOMAIN Segments(lines) |->
      LET part == LayoutOf(lines)[k + 1]
      IN  [addr |-> Segments(lines)[k].addr,
           data |-> [i \in 1 .. part.len |-> CHOOSE v \in Contents(lines, part.off + i - 1) : TRUE]]],
   entry |-> StartOf(lines)]

-----------------------------------------------------------------------------
(* encode_intel_hex. *)

NoUpper == -1

\* Faulty variant: the upper part of the address is written once.
EncodePieceOnce(written, segment) ==
  LET addr == segment.addr + written.at
      upper == addr \div LowSize
      n == Min({RecordBytes, Len(segment.data) - written.at, LowSize - (addr % LowSize)})
      base == IF written.upper # NoUpper THEN <<>> ELSE <<BaseLine(upper)>>
      data == DataLine(addr % LowSize, SubSeq(segment.data, written.at + 1, written.at + n))
  IN  IF written.at = Len(segment.data) THEN written
      ELSE [lines |-> written.lines \o Append(base, data), upper |-> upper, at |-> written.at + n]

\* The next record of a segment ends where the upper part of the address changes.
EncodePiece(written, segment) ==
  LET addr == segment.addr + written.at
      upper == addr \div LowSize
      n == Min({RecordBytes, Len(segment.data) - written.at, LowSize - (addr % LowSize)})
      base == IF written.upper = upper THEN <<>> ELSE <<BaseLine(upper)>>
      data == DataLine(addr % LowSize, SubSeq(segment.data, written.at + 1, written.at + n))
  IN  IF written.at = Len(segment.data) THEN written
      ELSE [lines |-> written.lines \o Append(base, data), upper |-> upper, at |-> written.at + n]

EncodeSegment(written, segment) ==
  LET pieces[k \in 0 .. Len(segment.data)] ==
        IF k = 0 THEN [written EXCEPT !.at = 0] ELSE EncodePiece(pieces[k - 1], segment)
  IN  pieces[Len(segment.data)]

Encode(image) ==
  LET written[k \in 0 .. Len(image.segments)] ==
        IF k = 0 THEN [lines |-> <<>>, upper |-> NoUpper, at |-> 0]
                 ELSE EncodeSegment(written[k - 1], image.segments[k])
  IN  written[Len(image.segments)].lines \o <<StartLine(image.entry), EndLine>>

-----------------------------------------------------------------------------
(* hex.rs: the reader of the emulator. *)

\* Lines that are no records are skipped, checksums and entries not looked at.
LoadLine(read, line) ==
  IF read.end \/ ~read.ok THEN read
  ELSE CASE line.kind \in {"comment", "text", "start"} -> read
         [] line.kind = "unknown" -> [read EXCEPT !.ok = FALSE]
         [] line.kind = "data" -> [read EXCEPT !.bytes = @ \o Addressed(read.base, line)]
         [] line.kind = "base" -> [read EXCEPT !.base = line.at * LowSize]
         [] line.kind = "end"  -> [read EXCEPT !.end = TRUE]

Parse(lines) ==
  LET read[k \in 0 .. Len(lines)] ==
        IF k = 0 THEN NothingRead ELSE LoadLine(read[k - 1], lines[k])
  IN  read[Len(lines)]

\* fill writes the bytes in the order of the file: the last one for an address stays.
Memory(lines) ==
  LET bytes == Parse(lines).bytes
      last(a) == Max({i \in DOMAIN bytes : bytes[i][1] = a})
  IN  [a \in {bytes[i][1] : i \in DOMAIN bytes} |-> bytes[last(a)][2]]

-----------------------------------------------------------------------------
HexInit == hexFile = <<>>

\* A tool writes a file line by line, and starts another one.
HexNext ==
  \/ /\ Len(hexFile) < MaxLines
     /\ \E line \in Lines : hexFile' = Append(hexFile, line)
  \/ hexFile # <<>> /\ hexFile' = <<>>

HexSpec == HexInit /\ [][HexNext]_hexFile

-----------------------------------------------------------------------------
(* Properties. *)

\* What the flasher stores is what the emulator runs: both readers of a file
\* agree on every byte, in whatever order and how often the file sets it.
ReadersAgree ==
  Read(hexFile).ok =>
    LET segments == Segments(hexFile)
        memory == Memory(hexFile)
        placed == UNION {s.addr .. s.addr + Len(s.data) - 1 : s \in Range(segments)}
    IN  /\ DOMAIN memory = placed
        /\ \A s \in Range(segments) : \A i \in DOMAIN s.data : memory[s.addr + i - 1] = s.data[i]

\* The segments that are stored do not run into each other or into the boot
\* header, if the file has nothing in the flash window below the end of the
\* header, its SRAM segments need no padding, and they fit into the flash if they
\* are all there is: the layout does not check it.
LayoutApart ==
  Builds(hexFile) =>
    LET image == ImageOf(Segments(hexFile))
        parts == LayoutOf(hexFile)
    IN  (/\ \A k \in InWindow(image) : image[k].off >= HeaderOff + HeaderLen
         /\ \A k \in DOMAIN image \ InWindow(image) : image[k].len % Align = 0
         /\ InWindow(image) = {} => StoreOff + Total(SramLens(image)) < FlashMin(image))
        => \A p, q \in DOMAIN parts : p # q => CellsOf(parts[p]) \cap CellsOf(parts[q]) = {}

\* A file that was flashed and verified is found again in the NOR, and the HEX
\* file that is written of it holds the same segments and the same entry, unless
\* it has more segments than the reader of the header takes: the builder does not
\* check that.
VerifiedBoots ==
  Verified(hexFile) /\ HeaderRead(hexFile) =>
    LET back == ReadBack(hexFile)
        again == Encode(back)
    IN  /\ back.segments = Segments(hexFile)
        /\ Read(again).ok
        /\ Segments(again) = back.segments /\ Read(again).entry = back.entry
=============================================================================
