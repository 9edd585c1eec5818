------------------------------- MODULE MCFlash -------------------------------
(***************************************************************************)
(* The four parts of flashing and of the flash memory on small instances:  *)
(* "part" says which of them a behaviour is about; the others stay as they *)
(* are.                                                                    *)
(*                                                                         *)
(* Flashing has its addresses divided by 512: a sector has eight cells, a  *)
(* chunk sixteen; er64k erases four sectors.                               *)
(***************************************************************************)
EXTENDS HexFiles, FlashSession, FlashState

CONSTANTS f1, f2, a, b, c

VARIABLE part

Sram(len) == [sram |-> TRUE, off |-> 0, len |-> len, ff |-> {}]
Window(off, len, ff) == [sram |-> FALSE, off |-> off, len |-> len, ff |-> ff]

\* Two SRAM parts that share a sector, below a part in the flash window that
\* needs er64k and one sector more, with a blank chunk in it.
LowImage == <<Window(64, 37, {1}), Sram(6), Sram(13)>>

\* SRAM parts that do not fit below the window part follow it in its last
\* sector.
HighImage == <<Window(24, 21, {}), Sram(20)>>

Fitting == {LowImage, HighImage}

\* What a file may hold: records that overlap, that set an address twice, that
\* reach the end of a 2^16 block, with each kind of base, and other lines.
TheLines ==
  {DataLine(6, <<"x", "y">>), DataLine(7, <<"y">>), DataLine(14, <<"x", "x", "y", "y">>),
   DataLine(0, <<"x", "x", "x", "y", "x", "y">>),
   BaseLine(0), BaseLine(1), BaseLine(16), StartLine(3), EndLine,
   Line("data", 2, <<"y">>, FALSE), Line("comment", 0, <<>>, TRUE),
   Line("text", 0, <<>>, TRUE), Line("unknown", 0, <<>>, TRUE)}

TheCells == {a, b, c}

\* Two sectors, and the whole NOR.
TheSectors == {{a, b}, {c}, TheCells}

\* Two programs that run from the NOR.
InNorImages == (f1 :> {a}) @@ (f2 :> {b})

FlashPartsInit ==
  /\ part \in {"flashing", "files", "session", "state"}
  /\ FlashInit /\ (part # "flashing" => target = "rom")
  /\ HexInit
  /\ LineInit /\ (part # "session" => ~chip.listens)
  /\ Init

FlashPartsNext ==
  \/ /\ part = "flashing" /\ FlashNext
     /\ UNCHANGED <<hexFile, lineVars, vars, part>>
  \/ /\ part = "files" /\ HexNext
     /\ UNCHANGED <<flashVars, lineVars, vars, part>>
  \/ /\ part = "session" /\ LineNext
     /\ UNCHANGED <<flashVars, hexFile, vars, part>>
  \/ /\ part = "state" /\ Next
     /\ UNCHANGED <<flashVars, hexFile, lineVars, part>>

FlashPartsSpec ==
  FlashPartsInit /\ [][FlashPartsNext]_<<flashVars, hexFile, lineVars, vars, part>>
=============================================================================
