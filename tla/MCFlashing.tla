------------------------------ MODULE MCFlashing ------------------------------
(***************************************************************************)
(* Flashing with addresses divided by 512: a sector has eight cells, a     *)
(* chunk sixteen; er64k erases four sectors.                               *)
(***************************************************************************)
EXTENDS Flashing

Sram(len) == [sram |-> TRUE, off |-> 0, len |-> len, ff |-> {}]
Window(off, len, ff) == [sram |-> FALSE, off |-> off, len |-> len, ff |-> ff]

\* Two SRAM parts that share a sector, below a part in the flash window that
\* needs er64k and one sector more, with a blank chunk in it.
LowImage == <<Window(64, 37, {1}), Sram(6), Sram(13)>>

\* SRAM parts that do not fit below the window part follow it in its last
\* sector.
HighImage == <<Window(24, 21, {}), Sram(20)>>

Fitting == {LowImage, HighImage}

\* Three SRAM segments, the second of which does not start on a sector and
\* whose last chunk is longer than a sector.
SharingImage == <<Sram(2), Sram(9), Sram(2)>>

Sharing == {SharingImage}
=============================================================================
