----------------------------- MODULE MCFlashState -----------------------------
(* FlashState on small instances. *)
EXTENDS FlashState, TLC

CONSTANTS f1, f2, a, b, c

TheCells == {a, b, c}

\* Two sectors, and the whole NOR.
TheSectors == {{a, b}, {c}, TheCells}

\* Two programs that run from the NOR.
InNorImages == (f1 :> {a}) @@ (f2 :> {b})

\* Two programs that run from SRAM, as the images under firmware/ do.
InSramImages == (f1 :> {}) @@ (f2 :> {})
=============================================================================
