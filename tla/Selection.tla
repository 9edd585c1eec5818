------------------------------ MODULE Selection ------------------------------
(* Picking the entries of a list: what SelectSeq does, as a recursive function, *)
(* because an operator that takes an operator is out of the prover's reach.    *)
EXTENDS Integers, Sequences

\* The entries of the list that are among "those", in their order.
Selected(list, those) ==
  LET chosen[k \in 0 .. Len(list)] ==
        IF k = 0 THEN <<>>
        ELSE IF list[k] \in those THEN Append(chosen[k - 1], list[k]) ELSE chosen[k - 1]
  IN  chosen[Len(list)]
=============================================================================
