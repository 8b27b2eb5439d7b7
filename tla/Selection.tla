------------------------------ MODULE Selection ------------------------------
(***************************************************************************)
(* What is left of a list after a loop over it that erases some elements.  *)
(***************************************************************************)
EXTENDS Integers, Sequences

\* The elements of q that are in S, in their order: kept[i] are those among the
\* first i.
Keep(q, S) ==
  LET kept[i \in 1 .. Len(q)] ==
        LET before == IF i = 1 THEN << >> ELSE kept[i - 1]
        IN  IF q[i] \in S THEN Append(before, q[i]) ELSE before
  IN  IF q = << >> THEN << >> ELSE kept[Len(q)]
=============================================================================
