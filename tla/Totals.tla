------------------------------- MODULE Totals -------------------------------
(***************************************************************************)
(* Sums over the faces, the corners and the triangles that a loop runs     *)
(* through, added up in their order.                                       *)
(***************************************************************************)
EXTENDS Integers, Sequences

Total(s) ==
  LET upTo[k \in 0..Len(s)] == IF k = 0 THEN 0 ELSE upTo[k - 1] + s[k]
  IN upTo[Len(s)]
=============================================================================
