----------------------------- MODULE MCSfntWrite -----------------------------
(* A small instance of SfntWrite for TLC: tags are numbers, 2 is head. *)
EXTENDS SfntWrite

\* Filled in the order 3, 1, 2 and written in the order 2, 3, 1.
MCFillSeq == [t \in Tags |-> IF t = 3 THEN 0 ELSE 1]
MCWriteSeq == [t \in Tags |-> CASE t = 2 -> 0 [] t = 3 -> 1 [] OTHER -> 2]
=============================================================================
