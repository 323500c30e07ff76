----------------------------- MODULE MCClientBatch -----------------------------
(* Two variables, each with two values: the first is a read at server a,   *)
(* then a read at b; the second a write at b, then a write at a.           *)
EXTENDS ClientBatch

CONSTANTS a, b, c1, c2

MCCommand == {c1, c2}
MCServerOf ==
  [v \in MCCommand \X {1, 2} |->
     IF v \in {<<c1, 1>>, <<c2, 2>>} THEN a ELSE b]
MCReads == {<<c1, 1>>, <<c1, 2>>}
MCOffsets == {0, 1, 3}
MCCall == 1..2
===============================================================================
