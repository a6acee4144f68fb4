--------------------------- MODULE MCGreedyPlanner --------------------------
(***************************************************************************)
(* Four buffers, empty ones and a refused negative size among them.  An    *)
(* offline buffer at offset 1 leaves a gap in front of it that is too      *)
(* small, one at 5 a gap behind that fits; four stacked buffers pass       *)
(* IntMax.                                                                 *)
(***************************************************************************)
EXTENDS GreedyPlanner

MCSizes == {-1, 0, 2}
MCTimes == 0..1
MCOffsets == {1, 5}
=============================================================================
