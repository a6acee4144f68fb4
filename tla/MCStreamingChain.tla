------------------------- MODULE MCStreamingChain -------------------------
(***************************************************************************)
(* StreamingChain for chains of up to three layers, and for the five-layer *)
(* chain whose last layer is known by its number.                          *)
(***************************************************************************)
EXTENDS StreamingChain

Layered(slots, cycles, hasValid) ==
  {[slots |-> s, rows |-> 1, depth |-> 1, cyclesMax |-> c, hasValid |-> v] :
     s \in slots, c \in cycles, v \in hasValid}

MCModels ==
  {<<l>> : l \in Layered({1, 3}, 1..3, BOOLEAN)}
  \union Layered(1..3, 1..3, BOOLEAN) \X Layered({2}, {1, 2, 3}, {FALSE})
  \union Layered({2, 13}, {0}, {FALSE}) \X Layered({2}, {0}, {FALSE})
  \union Layered({2}, {2}, {FALSE}) \X Layered({3}, 1..2, BOOLEAN) \X Layered({2}, {2}, {FALSE})

\* All periods are left to Prepare, and the last layer is to have period 1.
FiveLayers == {[i \in 1..5 |->
  [slots |-> 2, rows |-> IF i = 5 THEN 2 ELSE 1, depth |-> 96, cyclesMax |-> 0, hasValid |-> FALSE]]}
=============================================================================
