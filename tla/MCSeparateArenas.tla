-------------------------- MODULE MCSeparateArenas --------------------------
(***************************************************************************)
(* As Create() leaves them when arenas are aligned to 4: the tail of the   *)
(* persistent arena and the head of the other are aligned, their other     *)
(* ends are not.                                                           *)
(***************************************************************************)
EXTENDS SeparateArenas

MCSelfSizes == <<2, 2>>
MCSizes == {0, 3}
MCAlignments == {1, 4}
=============================================================================
