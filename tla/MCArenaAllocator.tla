-------------------------- MODULE MCArenaAllocator --------------------------
(***************************************************************************)
(* A 12-byte arena that starts at an odd address, so that alignment 4      *)
(* leaves padding at both ends, with a 2-byte allocator object in its      *)
(* tail.                                                                   *)
(***************************************************************************)
EXTENDS ArenaAllocator

MCSizes == {0, 3}
MCAlignments == {1, 4}
=============================================================================
