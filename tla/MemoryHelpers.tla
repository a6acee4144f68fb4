---------------------------- MODULE MemoryHelpers ----------------------------
(***************************************************************************)
(* Pointer arithmetic of memory_helpers.cc, and what the two kinds of      *)
(* arena allocator have in common.  Addresses are naturals.                *)
(***************************************************************************)
EXTENDS Integers

\* A slip in the definition below: truncation instead of rounding up.
AlignUpTruncated(p, a) == (p \div a) * a

AlignPointerUp(p, a) == ((p + (a - 1)) \div a) * a
AlignPointerDown(p, a) == (p \div a) * a

Region(start, size) == [start |-> start, size |-> size]

\* XOR of a pointer into the audit word.  The word is the set of addresses XORed an odd
\* number of times: two words that differ as sets may still collide as integers.
Xor(word, p) == (word \ {p}) \union ({p} \ word)
=============================================================================
