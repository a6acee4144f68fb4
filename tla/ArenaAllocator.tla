--------------------------- MODULE ArenaAllocator ---------------------------
(***************************************************************************)
(* SingleArenaBufferAllocator: one arena, a head section that grows up     *)
(* from buffer_head_, a chain of temporaries above it, and persistent      *)
(* buffers that grow down from buffer_tail_.  Addresses are naturals.  A   *)
(* call the code refuses (it returns nullptr or kTfLiteError and writes    *)
(* nothing) is a stuttering step.                                          *)
(*                                                                         *)
(* head, tail, temp, checkSum and count are the class's fields.  section,  *)
(* persistent and chain record what its callers hold.                      *)
(***************************************************************************)
EXTENDS MemoryHelpers, Sequences, FiniteSets

CONSTANTS
  BufferHead,      \* buffer_head_, an address
  BufferSize,      \* buffer_tail_ - buffer_head_
  SelfSize,        \* sizeof(SingleArenaBufferAllocator): Create() puts it in the tail
  SelfAlign,
  Sizes,           \* byte counts callers ask for
  Alignments,      \* alignments callers ask for
  MaxTemps         \* bound: temporaries in one chain

VARIABLES head, tail, temp, checkSum, count, section, persistent, chain

vars == <<head, tail, temp, checkSum, count, section, persistent, chain>>

BufferTail == BufferHead + BufferSize

ASSUME ArenaAssumption ==
  /\ BufferHead \in Nat /\ BufferSize \in Nat
  /\ SelfSize \in Nat /\ SelfAlign \in Nat \ {0}
  /\ Sizes \subseteq Nat /\ Alignments \subseteq Nat \ {0}
  /\ MaxTemps \in Nat
  /\ SelfSize <= BufferSize
  /\ AlignPointerDown(BufferTail - SelfSize, SelfAlign) >= BufferHead

Live == {i \in DOMAIN chain : ~chain[i].freed}

Init ==
  /\ head = BufferHead
  /\ temp = BufferHead
  /\ tail = AlignPointerDown(BufferTail - SelfSize, SelfAlign)
  /\ checkSum = {}
  /\ count = 0
  /\ section = Region(BufferHead, 0)
  /\ persistent = {Region(tail, SelfSize)}
  /\ chain = <<>>

-----------------------------------------------------------------------------
SectionFits(buf, size, align) ==
  /\ head = temp
  /\ buf = AlignPointerUp(BufferHead, align)
  /\ buf <= tail
  /\ size <= tail - buf

ResizeBuffer(buf, size, align) ==
  /\ SectionFits(buf, size, align)
  /\ head' = buf + size
  /\ temp' = buf + size
  /\ section' = Region(buf, size)
  /\ UNCHANGED <<tail, checkSum, count, persistent, chain>>

AllocateResizableBuffer(size, align) ==
  ResizeBuffer(AlignPointerUp(BufferHead, align), size, align)

ReserveNonPersistentOverlayMemory(size, align) ==
  ResizeBuffer(AlignPointerUp(BufferHead, align), size, align)

\* The caller hands back the address it was given; with alignment 1 the code expects
\* exactly buffer_head_ and refuses anything else.
DeallocateResizableBuffer == ResizeBuffer(section.start, 0, 1)

\* A slip in the definition below: no test of the space left.
AllocatePersistentUnchecked(size, align) ==
  LET aligned == AlignPointerDown(tail - size, align) IN
  /\ tail' = aligned
  /\ persistent' = persistent \union {Region(aligned, size)}
  /\ UNCHANGED <<head, temp, checkSum, count, section, chain>>

PersistentFits(size, align) ==
  /\ size <= tail - temp
  /\ AlignPointerDown(tail - size, align) >= temp

AllocatePersistentBuffer(size, align) ==
  LET aligned == AlignPointerDown(tail - size, align) IN
  /\ PersistentFits(size, align)
  /\ tail' = aligned
  /\ persistent' = persistent \union {Region(aligned, size)}
  /\ UNCHANGED <<head, temp, checkSum, count, section, chain>>

TempFits(size, align) ==
  /\ AlignPointerUp(temp, align) <= tail
  /\ size <= tail - AlignPointerUp(temp, align)

AllocateTemp(size, align) ==
  LET aligned == AlignPointerUp(temp, align) IN
  /\ TempFits(size, align)
  /\ temp' = aligned + size
  /\ checkSum' = Xor(checkSum, aligned)
  /\ count' = count + 1
  /\ chain' = Append(chain, [start |-> aligned, size |-> size, freed |-> FALSE])
  /\ UNCHANGED <<head, tail, section, persistent>>

DeallocateTemp(i) ==
  /\ checkSum' = Xor(checkSum, chain[i].start)
  /\ count' = count - 1
  /\ chain' = [chain EXCEPT ![i].freed = TRUE]
  /\ UNCHANGED <<head, tail, temp, section, persistent>>

\* A slip in the definition below: the XOR word alone, which two temporaries at one
\* address (of size 0) cancel.
AuditWordOnly == checkSum = {}

IsAllTempDeallocated == count = 0 /\ checkSum = {}

ResetTempAllocations ==
  /\ IsAllTempDeallocated
  /\ temp' = head
  /\ chain' = <<>>
  /\ UNCHANGED <<head, tail, checkSum, count, section, persistent>>

\* A slip in the definition below: the temporaries above the head are not counted.
HeadBytesOnly == head - BufferHead

GetNonPersistentUsedBytes ==
  IF head >= temp THEN head - BufferHead ELSE temp - BufferHead

GetPersistentUsedBytes == BufferTail - tail

\* A slip in the definition below: the padding of the two ends is not taken off.
AvailableUnaligned(align) == IF tail < temp THEN 0 ELSE tail - temp

GetAvailableMemory(align) ==
  LET alignedTemp == AlignPointerUp(temp, align)
      alignedTail == AlignPointerDown(tail, align)
  IN  IF alignedTail < alignedTemp THEN 0 ELSE alignedTail - alignedTemp

-----------------------------------------------------------------------------
Next ==
  \/ \E size \in Sizes, align \in Alignments :
       \/ AllocateResizableBuffer(size, align)
       \/ ReserveNonPersistentOverlayMemory(size, align)
       \/ ResizeBuffer(section.start, size, align)
       \/ AllocatePersistentBuffer(size, align)
       \/ Len(chain) < MaxTemps /\ AllocateTemp(size, align)
  \/ DeallocateResizableBuffer
  \/ \E i \in Live : DeallocateTemp(i)
  \/ ResetTempAllocations

Spec == Init /\ [][Next]_vars

-----------------------------------------------------------------------------
TempRecord == [start : Nat, size : Nat, freed : BOOLEAN]

TypeOK ==
  /\ head \in Nat /\ tail \in Nat /\ temp \in Nat
  /\ checkSum \in SUBSET Nat
  /\ count \in Int
  /\ section \in [start : Nat, size : Nat]
  /\ persistent \in SUBSET [start : Nat, size : Nat]
  /\ chain \in Seq(TempRecord)

Promise == INSTANCE ArenaPromise
  WITH Regions <- [start : BufferHead..BufferTail, size : 0..BufferSize]

Apart(r, s) == Promise!Apart(r, s)

\* Nobody's bytes are anybody else's: persistent buffers, live temporaries and the head
\* section never share a byte, through every order of allocation, resizing and reclaiming
\* (the moves of head_, temp_ and tail_ in ResizeBuffer, AllocateTemp,
\* AllocatePersistentBuffer and ResetTempAllocations).
Exclusive ==
  /\ \A p, q \in persistent : p = q \/ Apart(p, q)
  /\ \A p \in persistent : Apart(p, section)
  /\ \A i \in Live :
       /\ Apart(chain[i], section)
       /\ \A p \in persistent : Apart(chain[i], p)
       /\ \A j \in Live : i = j \/ Apart(chain[i], chain[j])

\* Everything handed out lies inside the arena, and the two byte counters an application
\* sizes its arena with (GetNonPersistentUsedBytes, GetPersistentUsedBytes) cover it:
\* the used parts fit in the buffer and no region lies outside them.
UsedBytesCover ==
  /\ GetNonPersistentUsedBytes + GetPersistentUsedBytes <= BufferSize
  /\ \A p \in persistent :
       p.size = 0 \/ (p.start >= BufferTail - GetPersistentUsedBytes /\ p.start + p.size <= BufferTail)
  /\ \A i \in Live :
       chain[i].size = 0 \/ chain[i].start + chain[i].size <= BufferHead + GetNonPersistentUsedBytes
  /\ section.start + section.size <= BufferHead + GetNonPersistentUsedBytes

\* GetAvailableMemory is a promise: the bytes it reports can be had, as a temporary or as a
\* persistent buffer of that alignment.  MicroAllocator::CommitStaticMemoryPlan asks for
\* exactly that many bytes as the planner's scratch memory (micro_allocator.cc:1216-1220).
AvailableIsGrantable == \A align \in Alignments :
  LET n == GetAvailableMemory(align) IN
  n > 0 => /\ AlignPointerUp(temp, align) <= tail /\ n <= tail - AlignPointerUp(temp, align)
           /\ n <= tail - temp /\ AlignPointerDown(tail - n, align) >= temp

\* The audit is exact for callers that free what they were given: the count and the
\* XOR word are clear exactly when every temporary of the chain was freed, so
\* ResetTempAllocations neither reclaims memory in use nor refuses a clean chain.
AuditExact == IsAllTempDeallocated <=> Live = {}

\* The allocator implements the contract: every step grants a region nobody holds, frees
\* a temporary, reclaims a fully freed chain or replaces the head section.
KeepsPromise == Promise!PromiseSpec
=============================================================================
