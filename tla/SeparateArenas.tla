--------------------------- MODULE SeparateArenas ---------------------------
(***************************************************************************)
(* PersistentArenaBufferAllocator and NonPersistentArenaBufferAllocator:   *)
(* persistent buffers grow down in an arena of their own, and the other    *)
(* arena has the resizable buffer (later the overlay) at its head and a    *)
(* chain of temporaries above it.  As in ArenaAllocator, addresses are     *)
(* naturals and a call the code refuses is a stuttering step; section,     *)
(* persistent, chain and granted record what the callers hold.             *)
(***************************************************************************)
EXTENDS MemoryHelpers, Sequences, FiniteSets

CONSTANTS
  PersistentHead, PersistentTail,  \* buffer_head_ and buffer_tail_ of the persistent arena
  BufferHead, BufferTail,          \* and of the other one
  SelfSizes,       \* sizeof the two allocators, which Create() puts in the persistent arena
  SelfAlign,
  Sizes, Alignments,               \* what callers ask for
  MaxTemps         \* bound: temporaries in one chain

VARIABLES
  tailTemp,        \* tail_temp_ of the persistent arena
  headTemp, nextTemp, checkSum, count, resizableBufferAllocated,
  persistent, section, chain,
  granted          \* resizable buffers granted and not given back

vars == <<tailTemp, headTemp, nextTemp, checkSum, count, resizableBufferAllocated,
          persistent, section, chain, granted>>

persistentVars == <<tailTemp, persistent>>

\* Where Create() puts the two allocator objects.
PersistentSelf == AlignPointerDown(PersistentTail - SelfSizes[1], SelfAlign)
NonPersistentSelf == AlignPointerDown(PersistentSelf - SelfSizes[2], SelfAlign)

ASSUME ArenasAssumption ==
  /\ PersistentHead \in Nat /\ PersistentTail \in Nat
  /\ BufferHead \in Nat /\ BufferTail \in Nat /\ BufferHead <= BufferTail
  /\ PersistentTail <= BufferHead \/ BufferTail <= PersistentHead
  /\ SelfSizes \in [1..2 -> Nat] /\ SelfAlign \in Nat \ {0}
  /\ SelfSizes[1] <= PersistentTail /\ SelfSizes[2] <= PersistentSelf
  /\ NonPersistentSelf >= PersistentHead
  /\ Sizes \subseteq Nat /\ Alignments \subseteq Nat \ {0}

Live == {i \in DOMAIN chain : ~chain[i].freed}

Init ==
  /\ tailTemp = NonPersistentSelf
  /\ headTemp = BufferHead /\ nextTemp = BufferHead
  /\ checkSum = {} /\ count = 0
  /\ resizableBufferAllocated = FALSE
  /\ persistent = {Region(PersistentSelf, SelfSizes[1]), Region(NonPersistentSelf, SelfSizes[2])}
  /\ section = Region(BufferHead, 0)
  /\ chain = <<>>
  /\ granted = 0

-----------------------------------------------------------------------------
AllocatePersistentBuffer(size, align) ==
  LET aligned == AlignPointerDown(tailTemp - size, align) IN
  /\ size <= tailTemp - PersistentHead
  /\ aligned >= PersistentHead
  /\ tailTemp' = aligned
  /\ persistent' = persistent \union {Region(aligned, size)}
  /\ UNCHANGED <<headTemp, nextTemp, checkSum, count, resizableBufferAllocated,
                 section, chain, granted>>

\* A slip in the definition below: the size is compared before the pointer is aligned.
AllocateTempBeforeAligning(size, align) ==
  LET aligned == AlignPointerUp(nextTemp, align) IN
  /\ size <= BufferTail - nextTemp
  /\ nextTemp' = aligned + size
  /\ checkSum' = Xor(checkSum, aligned)
  /\ count' = count + 1
  /\ chain' = Append(chain, [start |-> aligned, size |-> size, freed |-> FALSE])
  /\ UNCHANGED persistentVars
  /\ UNCHANGED <<headTemp, resizableBufferAllocated, section, granted>>

AllocateTemp(size, align) ==
  LET aligned == AlignPointerUp(nextTemp, align) IN
  /\ aligned <= BufferTail
  /\ size <= BufferTail - aligned
  /\ nextTemp' = aligned + size
  /\ checkSum' = Xor(checkSum, aligned)
  /\ count' = count + 1
  /\ chain' = Append(chain, [start |-> aligned, size |-> size, freed |-> FALSE])
  /\ UNCHANGED persistentVars
  /\ UNCHANGED <<headTemp, resizableBufferAllocated, section, granted>>

DeallocateTemp(i) ==
  /\ checkSum' = Xor(checkSum, chain[i].start)
  /\ count' = count - 1
  /\ chain' = [chain EXCEPT ![i].freed = TRUE]
  /\ UNCHANGED persistentVars
  /\ UNCHANGED <<headTemp, nextTemp, resizableBufferAllocated, section, granted>>

IsAllTempDeallocated == count = 0 /\ checkSum = {}

ResetTempAllocations ==
  /\ IsAllTempDeallocated
  /\ nextTemp' = headTemp
  /\ chain' = <<>>
  /\ UNCHANGED persistentVars
  /\ UNCHANGED <<headTemp, checkSum, count, resizableBufferAllocated, section, granted>>

\* The body ResizeBuffer shares with the three calls that go through it.
SetSection(buf, size, align) ==
  /\ buf = AlignPointerUp(BufferHead, align)
  /\ headTemp = nextTemp
  /\ buf <= BufferTail
  /\ size <= BufferTail - buf
  /\ headTemp' = buf + size
  /\ nextTemp' = buf + size
  /\ section' = Region(buf, size)
  /\ UNCHANGED persistentVars
  /\ UNCHANGED <<checkSum, count, chain>>

\* A resize to nothing gives the bytes back, but not the right to another buffer.
ResizeBuffer(size, align) ==
  /\ granted > 0
  /\ SetSection(section.start, size, align)
  /\ UNCHANGED <<resizableBufferAllocated, granted>>

AllocateResizableBuffer(size, align) ==
  /\ ~resizableBufferAllocated
  /\ SetSection(AlignPointerUp(BufferHead, align), size, align)
  /\ resizableBufferAllocated' = TRUE
  /\ granted' = granted + 1

DeallocateResizableBuffer ==
  /\ granted > 0
  /\ SetSection(section.start, 0, 1)
  /\ resizableBufferAllocated' = FALSE
  /\ granted' = granted - 1

ReserveNonPersistentOverlayMemory(size, align) ==
  /\ SetSection(AlignPointerUp(BufferHead, align), size, align)
  /\ UNCHANGED <<resizableBufferAllocated, granted>>

Next ==
  \/ \E size \in Sizes, align \in Alignments :
       \/ AllocatePersistentBuffer(size, align)
       \/ Len(chain) < MaxTemps /\ AllocateTemp(size, align)
       \/ ResizeBuffer(size, align)
       \/ AllocateResizableBuffer(size, align)
       \/ ReserveNonPersistentOverlayMemory(size, align)
  \/ \E i \in Live : DeallocateTemp(i)
  \/ ResetTempAllocations
  \/ DeallocateResizableBuffer

Spec == Init /\ [][Next]_vars

-----------------------------------------------------------------------------
\* "Only supports one resizable buffer" (non_persistent_arena_buffer_allocator.cc:87): no
\* caller is granted one while another has not given its own back, whatever resizes, failed
\* deallocations and reservations of the overlay fall in between.
OneResizable == granted <= 1

Within(head, tail) ==
  {r \in [start : head..tail, size : 0..(tail - head)] : r.start + r.size <= tail}

Promise == INSTANCE ArenaPromise
  WITH Regions <- Within(PersistentHead, PersistentTail) \union Within(BufferHead, BufferTail)

\* The two allocators together keep the contract that the single arena keeps: MicroAllocator
\* and the kernels cannot tell which layout Create() chose.
KeepsPromise == Promise!PromiseSpec
=============================================================================
