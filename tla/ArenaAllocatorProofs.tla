------------------------ MODULE ArenaAllocatorProofs ------------------------
(***************************************************************************)
(* Theorems about ArenaAllocator, for every arena, size and alignment.     *)
(*                                                                         *)
(* The argument: head_, temp_ and tail_ stay in order, the section ends at *)
(* head_, every temporary that occupies a byte lies in [head_, temp_] in   *)
(* chain order, and every persistent buffer lies above tail_.  Exclusive   *)
(* is not inductive by itself: it says nothing of where the next grant     *)
(* will start.                                                             *)
(***************************************************************************)
EXTENDS ArenaAllocator, FiniteSetTheorems, TLAPS

\* Rounding a pointer up never moves it down.
LEMMA AlignUpBound ==
  ASSUME NEW p \in Nat, NEW a \in Nat \ {0}
  PROVE  AlignPointerUp(p, a) \in Nat /\ AlignPointerUp(p, a) >= p
<1>1. p + (a - 1) \in Nat
  OBVIOUS
<1>2. p + (a - 1) = a * ((p + (a - 1)) \div a) + ((p + (a - 1)) % a)
  BY <1>1
<1>3. QED
  BY <1>1, <1>2 DEF AlignPointerUp

\* Rounding a pointer down never moves it up, nor below zero.
LEMMA AlignDownBound ==
  ASSUME NEW p \in Nat, NEW a \in Nat \ {0}
  PROVE  AlignPointerDown(p, a) \in Nat /\ AlignPointerDown(p, a) <= p
BY DEF AlignPointerDown

\* A multiple of the alignment that is not above a pointer is not above the pointer
\* rounded down either.
LEMMA AlignDownMonotone ==
  ASSUME NEW k \in Int, NEW q \in Nat, NEW a \in Nat \ {0}, k * a <= q
  PROVE  k * a <= AlignPointerDown(q, a)
<1> DEFINE d == q \div a
<1>1. d \in Int /\ q = a * d + (q % a) /\ q % a \in 0..(a - 1)
  OBVIOUS
<1>2. AlignPointerDown(q, a) = d * a
  BY DEF AlignPointerDown
<1> HIDE DEF d
<1>3. q < (d + 1) * a
  BY <1>1
<1>4. k < d + 1
  <2> SUFFICES ASSUME k >= d + 1 PROVE FALSE
    BY <1>1
  <2>1. k * a >= (d + 1) * a
    BY <1>1
  <2>2. QED
    BY <2>1, <1>1, <1>3
<1>5. k <= d
  BY <1>4, <1>1
<1>6. QED
  BY <1>1, <1>2, <1>5

\* The pointers that rounding up and rounding down return are multiples of the alignment.
LEMMA AlignedMultiples ==
  ASSUME NEW p \in Nat, NEW a \in Nat \ {0}
  PROVE  /\ \E k \in Int : AlignPointerUp(p, a) = k * a
         /\ \E k \in Int : AlignPointerDown(p, a) = k * a
BY DEF AlignPointerUp, AlignPointerDown

LEMMA ChainTypes ==
  ASSUME TypeOK
  PROVE  /\ Len(chain) \in Nat /\ DOMAIN chain = 1..Len(chain)
         /\ chain \in [1..Len(chain) -> TempRecord]
         /\ \A i \in DOMAIN chain : /\ chain[i] \in TempRecord
                                   /\ chain[i].start \in Nat
                                   /\ chain[i].size \in Nat
<1>1. chain \in Seq(TempRecord)
  BY DEF TypeOK
<1>2. /\ Len(chain) \in Nat /\ DOMAIN chain = 1..Len(chain)
      /\ chain \in [1..Len(chain) -> TempRecord]
  BY <1>1
<1>3. \A i \in DOMAIN chain : chain[i] \in TempRecord
  BY <1>2
<1>4. \A r \in TempRecord : r.start \in Nat /\ r.size \in Nat
  BY DEF TempRecord
<1>5. QED
  BY <1>2, <1>3, <1>4

-----------------------------------------------------------------------------
\* The parts of the inductive invariant.

Ordered ==
  /\ BufferHead <= section.start
  /\ section.start + section.size = head
  /\ head <= temp
  /\ temp <= tail
  /\ tail <= BufferTail

PersistentAbove == \A p \in persistent : p.start >= tail /\ p.start + p.size <= BufferTail

PersistentApart == \A p, q \in persistent : p = q \/ Apart(p, q)

ChainInside == \A i \in DOMAIN chain :
  \/ chain[i].size = 0
  \/ chain[i].start >= head /\ chain[i].start + chain[i].size <= temp

ChainApart == \A i, j \in DOMAIN chain :
  i < j => \/ chain[i].size = 0
           \/ chain[j].size = 0
           \/ chain[i].start + chain[i].size <= chain[j].start

CountIsLive == IsFiniteSet(Live) /\ count = Cardinality(Live)

Layout == Ordered /\ PersistentAbove /\ PersistentApart /\ ChainInside /\ ChainApart

IInv == TypeOK /\ Layout /\ CountIsLive

LEMMA InitInvariant == Init => IInv
<1> SUFFICES ASSUME Init PROVE IInv
  OBVIOUS
<1> USE ArenaAssumption DEF ArenaAssumption, Init, BufferTail, Region
<1>1. /\ tail \in Nat
      /\ tail <= BufferTail - SelfSize
      /\ tail >= BufferHead
  <2>1. BufferTail - SelfSize \in Nat
    OBVIOUS
  <2>2. QED
    BY <2>1, AlignDownBound
<1>2. TypeOK
  BY <1>1 DEF TypeOK
<1>3. Layout
  BY <1>1 DEF Layout, Ordered, PersistentAbove, PersistentApart, ChainInside, ChainApart
<1>4. CountIsLive
  <2>1. Live = {}
    BY DEF Live
  <2>2. QED
    BY <2>1, FS_EmptySet DEF CountIsLive
<1>5. QED
  BY <1>2, <1>3, <1>4 DEF IInv

-----------------------------------------------------------------------------
\* What one successful call does to the layout, action by action.

LEMMA ResizeKeepsInvariant ==
  ASSUME IInv, NEW buf \in Nat, NEW size \in Nat, NEW align \in Nat \ {0},
         ResizeBuffer(buf, size, align)
  PROVE  IInv'
<1>1. /\ head = temp /\ buf = AlignPointerUp(BufferHead, align) /\ buf <= tail /\ size <= tail - buf
      /\ head' = buf + size /\ temp' = buf + size /\ section' = [start |-> buf, size |-> size]
      /\ UNCHANGED <<tail, checkSum, count, persistent, chain>>
  BY DEF ResizeBuffer, SectionFits, Region
<1>2. TypeOK /\ Layout /\ CountIsLive
  BY DEF IInv
<1>3. buf >= BufferHead
  BY <1>1, ArenaAssumption, AlignUpBound DEF ArenaAssumption
<1>4. tail \in Nat /\ head \in Nat /\ BufferHead \in Nat /\ BufferTail \in Nat /\ tail <= BufferTail
  BY <1>2, ArenaAssumption DEF ArenaAssumption, TypeOK, Layout, Ordered, BufferTail
<1>5. buf + size \in Nat /\ buf + size <= tail
  BY <1>1, <1>4
<1>6. TypeOK'
  <2>1. head' \in Nat /\ temp' \in Nat /\ section' \in [start : Nat, size : Nat]
    BY <1>1, <1>5
  <2>2. QED
    BY <2>1, <1>1, <1>2 DEF TypeOK
<1>7. Ordered'
  <2>1. section'.start = buf /\ section'.size = size /\ BufferTail' = BufferTail
    BY <1>1 DEF BufferTail
  <2>2. QED
    BY <2>1, <1>1, <1>3, <1>4, <1>5 DEF Ordered
<1>8. PersistentAbove' /\ PersistentApart' /\ ChainApart'
  BY <1>1, <1>2 DEF Layout, PersistentAbove, PersistentApart, ChainApart, BufferTail
<1>9. ChainInside'
  \* head = temp leaves no room for a temporary that occupies a byte.
  <2>1. \A i \in DOMAIN chain : chain[i].size = 0
    <3> SUFFICES ASSUME NEW i \in DOMAIN chain PROVE chain[i].size = 0
      OBVIOUS
    <3>1. chain[i].start \in Nat /\ chain[i].size \in Nat
      BY <1>2, ChainTypes
    <3>2. chain[i].size = 0 \/ (chain[i].start >= head /\ chain[i].start + chain[i].size <= head)
      BY <1>1, <1>2 DEF Layout, ChainInside
    <3>3. QED
      BY <3>1, <3>2, <1>4
  <2>2. QED
    BY <1>1, <2>1 DEF ChainInside
<1>10. CountIsLive'
  BY <1>1, <1>2 DEF CountIsLive, Live
<1>11. QED
  BY <1>6, <1>7, <1>8, <1>9, <1>10 DEF Layout, IInv

LEMMA PersistentKeepsInvariant ==
  ASSUME IInv, NEW size \in Nat, NEW align \in Nat \ {0},
         AllocatePersistentBuffer(size, align)
  PROVE  IInv'
<1> USE ArenaAssumption DEF ArenaAssumption, IInv, Region
<1> DEFINE aligned == AlignPointerDown(tail - size, align)
<1>1. /\ tail' = aligned
      /\ persistent' = persistent \union {Region(aligned, size)}
      /\ UNCHANGED <<head, temp, checkSum, count, section, chain>>
      /\ aligned >= temp /\ size <= tail - temp
  BY DEF AllocatePersistentBuffer, PersistentFits
<1>2. tail - size \in Nat
  BY <1>1 DEF TypeOK
<1>3. aligned \in Nat /\ aligned <= tail - size
  BY <1>2, AlignDownBound
<1> HIDE DEF aligned
<1>4. TypeOK'
  BY <1>1, <1>3 DEF TypeOK
<1>5. Ordered'
  BY <1>1, <1>3 DEF TypeOK, Layout, Ordered, BufferTail
<1>6. PersistentAbove' /\ PersistentApart'
  <2>1. \A p \in persistent : p.start \in Nat /\ p.size \in Nat /\ p.start >= tail
    BY DEF TypeOK, Layout, PersistentAbove
  <2>2. \A p \in persistent : Apart(p, Region(aligned, size)) /\ Apart(Region(aligned, size), p)
    BY <2>1, <1>3 DEF TypeOK, Apart, Promise!Apart
  <2>3. PersistentApart'
    BY <1>1, <2>2 DEF Layout, PersistentApart
  <2>4. PersistentAbove'
    BY <1>1, <1>3, <2>1 DEF TypeOK, Layout, Ordered, PersistentAbove, BufferTail
  <2>5. QED
    BY <2>3, <2>4
<1>7. ChainInside' /\ ChainApart' /\ CountIsLive'
  BY <1>1 DEF Layout, ChainInside, ChainApart, CountIsLive, Live
<1>8. QED
  BY <1>4, <1>5, <1>6, <1>7 DEF Layout

LEMMA TempKeepsInvariant ==
  ASSUME IInv, NEW size \in Nat, NEW align \in Nat \ {0}, AllocateTemp(size, align)
  PROVE  IInv'
<1> USE ArenaAssumption DEF ArenaAssumption, IInv
<1> DEFINE aligned == AlignPointerUp(temp, align)
           new == [start |-> aligned, size |-> size, freed |-> FALSE]
<1>1. /\ temp' = aligned + size /\ size <= tail - aligned /\ aligned <= tail
      /\ checkSum' = Xor(checkSum, aligned) /\ count' = count + 1
      /\ chain' = Append(chain, new)
      /\ UNCHANGED <<head, tail, section, persistent>>
  BY DEF AllocateTemp, TempFits
<1>2. aligned \in Nat /\ aligned >= temp
  BY AlignUpBound DEF TypeOK
<1> HIDE DEF aligned
<1>3. new \in TempRecord
  BY <1>2 DEF TempRecord
<1>4. /\ chain' \in Seq(TempRecord)
      /\ DOMAIN chain' = 1..(Len(chain) + 1)
      /\ DOMAIN chain = 1..Len(chain) /\ Len(chain) \in Nat
      /\ \A i \in DOMAIN chain : chain'[i] = chain[i] /\ chain[i] \in TempRecord
      /\ chain'[Len(chain) + 1] = new
  BY <1>1, <1>3 DEF TypeOK
<1>5. TypeOK'
  BY <1>1, <1>2, <1>4 DEF TypeOK, Xor
<1>6. Ordered' /\ PersistentAbove' /\ PersistentApart'
  BY <1>1, <1>2 DEF TypeOK, Layout, Ordered, PersistentAbove, PersistentApart, BufferTail
<1>7. ChainInside'
  <2> SUFFICES ASSUME NEW i \in DOMAIN chain'
               PROVE  \/ chain'[i].size = 0
                      \/ chain'[i].start >= head /\ chain'[i].start + chain'[i].size <= temp'
    BY <1>1 DEF ChainInside
  <2>1. temp \in Nat /\ head \in Nat /\ head <= temp /\ temp <= temp' /\ temp' \in Nat
    BY <1>1, <1>2 DEF TypeOK, Layout, Ordered
  <2>2. CASE i \in DOMAIN chain
    <3>1. chain'[i] = chain[i] /\ chain[i].start \in Nat /\ chain[i].size \in Nat
      BY <2>2, <1>4, ChainTypes
    <3>2. chain[i].size = 0 \/ (chain[i].start >= head /\ chain[i].start + chain[i].size <= temp)
      BY <2>2 DEF Layout, ChainInside
    <3>3. QED
      BY <3>1, <3>2, <2>1
  <2>3. CASE i = Len(chain) + 1
    <3>1. chain'[i].start = aligned /\ chain'[i].size = size
      BY <2>3, <1>4
    <3>2. QED
      BY <3>1, <2>1, <1>1, <1>2
  <2>4. QED
    BY <2>2, <2>3, <1>4
<1>8. ChainApart'
  <2> SUFFICES ASSUME NEW i \in DOMAIN chain', NEW j \in DOMAIN chain', i < j
               PROVE  \/ chain'[i].size = 0
                      \/ chain'[j].size = 0
                      \/ chain'[i].start + chain'[i].size <= chain'[j].start
    BY DEF ChainApart
  <2>1. i \in DOMAIN chain /\ chain'[i] = chain[i] /\ chain[i] \in TempRecord
    BY <1>4
  <2>2. CASE j \in DOMAIN chain
    <3>1. chain'[j] = chain[j]
      BY <2>2, <1>4
    <3>2. QED
      BY <2>1, <2>2, <3>1 DEF Layout, ChainApart
  <2>3. CASE j = Len(chain) + 1
    <3>1. chain[i].size = 0 \/ chain[i].start + chain[i].size <= temp
      BY <2>1 DEF Layout, ChainInside
    <3>2. chain'[j].start = aligned
      BY <2>3, <1>4
    <3>3. temp \in Nat /\ chain[i].start \in Nat /\ chain[i].size \in Nat
      BY <2>1, ChainTypes DEF TypeOK
    <3> HIDE ArenaAssumption DEF ArenaAssumption, IInv
    <3>4. chain[i].size = 0 \/ chain[i].start + chain[i].size <= aligned
      BY <3>1, <3>3, <1>2
    <3>5. QED
      BY <2>1, <3>2, <3>4
  <2>4. QED
    BY <2>2, <2>3, <1>4
<1>9. CountIsLive'
  <2>1. Live' = Live \union {Len(chain) + 1} /\ Len(chain) + 1 \notin Live
    BY <1>4 DEF Live
  <2>2. QED
    BY <2>1, <1>1, FS_AddElement, FS_CardinalityType DEF CountIsLive
<1>10. QED
  BY <1>5, <1>6, <1>7, <1>8, <1>9 DEF Layout

LEMMA FreeKeepsInvariant ==
  ASSUME IInv, NEW i \in Live, DeallocateTemp(i)
  PROVE  IInv'
<1> USE DEF IInv, DeallocateTemp
<1>1. /\ DOMAIN chain' = DOMAIN chain
      /\ \A j \in DOMAIN chain : /\ chain'[j].start = chain[j].start
                                 /\ chain'[j].size = chain[j].size
                                 /\ chain'[j].freed = (chain[j].freed \/ j = i)
      /\ chain' \in Seq(TempRecord)
      /\ i \in DOMAIN chain /\ chain[i].start \in Nat
  <2>1. i \in DOMAIN chain /\ DOMAIN chain = 1..Len(chain) /\ \A j \in DOMAIN chain : chain[j] \in TempRecord
    BY DEF Live, TypeOK
  <2>2. /\ DOMAIN chain' = DOMAIN chain
        /\ \A j \in DOMAIN chain : chain'[j] = IF j = i THEN [chain[i] EXCEPT !.freed = TRUE] ELSE chain[j]
    BY <2>1 DEF TypeOK
  <2>3. chain' \in Seq(TempRecord)
    <3>1. [chain[i] EXCEPT !.freed = TRUE] \in TempRecord
      BY <2>1 DEF TempRecord
    <3>2. chain' \in [1..Len(chain) -> TempRecord]
      BY <3>1, ChainTypes
    <3>3. QED
      BY <3>2, ChainTypes DEF Seq
  <2>4. ASSUME NEW j \in DOMAIN chain
        PROVE  /\ chain'[j].start = chain[j].start
               /\ chain'[j].size = chain[j].size
               /\ chain'[j].freed = (chain[j].freed \/ j = i)
    BY <2>1, <2>2 DEF TempRecord
  <2>5. QED
    BY <2>1, <2>2, <2>3, <2>4 DEF TempRecord
<1>2. TypeOK'
  BY <1>1 DEF TypeOK, Xor
<1>3. Ordered' /\ PersistentAbove' /\ PersistentApart'
  BY DEF Layout, Ordered, PersistentAbove, PersistentApart, BufferTail
<1>4. ChainInside' /\ ChainApart'
  BY <1>1 DEF Layout, ChainInside, ChainApart
<1>5. CountIsLive'
  <2>1. Live' = Live \ {i}
    BY <1>1 DEF Live
  <2>2. QED
    BY <2>1, FS_RemoveElement, FS_CardinalityType DEF CountIsLive
<1>6. QED
  BY <1>2, <1>3, <1>4, <1>5 DEF Layout

\* The audit never passes while a temporary is live, whatever the XOR word says.
LEMMA AuditSound ==
  ASSUME IInv, IsAllTempDeallocated
  PROVE  Live = {}
BY FS_EmptySet DEF IInv, CountIsLive, IsAllTempDeallocated

LEMMA ResetKeepsInvariant ==
  ASSUME IInv, ResetTempAllocations
  PROVE  IInv'
<1> USE DEF IInv, ResetTempAllocations
<1>1. TypeOK' /\ Ordered' /\ PersistentAbove' /\ PersistentApart' /\ ChainInside' /\ ChainApart'
  BY DEF TypeOK, Layout, Ordered, PersistentAbove, PersistentApart, ChainInside, ChainApart, BufferTail
<1>2. Live' = {}
  BY DEF Live
<1>3. CountIsLive'
  BY <1>2, FS_EmptySet DEF CountIsLive, IsAllTempDeallocated
<1>4. QED
  BY <1>1, <1>3 DEF Layout

-----------------------------------------------------------------------------
\* Any call any client makes into the arena, whatever the sizes and alignments; the client of
\* Next is one of them, MicroAllocator is another.
ArenaCall ==
  \/ \E buf, size \in Nat, align \in Nat \ {0} : ResizeBuffer(buf, size, align)
  \/ \E size \in Nat, align \in Nat \ {0} :
       AllocatePersistentBuffer(size, align) \/ AllocateTemp(size, align)
  \/ \E i \in Live : DeallocateTemp(i)
  \/ ResetTempAllocations

LEMMA AllocateResizableIsCall ==
  ASSUME NEW size \in Nat, NEW align \in Nat \ {0},
         \/ AllocateResizableBuffer(size, align)
         \/ ReserveNonPersistentOverlayMemory(size, align)
  PROVE  ArenaCall
<1>1. AlignPointerUp(BufferHead, align) \in Nat
  BY ArenaAssumption, AlignUpBound DEF ArenaAssumption
<1>2. QED
  BY <1>1 DEF AllocateResizableBuffer, ReserveNonPersistentOverlayMemory, ArenaCall

LEMMA SectionResizeIsCall ==
  ASSUME TypeOK,
         \/ DeallocateResizableBuffer
         \/ \E size \in Nat, align \in Nat \ {0} : ResizeBuffer(section.start, size, align)
  PROVE  ArenaCall
<1>1. section.start \in Nat /\ 0 \in Nat /\ 1 \in Nat \ {0}
  BY DEF TypeOK
<1>2. QED
  BY <1>1 DEF DeallocateResizableBuffer, ArenaCall

LEMMA NextIsCall == TypeOK /\ [Next]_vars => ArenaCall \/ UNCHANGED vars
<1> SUFFICES ASSUME TypeOK, Next PROVE ArenaCall
  OBVIOUS
<1>1. Sizes \subseteq Nat /\ Alignments \subseteq Nat \ {0}
  BY ArenaAssumption DEF ArenaAssumption
<1>2. ASSUME NEW size \in Sizes, NEW align \in Alignments,
             \/ AllocateResizableBuffer(size, align)
             \/ ReserveNonPersistentOverlayMemory(size, align)
             \/ ResizeBuffer(section.start, size, align)
             \/ AllocatePersistentBuffer(size, align)
             \/ AllocateTemp(size, align)
      PROVE  ArenaCall
  <2>1. size \in Nat /\ align \in Nat \ {0}
    BY <1>1
  <2>2. CASE AllocatePersistentBuffer(size, align) \/ AllocateTemp(size, align)
    BY <2>1, <2>2 DEF ArenaCall
  <2>3. QED
    BY <1>2, <2>1, <2>2, AllocateResizableIsCall, SectionResizeIsCall
<1>3. QED
  BY <1>2, SectionResizeIsCall DEF Next, ArenaCall

LEMMA CallKeepsInvariant == IInv /\ (ArenaCall \/ UNCHANGED vars) => IInv'
<1> SUFFICES ASSUME IInv, ArenaCall \/ UNCHANGED vars PROVE IInv'
  OBVIOUS
<1>1. ASSUME NEW buf \in Nat, NEW size \in Nat, NEW align \in Nat \ {0}, ResizeBuffer(buf, size, align)
      PROVE  IInv'
  BY <1>1, ResizeKeepsInvariant
<1>2. ASSUME NEW size \in Nat, NEW align \in Nat \ {0}, AllocatePersistentBuffer(size, align)
      PROVE  IInv'
  BY <1>2, PersistentKeepsInvariant
<1>3. ASSUME NEW size \in Nat, NEW align \in Nat \ {0}, AllocateTemp(size, align)
      PROVE  IInv'
  BY <1>3, TempKeepsInvariant
<1>4. ASSUME NEW i \in Live, DeallocateTemp(i)
      PROVE  IInv'
  BY <1>4, FreeKeepsInvariant
<1>5. CASE ResetTempAllocations
  BY <1>5, ResetKeepsInvariant
<1>6. CASE UNCHANGED vars
  BY <1>6 DEF vars, IInv, TypeOK, Layout, Ordered, PersistentAbove, PersistentApart,
              ChainInside, ChainApart, CountIsLive, Live, BufferTail
<1>7. QED
  BY <1>1, <1>2, <1>3, <1>4, <1>5, <1>6 DEF ArenaCall

LEMMA NextInvariant == IInv /\ [Next]_vars => IInv'
BY NextIsCall, CallKeepsInvariant DEF IInv

\* The inductive invariant of the single arena allocator.
THEOREM Invariance == Spec => []IInv
BY InitInvariant, NextInvariant, PTL DEF Spec

\* The fields stay in their types: no pointer of the allocator drops below zero.
THEOREM TypeCorrect == Spec => []TypeOK
<1>1. IInv => TypeOK
  BY DEF IInv
<1>2. QED
  BY <1>1, Invariance, PTL

LEMMA InvariantImpliesExclusive == IInv => Exclusive
<1> SUFFICES ASSUME IInv PROVE Exclusive
  OBVIOUS
<1> USE DEF IInv, Layout
<1>1. \A p \in persistent : p.start \in Nat /\ p.size \in Nat /\ p.start >= tail
  BY DEF TypeOK, PersistentAbove
<1>2. \A i \in DOMAIN chain : chain[i] \in TempRecord
  BY DEF TypeOK
<1>3. Live \subseteq DOMAIN chain /\ DOMAIN chain \subseteq Nat
  BY DEF Live, TypeOK
<1>4. \A p \in persistent : Apart(p, section)
  BY <1>1 DEF TypeOK, Ordered, Apart, Promise!Apart
<1>5. \A i \in Live : Apart(chain[i], section)
  BY <1>2, <1>3 DEF TypeOK, TempRecord, Ordered, ChainInside, Apart, Promise!Apart
<1>6. \A i \in Live : \A p \in persistent : Apart(chain[i], p)
  BY <1>1, <1>2, <1>3 DEF TypeOK, TempRecord, Ordered, ChainInside, Apart, Promise!Apart
<1>7. \A i, j \in Live : i = j \/ Apart(chain[i], chain[j])
  <2> SUFFICES ASSUME NEW i \in Live, NEW j \in Live, i # j PROVE Apart(chain[i], chain[j])
    OBVIOUS
  <2>1. i < j \/ j < i
    BY <1>3
  <2>2. QED
    BY <2>1, <1>3 DEF ChainApart, Apart, Promise!Apart
<1>8. QED
  BY <1>4, <1>5, <1>6, <1>7 DEF Exclusive, PersistentApart

\* No two holders ever share a byte, for every arena and every sequence of calls.
THEOREM ExclusiveAlways == Spec => []Exclusive
BY Invariance, InvariantImpliesExclusive, PTL

-----------------------------------------------------------------------------
\* Every step of the allocator is a step of the contract, or a stutter of it.

Fits(r) == r \in [start : BufferHead..BufferTail, size : 0..BufferSize]

LEMMA InitRefines == Init => Promise!PromiseInit
<1> SUFFICES ASSUME Init PROVE Promise!PromiseInit
  OBVIOUS
<1>1. BufferTail - SelfSize \in Nat /\ BufferTail \in Nat
  BY ArenaAssumption DEF ArenaAssumption, BufferTail
<1>2. tail \in Nat /\ tail <= BufferTail - SelfSize /\ tail >= BufferHead
  BY <1>1, ArenaAssumption, AlignDownBound DEF ArenaAssumption, Init
<1>3. Fits(Region(tail, SelfSize)) /\ Fits(Region(BufferHead, 0))
  BY <1>1, <1>2, ArenaAssumption DEF ArenaAssumption, Fits, Region, BufferTail
<1>4. QED
  BY <1>3 DEF Init, Promise!PromiseInit, Fits, Region

LEMMA ResizeRefines ==
  ASSUME IInv, NEW buf \in Nat, NEW size \in Nat, NEW align \in Nat \ {0},
         ResizeBuffer(buf, size, align)
  PROVE  Promise!ReplaceSection
<1> DEFINE r == Region(buf, size)
<1>1. buf >= BufferHead
  BY ArenaAssumption, AlignUpBound DEF ArenaAssumption, ResizeBuffer, SectionFits
<1>2. Fits(r)
  BY <1>1, ArenaAssumption
     DEF ArenaAssumption, Fits, Region, BufferTail, ResizeBuffer, SectionFits, IInv, TypeOK, Layout, Ordered
<1>3. Exclusive'
  BY ResizeKeepsInvariant, InvariantImpliesExclusive, PTL
<1>4. Exclusive' /\ section' = r /\ UNCHANGED <<persistent, chain>>
  BY <1>3 DEF ResizeBuffer, SectionFits
<1>5. \A p \in persistent : Promise!Apart(r, p)
  BY <1>4 DEF Exclusive, Apart, Promise!Apart
<1>6. \A i \in Live : Promise!Apart(r, chain[i])
  BY <1>4 DEF Exclusive, Live, Apart, Promise!Apart
<1>7. QED
  BY <1>2, <1>4, <1>5, <1>6
     DEF Promise!ReplaceSection, Promise!ApartFromPersistent, Promise!ApartFromTemps,
         Promise!Live, Live, Fits

LEMMA PersistentRefines ==
  ASSUME IInv, NEW size \in Nat, NEW align \in Nat \ {0},
         AllocatePersistentBuffer(size, align)
  PROVE  Promise!GrantPersistent
<1> DEFINE r == Region(AlignPointerDown(tail - size, align), size)
<1>1. /\ persistent' = persistent \union {r} /\ UNCHANGED <<section, chain>>
      /\ size <= tail - temp /\ r.start >= temp /\ r.size = size
  BY DEF AllocatePersistentBuffer, PersistentFits, Region
<1>2. tail - size \in Nat /\ temp \in Nat /\ tail \in Nat
  BY <1>1 DEF IInv, TypeOK
<1>3. r.start \in Nat /\ r.start + size <= tail
  BY <1>2, AlignDownBound DEF Region
<1>4. Fits(r)
  <2>1. Fits(Region(r.start, size))
    <3> HIDE DEF r
    <3>1. QED
      BY <1>1, <1>2, <1>3, ArenaAssumption
         DEF ArenaAssumption, Fits, Region, BufferTail, IInv, TypeOK, Layout, Ordered
  <2>2. QED
    BY <2>1 DEF Region
<1> HIDE DEF r
<1>5. \A p \in persistent : Promise!Apart(r, p)
  BY <1>1, <1>2, <1>3 DEF IInv, Layout, TypeOK, PersistentAbove, Promise!Apart
<1>6. Promise!Apart(r, section)
  BY <1>1, <1>2, <1>3 DEF IInv, Layout, Ordered, TypeOK, Promise!Apart
<1>7. \A i \in Live : Promise!Apart(r, chain[i])
  BY <1>1, <1>2, <1>3, ChainTypes DEF IInv, Layout, ChainInside, Live, Promise!Apart
<1>8. QED
  BY <1>1, <1>4, <1>5, <1>6, <1>7
     DEF Promise!GrantPersistent, Promise!ApartFromPersistent, Promise!ApartFromTemps,
         Promise!Live, Live, Fits

LEMMA TempRefines ==
  ASSUME IInv, NEW size \in Nat, NEW align \in Nat \ {0}, AllocateTemp(size, align)
  PROVE  Promise!GrantTemp
<1> DEFINE r == Region(AlignPointerUp(temp, align), size)
<1>1. /\ chain' = Append(chain, [start |-> r.start, size |-> r.size, freed |-> FALSE])
      /\ UNCHANGED <<persistent, section>>
      /\ size <= tail - r.start /\ r.start <= tail /\ r.size = size
  BY DEF AllocateTemp, TempFits, Region
<1>2. temp \in Nat /\ tail \in Nat
  BY DEF IInv, TypeOK
<1>3. r.start \in Nat /\ r.start >= temp
  BY <1>2, AlignUpBound DEF Region
<1>4. Fits(r)
  <2>1. Fits(Region(r.start, size))
    <3> HIDE DEF r
    <3>1. QED
      BY SMTT(30), <1>1, <1>2, <1>3, ArenaAssumption
         DEF ArenaAssumption, Fits, Region, BufferTail, IInv, TypeOK, Layout, Ordered
  <2>2. QED
    BY <2>1 DEF Region
<1> HIDE DEF r
<1>5. \A p \in persistent : Promise!Apart(r, p)
  BY <1>1, <1>2, <1>3 DEF IInv, Layout, TypeOK, PersistentAbove, Promise!Apart
<1>6. Promise!Apart(r, section)
  BY <1>1, <1>2, <1>3 DEF IInv, Layout, Ordered, TypeOK, Promise!Apart
<1>7. \A i \in Live : Promise!Apart(r, chain[i])
  BY <1>1, <1>2, <1>3, ChainTypes DEF IInv, Layout, ChainInside, Live, Promise!Apart
<1>8. QED
  BY <1>1, <1>4, <1>5, <1>6, <1>7
     DEF Promise!GrantTemp, Promise!ApartFromPersistent, Promise!ApartFromTemps,
         Promise!Live, Live, Fits

LEMMA CallRefines ==
  IInv /\ (ArenaCall \/ UNCHANGED vars) => [Promise!PromiseNext]_(Promise!promiseVars)
<1> SUFFICES ASSUME IInv, ArenaCall \/ UNCHANGED vars
             PROVE  [Promise!PromiseNext]_(Promise!promiseVars)
  OBVIOUS
<1>1. ASSUME NEW buf \in Nat, NEW size \in Nat, NEW align \in Nat \ {0}, ResizeBuffer(buf, size, align)
      PROVE  Promise!ReplaceSection
  BY <1>1, ResizeRefines
<1>2. ASSUME NEW size \in Nat, NEW align \in Nat \ {0}, AllocatePersistentBuffer(size, align)
      PROVE  Promise!GrantPersistent
  BY <1>2, PersistentRefines
<1>3. ASSUME NEW size \in Nat, NEW align \in Nat \ {0}, AllocateTemp(size, align)
      PROVE  Promise!GrantTemp
  BY <1>3, TempRefines
<1>4. ASSUME NEW i \in Live, DeallocateTemp(i)
      PROVE  Promise!FreeTemp
  BY <1>4 DEF DeallocateTemp, Promise!FreeTemp, Promise!Live, Live
<1>5. ResetTempAllocations => Promise!ReclaimTemps
  BY AuditSound DEF ResetTempAllocations, Promise!ReclaimTemps, Promise!Live, Live
<1>6. UNCHANGED vars => UNCHANGED Promise!promiseVars
  BY DEF vars, Promise!promiseVars
<1>7. QED
  BY <1>1, <1>2, <1>3, <1>4, <1>5, <1>6 DEF ArenaCall, Promise!PromiseNext

LEMMA NextRefines ==
  IInv /\ [Next]_vars => [Promise!PromiseNext]_(Promise!promiseVars)
BY NextIsCall, CallRefines DEF IInv

\* The single-arena allocator implements the contract every client is written against.
THEOREM ImplementsPromise == Spec => KeepsPromise
BY InitRefines, NextRefines, Invariance, PTL DEF Spec, KeepsPromise, Promise!PromiseSpec

-----------------------------------------------------------------------------
LEMMA InvariantImpliesCover == IInv => UsedBytesCover
<1> SUFFICES ASSUME IInv PROVE UsedBytesCover
  OBVIOUS
<1>1. /\ head \in Nat /\ temp \in Nat /\ tail \in Nat /\ BufferHead \in Nat /\ BufferSize \in Nat
      /\ head <= temp /\ temp <= tail /\ tail <= BufferTail /\ BufferHead <= head
      /\ section.start + section.size = head /\ section.start \in Nat /\ section.size \in Nat
  BY ArenaAssumption DEF ArenaAssumption, IInv, TypeOK, Layout, Ordered
<1>2. GetNonPersistentUsedBytes = temp - BufferHead /\ GetPersistentUsedBytes = BufferTail - tail
  BY <1>1 DEF GetNonPersistentUsedBytes, GetPersistentUsedBytes
<1>3. \A p \in persistent : p.start \in Nat /\ p.size \in Nat /\ p.start >= tail /\ p.start + p.size <= BufferTail
  BY DEF IInv, TypeOK, Layout, PersistentAbove
<1>4. \A i \in Live : /\ chain[i].start \in Nat /\ chain[i].size \in Nat
                      /\ chain[i].size = 0 \/ chain[i].start + chain[i].size <= temp
  BY ChainTypes DEF IInv, Layout, ChainInside, Live
<1>5. BufferTail = BufferHead + BufferSize
  BY DEF BufferTail
<1>6. GetNonPersistentUsedBytes + GetPersistentUsedBytes <= BufferSize
  BY <1>1, <1>2, <1>5
<1>7. \A p \in persistent : p.start >= BufferTail - GetPersistentUsedBytes
  BY <1>1, <1>2, <1>3, <1>5
<1>8. BufferHead + GetNonPersistentUsedBytes = temp
  BY <1>1, <1>2
<1>9. QED
  BY <1>1, <1>3, <1>4, <1>6, <1>7, <1>8 DEF UsedBytesCover

\* The two byte counters an application sizes its arena with cover every region handed
\* out, for every arena and every sequence of calls.
THEOREM UsedBytesCoverAlways == Spec => []UsedBytesCover
BY Invariance, InvariantImpliesCover, PTL

LEMMA InvariantImpliesGrantable == IInv => AvailableIsGrantable
<1> SUFFICES ASSUME IInv, NEW align \in Alignments, GetAvailableMemory(align) > 0
             PROVE  LET n == GetAvailableMemory(align) IN
                    /\ AlignPointerUp(temp, align) <= tail /\ n <= tail - AlignPointerUp(temp, align)
                    /\ n <= tail - temp /\ AlignPointerDown(tail - n, align) >= temp
  BY DEF AvailableIsGrantable
<1> DEFINE up == AlignPointerUp(temp, align)
           down == AlignPointerDown(tail, align)
           n == GetAvailableMemory(align)
<1>1. align \in Nat \ {0} /\ temp \in Nat /\ tail \in Nat
  BY ArenaAssumption DEF ArenaAssumption, IInv, TypeOK
<1>2. up \in Nat /\ up >= temp /\ down \in Nat /\ down <= tail
  BY <1>1, AlignUpBound, AlignDownBound
<1>3. n = IF down < up THEN 0 ELSE down - up
  BY DEF GetAvailableMemory
<1>4. PICK k \in Int : up = k * align
  BY <1>1, AlignedMultiples
<1> HIDE DEF up, down, n
<1>5. n > 0
  BY DEF n
<1>6. n = down - up /\ n \in Nat /\ tail - n \in Nat /\ up <= tail - n
  BY <1>1, <1>2, <1>3, <1>5
<1>7. up <= AlignPointerDown(tail - n, align)
  BY <1>1, <1>4, <1>6, AlignDownMonotone
<1>8. up <= tail /\ n <= tail - up /\ n <= tail - temp
  BY <1>1, <1>2, <1>6
<1>9. AlignPointerDown(tail - n, align) >= temp
  BY <1>1, <1>2, <1>6, <1>7, AlignDownBound
<1>10. QED
  BY <1>8, <1>9 DEF up, n

\* What GetAvailableMemory reports can be granted, at every alignment the callers use.
THEOREM AvailableIsGrantableAlways == Spec => []AvailableIsGrantable
BY Invariance, InvariantImpliesGrantable, PTL

-----------------------------------------------------------------------------
\* The audit.  The XOR word holds the addresses at which an odd number of temporaries is
\* live: an address can carry several of them, all but one of size 0.

LiveAt(a) == {i \in Live : chain[i].start = a}

OddAt(a) == Cardinality(LiveAt(a)) % 2 = 1

WordIsParity == checkSum = {a \in Nat : OddAt(a)}

LEMMA LiveAtFinite ==
  ASSUME IInv, NEW a
  PROVE  IsFiniteSet(LiveAt(a)) /\ Cardinality(LiveAt(a)) \in Nat
BY FS_Subset, FS_CardinalityType DEF IInv, CountIsLive, LiveAt

\* Toggling one address in the word when exactly that address's number of live
\* temporaries changes by one keeps the word exact.
LEMMA ParityStep ==
  ASSUME IInv, IInv', WordIsParity, NEW a \in Nat,
         checkSum' = Xor(checkSum, a),
         \A b \in Nat \ {a} : LiveAt(b)' = LiveAt(b),
         \/ Cardinality(LiveAt(a)') = Cardinality(LiveAt(a)) + 1
         \/ Cardinality(LiveAt(a)') = Cardinality(LiveAt(a)) - 1
  PROVE  WordIsParity'
<1>1. Cardinality(LiveAt(a)) \in Nat /\ Cardinality(LiveAt(a)') \in Nat
  <2>1. (Cardinality(LiveAt(a)) \in Nat)'
    BY LiveAtFinite, PTL
  <2>2. QED
    BY <2>1, LiveAtFinite
<1>2. OddAt(a)' <=> ~OddAt(a)
  BY <1>1 DEF OddAt
<1>3. \A b \in Nat \ {a} : OddAt(b)' <=> OddAt(b)
  BY DEF OddAt
<1>4. \A b \in Nat : b \in checkSum' <=> OddAt(b)'
  BY <1>2, <1>3 DEF Xor, WordIsParity
<1>5. checkSum' \subseteq Nat
  BY DEF Xor, WordIsParity
<1>6. QED
  BY <1>4, <1>5 DEF WordIsParity

LEMMA TempKeepsParity ==
  ASSUME IInv, WordIsParity, NEW size \in Nat, NEW align \in Nat \ {0}, AllocateTemp(size, align)
  PROVE  WordIsParity'
<1> DEFINE new == [start |-> AlignPointerUp(temp, align), size |-> size, freed |-> FALSE]
<1>1. IInv'
  BY TempKeepsInvariant
<1>2. PICK a \in Nat : a = AlignPointerUp(temp, align)
  BY AlignUpBound DEF IInv, TypeOK
<1>3. PICK last \in Nat : last = Len(chain) + 1
  BY DEF IInv, TypeOK
<1>4. checkSum' = Xor(checkSum, a) /\ chain' = Append(chain, new) /\ new.start = a /\ new.freed = FALSE
  BY <1>2 DEF AllocateTemp
<1> HIDE DEF new
<1>5. chain \in Seq(TempRecord)
  BY DEF IInv, TypeOK
<1>6. /\ DOMAIN chain' = DOMAIN chain \union {last} /\ last \notin DOMAIN chain
      /\ \A i \in DOMAIN chain : chain'[i] = chain[i]
      /\ chain'[last].start = a /\ chain'[last].freed = FALSE
  BY <1>3, <1>4, <1>5
<1>7. Live' = Live \union {last} /\ last \notin Live
  BY <1>6 DEF Live
<1>8. \A b \in Nat \ {a} : LiveAt(b)' = LiveAt(b)
  BY <1>6, <1>7 DEF LiveAt, Live
<1>9. LiveAt(a)' = LiveAt(a) \union {last} /\ last \notin LiveAt(a)
  BY <1>6, <1>7 DEF LiveAt, Live
<1>10. Cardinality(LiveAt(a)') = Cardinality(LiveAt(a)) + 1
  BY <1>9, LiveAtFinite, FS_AddElement
<1>11. QED
  BY <1>1, <1>4, <1>8, <1>10, ParityStep

LEMMA FreeKeepsParity ==
  ASSUME IInv, WordIsParity, NEW i \in Live, DeallocateTemp(i)
  PROVE  WordIsParity'
<1>1. IInv'
  BY FreeKeepsInvariant
<1>2. i \in DOMAIN chain /\ chain[i].start \in Nat /\ \A j \in DOMAIN chain : chain[j] \in TempRecord
  BY ChainTypes DEF IInv, Live
<1>3. PICK a \in Nat : a = chain[i].start
  BY <1>2
<1>4. checkSum' = Xor(checkSum, a) /\ chain' = [chain EXCEPT ![i].freed = TRUE]
  BY <1>3 DEF DeallocateTemp
<1>5. /\ DOMAIN chain' = DOMAIN chain
      /\ \A j \in DOMAIN chain : /\ chain'[j].start = chain[j].start
                                 /\ chain'[j].freed = (chain[j].freed \/ j = i)
  BY <1>2, <1>4, ChainTypes DEF IInv, TempRecord
<1>6. Live' = Live \ {i}
  BY <1>5 DEF Live
<1>7. \A b \in Nat \ {a} : LiveAt(b)' = LiveAt(b)
  BY <1>3, <1>5, <1>6 DEF LiveAt, Live
<1>8. LiveAt(a)' = LiveAt(a) \ {i} /\ i \in LiveAt(a)
  BY <1>3, <1>5, <1>6 DEF LiveAt, Live
<1>9. Cardinality(LiveAt(a)') = Cardinality(LiveAt(a)) - 1
  BY <1>8, LiveAtFinite, FS_RemoveElement
<1>10. QED
  BY <1>1, <1>4, <1>7, <1>9, ParityStep

\* A chain with no live temporary leaves the word clear.
LEMMA ParityOfNone == Live = {} => \A a : ~OddAt(a)
<1> SUFFICES ASSUME Live = {} PROVE \A a : ~OddAt(a)
  OBVIOUS
<1>1. \A a : LiveAt(a) = {}
  BY DEF LiveAt
<1>2. QED
  BY <1>1, FS_EmptySet DEF OddAt

LEMMA ResetKeepsParity ==
  ASSUME ResetTempAllocations
  PROVE  WordIsParity'
<1>1. (Live = {})' /\ checkSum' = {}
  BY DEF ResetTempAllocations, IsAllTempDeallocated, Live
<1>2. (\A a : ~OddAt(a))'
  BY <1>1, ParityOfNone, PTL
<1>3. QED
  BY <1>1, <1>2 DEF WordIsParity

LEMMA UntouchedKeepsParity ==
  ASSUME WordIsParity, UNCHANGED <<checkSum, chain>>
  PROVE  WordIsParity'
BY DEF WordIsParity, OddAt, LiveAt, Live

LEMMA CallKeepsParity == IInv /\ WordIsParity /\ (ArenaCall \/ UNCHANGED vars) => WordIsParity'
<1> SUFFICES ASSUME IInv, WordIsParity, ArenaCall \/ UNCHANGED vars PROVE WordIsParity'
  OBVIOUS
<1>1. ASSUME NEW buf \in Nat, NEW size \in Nat, NEW align \in Nat \ {0}, ResizeBuffer(buf, size, align)
      PROVE  WordIsParity'
  BY <1>1, UntouchedKeepsParity DEF ResizeBuffer
<1>2. ASSUME NEW size \in Nat, NEW align \in Nat \ {0}, AllocatePersistentBuffer(size, align)
      PROVE  WordIsParity'
  BY <1>2, UntouchedKeepsParity DEF AllocatePersistentBuffer
<1>3. ASSUME NEW size \in Nat, NEW align \in Nat \ {0}, AllocateTemp(size, align)
      PROVE  WordIsParity'
  BY <1>3, TempKeepsParity
<1>4. ASSUME NEW i \in Live, DeallocateTemp(i)
      PROVE  WordIsParity'
  BY <1>4, FreeKeepsParity
<1>5. CASE ResetTempAllocations
  BY <1>5, ResetKeepsParity
<1>6. CASE UNCHANGED vars
  BY <1>6, UntouchedKeepsParity DEF vars
<1>7. QED
  BY <1>1, <1>2, <1>3, <1>4, <1>5, <1>6 DEF ArenaCall

LEMMA InitParity == Init => WordIsParity
<1> SUFFICES ASSUME Init PROVE WordIsParity
  OBVIOUS
<1>1. Live = {} /\ checkSum = {}
  BY DEF Init, Live
<1>2. QED
  BY <1>1, ParityOfNone DEF WordIsParity

LEMMA NextParity == IInv /\ WordIsParity /\ [Next]_vars => WordIsParity'
BY NextIsCall, CallKeepsParity DEF IInv

LEMMA ParityImpliesExact ==
  ASSUME IInv, WordIsParity
  PROVE  AuditExact
<1>1. ASSUME Live = {} PROVE IsAllTempDeallocated
  BY <1>1, FS_EmptySet, ParityOfNone DEF IInv, CountIsLive, WordIsParity, IsAllTempDeallocated
<1>2. QED
  BY <1>1, AuditSound DEF AuditExact

\* ResetTempAllocations neither reclaims a temporary in use nor refuses a chain whose
\* temporaries were all freed, however many of them shared an address.
THEOREM AuditExactAlways == Spec => []AuditExact
BY InitParity, NextParity, ParityImpliesExact, Invariance, PTL DEF Spec
=============================================================================
