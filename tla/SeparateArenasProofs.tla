------------------------ MODULE SeparateArenasProofs ------------------------
(***************************************************************************)
(* Theorems about SeparateArenas, for every pair of disjoint arenas.       *)
(*                                                                         *)
(* Each arena keeps an order of its own: persistent buffers lie between    *)
(* tail_temp_ and the end of theirs; in the other the section ends at      *)
(* head_temp_ and every temporary that occupies a byte lies in             *)
(* [head_temp_, next_temp_] in chain order.  The flag is set exactly while *)
(* a resizable buffer is out.                                              *)
(***************************************************************************)
EXTENDS SeparateArenas, FiniteSetTheorems, TLAPS

\* Rounding a pointer up never moves it down.
LEMMA AlignUpBound ==
  ASSUME NEW p \in Nat, NEW a \in Nat \ {0}
  PROVE  AlignPointerUp(p, a) \in Nat /\ AlignPointerUp(p, a) >= p
<1>1. p + (a - 1) \in Nat
  OBVIOUS
<1>2. p + (a - 1) = a * ((p + (a - 1)) \div a) + ((p + (a - 1)) % a)
  BY <1>1
<1>3. QED
  BY <1>1, <1>2 DEF AlignPointerUp

\* Rounding a pointer down never moves it up, nor below zero.
LEMMA AlignDownBound ==
  ASSUME NEW p \in Nat, NEW a \in Nat \ {0}
  PROVE  AlignPointerDown(p, a) \in Nat /\ AlignPointerDown(p, a) <= p
BY DEF AlignPointerDown

TempRecord == [start : Nat, size : Nat, freed : BOOLEAN]

Types ==
  /\ tailTemp \in Nat /\ headTemp \in Nat /\ nextTemp \in Nat
  /\ checkSum \in SUBSET Nat /\ count \in Int
  /\ resizableBufferAllocated \in BOOLEAN /\ granted \in Nat
  /\ persistent \in SUBSET [start : Nat, size : Nat]
  /\ section \in [start : Nat, size : Nat]
  /\ chain \in Seq(TempRecord)

PersistentInside ==
  /\ PersistentHead <= tailTemp /\ tailTemp <= PersistentTail
  /\ \A p \in persistent : p.start >= tailTemp /\ p.start + p.size <= PersistentTail

SectionBelow ==
  /\ BufferHead <= section.start
  /\ section.start + section.size = headTemp
  /\ headTemp <= nextTemp /\ nextTemp <= BufferTail

ChainInside == \A i \in DOMAIN chain :
  \/ chain[i].size = 0
  \/ chain[i].start >= headTemp /\ chain[i].start + chain[i].size <= nextTemp

CountIsLive == IsFiniteSet(Live) /\ count = Cardinality(Live)

FlagIsGrant == granted = IF resizableBufferAllocated THEN 1 ELSE 0

IInv == Types /\ PersistentInside /\ SectionBelow /\ ChainInside /\ CountIsLive /\ FlagIsGrant

-----------------------------------------------------------------------------
LEMMA ChainTypes ==
  ASSUME Types
  PROVE  /\ Len(chain) \in Nat /\ DOMAIN chain = 1..Len(chain)
         /\ \A i \in DOMAIN chain : /\ chain[i] \in TempRecord
                                   /\ chain[i].start \in Nat
                                   /\ chain[i].size \in Nat
<1>1. chain \in Seq(TempRecord)
  BY DEF Types
<1>2. Len(chain) \in Nat /\ DOMAIN chain = 1..Len(chain) /\ \A i \in DOMAIN chain : chain[i] \in TempRecord
  BY <1>1
<1>3. \A r \in TempRecord : r.start \in Nat /\ r.size \in Nat
  BY DEF TempRecord
<1>4. QED
  BY <1>2, <1>3

LEMMA SelfBounds ==
  /\ PersistentSelf \in Nat /\ NonPersistentSelf \in Nat
  /\ PersistentSelf <= PersistentTail - SelfSizes[1]
  /\ NonPersistentSelf <= PersistentSelf - SelfSizes[2]
<1>1. SelfSizes[1] \in Nat /\ SelfSizes[2] \in Nat
  BY ArenasAssumption DEF ArenasAssumption
<1>2. PersistentTail - SelfSizes[1] \in Nat
  BY <1>1, ArenasAssumption DEF ArenasAssumption
<1>3. PersistentSelf \in Nat /\ PersistentSelf <= PersistentTail - SelfSizes[1]
  BY <1>2, ArenasAssumption, AlignDownBound DEF ArenasAssumption, PersistentSelf
<1>4. PersistentSelf - SelfSizes[2] \in Nat
  BY <1>1, <1>3, ArenasAssumption DEF ArenasAssumption
<1>5. QED
  BY <1>3, <1>4, ArenasAssumption, AlignDownBound DEF ArenasAssumption, NonPersistentSelf

LEMMA InitInvariant == Init => IInv
<1> SUFFICES ASSUME Init PROVE IInv
  OBVIOUS
<1>1. SelfSizes[1] \in Nat /\ SelfSizes[2] \in Nat /\ BufferHead \in Nat /\ BufferTail \in Nat
      /\ BufferHead <= BufferTail /\ PersistentHead \in Nat /\ PersistentTail \in Nat
      /\ NonPersistentSelf >= PersistentHead
  BY ArenasAssumption DEF ArenasAssumption
<1>2. Types
  <2>1. persistent \in SUBSET [start : Nat, size : Nat] /\ section \in [start : Nat, size : Nat]
    BY <1>1, SelfBounds DEF Init, Region
  <2>2. tailTemp \in Nat /\ headTemp \in Nat /\ nextTemp \in Nat
    BY <1>1, SelfBounds DEF Init
  <2>3. checkSum \in SUBSET Nat /\ count \in Int /\ granted \in Nat
    BY DEF Init
  <2>4. resizableBufferAllocated \in BOOLEAN
    BY DEF Init
  <2>5. chain \in Seq(TempRecord)
    BY DEF Init
  <2>6. QED
    BY <2>1, <2>2, <2>3, <2>4, <2>5 DEF Types
<1>3. PersistentInside
  BY <1>1, SelfBounds DEF Init, PersistentInside, Region
<1>4. SectionBelow /\ ChainInside /\ FlagIsGrant
  BY <1>1 DEF Init, SectionBelow, ChainInside, FlagIsGrant, Region
<1>5. CountIsLive
  <2>1. Live = {}
    BY DEF Init, Live
  <2>2. QED
    BY <2>1, FS_EmptySet DEF Init, CountIsLive
<1>6. QED
  BY <1>2, <1>3, <1>4, <1>5 DEF IInv

-----------------------------------------------------------------------------
\* What one successful call does, action by action: the invariant holds again, and the call
\* is one of the contract.

Regions == Within(PersistentHead, PersistentTail) \union Within(BufferHead, BufferTail)

\* Nothing in one arena shares a byte with anything in the other.
LEMMA ArenasApart ==
  ASSUME NEW p \in [start : Nat, size : Nat], NEW r \in [start : Nat, size : Nat],
         PersistentHead <= p.start, p.start + p.size <= PersistentTail,
         BufferHead <= r.start, r.start + r.size <= BufferTail
  PROVE  Promise!Apart(p, r) /\ Promise!Apart(r, p)
<1>1. p.start \in Nat /\ p.size \in Nat /\ r.start \in Nat /\ r.size \in Nat
  OBVIOUS
<1>2. QED
  BY <1>1, ArenasAssumption DEF ArenasAssumption, Promise!Apart

\* head_temp_ = next_temp_ leaves no room for a temporary that occupies a byte.
LEMMA NoRoomForTemps ==
  ASSUME IInv, headTemp = nextTemp
  PROVE  \A i \in DOMAIN chain : chain[i].size = 0
<1> SUFFICES ASSUME NEW i \in DOMAIN chain PROVE chain[i].size = 0
  OBVIOUS
<1>1. chain[i].start \in Nat /\ chain[i].size \in Nat /\ headTemp \in Nat
  BY ChainTypes DEF IInv, Types
<1>2. chain[i].size = 0 \/ (chain[i].start >= headTemp /\ chain[i].start + chain[i].size <= headTemp)
  BY DEF IInv, ChainInside
<1>3. QED
  BY <1>1, <1>2

LEMMA SectionStep ==
  ASSUME IInv, NEW buf \in Nat, NEW size \in Nat, NEW align \in Nat \ {0},
         SetSection(buf, size, align)
  PROVE  /\ Promise!ReplaceSection
         /\ PersistentInside' /\ SectionBelow' /\ ChainInside' /\ CountIsLive'
         /\ tailTemp' \in Nat /\ headTemp' \in Nat /\ nextTemp' \in Nat
         /\ section' \in [start : Nat, size : Nat]
<1>1. /\ headTemp = nextTemp /\ buf <= BufferTail /\ size <= BufferTail - buf
      /\ headTemp' = buf + size /\ nextTemp' = buf + size
      /\ section' = [start |-> buf, size |-> size]
      /\ UNCHANGED <<tailTemp, persistent, checkSum, count, chain>>
  BY DEF SetSection, Region, persistentVars
<1>2. BufferHead \in Nat /\ BufferTail \in Nat /\ buf >= BufferHead
  BY ArenasAssumption, AlignUpBound DEF ArenasAssumption, SetSection
<1>3. buf + size \in Nat /\ buf + size <= BufferTail
  BY <1>1, <1>2
<1>4. \A i \in DOMAIN chain : chain[i].size = 0
  BY <1>1, NoRoomForTemps
<1> DEFINE r == [start |-> buf, size |-> size]
<1>5. r \in [start : Nat, size : Nat] /\ r.start = buf /\ r.size = size
  OBVIOUS
<1>6. r \in Regions
  BY <1>1, <1>2, <1>3, <1>5 DEF Regions, Within
<1> HIDE DEF r
<1>7. \A p \in persistent : Promise!Apart(r, p)
  <2> SUFFICES ASSUME NEW p \in persistent PROVE Promise!Apart(r, p)
    OBVIOUS
  <2>1. p \in [start : Nat, size : Nat] /\ p.start >= tailTemp /\ tailTemp >= PersistentHead
        /\ p.start + p.size <= PersistentTail /\ p.start \in Nat /\ tailTemp \in Nat
        /\ PersistentHead \in Nat
    BY ArenasAssumption DEF ArenasAssumption, IInv, Types, PersistentInside
  <2>2. PersistentHead <= p.start
    BY <2>1
  <2>3. QED
    BY <2>1, <2>2, <1>2, <1>3, <1>5, ArenasApart
<1>8. \A i \in Live : Promise!Apart(r, chain[i])
  BY <1>4 DEF Live, Promise!Apart
<1>9. Promise!ReplaceSection
  BY <1>1, <1>6, <1>7, <1>8
     DEF r, Promise!ReplaceSection, Promise!ApartFromPersistent, Promise!ApartFromTemps,
         Promise!Live, Live, Regions
<1>10. PersistentInside' /\ CountIsLive'
  BY <1>1 DEF IInv, PersistentInside, CountIsLive, Live
<1>11. SectionBelow'
  BY <1>1, <1>2, <1>3, <1>5 DEF SectionBelow, r
<1>12. ChainInside'
  BY <1>1, <1>4 DEF ChainInside
<1>13. QED
  BY <1>1, <1>3, <1>5, <1>9, <1>10, <1>11, <1>12 DEF IInv, Types, r

LEMMA PersistentStep ==
  ASSUME IInv, NEW size \in Nat, NEW align \in Nat \ {0},
         AllocatePersistentBuffer(size, align)
  PROVE  IInv' /\ Promise!GrantPersistent
<1> DEFINE aligned == AlignPointerDown(tailTemp - size, align)
           r == [start |-> aligned, size |-> size]
<1>1. /\ tailTemp' = aligned /\ persistent' = persistent \union {r}
      /\ aligned >= PersistentHead /\ size <= tailTemp - PersistentHead
      /\ UNCHANGED <<headTemp, nextTemp, checkSum, count, resizableBufferAllocated,
                     section, chain, granted>>
  BY DEF AllocatePersistentBuffer, Region
<1>2. tailTemp \in Nat /\ PersistentHead \in Nat /\ PersistentTail \in Nat /\ tailTemp <= PersistentTail
  BY ArenasAssumption DEF ArenasAssumption, IInv, Types, PersistentInside
<1>3. aligned \in Nat /\ aligned <= tailTemp - size
  BY <1>1, <1>2, AlignDownBound
<1> HIDE DEF aligned
<1>4. r \in [start : Nat, size : Nat] /\ r.start = aligned /\ r.size = size
      /\ aligned + size <= tailTemp
  BY <1>1, <1>2, <1>3
<1>5. r \in Regions
  BY <1>1, <1>2, <1>3, <1>4 DEF Regions, Within
<1> HIDE DEF r
<1>6. \A p \in persistent : p \in [start : Nat, size : Nat] /\ p.start >= tailTemp
                            /\ p.start + p.size <= PersistentTail
  BY DEF IInv, Types, PersistentInside
<1>7. \A p \in persistent : Promise!Apart(r, p)
  BY <1>2, <1>3, <1>4, <1>6 DEF Promise!Apart
<1>8. PersistentInside'
  <2>1. \A p \in persistent : p.start >= aligned
    BY <1>2, <1>3, <1>6
  <2>2. aligned <= PersistentTail /\ r.start + r.size <= PersistentTail
    BY <1>2, <1>3, <1>4
  <2>3. \A p \in persistent' : p.start >= aligned /\ p.start + p.size <= PersistentTail
    BY <1>1, <1>3, <1>4, <1>6, <2>1, <2>2
  <2>4. QED
    BY <1>1, <2>2, <2>3 DEF PersistentInside
<1>9. Types'
  BY <1>1, <1>3, <1>4 DEF IInv, Types
<1>10. SectionBelow' /\ ChainInside' /\ CountIsLive' /\ FlagIsGrant'
  BY <1>1 DEF IInv, SectionBelow, ChainInside, CountIsLive, Live, FlagIsGrant
<1>11. PersistentHead <= r.start /\ r.start + r.size <= PersistentTail
  BY <1>1, <1>2, <1>3, <1>4
<1>12. BufferHead \in Nat /\ BufferTail \in Nat /\ headTemp \in Nat /\ nextTemp \in Nat
       /\ headTemp <= nextTemp /\ nextTemp <= BufferTail /\ BufferHead <= section.start
       /\ section \in [start : Nat, size : Nat] /\ section.start + section.size = headTemp
       /\ section.start \in Nat /\ section.size \in Nat
  BY ArenasAssumption DEF ArenasAssumption, IInv, Types, SectionBelow
<1>13. Promise!Apart(r, section)
  <2>1. section.start + section.size <= BufferTail
    BY <1>12
  <2>2. QED
    BY <1>4, <1>11, <1>12, <2>1, ArenasApart
<1>14. \A i \in Live : Promise!Apart(r, chain[i])
  <2> SUFFICES ASSUME NEW i \in DOMAIN chain, chain[i].size # 0 PROVE Promise!Apart(r, chain[i])
    BY DEF Live, Promise!Apart
  <2>1. chain[i].start \in Nat /\ chain[i].size \in Nat
    BY ChainTypes DEF IInv
  <2>2. chain[i].start >= headTemp /\ chain[i].start + chain[i].size <= nextTemp
    BY DEF IInv, ChainInside
  <2>3. headTemp >= BufferHead
    BY <1>12
  <2>4. chain[i].start >= BufferHead /\ chain[i].start + chain[i].size <= BufferTail
    BY <1>12, <2>1, <2>2, <2>3
  <2>5. [start |-> chain[i].start, size |-> chain[i].size] \in [start : Nat, size : Nat]
    BY <2>1
  <2>6. Promise!Apart(r, [start |-> chain[i].start, size |-> chain[i].size])
    BY <1>4, <1>11, <2>4, <2>5, ArenasApart
  <2>7. QED
    BY <2>6 DEF Promise!Apart
<1>15. Promise!GrantPersistent
  BY <1>1, <1>5, <1>7, <1>13, <1>14
     DEF Promise!GrantPersistent, Promise!ApartFromPersistent, Promise!ApartFromTemps,
         Promise!Live, Live, Regions
<1>16. QED
  BY <1>8, <1>9, <1>10, <1>15 DEF IInv

LEMMA TempStep ==
  ASSUME IInv, NEW size \in Nat, NEW align \in Nat \ {0}, AllocateTemp(size, align)
  PROVE  IInv' /\ Promise!GrantTemp
<1> DEFINE aligned == AlignPointerUp(nextTemp, align)
           r == [start |-> aligned, size |-> size]
           new == [start |-> aligned, size |-> size, freed |-> FALSE]
<1>1. /\ nextTemp' = aligned + size /\ aligned <= BufferTail /\ size <= BufferTail - aligned
      /\ checkSum' = Xor(checkSum, aligned) /\ count' = count + 1
      /\ chain' = Append(chain, new)
      /\ UNCHANGED <<tailTemp, persistent, headTemp, resizableBufferAllocated, section, granted>>
  BY DEF AllocateTemp, persistentVars
<1>2. /\ BufferHead \in Nat /\ BufferTail \in Nat /\ headTemp \in Nat /\ nextTemp \in Nat
      /\ headTemp <= nextTemp /\ BufferHead <= section.start
      /\ section.start \in Nat /\ section.size \in Nat /\ section.start + section.size = headTemp
  BY ArenasAssumption DEF ArenasAssumption, IInv, Types, SectionBelow
<1>3. aligned \in Nat /\ aligned >= nextTemp
  BY <1>2, AlignUpBound
<1> HIDE DEF aligned
<1>4. /\ new \in TempRecord
      /\ r \in [start : Nat, size : Nat] /\ r.start = aligned /\ r.size = size
      /\ new = [start |-> r.start, size |-> r.size, freed |-> FALSE]
      /\ aligned + size <= BufferTail /\ aligned + size \in Nat
      /\ aligned >= BufferHead
  BY <1>1, <1>2, <1>3 DEF TempRecord
<1>5. r \in Regions
  BY <1>1, <1>2, <1>3, <1>4 DEF Regions, Within
<1>6. /\ chain' \in Seq(TempRecord)
      /\ DOMAIN chain' = 1..(Len(chain) + 1)
      /\ DOMAIN chain = 1..Len(chain) /\ Len(chain) \in Nat
      /\ \A i \in DOMAIN chain : chain'[i] = chain[i]
      /\ chain'[Len(chain) + 1] = new
  BY <1>1, <1>4 DEF IInv, Types
<1>7. new.start = aligned /\ new.size = size /\ new.freed = FALSE
  OBVIOUS
<1> HIDE DEF r, new
<1>8. Types'
  <2>1. checkSum' \in SUBSET Nat
    BY <1>1, <1>3 DEF IInv, Types, Xor
  <2>2. QED
    BY <1>1, <1>4, <1>6, <2>1 DEF IInv, Types
<1>9. PersistentInside' /\ FlagIsGrant'
  BY <1>1 DEF IInv, PersistentInside, FlagIsGrant
<1>10. SectionBelow'
  BY <1>1, <1>2, <1>3, <1>4 DEF SectionBelow
<1>11. ChainInside'
  <2> SUFFICES ASSUME NEW i \in DOMAIN chain', chain'[i].size # 0
               PROVE  chain'[i].start >= headTemp /\ chain'[i].start + chain'[i].size <= nextTemp'
    BY <1>1 DEF ChainInside
  <2>1. CASE i \in DOMAIN chain
    <3>1. chain'[i] = chain[i] /\ chain[i].start \in Nat /\ chain[i].size \in Nat
      BY <2>1, <1>6, ChainTypes DEF IInv
    <3>2. chain[i].start >= headTemp /\ chain[i].start + chain[i].size <= nextTemp
      BY <2>1, <3>1 DEF IInv, ChainInside
    <3>3. QED
      BY SMTT(30), <3>1, <3>2, <1>1, <1>2, <1>3
  <2>2. CASE i = Len(chain) + 1
    BY <2>2, <1>1, <1>2, <1>3, <1>6, <1>7
  <2>3. QED
    BY <2>1, <2>2, <1>6
<1>12. CountIsLive'
  <2>1. Live' = Live \union {Len(chain) + 1} /\ Len(chain) + 1 \notin Live
    BY <1>6, <1>7 DEF Live
  <2>2. QED
    BY <2>1, <1>1, FS_AddElement, FS_CardinalityType DEF IInv, CountIsLive
<1>13. \A p \in persistent : Promise!Apart(r, p)
  <2> SUFFICES ASSUME NEW p \in persistent PROVE Promise!Apart(r, p)
    OBVIOUS
  <2>1. p \in [start : Nat, size : Nat] /\ p.start >= tailTemp /\ tailTemp >= PersistentHead
        /\ p.start + p.size <= PersistentTail /\ p.start \in Nat /\ tailTemp \in Nat
        /\ PersistentHead \in Nat
    BY ArenasAssumption DEF ArenasAssumption, IInv, Types, PersistentInside
  <2>2. PersistentHead <= p.start
    BY <2>1
  <2>3. QED
    BY <2>1, <2>2, <1>4, ArenasApart
<1>14. Promise!Apart(r, section)
  BY <1>2, <1>3, <1>4 DEF Promise!Apart
<1>15. \A i \in Live : Promise!Apart(r, chain[i])
  <2> SUFFICES ASSUME NEW i \in DOMAIN chain, chain[i].size # 0 PROVE Promise!Apart(r, chain[i])
    BY DEF Live, Promise!Apart
  <2>1. chain[i].start \in Nat /\ chain[i].size \in Nat
    BY ChainTypes DEF IInv
  <2>2. chain[i].start + chain[i].size <= nextTemp
    BY DEF IInv, ChainInside
  <2>3. QED
    BY <2>1, <2>2, <1>2, <1>3, <1>4 DEF Promise!Apart
<1>16. Promise!GrantTemp
  BY <1>1, <1>4, <1>5, <1>13, <1>14, <1>15
     DEF Promise!GrantTemp, Promise!ApartFromPersistent, Promise!ApartFromTemps,
         Promise!Live, Live, Regions
<1>17. QED
  BY <1>8, <1>9, <1>10, <1>11, <1>12, <1>16 DEF IInv

LEMMA FreeStep ==
  ASSUME IInv, NEW i \in Live, DeallocateTemp(i)
  PROVE  IInv' /\ Promise!FreeTemp
<1>1. /\ checkSum' = Xor(checkSum, chain[i].start) /\ count' = count - 1
      /\ chain' = [chain EXCEPT ![i].freed = TRUE]
      /\ UNCHANGED <<tailTemp, persistent, headTemp, nextTemp, resizableBufferAllocated,
                     section, granted>>
  BY DEF DeallocateTemp, persistentVars
<1>2. i \in DOMAIN chain /\ Len(chain) \in Nat /\ DOMAIN chain = 1..Len(chain)
      /\ \A j \in DOMAIN chain : chain[j] \in TempRecord
      /\ chain[i].start \in Nat
  BY ChainTypes DEF IInv, Live
<1>3. /\ DOMAIN chain' = DOMAIN chain
      /\ \A j \in DOMAIN chain :
           chain'[j] = IF j = i THEN [chain[i] EXCEPT !.freed = TRUE] ELSE chain[j]
  BY <1>1, <1>2
<1>4. ASSUME NEW j \in DOMAIN chain
      PROVE  /\ chain'[j] \in TempRecord
             /\ chain'[j].start = chain[j].start
             /\ chain'[j].size = chain[j].size
             /\ chain'[j].freed = (chain[j].freed \/ j = i)
  BY <1>2, <1>3 DEF TempRecord
<1>5. chain' \in Seq(TempRecord)
  <2>1. chain' \in [1..Len(chain) -> TempRecord]
    <3>1. chain' = [j \in DOMAIN chain |-> chain'[j]]
      BY <1>1
    <3>2. QED
      BY <3>1, <1>2, <1>4
  <2>2. QED
    BY <2>1, <1>2 DEF Seq
<1>6. Types'
  BY <1>1, <1>2, <1>5 DEF IInv, Types, Xor
<1>7. PersistentInside' /\ SectionBelow' /\ FlagIsGrant'
  BY <1>1 DEF IInv, PersistentInside, SectionBelow, FlagIsGrant
<1>8. ChainInside'
  BY <1>1, <1>3, <1>4 DEF IInv, ChainInside
<1>9. CountIsLive'
  <2>1. Live' = Live \ {i}
    BY <1>3, <1>4 DEF Live
  <2>2. QED
    BY <2>1, <1>1, FS_RemoveElement, FS_CardinalityType DEF IInv, CountIsLive
<1>10. Promise!FreeTemp
  BY <1>1 DEF Promise!FreeTemp, Promise!Live, Live
<1>11. QED
  BY <1>6, <1>7, <1>8, <1>9, <1>10 DEF IInv

LEMMA ResetStep ==
  ASSUME IInv, ResetTempAllocations
  PROVE  IInv' /\ Promise!ReclaimTemps
<1>1. /\ count = 0 /\ nextTemp' = headTemp /\ chain' = <<>>
      /\ UNCHANGED <<tailTemp, persistent, headTemp, checkSum, count, resizableBufferAllocated,
                     section, granted>>
  BY DEF ResetTempAllocations, IsAllTempDeallocated, persistentVars
<1>2. Live = {}
  BY <1>1, FS_EmptySet DEF IInv, CountIsLive
<1>3. Types' /\ PersistentInside' /\ FlagIsGrant' /\ ChainInside'
  BY <1>1 DEF IInv, Types, PersistentInside, FlagIsGrant, ChainInside
<1>4. SectionBelow'
  BY <1>1, ArenasAssumption DEF ArenasAssumption, IInv, Types, SectionBelow
<1>5. CountIsLive'
  <2>1. Live' = {}
    BY <1>1 DEF Live
  <2>2. QED
    BY <2>1, <1>1, FS_EmptySet DEF CountIsLive
<1>6. Promise!ReclaimTemps
  BY <1>1, <1>2 DEF Promise!ReclaimTemps, Promise!Live, Live
<1>7. QED
  BY <1>3, <1>4, <1>5, <1>6 DEF IInv

\* The four calls that set the head section; they differ in the flag only.
LEMMA FlagStep ==
  ASSUME IInv, NEW size \in Nat, NEW align \in Nat \ {0},
         \/ ResizeBuffer(size, align)
         \/ AllocateResizableBuffer(size, align)
         \/ ReserveNonPersistentOverlayMemory(size, align)
         \/ DeallocateResizableBuffer
  PROVE  IInv' /\ Promise!ReplaceSection
<1>1. section.start \in Nat /\ BufferHead \in Nat
  BY ArenasAssumption DEF ArenasAssumption, IInv, Types
<1>2. PICK buf \in Nat, n \in Nat, a \in Nat \ {0} : SetSection(buf, n, a)
  <2>1. AlignPointerUp(BufferHead, align) \in Nat
    BY <1>1, AlignUpBound
  <2>2. CASE ResizeBuffer(size, align)
    BY <1>1, <2>2 DEF ResizeBuffer
  <2>3. CASE AllocateResizableBuffer(size, align) \/ ReserveNonPersistentOverlayMemory(size, align)
    BY <2>1, <2>3 DEF AllocateResizableBuffer, ReserveNonPersistentOverlayMemory
  <2>4. CASE DeallocateResizableBuffer
    <3>1. 0 \in Nat /\ 1 \in Nat \ {0} /\ SetSection(section.start, 0, 1)
      BY <2>4 DEF DeallocateResizableBuffer
    <3>2. QED
      BY <1>1, <3>1
  <2>5. QED
    BY <2>2, <2>3, <2>4
<1>3. FlagIsGrant' /\ resizableBufferAllocated' \in BOOLEAN /\ granted' \in Nat
  <2>1. granted \in Nat /\ resizableBufferAllocated \in BOOLEAN /\ FlagIsGrant
    BY DEF IInv, Types
  <2>2. CASE ResizeBuffer(size, align) \/ ReserveNonPersistentOverlayMemory(size, align)
    <3>1. resizableBufferAllocated' = resizableBufferAllocated /\ granted' = granted
      BY <2>2 DEF ResizeBuffer, ReserveNonPersistentOverlayMemory
    <3>2. QED
      BY <2>1, <3>1 DEF FlagIsGrant
  <2>3. CASE AllocateResizableBuffer(size, align)
    <3>1. ~resizableBufferAllocated /\ resizableBufferAllocated' = TRUE /\ granted' = granted + 1
      BY <2>3 DEF AllocateResizableBuffer
    <3>2. granted = 0
      BY <2>1, <3>1 DEF FlagIsGrant
    <3>3. QED
      BY <3>1, <3>2 DEF FlagIsGrant
  <2>4. CASE DeallocateResizableBuffer
    <3>1. granted > 0 /\ resizableBufferAllocated' = FALSE /\ granted' = granted - 1
      BY <2>4 DEF DeallocateResizableBuffer
    <3>2. granted = 1
      BY <2>1, <3>1 DEF FlagIsGrant
    <3>3. granted' = 0 /\ granted' \in Nat
      BY <3>1, <3>2
    <3>4. QED
      BY <3>1, <3>3 DEF FlagIsGrant
  <2>5. QED
    BY <2>2, <2>3, <2>4
<1>4. /\ Promise!ReplaceSection
      /\ PersistentInside' /\ SectionBelow' /\ ChainInside' /\ CountIsLive'
      /\ tailTemp' \in Nat /\ headTemp' \in Nat /\ nextTemp' \in Nat
      /\ section' \in [start : Nat, size : Nat]
  BY <1>2, SectionStep
<1>5. UNCHANGED <<checkSum, count, chain, persistent>>
  BY <1>2 DEF SetSection, persistentVars
<1>6. Types'
  BY <1>3, <1>4, <1>5 DEF IInv, Types
<1>7. QED
  BY <1>3, <1>4, <1>6 DEF IInv

LEMMA NextStep ==
  ASSUME IInv, [Next]_vars
  PROVE  IInv' /\ [Promise!PromiseNext]_(Promise!promiseVars)
<1> USE DEF Promise!PromiseNext
<1>1. Sizes \subseteq Nat /\ Alignments \subseteq Nat \ {0}
  BY ArenasAssumption DEF ArenasAssumption
<1>2. ASSUME NEW size \in Sizes, NEW align \in Alignments, AllocatePersistentBuffer(size, align)
      PROVE  IInv' /\ Promise!GrantPersistent
  BY <1>1, <1>2, PersistentStep
<1>3. ASSUME NEW size \in Sizes, NEW align \in Alignments, AllocateTemp(size, align)
      PROVE  IInv' /\ Promise!GrantTemp
  BY <1>1, <1>3, TempStep
<1>4. ASSUME NEW size \in Sizes, NEW align \in Alignments,
             \/ ResizeBuffer(size, align)
             \/ AllocateResizableBuffer(size, align)
             \/ ReserveNonPersistentOverlayMemory(size, align)
      PROVE  IInv' /\ Promise!ReplaceSection
  BY <1>1, <1>4, FlagStep
<1>5. ASSUME NEW i \in Live, DeallocateTemp(i)
      PROVE  IInv' /\ Promise!FreeTemp
  BY <1>5, FreeStep
<1>6. CASE ResetTempAllocations
  BY <1>6, ResetStep
<1>7. CASE DeallocateResizableBuffer
  <2>1. 0 \in Nat /\ 1 \in Nat \ {0}
    OBVIOUS
  <2>2. QED
    BY <1>7, <2>1, FlagStep
<1>8. CASE UNCHANGED vars
  BY <1>8 DEF vars, IInv, Types, PersistentInside, SectionBelow, ChainInside, CountIsLive,
              Live, FlagIsGrant, Promise!promiseVars
<1>9. QED
  BY <1>2, <1>3, <1>4, <1>5, <1>6, <1>7, <1>8 DEF Next

LEMMA InitRefines == Init => Promise!PromiseInit
<1> SUFFICES ASSUME Init PROVE Promise!PromiseInit
  OBVIOUS
<1>1. SelfSizes[1] \in Nat /\ SelfSizes[2] \in Nat /\ BufferHead \in Nat /\ BufferTail \in Nat
      /\ BufferHead <= BufferTail /\ PersistentHead \in Nat /\ PersistentTail \in Nat
      /\ NonPersistentSelf >= PersistentHead
  BY ArenasAssumption DEF ArenasAssumption
<1>2. /\ NonPersistentSelf + SelfSizes[2] <= PersistentSelf
      /\ PersistentSelf + SelfSizes[1] <= PersistentTail
      /\ PersistentSelf \in Nat /\ NonPersistentSelf \in Nat
  BY <1>1, SelfBounds
<1>3. Region(BufferHead, 0) \in Regions
  BY <1>1 DEF Region, Regions, Within
<1>4. Region(PersistentSelf, SelfSizes[1]) \in Regions
  BY <1>1, <1>2 DEF Region, Regions, Within
<1>5. Region(NonPersistentSelf, SelfSizes[2]) \in Regions
  BY <1>1, <1>2 DEF Region, Regions, Within
<1>6. Region(PersistentSelf, SelfSizes[1]).start = PersistentSelf
      /\ Region(PersistentSelf, SelfSizes[1]).size = SelfSizes[1]
      /\ Region(NonPersistentSelf, SelfSizes[2]).start = NonPersistentSelf
      /\ Region(NonPersistentSelf, SelfSizes[2]).size = SelfSizes[2]
      /\ Region(BufferHead, 0).size = 0
  BY DEF Region
<1>7. \A p, q \in persistent : p = q \/ Promise!Apart(p, q)
  BY <1>2, <1>6 DEF Init, Promise!Apart
<1>8. QED
  BY <1>3, <1>4, <1>5, <1>6, <1>7 DEF Init, Promise!PromiseInit, Regions

\* The inductive invariant of the two arenas.
THEOREM Invariance == Spec => []IInv
<1>1. IInv /\ [Next]_vars => IInv'
  BY NextStep
<1>2. QED
  BY InitInvariant, <1>1, PTL DEF Spec

\* At most one resizable buffer is out, for every order of calls and every refusal.
THEOREM OneResizableAlways == Spec => []OneResizable
<1>1. IInv => OneResizable
  BY DEF IInv, FlagIsGrant, OneResizable
<1>2. QED
  BY <1>1, Invariance, PTL

\* The two allocators together implement the contract that the single-arena one implements.
THEOREM ImplementsPromise == Spec => KeepsPromise
<1>1. IInv /\ [Next]_vars => [Promise!PromiseNext]_(Promise!promiseVars)
  BY NextStep
<1>2. QED
  BY InitRefines, Invariance, <1>1, PTL DEF Spec, KeepsPromise, Promise!PromiseSpec
=============================================================================
