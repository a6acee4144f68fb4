---------------------------- MODULE GreedyPlanner ---------------------------
(***************************************************************************)
(* GreedyMemoryPlanner: lays buffers out in the head section so that those *)
(* that are live at the same time do not share memory.  Offline-planned    *)
(* buffers keep the offset the model file gives them; the others are       *)
(* placed, largest first, in the lowest gap between the placed buffers     *)
(* that are live at the same time.                                         *)
(*                                                                         *)
(* CalculateOffsetsIfNeeded is one call in the code; here each iteration   *)
(* of its placement loop and of its gap search is a step, so that the      *)
(* loops have invariants.  Buffers are numbered from 1.  The offset-       *)
(* ordered linked list is the sequence byOffset of buffer numbers.         *)
(***************************************************************************)
EXTENDS Integers, Sequences, FiniteSets, SequencesExt

CONSTANTS
  MaxBufferCount,    \* max_buffer_count_: what the scratch memory has room for
  IntMax,            \* INT_MAX
  Sizes,             \* sizes clients ask for
  Times,             \* points of the allocation timeline
  OfflineOffsets     \* offsets an offline plan may name

kOnlinePlannedBuffer == -1

ASSUME PlannerAssumption ==
  /\ MaxBufferCount \in Nat
  /\ IntMax \in Nat
  /\ Sizes \subseteq -IntMax..IntMax
  /\ Times \subseteq Int
  /\ OfflineOffsets \subseteq -IntMax..IntMax

VARIABLES
  requirements,          \* requirements_[0 .. buffer_count_ - 1]
  offsets,               \* buffer_offsets_
  byOffset,              \* the list headed by first_entry_index_
  needToCalculate,       \* need_to_calculate_offsets_
  overflowed,            \* plan_overflowed_
  pc,                    \* where CalculateOffsetsIfNeeded is
  wanted,                \* buffer_id: the buffer being placed
  prior,                 \* prior_entry: a position of byOffset, 0 for nullptr
  candidate              \* candidate_offset

locals == <<wanted, prior, candidate>>       \* the loop's locals: 0 outside their scope
vars == <<requirements, offsets, byOffset, needToCalculate, overflowed, pc, locals>>

LeaveScope == wanted' = 0 /\ prior' = 0 /\ candidate' = 0

Buffers == DOMAIN requirements
Size(b) == requirements[b].size
IsOffline(b) == requirements[b].offlineOffset # kOnlinePlannedBuffer
End(b) == offsets[b] + Size(b)
Placed == Range(byOffset)
Unplaced == Buffers \ Placed

\* A slip in the definition below: buffers that meet at one point of time do not overlap.
OverlapStrictly(a, b) ==
  /\ requirements[a].first < requirements[b].last
  /\ requirements[b].first < requirements[a].last

\* DoesEntryOverlapInTime
OverlapInTime(a, b) ==
  /\ requirements[a].first <= requirements[b].last
  /\ requirements[b].first <= requirements[a].last

\* The order of buffer_ids_sorted_: offline buffers as they were added, then the online
\* ones by descending size.  These are stored from the tail and the sort is stable, so of
\* equal sizes the one added last comes first.
Precedes(a, b) ==
  \/ IsOffline(a) /\ ~IsOffline(b)
  \/ IsOffline(a) /\ IsOffline(b) /\ a < b
  \/ /\ ~IsOffline(a) /\ ~IsOffline(b)
     /\ Size(a) > Size(b) \/ (Size(a) = Size(b) /\ a > b)

IsNext(b) == b \in Unplaced /\ \A c \in Unplaced \ {b} : Precedes(b, c)

Init ==
  /\ requirements = <<>>
  /\ offsets = <<>>
  /\ byOffset = <<>>
  /\ needToCalculate = TRUE
  /\ overflowed = FALSE
  /\ pc = "idle"
  /\ wanted = 0
  /\ prior = 0
  /\ candidate = 0

-----------------------------------------------------------------------------
\* A slip in the definition below: a negative size is taken.
AddAnyBuffer(size, first, last, offlineOffset) ==
  /\ pc = "idle"
  /\ Len(requirements) < MaxBufferCount
  /\ requirements' = Append(requirements,
       [size |-> size, first |-> first, last |-> last, offlineOffset |-> offlineOffset])
  /\ needToCalculate' = TRUE
  /\ UNCHANGED <<offsets, byOffset, overflowed, pc, locals>>

AddBuffer(size, first, last, offlineOffset) ==
  /\ pc = "idle"
  /\ Len(requirements) < MaxBufferCount
  /\ size >= 0
  /\ requirements' = Append(requirements,
       [size |-> size, first |-> first, last |-> last, offlineOffset |-> offlineOffset])
  /\ needToCalculate' = TRUE
  /\ UNCHANGED <<offsets, byOffset, overflowed, pc, locals>>

AddOnlineBuffer(size, first, last) == AddBuffer(size, first, last, kOnlinePlannedBuffer)

AddOfflineBuffer(size, first, last, offlineOffset) ==
  /\ offlineOffset >= 0
  /\ size <= IntMax - offlineOffset
  /\ AddBuffer(size, first, last, offlineOffset)

\* CalculateOffsetsIfNeeded up to the placement loop.  The first buffer goes to its
\* offline offset, or to 0.
StartPlan(b) ==
  /\ pc = "idle"
  /\ needToCalculate
  /\ \A c \in Buffers \ {b} : Precedes(b, c)
  /\ needToCalculate' = FALSE
  /\ overflowed' = FALSE
  /\ offsets' = [c \in Buffers |->
       IF c = b /\ ~IsOffline(c) THEN 0 ELSE requirements[c].offlineOffset]
  /\ byOffset' = <<b>>
  /\ pc' = "next"
  /\ UNCHANGED <<requirements, locals>>

\* The head of the placement loop: take the next buffer of the order, or end.
TakeNext(b) ==
  /\ pc = "next"
  /\ IsNext(b)
  /\ wanted' = b
  /\ prior' = 0
  /\ candidate' = IF IsOffline(b) THEN requirements[b].offlineOffset ELSE 0
  /\ pc' = IF IsOffline(b) THEN "insert" ELSE "search"
  /\ UNCHANGED <<requirements, offsets, byOffset, needToCalculate, overflowed>>

EndPlan ==
  /\ pc = "next"
  /\ Unplaced = {}
  /\ pc' = "idle"
  /\ UNCHANGED <<requirements, offsets, byOffset, needToCalculate, overflowed, locals>>

\* A slip in the definition below: every entry of the list counts as live.
IsNextInList(k, b) == k = prior + 1 /\ k <= Len(byOffset)

\* NextSimultaneouslyActiveBuffer: k is the first position after prior whose buffer is
\* live together with b.
IsNextActive(k, b) ==
  /\ k \in prior + 1..Len(byOffset)
  /\ OverlapInTime(byOffset[k], b)
  /\ \A j \in prior + 1..k - 1 : ~OverlapInTime(byOffset[j], b)

NoNextActive(b) == \A k \in prior + 1..Len(byOffset) : ~OverlapInTime(byOffset[k], b)

AfterPrior ==
  IF prior # 0 /\ End(byOffset[prior]) > candidate THEN End(byOffset[prior]) ELSE candidate

\* One iteration of the gap search.
FindGap ==
  /\ pc = "search"
  /\ \/ NoNextActive(wanted)
     \/ \E k \in DOMAIN byOffset :
          IsNextActive(k, wanted) /\ offsets[byOffset[k]] - AfterPrior >= Size(wanted)
  /\ candidate' = AfterPrior
  /\ pc' = "insert"
  /\ UNCHANGED <<requirements, offsets, byOffset, needToCalculate, overflowed, wanted, prior>>

\* A slip in the definition below: the search does not move on.
SkipGapWithoutMoving ==
  /\ pc = "search"
  /\ \E k \in DOMAIN byOffset :
       IsNextActive(k, wanted) /\ offsets[byOffset[k]] - AfterPrior < Size(wanted)
  /\ candidate' = AfterPrior
  /\ UNCHANGED <<requirements, offsets, byOffset, needToCalculate, overflowed, pc, wanted, prior>>

SkipGap ==
  /\ pc = "search"
  /\ \E k \in DOMAIN byOffset :
       /\ IsNextActive(k, wanted)
       /\ offsets[byOffset[k]] - AfterPrior < Size(wanted)
       /\ prior' = k
  /\ candidate' = AfterPrior
  /\ UNCHANGED <<requirements, offsets, byOffset, needToCalculate, overflowed, pc, wanted>>

\* The new entry goes before the first entry with a greater offset.
InsertPosition(k) ==
  /\ k \in 1..Len(byOffset) + 1
  /\ \A j \in 1..k - 1 : offsets[byOffset[j]] <= candidate
  /\ k <= Len(byOffset) => offsets[byOffset[k]] > candidate

\* A slip in the definition below: no overflow check.
InsertUnchecked ==
  /\ pc = "insert"
  /\ offsets' = [offsets EXCEPT ![wanted] = candidate]
  /\ \E k \in 1..Len(byOffset) + 1 :
       InsertPosition(k) /\ byOffset' = InsertAt(byOffset, k, wanted)
  /\ pc' = "next"
  /\ LeaveScope
  /\ UNCHANGED <<requirements, needToCalculate, overflowed>>

Insert ==
  /\ pc = "insert"
  /\ candidate <= IntMax - Size(wanted)
  /\ offsets' = [offsets EXCEPT ![wanted] = candidate]
  /\ \E k \in 1..Len(byOffset) + 1 :
       InsertPosition(k) /\ byOffset' = InsertAt(byOffset, k, wanted)
  /\ pc' = "next"
  /\ LeaveScope
  /\ UNCHANGED <<requirements, needToCalculate, overflowed>>

\* The buffer would pass INT_MAX: the plan is abandoned half-way.
Overflow ==
  /\ pc = "insert"
  /\ candidate > IntMax - Size(wanted)
  /\ overflowed' = TRUE
  /\ pc' = "idle"
  /\ LeaveScope
  /\ UNCHANGED <<requirements, offsets, byOffset, needToCalculate>>

\* Init(): the planner is handed new scratch memory and forgets its buffers.
Reinit ==
  /\ pc = "idle"
  /\ requirements # <<>>
  /\ requirements' = <<>>
  /\ needToCalculate' = TRUE
  /\ overflowed' = FALSE
  /\ offsets' = <<>>
  /\ byOffset' = <<>>
  /\ UNCHANGED <<pc, locals>>

CalculateStep ==
  \/ \E b \in Buffers : TakeNext(b)
  \/ EndPlan
  \/ FindGap
  \/ SkipGap
  \/ Insert
  \/ Overflow

ClientStep ==
  \/ \E size \in Sizes, first, last \in Times :
       /\ first <= last
       /\ \/ AddOnlineBuffer(size, first, last)
          \/ \E offset \in OfflineOffsets : AddOfflineBuffer(size, first, last, offset)
  \/ \E b \in Buffers : StartPlan(b)
  \/ Reinit

Next == ClientStep \/ CalculateStep

\* CalculateOffsetsIfNeeded is one synchronous call: once entered it runs on.
Spec == Init /\ [][Next]_vars /\ WF_vars(CalculateStep)

-----------------------------------------------------------------------------
\* What GetOffsetForBuffer may hand out: a plan is in force.
HasPlan == pc = "idle" /\ ~needToCalculate /\ ~overflowed

\* A slip in the definition below: the last entry of the list need not end last.
EndOfLastEntry == End(byOffset[Len(byOffset)])

GetMaximumMemorySize ==
  CHOOSE m \in {End(b) : b \in Placed} : \A b \in Placed : End(b) <= m

Requirement == [size : Nat, first : Int, last : Int, offlineOffset : Nat \union {kOnlinePlannedBuffer}]

TypeOK ==
  /\ requirements \in Seq(Requirement)
  /\ offsets \in Seq(Int)
  /\ byOffset \in Seq(Nat)
  /\ needToCalculate \in BOOLEAN /\ overflowed \in BOOLEAN
  /\ pc \in {"idle", "next", "search", "insert"}
  /\ wanted \in Nat /\ prior \in Nat /\ candidate \in Nat

ApartInMemory(a, b) == End(a) <= offsets[b] \/ End(b) <= offsets[a]

Calculating == pc # "idle"
PlanIsCurrent == Calculating \/ ~needToCalculate

\* Both buffers are in use at some point of the timeline.
LiveTogether(a, b) ==
  \E t \in requirements[a].first..requirements[a].last :
    t \in requirements[b].first..requirements[b].last

\* Buffers that are live at the same time never share memory, unless both offsets were
\* fixed by the offline plan: at every point of the placement loop, for every set of
\* requirements (CalculateOffsetsIfNeeded, DoAnyBuffersOverlap).
NoOverlap ==
  PlanIsCurrent => \A a, b \in Placed :
    a # b /\ LiveTogether(a, b) /\ ~(IsOffline(a) /\ IsOffline(b)) => ApartInMemory(a, b)

\* A plan in force covers every buffer once, keeps the offline offsets, and its high-water
\* mark bounds every buffer, so the overlay that MicroAllocator reserves holds them all.
PlanComplete == HasPlan /\ requirements # <<>> =>
  /\ Placed = Buffers /\ Len(byOffset) = Len(requirements)
  /\ \A b \in Buffers :
       /\ IsOffline(b) => offsets[b] = requirements[b].offlineOffset
       /\ offsets[b] >= 0 /\ End(b) <= GetMaximumMemorySize
  /\ GetMaximumMemorySize <= IntMax

\* "The first gap the current buffer fits into will be used" (greedy_memory_planner.h):
\* no lower offset was free of every placed buffer live at the same time.
FirstFit == pc = "insert" /\ ~IsOffline(wanted) =>
  \A c \in 0..candidate - 1 : \E a \in Placed :
    /\ OverlapInTime(a, wanted)
    /\ c + Size(wanted) > offsets[a]
    /\ c < End(a)

\* The int sums of the gap search (prior offset + size, gap) stay in the range of int.
NoIntOverflow == Calculating =>
  /\ \A b \in Placed : offsets[b] \in 0..IntMax /\ End(b) <= IntMax
  /\ pc = "search" => AfterPrior \in 0..IntMax

\* Every call of CalculateOffsetsIfNeeded returns.
PlanningEnds == Calculating ~> ~Calculating
=============================================================================
