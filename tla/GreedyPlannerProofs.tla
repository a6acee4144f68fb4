------------------------- MODULE GreedyPlannerProofs ------------------------
(***************************************************************************)
(* Theorems about GreedyPlanner, for every number of buffers, every size   *)
(* and lifetime, every offline plan and every INT_MAX.                     *)
(*                                                                         *)
(* The argument: the list is sorted by offset, so when the gap search      *)
(* stops before position k every placed buffer that is live with the       *)
(* wanted one either lies before k, and ends at or below the candidate, or *)
(* lies at k or after, and starts at or above the candidate's end.         *)
(* Offline buffers are all placed before the first online one, so placing  *)
(* one can only meet another offline buffer.                               *)
(***************************************************************************)
EXTENDS GreedyPlanner, FiniteSetTheorems, WellFoundedInduction, TLAPS

-----------------------------------------------------------------------------
\* The parts of the inductive invariant.

\* What AddBuffer lets in.
RequirementsFit == \A b \in Buffers :
  /\ Size(b) <= IntMax
  /\ IsOffline(b) => requirements[b].offlineOffset + Size(b) <= IntMax

ListOfBuffers ==
  /\ DOMAIN offsets = Buffers
  /\ \A k \in DOMAIN byOffset : byOffset[k] \in Buffers
  /\ \A j, k \in DOMAIN byOffset : byOffset[j] = byOffset[k] => j = k

Sorted == \A j, k \in DOMAIN byOffset : j < k => offsets[byOffset[j]] <= offsets[byOffset[k]]

PlacedInRange == \A b \in Placed : offsets[b] >= 0 /\ End(b) <= IntMax

PlacedPrecede == \A p \in Placed, u \in Unplaced : Precedes(p, u)

PlacedApart == PlanIsCurrent => \A a, b \in Placed :
  a # b /\ OverlapInTime(a, b) /\ ~(IsOffline(a) /\ IsOffline(b)) => ApartInMemory(a, b)

WantedIsNext == pc \in {"search", "insert"} => IsNext(wanted) /\ candidate <= IntMax

\* The gap search: every simultaneously live buffer before prior ends at or below the
\* candidate, and every offset below the candidate was refused by some placed buffer.
Refused(c) == \E a \in Placed :
  /\ OverlapInTime(a, wanted)
  /\ c + Size(wanted) > offsets[a]
  /\ c < End(a)

SearchProgress == pc = "search" =>
  /\ ~IsOffline(wanted)
  /\ prior \in 0..Len(byOffset)
  /\ \A j \in 1..prior - 1 : OverlapInTime(byOffset[j], wanted) => End(byOffset[j]) <= candidate
  /\ prior # 0 => /\ OverlapInTime(byOffset[prior], wanted)
                  /\ candidate + Size(wanted) > offsets[byOffset[prior]]
  /\ \A c \in 0..candidate - 1 : Refused(c)

GapIsFree == pc = "insert" =>
  IF IsOffline(wanted)
  THEN candidate = requirements[wanted].offlineOffset
  ELSE /\ \A a \in Placed : OverlapInTime(a, wanted) =>
            End(a) <= candidate \/ candidate + Size(wanted) <= offsets[a]
       /\ \A c \in 0..candidate - 1 : Refused(c)

PlanInv == PlanIsCurrent =>
  /\ ListOfBuffers /\ Sorted /\ PlacedInRange /\ PlacedPrecede /\ PlacedApart
  /\ WantedIsNext /\ SearchProgress /\ GapIsFree

IInv == TypeOK /\ RequirementsFit /\ PlanInv

-----------------------------------------------------------------------------
\* Inserting into a sequence of buffer numbers shifts the rest up by one place.
LEMMA InsertAtProperties ==
  ASSUME NEW s \in Seq(Nat), NEW e \in Nat, NEW k \in 1..Len(s) + 1
  PROVE  /\ InsertAt(s, k, e) \in Seq(Nat)
         /\ DOMAIN InsertAt(s, k, e) = 1..Len(s) + 1
         /\ \A i \in 1..k - 1 : InsertAt(s, k, e)[i] = s[i]
         /\ InsertAt(s, k, e)[k] = e
         /\ \A i \in k + 1..Len(s) + 1 : InsertAt(s, k, e)[i] = s[i - 1]
<1> DEFINE front == SubSeq(s, 1, k - 1)
           back == SubSeq(s, k, Len(s))
<1>1. /\ front \in Seq(Nat) /\ Len(front) = k - 1
      /\ \A i \in 1..k - 1 : front[i] = s[i]
  OBVIOUS
<1>2. /\ back \in Seq(Nat) /\ Len(back) = Len(s) + 1 - k
      /\ \A i \in 1..Len(s) + 1 - k : back[i] = s[k + i - 1]
  OBVIOUS
<1>3. InsertAt(s, k, e) = front \o <<e>> \o back
  BY DEF InsertAt
<1>4. /\ front \o <<e>> \in Seq(Nat) /\ Len(front \o <<e>>) = k
      /\ \A i \in 1..k - 1 : (front \o <<e>>)[i] = s[i]
      /\ (front \o <<e>>)[k] = e
  <2> HIDE DEF front
  <2>1. <<e>> \in Seq(Nat) /\ Len(<<e>>) = 1 /\ <<e>>[1] = e
    OBVIOUS
  <2>2. front \o <<e>> \in Seq(Nat) /\ Len(front \o <<e>>) = k
    BY <1>1, <2>1
  <2>3. \A i \in 1..k - 1 : (front \o <<e>>)[i] = s[i]
    BY <1>1, <2>1
  <2>4. (front \o <<e>>)[k] = e
    BY <1>1, <2>1
  <2>5. QED
    BY <2>2, <2>3, <2>4
<1> DEFINE both == front \o <<e>>
<1>5. InsertAt(s, k, e) = both \o back
  BY <1>3
<1> HIDE DEF both, back
<1>6. /\ both \o back \in Seq(Nat)
      /\ Len(both \o back) = Len(s) + 1
      /\ \A i \in 1..k : (both \o back)[i] = both[i]
      /\ \A i \in k + 1..Len(s) + 1 : (both \o back)[i] = back[i - k]
  BY <1>2, <1>4 DEF both
<1>7. \A i \in k + 1..Len(s) + 1 : back[i - k] = s[i - 1]
  BY <1>2
<1>8. QED
  BY <1>4, <1>5, <1>6, <1>7 DEF both

\* Inserting adds the inserted buffer to the list's buffers and nothing else.
LEMMA InsertAtRange ==
  ASSUME NEW s \in Seq(Nat), NEW e \in Nat, NEW k \in 1..Len(s) + 1
  PROVE  Range(InsertAt(s, k, e)) = Range(s) \union {e}
<1> DEFINE t == InsertAt(s, k, e)
<1>1. /\ DOMAIN t = 1..Len(s) + 1
      /\ \A i \in 1..k - 1 : t[i] = s[i]
      /\ t[k] = e
      /\ \A i \in k + 1..Len(s) + 1 : t[i] = s[i - 1]
  BY SMTT(30), InsertAtProperties
<1>2. Len(s) \in Nat /\ DOMAIN s = 1..Len(s) /\ k \in Nat
  OBVIOUS
<1> HIDE DEF t
<1>3. ASSUME NEW i \in DOMAIN t PROVE t[i] \in Range(s) \union {e}
  <2>1. i \in 1..k - 1 \/ i = k \/ i \in k + 1..Len(s) + 1
    BY <1>1, <1>2
  <2>2. CASE i \in 1..k - 1
    BY <2>2, <1>1, <1>2 DEF Range
  <2>3. CASE i \in k + 1..Len(s) + 1
    <3>1. i - 1 \in DOMAIN s /\ t[i] = s[i - 1]
      BY <2>3, <1>1, <1>2
    <3>2. QED
      BY <3>1 DEF Range
  <2>4. QED
    BY <2>1, <2>2, <2>3, <1>1
<1>4. ASSUME NEW i \in DOMAIN s PROVE s[i] \in Range(t)
  <2>1. CASE i < k
    BY <2>1, <1>1, <1>2 DEF Range
  <2>2. CASE i >= k
    <3>1. i + 1 \in DOMAIN t /\ t[i + 1] = s[i]
      BY <2>2, <1>1, <1>2
    <3>2. QED
      BY <3>1 DEF Range
  <2>3. QED
    BY <2>1, <2>2, <1>2
<1>5. e \in Range(t)
  BY <1>1, <1>2 DEF Range
<1>6. Range(t) = Range(s) \union {e}
  BY <1>3, <1>4, <1>5 DEF Range
<1>7. QED
  BY <1>6 DEF t

LEMMA BufferTypes ==
  ASSUME TypeOK
  PROVE  /\ \A b \in Buffers : /\ b \in Nat /\ Size(b) \in Nat
                               /\ requirements[b].first \in Int /\ requirements[b].last \in Int
                               /\ IsOffline(b) => requirements[b].offlineOffset \in Nat
         /\ DOMAIN byOffset = 1..Len(byOffset) /\ Len(byOffset) \in Nat
         /\ \A b \in DOMAIN offsets : offsets[b] \in Int
         /\ Placed = {byOffset[k] : k \in DOMAIN byOffset}
<1>1. \A b \in Buffers : b \in Nat /\ requirements[b] \in Requirement
  BY DEF TypeOK, Buffers
<1>2. QED
  BY <1>1 DEF TypeOK, Requirement, Size, IsOffline, Placed, Range, kOnlinePlannedBuffer

\* The order of the placement loop is transitive and total.
LEMMA PrecedesOrder ==
  ASSUME TypeOK, NEW a \in Buffers, NEW b \in Buffers, NEW c \in Buffers
  PROVE  /\ Precedes(a, b) /\ Precedes(b, c) => Precedes(a, c)
         /\ Precedes(a, b) /\ IsOffline(b) => IsOffline(a)
<1>1. \A x \in Buffers : x \in Nat /\ Size(x) \in Nat
  BY BufferTypes
<1>2. QED
  BY <1>1 DEF Precedes

-----------------------------------------------------------------------------
LEMMA InitInvariant == Init => IInv
<1> SUFFICES ASSUME Init PROVE IInv
  OBVIOUS
<1>1. TypeOK
  <2>1. \A S : <<>> \in Seq(S)
    OBVIOUS
  <2>2. QED
    BY <2>1 DEF Init, TypeOK
<1>2. RequirementsFit
  BY DEF Init, RequirementsFit, Buffers
<1>3. ~PlanIsCurrent
  BY DEF Init, PlanIsCurrent, Calculating
<1>4. QED
  BY <1>1, <1>2, <1>3 DEF IInv, PlanInv

LEMMA AddKeepsInvariant ==
  ASSUME IInv, NEW size \in Sizes, NEW first \in Int, NEW last \in Int,
         NEW offset \in Nat \union {kOnlinePlannedBuffer},
         offset # kOnlinePlannedBuffer => size <= IntMax - offset,
         AddBuffer(size, first, last, offset)
  PROVE  IInv'
<1> DEFINE new == [size |-> size, first |-> first, last |-> last, offlineOffset |-> offset]
<1>1. /\ requirements' = Append(requirements, new) /\ size >= 0
      /\ ~PlanIsCurrent'
      /\ UNCHANGED <<offsets, byOffset, overflowed, pc, wanted, prior, candidate>>
      /\ needToCalculate' = TRUE
  BY DEF AddBuffer, PlanIsCurrent, Calculating, locals
<1>2. size \in Nat /\ size <= IntMax /\ IntMax \in Nat
  BY <1>1, PlannerAssumption DEF PlannerAssumption
<1>3. new \in Requirement
  BY <1>2 DEF Requirement
<1>4. /\ requirements' \in Seq(Requirement)
      /\ DOMAIN requirements' = Buffers \union {Len(requirements) + 1}
      /\ \A b \in Buffers : requirements'[b] = requirements[b]
      /\ requirements'[Len(requirements) + 1] = new
  BY <1>1, <1>3 DEF IInv, TypeOK, Buffers
<1>5. TypeOK'
  BY <1>1, <1>4 DEF IInv, TypeOK
<1>6. RequirementsFit'
  <2> SUFFICES ASSUME NEW b \in Buffers'
               PROVE  /\ requirements'[b].size <= IntMax
                      /\ requirements'[b].offlineOffset # kOnlinePlannedBuffer =>
                            requirements'[b].offlineOffset + requirements'[b].size <= IntMax
    BY DEF RequirementsFit, Size, IsOffline
  <2>1. CASE b \in Buffers
    BY <2>1, <1>4 DEF IInv, RequirementsFit, Size, IsOffline
  <2>2. CASE b = Len(requirements) + 1
    BY <2>2, <1>2, <1>4 DEF kOnlinePlannedBuffer
  <2>3. QED
    BY <2>1, <2>2, <1>4 DEF Buffers
<1>7. QED
  BY <1>1, <1>5, <1>6 DEF IInv, PlanInv

LEMMA StartKeepsInvariant ==
  ASSUME IInv, NEW b \in Buffers, StartPlan(b)
  PROVE  IInv'
<1> USE DEF StartPlan, IInv, locals
<1>1. /\ DOMAIN offsets' = Buffers
      /\ \A c \in Buffers : offsets'[c] = IF c = b /\ ~IsOffline(c) THEN 0 ELSE requirements[c].offlineOffset
      /\ DOMAIN byOffset' = {1} /\ byOffset'[1] = b /\ Placed' = {b}
  BY DEF Placed, Range
<1>2. \A c \in Buffers : requirements[c].offlineOffset \in Int
  <2>1. \A c \in Buffers : requirements[c] \in Requirement
    BY DEF TypeOK, Buffers
  <2>2. QED
    BY <2>1 DEF Requirement, kOnlinePlannedBuffer
<1>3. offsets' \in Seq(Int)
  <2>1. offsets' \in [1..Len(requirements) -> Int] /\ Len(requirements) \in Nat
    BY <1>1, <1>2 DEF TypeOK, Buffers
  <2>2. QED
    BY <2>1 DEF Seq
<1>4. TypeOK'
  <2>1. byOffset' \in Seq(Nat)
    BY BufferTypes
  <2>2. QED
    BY <1>3, <2>1 DEF TypeOK
<1>5. RequirementsFit'
  BY DEF RequirementsFit, Buffers, Size, IsOffline
<1>6. (ListOfBuffers /\ Sorted)'
  BY <1>1 DEF ListOfBuffers, Sorted, Buffers
<1>7. PlacedInRange'
  <2>1. offsets'[b] >= 0 /\ offsets'[b] + Size(b) <= IntMax
    BY <1>1, BufferTypes DEF RequirementsFit
  <2>2. QED
    BY <2>1, <1>1 DEF PlacedInRange, End, Size
<1>8. PlacedPrecede'
  BY <1>1 DEF PlacedPrecede, Unplaced, Buffers, Precedes, IsOffline, Size
<1>9. PlacedApart'
  BY <1>1 DEF PlacedApart
<1>10. QED
  BY <1>4, <1>5, <1>6, <1>7, <1>8, <1>9
     DEF PlanInv, WantedIsNext, SearchProgress, GapIsFree

\* The steps that move the search along leave the plan so far as it is.
LEMMA SamePlan ==
  ASSUME IInv, Calculating, UNCHANGED <<requirements, offsets, byOffset>>
  PROVE  /\ RequirementsFit' /\ ListOfBuffers' /\ Sorted' /\ PlacedInRange' /\ PlacedPrecede'
         /\ PlacedApart'
<1>1. PlanIsCurrent /\ PlacedApart
  BY DEF IInv, PlanInv, PlanIsCurrent
<1>2. PlacedApart'
  BY <1>1 DEF PlacedApart, Placed, OverlapInTime, IsOffline, ApartInMemory, End, Size
<1>3. QED
  BY <1>1, <1>2 DEF IInv, PlanInv, RequirementsFit, ListOfBuffers, Sorted, PlacedInRange, PlacedPrecede,
         Buffers, Size, End, IsOffline, Placed, Unplaced, Precedes

LEMMA TakeKeepsInvariant ==
  ASSUME IInv, NEW b \in Buffers, TakeNext(b)
  PROVE  IInv'
<1> USE DEF TakeNext, IInv
<1>1. Calculating
  BY DEF Calculating
<1>2. b \in Nat /\ Size(b) \in Nat /\ (IsOffline(b) => requirements[b].offlineOffset \in Nat)
  BY BufferTypes
<1>3. TypeOK'
  BY <1>2 DEF TypeOK
<1>4. WantedIsNext'
  <2>1. IsNext(b)'
    BY DEF IsNext, Unplaced, Placed, Buffers, Precedes, IsOffline, Size
  <2>2. candidate' <= IntMax
    BY <1>2, PlannerAssumption DEF PlannerAssumption, RequirementsFit
  <2>3. QED
    BY <2>1, <2>2 DEF WantedIsNext
<1>5. SearchProgress'
  BY DEF SearchProgress, IsOffline, TypeOK
<1>6. GapIsFree'
  BY DEF GapIsFree, IsOffline
<1>7. QED
  BY <1>1, <1>3, <1>4, <1>5, <1>6, SamePlan DEF PlanInv

LEMMA EndKeepsInvariant ==
  ASSUME IInv, EndPlan \/ Overflow
  PROVE  IInv'
<1>1. Calculating /\ UNCHANGED <<requirements, offsets, byOffset, needToCalculate>> /\ pc' = "idle"
  BY DEF EndPlan, Overflow, Calculating
<1>2. TypeOK'
  <2>1. CASE EndPlan
    BY <2>1 DEF EndPlan, locals, IInv, TypeOK
  <2>2. CASE Overflow
    <3>1. /\ wanted' = 0 /\ prior' = 0 /\ candidate' = 0 /\ overflowed' = TRUE
      BY <2>2 DEF Overflow, LeaveScope
    <3>2. QED
      BY <3>1, <1>1 DEF IInv, TypeOK
  <2>3. QED
    BY <2>1, <2>2
<1>3. (WantedIsNext /\ SearchProgress /\ GapIsFree)'
  BY <1>1 DEF WantedIsNext, SearchProgress, GapIsFree
<1>4. QED
  BY <1>1, <1>2, <1>3, SamePlan DEF IInv, PlanInv

\* What one iteration of the search knows before it looks at the next entry.
LEMMA SearchFacts ==
  ASSUME IInv, pc = "search"
  PROVE  /\ PlanIsCurrent /\ Calculating /\ wanted \in Buffers /\ Size(wanted) \in Nat
         /\ AfterPrior \in Nat /\ AfterPrior >= candidate /\ AfterPrior <= IntMax
         /\ prior \in 0..Len(byOffset)
         /\ \A j \in 1..prior : OverlapInTime(byOffset[j], wanted) => End(byOffset[j]) <= AfterPrior
         /\ \A c \in 0..AfterPrior - 1 : Refused(c)
         /\ \A k \in DOMAIN byOffset : /\ offsets[byOffset[k]] \in Nat
                                       /\ End(byOffset[k]) \in Nat
                                       /\ byOffset[k] \in Placed
<1> USE DEF IInv
<1>1. PlanIsCurrent /\ Calculating
  BY DEF PlanIsCurrent, Calculating
<1>3. ListOfBuffers /\ Sorted /\ PlacedInRange /\ WantedIsNext /\ SearchProgress
  BY <1>1 DEF PlanInv
<1>4. wanted \in Buffers /\ Size(wanted) \in Nat /\ candidate \in Nat /\ candidate <= IntMax
  BY <1>3, BufferTypes DEF WantedIsNext, IsNext, Unplaced, TypeOK
<1>5. \A k \in DOMAIN byOffset : /\ offsets[byOffset[k]] \in Nat /\ End(byOffset[k]) \in Nat
                                 /\ byOffset[k] \in Placed /\ End(byOffset[k]) <= IntMax
  <2> SUFFICES ASSUME NEW k \in DOMAIN byOffset
               PROVE  /\ offsets[byOffset[k]] \in Nat /\ End(byOffset[k]) \in Nat
                      /\ byOffset[k] \in Placed /\ End(byOffset[k]) <= IntMax
    OBVIOUS
  <2>1. byOffset[k] \in Buffers /\ byOffset[k] \in Placed /\ byOffset[k] \in DOMAIN offsets
    BY <1>3, BufferTypes DEF ListOfBuffers
  <2>2. QED
    BY <2>1, <1>3, BufferTypes DEF PlacedInRange, End
<1>6. prior \in 0..Len(byOffset) /\ (prior # 0 => prior \in DOMAIN byOffset)
  BY <1>3, BufferTypes DEF SearchProgress
<1>7. AfterPrior \in Nat /\ AfterPrior >= candidate /\ AfterPrior <= IntMax
  BY <1>4, <1>5, <1>6 DEF AfterPrior
<1>8. prior # 0 => End(byOffset[prior]) <= AfterPrior
  BY <1>4, <1>5, <1>6 DEF AfterPrior
<1>9. ASSUME NEW j \in 1..prior, OverlapInTime(byOffset[j], wanted)
      PROVE  End(byOffset[j]) <= AfterPrior
  <2>1. CASE j = prior
    BY <2>1, <1>6, <1>8
  <2>2. CASE j # prior
    <3>1. j \in 1..prior - 1 /\ j \in DOMAIN byOffset
      BY <2>2, <1>6, BufferTypes
    <3>2. End(byOffset[j]) <= candidate
      BY <3>1, <1>3, <1>9 DEF SearchProgress
    <3>3. QED
      BY <3>1, <3>2, <1>4, <1>5, <1>7
  <2>3. QED
    BY <2>1, <2>2
<1>10. ASSUME NEW c \in 0..AfterPrior - 1
       PROVE  Refused(c)
  <2>1. CASE c < candidate
    BY <2>1, <1>3, <1>4 DEF SearchProgress
  <2>2. CASE c >= candidate
    <3>1. prior # 0 /\ AfterPrior = End(byOffset[prior])
      BY <2>2, <1>4, <1>7 DEF AfterPrior
    <3>2. /\ OverlapInTime(byOffset[prior], wanted)
          /\ candidate + Size(wanted) > offsets[byOffset[prior]]
          /\ byOffset[prior] \in Placed /\ offsets[byOffset[prior]] \in Nat
      BY <3>1, <1>3, <1>5, <1>6 DEF SearchProgress
    <3>3. c + Size(wanted) > offsets[byOffset[prior]] /\ c < End(byOffset[prior])
      BY <2>2, <3>1, <3>2, <1>4, <1>7
    <3>4. QED
      BY <3>2, <3>3 DEF Refused
  <2>3. QED
    BY <2>1, <2>2, <1>4, <1>7
<1>11. QED
  BY <1>1, <1>4, <1>5, <1>6, <1>7, <1>9, <1>10

LEMMA FindKeepsInvariant ==
  ASSUME IInv, FindGap
  PROVE  IInv'
<1> USE DEF FindGap, IInv
<1>1. TypeOK'
  BY SearchFacts DEF TypeOK
<1>2. ~IsOffline(wanted) /\ Sorted /\ ListOfBuffers /\ IsNext(wanted)
  BY SearchFacts DEF PlanInv, SearchProgress, WantedIsNext
<1>3. WantedIsNext'
  BY <1>2, SearchFacts DEF WantedIsNext, IsNext, Unplaced, Placed, Buffers, Precedes, IsOffline, Size
<1>4. SearchProgress'
  BY DEF SearchProgress
<1>5. ASSUME NEW a \in Placed, OverlapInTime(a, wanted)
      PROVE  End(a) <= AfterPrior \/ AfterPrior + Size(wanted) <= offsets[a]
  <2>1. PICK i \in DOMAIN byOffset : byOffset[i] = a
    BY <1>5, BufferTypes
  <2>2. i \in Nat /\ i \in 1..Len(byOffset) /\ prior \in Nat /\ Len(byOffset) \in Nat
    BY <2>1, BufferTypes, SearchFacts
  <2>3. CASE i <= prior
    BY <1>5, <2>1, <2>2, <2>3, SearchFacts
  <2>4. CASE i > prior
    <3>1. PICK k \in DOMAIN byOffset :
             IsNextActive(k, wanted) /\ offsets[byOffset[k]] - AfterPrior >= Size(wanted)
      BY <1>5, <2>1, <2>2, <2>4 DEF NoNextActive
    <3>2. k \in Nat /\ k <= i
      BY <1>5, <2>1, <2>2, <2>4, <3>1, BufferTypes DEF IsNextActive
    <3>3. offsets[byOffset[k]] <= offsets[byOffset[i]]
      BY SMTT(30), <2>1, <3>1, <3>2, <1>2, SearchFacts DEF Sorted
    <3>4. QED
      BY <2>1, <3>1, <3>3, SearchFacts
  <2>5. QED
    BY <2>2, <2>3, <2>4
<1>6. GapIsFree'
  <2>1. \A a : (OverlapInTime(a, wanted) <=> OverlapInTime(a, wanted)') /\ End(a)' = End(a)
    BY DEF OverlapInTime, End, Size
  <2>2. Placed' = Placed /\ Size(wanted)' = Size(wanted) /\ IsOffline(wanted)' = IsOffline(wanted)
    BY DEF Placed, Size, IsOffline
  <2>3. \A c \in 0..AfterPrior - 1 : Refused(c)'
    BY <2>1, <2>2, SearchFacts DEF Refused, Size
  <2>4. QED
    BY <1>2, <1>5, <2>1, <2>2, <2>3 DEF GapIsFree, Size
<1>7. QED
  BY <1>1, <1>3, <1>4, <1>6, SamePlan, SearchFacts DEF PlanInv

LEMMA SkipKeepsInvariant ==
  ASSUME IInv, SkipGap
  PROVE  IInv'
<1> USE DEF SkipGap, IInv
<1>1. ~IsOffline(wanted) /\ IsNext(wanted)
  BY SearchFacts DEF PlanInv, SearchProgress, WantedIsNext
<1>2. PICK k \in DOMAIN byOffset : /\ IsNextActive(k, wanted) /\ prior' = k
                                   /\ offsets[byOffset[k]] - AfterPrior < Size(wanted)
  OBVIOUS
<1>3. k \in 1..Len(byOffset) /\ k \in Nat /\ prior \in Nat /\ Len(byOffset) \in Nat
  BY BufferTypes, SearchFacts
<1>4. TypeOK'
  BY <1>2, <1>3, SearchFacts DEF TypeOK
<1>5. WantedIsNext'
  BY <1>1, SearchFacts DEF WantedIsNext, IsNext, Unplaced, Placed, Buffers, Precedes, IsOffline, Size
<1>6. ASSUME NEW j \in 1..k - 1, OverlapInTime(byOffset[j], wanted)
      PROVE  End(byOffset[j]) <= AfterPrior
  <2>1. j \in 1..prior
    BY <1>2, <1>3, <1>6 DEF IsNextActive
  <2>2. QED
    BY <1>6, <2>1, SearchFacts
<1>7. AfterPrior + Size(wanted) > offsets[byOffset[k]]
  BY <1>2, SearchFacts
<1>8. SearchProgress'
  <2>1. \A a : (OverlapInTime(a, wanted) <=> OverlapInTime(a, wanted)') /\ End(a)' = End(a)
    BY DEF OverlapInTime, End, Size
  <2>2. Placed' = Placed /\ Size(wanted)' = Size(wanted) /\ IsOffline(wanted)' = IsOffline(wanted)
    BY DEF Placed, Size, IsOffline
  <2>3. \A c \in 0..AfterPrior - 1 : Refused(c)'
    BY <2>1, <2>2, SearchFacts DEF Refused, Size
  <2>4. QED
    BY <1>1, <1>2, <1>3, <1>6, <1>7, <2>1, <2>2, <2>3 DEF SearchProgress, IsNextActive, Size
<1>9. GapIsFree'
  BY DEF GapIsFree
<1>10. QED
  BY <1>4, <1>5, <1>8, <1>9, SamePlan, SearchFacts DEF PlanInv

LEMMA InsertKeepsInvariant ==
  ASSUME IInv, Insert
  PROVE  IInv'
<1> USE DEF IInv
<1>1. /\ pc = "insert" /\ candidate <= IntMax - Size(wanted)
      /\ offsets' = [offsets EXCEPT ![wanted] = candidate]
      /\ pc' = "next" /\ wanted' = 0 /\ prior' = 0 /\ candidate' = 0
      /\ UNCHANGED <<requirements, needToCalculate, overflowed>>
  BY DEF Insert, LeaveScope
<1>2. PICK k \in 1..Len(byOffset) + 1 : InsertPosition(k) /\ byOffset' = InsertAt(byOffset, k, wanted)
  BY DEF Insert
<1>3. Calculating /\ PlanIsCurrent
  BY <1>1 DEF Calculating, PlanIsCurrent
<1>4. /\ ListOfBuffers /\ Sorted /\ PlacedInRange /\ PlacedPrecede /\ PlacedApart
      /\ IsNext(wanted) /\ GapIsFree
  BY <1>1, <1>3 DEF PlanInv, WantedIsNext
<1>5. /\ wanted \in Buffers /\ wanted \in Nat /\ wanted \notin Placed /\ wanted \in DOMAIN offsets
      /\ Size(wanted) \in Nat /\ candidate \in Nat /\ IntMax \in Nat
      /\ k \in Nat /\ Len(byOffset) \in Nat
  BY <1>4, BufferTypes, PlannerAssumption
     DEF PlannerAssumption, IsNext, Unplaced, ListOfBuffers, TypeOK
<1>6. /\ byOffset' \in Seq(Nat)
      /\ DOMAIN byOffset' = 1..Len(byOffset) + 1
      /\ \A i \in 1..k - 1 : byOffset'[i] = byOffset[i]
      /\ byOffset'[k] = wanted
      /\ \A i \in k + 1..Len(byOffset) + 1 : byOffset'[i] = byOffset[i - 1]
  <2>1. byOffset \in Seq(Nat) /\ wanted \in Nat /\ k \in 1..Len(byOffset) + 1
    BY <1>5 DEF TypeOK
  <2>2. /\ InsertAt(byOffset, k, wanted) \in Seq(Nat)
        /\ DOMAIN InsertAt(byOffset, k, wanted) = 1..Len(byOffset) + 1
        /\ \A i \in 1..k - 1 : InsertAt(byOffset, k, wanted)[i] = byOffset[i]
        /\ InsertAt(byOffset, k, wanted)[k] = wanted
        /\ \A i \in k + 1..Len(byOffset) + 1 : InsertAt(byOffset, k, wanted)[i] = byOffset[i - 1]
    BY <2>1, InsertAtProperties
  <2>3. byOffset' = InsertAt(byOffset, k, wanted)
    BY <1>2
  <2>4. QED
    BY <2>2, <2>3
<1> DEFINE Before(i) == i \in 1..k - 1 /\ i \in DOMAIN byOffset /\ byOffset'[i] = byOffset[i]
           After(i) == i > k /\ i - 1 \in DOMAIN byOffset /\ i - 1 >= k /\ byOffset'[i] = byOffset[i - 1]
<1>18. \A i \in DOMAIN byOffset' : i \in Nat /\ (Before(i) \/ i = k \/ After(i))
  <2>1. DOMAIN byOffset = 1..Len(byOffset)
    BY BufferTypes
  <2>2. ASSUME NEW i \in DOMAIN byOffset'
        PROVE  i \in Nat /\ (i \in 1..k - 1 \/ i = k \/ i \in k + 1..Len(byOffset) + 1)
    BY <1>5, <1>6
  <2>3. \A i \in 1..k - 1 : Before(i)
    BY <2>1, <1>5, <1>6
  <2>4. \A i \in k + 1..Len(byOffset) + 1 : After(i)
    BY <2>1, <1>5, <1>6
  <2>5. QED
    BY <2>2, <2>3, <2>4
<1>7. Placed' = Placed \union {wanted}
  BY <1>2, <1>5, InsertAtRange DEF TypeOK, Placed
\* Only the wanted buffer's offset changes.
<1>8. /\ Buffers' = Buffers
      /\ DOMAIN offsets' = DOMAIN offsets
      /\ offsets'[wanted] = candidate
      /\ \A b \in Placed : b \in Buffers /\ b # wanted /\ offsets'[b] = offsets[b] /\ offsets[b] \in Nat
      /\ \A b : /\ Size(b)' = Size(b) /\ IsOffline(b)' = IsOffline(b)
                /\ End(b)' = offsets'[b] + Size(b)
      /\ \A a, b : /\ Precedes(a, b)' <=> Precedes(a, b)
                   /\ OverlapInTime(a, b)' <=> OverlapInTime(a, b)
  <2>1. \A b \in Placed : b \in Buffers /\ b # wanted
    BY <1>4, <1>5, BufferTypes DEF ListOfBuffers
  <2>2. \A b \in Placed : offsets'[b] = offsets[b] /\ offsets[b] \in Nat
    BY <1>1, <1>4, <1>5, <2>1, BufferTypes DEF ListOfBuffers, PlacedInRange
  <2>3. QED
    BY <1>1, <1>5, <2>1, <2>2
       DEF TypeOK, Buffers, Size, IsOffline, End, Precedes, OverlapInTime
<1>9. TypeOK'
  <2>1. offsets' \in Seq(Int)
    BY <1>1, <1>5 DEF TypeOK
  <2>2. QED
    BY <1>1, <1>6, <2>1 DEF TypeOK
<1>10. RequirementsFit'
  BY <1>1 DEF RequirementsFit, Buffers, Size, IsOffline
<1>11. ListOfBuffers'
  <2>1. \A i \in DOMAIN byOffset' : byOffset'[i] \in Buffers
    <3>1. \A b \in Placed' : b \in Buffers
      BY <1>5, <1>7, <1>8
    <3>2. QED
      BY <3>1 DEF Placed, Range
  <2>2. ASSUME NEW i \in DOMAIN byOffset', NEW j \in DOMAIN byOffset',
               i < j, byOffset'[i] = byOffset'[j]
        PROVE  FALSE
    <3>1. \A m \in DOMAIN byOffset : byOffset[m] # wanted
      BY <1>5, BufferTypes
    <3>2. Before(i) \/ i = k \/ After(i)
      BY <1>18
    <3>3. Before(j) \/ j = k \/ After(j)
      BY <1>18
    <3>4. CASE i = k \/ j = k
      BY <2>2, <3>1, <3>2, <3>3, <3>4, <1>5, <1>6
    <3>5. CASE i # k /\ j # k
      <4>1. PICK m \in DOMAIN byOffset, n \in DOMAIN byOffset :
               m # n /\ byOffset[m] = byOffset'[i] /\ byOffset[n] = byOffset'[j]
        <5>1. CASE Before(i) /\ Before(j)
          BY <5>1, <2>2, <1>18
        <5>2. CASE Before(i) /\ After(j)
          <6>1. i \in DOMAIN byOffset /\ j - 1 \in DOMAIN byOffset /\ i # j - 1
            BY <5>2, <1>5, <1>18
          <6>2. QED
            BY <5>2, <6>1
        <5>3. CASE After(i) /\ After(j)
          <6>1. i - 1 \in DOMAIN byOffset /\ j - 1 \in DOMAIN byOffset /\ i - 1 # j - 1
            BY <5>3, <2>2, <1>18
          <6>2. QED
            BY <5>3, <6>1
        <5>4. ~(After(i) /\ Before(j))
          BY <2>2, <1>5, <1>18
        <5>5. QED
          BY <3>2, <3>3, <3>5, <5>1, <5>2, <5>3, <5>4
      <4>2. QED
        BY <4>1, <2>2, <1>4 DEF ListOfBuffers
    <3>6. QED
      BY <3>4, <3>5
  <2>3. ASSUME NEW i \in DOMAIN byOffset', NEW j \in DOMAIN byOffset', byOffset'[i] = byOffset'[j]
        PROVE  i = j
    BY <2>2, <2>3, <1>6
  <2>4. QED
    BY <2>1, <2>3, <1>4, <1>8 DEF ListOfBuffers
<1>12. Sorted'
  <2> SUFFICES ASSUME NEW i \in DOMAIN byOffset', NEW j \in DOMAIN byOffset', i < j
               PROVE  offsets'[byOffset'[i]] <= offsets'[byOffset'[j]]
    BY DEF Sorted
  <2>1. \A m \in DOMAIN byOffset : /\ offsets'[byOffset[m]] = offsets[byOffset[m]]
                                   /\ offsets[byOffset[m]] \in Nat
    BY <1>8, BufferTypes
  <2>2. \A m \in 1..k - 1 : offsets[byOffset[m]] <= candidate
    BY <1>2 DEF InsertPosition
  <2>3. \A m \in DOMAIN byOffset : m >= k => offsets[byOffset[m]] > candidate
    <3> SUFFICES ASSUME NEW m \in DOMAIN byOffset, m >= k PROVE offsets[byOffset[m]] > candidate
      OBVIOUS
    <3>1. k \in DOMAIN byOffset /\ offsets[byOffset[k]] > candidate
      BY <1>2, <1>5, BufferTypes DEF InsertPosition
    <3>2. offsets[byOffset[k]] <= offsets[byOffset[m]]
      BY <3>1, <1>4, <1>5, <2>1, BufferTypes DEF Sorted
    <3>3. QED
      BY <3>1, <3>2, <2>1, <1>5
  <2>4. CASE j < k
    <3>1. i \in DOMAIN byOffset /\ j \in DOMAIN byOffset
          /\ byOffset'[i] = byOffset[i] /\ byOffset'[j] = byOffset[j]
      <4>1. Before(i) /\ Before(j)
        BY <2>4, <1>5, <1>18
      <4>2. QED
        BY <4>1
    <3>2. QED
      BY <3>1, <2>1, <1>4 DEF Sorted
  <2>5. CASE j = k
    <3>1. Before(i)
      BY <2>5, <1>5, <1>18
    <3>2. offsets'[byOffset'[i]] <= candidate
      BY <3>1, <2>1, <2>2
    <3>3. QED
      BY <3>2, <2>5, <1>6, <1>8
  <2>6. CASE j > k /\ i = k
    <3>1. j - 1 \in DOMAIN byOffset /\ j - 1 >= k /\ byOffset'[j] = byOffset[j - 1]
      BY <2>6, <1>5, <1>18
    <3>2. QED
      BY <3>1, <2>1, <2>3, <2>6, <1>5, <1>6, <1>8
  <2>7. CASE j > k /\ i < k
    <3>1. j - 1 \in DOMAIN byOffset /\ i \in DOMAIN byOffset /\ i < j - 1
          /\ byOffset'[j] = byOffset[j - 1] /\ byOffset'[i] = byOffset[i]
      <4>1. Before(i) /\ After(j)
        BY <2>7, <1>5, <1>18
      <4>2. QED
        BY <4>1, <1>5, <1>18
    <3>2. QED
      BY <3>1, <2>1, <1>4 DEF Sorted
  <2>8. CASE j > k /\ i > k
    <3>1. j - 1 \in DOMAIN byOffset /\ i - 1 \in DOMAIN byOffset /\ i - 1 < j - 1
          /\ byOffset'[j] = byOffset[j - 1] /\ byOffset'[i] = byOffset[i - 1]
      BY <2>8, <1>5, <1>18
    <3>2. QED
      BY <3>1, <2>1, <1>4 DEF Sorted
  <2>9. QED
    BY <2>4, <2>5, <2>6, <2>7, <2>8, <1>5, <1>6
<1>13. PlacedInRange'
  <2>1. \A b \in Placed : offsets'[b] >= 0 /\ offsets'[b] + Size(b) <= IntMax
    BY <1>4, <1>8 DEF PlacedInRange, End
  <2>2. offsets'[wanted] >= 0 /\ offsets'[wanted] + Size(wanted) <= IntMax
    BY <1>1, <1>5, <1>8
  <2>3. QED
    BY <2>1, <2>2, <1>7, <1>8 DEF PlacedInRange
<1>14. PlacedPrecede'
  <2>1. Unplaced' = Unplaced \ {wanted}
    BY <1>7, <1>8 DEF Unplaced
  <2>2. QED
    BY <2>1, <1>4, <1>7, <1>8 DEF PlacedPrecede, IsNext
\* The wanted buffer against one that was placed before.
<1>15. ASSUME NEW a \in Placed, OverlapInTime(a, wanted), ~(IsOffline(a) /\ IsOffline(wanted))
       PROVE  End(a) <= candidate \/ candidate + Size(wanted) <= offsets[a]
  <2>1. ~IsOffline(wanted)
    <3>1. Precedes(a, wanted) /\ a \in Buffers
      BY <1>4, <1>8 DEF PlacedPrecede, IsNext
    <3>2. QED
      BY <3>1, <1>5, <1>15, PrecedesOrder
  <2>2. QED
    BY <2>1, <1>1, <1>4, <1>15 DEF GapIsFree
<1>16. PlacedApart'
  <2> SUFFICES ASSUME NEW a \in Placed', NEW b \in Placed',
                      a # b, OverlapInTime(a, b), ~(IsOffline(a) /\ IsOffline(b))
               PROVE  \/ offsets'[a] + Size(a) <= offsets'[b]
                      \/ offsets'[b] + Size(b) <= offsets'[a]
    BY <1>8 DEF PlacedApart, ApartInMemory
  <2>1. CASE a \in Placed /\ b \in Placed
    BY <2>1, <1>3, <1>4, <1>8 DEF PlacedApart, ApartInMemory, End
  <2>2. CASE a \in Placed /\ b = wanted
    BY <2>2, <1>8, <1>15 DEF End
  <2>3. CASE b \in Placed /\ a = wanted
    BY <2>3, <1>8, <1>15 DEF End, OverlapInTime
  <2>4. QED
    BY <2>1, <2>2, <2>3, <1>7
<1>17. QED
  BY <1>1, <1>9, <1>10, <1>11, <1>12, <1>13, <1>14, <1>16
     DEF PlanInv, WantedIsNext, SearchProgress, GapIsFree

LEMMA ReinitKeepsInvariant ==
  ASSUME IInv, Reinit
  PROVE  IInv'
<1>1. \A S : <<>> \in Seq(S)
  OBVIOUS
<1>2. TypeOK'
  BY <1>1 DEF IInv, TypeOK, Reinit, locals
<1>3. ~PlanIsCurrent'
  BY DEF Reinit, PlanIsCurrent, Calculating
<1>4. RequirementsFit'
  BY DEF Reinit, RequirementsFit, Buffers
<1>5. QED
  BY <1>2, <1>3, <1>4 DEF IInv, PlanInv

LEMMA StutterKeepsInvariant ==
  ASSUME IInv, UNCHANGED vars
  PROVE  IInv'
BY DEF vars, locals, IInv, TypeOK, RequirementsFit, PlanInv, PlanIsCurrent, Calculating, ListOfBuffers,
       Sorted, PlacedInRange, PlacedPrecede, PlacedApart, WantedIsNext, SearchProgress, GapIsFree, Refused,
       Buffers, Size, End, IsOffline, Placed, Unplaced, Precedes, OverlapInTime, ApartInMemory, IsNext

LEMMA NextInvariant == IInv /\ [Next]_vars => IInv'
<1> SUFFICES ASSUME IInv, [Next]_vars PROVE IInv'
  OBVIOUS
<1>1. ASSUME NEW size \in Sizes, NEW first \in Times, NEW last \in Times,
             \/ AddOnlineBuffer(size, first, last)
             \/ \E offset \in OfflineOffsets : AddOfflineBuffer(size, first, last, offset)
      PROVE  IInv'
  <2>1. first \in Int /\ last \in Int
    BY PlannerAssumption DEF PlannerAssumption
  <2>2. CASE AddOnlineBuffer(size, first, last)
    BY <2>1, <2>2, AddKeepsInvariant DEF AddOnlineBuffer
  <2>3. ASSUME NEW offset \in OfflineOffsets, AddOfflineBuffer(size, first, last, offset)
        PROVE  IInv'
    <3>1. offset \in Nat /\ size <= IntMax - offset /\ AddBuffer(size, first, last, offset)
      BY <2>3, PlannerAssumption DEF PlannerAssumption, AddOfflineBuffer
    <3>2. QED
      BY <2>1, <3>1, AddKeepsInvariant
  <2>4. QED
    BY <1>1, <2>2, <2>3
<1>2. ASSUME NEW b \in Buffers, StartPlan(b)
      PROVE  IInv'
  BY <1>2, StartKeepsInvariant
<1>3. CASE Reinit
  BY <1>3, ReinitKeepsInvariant
<1>4. ASSUME NEW b \in Buffers, TakeNext(b)
      PROVE  IInv'
  BY <1>4, TakeKeepsInvariant
<1>5. CASE EndPlan \/ Overflow
  BY <1>5, EndKeepsInvariant
<1>6. CASE FindGap
  BY <1>6, FindKeepsInvariant
<1>7. CASE SkipGap
  BY <1>7, SkipKeepsInvariant
<1>8. CASE Insert
  BY <1>8, InsertKeepsInvariant
<1>9. CASE UNCHANGED vars
  BY <1>9, StutterKeepsInvariant
<1>10. QED
  BY <1>1, <1>2, <1>3, <1>4, <1>5, <1>6, <1>7, <1>8, <1>9 DEF Next, ClientStep, CalculateStep

\* The inductive invariant of the planner.
THEOREM Invariance == Spec => []IInv
BY InitInvariant, NextInvariant, PTL DEF Spec

\* The planner's fields stay in their types.
THEOREM TypeCorrect == Spec => []TypeOK
<1>1. IInv => TypeOK
  BY DEF IInv
<1>2. QED
  BY <1>1, Invariance, PTL

\* No plan, finished or half-made, lets two simultaneously live buffers share memory.
THEOREM NoOverlapAlways == Spec => []NoOverlap
<1>1. IInv => NoOverlap
  <2> SUFFICES ASSUME IInv, PlanIsCurrent, NEW a \in Placed, NEW b \in Placed, LiveTogether(a, b)
               PROVE  OverlapInTime(a, b)
    BY DEF IInv, PlanInv, PlacedApart, NoOverlap
  <2>1. a \in Buffers /\ b \in Buffers
    BY BufferTypes DEF IInv, PlanInv, ListOfBuffers
  <2>2. /\ requirements[a].first \in Int /\ requirements[a].last \in Int
        /\ requirements[b].first \in Int /\ requirements[b].last \in Int
    BY <2>1, BufferTypes DEF IInv
  <2>3. QED
    BY <2>2 DEF LiveTogether, OverlapInTime
<1>2. QED
  BY <1>1, Invariance, PTL

\* Every online buffer goes to the lowest offset that was free for its lifetime.
THEOREM FirstFitAlways == Spec => []FirstFit
<1>1. IInv => FirstFit
  BY DEF IInv, PlanInv, PlanIsCurrent, Calculating, GapIsFree, Refused, FirstFit
<1>2. QED
  BY <1>1, Invariance, PTL

\* No int of the gap search overflows: an offset and a size are only added when the sum
\* was shown to fit.
THEOREM NoIntOverflowAlways == Spec => []NoIntOverflow
<1>1. IInv => NoIntOverflow
  <2> SUFFICES ASSUME IInv, Calculating PROVE NoIntOverflow
    BY DEF NoIntOverflow
  <2>1. ListOfBuffers /\ PlacedInRange /\ WantedIsNext /\ candidate \in Nat
    BY DEF IInv, PlanInv, PlanIsCurrent, TypeOK
  <2>2. \A b \in Placed : b \in Buffers /\ b \in DOMAIN offsets
    BY <2>1, BufferTypes DEF IInv, ListOfBuffers
  <2>3. \A b \in Placed : offsets[b] \in 0..IntMax /\ End(b) <= IntMax
    BY <2>1, <2>2, BufferTypes, PlannerAssumption DEF PlannerAssumption, IInv, PlacedInRange, End
  <2>4. QED
    BY <2>1, <2>3, SearchFacts DEF IInv, TypeOK, WantedIsNext, NoIntOverflow
<1>2. QED
  BY <1>1, Invariance, PTL

-----------------------------------------------------------------------------
\* A plan in force is complete.

OfflineKept == PlanIsCurrent =>
  \A b \in Placed : IsOffline(b) => offsets[b] = requirements[b].offlineOffset

AllPlaced == HasPlan /\ requirements # <<>> => Unplaced = {}

LEMMA InsertKeepsOffline ==
  ASSUME IInv, OfflineKept, Insert
  PROVE  OfflineKept'
<1>1. PlanIsCurrent
  BY DEF Insert, PlanIsCurrent, Calculating
<1>2. /\ IsNext(wanted) /\ GapIsFree /\ ListOfBuffers
  BY <1>1 DEF Insert, IInv, PlanInv, WantedIsNext
<1>3. /\ wanted \in DOMAIN offsets /\ wanted \notin Placed
      /\ IsOffline(wanted) => candidate = requirements[wanted].offlineOffset
      /\ Placed \subseteq DOMAIN offsets
  BY <1>2, BufferTypes DEF Insert, IInv, IsNext, Unplaced, GapIsFree, ListOfBuffers
<1>4. Placed' = Placed \union {wanted}
  <2>1. byOffset \in Seq(Nat) /\ wanted \in Nat
    BY DEF IInv, TypeOK
  <2>2. QED
    BY <2>1, InsertAtRange DEF Insert, Placed
<1>5. /\ offsets'[wanted] = candidate
      /\ \A b \in Placed : offsets'[b] = offsets[b]
  BY <1>3 DEF Insert, IInv, TypeOK
<1>6. UNCHANGED requirements
  BY DEF Insert
<1>7. QED
  BY <1>1, <1>3, <1>4, <1>5, <1>6 DEF OfflineKept, IsOffline

LEMMA NextComplete ==
  IInv /\ OfflineKept /\ AllPlaced /\ [Next]_vars => OfflineKept' /\ AllPlaced'
<1> SUFFICES ASSUME IInv, OfflineKept, AllPlaced, [Next]_vars PROVE OfflineKept' /\ AllPlaced'
  OBVIOUS
<1>1. ASSUME NEW size, NEW first, NEW last, NEW offset, AddBuffer(size, first, last, offset)
      PROVE  OfflineKept' /\ AllPlaced'
  BY <1>1 DEF AddBuffer, OfflineKept, AllPlaced, PlanIsCurrent, Calculating, HasPlan
<1>2. ASSUME NEW b \in Buffers, StartPlan(b)
      PROVE  OfflineKept' /\ AllPlaced'
  <2>1. Placed' = {b} /\ pc' = "next" /\ offsets'[b] = IF ~IsOffline(b) THEN 0 ELSE requirements[b].offlineOffset
    BY <1>2 DEF StartPlan, Placed, Range
  <2>2. QED
    BY <1>2, <2>1 DEF StartPlan, OfflineKept, AllPlaced, HasPlan, IsOffline
<1>3. CASE Reinit
  BY <1>3 DEF Reinit, OfflineKept, AllPlaced, PlanIsCurrent, Calculating, HasPlan
\* The steps of a plan in the making that leave the list as it is.
<1>4. ASSUME pc # "idle", UNCHANGED <<requirements, offsets, byOffset, needToCalculate>>
      PROVE  OfflineKept'
  BY <1>4 DEF OfflineKept, PlanIsCurrent, Calculating, Placed, IsOffline
<1>5. ASSUME NEW b \in Buffers, TakeNext(b)
      PROVE  OfflineKept' /\ AllPlaced'
  BY <1>4, <1>5 DEF TakeNext, AllPlaced, HasPlan
<1>6. CASE FindGap \/ SkipGap
  BY <1>4, <1>6 DEF FindGap, SkipGap, AllPlaced, HasPlan
<1>7. CASE EndPlan
  BY <1>4, <1>7 DEF EndPlan, AllPlaced, Unplaced, Placed, Buffers
<1>8. CASE Overflow
  BY <1>4, <1>8 DEF Overflow, AllPlaced, HasPlan
<1>9. CASE Insert
  <2>1. pc' = "next"
    BY <1>9 DEF Insert
  <2>2. QED
    BY <1>9, <2>1, InsertKeepsOffline DEF AllPlaced, HasPlan
<1>10. CASE UNCHANGED vars
  BY <1>10 DEF vars, OfflineKept, AllPlaced, PlanIsCurrent, Calculating, HasPlan, Placed, Unplaced,
               Buffers, IsOffline
<1>11. QED
  BY <1>1, <1>2, <1>3, <1>5, <1>6, <1>7, <1>8, <1>9, <1>10
     DEF Next, ClientStep, CalculateStep, AddOnlineBuffer, AddOfflineBuffer

\* A nonempty set of integers with an upper bound has a greatest element.
LEMMA GreatestExists ==
  ASSUME NEW S \in SUBSET Int, S # {}, NEW bound \in Int, \A x \in S : x <= bound
  PROVE  \E m \in S : \A x \in S : x <= m
<1> DEFINE T == {bound - x : x \in S}
           R == OpToRel(<, Nat)
<1>1. T \subseteq Nat /\ T # {}
  <2>1. \A x \in S : bound - x \in Nat
    OBVIOUS
  <2>2. QED
    BY <2>1
<1> HIDE DEF R
<1>2. PICK t \in T : \A y \in T : ~(<<y, t>> \in R)
  BY <1>1, NatLessThanWellFounded, WFMin DEF R
<1>3. \A y \in T : t <= y
  <2>0. T \subseteq Nat /\ t \in Nat
    BY <1>1
  <2> SUFFICES ASSUME NEW y \in T, y < t PROVE FALSE
    <3> HIDE DEF T
    <3>1. QED
      BY <2>0
  <2>1. y \in Nat /\ t \in Nat
    BY <1>1
  <2>2. <<y, t>> \in R
    BY <2>1 DEF R, OpToRel
  <2>3. QED
    BY <2>2, <1>2
<1>4. PICK m \in S : t = bound - m
  BY <1>2
<1>5. ASSUME NEW x \in S PROVE x <= m
  <2>1. bound - x \in T
    OBVIOUS
  <2>2. bound - m <= bound - x
    BY <1>3, <1>4, <2>1
  <2>3. x \in Int /\ m \in Int
    OBVIOUS
  <2> HIDE DEF T
  <2>4. QED
    BY <2>2, <2>3
<1>6. QED
  BY <1>5

LEMMA MaximumBounds ==
  ASSUME IInv, PlanIsCurrent, Placed # {}
  PROVE  /\ \A b \in Placed : End(b) <= GetMaximumMemorySize
         /\ GetMaximumMemorySize <= IntMax
<1> DEFINE Ends == {End(b) : b \in Placed}
<1>1. ListOfBuffers /\ PlacedInRange
  BY DEF IInv, PlanInv
<1>2. \A b \in Placed : End(b) \in Int /\ End(b) <= IntMax
  BY <1>1, BufferTypes DEF IInv, ListOfBuffers, PlacedInRange, End
<1>3. IntMax \in Int
  BY PlannerAssumption DEF PlannerAssumption
<1>4. Ends \in SUBSET Int /\ Ends # {} /\ \A e \in Ends : e <= IntMax
  BY <1>2
<1>5. \E m \in Ends : \A e \in Ends : e <= m
  <2> HIDE DEF Ends
  <2>1. QED
    BY <1>3, <1>4, GreatestExists
<1>6. \E m \in Ends : \A b \in Placed : End(b) <= m
  BY <1>5
<1>7. GetMaximumMemorySize \in Ends /\ \A b \in Placed : End(b) <= GetMaximumMemorySize
  BY <1>6 DEF GetMaximumMemorySize
<1>8. QED
  BY <1>4, <1>7

\* A list that names every buffer, none twice, has as many entries as there are buffers.
LEMMA ListLength ==
  ASSUME IInv, ListOfBuffers, Unplaced = {}
  PROVE  Placed = Buffers /\ Len(byOffset) = Len(requirements)
<1>1. /\ DOMAIN byOffset = 1..Len(byOffset) /\ Len(byOffset) \in Nat
      /\ Placed = {byOffset[k] : k \in DOMAIN byOffset}
      /\ Buffers = 1..Len(requirements) /\ Len(requirements) \in Nat
  BY BufferTypes DEF IInv, TypeOK, Buffers
<1>2. Placed = Buffers
  BY <1>1 DEF ListOfBuffers, Unplaced
<1>3. byOffset \in Bijection(1..Len(byOffset), Buffers)
  <2>1. byOffset \in [1..Len(byOffset) -> Buffers]
    BY <1>1 DEF ListOfBuffers, IInv, TypeOK
  <2>2. byOffset \in Injection(1..Len(byOffset), Buffers)
    BY <2>1, <1>1 DEF ListOfBuffers, Injection, IsInjective
  <2>3. byOffset \in Surjection(1..Len(byOffset), Buffers)
    BY <2>1, <1>1, <1>2 DEF Surjection
  <2>4. QED
    BY <2>2, <2>3 DEF Bijection
<1>4. Cardinality(Buffers) = Len(byOffset)
  BY <1>1, <1>3, FS_CountingElements DEF ExistsBijection
<1>5. Cardinality(Buffers) = Len(requirements)
  <2>1. Cardinality(1..Len(requirements)) = IF 1 > Len(requirements) THEN 0 ELSE Len(requirements) - 1 + 1
    <3>1. 1 \in Int /\ Len(requirements) \in Int
      BY <1>1
    <3>2. \A a, b \in Int : Cardinality(a..b) = IF a > b THEN 0 ELSE b - a + 1
      BY FS_Interval
    <3>3. QED
      BY <3>1, <3>2
  <2>2. QED
    BY <2>1, <1>1
<1>6. QED
  BY <1>2, <1>4, <1>5

\* A plan in force places every buffer once, keeps the offline offsets, and its high-water
\* mark bounds every buffer, for any number of buffers.
THEOREM PlanCompleteAlways == Spec => []PlanComplete
<1>1. Init => OfflineKept /\ AllPlaced
  BY DEF Init, OfflineKept, AllPlaced, PlanIsCurrent, Calculating, HasPlan
<1>2. IInv /\ OfflineKept /\ AllPlaced => PlanComplete
  <2> SUFFICES ASSUME IInv, OfflineKept, AllPlaced, HasPlan, requirements # <<>> PROVE PlanComplete
    BY DEF PlanComplete
  <2>1. PlanIsCurrent /\ Unplaced = {} /\ ListOfBuffers /\ PlacedInRange
    BY DEF HasPlan, PlanIsCurrent, AllPlaced, IInv, PlanInv
  <2>2. Placed = Buffers /\ Len(byOffset) = Len(requirements)
    BY <2>1, ListLength
  <2>3. Buffers # {}
    <3>1. requirements \in Seq(Requirement) /\ requirements # <<>>
      BY DEF IInv, TypeOK
    <3>2. Len(requirements) # 0
      BY <3>1
    <3>3. DOMAIN requirements = 1..Len(requirements) /\ Len(requirements) \in Nat
      BY <3>1
    <3>4. 1 \in 1..Len(requirements)
      BY <3>2, <3>3
    <3>5. QED
      BY <3>3, <3>4 DEF Buffers
  <2>4. /\ \A b \in Buffers : End(b) <= GetMaximumMemorySize
        /\ GetMaximumMemorySize <= IntMax
    BY <2>1, <2>2, <2>3, MaximumBounds
  <2>5. QED
    BY <2>1, <2>2, <2>4 DEF PlanComplete, OfflineKept, PlacedInRange
<1>3. QED
  BY <1>1, <1>2, NextComplete, Invariance, PTL DEF Spec

-----------------------------------------------------------------------------
\* How many iterations CalculateOffsetsIfNeeded has left at most: of the gap search for the
\* wanted buffer, one for each entry of the list it has not passed; for each buffer that is
\* not placed yet, a search over all the others, and what is around it.
ForUnplaced(n, l) == (n - l) * (n + 4)

StepsLeft ==
  LET n == Len(requirements)
      l == Len(byOffset)
  IN  CASE pc = "next"   -> ForUnplaced(n, l) + 1
        [] pc = "search" -> ForUnplaced(n, l + 1) + 3 + l - prior
        [] pc = "insert" -> ForUnplaced(n, l + 1) + 2
        [] OTHER         -> 0

\* A list that names no buffer twice has no more entries than there are buffers, and fewer as
\* long as it leaves one out.
LEMMA ListRoom ==
  ASSUME IInv, ListOfBuffers
  PROVE  /\ Len(byOffset) \in Nat /\ Len(requirements) \in Nat
         /\ Len(byOffset) <= Len(requirements)
         /\ Unplaced # {} => Len(byOffset) < Len(requirements)
<1>1. /\ DOMAIN byOffset = 1..Len(byOffset) /\ Len(byOffset) \in Nat
      /\ Placed = {byOffset[k] : k \in DOMAIN byOffset}
      /\ Buffers = 1..Len(requirements) /\ Len(requirements) \in Nat
  BY BufferTypes DEF IInv, TypeOK, Buffers
<1>2. Placed \subseteq Buffers
  BY <1>1 DEF ListOfBuffers
<1>3. byOffset \in Bijection(1..Len(byOffset), Placed)
  <2>1. byOffset \in [1..Len(byOffset) -> Placed]
    BY <1>1 DEF IInv, TypeOK
  <2>2. byOffset \in Injection(1..Len(byOffset), Placed)
    BY <2>1, <1>1 DEF ListOfBuffers, Injection, IsInjective
  <2>3. byOffset \in Surjection(1..Len(byOffset), Placed)
    BY <2>1, <1>1 DEF Surjection
  <2>4. QED
    BY <2>2, <2>3 DEF Bijection
<1>4. Cardinality(Placed) = Len(byOffset)
  BY <1>1, <1>3, FS_CountingElements DEF ExistsBijection
<1>5. IsFiniteSet(Buffers) /\ Cardinality(Buffers) = Len(requirements)
  <2>1. /\ IsFiniteSet(1..Len(requirements))
        /\ Cardinality(1..Len(requirements)) = IF 1 > Len(requirements) THEN 0 ELSE Len(requirements) - 1 + 1
    <3>1. 1 \in Int /\ Len(requirements) \in Int
      BY <1>1
    <3>2. \A a, b \in Int : IsFiniteSet(a..b) /\ Cardinality(a..b) = IF a > b THEN 0 ELSE b - a + 1
      BY FS_Interval
    <3>3. QED
      BY <3>1, <3>2
  <2>2. QED
    BY <2>1, <1>1
<1>6. Cardinality(Placed) <= Cardinality(Buffers) /\ (Cardinality(Buffers) = Cardinality(Placed) => Buffers = Placed)
  BY <1>2, <1>5, FS_Subset
<1>7. Unplaced # {} => Buffers # Placed
  BY DEF Unplaced
<1>8. Len(byOffset) <= Len(requirements) /\ (Unplaced # {} => Len(byOffset) # Len(requirements))
  BY <1>4, <1>5, <1>6, <1>7
<1>9. Len(byOffset) \in Nat /\ Len(requirements) \in Nat
  BY <1>1
<1>10. QED
  BY <1>8, <1>9

\* One buffer less to place is one search less.
LEMMA ForOneLess ==
  ASSUME NEW n \in Nat, NEW l \in 0..n
  PROVE  /\ ForUnplaced(n, l) \in Nat
         /\ l < n => ForUnplaced(n, l + 1) \in Nat /\ ForUnplaced(n, l) = ForUnplaced(n, l + 1) + n + 4
<1>1. ASSUME NEW a \in Nat, NEW b \in Nat
      PROVE  a * b \in Nat /\ (a + 1) * b = a * b + b
  OBVIOUS
<1>2. n - l \in Nat /\ n + 4 \in Nat
  OBVIOUS
<1>3. ForUnplaced(n, l) \in Nat
  BY <1>1, <1>2 DEF ForUnplaced
<1>4. ASSUME l < n
      PROVE  ForUnplaced(n, l + 1) \in Nat /\ ForUnplaced(n, l) = ForUnplaced(n, l + 1) + n + 4
  <2> DEFINE r == n - (l + 1)
             q == n + 4
  <2>1. r \in Nat /\ q \in Nat /\ r + 1 = n - l
    BY <1>4
  <2>2. ForUnplaced(n, l + 1) = r * q /\ ForUnplaced(n, l) = (r + 1) * q
    BY <2>1 DEF ForUnplaced
  <2> HIDE DEF r
  <2>3. r * q \in Nat /\ (r + 1) * q = r * q + q
    BY <1>1, <2>1
  <2>4. QED
    BY <2>2, <2>3
<1>5. QED
  BY <1>3, <1>4

\* Each iteration leaves fewer of them.
LEMMA StepShrinks ==
  ASSUME IInv, CalculateStep
  PROVE  StepsLeft \in Nat /\ StepsLeft' \in Nat /\ StepsLeft' < StepsLeft
<1> DEFINE n == Len(requirements)
           l == Len(byOffset)
<1>1. pc \in {"next", "search", "insert"} /\ requirements' = requirements
  BY DEF CalculateStep, TakeNext, EndPlan, FindGap, SkipGap, Insert, Overflow
<1>2. ListOfBuffers /\ WantedIsNext /\ SearchProgress
  BY <1>1 DEF IInv, PlanInv, PlanIsCurrent, Calculating
<1>3. n \in Nat /\ l \in 0..n /\ (Unplaced # {} => l < n)
  BY <1>2, ListRoom
<1>4. pc \in {"search", "insert"} => l < n
  BY <1>2, <1>3 DEF WantedIsNext, IsNext
<1>5. /\ ForUnplaced(n, l) \in Nat
      /\ l < n => ForUnplaced(n, l + 1) \in Nat /\ ForUnplaced(n, l) = ForUnplaced(n, l + 1) + n + 4
  BY <1>3, ForOneLess
<1>6. pc = "search" => prior \in 0..l
  BY <1>2 DEF SearchProgress
<1>7. /\ pc = "next" => StepsLeft = ForUnplaced(n, l) + 1
      /\ pc = "search" => StepsLeft = ForUnplaced(n, l + 1) + 3 + l - prior
      /\ pc = "insert" => StepsLeft = ForUnplaced(n, l + 1) + 2
  BY DEF StepsLeft
<1>8. /\ pc' = "next" => StepsLeft' = ForUnplaced(n, Len(byOffset')) + 1
      /\ pc' = "search" => StepsLeft' = ForUnplaced(n, Len(byOffset') + 1) + 3 + Len(byOffset') - prior'
      /\ pc' = "insert" => StepsLeft' = ForUnplaced(n, Len(byOffset') + 1) + 2
      /\ pc' = "idle" => StepsLeft' = 0
  BY <1>1 DEF StepsLeft, ForUnplaced
<1>9. ASSUME NEW b \in Buffers, TakeNext(b)
      PROVE  StepsLeft \in Nat /\ StepsLeft' \in Nat /\ StepsLeft' < StepsLeft
  <2>1. pc = "next" /\ pc' \in {"search", "insert"} /\ prior' = 0 /\ byOffset' = byOffset /\ l < n
    BY <1>3, <1>9 DEF TakeNext, IsNext
  <2> HIDE DEF n, l
  <2>2. QED
    BY <1>3, <1>5, <1>7, <1>8, <2>1 DEF l
<1>10. CASE EndPlan
  <2>1. pc = "next" /\ pc' = "idle"
    BY <1>10 DEF EndPlan
  <2> HIDE DEF n, l
  <2>2. QED
    BY <1>3, <1>5, <1>7, <1>8, <2>1
<1>11. CASE FindGap
  <2>1. pc = "search" /\ pc' = "insert" /\ byOffset' = byOffset
    BY <1>11 DEF FindGap
  <2> HIDE DEF n, l
  <2>2. QED
    BY <1>3, <1>4, <1>5, <1>6, <1>7, <1>8, <2>1 DEF l
<1>12. CASE SkipGap
  <2>1. pc = "search" /\ pc' = pc /\ byOffset' = byOffset /\ prior' \in prior + 1..l
    BY <1>12 DEF SkipGap, IsNextActive
  <2> HIDE DEF n, l
  <2>2. QED
    BY <1>3, <1>4, <1>5, <1>6, <1>7, <1>8, <2>1 DEF l
<1>13. CASE Insert
  <2>1. pc = "insert" /\ pc' = "next"
    BY <1>13 DEF Insert
  <2>2. Len(byOffset') = l + 1
    <3>1. PICK k \in 1..Len(byOffset) + 1 : byOffset' = InsertAt(byOffset, k, wanted)
      BY <1>13 DEF Insert
    <3>2. byOffset \in Seq(Nat) /\ wanted \in Nat
      BY DEF IInv, TypeOK
    <3>3. byOffset' \in Seq(Nat) /\ DOMAIN byOffset' = 1..Len(byOffset) + 1
      BY <3>1, <3>2, InsertAtProperties
    <3> HIDE DEF n
    <3>4. QED
      BY <3>2, <3>3
  <2> HIDE DEF n, l
  <2>3. QED
    BY <1>3, <1>4, <1>5, <1>7, <1>8, <2>1, <2>2
<1>14. CASE Overflow
  <2>1. pc = "insert" /\ pc' = "idle"
    BY <1>14 DEF Overflow
  <2> HIDE DEF n, l
  <2>2. QED
    BY <1>3, <1>4, <1>5, <1>7, <1>8, <2>1
<1>15. QED
  BY <1>9, <1>10, <1>11, <1>12, <1>13, <1>14 DEF CalculateStep

\* The placement loop and the gap search are bounded, whatever the buffers are: every iteration
\* takes at least one from a number that starts below (n + 2)^2 for n buffers.
THEOREM PlanningShrinks ==
  Spec => [][CalculateStep => StepsLeft \in Nat /\ StepsLeft' \in Nat /\ StepsLeft' < StepsLeft]_vars
<1>1. IInv /\ [Next]_vars
        => [CalculateStep => StepsLeft \in Nat /\ StepsLeft' \in Nat /\ StepsLeft' < StepsLeft]_vars
  BY StepShrinks
<1>2. QED
  BY <1>1, Invariance, PTL DEF Spec

\* Where the loops are, one of their branches goes on.
GoesOn ==
  /\ pc = "next" => Unplaced = {} \/ \E b \in Buffers : IsNext(b)
  /\ pc = "search" => NoNextActive(wanted) \/ \E k \in DOMAIN byOffset : IsNextActive(k, wanted)
  /\ pc = "insert" => \E k \in 1..Len(byOffset) + 1 : InsertPosition(k)

\* A nonempty set of natural numbers has a least element.
LEMMA LeastExists ==
  ASSUME NEW S \in SUBSET Nat, S # {}
  PROVE  \E m \in S : \A x \in S : m <= x
<1> DEFINE T == {-x : x \in S}
<1>1. T \in SUBSET Int /\ T # {} /\ \A x \in T : x <= 0
  <2>1. \A x \in S : -x \in Int /\ -x <= 0
    OBVIOUS
  <2>2. PICK s \in S : TRUE
    OBVIOUS
  <2>3. -s \in T
    OBVIOUS
  <2>4. QED
    BY <2>1, <2>3
<1> HIDE DEF T
<1>2. PICK m \in T : \A x \in T : x <= m
  BY <1>1, GreatestExists
<1> USE DEF T
<1>3. PICK l \in S : m = -l
  OBVIOUS
<1>4. \A x \in S : l <= x
  <2> TAKE x \in S
  <2>1. -x \in T
    OBVIOUS
  <2>2. -x <= m /\ x \in Nat /\ l \in Nat
    BY <1>2, <2>1
  <2> HIDE DEF T
  <2>3. QED
    BY <1>3, <2>2
<1>5. QED
  BY <1>4

\* Of the buffers not placed yet, one comes first: the offline buffer added first, or else, of
\* the largest ones, the one added last.
LEMMA FirstExists ==
  ASSUME TypeOK, RequirementsFit, Unplaced # {}
  PROVE  \E b \in Buffers : IsNext(b)
<1>1. /\ Unplaced \in SUBSET Buffers
      /\ \A b \in Buffers : b \in Nat /\ Size(b) \in Nat /\ b <= Len(requirements)
      /\ Len(requirements) \in Nat
  BY BufferTypes DEF Unplaced, Buffers, TypeOK
<1> SUFFICES \E b \in Unplaced : \A c \in Unplaced \ {b} : Precedes(b, c)
  BY <1>1 DEF IsNext
<1>2. CASE \E b \in Unplaced : IsOffline(b)
  <2> DEFINE S == {b \in Unplaced : IsOffline(b)}
  <2>1. S \in SUBSET Nat /\ S # {}
    BY <1>1, <1>2
  <2> HIDE DEF S
  <2>2. PICK b \in S : \A x \in S : b <= x
    BY <2>1, LeastExists
  <2>3. b \in Unplaced /\ IsOffline(b) /\ b \in Nat
    BY <1>1 DEF S
  <2>4. ASSUME NEW c \in Unplaced \ {b}
        PROVE  Precedes(b, c)
    <3>1. CASE IsOffline(c)
      <4>1. b <= c /\ c \in Nat /\ c # b
        BY <1>1, <2>2, <3>1 DEF S
      <4>2. QED
        BY <2>3, <3>1, <4>1 DEF Precedes
    <3>2. CASE ~IsOffline(c)
      BY <2>3, <3>2 DEF Precedes
    <3>3. QED
      BY <3>1, <3>2
  <2>5. QED
    BY <2>3, <2>4
<1>3. CASE \A b \in Unplaced : ~IsOffline(b)
  <2> DEFINE Lengths == {Size(b) : b \in Unplaced}
  <2>1. PICK m \in Lengths : \A x \in Lengths : x <= m
    <3>1. Lengths \in SUBSET Int /\ Lengths # {}
      BY <1>1
    <3>2. IntMax \in Int /\ \A x \in Lengths : x <= IntMax
      BY <1>1, PlannerAssumption DEF PlannerAssumption, RequirementsFit
    <3> HIDE DEF Lengths
    <3>3. QED
      BY <3>1, <3>2, GreatestExists
  <2> DEFINE S == {b \in Unplaced : Size(b) = m}
  <2>2. S \in SUBSET Int /\ S # {} /\ \A x \in S : x <= Len(requirements)
    BY <1>1, <2>1
  <2>3. PICK b \in S : \A x \in S : x <= b
    <3> HIDE DEF S
    <3>1. Len(requirements) \in Int
      BY <1>1
    <3>2. QED
      BY <2>2, <3>1, GreatestExists
  <2>4. b \in Unplaced /\ Size(b) = m /\ ~IsOffline(b) /\ b \in Nat
    BY <1>1, <1>3
  <2>5. ASSUME NEW c \in Unplaced \ {b}
        PROVE  Precedes(b, c)
    <3>1. Size(c) <= m /\ ~IsOffline(c) /\ c \in Nat /\ c # b /\ Size(c) \in Nat /\ m \in Nat
      BY <1>1, <1>3, <2>1, <2>4
    <3>2. Size(c) = m => c <= b
      BY <2>3
    <3> HIDE DEF S, Lengths
    <3>3. QED
      BY <2>4, <3>1, <3>2 DEF Precedes
  <2>6. QED
    BY <2>4, <2>5
<1>4. QED
  BY <1>2, <1>3

\* The search finds an entry that is live with the wanted one, or there is none.
LEMMA ActiveExists ==
  ASSUME TypeOK, prior \in 0..Len(byOffset), ~NoNextActive(wanted)
  PROVE  \E k \in DOMAIN byOffset : IsNextActive(k, wanted)
<1> DEFINE S == {k \in prior + 1..Len(byOffset) : OverlapInTime(byOffset[k], wanted)}
<1>1. DOMAIN byOffset = 1..Len(byOffset) /\ Len(byOffset) \in Nat /\ prior \in Nat
  BY BufferTypes
<1>2. S \in SUBSET Nat /\ S # {}
  BY <1>1 DEF NoNextActive
<1> HIDE DEF S
<1>3. PICK k \in S : \A x \in S : k <= x
  BY <1>2, LeastExists
<1>4. k \in prior + 1..Len(byOffset) /\ OverlapInTime(byOffset[k], wanted)
  BY DEF S
<1>5. \A j \in prior + 1..k - 1 : ~OverlapInTime(byOffset[j], wanted)
  <2> SUFFICES ASSUME NEW j \in prior + 1..k - 1, OverlapInTime(byOffset[j], wanted) PROVE FALSE
    OBVIOUS
  <2>1. j \in prior + 1..Len(byOffset) /\ j < k
    BY <1>1, <1>4
  <2>2. j \in S
    BY <2>1 DEF S
  <2>3. QED
    BY <1>1, <1>3, <1>4, <2>1, <2>2
<1>6. QED
  BY <1>1, <1>4, <1>5 DEF IsNextActive

\* There is a place in the list for every offset.
LEMMA PositionExists ==
  ASSUME TypeOK, ListOfBuffers
  PROVE  \E k \in 1..Len(byOffset) + 1 : InsertPosition(k)
<1> DEFINE n == Len(byOffset)
           S == {k \in 1..n : offsets[byOffset[k]] > candidate} \union {n + 1}
<1>1. /\ n \in Nat /\ candidate \in Nat
      /\ \A k \in 1..n : offsets[byOffset[k]] \in Int
  BY BufferTypes DEF ListOfBuffers, TypeOK
<1>2. S \in SUBSET Nat /\ S # {} /\ n + 1 \in S
  BY <1>1
<1> HIDE DEF S
<1>3. PICK k \in S : \A x \in S : k <= x
  BY <1>2, LeastExists
<1>4. k \in 1..n + 1 /\ (k <= n => offsets[byOffset[k]] > candidate)
  BY <1>1 DEF S
<1>5. \A j \in 1..k - 1 : offsets[byOffset[j]] <= candidate
  <2> SUFFICES ASSUME NEW j \in 1..k - 1, offsets[byOffset[j]] > candidate PROVE FALSE
    <3>1. \A j \in 1..k - 1 : j \in 1..n
      BY <1>1, <1>4
    <3> HIDE DEF n
    <3>2. QED
      BY <1>1, <3>1
  <2>1. j \in 1..n /\ j < k
    BY <1>1, <1>4
  <2>2. j \in S
    BY <2>1 DEF S
  <2>3. QED
    BY <1>1, <1>3, <1>4, <2>1, <2>2
<1>6. QED
  BY <1>4, <1>5 DEF InsertPosition

\* CalculateOffsetsIfNeeded is never stuck between two iterations: there is always a buffer to
\* take or none left, a next entry that is live or none, and a place to insert at. So with
\* PlanningShrinks every call of it returns.
THEOREM PlanningGoesOn == Spec => []GoesOn
<1>1. IInv => GoesOn
  <2> SUFFICES ASSUME IInv PROVE GoesOn
    OBVIOUS
  <2>1. CASE pc = "next"
    BY <2>1, FirstExists DEF GoesOn, IInv
  <2>2. CASE pc = "search"
    <3>1. prior \in 0..Len(byOffset)
      BY <2>2 DEF IInv, PlanInv, PlanIsCurrent, Calculating, SearchProgress
    <3>2. QED
      BY <2>2, <3>1, ActiveExists DEF GoesOn, IInv
  <2>3. CASE pc = "insert"
    <3>1. ListOfBuffers
      BY <2>3 DEF IInv, PlanInv, PlanIsCurrent, Calculating
    <3>2. QED
      BY <2>3, <3>1, PositionExists DEF GoesOn, IInv
  <2>4. QED
    BY <2>1, <2>2, <2>3 DEF GoesOn
<1>2. QED
  BY <1>1, Invariance, PTL
=============================================================================
