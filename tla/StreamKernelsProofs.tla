------------------------ MODULE StreamKernelsProofs ------------------------
(***************************************************************************)
(* Proofs about the signal circular buffer, CircularBuffer, its calls,     *)
(* CircularBufferCalls, and the kernels that keep state, StreamKernels.    *)
(*                                                                         *)
(* A ring is described by two sequences: Kept(c), the last samples         *)
(* written, as many as fit, and Queue(c), the newest of them, which are    *)
(* unread. Every call of the buffer is a step of SlidingWindow on these    *)
(* two, and the mirror behind the end of the ring is the copy of its       *)
(* beginning except where a write into reserved space left it stale.       *)
(*                                                                         *)
(* The outputs of the kernels are those of the stream, and no call of the  *)
(* ring buffer fails, for every set of parameters that Accepted admits:    *)
(* all that the ops accept but a framer with prefill that steps further    *)
(* than its frame is long, a stacker that steps further than its contexts, *)
(* and overlap_add that steps further than its frame. The buffer of DELAY, *)
(* STACKER and FRAMER is described by the stream it was given:             *)
(* Holds(c, s, from) says that the buffer c is sound and that what it has  *)
(* not delivered of the stream s is what lies behind the first from        *)
(* samples. Each call of the ring buffer moves one of the two, and the     *)
(* invariant of a kernel says where they are. What OVERLAP_ADD, SVDF and   *)
(* LSTM keep is described by the inputs it was computed from: the running  *)
(* sums that are not settled, the features of the last invocations, and    *)
(* for each row of the states the input rows seen so far.                  *)
(***************************************************************************)
EXTENDS StreamKernels, CircularBufferCalls, WellFoundedInduction, TLAPS

-----------------------------------------------------------------------------
(***************************************************************************)
(* Part 1: the ring buffer.                                                *)
(***************************************************************************)

\* What holds of the fields between two calls, and of the samples.
IsRing(c) ==
  /\ c = [capacity |-> c.capacity, read |-> c.read, write |-> c.write, empty |-> c.empty,
          buffer |-> c.buffer]
  /\ c.capacity \in Nat \ {0}
  /\ c.read \in 0..(c.capacity - 1)
  /\ c.write \in 0..(c.capacity - 1)
  /\ c.empty \in BOOLEAN

\* The empty flag counts when the positions meet; Shift moves one and leaves the flag.
EmptyRing(c) == c.empty /\ c.read = c.write

HasCells(c, V) == c.buffer \in [0..(2 * c.capacity - 1) -> V]

\* Where a position lies that may have run past the end once.
Wrap(x, m) == IF x < m THEN x ELSE x - m

\* The unread samples, the oldest first, and all samples, the oldest first.
Queue(c) == [k \in 1..Available(c) |-> c.buffer[Wrap(c.read + k - 1, c.capacity)]]
Kept(c) == [k \in 1..c.capacity |-> c.buffer[Wrap(c.write + k - 1, c.capacity)]]

\* The fields of a ring, one by one.
LEMMA RingFields ==
  ASSUME NEW c, IsRing(c)
  PROVE  /\ c.capacity \in Nat \ {0}
         /\ c.read \in 0..(c.capacity - 1) /\ c.write \in 0..(c.capacity - 1)
         /\ c.empty \in BOOLEAN
BY DEF IsRing

\* The unread samples, whichever side of the end the positions are on.
LEMMA AvailableIs ==
  ASSUME NEW c, IsRing(c)
  PROVE  /\ EmptyRing(c) => Available(c) = 0
         /\ ~EmptyRing(c) /\ c.write > c.read => Available(c) = c.write - c.read
         /\ ~EmptyRing(c) /\ c.write <= c.read => Available(c) = c.write - c.read + c.capacity
<1>1. CASE EmptyRing(c)
  BY <1>1 DEF IsRing, Available, EmptyRing
<1>2. CASE ~EmptyRing(c)
  BY <1>2 DEF IsRing, Available, EmptyRing
<1>3. QED
  BY <1>1, <1>2

\* How many samples are unread, and where the write position lies from the read position.
LEMMA AvailableFacts ==
  ASSUME NEW c, IsRing(c)
  PROVE  /\ Available(c) \in 0..c.capacity
         /\ Wrap(c.read + Available(c), c.capacity) = c.write
         /\ Available(c) = 0 <=> EmptyRing(c)
         /\ CanWrite(c) = c.capacity - Available(c)
         /\ CanWrite(c) \in 0..c.capacity
<1>1. CASE EmptyRing(c)
  BY <1>1, RingFields, AvailableIs DEF CanWrite, Wrap, EmptyRing
<1>2. CASE ~EmptyRing(c)
  BY <1>2, RingFields, AvailableIs DEF CanWrite, Wrap
<1>3. QED
  BY <1>1, <1>2

\* A position at most one turn further on, reduced into the first half.
LEMMA WrapRange ==
  ASSUME NEW m \in Nat \ {0}, NEW x \in 0..(2 * m - 1)
  PROVE  /\ Wrap(x, m) \in 0..(m - 1)
         /\ Wrap(x, m) + m \in 0..(2 * m - 1)
BY DEF Wrap

\* Two moves are one.
LEMMA WrapAgain ==
  ASSUME NEW m \in Nat \ {0}, NEW w \in 0..(m - 1), NEW n \in 0..m, NEW k \in 0..(m - 1)
  PROVE  Wrap(Wrap(w + n, m) + k, m) = Wrap(w + Wrap(n + k, m), m)
<1>1. CASE w + n < m
  BY <1>1 DEF Wrap
<1>2. CASE w + n >= m
  BY <1>2 DEF Wrap
<1>3. QED
  BY <1>1, <1>2

\* Sequences of the same length with the same elements are the same.
LEMMA SameSeq ==
  ASSUME NEW V, NEW s \in Seq(V), NEW t \in Seq(V), Len(s) = Len(t),
         \A k \in 1..Len(s) : s[k] = t[k]
  PROVE  s = t
OBVIOUS

\* The unread samples are the newest ones.
LEMMA QueueOfKept ==
  ASSUME NEW c, IsRing(c), NEW k \in 1..Available(c)
  PROVE  Wrap(c.read + k - 1, c.capacity)
           = Wrap(c.write + (c.capacity - Available(c) + k) - 1, c.capacity)
<1>1. CASE EmptyRing(c)
  BY <1>1, RingFields, AvailableIs DEF Wrap, EmptyRing
<1>2. CASE ~EmptyRing(c)
  BY <1>2, RingFields, AvailableIs DEF Wrap
<1>3. QED
  BY <1>1, <1>2

\* The same, as sequences.
LEMMA QueueIsKept ==
  ASSUME NEW c, IsRing(c), NEW V, HasCells(c, V)
  PROVE  /\ Queue(c) \in Seq(V) /\ Len(Queue(c)) = Available(c)
         /\ Kept(c) \in Seq(V) /\ Len(Kept(c)) = c.capacity
         /\ \A k \in 1..Available(c) : Queue(c)[k] = Kept(c)[c.capacity - Available(c) + k]
<1>0. c.capacity \in Nat \ {0} /\ c.read \in 0..(c.capacity - 1) /\ c.write \in 0..(c.capacity - 1)
      /\ Available(c) \in 0..c.capacity
  BY RingFields, AvailableFacts
<1>1. \A k \in 1..Available(c) : Wrap(c.read + k - 1, c.capacity) \in 0..(2 * c.capacity - 1)
  BY <1>0 DEF Wrap
<1>2. \A k \in 1..c.capacity : Wrap(c.write + k - 1, c.capacity) \in 0..(2 * c.capacity - 1)
  BY <1>0 DEF Wrap
<1>3. Queue(c) \in [1..Available(c) -> V] /\ Kept(c) \in [1..c.capacity -> V]
  BY <1>1, <1>2 DEF HasCells, Queue, Kept
<1>4. \A k \in 1..Available(c) : Queue(c)[k] = Kept(c)[c.capacity - Available(c) + k]
  <2> SUFFICES ASSUME NEW k \in 1..Available(c)
               PROVE  Queue(c)[k] = Kept(c)[c.capacity - Available(c) + k]
    OBVIOUS
  <2> DEFINE m == c.capacity - Available(c) + k
  <2>1. m \in 1..c.capacity
    BY <1>0
  <2>2. Wrap(c.read + k - 1, c.capacity) = Wrap(c.write + m - 1, c.capacity)
    BY QueueOfKept
  <2>3. Queue(c)[k] = c.buffer[Wrap(c.read + k - 1, c.capacity)]
    BY DEF Queue
  <2> HIDE DEF m
  <2>4. Kept(c)[m] = c.buffer[Wrap(c.write + m - 1, c.capacity)]
    BY <2>1 DEF Kept
  <2>5. QED
    BY <2>2, <2>3, <2>4 DEF m
<1>5. Queue(c) \in Seq(V) /\ Kept(c) \in Seq(V)
  BY <1>0, <1>3
<1>6. DOMAIN Queue(c) = 1..Available(c) /\ DOMAIN Kept(c) = 1..c.capacity
  BY DEF Queue, Kept
<1>7. Len(Queue(c)) = Available(c) /\ Len(Kept(c)) = c.capacity
  BY <1>0, <1>5, <1>6
<1>8. QED
  BY <1>4, <1>5, <1>7

\* d is c with the values behind its write position, in both halves of the ring, and the rest
\* as it was.
CellsWritten(c, d, values, V) ==
  /\ d = [capacity |-> c.capacity, read |-> c.read,
          write |-> Wrap(c.write + Len(values), c.capacity), empty |-> FALSE, buffer |-> d.buffer]
  /\ d.buffer \in [0..(2 * c.capacity - 1) -> V]
  /\ \A j \in 0..(c.capacity - 1) :
       LET at == Wrap(c.write + j, c.capacity) IN
       /\ d.buffer[at] = IF j < Len(values) THEN values[j + 1] ELSE c.buffer[at]
       /\ d.buffer[at + c.capacity] =
            IF j < Len(values) THEN values[j + 1] ELSE c.buffer[at + c.capacity]

\* That is what a write does.
LEMMA WriteCells ==
  ASSUME NEW c, IsRing(c), NEW V, HasCells(c, V),
         NEW values \in Seq(V), Len(values) \in 1..c.capacity
  PROVE  CellsWritten(c, Write(c, values), values, V)
<1> DEFINE C == c.capacity
           w == c.write
           n == Len(values)
           n1 == IF w + n < C THEN n ELSE C - w
           placed == Placed(c.buffer, w, values)
           mirrored == Placed(placed, C + w, SubSeq(values, 1, n1))
           all == Placed(mirrored, 0, SubSeq(values, n1 + 1, n))
<1>0. C \in Nat \ {0} /\ w \in 0..(C - 1) /\ n \in 1..C
  BY RingFields
<1>1. Write(c, values) = [capacity |-> C, read |-> c.read,
              write |-> Wrap(w + n, C), empty |-> FALSE, buffer |-> all]
  <2>1. n # 0
    BY <1>0
  <2>2. Write(c, values) = [c EXCEPT !.buffer = all, !.write = Wrap(w + n, C), !.empty = FALSE]
    BY <2>1 DEF Write, Wrap
  <2> HIDE DEF n, all
  <2>3. QED
    BY <2>2 DEF IsRing
<1>2. n1 \in 1..n /\ w + n1 <= C /\ (w + n < C => n1 = n) /\ (w + n >= C => n1 = C - w)
  BY <1>0
<1>3. /\ Len(SubSeq(values, 1, n1)) = n1 /\ \A i \in 1..n1 : SubSeq(values, 1, n1)[i] = values[i]
      /\ Len(SubSeq(values, n1 + 1, n)) = n - n1
      /\ \A i \in 1..(n - n1) : SubSeq(values, n1 + 1, n)[i] = values[n1 + i]
  BY <1>2
<1>4. \A i \in 1..n : values[i] \in V
  OBVIOUS
<1>5. DOMAIN c.buffer = 0..(2 * C - 1) /\ \A i \in 0..(2 * C - 1) : c.buffer[i] \in V
  BY DEF HasCells
<1> HIDE DEF n1, C, w
<1>6. \A i \in 0..(2 * C - 1) : placed[i] =
        IF i \in w..(w + n - 1) THEN values[i - w + 1] ELSE c.buffer[i]
  BY <1>5 DEF Placed
<1>7. DOMAIN placed = 0..(2 * C - 1) /\ DOMAIN mirrored = 0..(2 * C - 1)
      /\ DOMAIN all = 0..(2 * C - 1)
  BY <1>5 DEF Placed
<1> HIDE DEF n, placed
<1>8. \A i \in 0..(2 * C - 1) : mirrored[i] =
        IF i \in (C + w)..(C + w + n1 - 1)
        THEN values[i - (C + w) + 1] ELSE placed[i]
  <2>1. \A i \in 0..(2 * C - 1) : mirrored[i] =
          IF i \in (C + w)..(C + w + n1 - 1)
          THEN SubSeq(values, 1, n1)[i - (C + w) + 1] ELSE placed[i]
    BY <1>3, <1>7 DEF Placed
  <2>2. \A i \in (C + w)..(C + w + n1 - 1) : i - (C + w) + 1 \in 1..n1
    BY <1>0, <1>2
  <2>3. QED
    BY <1>3, <2>1, <2>2
<1> HIDE DEF mirrored
<1>9. \A i \in 0..(2 * C - 1) : all[i] =
        IF i \in 0..(n - n1 - 1) THEN values[n1 + i + 1] ELSE mirrored[i]
  <2>1. \A i \in 0..(2 * C - 1) : all[i] =
          IF i \in 0..(0 + (n - n1) - 1) THEN SubSeq(values, n1 + 1, n)[i - 0 + 1] ELSE mirrored[i]
    BY <1>3, <1>7 DEF Placed
  <2>2. \A i \in 0..(n - n1 - 1) : i + 1 \in 1..(n - n1) /\ i - 0 + 1 = i + 1 /\ n1 + (i + 1) = n1 + i + 1
    BY <1>0, <1>2
  <2>3. 0 + (n - n1) - 1 = n - n1 - 1
    BY <1>0, <1>2
  <2>4. QED
    BY <1>3, <2>1, <2>2, <2>3
<1> HIDE DEF all
<1>10. all \in [0..(2 * C - 1) -> V]
  <2>1. \A i \in 0..(2 * C - 1) : placed[i] \in V
    BY <1>0, <1>4, <1>5, <1>6
  <2>2. \A i \in 0..(2 * C - 1) : mirrored[i] \in V
    BY <1>0, <1>2, <1>4, <1>8, <2>1
  <2>3. \A i \in 0..(2 * C - 1) : all[i] \in V
    BY <1>0, <1>2, <1>4, <1>9, <2>2
  <2>4. QED
    <3>1. all = [i \in 0..(2 * C - 1) |-> all[i]]
      BY <1>7 DEF all, Placed
    <3>2. QED
      BY <2>3, <3>1
<1>11. ASSUME NEW j \in 0..(C - 1)
       PROVE  LET at == Wrap(w + j, C) IN
              /\ all[at] = IF j < n THEN values[j + 1] ELSE c.buffer[at]
              /\ all[at + C] = IF j < n THEN values[j + 1] ELSE c.buffer[at + C]
  <2>1. CASE w + j < C
    <3>1. Wrap(w + j, C) = w + j
      BY <2>1 DEF Wrap
    <3>2. all[w + j] = IF j < n THEN values[j + 1] ELSE c.buffer[w + j]
      BY <2>1, <1>0, <1>2, <1>6, <1>8, <1>9
    <3>3. all[w + j + C] = IF j < n THEN values[j + 1] ELSE c.buffer[w + j + C]
      BY <2>1, <1>0, <1>2, <1>6, <1>8, <1>9
    <3>4. QED
      BY <3>1, <3>2, <3>3
  <2>2. CASE w + j >= C
    <3>1. Wrap(w + j, C) = w + j - C
      BY <2>2, <1>0 DEF Wrap
    <3>2. all[w + j - C] = IF j < n THEN values[j + 1] ELSE c.buffer[w + j - C]
      BY <2>2, <1>0, <1>2, <1>6, <1>8, <1>9
    <3>3. all[w + j] = IF j < n THEN values[j + 1] ELSE c.buffer[w + j]
      BY SMTT(30), <2>2, <1>0, <1>2, <1>6, <1>8, <1>9
    <3>4. w + j - C + C = w + j
      BY <1>0
    <3>5. QED
      BY <3>1, <3>2, <3>3, <3>4
  <2>3. QED
    BY <1>0, <2>1, <2>2
<1>12. Write(c, values).buffer = all
  BY <1>1
<1>13. QED
  BY <1>1, <1>10, <1>11, <1>12 DEF C, w, n, CellsWritten

\* A write position moved into the free part.
LEMMA AdvancedRing ==
  ASSUME NEW c, IsRing(c), NEW n \in 1..CanWrite(c), NEW d,
         d = [capacity |-> c.capacity, read |-> c.read, write |-> Wrap(c.write + n, c.capacity),
              empty |-> FALSE, buffer |-> d.buffer]
  PROVE  IsRing(d) /\ Available(d) = Available(c) + n
<1> DEFINE C == c.capacity
<1>0. /\ C \in Nat \ {0} /\ c.read \in 0..(C - 1) /\ c.write \in 0..(C - 1) /\ n \in 1..C
      /\ Available(c) \in 0..C /\ n + Available(c) <= C
  BY RingFields, AvailableFacts
<1>1. d.capacity = C /\ d.read = c.read /\ d.write = Wrap(c.write + n, C) /\ d.empty = FALSE
  OBVIOUS
<1>2. Wrap(c.write + n, C) \in 0..(C - 1)
  BY <1>0 DEF Wrap
<1>3. IsRing(d)
  BY <1>0, <1>1, <1>2 DEF IsRing
<1>4. Available(d) = Available(c) + n
  <2>1. /\ d.write > d.read => Available(d) = d.write - d.read
        /\ d.write <= d.read => Available(d) = d.write - d.read + C
    BY <1>1, <1>3, AvailableIs DEF EmptyRing
  <2>2. /\ EmptyRing(c) => Available(c) = 0 /\ c.read = c.write
        /\ ~EmptyRing(c) /\ c.write > c.read => Available(c) = c.write - c.read
        /\ ~EmptyRing(c) /\ c.write <= c.read => Available(c) = c.write - c.read + C
    BY RingFields, AvailableIs DEF EmptyRing
  <2>3. CASE EmptyRing(c)
    BY <2>1, <2>2, <2>3, <1>0, <1>1 DEF Wrap
  <2>4. CASE ~EmptyRing(c)
    BY <2>1, <2>2, <2>4, <1>0, <1>1 DEF Wrap
  <2>5. QED
    BY <2>3, <2>4
<1>5. QED
  BY <1>3, <1>4

\* d is c after the write position moved over n new values.
Advanced(c, d, values, n) ==
  /\ d.capacity = c.capacity
  /\ d.write = Wrap(c.write + n, c.capacity)
  /\ \A j \in 0..(c.capacity - 1) : d.buffer[Wrap(c.write + j, c.capacity)] =
       IF j < n THEN values[j + 1] ELSE c.buffer[Wrap(c.write + j, c.capacity)]

\* The samples kept after that.
PushesOut(c, d, values, n) ==
  \A k \in 1..c.capacity :
    Kept(d)[k] = IF k <= c.capacity - n THEN Kept(c)[k + n] ELSE values[k - (c.capacity - n)]

\* A write position that moves on pushes out the oldest samples.
LEMMA AdvancedKept ==
  ASSUME NEW c, IsRing(c), NEW values, NEW n \in 1..c.capacity, NEW d, Advanced(c, d, values, n)
  PROVE  PushesOut(c, d, values, n)
<1> SUFFICES ASSUME NEW k \in 1..c.capacity
             PROVE  Kept(d)[k] = IF k <= c.capacity - n THEN Kept(c)[k + n]
                                 ELSE values[k - (c.capacity - n)]
  BY DEF PushesOut
<1> DEFINE C == c.capacity
           j == IF k <= C - n THEN k + n - 1 ELSE k - (C - n) - 1
<1>0. C \in Nat \ {0} /\ c.write \in 0..(C - 1)
  BY RingFields
<1>1. /\ j \in 0..(C - 1)
      /\ k <= C - n => j = k + n - 1 /\ j >= n
      /\ k > C - n => j = k - (C - n) - 1 /\ j < n
  BY <1>0
<1> HIDE DEF j
<1>2. d.buffer[Wrap(c.write + j, C)] = IF j < n THEN values[j + 1] ELSE c.buffer[Wrap(c.write + j, C)]
  BY <1>1 DEF Advanced
<1>3. Wrap(Wrap(c.write + n, C) + k - 1, C) = Wrap(c.write + j, C)
  <2>1. CASE k <= C - n
    BY SMTT(30), <1>0, <1>1, <2>1 DEF Wrap
  <2>2. CASE k > C - n
    BY SMTT(30), <1>0, <1>1, <2>2 DEF Wrap
  <2>3. QED
    BY <1>0, <2>1, <2>2
<1>4. Kept(d)[k] = d.buffer[Wrap(c.write + j, C)]
  BY <1>3 DEF Kept, Advanced
<1>5. k <= C - n => Kept(c)[k + n] = c.buffer[Wrap(c.write + j, C)]
  <2> SUFFICES ASSUME k <= C - n PROVE Kept(c)[k + n] = c.buffer[Wrap(c.write + j, C)]
    OBVIOUS
  <2>1. k + n \in 1..C /\ c.write + (k + n) - 1 = c.write + j
    BY <1>0, <1>1
  <2>2. QED
    BY <2>1 DEF Kept
<1>6. k > C - n => j + 1 = k - (C - n)
  BY <1>0, <1>1
<1>7. QED
  BY <1>0, <1>1, <1>2, <1>4, <1>5, <1>6

\* A write that fits leaves a ring.
LEMMA WriteRing ==
  ASSUME NEW c, IsRing(c), NEW V, HasCells(c, V),
         NEW values \in Seq(V), Len(values) \in 1..CanWrite(c)
  PROVE  /\ IsRing(Write(c, values)) /\ HasCells(Write(c, values), V)
         /\ Write(c, values).capacity = c.capacity /\ Write(c, values).read = c.read
         /\ Write(c, values).write = Wrap(c.write + Len(values), c.capacity)
         /\ ~Write(c, values).empty
         /\ Available(Write(c, values)) = Available(c) + Len(values)
<1> DEFINE W == Write(c, values)
<1>1. Len(values) \in 1..c.capacity
  BY RingFields, AvailableFacts
<1>2. /\ W = [capacity |-> c.capacity, read |-> c.read, write |-> Wrap(c.write + Len(values), c.capacity),
              empty |-> FALSE, buffer |-> W.buffer]
      /\ W.buffer \in [0..(2 * c.capacity - 1) -> V]
  BY <1>1, WriteCells DEF CellsWritten
<1> HIDE DEF W
<1>3. IsRing(W) /\ Available(W) = Available(c) + Len(values)
  BY <1>2, AdvancedRing
<1>4. W.capacity = c.capacity /\ W.read = c.read /\ W.write = Wrap(c.write + Len(values), c.capacity) /\ W.empty = FALSE
  BY <1>2
<1>5. QED
  BY <1>2, <1>3, <1>4 DEF HasCells, W

\* It pushes out the oldest samples.
LEMMA WriteKept ==
  ASSUME NEW c, IsRing(c), NEW V, HasCells(c, V),
         NEW values \in Seq(V), Len(values) \in 1..CanWrite(c),
         NEW k \in 1..c.capacity
  PROVE  Kept(Write(c, values))[k] =
           IF k <= c.capacity - Len(values) THEN Kept(c)[k + Len(values)]
           ELSE values[k - (c.capacity - Len(values))]
<1>1. Len(values) \in 1..c.capacity
  BY RingFields, AvailableFacts
<1>2. \A j \in 0..(c.capacity - 1) : Write(c, values).buffer[Wrap(c.write + j, c.capacity)] =
        IF j < Len(values) THEN values[j + 1] ELSE c.buffer[Wrap(c.write + j, c.capacity)]
  BY <1>1, WriteCells DEF CellsWritten
<1>3. Write(c, values).capacity = c.capacity
      /\ Write(c, values).write = Wrap(c.write + Len(values), c.capacity)
  BY WriteRing
<1>4. Advanced(c, Write(c, values), values, Len(values))
  BY <1>2, <1>3 DEF Advanced
<1>5. PushesOut(c, Write(c, values), values, Len(values))
  BY <1>1, <1>4, AdvancedKept
<1>6. QED
  BY <1>5 DEF PushesOut

\* It appends to the unread samples.
LEMMA WriteQueue ==
  ASSUME NEW c, IsRing(c), NEW V, HasCells(c, V),
         NEW values \in Seq(V), Len(values) \in 1..CanWrite(c)
  PROVE  Queue(Write(c, values)) = Queue(c) \o values
<1> DEFINE W == Write(c, values)
           n == Len(values)
           C == c.capacity
           a == Available(c)
<1>0. /\ C \in Nat \ {0} /\ n \in 1..C /\ a \in 0..C /\ n + a <= C
  BY RingFields, AvailableFacts
<1>1. IsRing(W) /\ HasCells(W, V) /\ W.capacity = C /\ Available(W) = a + n
  BY WriteRing
<1>2. /\ Queue(c) \in Seq(V) /\ Len(Queue(c)) = a
      /\ \A k \in 1..a : Queue(c)[k] = Kept(c)[C - a + k]
  BY QueueIsKept
<1>3. /\ Queue(W) \in Seq(V) /\ Len(Queue(W)) = a + n
      /\ \A k \in 1..(a + n) : Queue(W)[k] = Kept(W)[C - (a + n) + k]
  BY <1>1, QueueIsKept
<1>4. ASSUME NEW k \in 1..C
      PROVE  Kept(W)[k] = IF k <= C - n THEN Kept(c)[k + n] ELSE values[k - (C - n)]
  BY WriteKept
<1> HIDE DEF W, n, C, a
<1>5. ASSUME NEW k \in 1..(a + n)
      PROVE  Queue(W)[k] = (Queue(c) \o values)[k]
  <2> DEFINE m == C - (a + n) + k
  <2>1. /\ m \in 1..C /\ (m <= C - n <=> k <= a)
        /\ m + n = C - a + k /\ m - (C - n) = k - a
    BY <1>0
  <2> HIDE DEF m
  <2>2. Kept(W)[m] = IF k <= a THEN Kept(c)[C - a + k] ELSE values[k - a]
    BY <1>4, <2>1
  <2>3. (Queue(c) \o values)[k] = IF k <= a THEN Queue(c)[k] ELSE values[k - a]
    BY <1>0, <1>2 DEF n
  <2>4. k <= a => k \in 1..a
    BY <1>0
  <2>5. QED
    BY <1>2, <1>3, <2>2, <2>3, <2>4 DEF m
<1>6. (Queue(c) \o values) \in Seq(V) /\ Len(Queue(c) \o values) = a + n
  BY <1>2 DEF n
<1>7. Queue(W) = Queue(c) \o values
  BY <1>3, <1>5, <1>6, SameSeq
<1>8. QED
  BY <1>7 DEF W

\* s is what n cells in a row hold.
CellsRead(s, buffer, from, n, V) ==
  /\ s \in Seq(V) /\ Len(s) = n
  /\ \A i \in 1..n : s[i] = buffer[from + i - 1]

\* Cells reads them.
LEMMA CellsSeq ==
  ASSUME NEW c, IsRing(c), NEW V, HasCells(c, V), NEW from \in Nat, NEW n \in Nat,
         from + n <= 2 * c.capacity
  PROVE  CellsRead(Cells(c.buffer, from, n), c.buffer, from, n, V)
<1>1. \A i \in 1..n : from + i - 1 \in 0..(2 * c.capacity - 1)
  BY RingFields
<1>2. Cells(c.buffer, from, n) \in [1..n -> V]
  BY <1>1 DEF Cells, HasCells
<1>3. DOMAIN Cells(c.buffer, from, n) = 1..n
  BY DEF Cells
<1>4. QED
  BY <1>2, <1>3 DEF Cells, CellsRead

\* Get reads the oldest unread samples, over the end of the ring too.
LEMMA GetQueue ==
  ASSUME NEW c, IsRing(c), NEW V, HasCells(c, V), NEW n \in 0..Available(c)
  PROVE  Get(c, n) = SubSeq(Queue(c), 1, n)
<1> DEFINE C == c.capacity
           r == c.read
           G == Get(c, n)
<1>0. C \in Nat \ {0} /\ r \in 0..(C - 1) /\ Available(c) \in 0..C /\ n \in 0..C
  BY RingFields, AvailableFacts
<1>1. /\ Queue(c) \in Seq(V) /\ Len(Queue(c)) = Available(c)
      /\ \A k \in 1..n : Queue(c)[k] = c.buffer[Wrap(r + k - 1, C)]
  BY <1>0, QueueIsKept DEF Queue
<1>2. /\ SubSeq(Queue(c), 1, n) \in Seq(V) /\ Len(SubSeq(Queue(c), 1, n)) = n
      /\ \A k \in 1..n : SubSeq(Queue(c), 1, n)[k] = Queue(c)[k]
  BY <1>0, <1>1
<1>3. G \in Seq(V) /\ Len(G) = n /\ \A k \in 1..n : G[k] = c.buffer[Wrap(r + k - 1, C)]
  <2>1. CASE r + n <= C
    <3>1. G = Cells(c.buffer, r, n)
      BY <2>1 DEF Get
    <3>2. \A k \in 1..n : Wrap(r + k - 1, C) = r + k - 1
      BY <2>1, <1>0 DEF Wrap
    <3>3. r \in Nat /\ n \in Nat /\ r + n <= 2 * C
      BY <2>1, <1>0
    <3>4. /\ Cells(c.buffer, r, n) \in Seq(V) /\ Len(Cells(c.buffer, r, n)) = n
          /\ \A i \in 1..n : Cells(c.buffer, r, n)[i] = c.buffer[r + i - 1]
      BY <3>3, CellsSeq DEF CellsRead
    <3> HIDE DEF G
    <3>5. QED
      BY <3>1, <3>2, <3>4
  <2>2. CASE r + n > C
    <3> DEFINE s == Cells(c.buffer, r, C - r)
               t == Cells(c.buffer, 0, r + n - C)
    <3>1. G = s \o t
      BY <2>2, <1>0 DEF Get
    <3>2. /\ r \in Nat /\ C - r \in Nat /\ r + (C - r) <= 2 * C
          /\ 0 \in Nat /\ r + n - C \in Nat /\ 0 + (r + n - C) <= 2 * C
      BY <2>2, <1>0
    <3>3. /\ s \in Seq(V) /\ Len(s) = C - r
          /\ \A i \in 1..(C - r) : s[i] = c.buffer[r + i - 1]
      <4>1. CellsRead(s, c.buffer, r, C - r, V)
        BY <3>2, CellsSeq
      <4> HIDE DEF s
      <4>2. QED
        BY <4>1 DEF CellsRead
    <3>4. /\ t \in Seq(V) /\ Len(t) = r + n - C
          /\ \A i \in 1..(r + n - C) : t[i] = c.buffer[0 + i - 1]
      <4>1. CellsRead(t, c.buffer, 0, r + n - C, V)
        BY <3>2, CellsSeq
      <4> HIDE DEF t
      <4>2. QED
        BY <4>1 DEF CellsRead
    <3> HIDE DEF G, s, t
    <3>8. s \in Seq(V) /\ t \in Seq(V)
      BY <3>3, <3>4
    <3>9. Len(s) = C - r /\ Len(t) = r + n - C /\ Len(s) + Len(t) = n
      BY <3>2, <3>3, <3>4, <1>0
    <3>5. G \in Seq(V) /\ Len(G) = n
      <4>1. s \o t \in Seq(V) /\ Len(s \o t) = Len(s) + Len(t)
        BY <3>8
      <4>2. QED
        BY <3>1, <3>9, <4>1
    <3>6. ASSUME NEW k \in 1..n
          PROVE  G[k] = c.buffer[Wrap(r + k - 1, C)]
      <4>1. CASE k <= C - r
        <5>1. Wrap(r + k - 1, C) = r + k - 1 /\ k \in 1..(C - r)
          BY <1>0, <4>1 DEF Wrap
        <5>2. QED
          BY <3>1, <3>3, <3>4, <5>1
      <4>2. CASE k > C - r
        <5>1. Wrap(r + k - 1, C) = 0 + (k - (C - r)) - 1 /\ k - (C - r) \in 1..(r + n - C)
          BY <1>0, <4>2 DEF Wrap
        <5>2. (s \o t)[k] = t[k - (C - r)]
          <6>2. k \in (Len(s) + 1)..(Len(s) + Len(t))
            <7>1. k \in ((C - r) + 1)..n
              BY <1>0, <4>2
            <7>2. QED
              BY <3>9, <7>1
          <6>3. (s \o t)[k] = t[k - Len(s)]
            BY <3>8, <6>2
          <6>4. QED
            BY <3>9, <6>3
        <5>3. QED
          BY <3>1, <3>4, <5>1, <5>2
      <4>3. QED
        BY <1>0, <4>1, <4>2
    <3>7. QED
      BY <3>5, <3>6
  <2>3. QED
    BY <1>0, <2>1, <2>2
<1> HIDE DEF G
<1>4. \A k \in 1..n : G[k] = SubSeq(Queue(c), 1, n)[k]
  BY <1>1, <1>2, <1>3
<1>5. QED
  BY <1>2, <1>3, <1>4 DEF G

\* Peek finds one of them.
LEMMA PeekQueue ==
  ASSUME NEW c, IsRing(c), NEW i \in 0..(Available(c) - 1)
  PROVE  /\ PeekTarget(c, i) = Wrap(c.read + i, c.capacity)
         /\ Peek(c, i) = Queue(c)[i + 1]
<1>0. c.capacity \in Nat \ {0} /\ c.read \in 0..(c.capacity - 1) /\ Available(c) \in 0..c.capacity
  BY RingFields, AvailableFacts
<1>1. PeekTarget(c, i) = Wrap(c.read + i, c.capacity)
  BY <1>0 DEF PeekTarget, Wrap
<1>2. i + 1 \in 1..Available(c) /\ c.read + (i + 1) - 1 = c.read + i
  BY <1>0
<1>3. QED
  BY <1>1, <1>2 DEF Peek, Queue

\* PeekMax gives a beginning of them, empty only when there are none.
LEMMA PeekMaxQueue ==
  ASSUME NEW c, IsRing(c), NEW V, HasCells(c, V)
  PROVE  IsPrefix(PeekMax(c), Queue(c)) /\ (PeekMax(c) = <<>> => Queue(c) = <<>>)
<1> DEFINE C == c.capacity
           n == IF c.write <= c.read THEN C - c.read ELSE c.write - c.read
<1>0. C \in Nat \ {0} /\ c.read \in 0..(C - 1) /\ c.write \in 0..(C - 1) /\ Available(c) \in 0..C
  BY RingFields, AvailableFacts
<1>1. Queue(c) \in Seq(V) /\ Len(Queue(c)) = Available(c)
  BY QueueIsKept
<1>2. CASE Available(c) = 0
  <2>1. PeekMax(c) = <<>> /\ Queue(c) = <<>>
    BY <1>1, <1>2 DEF PeekMax
  <2>2. QED
    BY <2>1 DEF IsPrefix
<1>3. CASE Available(c) # 0
  <2>1. PeekMax(c) = Cells(c.buffer, c.read, n)
    BY <1>3 DEF PeekMax
  <2>2. ~EmptyRing(c)
    BY <1>3, AvailableIs
  <2>3. n \in 1..Available(c) /\ c.read + n <= C
    <3>1. /\ c.write > c.read => Available(c) = c.write - c.read
          /\ c.write <= c.read => Available(c) = c.write - c.read + C
      BY <2>2, AvailableIs
    <3>2. QED
      BY <1>0, <3>1
  <2> HIDE DEF n
  <2>4. PeekMax(c) = Get(c, n)
    BY <2>1, <2>3 DEF Get
  <2>5. PeekMax(c) = SubSeq(Queue(c), 1, n)
    BY <1>0, <2>3, <2>4, GetQueue
  <2>6. SubSeq(Queue(c), 1, n) \in Seq(V) /\ Len(SubSeq(Queue(c), 1, n)) = n
    BY <1>0, <1>1, <2>3
  <2>7. SubSeq(SubSeq(Queue(c), 1, n), 1, n) = SubSeq(Queue(c), 1, n)
    BY <2>6
  <2>8. QED
    BY <1>0, <1>1, <2>3, <2>5, <2>6, <2>7 DEF IsPrefix
<1>4. QED
  BY <1>2, <1>3

\* Two states of a buffer with the same samples and the same write position.
SameSamples(c, d) ==
  d.capacity = c.capacity /\ d.write = c.write /\ d.buffer = c.buffer

\* A call that moves the read position keeps the samples.
LEMMA SameSamplesKept ==
  ASSUME NEW c, NEW d, SameSamples(c, d)
  PROVE  /\ Kept(d) = Kept(c)
         /\ \A V : HasCells(c, V) => HasCells(d, V)
BY DEF SameSamples, Kept, HasCells

\* Discard moves the read position.
LEMMA DiscardRing ==
  ASSUME NEW c, IsRing(c), NEW n \in 1..Available(c)
  PROVE  /\ IsRing(Discard(c, n)) /\ SameSamples(c, Discard(c, n))
         /\ Available(Discard(c, n)) = Available(c) - n
         /\ Discard(c, n).read = Wrap(c.read + n, c.capacity)
<1> DEFINE D == Discard(c, n)
           C == c.capacity
           next == IF c.read + n >= C THEN c.read + n - C ELSE c.read + n
           e == c.empty \/ next = c.write
<1>0. C \in Nat \ {0} /\ c.read \in 0..(C - 1) /\ c.write \in 0..(C - 1) /\ Available(c) \in 0..C
      /\ n \in 1..Available(c)
  BY RingFields, AvailableFacts
<1>1. D = [capacity |-> C, read |-> next, write |-> c.write, empty |-> e, buffer |-> c.buffer]
  <2>1. D = [c EXCEPT !.read = next, !.empty = e]
    BY Zenon DEF Discard
  <2> HIDE DEF D, next, e
  <2>2. QED
    BY <2>1 DEF IsRing
<1>2. next = Wrap(c.read + n, C) /\ next \in 0..(C - 1)
  BY <1>0 DEF Wrap
<1>3. ~EmptyRing(c)
  BY <1>0, AvailableIs
<1>4. e \in BOOLEAN /\ (next = c.write => e)
  BY RingFields
<1> HIDE DEF D, e, next
<1>5. /\ D.capacity = C /\ D.read = next /\ D.write = c.write /\ D.empty = e /\ D.buffer = c.buffer
  BY <1>1
<1>6. IsRing(D)
  BY <1>0, <1>1, <1>2, <1>4, <1>5 DEF IsRing
<1>7. SameSamples(c, D)
  BY <1>5 DEF SameSamples
<1>8. Available(D) = Available(c) - n
  <2>1. /\ c.write > c.read => Available(c) = c.write - c.read
        /\ c.write <= c.read => Available(c) = c.write - c.read + C
    BY <1>3, AvailableIs
  <2>2. /\ next = c.write => Available(D) = 0
        /\ c.write > next => Available(D) = c.write - next
        /\ c.write < next => Available(D) = c.write - next + C
    BY <1>0, <1>2, <1>4, <1>5, <1>6, AvailableIs DEF EmptyRing
  <2>3. CASE next = c.write
    BY <1>0, <1>2, <2>1, <2>2, <2>3 DEF Wrap
  <2>4. CASE next # c.write
    BY SMTT(30), <1>0, <1>2, <2>1, <2>2, <2>4 DEF Wrap
  <2>5. QED
    BY <2>3, <2>4
<1>9. QED
  BY <1>2, <1>5, <1>6, <1>7, <1>8 DEF D

\* What is discarded are the oldest unread samples.
LEMMA DiscardQueue ==
  ASSUME NEW c, IsRing(c), NEW V, HasCells(c, V), NEW n \in 1..Available(c)
  PROVE  Queue(Discard(c, n)) = SubSeq(Queue(c), n + 1, Available(c))
<1> DEFINE D == Discard(c, n)
           C == c.capacity
           a == Available(c)
           S == SubSeq(Queue(c), n + 1, a)
<1>0. C \in Nat \ {0} /\ a \in 0..C /\ n \in 1..a
  BY RingFields, AvailableFacts
<1>1. IsRing(D) /\ D.capacity = C /\ Available(D) = a - n /\ Kept(D) = Kept(c) /\ HasCells(D, V)
  BY DiscardRing, SameSamplesKept DEF SameSamples
<1>2. /\ Queue(c) \in Seq(V) /\ Len(Queue(c)) = a
      /\ \A k \in 1..a : Queue(c)[k] = Kept(c)[C - a + k]
  BY QueueIsKept
<1>3. /\ Queue(D) \in Seq(V) /\ Len(Queue(D)) = a - n
      /\ \A k \in 1..(a - n) : Queue(D)[k] = Kept(c)[C - (a - n) + k]
  BY <1>1, QueueIsKept
<1> HIDE DEF D, C, a
<1>4. S \in Seq(V) /\ Len(S) = a - n /\ \A k \in 1..(a - n) : S[k] = Queue(c)[n + k]
  BY <1>0, <1>2
<1> HIDE DEF S
<1>5. ASSUME NEW k \in 1..(a - n)
      PROVE  Queue(D)[k] = S[k]
  <2>1. n + k \in 1..a /\ C - a + (n + k) = C - (a - n) + k
    BY <1>0
  <2>2. QED
    BY <1>2, <1>3, <1>4, <2>1
<1>6. Queue(D) = S
  BY <1>0, <1>3, <1>4, <1>5
<1>7. QED
  BY <1>6 DEF D, S, a

\* Removing a sample is discarding one.
LEMMA RemoveIsDiscard ==
  ASSUME NEW c, IsRing(c)
  PROVE  RemoveSample(c) = Discard(c, 1)
<1>1. c.read + 1 = c.capacity <=> c.read + 1 >= c.capacity
  BY RingFields
<1>2. c.read + 1 = c.capacity => c.read + 1 - c.capacity = 0
  BY RingFields
<1>3. QED
  BY <1>1, <1>2 DEF RemoveSample, Discard

\* Rewind makes read samples unread again.
LEMMA RewindRing ==
  ASSUME NEW c, IsRing(c), NEW n \in 0..CanWrite(c)
  PROVE  /\ IsRing(Rewind(c, n)) /\ SameSamples(c, Rewind(c, n))
         /\ Available(Rewind(c, n)) = Available(c) + n
<1> DEFINE D == Rewind(c, n)
           C == c.capacity
           next == IF n > c.read THEN c.read + C - n ELSE c.read - n
           e == c.empty /\ n = 0
<1>0. C \in Nat \ {0} /\ c.read \in 0..(C - 1) /\ c.write \in 0..(C - 1) /\ Available(c) \in 0..C
      /\ n \in 0..(C - Available(c))
  BY RingFields, AvailableFacts
<1>1. D = [capacity |-> C, read |-> next, write |-> c.write, empty |-> e, buffer |-> c.buffer]
  <2>1. D = [c EXCEPT !.read = next, !.empty = e]
    BY Zenon DEF Rewind
  <2> HIDE DEF D, next, e
  <2>2. QED
    BY <2>1 DEF IsRing
<1>2. next \in 0..(C - 1) /\ (n > c.read => next = c.read + C - n) /\ (n <= c.read => next = c.read - n)
  BY <1>0
<1>3. e \in BOOLEAN /\ (e <=> c.empty /\ n = 0)
  BY RingFields
<1> HIDE DEF D, e, next
<1>5. /\ D.capacity = C /\ D.read = next /\ D.write = c.write /\ D.empty = e /\ D.buffer = c.buffer
  BY <1>1
<1>6. EmptyRing(D) <=> EmptyRing(c) /\ n = 0
  BY <1>0, <1>2, <1>3, <1>5 DEF EmptyRing
<1>7. IsRing(D)
  BY <1>0, <1>1, <1>2, <1>3, <1>5, RingFields DEF IsRing
<1>8. SameSamples(c, D)
  BY <1>5 DEF SameSamples
<1>9. Available(D) = Available(c) + n
  <2>1. /\ EmptyRing(c) => Available(c) = 0 /\ c.read = c.write
        /\ ~EmptyRing(c) /\ c.write > c.read => Available(c) = c.write - c.read
        /\ ~EmptyRing(c) /\ c.write <= c.read => Available(c) = c.write - c.read + C
    BY AvailableIs DEF EmptyRing
  <2>2. /\ EmptyRing(D) => Available(D) = 0
        /\ ~EmptyRing(D) /\ c.write > next => Available(D) = c.write - next
        /\ ~EmptyRing(D) /\ c.write <= next => Available(D) = c.write - next + C
    BY <1>5, <1>7, AvailableIs
  <2>3. CASE EmptyRing(c) /\ n = 0
    BY <1>0, <1>6, <2>1, <2>2, <2>3
  <2>4. CASE EmptyRing(c) /\ n # 0
    BY <1>0, <1>2, <1>6, <2>1, <2>2, <2>4
  <2>5. CASE ~EmptyRing(c)
    BY <1>0, <1>2, <1>6, <2>1, <2>2, <2>5
  <2>6. QED
    BY <2>3, <2>4, <2>5
<1>10. QED
  BY <1>7, <1>8, <1>9 DEF D

\* Shift moves the read position to somewhere in the ring.
LEMMA ShiftRing ==
  ASSUME NEW c, IsRing(c), NEW n \in (-c.capacity)..c.capacity
  PROVE  IsRing(Shift(c, n)) /\ SameSamples(c, Shift(c, n))
<1> DEFINE D == Shift(c, n)
           C == c.capacity
           next == IF n < 0 THEN (IF c.read < -n THEN c.read + C ELSE c.read) + n
                   ELSE IF c.read + n >= C THEN c.read + n - C ELSE c.read + n
<1>0. C \in Nat \ {0} /\ c.read \in 0..(C - 1) /\ c.write \in 0..(C - 1) /\ c.empty \in BOOLEAN
  BY RingFields
<1>1. D = [capacity |-> C, read |-> next, write |-> c.write, empty |-> c.empty, buffer |-> c.buffer]
  BY DEF Shift, IsRing
<1>2. next \in 0..(C - 1)
  BY <1>0
<1> HIDE DEF D, next
<1>3. /\ D.capacity = C /\ D.read = next /\ D.write = c.write /\ D.empty = c.empty /\ D.buffer = c.buffer
  BY <1>1
<1>4. IsRing(D)
  BY <1>0, <1>1, <1>2, <1>3 DEF IsRing
<1>5. SameSamples(c, D)
  BY <1>3 DEF SameSamples
<1>6. QED
  BY <1>4, <1>5 DEF D

\* Every cell of the first half lies so many positions ahead of the write position.
LEMMA Ahead ==
  ASSUME NEW m \in Nat \ {0}, NEW w \in 0..(m - 1), NEW i \in 0..(m - 1)
  PROVE  \E j \in 0..(m - 1) : i = Wrap(w + j, m)
<1>1. CASE i >= w
  <2>1. i - w \in 0..(m - 1) /\ i = Wrap(w + (i - w), m)
    BY <1>1 DEF Wrap
  <2>2. QED
    BY <2>1
<1>2. CASE i < w
  <2>1. i - w + m \in 0..(m - 1) /\ i = Wrap(w + (i - w + m), m)
    BY <1>2 DEF Wrap
  <2>2. QED
    BY <2>1
<1>3. QED
  BY <1>1, <1>2

\* A cell has only one distance.
LEMMA AheadOnce ==
  ASSUME NEW m \in Nat \ {0}, NEW w \in 0..(m - 1), NEW j \in 0..(m - 1), NEW k \in 0..(m - 1),
         Wrap(w + j, m) = Wrap(w + k, m)
  PROVE  j = k
BY DEF Wrap

\* The cells of the first half that hold the same as their images in the second.
Mirrored(c, i) == c.buffer[i + c.capacity] = c.buffer[i]

\* A write mirrors what it wrote.
LEMMA WriteMirrors ==
  ASSUME NEW c, IsRing(c), NEW V, HasCells(c, V),
         NEW values \in Seq(V), Len(values) \in 1..c.capacity,
         NEW i \in 0..(c.capacity - 1),
         Mirrored(c, i) \/ \E j \in 0..(Len(values) - 1) : i = Wrap(c.write + j, c.capacity)
  PROVE  Mirrored(Write(c, values), i)
<1> DEFINE C == c.capacity
           W == Write(c, values)
<1>0. C \in Nat \ {0} /\ c.write \in 0..(C - 1) /\ Len(values) \in 1..C
  BY RingFields
<1>1. PICK j \in 0..(C - 1) : i = Wrap(c.write + j, C)
  BY <1>0, Ahead
<1>2. /\ W.buffer[i] = IF j < Len(values) THEN values[j + 1] ELSE c.buffer[i]
      /\ W.buffer[i + C] = IF j < Len(values) THEN values[j + 1] ELSE c.buffer[i + C]
  BY <1>1, WriteCells DEF CellsWritten
<1>3. W.capacity = C
  BY WriteCells DEF CellsWritten
<1>4. CASE j < Len(values)
  BY <1>2, <1>3, <1>4 DEF Mirrored
<1>5. CASE ~(j < Len(values))
  <2>1. ~\E k \in 0..(Len(values) - 1) : i = Wrap(c.write + k, C)
    <3> SUFFICES ASSUME NEW k \in 0..(Len(values) - 1), i = Wrap(c.write + k, C) PROVE FALSE
      OBVIOUS
    <3>1. k \in 0..(C - 1)
      BY <1>0
    <3>2. j = k
      BY <1>0, <1>1, <3>1, AheadOnce
    <3>3. QED
      BY <1>0, <1>5, <3>2
  <2>2. Mirrored(c, i)
    BY <2>1
  <2>3. QED
    BY <1>2, <1>3, <1>5, <2>2 DEF Mirrored
<1>6. QED
  BY <1>4, <1>5

\* Add is a write of one sample.
LEMMA AddIsWrite ==
  ASSUME NEW c, IsRing(c), NEW V, HasCells(c, V), NEW value \in V
  PROVE  Add(c, value) = Write(c, <<value>>)
<1> DEFINE C == c.capacity
           w == c.write
           b == [c.buffer EXCEPT ![w] = value, ![w + C] = value]
           next == IF w + 1 = C THEN 0 ELSE w + 1
           one == <<value>>
           W == Write(c, one)
<1>0. C \in Nat \ {0} /\ w \in 0..(C - 1) /\ 1 \in 1..C
  BY RingFields
<1>8. one \in Seq(V) /\ Len(one) = 1 /\ one[1] = value
  OBVIOUS
<1> HIDE DEF one
<1>1. Add(c, value) = [capacity |-> C, read |-> c.read, write |-> next, empty |-> FALSE, buffer |-> b]
  <2>1. Add(c, value) = [c EXCEPT !.buffer = b, !.write = next, !.empty = FALSE]
    BY Zenon DEF Add
  <2> HIDE DEF b, next
  <2>2. QED
    BY <2>1 DEF IsRing
<1>2. /\ W = [capacity |-> C, read |-> c.read, write |-> Wrap(w + 1, C), empty |-> FALSE, buffer |-> W.buffer]
      /\ W.buffer \in [0..(2 * C - 1) -> V]
      /\ \A j \in 0..(C - 1) :
           /\ W.buffer[Wrap(w + j, C)] = IF j < 1 THEN one[j + 1] ELSE c.buffer[Wrap(w + j, C)]
           /\ W.buffer[Wrap(w + j, C) + C] = IF j < 1 THEN one[j + 1] ELSE c.buffer[Wrap(w + j, C) + C]
  <2>1. Len(one) \in 1..C
    BY <1>0, <1>8
  <2>2. /\ W = [capacity |-> C, read |-> c.read, write |-> Wrap(w + Len(one), C), empty |-> FALSE, buffer |-> W.buffer]
        /\ W.buffer \in [0..(2 * C - 1) -> V]
        /\ \A j \in 0..(C - 1) :
             /\ W.buffer[Wrap(w + j, C)] = IF j < Len(one) THEN one[j + 1] ELSE c.buffer[Wrap(w + j, C)]
             /\ W.buffer[Wrap(w + j, C) + C] = IF j < Len(one) THEN one[j + 1] ELSE c.buffer[Wrap(w + j, C) + C]
    <3>1. CellsWritten(c, W, one, V)
      BY <1>8, <2>1, WriteCells
    <3> HIDE DEF W
    <3>2. QED
      BY <3>1 DEF CellsWritten
  <2> HIDE DEF W
  <2>3. QED
    BY <1>8, <2>2
<1>3. next = Wrap(w + 1, C)
  BY <1>0 DEF Wrap
<1>4. b \in [0..(2 * C - 1) -> V]
  BY DEF HasCells
<1> HIDE DEF W
<1>5. ASSUME NEW i \in 0..(C - 1)
      PROVE  W.buffer[i] = b[i] /\ W.buffer[i + C] = b[i + C]
  <2>1. PICK j \in 0..(C - 1) : i = Wrap(w + j, C)
    BY <1>0, Ahead
  <2>2. i \in 0..(2 * C - 1) /\ i + C \in 0..(2 * C - 1)
    BY <1>0
  <2>3. CASE j = 0
    <3>1. i = w /\ one[j + 1] = value
      BY <1>0, <1>8, <2>1, <2>3 DEF Wrap
    <3>2. b[i] = value /\ b[i + C] = value
      BY <1>0, <2>2, <3>1 DEF HasCells
    <3>3. QED
      BY <1>2, <2>1, <2>3, <3>1, <3>2
  <2>4. CASE j # 0
    <3>1. i # w /\ ~(j < 1)
      BY <1>0, <2>1, <2>4 DEF Wrap
    <3>2. i # w + C /\ i + C # w /\ i + C # w + C
      BY <1>0, <3>1
    <3>3. b[i] = c.buffer[i] /\ b[i + C] = c.buffer[i + C]
      BY <2>2, <3>1, <3>2 DEF HasCells
    <3>4. QED
      BY <1>2, <2>1, <3>1, <3>3
  <2>5. QED
    BY <2>3, <2>4
<1>6. W.buffer = b
  <2>1. ASSUME NEW i \in 0..(2 * C - 1)
        PROVE  W.buffer[i] = b[i]
    <3>1. CASE i < C
      BY <1>0, <1>5, <3>1
    <3>2. CASE i >= C
      <4>1. i - C \in 0..(C - 1) /\ i - C + C = i
        BY <1>0, <3>2
      <4>2. QED
        BY <1>5, <4>1
    <3>3. QED
      BY <1>0, <3>1, <3>2
  <2>2. QED
    BY <1>2, <1>4, <2>1
<1>7. QED
  BY <1>1, <1>2, <1>3, <1>6 DEF W, one

\* Induction over the natural numbers, for a property given as the set of them that have it.
LEMMA Induction ==
  ASSUME NEW P, 0 \in P, \A n \in Nat : n \in P => n + 1 \in P
  PROVE  \A n \in Nat : n \in P
<1> DEFINE S == {n \in Nat : n \notin P}
           R == OpToRel(<, Nat)
<1> SUFFICES ASSUME S # {} PROVE FALSE
  OBVIOUS
<1> HIDE DEF R
<1>1. PICK m \in S : \A y \in S : ~(<<y, m>> \in R)
  <2>1. S \in SUBSET Nat
    OBVIOUS
  <2> HIDE DEF S
  <2>2. QED
    BY <2>1, NatLessThanWellFounded, WFMin DEF R
<1>2. m \in Nat /\ m # 0
  BY <1>1
<1>3. m - 1 \in Nat /\ <<m - 1, m>> \in R
  BY <1>2 DEF R, OpToRel
<1>4. m - 1 \in P
  BY <1>1, <1>3
<1>5. m - 1 + 1 = m
  BY <1>2
<1>6. QED
  BY <1>1, <1>3, <1>4, <1>5

\* Two records of a buffer's fields are the same when cells at the same distance are.
LEMMA SameCells ==
  ASSUME NEW m \in Nat \ {0}, NEW w \in 0..(m - 1), NEW V,
         NEW a \in [0..(2 * m - 1) -> V], NEW b \in [0..(2 * m - 1) -> V],
         \A j \in 0..(m - 1) : a[Wrap(w + j, m)] = b[Wrap(w + j, m)]
                               /\ a[Wrap(w + j, m) + m] = b[Wrap(w + j, m) + m]
  PROVE  a = b
<1>1. ASSUME NEW i \in 0..(m - 1)
      PROVE  a[i] = b[i] /\ a[i + m] = b[i + m]
  <2>1. PICK j \in 0..(m - 1) : i = Wrap(w + j, m)
    BY Ahead
  <2>2. QED
    BY <2>1
<1>2. ASSUME NEW i \in 0..(2 * m - 1)
      PROVE  a[i] = b[i]
  <2>1. CASE i < m
    BY <1>1, <2>1
  <2>2. CASE i >= m
    <3>1. i - m \in 0..(m - 1) /\ i - m + m = i
      BY <2>2
    <3>2. QED
      BY <1>1, <3>1
  <2>3. QED
    BY <2>1, <2>2
<1>3. QED
  BY <1>2

\* Two writes in a row do what one write of both does.
LEMMA WriteTwice ==
  ASSUME NEW c, IsRing(c), NEW V, HasCells(c, V), NEW x \in Seq(V), NEW y \in Seq(V),
         Len(x) \in 1..c.capacity, Len(y) \in 1..c.capacity, Len(x) + Len(y) <= CanWrite(c)
  PROVE  Write(Write(c, x), y) = Write(c, x \o y)
<1> DEFINE C == c.capacity
           w == c.write
           X == Write(c, x)
           Y == Write(X, y)
           z == x \o y
           Z == Write(c, z)
           nx == Len(x)
           ny == Len(y)
<1>0. /\ C \in Nat \ {0} /\ w \in 0..(C - 1) /\ nx \in 1..C /\ ny \in 1..C /\ nx + ny \in 1..C
      /\ nx \in 1..CanWrite(c)
  BY RingFields, AvailableFacts
<1>1. /\ z \in Seq(V) /\ Len(z) = nx + ny
      /\ \A j \in 1..(nx + ny) : z[j] = IF j <= nx THEN x[j] ELSE y[j - nx]
  BY <1>0
<1>2. /\ IsRing(X) /\ HasCells(X, V) /\ X.capacity = C /\ X.read = c.read /\ X.write = Wrap(w + nx, C)
  BY <1>0, WriteRing
<1>3. \A j \in 0..(C - 1) :
        /\ X.buffer[Wrap(w + j, C)] = IF j < nx THEN x[j + 1] ELSE c.buffer[Wrap(w + j, C)]
        /\ X.buffer[Wrap(w + j, C) + C] = IF j < nx THEN x[j + 1] ELSE c.buffer[Wrap(w + j, C) + C]
  BY WriteCells DEF CellsWritten
<1> HIDE DEF X
<1>4. /\ Y = [capacity |-> C, read |-> c.read, write |-> Wrap(X.write + ny, C), empty |-> FALSE, buffer |-> Y.buffer]
      /\ Y.buffer \in [0..(2 * C - 1) -> V]
      /\ \A j \in 0..(C - 1) :
        /\ Y.buffer[Wrap(X.write + j, C)] = IF j < ny THEN y[j + 1] ELSE X.buffer[Wrap(X.write + j, C)]
        /\ Y.buffer[Wrap(X.write + j, C) + C] = IF j < ny THEN y[j + 1] ELSE X.buffer[Wrap(X.write + j, C) + C]
  <2>1. ny \in 1..X.capacity
    BY <1>2
  <2>2. /\ Y = [capacity |-> X.capacity, read |-> X.read, write |-> Wrap(X.write + ny, X.capacity),
               empty |-> FALSE, buffer |-> Y.buffer]
        /\ Y.buffer \in [0..(2 * X.capacity - 1) -> V]
        /\ \A j \in 0..(X.capacity - 1) :
             LET at == Wrap(X.write + j, X.capacity) IN
             /\ Y.buffer[at] = IF j < ny THEN y[j + 1] ELSE X.buffer[at]
             /\ Y.buffer[at + X.capacity] = IF j < ny THEN y[j + 1] ELSE X.buffer[at + X.capacity]
    BY <1>2, <2>1, WriteCells DEF CellsWritten
  <2> HIDE DEF Y
  <2>3. QED
    BY <1>2, <2>2
<1> HIDE DEF Y, z
<1>5. /\ Z = [capacity |-> C, read |-> c.read, write |-> Wrap(w + (nx + ny), C), empty |-> FALSE, buffer |-> Z.buffer]
      /\ Z.buffer \in [0..(2 * C - 1) -> V]
      /\ \A j \in 0..(C - 1) :
        /\ Z.buffer[Wrap(w + j, C)] = IF j < nx + ny THEN z[j + 1] ELSE c.buffer[Wrap(w + j, C)]
        /\ Z.buffer[Wrap(w + j, C) + C] = IF j < nx + ny THEN z[j + 1] ELSE c.buffer[Wrap(w + j, C) + C]
  <2>1. /\ Z = [capacity |-> C, read |-> c.read, write |-> Wrap(w + Len(z), C), empty |-> FALSE, buffer |-> Z.buffer]
        /\ Z.buffer \in [0..(2 * C - 1) -> V]
        /\ \A j \in 0..(C - 1) :
          /\ Z.buffer[Wrap(w + j, C)] = IF j < Len(z) THEN z[j + 1] ELSE c.buffer[Wrap(w + j, C)]
          /\ Z.buffer[Wrap(w + j, C) + C] = IF j < Len(z) THEN z[j + 1] ELSE c.buffer[Wrap(w + j, C) + C]
    <3>1. Len(z) \in 1..C
      BY <1>0, <1>1
    <3>2. QED
      <4>1. CellsWritten(c, Z, z, V)
        BY <1>1, <3>1, WriteCells
      <4> HIDE DEF Z
      <4>2. QED
        BY <4>1 DEF CellsWritten
  <2>2. QED
    BY <1>1, <2>1
<1> HIDE DEF Z, nx, ny
<1>6. Wrap(X.write + ny, C) = Wrap(w + (nx + ny), C)
  BY <1>0, <1>2 DEF Wrap
<1>7. ASSUME NEW j \in 0..(C - 1)
      PROVE  /\ Y.buffer[Wrap(w + j, C)] = Z.buffer[Wrap(w + j, C)]
             /\ Y.buffer[Wrap(w + j, C) + C] = Z.buffer[Wrap(w + j, C) + C]
  <2> DEFINE k == IF j >= nx THEN j - nx ELSE j - nx + C
  <2>1. k \in 0..(C - 1) /\ Wrap(X.write + k, C) = Wrap(w + j, C)
    <3>1. k \in 0..(C - 1) /\ Wrap(nx + k, C) = j
      BY <1>0 DEF Wrap
    <3> HIDE DEF k
    <3>2. Wrap(Wrap(w + nx, C) + k, C) = Wrap(w + j, C)
      <4>1. nx \in 0..C
        BY <1>0
      <4>2. Wrap(Wrap(w + nx, C) + k, C) = Wrap(w + Wrap(nx + k, C), C)
        BY <1>0, <3>1, <4>1, WrapAgain
      <4>3. QED
        BY <3>1, <4>2
    <3>3. QED
      BY <1>2, <3>1, <3>2
  <2>2. (k < ny <=> j >= nx /\ j < nx + ny) /\ (j >= nx => k = j - nx)
    BY <1>0
  <2> HIDE DEF k
  <2>3. /\ Y.buffer[Wrap(w + j, C)] = IF k < ny THEN y[k + 1] ELSE X.buffer[Wrap(w + j, C)]
        /\ Y.buffer[Wrap(w + j, C) + C] = IF k < ny THEN y[k + 1] ELSE X.buffer[Wrap(w + j, C) + C]
    BY <1>4, <2>1
  <2>4. CASE j < nx
    <3>1. ~(k < ny) /\ j < nx + ny /\ j + 1 \in 1..(nx + ny) /\ j + 1 <= nx
      BY <1>0, <2>2, <2>4
    <3>2. z[j + 1] = x[j + 1]
      BY <1>1, <3>1
    <3>3. QED
      BY <1>3, <1>5, <2>3, <2>4, <3>1, <3>2
  <2>5. CASE j >= nx /\ j < nx + ny
    <3>1. k < ny /\ j + 1 \in 1..(nx + ny) /\ ~(j + 1 <= nx) /\ j + 1 - nx = k + 1
      BY <1>0, <2>2, <2>5
    <3>2. \A i \in 1..(nx + ny) : ~(i <= nx) => z[i] = y[i - nx]
      BY <1>1
    <3>3. \A i \in 1..(nx + ny) : i = j + 1 => z[i] = y[k + 1]
      <4>0. SUFFICES ASSUME NEW i \in 1..(nx + ny), i = j + 1 PROVE z[i] = y[k + 1]
        OBVIOUS
      <4>1. ~(i <= nx) /\ i - nx = k + 1
        BY <1>0, <2>1, <2>2, <2>5, <4>0
      <4>2. QED
        BY <3>2, <4>1
    <3>5. z[j + 1] = y[k + 1]
      BY <3>1, <3>3
    <3>4. QED
      BY <1>5, <2>3, <2>5, <3>1, <3>5
  <2>6. CASE j >= nx + ny
    <3>1. ~(k < ny) /\ ~(j < nx) /\ ~(j < nx + ny)
      BY <1>0, <2>2, <2>6
    <3>2. QED
      BY <1>3, <1>5, <2>3, <3>1
  <2>7. QED
    BY <1>0, <2>4, <2>5, <2>6
<1>8. Y.buffer = Z.buffer
  BY <1>0, <1>4, <1>5, <1>7, SameCells
<1>9. Y = Z
  BY <1>4, <1>5, <1>6, <1>8
<1>10. QED
  BY <1>9 DEF X, Y, Z, z

\* What the caller stores through the pointer of ReserveForWrite lies in the first half only.
LEMMA ReserveCells ==
  ASSUME NEW c, IsRing(c), NEW V, HasCells(c, V), NEW values \in Seq(V),
         Len(values) \in 1..c.capacity, c.write + Len(values) <= c.capacity
  PROVE  /\ ReserveForWrite(c, values) = [capacity |-> c.capacity, read |-> c.read,
              write |-> Wrap(c.write + Len(values), c.capacity), empty |-> FALSE,
              buffer |-> ReserveForWrite(c, values).buffer]
         /\ ReserveForWrite(c, values).buffer \in [0..(2 * c.capacity - 1) -> V]
         /\ \A j \in 0..(c.capacity - 1) :
              LET at == Wrap(c.write + j, c.capacity) IN
              /\ ReserveForWrite(c, values).buffer[at] = IF j < Len(values) THEN values[j + 1] ELSE c.buffer[at]
              /\ ReserveForWrite(c, values).buffer[at + c.capacity] = c.buffer[at + c.capacity]
<1> DEFINE C == c.capacity
           w == c.write
           n == Len(values)
           next == IF w + n = C THEN 0 ELSE w + n
           placed == Placed(c.buffer, w, values)
           D == ReserveForWrite(c, values)
<1>0. C \in Nat \ {0} /\ w \in 0..(C - 1) /\ n \in 1..C /\ w + n <= C
  BY RingFields
<1>1. D = [capacity |-> C, read |-> c.read, write |-> next, empty |-> FALSE, buffer |-> placed]
  <2>1. values # <<>>
    BY <1>0
  <2>2. (c.empty /\ values = <<>>) = FALSE
    BY <2>1
  <2>3. D = [c EXCEPT !.buffer = placed, !.write = next, !.empty = (c.empty /\ values = <<>>)]
    BY Zenon DEF ReserveForWrite
  <2> HIDE DEF D, placed, next
  <2>4. D = [c EXCEPT !.buffer = placed, !.write = next, !.empty = FALSE]
    BY <2>2, <2>3
  <2>5. QED
    BY <2>4 DEF IsRing
<1>2. next = Wrap(w + n, C)
  BY <1>0 DEF Wrap
<1>11. DOMAIN c.buffer = 0..(2 * C - 1) /\ \A i \in 0..(2 * C - 1) : c.buffer[i] \in V
  BY DEF HasCells
<1>12. \A i \in 1..n : values[i] \in V
  OBVIOUS
<1>3. /\ DOMAIN c.buffer = 0..(2 * C - 1)
      /\ \A i \in 0..(2 * C - 1) : c.buffer[i] \in V
      /\ \A i \in 1..n : values[i] \in V
  BY <1>11, <1>12
<1>4. \A i \in 0..(2 * C - 1) : placed[i] =
        IF i \in w..(w + n - 1) THEN values[i - w + 1] ELSE c.buffer[i]
  BY <1>3 DEF Placed
<1>5. DOMAIN placed = 0..(2 * C - 1) /\ placed = [i \in 0..(2 * C - 1) |-> placed[i]]
  BY <1>3 DEF Placed
<1> HIDE DEF placed, D, n, next, C, w
<1>6. \A i \in 0..(2 * C - 1) : placed[i] \in V
  BY <1>0, <1>3, <1>4
<1>7. placed \in [0..(2 * C - 1) -> V]
  BY <1>5, <1>6
<1>8. ASSUME NEW j \in 0..(C - 1)
      PROVE  /\ placed[Wrap(w + j, C)] = IF j < n THEN values[j + 1] ELSE c.buffer[Wrap(w + j, C)]
             /\ placed[Wrap(w + j, C) + C] = c.buffer[Wrap(w + j, C) + C]
  <2>1. CASE j < n
    <3> DEFINE i == Wrap(w + j, C)
    <3>1. i \in 0..(2 * C - 1) /\ i + C \in 0..(2 * C - 1) /\ i \in w..(w + n - 1)
          /\ i - w + 1 = j + 1 /\ i + C \notin w..(w + n - 1)
      BY <1>0, <2>1 DEF Wrap
    <3> HIDE DEF i
    <3>2. placed[i] = values[i - w + 1] /\ placed[i + C] = c.buffer[i + C]
      BY <1>4, <3>1
    <3>3. placed[i] = values[j + 1]
      BY <3>1, <3>2
    <3>4. QED
      BY <2>1, <3>2, <3>3 DEF i
  <2>2. CASE j >= n
    <3> DEFINE i == Wrap(w + j, C)
    <3>1. i \in 0..(2 * C - 1) /\ i + C \in 0..(2 * C - 1) /\ i \notin w..(w + n - 1)
          /\ i + C \notin w..(w + n - 1) /\ ~(j < n)
      BY <1>0, <2>2 DEF Wrap
    <3> HIDE DEF i
    <3>2. placed[i] = c.buffer[i] /\ placed[i + C] = c.buffer[i + C]
      BY <1>4, <3>1
    <3>3. QED
      BY <3>1, <3>2 DEF i
  <2>3. QED
    BY <1>0, <2>1, <2>2
<1>9. D.buffer = placed
  BY <1>1
<1>10. QED
  BY <1>1, <1>2, <1>7, <1>8, <1>9 DEF D, C, w, n

\* A reservation advances the ring as a write does; reserving nothing changes nothing.
LEMMA ReserveRing ==
  ASSUME NEW c, IsRing(c), NEW V, HasCells(c, V), NEW values \in Seq(V),
         Len(values) \in 1..CanWrite(c), c.write + Len(values) <= c.capacity
  PROVE  /\ IsRing(ReserveForWrite(c, values)) /\ HasCells(ReserveForWrite(c, values), V)
         /\ ReserveForWrite(c, values).capacity = c.capacity
         /\ Available(ReserveForWrite(c, values)) = Available(c) + Len(values)
         /\ \A k \in 1..c.capacity : Kept(ReserveForWrite(c, values))[k] =
              IF k <= c.capacity - Len(values) THEN Kept(c)[k + Len(values)]
              ELSE values[k - (c.capacity - Len(values))]
<1> DEFINE W == ReserveForWrite(c, values)
<1>1. Len(values) \in 1..c.capacity
  BY RingFields, AvailableFacts
<1>2. /\ W = [capacity |-> c.capacity, read |-> c.read, write |-> Wrap(c.write + Len(values), c.capacity),
              empty |-> FALSE, buffer |-> W.buffer]
      /\ W.buffer \in [0..(2 * c.capacity - 1) -> V]
      /\ \A j \in 0..(c.capacity - 1) : W.buffer[Wrap(c.write + j, c.capacity)] =
           IF j < Len(values) THEN values[j + 1] ELSE c.buffer[Wrap(c.write + j, c.capacity)]
  BY <1>1, ReserveCells
<1> HIDE DEF W
<1>3. IsRing(W) /\ Available(W) = Available(c) + Len(values)
  BY <1>2, AdvancedRing
<1>4. W.capacity = c.capacity /\ W.write = Wrap(c.write + Len(values), c.capacity)
  BY <1>2
<1>5. ASSUME NEW k \in 1..c.capacity
      PROVE  Kept(W)[k] = IF k <= c.capacity - Len(values) THEN Kept(c)[k + Len(values)]
                          ELSE values[k - (c.capacity - Len(values))]
  <2>1. Advanced(c, W, values, Len(values))
    BY <1>2, <1>4 DEF Advanced
  <2>2. PushesOut(c, W, values, Len(values))
    BY <1>1, <2>1, AdvancedKept
  <2>3. QED
    BY <2>2 DEF PushesOut
<1>6. QED
  BY <1>2, <1>3, <1>4, <1>5 DEF HasCells, W

\* Reserving nothing changes nothing.
LEMMA ReserveNothing ==
  ASSUME NEW c, IsRing(c), NEW V, HasCells(c, V)
  PROVE  ReserveForWrite(c, <<>>) = c
<1> DEFINE next == IF c.write + Len(<<>>) = c.capacity THEN 0 ELSE c.write + Len(<<>>)
           e == c.empty /\ <<>> = <<>>
           b == Placed(c.buffer, c.write, <<>>)
<1>1. ReserveForWrite(c, <<>>) = [c EXCEPT !.buffer = b, !.write = next, !.empty = e]
  BY Zenon DEF ReserveForWrite
<1>2. next = c.write
  BY RingFields
<1>3. e = c.empty
  BY RingFields
<1>4. b = c.buffer
  <2>1. \A i \in DOMAIN c.buffer : ~(i \in c.write..(c.write + Len(<<>>) - 1))
    BY RingFields
  <2>2. b = [i \in DOMAIN c.buffer |-> c.buffer[i]]
    BY <2>1 DEF Placed
  <2>3. QED
    BY <2>2 DEF HasCells
<1> HIDE DEF b, next, e
<1>5. QED
  BY <1>1, <1>2, <1>3, <1>4 DEF IsRing

\* A reservation leaves the images of the other cells right.
LEMMA ReserveMirrors ==
  ASSUME NEW c, IsRing(c), NEW V, HasCells(c, V), NEW values \in Seq(V),
         Len(values) \in 1..c.capacity, c.write + Len(values) <= c.capacity,
         NEW i \in 0..(c.capacity - 1), Mirrored(c, i),
         \A j \in 0..(Len(values) - 1) : i # Wrap(c.write + j, c.capacity)
  PROVE  Mirrored(ReserveForWrite(c, values), i)
<1> DEFINE C == c.capacity
           W == ReserveForWrite(c, values)
<1>0. C \in Nat \ {0} /\ c.write \in 0..(C - 1) /\ Len(values) \in 1..C
  BY RingFields
<1>1. PICK j \in 0..(C - 1) : i = Wrap(c.write + j, C)
  BY <1>0, Ahead
<1>2. /\ W.buffer[i] = IF j < Len(values) THEN values[j + 1] ELSE c.buffer[i]
      /\ W.buffer[i + C] = c.buffer[i + C]
  BY <1>1, ReserveCells
<1>3. W.capacity = C
  BY ReserveCells
<1>4. ~(j < Len(values))
  BY <1>0, <1>1
<1>5. QED
  BY <1>2, <1>3, <1>4 DEF Mirrored

\* Division with remainder, and that there is only one.
LEMMA Division ==
  ASSUME NEW c \in Nat \ {0}, NEW x \in Int
  PROVE  x = c * (x \div c) + (x % c) /\ x % c \in 0..(c - 1) /\ x \div c \in Int
OBVIOUS

\* Quotient and remainder are unique.
LEMMA DivisionOnce ==
  ASSUME NEW c \in Nat \ {0}, NEW q \in Int, NEW p \in Int, NEW r \in 0..(c - 1), NEW s \in 0..(c - 1),
         c * q + r = c * p + s
  PROVE  q = p /\ r = s
<1>1. c * (q - p) = s - r /\ c * (p - q) = r - s
  OBVIOUS
<1>2. q - p >= 1 => c * (q - p) >= c
  OBVIOUS
<1>3. p - q >= 1 => c * (p - q) >= c
  OBVIOUS
<1>4. q = p
  BY <1>1, <1>2, <1>3
<1>5. QED
  BY <1>4

\* What they are.
LEMMA Remainder ==
  ASSUME NEW c \in Nat \ {0}, NEW q \in Int, NEW r \in 0..(c - 1)
  PROVE  (c * q + r) % c = r /\ (c * q + r) \div c = q
<1> DEFINE x == c * q + r
           d == x \div c
           e == x % c
<1>1. x \in Int
  OBVIOUS
<1>2. x = c * d + e /\ e \in 0..(c - 1) /\ d \in Int
  BY <1>1, Division
<1> HIDE DEF d, e
<1>3. c * d + e = c * q + r
  BY <1>2
<1> HIDE DEF x
<1>4. d = q /\ e = r
  BY <1>2, <1>3, DivisionOnce
<1>5. QED
  BY <1>4 DEF d, e, x

\* Extend writes the newest samples again: the same ones in every turn.
Again(c, count) == [k \in 1..count |-> Kept(c)[c.capacity - count + k]]

Chunk(c, ahead, count) == [k \in 1..count |-> Kept(c)[ahead + k]]

\* One turn of Extend's loop, which reads the samples that lie so far ahead of the write
\* position before they can be overwritten.
LEMMA WriteAgainIs ==
  ASSUME NEW c, IsRing(c), NEW V, HasCells(c, V), NEW count \in 1..CanWrite(c),
         NEW ahead \in count..(c.capacity - count), NEW start, start = Wrap(c.write + ahead, c.capacity)
  PROVE  /\ Chunk(c, ahead, count) \in Seq(V) /\ Len(Chunk(c, ahead, count)) = count
         /\ WriteAgain(c, start, count) = Write(c, Chunk(c, ahead, count))
<1> DEFINE C == c.capacity
           w == c.write
           block == Chunk(c, ahead, count)
<1>0. /\ C \in Nat \ {0} /\ w \in 0..(C - 1) /\ count \in 1..C /\ ahead \in 1..C /\ ahead + count <= C
      /\ count \in 1..CanWrite(c) /\ CanWrite(c) \in 0..C
  BY RingFields, AvailableFacts
<1>1. start \in 0..(C - 1)
  BY <1>0 DEF Wrap
<1>2. ASSUME NEW k \in 1..count
      PROVE  block[k] = c.buffer[Wrap(w + (ahead + k - 1), C)]
  <2>1. ahead + k \in 1..C /\ w + (ahead + k) - 1 = w + (ahead + k - 1)
    BY <1>0
  <2>2. QED
    BY <2>1 DEF Kept, Chunk
<1>3. /\ block \in Seq(V) /\ Len(block) = count
  <2>1. Kept(c) \in [1..C -> V]
    BY QueueIsKept
  <2>2. \A k \in 1..count : ahead + k \in 1..C
    BY <1>0
  <2>3. block \in [1..count -> V]
    BY <2>1, <2>2 DEF Chunk
  <2>4. QED
    BY <1>0, <2>3
<1> HIDE DEF block
<1>4. CASE start + count <= C
  <2> DEFINE s == Cells(c.buffer, start, count)
  <2>1. /\ s \in Seq(V) /\ Len(s) = count
        /\ \A i \in 1..count : s[i] = c.buffer[start + i - 1]
    <3>1. start \in Nat /\ count \in Nat /\ start + count <= 2 * C
      BY <1>0, <1>1
    <3>2. QED
      BY <3>1, CellsSeq DEF CellsRead
  <2>2. WriteAgain(c, start, count) = Write(c, s)
    BY <1>4 DEF WriteAgain
  <2> HIDE DEF s
  <2>3. ASSUME NEW k \in 1..count
        PROVE  s[k] = block[k]
    <3>1. start + k - 1 = Wrap(w + (ahead + k - 1), C)
      BY <1>0, <1>4 DEF Wrap
    <3>2. QED
      BY <1>2, <2>1, <3>1
  <2>4. s = block
    BY <1>3, <2>1, <2>3
  <2>5. QED
    BY <1>3, <2>2, <2>4 DEF block
<1>5. CASE start + count > C
  <2> DEFINE n1 == C - start
             s == Cells(c.buffer, start, n1)
             head == Write(c, s)
             t == Cells(head.buffer, 0, count - n1)
  <2>1. n1 \in 1..C /\ n1 < count /\ start \in Nat /\ n1 \in Nat /\ start + n1 <= 2 * C
        /\ count - n1 \in 1..C /\ count - n1 \in Nat /\ 0 \in Nat /\ 0 + (count - n1) <= 2 * C
        /\ n1 \in 1..CanWrite(c) /\ n1 + (count - n1) <= CanWrite(c)
    BY <1>0, <1>1, <1>5
  <2>2. /\ s \in Seq(V) /\ Len(s) = n1
        /\ \A i \in 1..n1 : s[i] = c.buffer[start + i - 1]
    <3> HIDE DEF n1
    <3>1. QED
      <4>1. CellsRead(s, c.buffer, start, n1, V)
        BY <2>1, CellsSeq
      <4> HIDE DEF s
      <4>2. QED
        BY <4>1 DEF CellsRead
  <2>3. /\ IsRing(head) /\ HasCells(head, V) /\ head.capacity = C
        /\ \A j \in 0..(C - 1) : head.buffer[Wrap(w + j, C)] =
             IF j < n1 THEN s[j + 1] ELSE c.buffer[Wrap(w + j, C)]
    <3> HIDE DEF s, n1
    <3>1. Len(s) \in 1..C /\ Len(s) \in 1..CanWrite(c)
      BY <2>1, <2>2
    <3>2. IsRing(head) /\ HasCells(head, V) /\ head.capacity = C
      BY <2>2, <3>1, WriteRing
    <3>3. \A j \in 0..(C - 1) : head.buffer[Wrap(w + j, C)] =
             IF j < Len(s) THEN s[j + 1] ELSE c.buffer[Wrap(w + j, C)]
      BY <2>2, <3>1, WriteCells DEF CellsWritten
    <3>4. QED
      BY <2>2, <3>2, <3>3
  <2>4. WriteAgain(c, start, count) = Write(head, t)
    BY <1>0, <1>1, <1>5 DEF WriteAgain
  <2> HIDE DEF head, s
  <2>5. /\ t \in Seq(V) /\ Len(t) = count - n1
        /\ \A i \in 1..(count - n1) : t[i] = head.buffer[0 + i - 1]
    <3> DEFINE m == count - n1
    <3>1. m \in Nat /\ 0 \in Nat /\ 0 + m <= 2 * head.capacity
      BY <2>1, <2>3
    <3> HIDE DEF m
    <3>2. /\ Cells(head.buffer, 0, m) \in Seq(V)
          /\ Len(Cells(head.buffer, 0, m)) = m
          /\ \A i \in 1..m : Cells(head.buffer, 0, m)[i] = head.buffer[0 + i - 1]
      <4>1. CellsRead(Cells(head.buffer, 0, m), head.buffer, 0, m, V)
        BY <2>3, <3>1, CellsSeq
      <4>2. QED
        BY <4>1 DEF CellsRead
    <3>3. QED
      BY <3>2 DEF m
  <2> HIDE DEF t
  <2>6. Write(head, t) = Write(c, s \o t)
    BY <2>1, <2>2, <2>5, WriteTwice DEF head
  <2>7. ASSUME NEW k \in 1..count, k <= n1
        PROVE  s[k] = block[k]
    <3>1. start + k - 1 = Wrap(w + (ahead + k - 1), C) /\ k \in 1..n1
      BY <1>0, <1>1, <1>5, <2>7 DEF Wrap
    <3>2. QED
      BY <1>2, <2>2, <3>1
  <2>8. ASSUME NEW k \in 1..count, k > n1
        PROVE  t[k - n1] = block[k]
    <3> DEFINE j == ahead + k - 1
    <3>1. j \in 0..(C - 1) /\ ~(j < n1) /\ 0 + (k - n1) - 1 = Wrap(w + j, C) /\ k - n1 \in 1..(count - n1)
      <4>1. w + ahead < C /\ start = w + ahead
        BY <1>0, <1>5 DEF Wrap
      <4>2. j \in 0..(C - 1) /\ ~(j < n1) /\ k - n1 \in 1..(count - n1)
        BY <1>0, <2>1, <2>8
      <4>3. w + j = C + (k - n1) - 1 /\ w + j >= C
        BY <1>0, <1>1, <2>8, <4>1
      <4>4. Wrap(w + j, C) = w + j - C
        BY <1>0, <4>3 DEF Wrap
      <4> HIDE DEF j, n1
      <4>5. 0 + (k - n1) - 1 = Wrap(w + j, C)
        BY <1>0, <2>1, <4>2, <4>3, <4>4
      <4>6. QED
        BY <4>2, <4>5
    <3>2. block[k] = c.buffer[Wrap(w + j, C)]
      BY <1>2
    <3> HIDE DEF j
    <3>3. head.buffer[Wrap(w + j, C)] = c.buffer[Wrap(w + j, C)]
      BY <2>3, <3>1
    <3>4. t[k - n1] = head.buffer[Wrap(w + j, C)]
      BY <2>5, <3>1
    <3>5. QED
      BY <3>2, <3>3, <3>4
  <2>9. s \o t = block
    <3> HIDE DEF n1
    <3>1. s \in Seq(V) /\ t \in Seq(V) /\ Len(s) = n1 /\ Len(t) = count - n1
      BY <2>2, <2>5
    <3>2. s \o t \in Seq(V) /\ Len(s \o t) = count
      BY <2>1, <3>1
    <3>3. ASSUME NEW k \in 1..count
          PROVE  (s \o t)[k] = block[k]
      <4>1. (s \o t)[k] = IF k <= n1 THEN s[k] ELSE t[k - n1]
        BY <2>1, <3>1
      <4>2. k <= n1 \/ k > n1
        BY <2>1
      <4>3. QED
        BY <2>1, <2>7, <2>8, <4>1, <4>2
    <3>4. QED
      BY <1>3, <3>2, <3>3
  <2>10. QED
    BY <1>3, <2>4, <2>6, <2>9 DEF block
<1>6. QED
  BY <1>0, <1>1, <1>3, <1>4, <1>5 DEF block

\* A sequence so many times over.
Times(block, t) == [i \in 1..(Len(block) * t) |-> block[((i - 1) % Len(block)) + 1]]

\* The copies of a block.
LEMMA TimesSeq ==
  ASSUME NEW V, NEW block \in Seq(V), Len(block) # 0, NEW t \in Nat
  PROVE  /\ Times(block, t) \in Seq(V) /\ Len(Times(block, t)) = Len(block) * t
         /\ Times(block, 1) = block
         /\ Times(block, t) \o block = Times(block, t + 1)
<1> DEFINE n == Len(block)
           p == n * t
<1>1. n \in Nat \ {0} /\ p \in Nat /\ n * (t + 1) = p + n /\ n * 1 = n
  OBVIOUS
<1>2. ASSUME NEW i \in Nat \ {0}
      PROVE  ((i - 1) % n) + 1 \in 1..n
  BY <1>1
<1>3. ASSUME NEW s \in Nat
      PROVE  [i \in 1..s |-> block[((i - 1) % n) + 1]] \in Seq(V)
  BY <1>2
<1>4. Times(block, t) \in Seq(V) /\ Len(Times(block, t)) = p
  BY <1>1, <1>3 DEF Times
<1>5. Times(block, t + 1) \in Seq(V) /\ Len(Times(block, t + 1)) = p + n
  BY <1>1, <1>3 DEF Times
<1>6. Times(block, 1) = block
  <2>1. Times(block, 1) \in Seq(V) /\ Len(Times(block, 1)) = n
    BY <1>1, <1>3 DEF Times
  <2>2. ASSUME NEW i \in 1..n
        PROVE  Times(block, 1)[i] = block[i]
    <3>1. i - 1 \in 0..(n - 1) /\ n * 0 + (i - 1) = i - 1
      BY <1>1
    <3>2. (i - 1) % n = i - 1
      BY <1>1, <3>1, Remainder
    <3>3. Times(block, 1)[i] = block[((i - 1) % n) + 1]
      BY <1>1 DEF Times
    <3>4. QED
      BY <3>2, <3>3
  <2>3. QED
    BY <2>1, <2>2
<1>7. Times(block, t) \o block = Times(block, t + 1)
  <2>1. ASSUME NEW i \in 1..(p + n)
        PROVE  (Times(block, t) \o block)[i] = Times(block, t + 1)[i]
    <3>1. Times(block, t + 1)[i] = block[((i - 1) % n) + 1]
      BY <1>1 DEF Times
    <3>2. CASE i <= p
      <4>1. Times(block, t)[i] = block[((i - 1) % n) + 1]
        BY <1>1, <3>2 DEF Times
      <4>2. (Times(block, t) \o block)[i] = Times(block, t)[i]
        BY <1>1, <1>4, <3>2
      <4>3. QED
        BY <3>1, <4>1, <4>2
    <3>3. CASE i > p
      <4> DEFINE r == i - 1 - p
      <4>1. r \in 0..(n - 1) /\ n * t + r = i - 1 /\ r + 1 = i - p
        BY <1>1, <3>3
      <4> HIDE DEF r, n
      <4>2. (n * t + r) % n = r
        <5>1. n \in Nat \ {0} /\ t \in Int /\ r \in 0..(n - 1)
          BY <1>1, <4>1
        <5>2. QED
          BY <5>1, Remainder, Zenon
      <4>3. (i - 1) % n = r
        BY <4>1, <4>2
      <4>4. (Times(block, t) \o block)[i] = block[i - p]
        BY <1>1, <1>4, <3>3 DEF n
      <4>5. (Times(block, t) \o block)[i] = block[r + 1]
        BY <4>1, <4>4
      <4>6. QED
        BY <3>1, <4>3, <4>5, Zenon
    <3> HIDE DEF n, p
    <3>4. i <= p \/ i > p
      BY <1>1
    <3>5. QED
      BY <3>2, <3>3, <3>4, Zenon
  <2> DEFINE x == Times(block, t) \o block
             y == Times(block, t + 1)
  <2>2. x \in Seq(V) /\ Len(x) = p + n
    BY <1>1, <1>4
  <2>3. y \in Seq(V) /\ Len(y) = p + n
    BY <1>5
  <2>4. \A i \in 1..(p + n) : x[i] = y[i]
    BY <2>1
  <2> HIDE DEF x, y, p, n
  <2>5. x = y
    BY <1>1, <2>2, <2>3, <2>4
  <2>6. QED
    BY <2>5 DEF x, y
<1>8. QED
  BY <1>4, <1>6, <1>7

\* The buffer after each turn of Extend's loop.
IsLoop(f, c, start, count, n) ==
  f = [i \in 0..n |-> IF i = 0 THEN c ELSE WriteAgain(f[i - 1], start, count)]

\* The recursive definition of Extend's loop has a solution.
LEMMA LoopExists ==
  ASSUME NEW c, NEW start, NEW count, NEW n \in Nat
  PROVE  \E f : IsLoop(f, c, start, count, n)
<1> DEFINE P == {m \in Nat : \E f : IsLoop(f, c, start, count, m)}
<1>1. 0 \in P
  <2> DEFINE f == [i \in 0..0 |-> c]
  <2>1. IsLoop(f, c, start, count, 0)
    BY DEF IsLoop
  <2>2. QED
    BY <2>1
<1>2. ASSUME NEW m \in Nat, m \in P
      PROVE  m + 1 \in P
  <2>1. PICK f : IsLoop(f, c, start, count, m)
    BY <1>2
  <2>7. f = [i \in 0..m |-> IF i = 0 THEN c ELSE WriteAgain(f[i - 1], start, count)]
    BY <2>1 DEF IsLoop
  <2> DEFINE g == [i \in 0..(m + 1) |-> IF i = m + 1 THEN WriteAgain(f[m], start, count) ELSE f[i]]
  <2>2. \A i \in 0..m : g[i] = f[i]
    OBVIOUS
  <2>3. ASSUME NEW i \in 0..(m + 1)
        PROVE  g[i] = IF i = 0 THEN c ELSE WriteAgain(g[i - 1], start, count)
    <3>1. CASE i = m + 1
      <4>1. i # 0 /\ i - 1 = m /\ m \in 0..m
        BY <3>1
      <4>2. g[i] = WriteAgain(f[m], start, count)
        BY <3>1
      <4>3. g[i - 1] = f[m]
        BY <2>2, <4>1
      <4>4. QED
        BY <4>1, <4>2, <4>3
    <3>2. CASE i # m + 1 /\ i # 0
      <4>1. i \in 0..m /\ i - 1 \in 0..m
        BY <3>2
      <4>2. g[i] = f[i] /\ g[i - 1] = f[i - 1]
        BY <2>2, <4>1
      <4>3. f[i] = WriteAgain(f[i - 1], start, count)
        BY <2>7, <3>2, <4>1
      <4>4. QED
        BY <3>2, <4>2, <4>3
    <3>3. CASE i = 0
      BY <2>7, <2>2, <3>3
    <3>4. QED
      BY <3>1, <3>2, <3>3
  <2>4. IsLoop(g, c, start, count, m + 1)
    <3>1. g = [i \in 0..(m + 1) |-> g[i]]
      OBVIOUS
    <3> HIDE DEF g
    <3>2. QED
      BY <2>3, <3>1 DEF IsLoop
  <2> HIDE DEF g
  <2>5. m + 1 \in Nat
    OBVIOUS
  <2>6. QED
    BY <2>4, <2>5
<1> HIDE DEF P
<1>3. \A m \in Nat : m \in P
  BY <1>1, <1>2, Induction
<1>4. QED
  BY <1>3 DEF P

\* Extend writes the newest count samples n times over: no turn of its loop overwrites what
\* a later one still has to copy.
LEMMA ExtendIsWrite ==
  ASSUME NEW c, IsRing(c), NEW V, HasCells(c, V), NEW count \in Nat \ {0}, NEW n \in Nat \ {0},
         count * n <= CanWrite(c), count <= Available(c)
  PROVE  /\ Again(c, count) \in Seq(V) /\ Len(Again(c, count)) = count
         /\ Extend(c, count, n) = Write(c, Times(Again(c, count), n))
<1> DEFINE C == c.capacity
           w == c.write
           a == Available(c)
           start == IF count > c.write THEN c.write + c.capacity - count ELSE c.write - count
           block == Again(c, count)
           f == CHOOSE g : IsLoop(g, c, start, count, n)
<1>0. /\ C \in Nat \ {0} /\ w \in 0..(C - 1) /\ a \in 0..C /\ count \in 1..C
      /\ CanWrite(c) = C - a
  BY RingFields, AvailableFacts
<1>1. Extend(c, count, n) = f[n]
  <2>1. n > 0 /\ count > 0
    OBVIOUS
  <2>2. QED
    BY <2>1 DEF Extend, IsLoop
<1>2. start \in 0..(C - 1) /\ start = Wrap(w + (C - count), C)
  BY <1>0 DEF Wrap
<1> HIDE DEF start
<1>3. IsLoop(f, c, start, count, n)
  <2>1. \E g : IsLoop(g, c, start, count, n)
    BY LoopExists
  <2>2. QED
    BY <2>1
<1> HIDE DEF f
<1>4. f[0] = c /\ \A i \in 0..n : i # 0 => f[i] = WriteAgain(f[i - 1], start, count)
  BY <1>3 DEF IsLoop
<1>5. /\ block \in Seq(V) /\ Len(block) = count
      /\ block = [k \in 1..count |-> Kept(c)[C - count + k]]
  <2>1. Kept(c) \in [1..C -> V]
    <3>1. Kept(c) \in Seq(V) /\ Len(Kept(c)) = C
      BY QueueIsKept
    <3>2. QED
      BY <1>0, <3>1
  <2>2. \A k \in 1..count : C - count + k \in 1..C
    BY <1>0
  <2>3. block \in [1..count -> V]
    BY <2>1, <2>2 DEF Again
  <2>4. QED
    BY <1>0, <2>3 DEF Again
<1> HIDE DEF block
<1> DEFINE Good(t) == f[t] = IF t = 0 THEN c ELSE Write(c, Times(block, t))
           P == {t \in Nat : t <= n => Good(t)}
<1>6. 0 \in P
  BY <1>4
<1>7. ASSUME NEW t \in Nat, t \in P
      PROVE  t + 1 \in P
  <2> SUFFICES ASSUME t + 1 <= n PROVE f[t + 1] = Write(c, Times(block, t + 1))
    OBVIOUS
  <2> DEFINE p == count * t
             e == f[t]
             ahead == C - (p + count)
  <2>1. /\ p \in Nat /\ p + count <= C - a /\ count <= a
        /\ (t = 0 => p = 0) /\ (t # 0 => p >= 1)
    <3>1. t + 1 \in Nat /\ count * (t + 1) <= count * n /\ count * (t + 1) = count * t + count
      OBVIOUS
    <3>2. t # 0 => count * t >= 1
      OBVIOUS
    <3>3. QED
      BY <1>0, <3>1, <3>2
  <2>2. Good(t)
    BY <1>7
  <2> HIDE DEF Good, P
  <2>3. Times(block, t) \in Seq(V) /\ Len(Times(block, t)) = p /\ Times(block, 1) = block
        /\ Times(block, t) \o block = Times(block, t + 1)
    BY ZenonT(30), <1>0, <1>5, TimesSeq
  <2> HIDE DEF p
  <2>4. /\ IsRing(e) /\ HasCells(e, V) /\ e.capacity = C /\ e.write = Wrap(w + p, C)
        /\ Available(e) = a + p
        /\ \A k \in 1..C : k <= C - p => Kept(e)[k] = Kept(c)[k + p]
    <3>1. CASE t = 0
      <4>1. e = c /\ p = 0
        BY <2>1, <2>2, <3>1 DEF Good
      <4>2. w = Wrap(w + 0, C) /\ a = a + 0
        BY <1>0 DEF Wrap
      <4>3. \A k \in 1..C : k + 0 = k
        BY <1>0
      <4> HIDE DEF e
      <4>4. QED
        BY <4>1, <4>2, <4>3
    <3>2. CASE t # 0
      <4>1. e = Write(c, Times(block, t))
        BY <2>2, <3>2 DEF Good
      <4>2. Len(Times(block, t)) \in 1..CanWrite(c)
        BY <1>0, <2>1, <2>3, <3>2
      <4> HIDE DEF e
      <4>3. \A k \in 1..C : k <= C - p => Kept(e)[k] = Kept(c)[k + p]
        BY <2>3, <4>1, <4>2, WriteKept
      <4>4. QED
        BY <2>3, <4>1, <4>2, <4>3, WriteRing
    <3>3. QED
      BY <3>1, <3>2
  <2>5. f[t + 1] = WriteAgain(e, start, count)
    <3>1. t + 1 \in 0..n /\ t + 1 # 0 /\ t + 1 - 1 = t
      OBVIOUS
    <3>2. QED
      BY <1>4, <3>1
  <2> HIDE DEF e
  <2>6. block = Chunk(e, ahead, count)
    <3>1. ASSUME NEW k \in 1..count
          PROVE  Kept(e)[ahead + k] = Kept(c)[C - count + k]
      <4>1. ahead + k \in 1..C /\ ahead + k <= C - p /\ (ahead + k) + p = C - count + k
        BY <1>0, <2>1
      <4> HIDE DEF ahead
      <4>2. Kept(e)[ahead + k] = Kept(c)[(ahead + k) + p]
        BY <2>4, <4>1
      <4>3. QED
        BY <4>1, <4>2
    <3>2. QED
      BY <1>5, <3>1 DEF Chunk
  <2>7. /\ count \in 1..CanWrite(e) /\ ahead \in count..(e.capacity - count)
        /\ start = Wrap(e.write + ahead, e.capacity)
    <3>1. CanWrite(e) = C - (a + p)
      BY <2>4 DEF CanWrite
    <3>2. count \in 1..CanWrite(e)
      BY <1>0, <2>1, <3>1
    <3>3. ahead \in count..(C - count)
      BY <1>0, <2>1
    <3>4. start = Wrap(Wrap(w + p, C) + ahead, C)
      BY <1>0, <1>2, <2>1 DEF Wrap
    <3>5. QED
      BY <2>4, <3>2, <3>3, <3>4
  <2> HIDE DEF ahead
  <2>8. WriteAgain(e, start, count) = Write(e, block)
    BY <2>4, <2>6, <2>7, WriteAgainIs
  <2>9. Write(e, block) = Write(c, Times(block, t + 1))
    <3>1. CASE t = 0
      <4>1. e = c /\ t + 1 = 1
        BY <2>2, <3>1 DEF Good, e
      <4>2. QED
        BY <2>3, <4>1
    <3>2. CASE t # 0
      <4>1. e = Write(c, Times(block, t))
        BY <2>2, <3>2 DEF Good, e
      <4>2. /\ Len(Times(block, t)) \in 1..c.capacity /\ Len(block) \in 1..c.capacity
            /\ Len(Times(block, t)) + Len(block) <= CanWrite(c)
        BY <1>0, <1>5, <2>1, <2>3, <3>2
      <4>3. Write(Write(c, Times(block, t)), block) = Write(c, Times(block, t) \o block)
        <5> DEFINE X == Times(block, t)
        <5>1. X \in Seq(V) /\ block \in Seq(V)
          BY <1>5, <2>3
        <5>2. Len(X) \in 1..c.capacity /\ Len(block) \in 1..c.capacity /\ Len(X) + Len(block) <= CanWrite(c)
          BY <4>2
        <5> HIDE DEF X
        <5>3. Write(Write(c, X), block) = Write(c, X \o block)
          BY <5>1, <5>2, WriteTwice
        <5>4. QED
          BY <5>3 DEF X
      <4>4. QED
        BY <2>3, <4>1, <4>3
    <3>3. QED
      BY <3>1, <3>2
  <2>10. QED
    BY <2>5, <2>8, <2>9
<1> HIDE DEF P
<1>8. \A t \in Nat : t \in P
  BY <1>6, <1>7, Induction
<1>9. Good(n)
  <2>1. n \in P /\ n <= n
    BY <1>8
  <2>2. QED
    BY <2>1 DEF P
<1>10. QED
  BY <1>1, <1>5, <1>9 DEF block

-----------------------------------------------------------------------------
(***************************************************************************)
(* Part 2: its calls.                                                      *)
(***************************************************************************)

\* The invariant of the calls: the buffer is a ring, and every cell whose image in the second
\* half may be stale was stored through the pointer of ReserveForWrite.
Sound(c, stale) ==
  /\ IsRing(c) /\ c.capacity = Capacity /\ HasCells(c, Samples)
  /\ stale \subseteq 0..(Capacity - 1)
  /\ \A i \in 0..(Capacity - 1) : i \notin stale => Mirrored(c, i)

CallsInv == Sound(cb, unmirrored)

PositionsOf(c, n) == {Wrap(c.write + i, c.capacity) : i \in 0..(n - 1)}

\* A position that ran past the end at most once is reduced by a subtraction.
LEMMA ReducedOnce ==
  ASSUME NEW m \in Nat \ {0}, NEW x \in 0..(2 * m - 1)
  PROVE  x % m = Wrap(x, m)
<1>1. CASE x < m
  <2>1. x \in 0..(m - 1) /\ m * 0 + x = x /\ 0 \in Int
    BY <1>1
  <2>2. (m * 0 + x) % m = x
    BY <2>1, Remainder, Zenon
  <2>3. x % m = x
    BY <2>1, <2>2
  <2>4. QED
    BY <1>1, <2>3 DEF Wrap
<1>2. CASE x >= m
  <2> DEFINE r == x - m
  <2>1. r \in 0..(m - 1) /\ m * 1 + r = x /\ 1 \in Int
    BY <1>2
  <2> HIDE DEF r
  <2>2. (m * 1 + r) % m = r
    BY <2>1, Remainder, Zenon
  <2>3. x % m = r
    BY <2>1, <2>2
  <2>4. QED
    BY <1>2, <2>3 DEF Wrap, r
<1>3. QED
  BY <1>1, <1>2

\* The positions that a write of n samples covers.
LEMMA PositionsAre ==
  ASSUME IsRing(cb), NEW n \in 0..cb.capacity
  PROVE  Positions(n) = PositionsOf(cb, n)
<1>1. cb.capacity \in Nat \ {0} /\ cb.write \in 0..(cb.capacity - 1)
  BY RingFields
<1>2. ASSUME NEW i \in 0..(n - 1)
      PROVE  (cb.write + i) % cb.capacity = Wrap(cb.write + i, cb.capacity)
  <2> DEFINE x == cb.write + i
  <2>1. x \in 0..(2 * cb.capacity - 1)
    BY <1>1
  <2> HIDE DEF x
  <2>2. x % cb.capacity = Wrap(x, cb.capacity)
    BY <1>1, <2>1, ReducedOnce
  <2>3. QED
    BY <2>2 DEF x
<1>3. QED
  BY <1>2 DEF Positions, PositionsOf

\* The window of the specification is the samples kept.
LEMMA RecentIsKept ==
  ASSUME NEW c, IsRing(c), c.capacity = Capacity
  PROVE  [i \in 1..Capacity |-> c.buffer[(c.write + i - 1) % Capacity]] = Kept(c)
<1>1. c.capacity \in Nat \ {0} /\ c.write \in 0..(c.capacity - 1) /\ c.capacity = Capacity
  BY RingFields
<1>2. ASSUME NEW i \in 1..Capacity
      PROVE  (c.write + i - 1) % Capacity = Wrap(c.write + i - 1, Capacity)
  <2> DEFINE x == c.write + i - 1
  <2>1. x \in 0..(2 * Capacity - 1)
    BY <1>1
  <2> HIDE DEF x
  <2>2. x % Capacity = Wrap(x, Capacity)
    BY <1>1, <2>1, ReducedOnce
  <2>3. QED
    BY <2>2 DEF x
<1>3. QED
  BY <1>1, <1>2 DEF Kept

\* Its unread samples are those of the ring.
LEMMA UnreadIsQueue ==
  ASSUME CallsInv
  PROVE  Unread = Queue(cb)
<1> DEFINE a == Available(cb)
<1>1. Recent = Kept(cb) /\ IsRing(cb) /\ HasCells(cb, Samples) /\ cb.capacity = Capacity
  BY RecentIsKept DEF CallsInv, Sound, Recent
<1>2. a \in 0..Capacity /\ Capacity \in Nat
  BY <1>1, AvailableFacts, CapacityAssumption
<1>3. /\ Queue(cb) \in Seq(Samples) /\ Len(Queue(cb)) = a
      /\ Kept(cb) \in Seq(Samples) /\ Len(Kept(cb)) = Capacity
      /\ \A k \in 1..a : Queue(cb)[k] = Kept(cb)[Capacity - a + k]
  BY <1>1, QueueIsKept
<1> DEFINE s == SubSeq(Kept(cb), Capacity - a + 1, Capacity)
<1> HIDE DEF a
<1>4. s \in Seq(Samples) /\ Len(s) = a /\ \A k \in 1..a : s[k] = Kept(cb)[Capacity - a + k]
  BY <1>2, <1>3
<1> HIDE DEF s
<1>5. s = Queue(cb)
  BY <1>3, <1>4
<1>6. QED
  BY <1>1, <1>5 DEF Unread, s, a

\* What a call that hands over values does to the samples: the oldest make room for them.
Pushed(c, d, values) ==
  /\ Kept(d) = SubSeq(Kept(c) \o values, Len(values) + 1, c.capacity + Len(values))
  /\ Available(d) = Available(c) + Len(values)

\* Pushing the values into the window.
LEMMA PushedKept ==
  ASSUME NEW c, IsRing(c), NEW V, HasCells(c, V), NEW values \in Seq(V), Len(values) \in 1..c.capacity,
         NEW d, IsRing(d), HasCells(d, V), d.capacity = c.capacity,
         \A k \in 1..c.capacity : Kept(d)[k] =
           IF k <= c.capacity - Len(values) THEN Kept(c)[k + Len(values)]
           ELSE values[k - (c.capacity - Len(values))]
  PROVE  Kept(d) = SubSeq(Kept(c) \o values, Len(values) + 1, c.capacity + Len(values))
<1> DEFINE C == c.capacity
           n == Len(values)
           x == Kept(c) \o values
           s == SubSeq(x, n + 1, C + n)
<1>0. C \in Nat \ {0} /\ n \in 1..C
  BY RingFields
<1>1. Kept(c) \in Seq(V) /\ Len(Kept(c)) = C /\ Kept(d) \in Seq(V) /\ Len(Kept(d)) = C
  BY QueueIsKept
<1>2. x \in Seq(V) /\ Len(x) = C + n
  BY <1>1
<1>3. \A k \in 1..(C + n) : x[k] = IF k <= C THEN Kept(c)[k] ELSE values[k - C]
  BY <1>0, <1>1
<1> HIDE DEF x, n, C
<1>4. s \in Seq(V) /\ Len(s) = C /\ \A k \in 1..C : s[k] = x[n + k]
  BY <1>0, <1>2
<1> HIDE DEF s
<1>5. ASSUME NEW k \in 1..C
      PROVE  Kept(d)[k] = s[k]
  <2> DEFINE m == n + k
  <2>1. m \in 1..(C + n) /\ (k <= C - n <=> m <= C) /\ k + n = m /\ k - (C - n) = m - C
    BY <1>0
  <2>2. Kept(d)[k] = IF k <= C - n THEN Kept(c)[k + n] ELSE values[k - (C - n)]
    BY DEF C, n
  <2>3. s[k] = x[m]
    BY <1>4
  <2> HIDE DEF m
  <2>4. x[m] = IF m <= C THEN Kept(c)[m] ELSE values[m - C]
    BY <1>3, <2>1
  <2>5. QED
    BY <2>1, <2>2, <2>3, <2>4
<1>6. Kept(d) = s
  <2>1. Kept(d) \in Seq(V) /\ Len(Kept(d)) = C
    BY <1>1 DEF C
  <2>2. QED
    BY <1>4, <1>5, <2>1
<1>7. QED
  BY <1>6 DEF s, x, n, C

\* A write, with the samples whose mirror is stale.
LEMMA WriteStep ==
  ASSUME NEW c, NEW stale, Sound(c, stale), NEW values \in Seq(Samples), Len(values) \in 1..CanWrite(c)
  PROVE  /\ Sound(Write(c, values), stale \ PositionsOf(c, Len(values)))
         /\ Pushed(c, Write(c, values), values)
<1> DEFINE d == Write(c, values)
           n == Len(values)
<1>1. IsRing(c) /\ HasCells(c, Samples) /\ c.capacity = Capacity
  BY DEF Sound
<1>2. n \in 1..c.capacity
  BY <1>1, AvailableFacts, RingFields
<1>3. /\ IsRing(d) /\ HasCells(d, Samples) /\ d.capacity = Capacity
      /\ Available(d) = Available(c) + n
  BY <1>1, WriteRing
<1>4. ASSUME NEW i \in 0..(Capacity - 1), i \notin stale \ PositionsOf(c, n)
      PROVE  Mirrored(d, i)
  <2>1. Mirrored(c, i) \/ \E j \in 0..(n - 1) : i = Wrap(c.write + j, c.capacity)
    BY <1>4 DEF Sound, PositionsOf
  <2>2. QED
    BY <1>1, <1>2, <2>1, WriteMirrors
<1>5. ASSUME NEW k \in 1..c.capacity
      PROVE  Kept(d)[k] = IF k <= c.capacity - n THEN Kept(c)[k + n] ELSE values[k - (c.capacity - n)]
  BY <1>1, WriteKept
<1> HIDE DEF d
<1>6. Kept(d) = SubSeq(Kept(c) \o values, Len(values) + 1, c.capacity + Len(values))
  BY <1>1, <1>2, <1>3, <1>5, PushedKept
<1>7. Sound(d, stale \ PositionsOf(c, n))
  BY <1>3, <1>4 DEF Sound
<1>8. QED
  BY <1>3, <1>6, <1>7 DEF Pushed, d

\* A write into reserved space leaves the mirror stale.
LEMMA ReserveStep ==
  ASSUME NEW c, NEW stale, Sound(c, stale), NEW values \in Seq(Samples), Len(values) \in 1..CanWrite(c),
         c.write + Len(values) <= c.capacity
  PROVE  /\ Sound(ReserveForWrite(c, values), stale \union PositionsOf(c, Len(values)))
         /\ Pushed(c, ReserveForWrite(c, values), values)
<1> DEFINE d == ReserveForWrite(c, values)
           n == Len(values)
<1>1. IsRing(c) /\ HasCells(c, Samples) /\ c.capacity = Capacity
  BY DEF Sound
<1>2. n \in 1..c.capacity /\ c.capacity \in Nat \ {0} /\ c.write \in 0..(c.capacity - 1)
  BY <1>1, AvailableFacts, RingFields
<1>3. /\ IsRing(d) /\ HasCells(d, Samples) /\ d.capacity = Capacity
      /\ Available(d) = Available(c) + n
  BY <1>1, ReserveRing
<1>4. ASSUME NEW i \in 0..(Capacity - 1), i \notin stale \union PositionsOf(c, n)
      PROVE  Mirrored(d, i)
  <2>1. Mirrored(c, i) /\ \A j \in 0..(n - 1) : i # Wrap(c.write + j, c.capacity)
    BY <1>4 DEF Sound, PositionsOf
  <2>2. QED
    BY <1>1, <1>2, <2>1, ReserveMirrors
<1>5. ASSUME NEW k \in 1..c.capacity
      PROVE  Kept(d)[k] = IF k <= c.capacity - n THEN Kept(c)[k + n] ELSE values[k - (c.capacity - n)]
  BY <1>1, ReserveRing
<1>9. PositionsOf(c, n) \subseteq 0..(Capacity - 1)
  <2>1. \A j \in 0..(n - 1) : Wrap(c.write + j, c.capacity) \in 0..(c.capacity - 1)
    BY <1>2 DEF Wrap
  <2>2. QED
    BY <1>1, <2>1 DEF PositionsOf
<1> HIDE DEF d
<1>6. Kept(d) = SubSeq(Kept(c) \o values, Len(values) + 1, c.capacity + Len(values))
  BY <1>1, <1>2, <1>3, <1>5, PushedKept
<1>7. Sound(d, stale \union PositionsOf(c, n))
  BY <1>3, <1>4, <1>9 DEF Sound
<1>8. QED
  BY <1>3, <1>6, <1>7 DEF Pushed, d

\* A call that only moves the read position keeps the samples.
LEMMA MoveStep ==
  ASSUME NEW c, NEW stale, Sound(c, stale), NEW d, IsRing(d), SameSamples(c, d)
  PROVE  Sound(d, stale) /\ Kept(d) = Kept(c)
BY DEF Sound, SameSamples, HasCells, Mirrored, Kept

\* The ring after Init.
LEMMA InitRing ==
  /\ Sound(CircularBufferInit(Capacity), {})
  /\ Available(CircularBufferInit(Capacity)) = 0
  /\ Kept(CircularBufferInit(Capacity)) = [i \in 1..Capacity |-> 0]
<1> DEFINE c == CircularBufferInit(Capacity)
<1>1. Capacity \in Nat \ {0} /\ 0 \in Samples
  BY CapacityAssumption
<1>2. /\ c = [capacity |-> c.capacity, read |-> c.read, write |-> c.write, empty |-> c.empty, buffer |-> c.buffer]
      /\ c.capacity = Capacity /\ c.read = 0 /\ c.write = 0 /\ c.empty = TRUE
      /\ c.buffer = [i \in 0..(2 * Capacity - 1) |-> 0]
  BY DEF CircularBufferInit
<1> HIDE DEF c
<1>3. IsRing(c)
  <2>1. c.capacity \in Nat \ {0} /\ c.read \in 0..(c.capacity - 1) /\ c.write \in 0..(c.capacity - 1)
    BY <1>1, <1>2
  <2>2. c.empty \in BOOLEAN
    BY <1>2
  <2>3. c = [capacity |-> c.capacity, read |-> c.read, write |-> c.write, empty |-> c.empty, buffer |-> c.buffer]
    BY <1>2
  <2>4. QED
    BY <2>1, <2>2, <2>3, Zenon DEF IsRing
<1>4. HasCells(c, Samples)
  BY <1>1, <1>2 DEF HasCells
<1>5. \A i \in 0..(Capacity - 1) : Mirrored(c, i)
  BY <1>1, <1>2 DEF Mirrored
<1>6. Available(c) = 0
  BY <1>2, <1>3, AvailableIs DEF EmptyRing
<1>7. Kept(c) = [i \in 1..Capacity |-> 0]
  <2>1. \A k \in 1..Capacity : Wrap(0 + k - 1, Capacity) \in 0..(2 * Capacity - 1)
    BY <1>1 DEF Wrap
  <2>2. QED
    BY <1>2, <2>1 DEF Kept
<1>8. QED
  BY <1>2, <1>3, <1>4, <1>5, <1>6, <1>7 DEF Sound, c

\* A call that pushes values is a push into the window.
LEMMA PushStep ==
  ASSUME CallsInv, CallsInv', NEW values \in Seq(Samples), Len(values) \in 1..CanWrite(cb),
         Pushed(cb, cb', values)
  PROVE  Window!Push(values)
<1> DEFINE n == Len(values)
<1>1. IsRing(cb) /\ HasCells(cb, Samples) /\ cb.capacity = Capacity /\ IsRing(cb') /\ cb'.capacity = Capacity
  BY DEF CallsInv, Sound
<1>2. Recent = Kept(cb) /\ Recent' = Kept(cb')
  BY <1>1, RecentIsKept DEF Recent
<1>3. Kept(cb) \in Seq(Samples) /\ Len(Kept(cb)) = Capacity /\ Capacity \in Nat \ {0}
  BY <1>1, QueueIsKept, CapacityAssumption
<1>4. Len(Recent \o values) = Capacity + n /\ Capacity + n - Capacity + 1 = n + 1
  BY <1>2, <1>3
<1>5. Recent' = SubSeq(Recent \o values, n + 1, Capacity + n)
  BY <1>1, <1>2 DEF Pushed
<1>6. Recent' = Window!Newest(Recent \o values)
  <2> DEFINE x == Recent \o values
  <2>1. Window!Newest(x) = SubSeq(x, Len(x) - Capacity + 1, Len(x))
    BY DEF Window!Newest
  <2>2. Len(x) = Capacity + n /\ Len(x) - Capacity + 1 = n + 1
    BY <1>3, <1>4
  <2>3. Recent' = SubSeq(x, n + 1, Capacity + n)
    BY <1>5
  <2> HIDE DEF x
  <2>4. Recent' = Window!Newest(x)
    BY <2>1, <2>2, <2>3
  <2>5. QED
    BY <2>4 DEF x
<1>7. n \in 1..Window!CanWrite
  BY <1>1 DEF Window!CanWrite, CanWrite
<1>8. Available(cb)' = Available(cb) + n
  BY DEF Pushed
<1>9. QED
  BY <1>6, <1>7, <1>8 DEF Window!Push

\* A call that writes nothing leaves everything as it is.
LEMMA RestStep ==
  ASSUME CallsInv, cb' = cb, unmirrored' = unmirrored, given' = <<>>
  PROVE  CallsInv' /\ Window!WindowNext
<1>1. CallsInv'
  BY DEF CallsInv
<1>2. Recent' = Recent /\ Available(cb)' = Available(cb)
  BY DEF Recent
<1>3. QED
  BY <1>1, <1>2 DEF Window!WindowNext, Window!WindowRests

\* A write call.
LEMMA WriteCall ==
  ASSUME CallsInv, NEW n \in 0..Capacity, NEW values \in [1..n -> Samples], FitsWrite(cb, n),
         cb' = Write(cb, values), unmirrored' = unmirrored \ Positions(n), given' = values
  PROVE  CallsInv' /\ Window!WindowNext
<1>1. IsRing(cb) /\ HasCells(cb, Samples) /\ cb.capacity = Capacity /\ Capacity \in Nat
  BY CapacityAssumption DEF CallsInv, Sound
<1>2. values \in Seq(Samples) /\ Len(values) = n
  OBVIOUS
<1>3. CanWrite(cb) \in 0..Capacity /\ n <= CanWrite(cb)
  BY <1>1, AvailableFacts DEF FitsWrite
<1>4. Positions(n) = PositionsOf(cb, n)
  BY <1>1, PositionsAre
<1>5. CASE n = 0
  <2>1. values = <<>> /\ cb' = cb
    BY <1>2, <1>5 DEF Write
  <2>2. PositionsOf(cb, n) = {}
    BY <1>5 DEF PositionsOf
  <2>3. unmirrored' = unmirrored
    BY <1>4, <2>2
  <2>4. QED
    BY <2>1, <2>3, RestStep
<1>6. CASE n # 0
  <2>1. n \in 1..CanWrite(cb)
    BY <1>3, <1>6
  <2>2. CallsInv' /\ Pushed(cb, cb', values)
    BY <1>2, <1>4, <2>1, WriteStep DEF CallsInv
  <2>3. Window!Push(values)
    BY <1>2, <2>1, <2>2, PushStep
  <2>4. n \in 1..Window!CanWrite
    BY <1>1, <2>1 DEF Window!CanWrite, CanWrite
  <2>5. Window!WindowWrites
    BY <2>3, <2>4 DEF Window!WindowWrites
  <2>6. QED
    BY <2>2, <2>5 DEF Window!WindowNext
<1>7. QED
  BY <1>5, <1>6

\* A call that reserves space and fills it.
LEMMA ReserveCall ==
  ASSUME CallsInv, NEW n \in 0..Capacity, NEW values \in [1..n -> Samples], FitsWrite(cb, n),
         cb.write + n <= cb.capacity, cb' = ReserveForWrite(cb, values),
         unmirrored' = unmirrored \union Positions(n), given' = values
  PROVE  CallsInv' /\ Window!WindowNext
<1>1. IsRing(cb) /\ HasCells(cb, Samples) /\ cb.capacity = Capacity /\ Capacity \in Nat
  BY CapacityAssumption DEF CallsInv, Sound
<1>2. values \in Seq(Samples) /\ Len(values) = n
  OBVIOUS
<1>3. CanWrite(cb) \in 0..Capacity /\ n <= CanWrite(cb)
  BY <1>1, AvailableFacts DEF FitsWrite
<1>4. Positions(n) = PositionsOf(cb, n)
  BY <1>1, PositionsAre
<1>5. CASE n = 0
  <2>1. values = <<>>
    BY <1>2, <1>5
  <2>4. cb' = cb
    BY <1>1, <2>1, ReserveNothing
  <2>2. PositionsOf(cb, n) = {}
    BY <1>5 DEF PositionsOf
  <2>3. unmirrored' = unmirrored
    BY <1>4, <2>2
  <2>5. QED
    BY <2>1, <2>3, <2>4, RestStep
<1>6. CASE n # 0
  <2>1. n \in 1..CanWrite(cb)
    BY <1>3, <1>6
  <2>2. CallsInv' /\ Pushed(cb, cb', values)
    BY <1>2, <1>4, <2>1, ReserveStep DEF CallsInv
  <2>3. Window!Push(values)
    BY <1>2, <2>1, <2>2, PushStep
  <2>4. n \in 1..Window!CanWrite
    BY <1>1, <2>1 DEF Window!CanWrite, CanWrite
  <2>5. Window!WindowWrites
    BY <2>3, <2>4 DEF Window!WindowWrites
  <2>6. QED
    BY <2>2, <2>5 DEF Window!WindowNext
<1>7. QED
  BY <1>5, <1>6

\* A call that repeats the newest samples.
LEMMA ExtendCall ==
  ASSUME CallsInv, CallExtend
  PROVE  CallsInv' /\ Window!WindowNext
<1>1. PICK count \in 0..Capacity, n \in 0..Capacity :
        /\ FitsExtend(cb, count, n)
        /\ cb' = Extend(cb, count, n)
        /\ unmirrored' = unmirrored \ Positions(count * n)
        /\ given' = <<>>
  BY DEF CallExtend
<1>2. IsRing(cb) /\ HasCells(cb, Samples) /\ cb.capacity = Capacity /\ Capacity \in Nat
  BY CapacityAssumption DEF CallsInv, Sound
<1>3. CASE n = 0 \/ count = 0
  <2>1. cb' = cb
    BY <1>1, <1>3 DEF Extend
  <2>2. count * n = 0
    BY <1>2, <1>3
  <2>3. Positions(count * n) = {}
    BY <2>2 DEF Positions
  <2>4. unmirrored' = unmirrored
    BY <1>1, <2>3
  <2>5. QED
    BY <1>1, <2>1, <2>4, RestStep
<1>4. CASE n # 0 /\ count # 0
  <2> DEFINE block == Again(cb, count)
             values == Times(block, n)
  <2>1. count \in Nat \ {0} /\ n \in Nat \ {0} /\ n > 0 /\ count > 0
    BY <1>2, <1>4
  <2>2. count * n <= CanWrite(cb) /\ count <= Available(cb)
    BY <1>1, <2>1 DEF FitsExtend
  <2>3. block \in Seq(Samples) /\ Len(block) = count /\ cb' = Write(cb, values)
    BY <1>1, <1>2, <2>1, <2>2, ExtendIsWrite
  <2> HIDE DEF block
  <2>4. values \in Seq(Samples) /\ Len(values) = count * n
    BY <2>1, <2>3, TimesSeq
  <2>5. CanWrite(cb) \in 0..Capacity /\ Available(cb) \in 0..Capacity /\ CanWrite(cb) = Capacity - Available(cb)
    BY <1>2, AvailableFacts
  <2>6. count * n >= 1 /\ count * n \in Nat /\ count * n >= n
    BY <2>1
  <2>7. count * n \in 1..CanWrite(cb) /\ count * n \in 0..cb.capacity
    BY <1>2, <2>2, <2>5, <2>6
  <2>8. Positions(count * n) = PositionsOf(cb, count * n)
    BY <1>2, <2>7, PositionsAre
  <2> HIDE DEF values
  <2>9. CallsInv' /\ Pushed(cb, cb', values)
    BY <1>1, <2>3, <2>4, <2>7, <2>8, WriteStep DEF CallsInv
  <2>10. Window!Push(values)
    BY <2>4, <2>7, <2>9, PushStep
  <2>11. values = [i \in 1..(count * n) |-> Recent[Capacity - count + 1 + ((i - 1) % count)]]
    <3>1. Recent = Kept(cb)
      BY <1>2, RecentIsKept DEF Recent
    <3>2. ASSUME NEW i \in 1..(count * n)
          PROVE  block[((i - 1) % count) + 1] = Kept(cb)[Capacity - count + 1 + ((i - 1) % count)]
      <4> DEFINE r == (i - 1) % count
      <4>1. i - 1 \in Int
        BY <2>6
      <4>2. r \in 0..(count - 1)
        BY <2>1, <4>1, Division
      <4> HIDE DEF r
      <4>3. r + 1 \in 1..count /\ Capacity - count + (r + 1) = Capacity - count + 1 + r
        BY <1>2, <2>1, <4>2
      <4>4. block[r + 1] = Kept(cb)[Capacity - count + (r + 1)]
        BY <1>2, <4>3 DEF block, Again
      <4>5. QED
        BY <4>3, <4>4 DEF r
    <3>3. values = [i \in 1..(count * n) |-> block[((i - 1) % count) + 1]]
      BY <2>3 DEF values, Times
    <3>4. QED
      BY <3>1, <3>2, <3>3
  <2>12. /\ count \in 1..Available(cb) /\ n \in 1..Window!CanWrite /\ count * n <= Window!CanWrite
    BY <1>2, <2>1, <2>2, <2>5, <2>6 DEF Window!CanWrite, CanWrite
  <2>13. Window!WindowRepeats
    BY <1>1, <2>10, <2>11, <2>12 DEF Window!WindowRepeats
  <2>14. QED
    BY <2>9, <2>13 DEF Window!WindowNext
<1>5. QED
  BY <1>3, <1>4

\* A call that reads.
LEMMA ReadCall ==
  ASSUME CallsInv, NEW n \in 1..Available(cb), cb' = Discard(cb, n), given' = <<>>, unmirrored' = unmirrored
  PROVE  CallsInv' /\ Window!WindowNext
<1>1. IsRing(cb) /\ cb.capacity = Capacity
  BY DEF CallsInv, Sound
<1>2. IsRing(cb') /\ SameSamples(cb, cb') /\ Available(cb') = Available(cb) - n
  BY <1>1, DiscardRing
<1>3. CallsInv' /\ Kept(cb') = Kept(cb)
  BY <1>2, MoveStep DEF CallsInv
<1>4. Recent' = Recent
  BY <1>1, <1>2, <1>3, RecentIsKept DEF Recent, SameSamples
<1>5. Window!WindowReads
  BY <1>2, <1>4 DEF Window!WindowReads
<1>6. QED
  BY <1>3, <1>5 DEF Window!WindowNext

\* A rewind.
LEMMA RewindCall ==
  ASSUME CallsInv, CallRewind
  PROVE  CallsInv' /\ Window!WindowNext
<1>1. PICK n \in 0..CanWrite(cb) : cb' = Rewind(cb, n) /\ given' = <<>> /\ unmirrored' = unmirrored
  BY DEF CallRewind
<1>2. IsRing(cb) /\ cb.capacity = Capacity /\ CanWrite(cb) \in Nat /\ Available(cb) \in Nat
  BY AvailableFacts DEF CallsInv, Sound
<1>3. IsRing(cb') /\ SameSamples(cb, cb') /\ Available(cb') = Available(cb) + n
  BY <1>1, <1>2, RewindRing
<1>4. CallsInv' /\ Kept(cb') = Kept(cb)
  BY <1>1, <1>3, MoveStep DEF CallsInv
<1>5. Recent' = Recent
  BY <1>2, <1>3, <1>4, RecentIsKept DEF Recent, SameSamples
<1>6. CASE n = 0
  <2>1. Available(cb)' = Available(cb)
    BY <1>2, <1>3, <1>6
  <2>2. Window!WindowRests
    BY <1>1, <1>5, <2>1 DEF Window!WindowRests
  <2>3. QED
    BY <1>4, <2>2 DEF Window!WindowNext
<1>7. CASE n # 0
  <2>1. n \in 1..Window!CanWrite
    BY <1>2, <1>7 DEF Window!CanWrite, CanWrite
  <2>2. Window!WindowRewinds
    BY <1>1, <1>3, <1>5, <2>1 DEF Window!WindowRewinds
  <2>3. QED
    BY <1>4, <2>2 DEF Window!WindowNext
<1>8. QED
  BY <1>6, <1>7

\* A shift reads or restores samples, as many as the read position passes.
LEMMA ShiftCall ==
  ASSUME CallsInv, CallShift
  PROVE  CallsInv' /\ Window!WindowNext
<1>1. PICK n \in (-Capacity)..Capacity :
        cb' = Shift(cb, n) /\ given' = <<>> /\ unmirrored' = unmirrored
  BY DEF CallShift
<1>2. IsRing(cb) /\ cb.capacity = Capacity
  BY DEF CallsInv, Sound
<1>3. IsRing(cb') /\ SameSamples(cb, cb')
  BY <1>1, <1>2, ShiftRing
<1>4. CallsInv' /\ Kept(cb') = Kept(cb)
  BY <1>1, <1>3, MoveStep DEF CallsInv
<1>5. Recent' = Recent
  BY <1>2, <1>3, <1>4, RecentIsKept DEF Recent, SameSamples
<1>6. /\ Capacity \in Nat /\ Available(cb) \in 0..Capacity /\ Available(cb)' \in 0..Capacity
  BY <1>2, <1>3, AvailableFacts, CapacityAssumption DEF SameSamples
<1> DEFINE a == Available(cb)
           b == Available(cb)'
<1> HIDE DEF a, b
<1>7. CASE b = a
  <2>1. Window!WindowRests
    BY <1>1, <1>5, <1>7 DEF Window!WindowRests, a, b
  <2>2. QED
    BY <1>4, <2>1 DEF Window!WindowNext
<1>8. CASE b < a
  <2>1. a - b \in 1..a /\ b = a - (a - b)
    BY <1>6, <1>8 DEF a, b
  <2>2. Window!WindowReads
    BY <1>1, <1>5, <2>1 DEF Window!WindowReads, a, b
  <2>3. QED
    BY <1>4, <2>2 DEF Window!WindowNext
<1>9. CASE b > a
  <2>1. b - a \in 1..(Capacity - a) /\ b = a + (b - a)
    BY <1>6, <1>9 DEF a, b
  <2>2. Window!WindowRewinds
    BY <1>1, <1>5, <2>1 DEF Window!WindowRewinds, Window!CanWrite, a, b
  <2>3. QED
    BY <1>4, <2>2 DEF Window!WindowNext
<1>10. QED
  BY <1>6, <1>7, <1>8, <1>9 DEF a, b

\* The invariant at the start.
LEMMA CallsInvInit ==
  ASSUME CallsInit
  PROVE  CallsInv /\ Window!WindowInit
<1>1. IsRing(cb) /\ cb.capacity = Capacity /\ CallsInv
  BY InitRing DEF CallsInit, CallsInv, Sound
<1>2. Recent = [i \in 1..Capacity |-> 0] /\ Available(cb) = 0
  BY <1>1, InitRing, RecentIsKept DEF CallsInit, Recent
<1>3. QED
  BY <1>1, <1>2 DEF CallsInit, Window!WindowInit

\* Every call keeps the invariant and is a step of the window.
LEMMA CallsInvStep ==
  ASSUME CallsInv, CallsNext
  PROVE  CallsInv' /\ Window!WindowNext
<1>0. IsRing(cb) /\ HasCells(cb, Samples) /\ cb.capacity = Capacity /\ Capacity \in Nat \ {0}
      /\ 0 \in Samples
  BY CapacityAssumption DEF CallsInv, Sound
<1>1. CASE CallReset
  <2>1. cb' = CircularBufferInit(Capacity) /\ unmirrored' = {} /\ given' = <<>>
    BY <1>0, <1>1 DEF CallReset, CircularBufferReset
  <2>2. CallsInv'
    BY <2>1, InitRing DEF CallsInv
  <2>3. IsRing(cb') /\ cb'.capacity = Capacity
    BY <2>2 DEF CallsInv, Sound
  <2>4. Recent' = [i \in 1..Capacity |-> 0] /\ Available(cb)' = 0
    BY <2>1, <2>3, InitRing, RecentIsKept DEF Recent
  <2>5. Window!WindowClears
    BY <2>1, <2>4 DEF Window!WindowClears
  <2>6. QED
    BY <2>2, <2>5 DEF Window!WindowNext
<1>2. CASE CallAdd
  <2>1. PICK value \in Samples :
          /\ ~Full(cb)
          /\ cb' = Add(cb, value)
          /\ unmirrored' = unmirrored \ Positions(1)
          /\ given' = <<value>>
    BY <1>2 DEF CallAdd
  <2>2. cb' = Write(cb, <<value>>)
    BY <1>0, <2>1, AddIsWrite
  <2>3. FitsWrite(cb, 1)
    <3>1. Available(cb) # cb.capacity
      <4>1. CASE EmptyRing(cb)
        BY <1>0, <4>1, AvailableIs
      <4>2. CASE ~EmptyRing(cb)
        <5>1. cb.read # cb.write
          BY <2>1, <4>2 DEF Full, EmptyRing
        <5>2. QED
          BY <1>0, <4>2, <5>1, AvailableIs, RingFields
      <4>3. QED
        BY <4>1, <4>2
    <3>2. QED
      BY <1>0, <3>1, AvailableFacts DEF FitsWrite
  <2>4. <<value>> \in [1..1 -> Samples] /\ 1 \in 0..Capacity
    BY <1>0
  <2>5. QED
    BY <2>1, <2>2, <2>3, <2>4, WriteCall
<1>3. CASE CallWrite
  BY <1>3, WriteCall DEF CallWrite
<1>4. CASE CallWriteZeros
  <2>1. PICK n \in 0..Capacity :
          /\ FitsWrite(cb, n)
          /\ cb' = Write(cb, Zeros(n))
          /\ unmirrored' = unmirrored \ Positions(n)
          /\ given' = Zeros(n)
    BY <1>4 DEF CallWriteZeros, WriteZeros
  <2>2. Zeros(n) \in [1..n -> Samples]
    BY <1>0 DEF Zeros
  <2>3. QED
    BY <2>1, <2>2, WriteCall
<1>5. CASE CallReserveForWrite
  BY <1>5, ReserveCall DEF CallReserveForWrite
<1>6. CASE CallExtend
  BY <1>6, ExtendCall
<1>7. CASE CallRemove
  <2>1. cb' = Discard(cb, 1) /\ given' = <<>> /\ unmirrored' = unmirrored
    BY <1>0, <1>7, RemoveIsDiscard DEF CallRemove
  <2>2. 1 \in 1..Available(cb)
    BY <1>0, <1>7, AvailableFacts DEF CallRemove, EmptyRing
  <2>3. QED
    BY <2>1, <2>2, ReadCall
<1>8. CASE CallDiscard
  BY <1>8, ReadCall DEF CallDiscard
<1>9. CASE CallRewind
  BY <1>9, RewindCall
<1>10. CASE CallShift
  BY <1>10, ShiftCall
<1>11. QED
  BY <1>1, <1>2, <1>3, <1>4, <1>5, <1>6, <1>7, <1>8, <1>9, <1>10 DEF CallsNext

\* What the invariant says of the reads.
LEMMA CallsInvReads ==
  ASSUME CallsInv
  PROVE  ReadsAgree
<1> DEFINE a == Available(cb)
           C == Capacity
<1>1. IsRing(cb) /\ HasCells(cb, Samples) /\ cb.capacity = C /\ Unread = Queue(cb)
  BY UnreadIsQueue DEF CallsInv, Sound
<1>2. /\ C \in Nat \ {0} /\ cb.read \in 0..(C - 1) /\ cb.write \in 0..(C - 1) /\ a \in 0..C
  BY <1>1, RingFields, AvailableFacts
<1>3. \A n \in 0..a : Get(cb, n) = SubSeq(Unread, 1, n)
  BY <1>1, GetQueue
<1>4. \A i \in 0..(a - 1) : Peek(cb, i) = Unread[i + 1]
  BY <1>1, PeekQueue
<1>5. IsPrefix(PeekMax(cb), Unread) /\ (PeekMax(cb) = <<>> => Unread = <<>>)
  BY <1>1, PeekMaxQueue
<1>6. ASSUME NEW i \in 0..(a - 1), NEW n \in 0..(a - 1 - i), (PeekTarget(cb, i) + n) - C \notin unmirrored
      PROVE  cb.buffer[PeekTarget(cb, i) + n] = Unread[i + n + 1]
  <2> DEFINE at == PeekTarget(cb, i) + n
             k == i + n + 1
             to == Wrap(cb.read + k - 1, C)
  <2>1. PeekTarget(cb, i) = Wrap(cb.read + i, C)
    BY <1>1, PeekQueue
  <2>2. k \in 1..a /\ to \in 0..(C - 1) /\ (at = to \/ (at = to + C /\ at - C = to))
    BY <1>2, <2>1 DEF Wrap
  <2>3. Queue(cb)[k] = cb.buffer[Wrap(cb.read + k - 1, C)]
    <3> HIDE DEF k
    <3>1. QED
      BY <1>1, <2>2 DEF Queue
  <2>4. CASE at = to
    BY <1>1, <2>3, <2>4
  <2>5. CASE at = to + C /\ at - C = to
    <3>0. at - C \notin unmirrored
      BY <1>6
    <3> HIDE DEF to, at, k
    <3>1. to \notin unmirrored
      BY <2>5, <3>0
    <3>2. Mirrored(cb, to)
      BY <2>2, <3>1 DEF CallsInv, Sound
    <3>3. cb.buffer[at] = cb.buffer[to]
      BY <1>1, <2>5, <3>2 DEF Mirrored
    <3>4. QED
      BY <1>1, <2>3, <3>3 DEF to, at, k
  <2>6. QED
    BY <2>2, <2>4, <2>5
<1>7. \A i \in 0..(a - 1) : \A n \in 0..(a - 1 - i) :
        (PeekTarget(cb, i) + n) - C \notin unmirrored => cb.buffer[PeekTarget(cb, i) + n] = Unread[i + n + 1]
  BY <1>6
<1>8. QED
  BY <1>3, <1>4, <1>5, <1>7, Zenon DEF ReadsAgree

\* The fields of a buffer stay within their ranges, whatever sequence of legal calls is made,
\* and only cells stored through the pointer of ReserveForWrite have a stale image
\* (signal/src/circular_buffer.cc).
THEOREM CallsInvariant == CallsSpec => []CallsInv
<1>1. CallsInit => CallsInv
  BY CallsInvInit
<1>2. CallsInv /\ [CallsNext]_callVars => CallsInv'
  <2>1. CallsInv /\ UNCHANGED callVars => CallsInv'
    BY DEF CallsInv, callVars
  <2>2. QED
    BY <2>1, CallsInvStep
<1>3. QED
  BY <1>1, <1>2, PTL DEF CallsSpec

\* Get, Peek, PeekDirect and PeekMax agree on the unread samples after any sequence of legal
\* calls, for every capacity and whichever side of the wrap they start on.
THEOREM CallsReadsAgree == CallsSpec => []ReadsAgree
<1>1. CallsInv => ReadsAgree
  BY CallsInvReads
<1>2. QED
  BY <1>1, CallsInvariant, PTL

\* The buffer implements the sliding window: every call does to the samples what its name says,
\* for every capacity.
THEOREM CallsAreWindow == CallsSpec => IsWindow
<1>1. CallsInit => Window!WindowInit
  BY CallsInvInit
<1>2. CallsInv /\ [CallsNext]_callVars => [Window!WindowNext]_(Window!windowVars)
  <2>1. UNCHANGED callVars => UNCHANGED Window!windowVars
    BY DEF callVars, Window!windowVars, Recent
  <2>2. QED
    BY <2>1, CallsInvStep
<1>3. QED
  BY <1>1, <1>2, CallsInvariant, PTL DEF CallsSpec, IsWindow, Window!WindowSpec

-----------------------------------------------------------------------------
(***************************************************************************)
(* Part 3: sequences.                                                      *)
(***************************************************************************)

\* Products, for the provers to look up.
LEMMA TimesNext ==
  ASSUME NEW a \in Nat, NEW b \in Nat
  PROVE  a * b \in Nat /\ (a + 1) * b = a * b + b /\ b * (a + 1) = b * a + b /\ b * a \in Nat
OBVIOUS

\* What a piece of a sequence holds.
LEMMA Piece ==
  ASSUME NEW V, NEW s \in Seq(V), NEW a \in 1..(Len(s) + 1), NEW b \in (a - 1)..Len(s)
  PROVE  /\ SubSeq(s, a, b) \in Seq(V) /\ Len(SubSeq(s, a, b)) = b - a + 1
         /\ \A k \in 1..(b - a + 1) : SubSeq(s, a, b)[k] = s[a + k - 1]
OBVIOUS

\* What two sequences one after the other hold.
LEMMA Joined ==
  ASSUME NEW V, NEW s \in Seq(V), NEW t \in Seq(V)
  PROVE  /\ s \o t \in Seq(V) /\ Len(s \o t) = Len(s) + Len(t)
         /\ \A k \in 1..Len(s) : (s \o t)[k] = s[k]
         /\ \A k \in 1..Len(t) : (s \o t)[Len(s) + k] = t[k]
OBVIOUS

\* What a sequence holds to which an element is appended.
LEMMA Appended ==
  ASSUME NEW V, NEW s \in Seq(V), NEW x \in V
  PROVE  /\ Append(s, x) \in Seq(V) /\ Len(Append(s, x)) = Len(s) + 1
         /\ \A k \in 1..Len(s) : Append(s, x)[k] = s[k]
         /\ Append(s, x)[Len(s) + 1] = x
OBVIOUS

\* Three sequences one after the other.
LEMMA JoinedThrice ==
  ASSUME NEW V, NEW s \in Seq(V), NEW t \in Seq(V), NEW u \in Seq(V)
  PROVE  (s \o t) \o u = s \o (t \o u)
OBVIOUS

\* One sequence after another, under a name that the provers do not take apart.
Joint(s, t) == s \o t

\* What it holds.
LEMMA JointSeq ==
  ASSUME NEW V, NEW s \in Seq(V), NEW t \in Seq(V)
  PROVE  /\ Joint(s, t) \in Seq(V) /\ Len(Joint(s, t)) = Len(s) + Len(t)
         /\ \A k \in 1..Len(s) : Joint(s, t)[k] = s[k]
         /\ \A k \in 1..Len(t) : Joint(s, t)[Len(s) + k] = t[k]
BY Joined DEF Joint

\* Its length, from lengths that have a name.
LEMMA JointLen ==
  ASSUME NEW V, NEW s \in Seq(V), NEW t \in Seq(V), NEW m, Len(s) = m, NEW n, Len(t) = n
  PROVE  Joint(s, t) \in Seq(V) /\ Len(Joint(s, t)) = m + n
<1>1. Joint(s, t) \in Seq(V) /\ Len(Joint(s, t)) = Len(s) + Len(t)
  BY JointSeq
<1>2. QED
  BY <1>1, Zenon

\* Joining is associative.
LEMMA JointThrice ==
  ASSUME NEW V, NEW s \in Seq(V), NEW t \in Seq(V), NEW u \in Seq(V)
  PROVE  Joint(Joint(s, t), u) = Joint(s, Joint(t, u))
BY JoinedThrice DEF Joint

\* Joining with nothing.
LEMMA JointEmpty ==
  ASSUME NEW V, NEW s \in Seq(V)
  PROVE  Joint(<<>>, s) = s /\ Joint(s, <<>>) = s
BY DEF Joint

\* A piece of a piece from its n-th element on.
LEMMA PieceOfPiece ==
  ASSUME NEW V, NEW s \in Seq(V), NEW from \in 0..Len(s), NEW a \in 0..(Len(s) - from),
         NEW b \in a..(Len(s) - from)
  PROVE  SubSeq(SubSeq(s, from + 1, Len(s)), a + 1, b) = SubSeq(s, from + a + 1, from + b)
<1> DEFINE n == Len(s)
           p == SubSeq(s, from + 1, n)
           q == SubSeq(p, a + 1, b)
           r == SubSeq(s, from + a + 1, from + b)
<1>1. n \in Nat /\ from \in 0..n /\ a \in 0..(n - from) /\ b \in a..(n - from)
  OBVIOUS
<1>2. p \in Seq(V) /\ Len(p) = n - from /\ \A k \in 1..(n - from) : p[k] = s[from + k]
  <2>1. from + 1 \in 1..(n + 1) /\ n \in (from + 1 - 1)..n
    BY <1>1
  <2>2. QED
    BY <1>1, <2>1, Piece
<1>3. r \in Seq(V) /\ Len(r) = b - a /\ \A k \in 1..(b - a) : r[k] = s[from + a + k]
  <2>1. from + a + 1 \in 1..(n + 1) /\ from + b \in (from + a + 1 - 1)..n
    BY <1>1
  <2>2. QED
    BY <1>1, <2>1, Piece
<1> HIDE DEF p, r, n
<1>4. q \in Seq(V) /\ Len(q) = b - a /\ \A k \in 1..(b - a) : q[k] = p[a + k]
  <2>1. a + 1 \in 1..(Len(p) + 1) /\ b \in (a + 1 - 1)..Len(p)
    BY <1>1, <1>2
  <2>2. QED
    BY <1>1, <1>2, <2>1, Piece
<1> HIDE DEF q
<1>5. ASSUME NEW k \in 1..(b - a)
      PROVE  q[k] = r[k]
  <2>1. a + k \in 1..(n - from)
    BY <1>1
  <2>2. from + (a + k) = from + a + k
    BY <1>1
  <2>3. QED
    BY <1>2, <1>3, <1>4, <2>1, <2>2
<1>6. q = r
  BY <1>3, <1>4, <1>5, SameSeq
<1>7. QED
  BY <1>6 DEF q, r, p, n

\* A piece that reaches to the end of a sequence, followed by what is appended.
LEMMA PieceJoined ==
  ASSUME NEW V, NEW s \in Seq(V), NEW x \in Seq(V), NEW from \in 0..Len(s)
  PROVE  SubSeq(s, from + 1, Len(s)) \o x = SubSeq(s \o x, from + 1, Len(s) + Len(x))
<1> DEFINE n == Len(s)
           m == Len(x)
           j == s \o x
           p == SubSeq(s, from + 1, n)
           q == p \o x
           r == SubSeq(j, from + 1, n + m)
<1>1. n \in Nat /\ m \in Nat /\ from \in 0..n
  OBVIOUS
<1>2. p \in Seq(V) /\ Len(p) = n - from /\ \A k \in 1..(n - from) : p[k] = s[from + k]
  <2>1. from + 1 \in 1..(n + 1) /\ n \in (from + 1 - 1)..n
    BY <1>1
  <2>2. QED
    BY <1>1, <2>1, Piece
<1>3. /\ j \in Seq(V) /\ Len(j) = n + m
      /\ \A k \in 1..n : j[k] = s[k]
      /\ \A k \in 1..m : j[n + k] = x[k]
  BY Joined
<1> HIDE DEF p, j
<1>4. /\ q \in Seq(V) /\ Len(q) = n - from + m
      /\ \A k \in 1..(n - from) : q[k] = p[k]
      /\ \A k \in 1..m : q[n - from + k] = x[k]
  <2> DEFINE l == n - from
  <2>1. p \in Seq(V) /\ x \in Seq(V) /\ Len(p) = l /\ Len(x) = m
    BY <1>2 DEF m
  <2> HIDE DEF l
  <2>4. /\ q \in Seq(V) /\ Len(q) = Len(p) + Len(x)
        /\ \A k \in 1..Len(p) : q[k] = p[k]
        /\ \A k \in 1..Len(x) : q[Len(p) + k] = x[k]
    <3>1. p \in Seq(V) /\ x \in Seq(V)
      BY <2>1
    <3>2. QED
      BY <3>1, Joined
  <2>2. /\ q \in Seq(V) /\ Len(q) = l + m
        /\ \A k \in 1..l : q[k] = p[k]
        /\ \A k \in 1..m : q[l + k] = x[k]
    BY <2>1, <2>4, Zenon
  <2>3. QED
    BY <2>2 DEF l
<1>5. r \in Seq(V) /\ Len(r) = n + m - from /\ \A k \in 1..(n + m - from) : r[k] = j[from + k]
  <2>1. from + 1 \in 1..(Len(j) + 1) /\ n + m \in (from + 1 - 1)..Len(j)
    BY <1>1, <1>3
  <2>2. QED
    BY <1>1, <1>3, <2>1, Piece
<1> HIDE DEF q, r, n, m
<1>6. ASSUME NEW k \in 1..(n + m - from)
      PROVE  q[k] = r[k]
  <2>1. CASE k <= n - from
    <3>1. k \in 1..(n - from) /\ from + k \in 1..n
      BY <1>1, <2>1
    <3>2. QED
      BY <1>2, <1>3, <1>4, <1>5, <3>1
  <2>2. CASE k > n - from
    <3>1. k - (n - from) \in 1..m
      BY <1>1, <2>2
    <3>2. n - from + (k - (n - from)) = k /\ n + (k - (n - from)) = from + k
      BY <1>1
    <3>3. q[k] = x[k - (n - from)]
      BY <1>4, <3>1, <3>2
    <3>4. j[from + k] = x[k - (n - from)]
      BY <1>3, <3>1, <3>2
    <3>5. QED
      BY <1>5, <3>3, <3>4
  <2>3. QED
    BY <1>1, <2>1, <2>2
<1>7. n - from + m = n + m - from
  BY <1>1
<1>8. q = r
  BY <1>4, <1>5, <1>6, <1>7, SameSeq
<1>9. QED
  BY <1>8 DEF q, r, p, j, n, m

\* The recursive definition in FlattenSeq, and its solution.
IsFlat(f, s, n) == f = [i \in 1..n |-> IF i = 1 THEN s[i] ELSE f[i - 1] \o s[i]]

\* There is such a function, however long the sequence.
LEMMA FlatExists ==
  ASSUME NEW s, NEW n \in Nat
  PROVE  \E f : IsFlat(f, s, n)
<1> DEFINE P == {m \in Nat : \E f : IsFlat(f, s, m)}
<1>1. 0 \in P
  <2> DEFINE f == [i \in 1..0 |-> s[i]]
  <2>1. IsFlat(f, s, 0)
    BY DEF IsFlat
  <2>2. QED
    BY <2>1
<1>2. ASSUME NEW m \in Nat, m \in P
      PROVE  m + 1 \in P
  <2>1. PICK f : IsFlat(f, s, m)
    BY <1>2
  <2>2. f = [i \in 1..m |-> IF i = 1 THEN s[i] ELSE f[i - 1] \o s[i]]
    BY <2>1 DEF IsFlat
  <2> DEFINE last == IF m = 0 THEN s[m + 1] ELSE f[m] \o s[m + 1]
             g == [i \in 1..(m + 1) |-> IF i = m + 1 THEN last ELSE f[i]]
  <2>3. \A i \in 1..m : g[i] = f[i]
    OBVIOUS
  <2>4. g[m + 1] = last
    OBVIOUS
  <2>5. g = [i \in 1..(m + 1) |-> g[i]]
    OBVIOUS
  <2> HIDE DEF g
  <2>6. ASSUME NEW i \in 1..(m + 1)
        PROVE  g[i] = IF i = 1 THEN s[i] ELSE g[i - 1] \o s[i]
    <3>1. CASE i = m + 1 /\ m # 0
      <4>1. m \in 1..m /\ i - 1 = m /\ i # 1
        BY <3>1
      <4>2. QED
        BY <2>3, <2>4, <3>1, <4>1
    <3>2. CASE i = m + 1 /\ m = 0
      BY <2>4, <3>2
    <3>3. CASE i # m + 1
      <4>1. i \in 1..m /\ (i # 1 => i - 1 \in 1..m)
        BY <3>3
      <4>2. f[i] = IF i = 1 THEN s[i] ELSE f[i - 1] \o s[i]
        BY <2>2, <4>1
      <4>3. g[i] = f[i] /\ (i # 1 => g[i - 1] = f[i - 1])
        BY <2>3, <4>1
      <4>4. QED
        BY <4>2, <4>3
    <3>4. QED
      BY <3>1, <3>2, <3>3
  <2>7. IsFlat(g, s, m + 1)
    BY <2>5, <2>6 DEF IsFlat
  <2>8. QED
    BY <2>7
<1> HIDE DEF P
<1>3. \A m \in Nat : m \in P
  BY <1>1, <1>2, Induction
<1>4. QED
  BY <1>3 DEF P

\* A solution is determined by the elements it looks at.
LEMMA FlatOnce ==
  ASSUME NEW s, NEW t, NEW n \in Nat, NEW m \in n..(n + 1), NEW f, NEW g, IsFlat(f, s, n), IsFlat(g, t, m),
         \A i \in 1..n : s[i] = t[i]
  PROVE  \A i \in 1..n : f[i] = g[i]
<1> DEFINE P == {i \in Nat : i \in 1..n => f[i] = g[i]}
<1>1. /\ \A i \in 1..n : f[i] = IF i = 1 THEN s[i] ELSE f[i - 1] \o s[i]
      /\ \A i \in 1..m : g[i] = IF i = 1 THEN t[i] ELSE g[i - 1] \o t[i]
  BY DEF IsFlat
<1>2. 0 \in P
  OBVIOUS
<1>3. ASSUME NEW i \in Nat, i \in P
      PROVE  i + 1 \in P
  <2>1. SUFFICES ASSUME i + 1 \in 1..n PROVE f[i + 1] = g[i + 1]
    OBVIOUS
  <2>2. i + 1 \in 1..m /\ (i + 1 # 1 => i \in 1..n) /\ (i + 1) - 1 = i
    BY <2>1
  <2>3. i + 1 # 1 => f[i] = g[i]
    BY <1>3, <2>2
  <2>4. s[i + 1] = t[i + 1]
    BY <2>1
  <2>5. f[i + 1] = IF i + 1 = 1 THEN s[i + 1] ELSE f[i] \o s[i + 1]
    BY <1>1, <2>1, <2>2
  <2>6. g[i + 1] = IF i + 1 = 1 THEN t[i + 1] ELSE g[i] \o t[i + 1]
    BY <1>1, <2>1, <2>2
  <2>7. QED
    BY <2>3, <2>4, <2>5, <2>6
<1> HIDE DEF P
<1>4. \A i \in Nat : i \in P
  BY <1>2, <1>3, Induction
<1>5. QED
  BY <1>4 DEF P

\* FlattenSeq of one sequence more.
LEMMA FlattenNext ==
  ASSUME NEW V, NEW s, s \in Seq(Seq(V)), NEW x \in Seq(V)
  PROVE  FlattenSeq(Append(s, x)) = FlattenSeq(s) \o x
<1> DEFINE n == Len(s)
           t == Append(s, x)
           f == CHOOSE h : IsFlat(h, s, n)
           g == CHOOSE h : IsFlat(h, t, n + 1)
<1>1. n \in Nat /\ Len(t) = n + 1 /\ t[n + 1] = x /\ \A i \in 1..n : s[i] = t[i]
  OBVIOUS
<1>2. n # 0 => FlattenSeq(s) = f[n]
  <2>1. f = CHOOSE h : h = [i \in 1..Len(s) |-> IF i = 1 THEN s[i] ELSE h[i - 1] \o s[i]]
    BY DEF IsFlat
  <2>2. QED
    BY <2>1 DEF FlattenSeq
<1>3. FlattenSeq(t) = g[n + 1]
  <2>1. g = CHOOSE h : h = [i \in 1..(n + 1) |-> IF i = 1 THEN t[i] ELSE h[i - 1] \o t[i]]
    BY DEF IsFlat
  <2> HIDE DEF t, g
  <2>2. g = CHOOSE h : h = [i \in 1..Len(t) |-> IF i = 1 THEN t[i] ELSE h[i - 1] \o t[i]]
    BY <1>1, <2>1
  <2>3. Len(t) # 0
    BY <1>1
  <2>4. QED
    BY <1>1, <2>2, <2>3 DEF FlattenSeq
<1> HIDE DEF t
<1>4. IsFlat(f, s, n) /\ IsFlat(g, t, n + 1)
  <2>1. n + 1 \in Nat
    BY <1>1
  <2>2. QED
    BY <1>1, <2>1, FlatExists
<1> HIDE DEF f, g
<1>5. g[n + 1] = IF n + 1 = 1 THEN t[n + 1] ELSE g[(n + 1) - 1] \o t[n + 1]
  <2>1. n + 1 \in 1..(n + 1)
    BY <1>1
  <2>2. QED
    BY <1>4, <2>1 DEF IsFlat
<1>6. CASE n = 0
  <2>1. s = <<>>
    BY <1>6
  <2>2. FlattenSeq(s) = <<>>
    BY <2>1, <1>6 DEF FlattenSeq
  <2>3. FlattenSeq(t) = x
    BY <1>1, <1>3, <1>5, <1>6
  <2>4. <<>> \o x = x
    OBVIOUS
  <2>5. QED
    BY <2>2, <2>3, <2>4 DEF t
<1>7. CASE n # 0
  <2>1. n \in 1..n /\ n + 1 # 1 /\ (n + 1) - 1 = n /\ n + 1 \in n..(n + 1)
    BY <1>1, <1>7
  <2> DEFINE m == n + 1
  <2>4. m \in n..(n + 1) /\ IsFlat(g, t, m)
    BY <1>4, <2>1
  <2> HIDE DEF m, n
  <2>2. \A i \in 1..n : f[i] = g[i]
    <3>1. n \in Nat /\ (\A i \in 1..n : s[i] = t[i]) /\ IsFlat(f, s, n)
      BY <1>1, <1>4
    <3>2. QED
      BY <3>1, <2>4, FlatOnce
  <2>3. QED
    BY <1>1, <1>2, <1>3, <1>5, <1>7, <2>1, <2>2 DEF t
<1>8. QED
  BY <1>6, <1>7

\* FlattenSeq of as many copies of a sequence.
LEMMA FlattenCopies ==
  ASSUME NEW V, NEW x \in Seq(V), Len(x) # 0, NEW n \in Nat
  PROVE  FlattenSeq([c \in 1..n |-> x]) = Times(x, n)
<1> DEFINE Same(m) == FlattenSeq([c \in 1..m |-> x]) = Times(x, m)
           P == {m \in Nat : Same(m)}
<1>1. 0 \in P
  <2>1. Len([c \in 1..0 |-> x]) = 0 /\ [c \in 1..0 |-> x] = <<>>
    OBVIOUS
  <2>2. FlattenSeq([c \in 1..0 |-> x]) = <<>>
    BY <2>1 DEF FlattenSeq
  <2>3. Len(x) * 0 = 0
    OBVIOUS
  <2>4. Times(x, 0) = <<>>
    BY <2>3 DEF Times
  <2>5. Same(0)
    BY <2>2, <2>4
  <2> HIDE DEF Same
  <2>6. QED
    BY <2>5
<1>2. ASSUME NEW m \in Nat, m \in P
      PROVE  m + 1 \in P
  <2> DEFINE s == [c \in 1..m |-> x]
  <2>1. s \in Seq(Seq(V)) /\ Append(s, x) = [c \in 1..(m + 1) |-> x]
    OBVIOUS
  <2>2. FlattenSeq(s) = Times(x, m)
    BY <1>2
  <2> HIDE DEF s
  <2>3. FlattenSeq(Append(s, x)) = FlattenSeq(s) \o x
    BY <2>1, FlattenNext
  <2>4. Times(x, m) \o x = Times(x, m + 1)
    BY TimesSeq
  <2>5. Same(m + 1)
    BY <2>1, <2>2, <2>3, <2>4
  <2> HIDE DEF Same
  <2>6. QED
    BY <2>5
<1> HIDE DEF P
<1>3. \A m \in Nat : m \in P
  BY <1>1, <1>2, Induction
<1>4. QED
  BY <1>3 DEF P

\* What samples are.
Number == Int

\* Inputs of a kernel: a sequence of so many samples for every channel.
Tensors(channels, n) == [1..channels -> [1..n -> Number]]
TensorsOf(E, channels, n) == [1..channels -> [1..n -> E]]

StreamOf(h, i) == FlattenSeq([t \in DOMAIN h |-> h[t][i]])

\* An input x behind the inputs h, and a channel i of theirs.
InputBehind(E, channels, n, h, x, i) ==
  /\ channels \in Nat /\ n \in Nat /\ i \in 1..channels
  /\ h \in Seq(TensorsOf(E, channels, n)) /\ x \in TensorsOf(E, channels, n)

\* An invocation appends to each channel's stream.
LEMMA StreamNext ==
  ASSUME NEW E, NEW channels, NEW n, NEW h, NEW x, NEW i, InputBehind(E, channels, n, h, x, i)
  PROVE  /\ StreamOf(Append(h, x), i) = Joint(StreamOf(h, i), x[i])
         /\ x[i] \in Seq(E) /\ Len(x[i]) = n
<1> SUFFICES ASSUME channels \in Nat, n \in Nat, i \in 1..channels,
                    h \in Seq(TensorsOf(E, channels, n)), x \in TensorsOf(E, channels, n)
             PROVE  /\ StreamOf(Append(h, x), i) = Joint(StreamOf(h, i), x[i])
                    /\ x[i] \in Seq(E) /\ Len(x[i]) = n
  BY DEF InputBehind
<1> DEFINE s == [t \in DOMAIN h |-> h[t][i]]
<1>1. x[i] \in [1..n -> E]
  BY DEF TensorsOf
<1>2. x[i] \in Seq(E) /\ Len(x[i]) = n
  BY <1>1
<1>3. \A t \in 1..Len(h) : h[t][i] \in Seq(E)
  <2>1. \A t \in 1..Len(h) : h[t] \in TensorsOf(E, channels, n)
    OBVIOUS
  <2>2. \A t \in 1..Len(h) : h[t][i] \in [1..n -> E]
    BY <2>1 DEF TensorsOf
  <2>3. \A y \in [1..n -> E] : y \in Seq(E)
    OBVIOUS
  <2>4. QED
    BY <2>2, <2>3
<1>4. DOMAIN h = 1..Len(h) /\ Len(h) \in Nat
  OBVIOUS
<1>5. s \in Seq(Seq(E))
  BY <1>3, <1>4
<1>6. [t \in DOMAIN Append(h, x) |-> Append(h, x)[t][i]] = Append(s, x[i])
  <2> DEFINE H == Append(h, x)
             y == x[i]
  <2>1. /\ H \in Seq(TensorsOf(E, channels, n)) /\ Len(H) = Len(h) + 1 /\ H[Len(h) + 1] = x
        /\ \A t \in 1..Len(h) : H[t] = h[t]
    OBVIOUS
  <2>2. DOMAIN H = 1..(Len(h) + 1)
    BY <2>1
  <2>3. Len(s) = Len(h) /\ \A t \in 1..Len(h) : s[t] = h[t][i]
    BY <1>4, <1>5
  <2>4. y \in Seq(E)
    BY <1>2
  <2> HIDE DEF H, s, y
  <2>5. /\ Append(s, y) \in Seq(Seq(E)) /\ Len(Append(s, y)) = Len(h) + 1
        /\ \A t \in 1..Len(h) : Append(s, y)[t] = s[t]
        /\ Append(s, y)[Len(h) + 1] = y
    <3> DEFINE V == Seq(E)
    <3>1. s \in Seq(V) /\ y \in V
      BY <1>5, <2>4
    <3> HIDE DEF V
    <3>2. /\ Append(s, y) \in Seq(V) /\ Len(Append(s, y)) = Len(s) + 1
          /\ \A k \in 1..Len(s) : Append(s, y)[k] = s[k]
          /\ Append(s, y)[Len(s) + 1] = y
      BY <3>1, Appended
    <3>3. QED
      BY <2>3, <3>2, Zenon DEF V
  <2>6. \A t \in 1..(Len(h) + 1) : H[t][i] = Append(s, y)[t]
    <3>1. SUFFICES ASSUME NEW t \in 1..(Len(h) + 1) PROVE H[t][i] = Append(s, y)[t]
      OBVIOUS
    <3>2. CASE t = Len(h) + 1
      BY <3>2, <2>1, <2>5 DEF y
    <3>3. CASE t # Len(h) + 1
      <4>1. t \in 1..Len(h)
        BY <1>4, <3>3
      <4>2. QED
        BY <4>1, <2>1, <2>3, <2>5
    <3>4. QED
      BY <3>2, <3>3
  <2>7. Append(s, y) = [t \in 1..(Len(h) + 1) |-> Append(s, y)[t]]
    <3> DEFINE a == Append(s, y)
    <3>1. a \in Seq(Seq(E)) /\ Len(a) = Len(h) + 1
      BY <2>5
    <3> HIDE DEF a
    <3>2. a = [t \in 1..(Len(h) + 1) |-> a[t]]
      BY <3>1
    <3>3. QED
      BY <3>2 DEF a
  <2>8. [t \in DOMAIN H |-> H[t][i]] = Append(s, y)
    BY <2>2, <2>6, <2>7
  <2>9. QED
    BY <2>8 DEF H, y
<1> HIDE DEF s
<1>7. FlattenSeq(Append(s, x[i])) = FlattenSeq(s) \o x[i]
  BY <1>2, <1>5, FlattenNext
<1>8. StreamOf(h, i) = FlattenSeq(s)
  BY DEF StreamOf, s
<1>9. QED
  BY <1>2, <1>6, <1>7, <1>8, Zenon DEF StreamOf, Joint

\* Before any input the stream is empty.
LEMMA StreamStart ==
  ASSUME NEW i
  PROVE  StreamOf(<<>>, i) = <<>>
<1>1. [t \in DOMAIN <<>> |-> <<>>[t][i]] = <<>>
  OBVIOUS
<1>2. QED
  BY <1>1 DEF StreamOf, FlattenSeq

-----------------------------------------------------------------------------
(***************************************************************************)
(* Part 4: a buffer and the stream it was given.                           *)
(***************************************************************************)

\* A sound buffer whose unread samples are those of the stream s behind the first from.
Holds(c, s, from) ==
  /\ IsRing(c) /\ HasCells(c, Number)
  /\ s \in Seq(Number)
  /\ from \in 0..Len(s)
  /\ Queue(c) = SubSeq(s, from + 1, Len(s))

\* How much can be read from such a buffer and written into it.
LEMMA HoldsFacts ==
  ASSUME NEW c, NEW s, NEW from, Holds(c, s, from)
  PROVE  /\ Available(c) = Len(s) - from /\ CanWrite(c) = c.capacity - (Len(s) - from)
         /\ c.capacity \in Nat \ {0} /\ CanWrite(c) \in Nat
<1>1. IsRing(c) /\ HasCells(c, Number) /\ s \in Seq(Number) /\ from \in 0..Len(s)
      /\ Queue(c) = SubSeq(s, from + 1, Len(s))
  BY DEF Holds
<1>2. Len(SubSeq(s, from + 1, Len(s))) = Len(s) - from
  BY <1>1
<1>3. Len(Queue(c)) = Available(c)
  BY <1>1, QueueIsKept
<1>4. CanWrite(c) = c.capacity - Available(c) /\ CanWrite(c) \in 0..c.capacity /\ c.capacity \in Nat \ {0}
  BY <1>1, AvailableFacts, RingFields
<1>5. QED
  BY <1>1, <1>2, <1>3, <1>4

\* A new buffer has delivered all of the stream so far.
LEMMA HoldsInit ==
  ASSUME NEW capacity \in Nat \ {0}, NEW s \in Seq(Number)
  PROVE  /\ Holds(CircularBufferInit(capacity), s, Len(s))
         /\ CircularBufferInit(capacity).capacity = capacity
<1> DEFINE c == CircularBufferInit(capacity)
<1>2. /\ c = [capacity |-> c.capacity, read |-> c.read, write |-> c.write, empty |-> c.empty, buffer |-> c.buffer]
      /\ c.capacity = capacity /\ c.read = 0 /\ c.write = 0 /\ c.empty = TRUE
      /\ c.buffer = [i \in 0..(2 * capacity - 1) |-> 0]
  BY DEF CircularBufferInit
<1> HIDE DEF c
<1>3. IsRing(c)
  <2>1. c.capacity \in Nat \ {0} /\ c.read \in 0..(c.capacity - 1) /\ c.write \in 0..(c.capacity - 1)
    BY <1>2
  <2>2. c.empty \in BOOLEAN
    BY <1>2
  <2>3. c = [capacity |-> c.capacity, read |-> c.read, write |-> c.write, empty |-> c.empty, buffer |-> c.buffer]
    BY <1>2
  <2>4. QED
    BY <2>1, <2>2, <2>3, Zenon DEF IsRing
<1>4. HasCells(c, Number)
  BY <1>2 DEF HasCells, Number
<1>5. Available(c) = 0
  BY <1>2, <1>3, AvailableIs DEF EmptyRing
<1>6. Queue(c) = <<>>
  BY <1>5 DEF Queue
<1>7. SubSeq(s, Len(s) + 1, Len(s)) = <<>> /\ Len(s) \in 0..Len(s)
  OBVIOUS
<1>8. QED
  BY <1>2, <1>3, <1>4, <1>6, <1>7 DEF Holds, c

\* Writing appends to the stream.
LEMMA HoldsWrite ==
  ASSUME NEW c, NEW s, NEW from, Holds(c, s, from), NEW x \in Seq(Number), Len(x) <= CanWrite(c)
  PROVE  Holds(Write(c, x), Joint(s, x), from) /\ Write(c, x).capacity = c.capacity
<1> DEFINE j == Joint(s, x)
<1>1. IsRing(c) /\ HasCells(c, Number) /\ s \in Seq(Number) /\ from \in 0..Len(s)
      /\ Queue(c) = SubSeq(s, from + 1, Len(s))
  BY DEF Holds
<1>5. j \in Seq(Number) /\ Len(j) = Len(s) + Len(x)
  BY <1>1, JointSeq
<1>2. CASE Len(x) = 0
  <2>1. Write(c, x) = c
    BY <1>2 DEF Write
  <2>2. x = <<>>
    BY <1>2
  <2>3. j = s
    BY <1>1, <2>2, JointEmpty
  <2>4. QED
    BY <2>1, <2>3
<1>3. CASE Len(x) # 0
  <2>1. Len(x) \in 1..CanWrite(c)
    <3>1. Len(x) \in Nat /\ CanWrite(c) \in Nat
      BY HoldsFacts
    <3>2. QED
      BY <3>1, <1>3
  <2>2. /\ IsRing(Write(c, x)) /\ HasCells(Write(c, x), Number) /\ Write(c, x).capacity = c.capacity
    BY <1>1, <2>1, WriteRing
  <2>3. Queue(Write(c, x)) = Queue(c) \o x
    BY <1>1, <2>1, WriteQueue
  <2>4. SubSeq(s, from + 1, Len(s)) \o x = SubSeq(j, from + 1, Len(s) + Len(x))
    BY <1>1, PieceJoined DEF Joint
  <2>5. Queue(Write(c, x)) = SubSeq(j, from + 1, Len(j))
    BY <1>1, <1>5, <2>3, <2>4
  <2> HIDE DEF j
  <2>6. from \in 0..Len(j)
    BY <1>1, <1>5
  <2>7. QED
    BY <1>5, <2>2, <2>5, <2>6 DEF Holds, j
<1>4. QED
  BY <1>2, <1>3

\* Zeros are samples.
LEMMA ZerosSeq ==
  ASSUME NEW n \in Nat
  PROVE  Zeros(n) \in Seq(Number) /\ Len(Zeros(n)) = n
BY DEF Zeros, Number

\* Reading gives the stream from the place where it was left.
LEMMA HoldsGet ==
  ASSUME NEW c, NEW s, NEW from, Holds(c, s, from), NEW n \in 0..(Len(s) - from)
  PROVE  Get(c, n) = SubSeq(s, from + 1, from + n)
<1>1. IsRing(c) /\ HasCells(c, Number) /\ s \in Seq(Number) /\ from \in 0..Len(s)
      /\ Queue(c) = SubSeq(s, from + 1, Len(s))
  BY DEF Holds
<1>2. n \in 0..Available(c)
  BY HoldsFacts
<1>3. Get(c, n) = SubSeq(Queue(c), 1, n)
  BY <1>1, <1>2, GetQueue
<1>4. SubSeq(SubSeq(s, from + 1, Len(s)), 0 + 1, n) = SubSeq(s, from + 0 + 1, from + n)
  <2> DEFINE z == 0
  <2>1. z \in 0..(Len(s) - from) /\ n \in z..(Len(s) - from)
    BY <1>1
  <2> HIDE DEF z
  <2>2. SubSeq(SubSeq(s, from + 1, Len(s)), z + 1, n) = SubSeq(s, from + z + 1, from + n)
    BY <1>1, <2>1, PieceOfPiece
  <2>3. QED
    BY <2>2 DEF z
<1>5. 0 + 1 = 1 /\ from + 0 + 1 = from + 1
  BY <1>1
<1>6. QED
  BY <1>1, <1>3, <1>4, <1>5

\* Discarding delivers.
LEMMA HoldsDiscard ==
  ASSUME NEW c, NEW s, NEW from, Holds(c, s, from), NEW n \in 1..(Len(s) - from)
  PROVE  Holds(Discard(c, n), s, from + n) /\ Discard(c, n).capacity = c.capacity
<1>1. IsRing(c) /\ HasCells(c, Number) /\ s \in Seq(Number) /\ from \in 0..Len(s)
      /\ Queue(c) = SubSeq(s, from + 1, Len(s))
  BY DEF Holds
<1>2. n \in 1..Available(c) /\ Available(c) = Len(s) - from
  BY HoldsFacts
<1>3. /\ IsRing(Discard(c, n)) /\ SameSamples(c, Discard(c, n))
      /\ Queue(Discard(c, n)) = SubSeq(Queue(c), n + 1, Available(c))
  BY <1>1, <1>2, DiscardRing, DiscardQueue
<1>4. Discard(c, n).capacity = c.capacity /\ HasCells(Discard(c, n), Number)
  BY <1>1, <1>3 DEF SameSamples, HasCells
<1>5. SubSeq(SubSeq(s, from + 1, Len(s)), n + 1, Available(c)) = SubSeq(s, from + n + 1, from + Available(c))
  <2> DEFINE b == Available(c)
  <2>1. b \in n..(Len(s) - from) /\ n \in 0..(Len(s) - from)
    BY <1>1, <1>2
  <2> HIDE DEF b
  <2>2. SubSeq(SubSeq(s, from + 1, Len(s)), n + 1, b) = SubSeq(s, from + n + 1, from + b)
    BY <1>1, <2>1, PieceOfPiece
  <2>3. QED
    BY <2>2 DEF b
<1>6. from + Available(c) = Len(s) /\ from + n \in 0..Len(s)
  BY <1>1, <1>2
<1>7. QED
  BY <1>1, <1>3, <1>4, <1>5, <1>6 DEF Holds

-----------------------------------------------------------------------------
(***************************************************************************)
(* Part 5: what holds of every kernel.                                     *)
(***************************************************************************)

\* The inputs since the last reset, and the lengths of the streams they make up.
InputsAre(h, channels, n) ==
  /\ h \in Seq(Tensors(channels, n))
  /\ \A i \in 1..channels : StreamOf(h, i) \in Seq(Number) /\ Len(StreamOf(h, i)) = n * Len(h)

\* One more input continues every stream.
LEMMA InputsNext ==
  ASSUME NEW channels \in Nat, NEW n \in Nat, NEW h, InputsAre(h, channels, n),
         NEW x \in Tensors(channels, n)
  PROVE  /\ \A i \in 1..channels : StreamOf(Append(h, x), i) = Joint(StreamOf(h, i), x[i])
         /\ InputsAre(Append(h, x), channels, n)
         /\ Len(Append(h, x)) = Len(h) + 1 /\ Len(h) \in Nat
<1> DEFINE g == Append(h, x)
<1>1. h \in Seq(Tensors(channels, n)) /\ Len(h) \in Nat
  BY DEF InputsAre
<1>2. g \in Seq(Tensors(channels, n)) /\ Len(g) = Len(h) + 1
  BY <1>1
<1>3. ASSUME NEW i \in 1..channels
      PROVE  /\ StreamOf(g, i) = Joint(StreamOf(h, i), x[i])
             /\ StreamOf(g, i) \in Seq(Number) /\ Len(StreamOf(g, i)) = n * Len(g)
  <2>1. /\ StreamOf(g, i) = Joint(StreamOf(h, i), x[i])
        /\ x[i] \in Seq(Number) /\ Len(x[i]) = n
    <3>1. Tensors(channels, n) = TensorsOf(Number, channels, n)
      BY DEF Tensors, TensorsOf
    <3>2. InputBehind(Number, channels, n, h, x, i)
      BY <1>1, <3>1 DEF InputBehind
    <3>3. QED
      BY <3>2, StreamNext
  <2>2. StreamOf(h, i) \in Seq(Number) /\ Len(StreamOf(h, i)) = n * Len(h)
    BY DEF InputsAre
  <2>3. /\ Joint(StreamOf(h, i), x[i]) \in Seq(Number)
        /\ Len(Joint(StreamOf(h, i), x[i])) = n * Len(h) + n
    <3>1. /\ Joint(StreamOf(h, i), x[i]) \in Seq(Number)
          /\ Len(Joint(StreamOf(h, i), x[i])) = Len(StreamOf(h, i)) + Len(x[i])
      BY <2>1, <2>2, JointSeq
    <3>2. QED
      BY <2>1, <2>2, <3>1, Zenon
  <2>4. n * Len(h) + n = n * Len(g)
    BY <1>1, <1>2
  <2>5. QED
    BY <2>1, <2>3, <2>4
<1>4. QED
  BY <1>1, <1>2, <1>3 DEF InputsAre

\* No inputs, and empty streams.
LEMMA InputsStart ==
  ASSUME NEW channels \in Nat, NEW n \in Nat, NEW h, h = <<>>
  PROVE  InputsAre(h, channels, n) /\ Len(h) = 0 /\ \A i \in 1..channels : StreamOf(h, i) = <<>>
<1>1. \A i \in 1..channels : StreamOf(h, i) = <<>>
  BY StreamStart
<1>2. Len(h) = 0 /\ n * 0 = 0 /\ <<>> \in Seq(Number) /\ Len(<<>>) = 0
  OBVIOUS
<1>3. h \in Seq(Tensors(channels, n))
  OBVIOUS
<1>4. n * Len(h) = 0
  BY <1>2
<1>5. QED
  BY <1>1, <1>2, <1>3, <1>4, Zenon DEF InputsAre

\* What a model feeds a kernel.
LEMMA FreshInput ==
  ASSUME calls \in Nat, NEW channels \in Nat, NEW n \in Nat
  PROVE  Fresh(channels, n) \in Tensors(channels, n)
BY DEF Fresh, Tensors, Number

-----------------------------------------------------------------------------
(***************************************************************************)
(* Part 6: DELAY.                                                          *)
(***************************************************************************)

\* The buffer has delivered as many samples of the zeros and the stream as came in.
DelayInv == kernel.kind = "delay" =>
  /\ InputsAre(history, kernel.outer, kernel.frame)
  /\ DOMAIN state = 1..kernel.outer
  /\ \A i \in 1..kernel.outer :
       /\ Holds(state[i], Joint(Zeros(kernel.delay), StreamOf(history, i)), kernel.frame * Len(history))
       /\ state[i].capacity = kernel.frame + kernel.delay
  /\ DelayExact

\* One channel of an invocation: the delay stays and a frame of the stream comes out.
LEMMA DelayChannelHolds ==
  ASSUME NEW k, k.frame \in Nat \ {0}, k.delay \in Nat, NEW c, c.capacity = k.frame + k.delay,
         NEW s, NEW from, Holds(c, s, from), Len(s) = from + k.delay,
         NEW x \in Seq(Number), Len(x) = k.frame
  PROVE  /\ Holds(DelayChannel(k, c, x).state, Joint(s, x), from + k.frame)
         /\ DelayChannel(k, c, x).state.capacity = c.capacity
         /\ DelayChannel(k, c, x).output = SubSeq(Joint(s, x), from + 1, from + k.frame)
<1> DEFINE w == Write(c, x)
           n == k.frame
           j == Joint(s, x)
<1>0. from \in Nat /\ s \in Seq(Number)
  BY DEF Holds
<1>1. Len(x) <= CanWrite(c)
  BY <1>0, HoldsFacts
<1>2. Holds(w, j, from) /\ w.capacity = c.capacity
  BY <1>1, HoldsWrite
<1>3. Len(j) = from + k.delay + n
  <2>1. Len(j) = Len(s) + Len(x)
    BY <1>0, JointSeq
  <2>2. QED
    BY <2>1, Zenon
<1> HIDE DEF w, j
<1>4. n \in 0..(Len(j) - from) /\ n \in 1..(Len(j) - from)
  BY <1>0, <1>3
<1> HIDE DEF n
<1>5. Get(w, n) = SubSeq(j, from + 1, from + n)
  BY <1>2, <1>4, HoldsGet
<1>6. Holds(Discard(w, n), j, from + n) /\ Discard(w, n).capacity = w.capacity
  BY <1>2, <1>4, HoldsDiscard
<1>7. DelayChannel(k, c, x).state = Discard(w, n) /\ DelayChannel(k, c, x).output = Get(w, n)
  BY DEF DelayChannel, w, n
<1>8. QED
  BY <1>2, <1>5, <1>6, <1>7 DEF n, j

\* The buffers as Prepare and Reset leave them.
LEMMA DelayCleared ==
  ASSUME NEW k, k.frame \in Nat \ {0}, k.delay \in Nat, NEW c, c.capacity = k.frame + k.delay
  PROVE  Holds(DelayResetState(k, c), Zeros(k.delay), 0) /\ DelayResetState(k, c).capacity = c.capacity
<1> DEFINE r == CircularBufferReset(c)
           z == Zeros(k.delay)
<1>1. <<>> \in Seq(Number) /\ Len(<<>>) = 0 /\ c.capacity \in Nat \ {0}
  OBVIOUS
<1>2. Holds(r, <<>>, 0) /\ r.capacity = c.capacity
  BY <1>1, HoldsInit DEF CircularBufferReset
<1>3. z \in Seq(Number) /\ Len(z) = k.delay
  BY ZerosSeq
<1> HIDE DEF r, z
<1>4. Len(z) <= CanWrite(r)
  BY <1>1, <1>2, <1>3, HoldsFacts
<1>5. Holds(Write(r, z), Joint(<<>>, z), 0) /\ Write(r, z).capacity = r.capacity
  BY <1>2, <1>3, <1>4, HoldsWrite
<1>6. Joint(<<>>, z) = z
  BY <1>3, JointEmpty
<1>7. QED
  BY <1>2, <1>5, <1>6 DEF DelayResetState, WriteZeros, r, z

\* The model holds a kernel whose attributes its op accepts.
LEMMA KernelAccepted ==
  ASSUME kernel \in Kernels
  PROVE  Accepted(kernel)
BY StreamKernelsAssumption

\* An invocation of DELAY.
LEMMA DelayEvalStep ==
  ASSUME kernel \in Kernels, calls \in Nat, DelayInv, DelayEval
  PROVE  DelayInv'
<1> DEFINE frame == kernel.frame
           delay == kernel.delay
           outer == kernel.outer
           input == Fresh(outer, frame)
           N == Len(history)
<1>1. /\ kernel.kind = "delay" /\ frame \in Nat \ {0} /\ delay \in Nat /\ outer \in Nat
  BY KernelAccepted DEF DelayEval, Accepted, DelayAccepted, Positive
<1>2. input \in Tensors(outer, frame) /\ DOMAIN input = 1..outer
  BY <1>1, FreshInput DEF Tensors
<1>3. /\ history' = Append(history, input) /\ kernel' = kernel
      /\ DOMAIN state' = 1..outer
      /\ \A i \in 1..outer : /\ state'[i] = DelayChannel(kernel, state[i], input[i]).state
                             /\ output'[i] = DelayChannel(kernel, state[i], input[i]).output
  BY <1>2 DEF DelayEval, Invoked, ByChannel
<1>4. /\ InputsAre(history, outer, frame)
      /\ \A i \in 1..outer :
           /\ Holds(state[i], Joint(Zeros(delay), StreamOf(history, i)), frame * N)
           /\ state[i].capacity = frame + delay
  BY <1>1 DEF DelayInv
<1> HIDE DEF input, frame, delay, outer
<1>5. /\ InputsAre(history', outer, frame) /\ Len(history') = N + 1 /\ N \in Nat
      /\ \A i \in 1..outer : StreamOf(history', i) = Joint(StreamOf(history, i), input[i])
  <2>1. outer \in Nat /\ frame \in Nat
    BY <1>1
  <2>2. QED
    <3> DEFINE g == Append(history, input)
    <3>1. history' = g
      BY <1>3
    <3>2. InputsAre(history, outer, frame) /\ input \in Tensors(outer, frame)
      BY <1>2, <1>4
    <3>3. InputsAre(g, outer, frame) /\ Len(g) = Len(history) + 1 /\ Len(history) \in Nat
      BY <2>1, <3>2, InputsNext
    <3>4. \A i \in 1..outer : StreamOf(g, i) = Joint(StreamOf(history, i), input[i])
      BY <2>1, <3>2, InputsNext
    <3> HIDE DEF g
    <3>5. QED
      BY <3>1, <3>3, <3>4
<1> HIDE DEF N
<1>6. ASSUME NEW i \in 1..outer
      PROVE  /\ Holds(state'[i], Joint(Zeros(delay), StreamOf(history', i)), frame * (N + 1))
             /\ state'[i].capacity = frame + delay
             /\ output'[i] = SubSeq(Joint(Zeros(delay), StreamOf(history', i)), frame * N + 1, frame * (N + 1))
  <2> DEFINE z == Zeros(delay)
             t == StreamOf(history, i)
             s == Joint(z, t)
             x == input[i]
             from == frame * N
             c == state[i]
  <2>1. z \in Seq(Number) /\ Len(z) = delay
    BY <1>1, ZerosSeq
  <2>2. t \in Seq(Number) /\ Len(t) = from
    BY <1>4 DEF InputsAre, N
  <2>3. x \in Seq(Number) /\ Len(x) = frame
    <3>1. x \in [1..frame -> Number]
      BY <1>2 DEF Tensors
    <3>2. QED
      BY <1>1, <3>1
  <2>4. Holds(c, s, from) /\ c.capacity = frame + delay
    BY <1>4
  <2>5. from \in Nat /\ frame * (N + 1) = from + frame
    <3>1. N \in Nat /\ frame \in Nat
      BY <1>1, <1>5
    <3>2. QED
      BY <3>1
  <2>6. StreamOf(history', i) = Joint(t, x)
    BY <1>5
  <2> HIDE DEF z, t, x
  <2>7. s \in Seq(Number) /\ Len(s) = Len(z) + Len(t)
    BY <2>1, <2>2, JointSeq
  <2>8. Joint(z, Joint(t, x)) = Joint(s, x)
    BY <2>1, <2>2, <2>3, JointThrice
  <2> HIDE DEF s, from, c
  <2>9. Len(s) = from + delay
    BY <1>1, <2>1, <2>2, <2>5, <2>7
  <2>10. /\ Holds(DelayChannel(kernel, c, x).state, Joint(s, x), from + frame)
         /\ DelayChannel(kernel, c, x).state.capacity = c.capacity
         /\ DelayChannel(kernel, c, x).output = SubSeq(Joint(s, x), from + 1, from + frame)
    <3>1. /\ kernel.frame \in Nat \ {0} /\ kernel.delay \in Nat
          /\ c.capacity = kernel.frame + kernel.delay
          /\ Len(s) = from + kernel.delay /\ Len(x) = kernel.frame
      BY <1>1, <2>3, <2>4, <2>9 DEF frame, delay
    <3>4. x \in Seq(Number) /\ Holds(c, s, from)
      BY <2>3, <2>4
    <3>2. /\ Holds(DelayChannel(kernel, c, x).state, Joint(s, x), from + kernel.frame)
          /\ DelayChannel(kernel, c, x).state.capacity = c.capacity
          /\ DelayChannel(kernel, c, x).output = SubSeq(Joint(s, x), from + 1, from + kernel.frame)
      BY <3>1, <3>4, DelayChannelHolds
    <3>3. QED
      BY <3>2 DEF frame
  <2>11. state'[i] = DelayChannel(kernel, c, x).state /\ output'[i] = DelayChannel(kernel, c, x).output
    BY <1>3 DEF c, x
  <2>12. Joint(Zeros(delay), StreamOf(history', i)) = Joint(s, x)
    BY <2>6, <2>8 DEF z
  <2>13. QED
    BY <2>4, <2>5, <2>10, <2>11, <2>12, Zenon DEF from
<1>7. DelayExact'
  <2>1. Len(history') = N + 1 /\ frame * N = ((N + 1) - 1) * frame /\ frame * (N + 1) = (N + 1) * frame
    BY <1>1, <1>5
  <2>2. kernel' = kernel
    BY <1>3
  <2>3. \A i \in 1..outer : output'[i] =
          SubSeq(Joint(Zeros(delay), StreamOf(history', i)), ((N + 1) - 1) * frame + 1, (N + 1) * frame)
    BY <1>6, <2>1, Zenon
  <2>4. \A i \in 1..kernel.outer : output'[i] =
          SubSeq(Joint(Zeros(kernel.delay), StreamOf(history', i)),
                 (Len(history') - 1) * kernel.frame + 1, Len(history') * kernel.frame)
    BY <2>1, <2>3, Zenon DEF outer, frame, delay
  <2>5. QED
    BY <2>2, <2>4, Zenon DEF DelayExact, Invocations, Stream, StreamOf, Joint
<1>8. QED
  BY <1>3, <1>5, <1>6, <1>7, Zenon DEF DelayInv, outer, frame, delay

\* Before the first invocation after Prepare or a reset.
LEMMA DelayStart ==
  ASSUME NEW k, k.kind = "delay", Accepted(k), NEW st, DOMAIN st = 1..k.outer,
         NEW before, \A i \in 1..k.outer : /\ before[i].capacity = k.frame + k.delay
                                           /\ st[i] = DelayResetState(k, before[i])
  PROVE  /\ InputsAre(<<>>, k.outer, k.frame)
         /\ \A i \in 1..k.outer :
              /\ Holds(st[i], Joint(Zeros(k.delay), StreamOf(<<>>, i)), k.frame * Len(<<>>))
              /\ st[i].capacity = k.frame + k.delay
<1>1. k.frame \in Nat \ {0} /\ k.delay \in Nat /\ k.outer \in Nat
  BY DEF Accepted, DelayAccepted, Positive
<1>2. /\ InputsAre(<<>>, k.outer, k.frame)
      /\ \A i \in 1..k.outer : StreamOf(<<>>, i) = <<>>
  <2> DEFINE h == <<>>
  <2>1. h = <<>> /\ k.outer \in Nat /\ k.frame \in Nat
    BY <1>1
  <2> HIDE DEF h
  <2>2. InputsAre(h, k.outer, k.frame) /\ \A i \in 1..k.outer : StreamOf(h, i) = <<>>
    BY <2>1, InputsStart
  <2>3. QED
    BY <2>2 DEF h
<1>3. ASSUME NEW i \in 1..k.outer
      PROVE  /\ Holds(st[i], Joint(Zeros(k.delay), StreamOf(<<>>, i)), k.frame * Len(<<>>))
             /\ st[i].capacity = k.frame + k.delay
  <2> DEFINE z == Zeros(k.delay)
             c == before[i]
  <2>1. c.capacity = k.frame + k.delay /\ st[i] = DelayResetState(k, c)
    OBVIOUS
  <2> HIDE DEF c
  <2>2. Holds(st[i], z, 0) /\ st[i].capacity = k.frame + k.delay
    BY <1>1, <2>1, DelayCleared
  <2>3. z \in Seq(Number)
    BY <1>1, ZerosSeq
  <2> HIDE DEF z
  <2>4. Joint(z, <<>>) = z
    BY <2>3, JointEmpty
  <2>5. k.frame * Len(<<>>) = 0
    BY <1>1
  <2>6. QED
    BY <1>2, <2>2, <2>4, <2>5 DEF z
<1>4. QED
  BY <1>2, <1>3

\* DELAY after Prepare.
LEMMA DelayInit ==
  ASSUME Init
  PROVE  DelayInv
<1>1. SUFFICES ASSUME kernel.kind = "delay" PROVE DelayInv
  BY DEF DelayInv
<1> DEFINE before == [i \in 1..kernel.outer |-> CircularBufferInit(kernel.frame + kernel.delay)]
<1>2. kernel \in Kernels /\ Accepted(kernel) /\ history = <<>>
  BY KernelAccepted DEF Init
<1>3. state = [i \in 1..kernel.outer |->
                 DelayResetState(kernel, CircularBufferInit(kernel.frame + kernel.delay))]
  BY <1>1 DEF Init, Prepared
<1>4. /\ DOMAIN state = 1..kernel.outer
      /\ \A i \in 1..kernel.outer : /\ before[i].capacity = kernel.frame + kernel.delay
                                    /\ state[i] = DelayResetState(kernel, before[i])
  BY <1>3 DEF CircularBufferInit
<1> HIDE DEF before
<1>5. /\ InputsAre(<<>>, kernel.outer, kernel.frame)
      /\ \A i \in 1..kernel.outer :
           /\ Holds(state[i], Joint(Zeros(kernel.delay), StreamOf(<<>>, i)), kernel.frame * Len(<<>>))
           /\ state[i].capacity = kernel.frame + kernel.delay
  BY <1>1, <1>2, <1>4, DelayStart
<1>6. DelayExact
  BY <1>2 DEF DelayExact
<1>7. QED
  BY <1>2, <1>4, <1>5, <1>6 DEF DelayInv

\* A reset of DELAY.
LEMMA DelayResetStep ==
  ASSUME kernel \in Kernels, DelayInv, DelayReset
  PROVE  DelayInv'
<1>1. kernel.kind = "delay" /\ Accepted(kernel) /\ kernel' = kernel /\ history' = <<>>
  BY KernelAccepted DEF DelayReset, Restarted
<1>2. DOMAIN state = 1..kernel.outer /\ \A i \in 1..kernel.outer : state[i].capacity = kernel.frame + kernel.delay
  BY <1>1 DEF DelayInv
<1>3. DOMAIN state' = 1..kernel.outer /\ \A i \in 1..kernel.outer : state'[i] = DelayResetState(kernel, state[i])
  BY <1>2 DEF DelayReset, Restarted
<1> DEFINE st == state'
<1>4. /\ DOMAIN st = 1..kernel.outer
      /\ \A i \in 1..kernel.outer : /\ state[i].capacity = kernel.frame + kernel.delay
                                    /\ st[i] = DelayResetState(kernel, state[i])
  BY <1>2, <1>3
<1> HIDE DEF st
<1>5. /\ InputsAre(<<>>, kernel.outer, kernel.frame)
      /\ \A i \in 1..kernel.outer :
           /\ Holds(st[i], Joint(Zeros(kernel.delay), StreamOf(<<>>, i)), kernel.frame * Len(<<>>))
           /\ st[i].capacity = kernel.frame + kernel.delay
  BY <1>1, <1>4, DelayStart
<1>6. DelayExact'
  BY <1>1 DEF DelayExact
<1>7. QED
  BY <1>1, <1>3, <1>5, <1>6, Zenon DEF DelayInv, st

\* What the delay's part of RoomForNext needs.
LEMMA DelayRoom ==
  ASSUME kernel \in Kernels, DelayInv, kernel.kind = "delay", NEW i \in DOMAIN state
  PROVE  CanWrite(state[i]) = kernel.frame /\ Available(state[i]) = kernel.delay
<1> DEFINE z == Zeros(kernel.delay)
           t == StreamOf(history, i)
           s == Joint(z, t)
           c == state[i]
           from == kernel.frame * Len(history)
<1>1. kernel.frame \in Nat \ {0} /\ kernel.delay \in Nat /\ kernel.outer \in Nat
  BY KernelAccepted DEF Accepted, DelayAccepted, Positive
<1>2. /\ t \in Seq(Number) /\ Len(t) = from /\ Holds(c, s, from)
      /\ c.capacity = kernel.frame + kernel.delay
  BY DEF DelayInv, InputsAre
<1>3. z \in Seq(Number) /\ Len(z) = kernel.delay
  BY <1>1, ZerosSeq
<1> HIDE DEF z, t
<1>4. Len(s) = Len(z) + Len(t)
  BY <1>2, <1>3, JointSeq
<1> HIDE DEF s, c, from
<1>5. Available(c) = Len(s) - from /\ CanWrite(c) = c.capacity - (Len(s) - from)
  BY <1>2, HoldsFacts
<1>6. from \in Nat
  BY <1>2
<1>7. QED
  BY <1>1, <1>2, <1>3, <1>4, <1>5, <1>6 DEF c

-----------------------------------------------------------------------------
(***************************************************************************)
(* Part 7: STACKER.                                                        *)
(***************************************************************************)

\* No copies.
LEMMA TimesNone ==
  ASSUME NEW x, Len(x) \in Nat
  PROVE  Times(x, 0) = <<>>
<1>1. Len(x) * 0 = 0
  OBVIOUS
<1>2. QED
  BY <1>1 DEF Times

\* Copies of a sequence before it are copies of it after it.
LEMMA TimesAround ==
  ASSUME NEW V, NEW x \in Seq(V), Len(x) # 0, NEW t \in Nat
  PROVE  Joint(x, Times(x, t)) = Joint(Times(x, t), x)
<1> DEFINE Same(m) == Joint(x, Times(x, m)) = Times(x, m + 1)
           P == {m \in Nat : Same(m)}
<1>1. 0 \in P
  <2>1. Joint(x, <<>>) = x
    BY JointEmpty
  <2>2. Times(x, 0) = <<>> /\ Times(x, 1) = x /\ 0 + 1 = 1
    BY TimesNone, TimesSeq
  <2>3. Same(0)
    BY <2>1, <2>2
  <2> HIDE DEF Same
  <2>4. QED
    BY <2>3
<1>2. ASSUME NEW m \in Nat, m \in P
      PROVE  m + 1 \in P
  <2> DEFINE a == Times(x, m)
             n == m + 1
             b == Times(x, n)
  <2>1. Joint(x, a) = b
    BY <1>2
  <2>2. n \in Nat
    OBVIOUS
  <2>3. a \in Seq(V) /\ a \o x = b
    BY TimesSeq
  <2> HIDE DEF a
  <2>4. b \in Seq(V)
    BY <2>2, TimesSeq
  <2>5. Joint(b, x) = Times(x, n + 1)
    <3> HIDE DEF n
    <3>1. b \o x = Times(x, n + 1)
      BY <2>2, TimesSeq
    <3>2. QED
      BY <3>1 DEF Joint
  <2> HIDE DEF b
  <2>6. Joint(a, x) = b
    BY <2>3 DEF Joint
  <2>7. Joint(x, b) = Joint(Joint(x, a), x)
    BY <2>3, <2>6, JointThrice
  <2>8. Joint(x, b) = Times(x, n + 1)
    BY <2>1, <2>5, <2>7
  <2>9. Same(n)
    BY <2>8 DEF b
  <2> HIDE DEF Same
  <2>10. QED
    BY <2>2, <2>9
<1> HIDE DEF P
<1>3. \A m \in Nat : m \in P
  BY <1>1, <1>2, Induction
<1>4. Joint(x, Times(x, t)) = Times(x, t + 1)
  BY <1>3 DEF P
<1>5. Times(x, t) \o x = Times(x, t + 1)
  BY TimesSeq
<1>6. QED
  BY <1>4, <1>5 DEF Joint

\* What was written last is what Extend writes again.
LEMMA AgainIsLast ==
  ASSUME NEW c, IsRing(c), NEW V, HasCells(c, V), NEW x \in Seq(V), Len(x) \in 1..CanWrite(c)
  PROVE  Again(Write(c, x), Len(x)) = x
<1> DEFINE d == Write(c, x)
           n == Len(x)
           C == c.capacity
<1>1. d.capacity = C
  BY WriteRing
<1>2. C \in Nat /\ n \in 1..C
  BY RingFields, AvailableFacts
<1>3. ASSUME NEW k \in 1..n
      PROVE  Kept(d)[C - n + k] = x[k]
  <2> DEFINE m == C - n + k
  <2>1. m \in 1..C /\ ~(m <= C - n) /\ m - (C - n) = k
    BY <1>2
  <2> HIDE DEF m
  <2>2. Kept(d)[m] = IF m <= C - n THEN Kept(c)[m + n] ELSE x[m - (C - n)]
    BY <2>1, WriteKept
  <2> HIDE DEF d, n, C
  <2>3. Kept(d)[m] = x[k]
    BY <2>1, <2>2
  <2>4. QED
    BY <2>3 DEF m
<1> HIDE DEF d, C
<1>4. [k \in 1..n |-> Kept(d)[C - n + k]] = [k \in 1..n |-> x[k]]
  BY <1>3
<1>5. x = [k \in 1..n |-> x[k]]
  OBVIOUS
<1> HIDE DEF n
<1>6. QED
  BY <1>1, <1>4, <1>5 DEF Again, d, n

\* A block written and copied t times continues the stream by t + 1 blocks.
LEMMA HoldsExtend ==
  ASSUME NEW c, NEW s, NEW from, Holds(c, s, from), NEW x \in Seq(Number), Len(x) # 0,
         NEW t \in Nat, Len(x) * (t + 1) <= CanWrite(c)
  PROVE  /\ Holds(Extend(Write(c, x), Len(x), t), Joint(Joint(s, x), Times(x, t)), from)
         /\ Extend(Write(c, x), Len(x), t).capacity = c.capacity
<1> DEFINE n == Len(x)
           d == Write(c, x)
           j == Joint(s, x)
           more == n * t
<1>1. n \in Nat \ {0} /\ more \in Nat /\ n * (t + 1) = n + more
  OBVIOUS
<1>2. s \in Seq(Number) /\ from \in 0..Len(s) /\ IsRing(c) /\ HasCells(c, Number)
  BY DEF Holds
<1>3. CanWrite(c) \in Nat /\ CanWrite(c) = c.capacity - (Len(s) - from) /\ c.capacity \in Nat
  BY HoldsFacts
<1>4. n \in 1..CanWrite(c) /\ n + more <= CanWrite(c)
  <2> HIDE DEF more
  <2>1. QED
    BY <1>1, <1>3
<1>5. Holds(d, j, from) /\ d.capacity = c.capacity
  BY <1>4, HoldsWrite
<1>6. j \in Seq(Number) /\ Len(j) = Len(s) + n
  BY <1>2, JointSeq
<1>7. Again(d, n) = x
  BY <1>2, <1>4, AgainIsLast
<1> HIDE DEF d, j
<1>8. CASE t = 0
  <2>1. Extend(d, n, t) = d
    BY <1>8 DEF Extend
  <2>2. Times(x, t) = <<>>
    BY <1>8, TimesNone
  <2>3. Joint(j, <<>>) = j
    BY <1>6, JointEmpty
  <2>4. QED
    BY <1>5, <2>1, <2>2, <2>3 DEF d, j
<1>9. CASE t # 0
  <2> DEFINE y == Times(x, t)
  <2>1. y \in Seq(Number) /\ Len(y) = more
    BY TimesSeq
  <2> HIDE DEF y, n, more
  <2>2. /\ IsRing(d) /\ HasCells(d, Number)
        /\ Available(d) = Len(j) - from /\ CanWrite(d) = d.capacity - (Len(j) - from)
    <3>1. IsRing(d) /\ HasCells(d, Number)
      BY <1>5 DEF Holds
    <3>2. Available(d) = Len(j) - from /\ CanWrite(d) = d.capacity - (Len(j) - from)
      BY <1>5, HoldsFacts
    <3>3. QED
      BY <3>1, <3>2
  <2>3. n * t <= CanWrite(d) /\ n <= Available(d)
    <3>1. more <= CanWrite(d) /\ n <= Available(d)
      BY <1>1, <1>2, <1>3, <1>4, <1>5, <1>6, <2>2
    <3>2. QED
      BY <3>1 DEF more
  <2>4. t \in Nat \ {0}
    BY <1>9
  <2>5. Extend(d, n, t) = Write(d, Times(Again(d, n), t))
    BY <1>1, <2>2, <2>3, <2>4, ExtendIsWrite
  <2>6. Extend(d, n, t) = Write(d, y)
    BY <1>7, <2>5 DEF y
  <2>7. Len(y) <= CanWrite(d)
    BY <2>1, <2>3 DEF more
  <2>8. Holds(Write(d, y), Joint(j, y), from) /\ Write(d, y).capacity = d.capacity
    BY <1>5, <2>1, <2>7, HoldsWrite
  <2>9. QED
    BY <1>5, <2>6, <2>8 DEF d, j, y, n
<1>10. QED
  BY <1>8, <1>9

\* What becomes of a channel with the state s when x comes in: p is what its buffer was given
\* before, q what it is given with x, and r what the kernel returns.
Stacked(k, s, p, from, x, q, r) ==
  /\ r.state.hasFirst = TRUE /\ r.state.cb.capacity = BufferSize(k)
  /\ Len(q) - from >= BufferSize(k) =>
       /\ Holds(r.state.cb, q, from + k.channels * k.step)
       /\ r.output = SubSeq(q, from + 1, from + BufferSize(k))
  /\ ~(Len(q) - from >= BufferSize(k)) => Holds(r.state.cb, q, from) /\ r.output = Unwritten
  /\ r.valid <=> Len(q) - from >= BufferSize(k)

\* What the kernel finds when it is invoked.
Stackable(k, s, p, from, x, q, r) ==
  /\ k.channels \in Nat \ {0} /\ k.left \in Nat /\ k.right \in Nat
  /\ k.step \in Nat \ {0} /\ k.step <= k.left + k.right + 1
  /\ s.hasFirst \in BOOLEAN /\ s.cb.capacity = BufferSize(k)
  /\ Holds(s.cb, p, from)
  /\ x \in Seq(Number) /\ Len(x) = k.channels
  /\ s.hasFirst => k.channels <= CanWrite(s.cb)
  /\ ~s.hasFirst => k.channels * (k.left + 1) <= CanWrite(s.cb)
  /\ q = IF s.hasFirst THEN Joint(p, x) ELSE Joint(Joint(p, x), Times(x, k.left))
  /\ r = StackerChannel(k, s, x)

\* One invocation: the frame is written, the first one with its copies, and a frame with its
\* contexts is delivered when it is complete.
LEMMA StackerChannelHolds ==
  ASSUME NEW k, NEW s, NEW p, NEW from, NEW x, NEW q, NEW r, Stackable(k, s, p, from, x, q, r)
  PROVE  Stacked(k, s, p, from, x, q, r)
<1> DEFINE C == k.channels
           B == BufferSize(k)
           w == Write(s.cb, x)
           d == IF s.hasFirst THEN w ELSE Extend(w, C, k.left)
           gone == C * k.step
<1>0. /\ k.channels \in Nat \ {0} /\ k.left \in Nat /\ k.right \in Nat
      /\ k.step \in Nat \ {0} /\ k.step <= k.left + k.right + 1
      /\ s.hasFirst \in BOOLEAN /\ s.cb.capacity = BufferSize(k)
      /\ Holds(s.cb, p, from)
      /\ x \in Seq(Number) /\ Len(x) = k.channels
      /\ s.hasFirst => k.channels <= CanWrite(s.cb)
      /\ ~s.hasFirst => k.channels * (k.left + 1) <= CanWrite(s.cb)
      /\ q = IF s.hasFirst THEN Joint(p, x) ELSE Joint(Joint(p, x), Times(x, k.left))
      /\ r = StackerChannel(k, s, x)
  BY DEF Stackable
<1>1. Holds(d, q, from) /\ d.capacity = B
  <2>1. CASE s.hasFirst
    BY <1>0, <2>1, HoldsWrite
  <2>2. CASE ~s.hasFirst
    <3>1. Len(x) # 0 /\ Len(x) * (k.left + 1) <= CanWrite(s.cb)
      BY <1>0, <2>2
    <3>2. /\ Holds(Extend(w, Len(x), k.left), Joint(Joint(p, x), Times(x, k.left)), from)
          /\ Extend(w, Len(x), k.left).capacity = s.cb.capacity
      BY <1>0, <3>1, HoldsExtend
    <3>3. QED
      BY <1>0, <2>2, <3>2
  <2>3. QED
    BY <1>0, <2>1, <2>2
<1>2. q \in Seq(Number) /\ from \in 0..Len(q)
  BY <1>1 DEF Holds
<1>3. B \in Nat /\ gone \in 1..B
  <2> DEFINE m == k.left + k.right + 1
  <2>1. C \in Nat \ {0} /\ m \in Nat /\ k.step \in 1..m
    BY <1>0
  <2>2. B = C * m
    BY DEF BufferSize
  <2> HIDE DEF m
  <2>3. C * m \in Nat /\ C * k.step \in 1..(C * m)
    <3>1. m - k.step \in Nat
      BY <2>1
    <3>2. C * m = C * k.step + C * (m - k.step) /\ C * (m - k.step) \in Nat /\ C * k.step \in Nat \ {0}
      BY <2>1, <3>1
    <3>3. QED
      BY <3>2
  <2>4. QED
    BY <2>2, <2>3
<1>4. Available(d) = Len(q) - from
  BY <1>1, HoldsFacts
<1>5. r = IF Available(d) >= B
          THEN [state |-> [cb |-> Discard(d, gone), hasFirst |-> TRUE],
                output |-> Get(d, B), valid |-> TRUE]
          ELSE [state |-> [cb |-> d, hasFirst |-> TRUE], output |-> Unwritten, valid |-> FALSE]
  BY <1>0 DEF StackerChannel
<1> HIDE DEF d, gone, B
<1>6. CASE Len(q) - from >= B
  <2>1. B \in 0..(Len(q) - from) /\ gone \in 1..(Len(q) - from)
    BY <1>2, <1>3, <1>6
  <2>2. Get(d, B) = SubSeq(q, from + 1, from + B)
    BY <1>1, <2>1, HoldsGet
  <2>3. Holds(Discard(d, gone), q, from + gone) /\ Discard(d, gone).capacity = d.capacity
    BY <1>1, <2>1, HoldsDiscard
  <2>4. /\ r.state.hasFirst = TRUE /\ r.state.cb = Discard(d, gone) /\ r.output = Get(d, B)
        /\ r.valid = TRUE
    BY <1>4, <1>5, <1>6
  <2>5. QED
    BY <1>1, <1>6, <2>2, <2>3, <2>4 DEF gone, B, Stacked
<1>7. CASE ~(Len(q) - from >= B)
  <2>1. r.state.hasFirst = TRUE /\ r.state.cb = d /\ r.output = Unwritten /\ r.valid = FALSE
    BY <1>4, <1>5, <1>7
  <2>2. QED
    BY <1>1, <1>7, <2>1 DEF B, Stacked
<1>8. QED
  BY <1>6, <1>7

\* The stream with its first frame as often before it as the left context is long.
WithLeft(k, h) ==
  IF h = <<>> THEN <<>>
  ELSE Joint(Times(SubSeq(StreamOf(h, 1), 1, k.channels), k.left), StreamOf(h, 1))

\* So many invocations delivered a frame when the right context was complete: they keep up with
\* the input, and were not ahead of it.
KeepsUp(k, n, delivered) ==
  /\ delivered \in Nat
  /\ n - k.step * delivered <= k.right
  /\ delivered = 0 \/ n - k.step * delivered > k.right - k.step

StackerInv == kernel.kind = "stacker" =>
  /\ InputsAre(history, 1, kernel.channels)
  /\ DOMAIN state = 1..1
  /\ state[1].hasFirst = (history # <<>>)
  /\ state[1].cb.capacity = BufferSize(kernel)
  /\ history # <<>> =>
       Len(WithLeft(kernel, history)) = kernel.channels * (kernel.left + Len(history))
  /\ \E delivered \in Nat :
       /\ KeepsUp(kernel, Len(history), delivered)
       /\ Holds(state[1].cb, WithLeft(kernel, history), kernel.channels * (kernel.step * delivered))
  /\ StacksExact

\* What an invocation appends to the padded stream.
LEMMA WithLeftNext ==
  ASSUME NEW k, k.channels \in Nat \ {0}, k.left \in Nat, NEW h, InputsAre(h, 1, k.channels),
         NEW x \in Tensors(1, k.channels), NEW q,
         q = IF h # <<>> THEN Joint(WithLeft(k, h), x[1])
             ELSE Joint(Joint(WithLeft(k, h), x[1]), Times(x[1], k.left))
  PROVE  /\ WithLeft(k, Append(h, x)) = q
         /\ q \in Seq(Number) /\ Len(q) = k.channels * (k.left + Len(h) + 1)
<1> DEFINE C == k.channels
           L == k.left
           N == Len(h)
           g == Append(h, x)
           s == StreamOf(h, 1)
           y == x[1]
           t == Joint(s, y)
           first == SubSeq(s, 1, C)
<1>1. 1 \in 1..1 /\ C \in Nat
  OBVIOUS
<1>2. h \in Seq(Tensors(1, C)) /\ s \in Seq(Number) /\ Len(s) = C * N /\ N \in Nat
  BY <1>1 DEF InputsAre
<1>3. y \in Seq(Number) /\ Len(y) = C
  <2>1. y \in [1..C -> Number]
    BY <1>1 DEF Tensors
  <2>2. QED
    BY <1>1, <2>1
<1>4. StreamOf(g, 1) = t
  BY <1>1, InputsNext
<1>5. g # <<>>
  <2> DEFINE V == Tensors(1, C)
  <2>1. h \in Seq(V) /\ x \in V
    BY <1>2
  <2> HIDE DEF V
  <2>2. Len(g) = Len(h) + 1 /\ Len(h) \in Nat
    BY <2>1, Appended
  <2>3. QED
    BY <2>2
<1>6. WithLeft(k, g) = Joint(Times(SubSeq(t, 1, C), L), t)
  BY <1>4, <1>5 DEF WithLeft
<1> HIDE DEF g
<1>7. CASE h = <<>>
  <2>1. s = <<>> /\ N = 0 /\ WithLeft(k, h) = <<>>
    BY <1>7, StreamStart DEF WithLeft
  <2>2. t = y /\ Joint(<<>>, y) = y
    BY <1>3, <2>1, JointEmpty
  <2> HIDE DEF t, s, y
  <2>3. SubSeq(t, 1, C) = y
    BY <1>1, <1>3, <2>2
  <2>4. Joint(y, Times(y, L)) = Joint(Times(y, L), y)
    BY <1>3, TimesAround
  <2>5. q = Joint(y, Times(y, L))
    BY <1>7, <2>1, <2>2 DEF y
  <2>6. Times(y, L) \in Seq(Number) /\ Len(Times(y, L)) = C * L
    BY <1>3, TimesSeq
  <2>7. q \in Seq(Number) /\ Len(q) = C + C * L
    BY <1>3, <2>5, <2>6, JointLen
  <2>8. C + C * L = C * (L + N + 1)
    BY <1>1, <2>1
  <2>9. QED
    BY <1>6, <2>2, <2>3, <2>4, <2>5, <2>7, <2>8 DEF g
<1>8. CASE h # <<>>
  <2> DEFINE head == Times(first, L)
  <2>1. N >= 1 /\ C * N >= C
    <3>1. N # 0
      BY <1>2, <1>8
    <3>2. C * N = C + C * (N - 1) /\ C * (N - 1) \in Nat
      BY <1>1, <1>2, <3>1
    <3>3. QED
      BY <1>1, <1>2, <3>1, <3>2
  <2>2. first \in Seq(Number) /\ Len(first) = C
    BY <1>1, <1>2, <2>1
  <2>3. SubSeq(t, 1, C) = first
    <3>1. /\ t \in Seq(Number) /\ Len(t) = C * N + C
          /\ \A i \in 1..Len(s) : t[i] = s[i]
      <4>1. t \in Seq(Number) /\ Len(t) = C * N + C
        BY <1>2, <1>3, JointLen
      <4>2. \A i \in 1..Len(s) : t[i] = s[i]
        BY <1>2, <1>3, JointSeq
      <4>3. QED
        BY <4>1, <4>2
    <3> DEFINE a == SubSeq(t, 1, C)
    <3> HIDE DEF t, s
    <3>2. 1 \in 1..(Len(t) + 1) /\ C \in (1 - 1)..Len(t) /\ 1 \in 1..(Len(s) + 1) /\ C \in (1 - 1)..Len(s)
      BY <1>1, <1>2, <2>1, <3>1
    <3>3. a \in Seq(Number) /\ Len(a) = C /\ \A i \in 1..C : a[i] = t[i]
      <4>1. t \in Seq(Number)
        BY <3>1
      <4>2. QED
        BY <1>1, <4>1, <3>2
    <3>4. \A i \in 1..C : first[i] = s[i]
      BY <1>1, <1>2, <3>2
    <3>5. \A i \in 1..C : i \in 1..Len(s)
      BY <1>2, <2>1
    <3> HIDE DEF a, first
    <3>6. a = first
      BY <2>2, <3>1, <3>3, <3>4, <3>5, SameSeq
    <3>7. QED
      BY <3>6 DEF a
  <2>4. WithLeft(k, h) = Joint(head, s)
    BY <1>8 DEF WithLeft
  <2>5. head \in Seq(Number) /\ Len(head) = C * L
    BY <1>1, <2>2, TimesSeq
  <2> HIDE DEF head, first, s, y
  <2>6. Joint(Joint(head, s), y) = Joint(head, t)
    BY <1>2, <1>3, <2>5, JointThrice
  <2>7. q = Joint(Joint(head, s), y)
    BY <1>8, <2>4 DEF y
  <2>8. Joint(head, s) \in Seq(Number) /\ Len(Joint(head, s)) = C * L + C * N
    BY <1>2, <2>5, JointLen
  <2>9. q \in Seq(Number) /\ Len(q) = C * L + C * N + C
    <3> DEFINE j == Joint(head, s)
    <3>1. j \in Seq(Number) /\ q = Joint(j, y)
      BY <2>7, <2>8
    <3> HIDE DEF j
    <3>2. q \in Seq(Number) /\ Len(q) = Len(j) + Len(y)
      BY ZenonT(30), <1>3, <3>1, JointSeq
    <3>3. QED
      BY <1>3, <2>8, <3>2 DEF j
  <2>10. C * L + C * N + C = C * (L + N + 1)
    BY <1>1, <1>2
  <2>11. QED
    BY <1>6, <2>3, <2>6, <2>7, <2>9, <2>10 DEF g, head
<1>9. QED
  BY <1>7, <1>8

\* With N invocations before it and D deliveries, an invocation finds room for its frame, and
\* delivers if and only if the right context of the next delivery is complete.
Due(C, S, L, R, N, D) ==
  /\ C <= C * (L + R + 1) - (C * (L + N) - C * (S * D))
  /\ C * (L + N + 1) - C * (S * D) >= C * (L + R + 1) <=> N - S * D = R
  /\ N - S * D = R => /\ N - R >= 0 /\ (N - R) % S = 0 /\ (N - R) * C = C * (S * D)
                      /\ N + 1 - S * (D + 1) <= R /\ N + 1 - S * (D + 1) > R - S
                      /\ C * (S * D) + C * S = C * (S * (D + 1))
  /\ N - S * D # R => /\ N - R < 0 \/ (N - R) % S # 0
                      /\ N + 1 - S * D <= R /\ (D = 0 \/ N + 1 - S * D > R - S)

\* A state in which the kernel keeps up is the one in which the outputs of the definition are due.
LEMMA StackerDue ==
  ASSUME NEW C \in Nat \ {0}, NEW S \in Nat \ {0}, NEW L \in Nat, NEW R \in Nat, NEW N \in Nat, NEW D \in Nat,
         N - S * D <= R, D = 0 \/ N - S * D > R - S
  PROVE  Due(C, S, L, R, N, D)
<1> DEFINE e == S * D
           u == R - (N - e)
<1>1. e \in Nat /\ S * (D + 1) = e + S /\ S * (D - 1) = e - S /\ (D = 0 => e = 0)
  OBVIOUS
<1> HIDE DEF e
<1>2. u \in Nat /\ N = R - u + e
  BY <1>1
<1>3. D = 0 \/ u < S
  BY <1>1 DEF e
<1> HIDE DEF u
<1>4. C * u \in Nat /\ (C * u <= 0 <=> u = 0)
  BY <1>2
<1>5. C * (L + R + 1) - (C * (L + N) - C * e) = C + C * u
  <2>1. L + N = L + R + e - u
    BY <1>1, <1>2
  <2>2. C * (L + R + e - u) = C * (L + R) + C * e - C * u /\ C * (L + R + 1) = C * (L + R) + C
    BY <1>1, <1>2
  <2>3. C * e \in Nat /\ C * (L + R) \in Nat
    BY <1>1
  <2>4. QED
    BY <1>4, <2>1, <2>2, <2>3
<1>6. C * (L + N + 1) - C * e = C * (L + R + 1) - C * u
  <2>1. L + N + 1 = L + R + 1 + e - u
    BY <1>1, <1>2
  <2>2. C * (L + R + 1 + e - u) = C * (L + R + 1) + C * e - C * u
    BY <1>1, <1>2
  <2>3. C * e \in Nat /\ C * (L + R + 1) \in Nat
    BY <1>1
  <2>4. QED
    BY <1>4, <2>1, <2>2, <2>3
<1>7. N - e = R <=> u = 0
  BY <1>1, <1>2
<1>8. C * (L + N + 1) - C * e >= C * (L + R + 1) <=> N - e = R
  <2>1. C * (L + R + 1) \in Nat
    OBVIOUS
  <2>2. QED
    BY <1>4, <1>6, <1>7, <2>1
<1>9. ASSUME N - e = R
      PROVE  /\ N - R >= 0 /\ (N - R) % S = 0 /\ (N - R) * C = C * e
             /\ N + 1 - S * (D + 1) <= R /\ N + 1 - S * (D + 1) > R - S
             /\ C * e + C * S = C * (S * (D + 1))
  <2>1. N - R = e
    BY <1>1, <1>9
  <2>2. e % S = 0
    <3> DEFINE z == 0
    <3>1. z \in 0..(S - 1) /\ D \in Int
      OBVIOUS
    <3> HIDE DEF z
    <3>2. (S * D + z) % S = z
      BY <3>1, Remainder
    <3>3. S * D + z = e
      BY <1>1 DEF z, e
    <3>4. QED
      BY <3>2, <3>3 DEF z
  <2>3. N + 1 - S * (D + 1) = R + 1 - S
    BY <1>1, <2>1
  <2>4. C * (S * (D + 1)) = C * e + C * S
    BY <1>1
  <2>5. QED
    BY <1>1, <2>1, <2>2, <2>3, <2>4
<1>10. ASSUME N - e # R
       PROVE  /\ N - R < 0 \/ (N - R) % S # 0
              /\ N + 1 - e <= R /\ (D = 0 \/ N + 1 - e > R - S)
  <2>1. u >= 1
    BY <1>2, <1>7, <1>10
  <2>2. N + 1 - e <= R
    BY <1>1, <1>2, <2>1
  <2>3. D # 0 => N + 1 - e > R - S
    BY <1>1, <1>2, <1>3
  <2>4. CASE D = 0
    BY <1>1, <1>2, <2>1, <2>2, <2>4
  <2>5. CASE D # 0
    <3> DEFINE r == S - u
               m == D - 1
               b == N - R
    <3>1. r \in 0..(S - 1) /\ r # 0 /\ m \in Int
      BY <1>2, <1>3, <2>1, <2>5
    <3>2. S * m + r = b
      BY <1>1, <1>2
    <3> HIDE DEF r, m, b
    <3>3. (S * m + r) % S = r
      BY <3>1, Remainder
    <3>4. b % S # 0
      BY <3>1, <3>2, <3>3
    <3>5. QED
      BY <2>2, <2>3, <3>4 DEF b
  <2>6. QED
    BY <2>4, <2>5
<1>11. C <= C + C * u
  BY <1>4
<1>12. QED
  BY <1>5, <1>8, <1>9, <1>10, <1>11 DEF e, Due

\* What the invariant says of the kernel at hand.
LEMMA StackerFacts ==
  ASSUME kernel \in Kernels, kernel.kind = "stacker", StackerInv
  PROVE  /\ kernel.channels \in Nat \ {0} /\ kernel.step \in Nat \ {0}
         /\ kernel.left \in Nat /\ kernel.right \in Nat
         /\ kernel.step <= kernel.left + kernel.right + 1
         /\ InputsAre(history, 1, kernel.channels) /\ Len(history) \in Nat
         /\ DOMAIN state = 1..1 /\ state[1].hasFirst = (history # <<>>)
         /\ state[1].cb.capacity = BufferSize(kernel)
         /\ BufferSize(kernel) = kernel.channels * (kernel.left + kernel.right + 1)
<1>1. InputsAre(history, 1, kernel.channels)
  BY DEF StackerInv
<1>2. Len(history) \in Nat
  BY <1>1 DEF InputsAre
<1>3. Accepted(kernel)
  BY KernelAccepted
<1>4. QED
  BY <1>1, <1>2, <1>3 DEF StackerInv, Accepted, StackerAccepted, Positive, BufferSize

\* The buffer has room for the next frame, and for its copies when it is the first.
LEMMA StackerRoom ==
  ASSUME kernel \in Kernels, kernel.kind = "stacker", StackerInv
  PROVE  /\ state[1].hasFirst => kernel.channels <= CanWrite(state[1].cb)
         /\ ~state[1].hasFirst => kernel.channels * (kernel.left + 1) <= CanWrite(state[1].cb)
<1> DEFINE C == kernel.channels
           S == kernel.step
           L == kernel.left
           R == kernel.right
           N == Len(history)
           p == WithLeft(kernel, history)
           c == state[1].cb
<1>1. /\ C \in Nat \ {0} /\ S \in Nat \ {0} /\ L \in Nat /\ R \in Nat /\ N \in Nat
      /\ state[1].hasFirst = (history # <<>>) /\ c.capacity = C * (L + R + 1)
  BY StackerFacts
<1>2. PICK D \in Nat : KeepsUp(kernel, N, D) /\ Holds(c, p, C * (S * D))
  BY DEF StackerInv
<1>3. N - S * D <= R /\ (D = 0 \/ N - S * D > R - S)
  BY <1>2 DEF KeepsUp
<1>4. CanWrite(c) = c.capacity - (Len(p) - C * (S * D))
  BY <1>2, HoldsFacts
<1>5. CASE history # <<>>
  <2>1. Len(p) = C * (L + N)
    BY <1>5 DEF StackerInv
  <2> HIDE DEF C, S, L, R, N, p, c
  <2>2. C <= C * (L + R + 1) - (C * (L + N) - C * (S * D))
    <3>1. Due(C, S, L, R, N, D)
      BY <1>1, <1>3, StackerDue
    <3>2. QED
      BY <3>1 DEF Due
  <2>3. C <= CanWrite(c)
    BY <1>1, <1>4, <2>1, <2>2, Zenon
  <2>4. QED
    BY <1>1, <1>5, <2>3 DEF C, c
<1>6. CASE history = <<>>
  <2>1. p = <<>> /\ C * (S * D) \in 0..Len(p)
    BY <1>2, <1>6 DEF WithLeft, Holds
  <2>2. C * (S * D) = 0 /\ Len(p) = 0
    BY <2>1
  <2> HIDE DEF C, S, L, R, N, p, c
  <2>3. CanWrite(c) = C * (L + R + 1)
    <3>1. C * (L + R + 1) \in Int
      BY <1>1
    <3>2. QED
      BY <1>1, <1>4, <2>2, <3>1
  <2>4. C * (L + R + 1) = C * (L + 1) + C * R /\ C * R \in Nat /\ C * (L + 1) \in Nat
    BY <1>1
  <2>5. C * (L + 1) <= CanWrite(c)
    BY <2>3, <2>4
  <2>6. QED
    BY <1>1, <1>6, <2>5 DEF C, c, L
<1>7. QED
  BY <1>5, <1>6

\* An invocation of STACKER.
LEMMA StackerEvalStep ==
  ASSUME kernel \in Kernels, calls \in Nat, StackerInv, StackerEval
  PROVE  StackerInv'
<1> DEFINE C == kernel.channels
           S == kernel.step
           L == kernel.left
           R == kernel.right
           N == Len(history)
           B == BufferSize(kernel)
           input == Fresh(1, C)
           g == Append(history, input)
           p == WithLeft(kernel, history)
           q == WithLeft(kernel, g)
           s == state[1]
           x == input[1]
           r == StackerChannel(kernel, s, x)
<1>1. kernel.kind = "stacker"
  BY DEF StackerEval
<1>2. /\ C \in Nat \ {0} /\ S \in Nat \ {0} /\ L \in Nat /\ R \in Nat /\ S <= L + R + 1
      /\ N \in Nat /\ B = C * (L + R + 1)
      /\ s.hasFirst = (history # <<>>) /\ s.cb.capacity = B /\ InputsAre(history, 1, C)
  BY <1>1, StackerFacts
<1>3. input \in Tensors(1, C) /\ DOMAIN input = 1..1
  <2>1. 1 \in Nat
    OBVIOUS
  <2>2. QED
    BY <1>2, <2>1, FreshInput DEF Tensors
<1>4. /\ history' = g /\ kernel' = kernel /\ DOMAIN state' = 1..1
      /\ state'[1] = r.state /\ output'[1] = r.output /\ (valid' <=> r.valid)
  BY <1>3 DEF StackerEval, Invoked, ByChannel, AllValid
<1>5. x \in Seq(Number) /\ Len(x) = C
  <2>1. x \in [1..C -> Number]
    BY <1>3 DEF Tensors
  <2>2. QED
    BY <1>2, <2>1
<1>6. /\ s.hasFirst => C <= CanWrite(s.cb)
      /\ ~s.hasFirst => C * (L + 1) <= CanWrite(s.cb)
  BY <1>1, StackerRoom
<1>7. PICK D \in Nat : KeepsUp(kernel, N, D) /\ Holds(s.cb, p, C * (S * D))
  BY <1>1 DEF StackerInv
<1>8. N - S * D <= R /\ (D = 0 \/ N - S * D > R - S)
  BY <1>7 DEF KeepsUp
<1>9. InputsAre(g, 1, C) /\ Len(g) = N + 1 /\ g # <<>>
  <2> DEFINE one == 1
  <2>1. one \in Nat /\ C \in Nat /\ InputsAre(history, one, C) /\ input \in Tensors(one, C)
    BY <1>2, <1>3
  <2> HIDE DEF one, C, input
  <2>2. InputsAre(g, one, C) /\ Len(g) = N + 1
    BY <2>1, InputsNext
  <2>3. QED
    BY <1>2, <2>2 DEF one
<1>10. q = IF s.hasFirst THEN Joint(p, x) ELSE Joint(Joint(p, x), Times(x, L))
  <2> DEFINE y == IF history # <<>> THEN Joint(p, x) ELSE Joint(Joint(p, x), Times(x, L))
  <2>1. y = IF history # <<>> THEN Joint(WithLeft(kernel, history), input[1])
            ELSE Joint(Joint(WithLeft(kernel, history), input[1]), Times(input[1], kernel.left))
    OBVIOUS
  <2> HIDE DEF y, input
  <2>2. WithLeft(kernel, Append(history, input)) = y
    BY <1>2, <1>3, <2>1, WithLeftNext
  <2>3. QED
    BY <1>2, <2>2 DEF y
<1>11. q \in Seq(Number) /\ Len(q) = C * (L + N + 1)
  <2> DEFINE y == IF history # <<>> THEN Joint(p, x) ELSE Joint(Joint(p, x), Times(x, L))
  <2>1. y = IF history # <<>> THEN Joint(WithLeft(kernel, history), input[1])
            ELSE Joint(Joint(WithLeft(kernel, history), input[1]), Times(input[1], kernel.left))
    OBVIOUS
  <2>2. q = y
    BY <1>2, <1>10
  <2> HIDE DEF y, input, q
  <2>3. y \in Seq(Number) /\ Len(y) = kernel.channels * (kernel.left + Len(history) + 1)
    BY <1>2, <1>3, <2>1, WithLeftNext
  <2>4. QED
    BY <2>2, <2>3
<1> HIDE DEF q, g, x, input, p, s
<1>12. /\ r.state.hasFirst = TRUE /\ r.state.cb.capacity = B
       /\ Len(q) - C * (S * D) >= B =>
            /\ Holds(r.state.cb, q, C * (S * D) + C * S)
            /\ r.output = SubSeq(q, C * (S * D) + 1, C * (S * D) + B)
       /\ ~(Len(q) - C * (S * D) >= B) => Holds(r.state.cb, q, C * (S * D)) /\ r.output = Unwritten
       /\ r.valid <=> Len(q) - C * (S * D) >= B
  <2> DEFINE from == C * (S * D)
  <2>1. Holds(s.cb, p, from) /\ s.hasFirst \in BOOLEAN
    BY <1>2, <1>7
  <2> HIDE DEF from, r
  <2>2. r = StackerChannel(kernel, s, x)
    BY DEF r
  <2>3. /\ r.state.hasFirst = TRUE /\ r.state.cb.capacity = B
        /\ Len(q) - from >= B => /\ Holds(r.state.cb, q, from + C * S)
                                 /\ r.output = SubSeq(q, from + 1, from + B)
        /\ ~(Len(q) - from >= B) => Holds(r.state.cb, q, from) /\ r.output = Unwritten
        /\ r.valid <=> Len(q) - from >= B
    <3>1. Stacked(kernel, s, p, from, x, q, r)
      <4>1. Stackable(kernel, s, p, from, x, q, r)
        BY <1>2, <1>5, <1>6, <1>10, <2>1, <2>2 DEF Stackable
      <4>2. QED
        BY <4>1, StackerChannelHolds
    <3>2. QED
      BY <3>1 DEF Stacked
  <2>4. QED
    BY <2>3 DEF from
<1> HIDE DEF r, C, S, L, R, N, B
<1>13. /\ Len(q) - C * (S * D) >= B <=> N - S * D = R
       /\ N - S * D = R => /\ N - R >= 0 /\ (N - R) % S = 0 /\ (N - R) * C = C * (S * D)
                           /\ N + 1 - S * (D + 1) <= R /\ N + 1 - S * (D + 1) > R - S
                           /\ C * (S * D) + C * S = C * (S * (D + 1))
       /\ N - S * D # R => /\ N - R < 0 \/ (N - R) % S # 0
                           /\ N + 1 - S * D <= R /\ (D = 0 \/ N + 1 - S * D > R - S)
  <2>1. /\ C * (L + N + 1) - C * (S * D) >= C * (L + R + 1) <=> N - S * D = R
        /\ N - S * D = R => /\ N - R >= 0 /\ (N - R) % S = 0 /\ (N - R) * C = C * (S * D)
                            /\ N + 1 - S * (D + 1) <= R /\ N + 1 - S * (D + 1) > R - S
                            /\ C * (S * D) + C * S = C * (S * (D + 1))
        /\ N - S * D # R => /\ N - R < 0 \/ (N - R) % S # 0
                            /\ N + 1 - S * D <= R /\ (D = 0 \/ N + 1 - S * D > R - S)
    <3>1. Due(C, S, L, R, N, D)
      BY <1>2, <1>8, StackerDue
    <3>2. QED
      BY <3>1, Zenon DEF Due
  <2>2. QED
    BY <1>2, <1>11, <2>1, Zenon
<1>14. \E E \in Nat : /\ N + 1 - S * E <= R /\ (E = 0 \/ N + 1 - S * E > R - S)
                      /\ Holds(r.state.cb, q, C * (S * E))
  <2>1. CASE N - S * D = R
    <3> DEFINE E == D + 1
    <3>1. /\ N + 1 - S * E <= R /\ N + 1 - S * E > R - S /\ Holds(r.state.cb, q, C * (S * E)) /\ E \in Nat
      BY <1>12, <1>13, <2>1
    <3> HIDE DEF E
    <3>2. QED
      BY <3>1
  <2>2. CASE N - S * D # R
    BY <1>12, <1>13, <2>2
  <2>3. QED
    BY <2>1, <2>2
<1>15. /\ r.output = IF N - R >= 0 /\ (N - R) % S = 0
                     THEN SubSeq(q, (N - R) * C + 1, (N - R) * C + B) ELSE Unwritten
       /\ r.valid <=> N - R >= 0 /\ (N - R) % S = 0
  <2>1. CASE N - S * D = R
    <3>1. N - R >= 0 /\ (N - R) % S = 0 /\ (N - R) * C = C * (S * D)
      BY <1>2, <1>13, <2>1
    <3>2. r.output = SubSeq(q, C * (S * D) + 1, C * (S * D) + B) /\ r.valid
      BY <1>12, <1>13, <2>1
    <3>3. QED
      BY <3>1, <3>2, Zenon
  <2>2. CASE N - S * D # R
    <3>1. ~(N - R >= 0 /\ (N - R) % S = 0)
      <4>1. N - R \in Int
        BY <1>2
      <4>2. N - R < 0 \/ (N - R) % S # 0
        BY <1>13, <2>2
      <4>3. QED
        BY <4>1, <4>2
    <3>2. r.output = Unwritten /\ ~r.valid
      BY <1>12, <1>13, <2>2, Zenon
    <3>3. QED
      BY <3>1, <3>2, Zenon
  <2>3. QED
    BY <2>1, <2>2
<1>16. FlattenSeq([c \in 1..L |-> SubSeq(StreamOf(g, 1), 1, C)]) \o StreamOf(g, 1) = q
  <2> DEFINE t == StreamOf(g, 1)
             first == SubSeq(t, 1, C)
  <2>1. t \in Seq(Number) /\ Len(t) = C * (N + 1)
    <3>1. 1 \in 1..1
      OBVIOUS
    <3>2. QED
      BY <1>9, <3>1 DEF InputsAre
  <2>2. C * (N + 1) = C + C * N /\ C * N \in Nat
    BY <1>2
  <2> HIDE DEF t
  <2>3. first \in Seq(Number) /\ Len(first) = C
    <3>1. 1 \in 1..(Len(t) + 1) /\ C \in (1 - 1)..Len(t)
      BY <1>2, <2>1, <2>2
    <3>2. QED
      BY <1>2, <2>1, <3>1
  <2> HIDE DEF first
  <2>4. Len(first) # 0
    BY <1>2, <2>3
  <2>5. FlattenSeq([c \in 1..L |-> first]) = Times(first, L)
    BY <1>2, <2>3, <2>4, FlattenCopies
  <2>6. q = Joint(Times(first, L), t)
    BY <1>9 DEF q, WithLeft, first, t, L, C
  <2>7. QED
    BY <2>5, <2>6 DEF Joint, first, t
<1>17. StacksExact'
  <2>1. Len(g) - R - 1 = N - R
    BY <1>2, <1>9
  <2> DEFINE b == N - R
             from == b * C
             whole == FlattenSeq([c \in 1..L |-> SubSeq(StreamOf(g, 1), 1, C)]) \o StreamOf(g, 1)
  <2>2. /\ output'[1] = IF b >= 0 /\ b % S = 0 THEN SubSeq(whole, from + 1, from + B) ELSE Unwritten
        /\ valid' <=> b >= 0 /\ b % S = 0
    BY <1>4, <1>15, <1>16
  <2>3. Len(g) - R - 1 = b
    BY <2>1
  <2> HIDE DEF b
  <2>4. kernel' = kernel /\ history' = g
    BY <1>4
  <2>5. StacksExact' = (kernel.kind = "stacker" /\ g # <<>> =>
          /\ output'[1] = IF Len(g) - R - 1 >= 0 /\ (Len(g) - R - 1) % S = 0
                          THEN SubSeq(whole, (Len(g) - R - 1) * C + 1, (Len(g) - R - 1) * C + B)
                          ELSE Unwritten
          /\ valid' <=> Len(g) - R - 1 >= 0 /\ (Len(g) - R - 1) % S = 0)
    BY <2>4 DEF StacksExact, Stream, StreamOf, Invocations, L, C, R, S, B, BufferSize
  <2>6. QED
    BY <2>2, <2>3, <2>5
<1>18. KeepsUp(kernel, N + 1, D) \in BOOLEAN
  BY DEF KeepsUp
<1>19. \E delivered \in Nat : /\ KeepsUp(kernel, Len(g), delivered)
                              /\ Holds(r.state.cb, q, kernel.channels * (kernel.step * delivered))
  <2>1. PICK E \in Nat : /\ N + 1 - S * E <= R /\ (E = 0 \/ N + 1 - S * E > R - S)
                         /\ Holds(r.state.cb, q, C * (S * E))
    BY <1>14
  <2>2. KeepsUp(kernel, Len(g), E)
    <3>1. Len(g) = N + 1
      BY <1>9
    <3>2. KeepsUp(kernel, N + 1, E)
      BY <1>2, <2>1 DEF KeepsUp, S, R
    <3>3. QED
      BY <3>1, <3>2, Zenon
  <2>3. Holds(r.state.cb, q, kernel.channels * (kernel.step * E))
    BY <2>1 DEF C, S
  <2>4. QED
    BY <2>2, <2>3
<1>20. Len(q) = kernel.channels * (kernel.left + Len(g))
  <2>1. L + N + 1 = L + Len(g)
    BY <1>2, <1>9
  <2>2. QED
    BY <1>11, <2>1 DEF C, L
<1>21. state'[1] = r.state /\ state'[1].hasFirst = TRUE /\ state'[1].cb = r.state.cb
  BY <1>4, <1>12
<1>22. QED
  <2>1. InputsAre(history', 1, kernel'.channels)
    BY <1>4, <1>9 DEF C
  <2>2. state'[1].hasFirst = (history' # <<>>) /\ state'[1].cb.capacity = BufferSize(kernel')
    BY <1>4, <1>9, <1>12, <1>21 DEF B
  <2>3. \E delivered \in Nat : /\ KeepsUp(kernel', Len(history'), delivered)
                               /\ Holds(state'[1].cb, WithLeft(kernel', history'),
                                        kernel'.channels * (kernel'.step * delivered))
    BY <1>4, <1>19, <1>21 DEF q
  <2>4. Len(WithLeft(kernel', history')) = kernel'.channels * (kernel'.left + Len(history'))
    BY <1>4, <1>20 DEF q
  <2>5. QED
    BY <1>4, <1>17, <2>1, <2>2, <2>3, <2>4, Zenon DEF StackerInv

\* Before the first invocation after Init or a reset.
LEMMA StackerStart ==
  ASSUME NEW k, k.kind = "stacker", Accepted(k), NEW st, DOMAIN st = 1..1,
         st[1] = [cb |-> CircularBufferInit(BufferSize(k)), hasFirst |-> FALSE]
  PROVE  /\ InputsAre(<<>>, 1, k.channels)
         /\ st[1].hasFirst = FALSE /\ st[1].cb.capacity = BufferSize(k)
         /\ \E delivered \in Nat : /\ KeepsUp(k, Len(<<>>), delivered)
                                   /\ Holds(st[1].cb, WithLeft(k, <<>>), k.channels * (k.step * delivered))
<1>1. /\ k.channels \in Nat \ {0} /\ k.step \in Nat \ {0} /\ k.left \in Nat /\ k.right \in Nat
      /\ BufferSize(k) = k.channels * (k.left + k.right + 1)
  BY DEF Accepted, StackerAccepted, Positive, BufferSize
<1>2. BufferSize(k) \in Nat \ {0}
  <2> DEFINE m == k.left + k.right + 1
  <2>1. m \in Nat \ {0}
    BY <1>1
  <2> HIDE DEF m
  <2>2. k.channels * m \in Nat \ {0}
    BY <1>1, <2>1
  <2>3. QED
    BY <1>1, <2>2 DEF m
<1>3. InputsAre(<<>>, 1, k.channels)
  <2> DEFINE h == <<>>
             one == 1
  <2>1. h = <<>> /\ one \in Nat /\ k.channels \in Nat
    BY <1>1
  <2> HIDE DEF h, one
  <2>2. InputsAre(h, one, k.channels)
    BY <2>1, InputsStart
  <2>3. QED
    BY <2>2 DEF h, one
<1>4. Holds(st[1].cb, <<>>, 0) /\ st[1].cb.capacity = BufferSize(k) /\ st[1].hasFirst = FALSE
  <2> DEFINE none == <<>>
             b == BufferSize(k)
  <2>1. none \in Seq(Number) /\ Len(none) = 0
    OBVIOUS
  <2>2. st[1].cb = CircularBufferInit(b) /\ st[1].hasFirst = FALSE
    OBVIOUS
  <2>3. b \in Nat \ {0}
    BY <1>2
  <2> HIDE DEF none, b
  <2>4. Holds(CircularBufferInit(b), none, Len(none)) /\ CircularBufferInit(b).capacity = b
    BY <2>1, <2>3, HoldsInit
  <2>5. QED
    BY <2>1, <2>2, <2>4 DEF none, b
<1>5. WithLeft(k, <<>>) = <<>> /\ k.channels * (k.step * 0) = 0
  BY <1>1 DEF WithLeft
<1>6. KeepsUp(k, Len(<<>>), 0)
  BY <1>1 DEF KeepsUp
<1>7. QED
  <2>1. 0 \in Nat
    OBVIOUS
  <2>2. Holds(st[1].cb, WithLeft(k, <<>>), k.channels * (k.step * 0))
    BY <1>4, <1>5
  <2>3. QED
    BY <1>3, <1>4, <1>6, <2>1, <2>2

\* STACKER after Prepare.
LEMMA StackerInit ==
  ASSUME Init
  PROVE  StackerInv
<1>1. SUFFICES ASSUME kernel.kind = "stacker" PROVE StackerInv
  BY DEF StackerInv
<1>2. kernel \in Kernels /\ Accepted(kernel) /\ history = <<>>
  BY KernelAccepted DEF Init
<1>3. state = [i \in 1..1 |-> [cb |-> CircularBufferInit(BufferSize(kernel)), hasFirst |-> FALSE]]
  BY <1>1 DEF Init, Prepared
<1>4. /\ DOMAIN state = 1..1
      /\ state[1] = [cb |-> CircularBufferInit(BufferSize(kernel)), hasFirst |-> FALSE]
  BY <1>3
<1>5. /\ InputsAre(<<>>, 1, kernel.channels)
      /\ state[1].hasFirst = FALSE /\ state[1].cb.capacity = BufferSize(kernel)
      /\ \E delivered \in Nat :
           /\ KeepsUp(kernel, Len(<<>>), delivered)
           /\ Holds(state[1].cb, WithLeft(kernel, <<>>), kernel.channels * (kernel.step * delivered))
  BY <1>1, <1>2, <1>4, StackerStart
<1>6. StacksExact
  BY <1>2 DEF StacksExact
<1>7. QED
  BY <1>2, <1>4, <1>5, <1>6 DEF StackerInv

\* A reset of STACKER.
LEMMA StackerResetStep ==
  ASSUME kernel \in Kernels, StackerInv, StackerReset
  PROVE  StackerInv'
<1>1. kernel.kind = "stacker" /\ Accepted(kernel) /\ kernel' = kernel /\ history' = <<>>
  BY KernelAccepted DEF StackerReset, Restarted
<1>2. DOMAIN state = 1..1 /\ state[1].cb.capacity = BufferSize(kernel)
  BY <1>1 DEF StackerInv
<1> DEFINE st == state'
<1>3. /\ DOMAIN st = 1..1
      /\ st[1] = [cb |-> CircularBufferInit(BufferSize(kernel)), hasFirst |-> FALSE]
  <2>1. 1 \in DOMAIN state /\ st = [i \in DOMAIN state |-> StackerResetState(kernel, state[i])]
    BY <1>2 DEF StackerReset, Restarted
  <2>2. st[1] = StackerResetState(kernel, state[1])
    BY <2>1
  <2>3. QED
    BY <1>2, <2>1, <2>2 DEF StackerResetState, CircularBufferReset
<1> HIDE DEF st
<1>4. /\ InputsAre(<<>>, 1, kernel.channels)
      /\ st[1].hasFirst = FALSE /\ st[1].cb.capacity = BufferSize(kernel)
      /\ \E delivered \in Nat :
           /\ KeepsUp(kernel, Len(<<>>), delivered)
           /\ Holds(st[1].cb, WithLeft(kernel, <<>>), kernel.channels * (kernel.step * delivered))
  BY <1>1, <1>3, StackerStart
<1>5. StacksExact'
  BY <1>1 DEF StacksExact
<1>6. QED
  BY <1>1, <1>3, <1>4, <1>5 DEF StackerInv, st

-----------------------------------------------------------------------------
(***************************************************************************)
(* Part 8: SVDF.                                                           *)
(***************************************************************************)

\* An element of rows of c elements is in one row, at one place.
LEMMA RowAndPlace ==
  ASSUME NEW c \in Nat \ {0}, NEW q \in Nat, NEW r \in 0..(c - 1)
  PROVE  RowOf(c * q + r, c) = q /\ PlaceOf(c * q + r, c) = r
<1>1. q \in Int
  OBVIOUS
<1>2. (c * q + r) % c = r /\ (c * q + r) \div c = q
  BY <1>1, Remainder
<1>3. QED
  BY <1>2 DEF RowOf, PlaceOf

\* The rows of n rows of c elements.
LEMMA RowInRange ==
  ASSUME NEW c \in Nat \ {0}, NEW n \in Nat, NEW e \in 0..(n * c - 1)
  PROVE  /\ RowOf(e, c) \in 0..(n - 1) /\ PlaceOf(e, c) \in 0..(c - 1)
         /\ e = c * RowOf(e, c) + PlaceOf(e, c)
<1> DEFINE row == RowOf(e, c)
           place == PlaceOf(e, c)
<1>1. e = c * row + place /\ place \in 0..(c - 1) /\ row \in Int
  <2>1. e \in Int
    OBVIOUS
  <2>2. QED
    BY <2>1, Division DEF RowOf, PlaceOf
<1> HIDE DEF row, place
<1>2. e >= 0 /\ e < n * c
  BY <1>1
<1>3. row >= 0
  <2>1. CASE row <= -1
    <3>1. c * row <= -c
      <4>1. c * (-1 - row) >= 0 /\ c * (-1 - row) = -c - c * row
        BY <1>1, <2>1
      <4>2. QED
        BY <1>1, <4>1
    <3>2. QED
      BY <1>1, <1>2, <3>1
  <2>2. QED
    BY <1>1, <2>1
<1>4. row <= n - 1
  <2>1. CASE row >= n
    <3>1. c * (row - n) >= 0 /\ c * (row - n) = c * row - n * c
      BY <1>1, <2>1
    <3>2. QED
      BY <1>1, <1>2, <3>1
  <2>2. QED
    BY <1>1, <2>1
<1>5. QED
  BY <1>1, <1>3, <1>4 DEF row, place

\* What lies at a place of a row of the state after the invocations h: a feature of that row's
\* filter, the latest at the end of the row.
SvdfCell(k, h, row, place) ==
  LET t == Len(h) - k.memory + place + 1 IN
  IF t < 1 THEN Cleared ELSE Feature(h[t][RowOf(row, Filters(k)) + 1], PlaceOf(row, Filters(k)) + 1)

SvdfHeld(k, h) ==
  [i \in 1..(SvdfRows(k) * k.memory) |-> SvdfCell(k, h, RowOf(i - 1, k.memory), PlaceOf(i - 1, k.memory))]

\* The shift of the whole tensor moves every row by one place, and what it brings in from the
\* next row is overwritten.
LEMMA SvdfStateNext ==
  ASSUME NEW k, k.batch \in Nat \ {0}, k.rank \in Nat \ {0}, k.units \in Nat \ {0},
         k.memory \in Nat \ {0},
         NEW X, NEW h \in Seq(X), NEW x \in X
  PROVE  SvdfInvoked(k, SvdfHeld(k, h), x).state = SvdfHeld(k, Append(h, x))
<1> DEFINE M == k.memory
           F == Filters(k)
           R == SvdfRows(k)
           N == Len(h)
           g == Append(h, x)
           st == SvdfHeld(k, h)
           Product(row) == Feature(x[RowOf(row, F) + 1], PlaceOf(row, F) + 1)
           size == R * M
           new == [i \in 1..size |->
                    IF PlaceOf(i - 1, M) = M - 1 THEN Product(RowOf(i - 1, M))
                    ELSE IF i < size THEN st[i + 1] ELSE st[i]]
<1>1. M \in Nat \ {0} /\ F \in Nat \ {0} /\ R \in Nat \ {0} /\ N \in Nat
  BY DEF Filters, SvdfRows
<1>2. size \in Nat
  BY <1>1
<1>3. Len(g) = N + 1 /\ g[N + 1] = x /\ \A t \in 1..N : g[t] = h[t]
  BY Appended
<1>4. DOMAIN st = 1..size /\ Len(st) = size
  <2>1. st = [i \in 1..size |-> SvdfCell(k, h, RowOf(i - 1, M), PlaceOf(i - 1, M))]
    BY DEF SvdfHeld
  <2> DEFINE V == {st[i] : i \in 1..size}
  <2> HIDE DEF st
  <2>2. st \in [1..size -> V]
    BY <2>1
  <2> HIDE DEF V, size
  <2>3. QED
    BY <1>2, <2>2
<1>5. SvdfInvoked(k, st, x).state = new
  <2> HIDE DEF st, size
  <2>1. SvdfInvoked(k, st, x).state =
          [i \in DOMAIN st |->
            IF PlaceOf(i - 1, M) = M - 1 THEN Product(RowOf(i - 1, M))
            ELSE [j \in DOMAIN st |-> IF j < Len(st) THEN st[j + 1] ELSE st[j]][i]]
    BY DEF SvdfInvoked, SvdfShift
  <2>2. QED
    BY <1>4, <2>1
<1>6. ASSUME NEW i \in 1..size
      PROVE  new[i] = SvdfCell(k, g, RowOf(i - 1, M), PlaceOf(i - 1, M))
  <2> DEFINE e == i - 1
             row == RowOf(e, M)
             place == PlaceOf(e, M)
             t == N + 1 - M + place + 1
  <2>1. row \in 0..(R - 1) /\ place \in 0..(M - 1) /\ e = M * row + place
    <3>1. e \in 0..(R * M - 1) /\ R \in Nat
      BY <1>1
    <3> HIDE DEF e, M, R
    <3>2. QED
      BY <1>1, <3>1, RowInRange
  <2>2. new[i] = IF place = M - 1 THEN Product(row) ELSE IF i < size THEN st[i + 1] ELSE st[i]
    OBVIOUS
  <2>3. i = e + 1 /\ e \in Int
    OBVIOUS
  <2>4. SvdfCell(k, g, RowOf(i - 1, M), PlaceOf(i - 1, M)) = SvdfCell(k, g, row, place)
    OBVIOUS
  <2>5. ASSUME NEW a \in 0..(M - 1), i + 1 \in 1..size, e + 1 = M * row + a
        PROVE  st[i + 1] = SvdfCell(k, h, row, a)
    <3>1. RowOf(e + 1, M) = row /\ PlaceOf(e + 1, M) = a
      <4> HIDE DEF M, row, e
      <4>1. row \in Nat
        BY <2>1
      <4>2. RowOf(M * row + a, M) = row /\ PlaceOf(M * row + a, M) = a
        BY <1>1, <4>1, RowAndPlace
      <4>3. QED
        BY <2>5, <4>2
    <3>2. (i + 1) - 1 = e + 1
      OBVIOUS
    <3>3. st[i + 1] = SvdfCell(k, h, RowOf((i + 1) - 1, M), PlaceOf((i + 1) - 1, M))
      BY <2>5 DEF SvdfHeld
    <3>4. QED
      BY <3>1, <3>2, <3>3
  <2> HIDE DEF new, row, place, e, st, g
  <2>6. SvdfCell(k, g, row, place) =
          IF t < 1 THEN Cleared ELSE Feature(g[t][RowOf(row, F) + 1], PlaceOf(row, F) + 1)
    <3>1. Len(g) - M + place + 1 = t
      <4> HIDE DEF M, N
      <4>1. QED
        BY <1>1, <1>3, <2>1
    <3> HIDE DEF t
    <3>2. QED
      BY <3>1 DEF SvdfCell
  <2>7. CASE place = M - 1
    <3>1. t = N + 1 /\ ~(t < 1)
      <4> HIDE DEF M, N
      <4>1. QED
        BY <1>1, <2>7
    <3> HIDE DEF t
    <3>2. QED
      BY <1>3, <2>2, <2>4, <2>6, <2>7, <3>1
  <2>8. CASE place # M - 1
    <3> DEFINE after == place + 1
    <3>1. after \in 0..(M - 1) /\ row \in Nat /\ e + 1 = M * row + after /\ M * row \in Nat
      <4> HIDE DEF M, R
      <4>1. QED
        BY <1>1, <2>1, <2>3, <2>8
    <3>2. i < size
      <4> HIDE DEF M, R
      <4>1. M * (R - 1 - row) \in Nat /\ M * (R - 1 - row) = R * M - M - M * row
        BY <1>1, <2>1
      <4>2. QED
        BY <1>1, <1>2, <2>3, <3>1, <4>1
    <3>3. st[i + 1] = SvdfCell(k, h, row, after)
      <4>1. i + 1 \in 1..size
        BY <1>2, <3>2
      <4> HIDE DEF after, size
      <4>2. QED
        BY <2>5, <3>1, <4>1
    <3>4. new[i] = st[i + 1]
      <4> HIDE DEF size
      <4>1. QED
        BY <2>2, <2>8, <3>2
    <3>5. SvdfCell(k, h, row, after) =
            IF t < 1 THEN Cleared ELSE Feature(h[t][RowOf(row, F) + 1], PlaceOf(row, F) + 1)
      <4>1. N - M + after + 1 = t
        <5> HIDE DEF M, N
        <5>1. QED
          BY <1>1, <2>1
      <4> HIDE DEF t, after
      <4>2. QED
        BY <4>1 DEF SvdfCell
    <3>6. ~(t < 1) => t \in 1..N
      <4> HIDE DEF M, N
      <4>1. QED
        BY <1>1, <2>1, <2>8
    <3> HIDE DEF t, after
    <3>7. QED
      BY <1>3, <2>4, <2>6, <3>3, <3>4, <3>5, <3>6
  <2>9. QED
    BY <2>7, <2>8
<1>7. new = SvdfHeld(k, g)
  BY <1>6 DEF SvdfHeld
<1>8. QED
  BY <1>5, <1>7

\* The state is a sequence, and a row of it a piece.
LEMMA SvdfRow ==
  ASSUME NEW k, k.batch \in Nat \ {0}, k.rank \in Nat \ {0}, k.units \in Nat \ {0},
         k.memory \in Nat \ {0}, NEW g, NEW row \in 0..(SvdfRows(k) - 1)
  PROVE  SubSeq(SvdfHeld(k, g), row * k.memory + 1, (row + 1) * k.memory)
           = [j \in 1..k.memory |-> SvdfCell(k, g, row, j - 1)]
<1> DEFINE M == k.memory
           R == SvdfRows(k)
           size == R * M
           st == SvdfHeld(k, g)
           low == row * M + 1
           high == (row + 1) * M
           piece == SubSeq(st, low, high)
<1>1. M \in Nat \ {0} /\ R \in Nat \ {0} /\ row \in 0..(R - 1)
  BY DEF Filters, SvdfRows
<1>2. size \in Nat /\ low \in 1..(size + 1) /\ high \in (low - 1)..size /\ high - low + 1 = M
  <2> HIDE DEF M, R
  <2>1. M * (R - 1 - row) \in Nat /\ M * (R - 1 - row) = R * M - M - M * row
    BY <1>1
  <2>2. M * row \in Nat /\ high = M * row + M /\ low = M * row + 1 /\ size \in Nat
    BY <1>1
  <2> HIDE DEF high, low, size
  <2>3. R * M = size
    BY DEF size
  <2>4. QED
    BY <1>1, <2>1, <2>2, <2>3
<1>3. \A i \in 1..size : st[i] = SvdfCell(k, g, RowOf(i - 1, M), PlaceOf(i - 1, M))
  BY DEF SvdfHeld
<1> DEFINE V == {st[i] : i \in 1..size}
<1>4. st \in Seq(V) /\ Len(st) = size
  <2>1. st = [i \in 1..size |-> SvdfCell(k, g, RowOf(i - 1, M), PlaceOf(i - 1, M))]
    BY DEF SvdfHeld
  <2> HIDE DEF st
  <2>2. st \in [1..size -> V]
    BY <2>1
  <2> HIDE DEF V, size
  <2>3. QED
    BY <1>2, <2>2
<1> HIDE DEF V, st, size
<1>5. piece \in Seq(V) /\ Len(piece) = M /\ \A j \in 1..M : piece[j] = st[low + j - 1]
  <2> HIDE DEF low, high, M
  <2>1. low \in 1..(Len(st) + 1) /\ high \in (low - 1)..Len(st)
    BY <1>2, <1>4
  <2>2. /\ piece \in Seq(V) /\ Len(piece) = high - low + 1
        /\ \A j \in 1..(high - low + 1) : piece[j] = st[low + j - 1]
    BY <1>4, <2>1, Piece
  <2>3. QED
    BY <1>2, <2>2
<1> HIDE DEF piece
<1>6. piece = [j \in 1..M |-> piece[j]]
  BY <1>1, <1>5
<1>7. ASSUME NEW j \in 1..M
      PROVE  piece[j] = SvdfCell(k, g, row, j - 1)
  <2> DEFINE place == j - 1
             i == low + j - 1
  <2>1. i \in 1..size /\ i - 1 = M * row + place /\ place \in 0..(M - 1) /\ row \in Nat
    <3>1. M * row \in Nat /\ row * M = M * row
      BY <1>1
    <3> HIDE DEF M
    <3>2. place \in 0..(M - 1) /\ row \in Nat
      BY <1>1
    <3>3. i - 1 = M * row + place
      BY <1>1, <3>1
    <3>4. i \in 1..size
      <4>1. i >= low /\ low = M * row + 1
        BY <1>1, <3>1
      <4> HIDE DEF low, high
      <4>2. i <= low + M - 1 /\ i \in Int
        BY <1>1, <1>2
      <4>3. QED
        BY <1>1, <1>2, <3>1, <4>1, <4>2
    <3>5. QED
      BY <3>2, <3>3, <3>4
  <2> HIDE DEF M, place, i
  <2>2. RowOf(i - 1, M) = row /\ PlaceOf(i - 1, M) = place
    <3>1. RowOf(M * row + place, M) = row /\ PlaceOf(M * row + place, M) = place
      BY <1>1, <2>1, RowAndPlace
    <3>2. QED
      BY <2>1, <3>1
  <2>3. piece[j] = st[i]
    BY <1>5 DEF i
  <2>4. QED
    BY <1>3, <2>1, <2>2, <2>3 DEF place
<1>8. QED
  BY <1>6, <1>7 DEF piece, st, low, high

\* What an invocation delivers, from the state it leaves.
LEMMA SvdfOutputIs ==
  ASSUME NEW k, k.batch \in Nat \ {0}, k.rank \in Nat \ {0}, k.units \in Nat \ {0},
         k.memory \in Nat \ {0}, NEW g, NEW st, NEW x,
         SvdfInvoked(k, st, x).state = SvdfHeld(k, g),
         NEW b \in 1..k.batch, NEW u \in 1..k.units, NEW r \in 1..k.rank
  PROVE  SvdfInvoked(k, st, x).output[b][u][r]
           = [j \in 1..k.memory |->
               LET t == Len(g) - k.memory + (j - 1) + 1 IN
               IF t < 1 THEN Cleared ELSE Feature(g[t][b], (u - 1) * k.rank + r)]
<1> DEFINE F == Filters(k)
           place == (u - 1) * k.rank + r - 1
           row == (b - 1) * F + (u - 1) * k.rank + r - 1
           new == SvdfInvoked(k, st, x).state
<1>1. /\ k.batch \in Nat \ {0} /\ k.rank \in Nat \ {0} /\ k.units \in Nat \ {0}
      /\ b \in 1..k.batch /\ u \in 1..k.units /\ r \in 1..k.rank
      /\ F \in Nat \ {0} /\ F = k.rank * k.units /\ SvdfRows(k) = k.batch * F
  BY DEF Filters, SvdfRows
<1> HIDE DEF F
<1>2. place \in 0..(F - 1) /\ row = F * (b - 1) + place
  <2>1. (u - 1) * k.rank \in Nat /\ k.rank * (k.units - u) \in Nat
    BY <1>1
  <2>2. k.rank * (k.units - u) = k.rank * k.units - (u - 1) * k.rank - k.rank
    BY <1>1
  <2>3. (b - 1) * F \in Nat /\ F * (b - 1) = (b - 1) * F
    BY <1>1
  <2>4. QED
    BY <1>1, <2>1, <2>2, <2>3
<1>3. row \in 0..(SvdfRows(k) - 1)
  <2> HIDE DEF row, place
  <2>1. F * (k.batch - b) \in Nat /\ F * (k.batch - b) = k.batch * F - F * (b - 1) - F /\ F * (b - 1) \in Nat
    BY <1>1
  <2>2. QED
    BY <1>1, <1>2, <2>1
<1>4. RowOf(row, F) = b - 1 /\ PlaceOf(row, F) = place
  <2> DEFINE a == b - 1
  <2>1. a \in Nat
    BY <1>1
  <2> HIDE DEF a, row, place
  <2>2. RowOf(F * a + place, F) = a /\ PlaceOf(F * a + place, F) = place
    BY <1>1, <1>2, <2>1, RowAndPlace
  <2>3. QED
    BY <1>2, <2>2 DEF a
<1>5. SvdfInvoked(k, st, x).output[b][u][r] = SubSeq(new, row * k.memory + 1, (row + 1) * k.memory)
  <2> DEFINE B == [v \in 1..k.batch |-> [w \in 1..k.units |-> [z \in 1..k.rank |->
                     SubSeq(new, ((v - 1) * F + (w - 1) * k.rank + z - 1) * k.memory + 1,
                            (((v - 1) * F + (w - 1) * k.rank + z - 1) + 1) * k.memory)]]]
  <2>1. SvdfInvoked(k, st, x).output = B
    BY DEF SvdfInvoked, F
  <2> HIDE DEF new, F
  <2>2. B[b][u][r] = SubSeq(new, row * k.memory + 1, (row + 1) * k.memory)
    OBVIOUS
  <2>3. QED
    BY <2>1, <2>2
<1> HIDE DEF row
<1>6. SubSeq(new, row * k.memory + 1, (row + 1) * k.memory) = [j \in 1..k.memory |-> SvdfCell(k, g, row, j - 1)]
  <2>1. SubSeq(SvdfHeld(k, g), row * k.memory + 1, (row + 1) * k.memory)
          = [j \in 1..k.memory |-> SvdfCell(k, g, row, j - 1)]
    BY <1>3, SvdfRow
  <2> HIDE DEF new
  <2>2. new = SvdfHeld(k, g)
    BY DEF new
  <2>3. QED
    BY <2>1, <2>2
<1>7. ASSUME NEW j
      PROVE  SvdfCell(k, g, row, j - 1) =
               LET t == Len(g) - k.memory + (j - 1) + 1 IN
               IF t < 1 THEN Cleared ELSE Feature(g[t][b], (u - 1) * k.rank + r)
  <2> DEFINE t == Len(g) - k.memory + (j - 1) + 1
  <2>1. RowOf(row, F) + 1 = b /\ PlaceOf(row, F) + 1 = (u - 1) * k.rank + r
    <3>1. (u - 1) * k.rank \in Int
      BY <1>1
    <3>2. QED
      BY <1>1, <1>4, <3>1
  <2>2. SvdfCell(k, g, row, j - 1) =
          IF t < 1 THEN Cleared ELSE Feature(g[t][RowOf(row, F) + 1], PlaceOf(row, F) + 1)
    BY DEF SvdfCell, F
  <2> HIDE DEF t
  <2>3. SvdfCell(k, g, row, j - 1) =
          IF t < 1 THEN Cleared ELSE Feature(g[t][b], (u - 1) * k.rank + r)
    BY <2>1, <2>2, Zenon
  <2>4. QED
    BY <2>3 DEF t
<1>8. QED
  BY <1>5, <1>6, <1>7

SvdfInv == kernel.kind = "svdf" =>
  /\ history \in Seq(Tensors(kernel.batch, 1))
  /\ state = SvdfHeld(kernel, history)
  /\ SvdfExact

\* What the ops accept, for SVDF.
LEMMA SvdfFacts ==
  ASSUME kernel \in Kernels, kernel.kind = "svdf"
  PROVE  /\ kernel.batch \in Nat \ {0} /\ kernel.rank \in Nat \ {0}
         /\ kernel.units \in Nat \ {0} /\ kernel.memory \in Nat \ {0}
BY KernelAccepted DEF Accepted, SvdfAccepted, Positive

\* An invocation of SVDF.
LEMMA SvdfEvalStep ==
  ASSUME kernel \in Kernels, calls \in Nat, SvdfInv, SvdfEval
  PROVE  SvdfInv'
<1> DEFINE k == kernel
           x == Fresh(k.batch, 1)
           g == Append(history, x)
           done == SvdfInvoked(k, state, x)
<1>1. k.kind = "svdf"
  BY DEF SvdfEval
<1>2. k.batch \in Nat \ {0} /\ k.rank \in Nat \ {0} /\ k.units \in Nat \ {0} /\ k.memory \in Nat \ {0}
  BY <1>1, SvdfFacts
<1>3. history \in Seq(Tensors(k.batch, 1)) /\ state = SvdfHeld(k, history)
  BY <1>1 DEF SvdfInv
<1>4. x \in Tensors(k.batch, 1)
  <2>1. 1 \in Nat /\ k.batch \in Nat
    BY <1>2
  <2>2. QED
    BY <2>1, FreshInput
<1>5. history' = g /\ state' = done.state /\ output' = done.output /\ kernel' = k
  BY DEF SvdfEval, Invoked
<1>6. g \in Seq(Tensors(k.batch, 1)) /\ Len(g) \in Nat
  <2> HIDE DEF x
  <2>1. QED
    BY <1>3, <1>4
<1>7. done.state = SvdfHeld(k, g)
  <2> DEFINE X == Tensors(k.batch, 1)
  <2>1. history \in Seq(X) /\ x \in X
    BY <1>3, <1>4
  <2> HIDE DEF X, x, k
  <2>2. SvdfInvoked(k, SvdfHeld(k, history), x).state = SvdfHeld(k, Append(history, x))
    BY <1>2, <2>1, SvdfStateNext
  <2>3. QED
    BY <1>3, <2>2
<1>8. ASSUME NEW b \in 1..k.batch, NEW u \in 1..k.units, NEW r \in 1..k.rank
      PROVE  output'[b][u][r]
               = [j \in 1..k.memory |->
                   IF Len(g) - k.memory + j < 1 THEN Cleared
                   ELSE Feature(g[Len(g) - k.memory + j][b], (u - 1) * k.rank + r)]
  <2> HIDE DEF x, k, g
  <2>1. SvdfInvoked(k, state, x).state = SvdfHeld(k, g)
    BY <1>7
  <2>2. done.output[b][u][r]
          = [j \in 1..k.memory |->
              LET t == Len(g) - k.memory + (j - 1) + 1 IN
              IF t < 1 THEN Cleared ELSE Feature(g[t][b], (u - 1) * k.rank + r)]
    BY <1>2, <2>1, SvdfOutputIs
  <2>3. \A j \in 1..k.memory : Len(g) - k.memory + (j - 1) + 1 = Len(g) - k.memory + j
    BY <1>2, <1>6
  <2> HIDE DEF done
  <2>4. QED
    BY <1>5, <2>2, <2>3
<1>9. SvdfExact'
  <2> HIDE DEF g, x
  <2>1. SvdfExact' = (k.kind = "svdf" /\ g # <<>> =>
          \A b \in 1..k.batch, u \in 1..k.units, r \in 1..k.rank :
            output'[b][u][r] = [j \in 1..k.memory |->
                   IF Len(g) - k.memory + j < 1 THEN Cleared
                   ELSE Feature(g[Len(g) - k.memory + j][b], (u - 1) * k.rank + r)])
    BY <1>5 DEF SvdfExact, Invocations
  <2>2. QED
    BY <1>8, <2>1
<1>10. QED
  BY <1>5, <1>6, <1>7, <1>9 DEF SvdfInv

\* The state as Reset leaves it is that of no invocations.
LEMMA SvdfStart ==
  ASSUME NEW k, k.batch \in Nat \ {0}, k.rank \in Nat \ {0}, k.units \in Nat \ {0},
         k.memory \in Nat \ {0}
  PROVE  ClearedSvdf(k) = SvdfHeld(k, <<>>)
<1> DEFINE M == k.memory
           size == SvdfRows(k) * M
<1>1. SvdfRows(k) \in Nat \ {0}
  BY DEF SvdfRows, Filters
<1>2. ASSUME NEW i \in 1..size
      PROVE  SvdfCell(k, <<>>, RowOf(i - 1, M), PlaceOf(i - 1, M)) = Cleared
  <2> DEFINE place == PlaceOf(i - 1, M)
  <2>1. place \in 0..(M - 1)
    <3> DEFINE e == i - 1
               R == SvdfRows(k)
    <3>1. e \in 0..(R * M - 1) /\ R \in Nat
      BY <1>1
    <3> HIDE DEF e, R
    <3>2. PlaceOf(e, M) \in 0..(M - 1)
      BY <3>1, RowInRange
    <3>3. QED
      BY <3>2 DEF e
  <2> HIDE DEF place
  <2>2. Len(<<>>) - k.memory + place + 1 < 1
    BY <2>1
  <2>3. SvdfCell(k, <<>>, RowOf(i - 1, M), place) = Cleared
    BY <2>2 DEF SvdfCell
  <2>4. QED
    BY <2>3 DEF place
<1>3. QED
  BY <1>2 DEF ClearedSvdf, SvdfHeld, Copies

\* SVDF after Prepare.
LEMMA SvdfInit ==
  ASSUME Init
  PROVE  SvdfInv
<1>1. SUFFICES ASSUME kernel.kind = "svdf" PROVE SvdfInv
  BY DEF SvdfInv
<1>2. kernel \in Kernels /\ history = <<>> /\ state = ClearedSvdf(kernel)
  BY <1>1 DEF Init, Prepared
<1>3. ClearedSvdf(kernel) = SvdfHeld(kernel, <<>>)
  BY <1>1, <1>2, SvdfFacts, SvdfStart
<1>4. SvdfExact
  BY <1>2 DEF SvdfExact
<1>5. QED
  BY <1>2, <1>3, <1>4 DEF SvdfInv

\* A reset of SVDF.
LEMMA SvdfResetStep ==
  ASSUME kernel \in Kernels, SvdfInv, SvdfReset
  PROVE  SvdfInv'
<1>1. kernel.kind = "svdf" /\ kernel' = kernel /\ history' = <<>> /\ state' = ClearedSvdf(kernel)
  BY DEF SvdfReset, Restarted
<1>2. ClearedSvdf(kernel) = SvdfHeld(kernel, <<>>)
  BY <1>1, SvdfFacts, SvdfStart
<1>3. SvdfExact'
  BY <1>1 DEF SvdfExact
<1>4. QED
  BY <1>1, <1>2, <1>3 DEF SvdfInv

-----------------------------------------------------------------------------
(***************************************************************************)
(* Part 9: FRAMER.                                                         *)
(***************************************************************************)

\* The first n elements, under a name that the provers do not take apart.
Prefix(s, n) == SubSeq(s, 1, n)

\* What the beginning of a sequence holds.
LEMMA PrefixSeq ==
  ASSUME NEW V, NEW s \in Seq(V), NEW n \in 0..Len(s)
  PROVE  Prefix(s, n) \in Seq(V) /\ Len(Prefix(s, n)) = n /\ \A k \in 1..n : Prefix(s, n)[k] = s[k]
<1>1. 1 \in 1..(Len(s) + 1) /\ n \in (1 - 1)..Len(s) /\ n - 1 + 1 = n
  OBVIOUS
<1>2. \A k \in 1..n : 1 + k - 1 = k
  OBVIOUS
<1>3. QED
  BY <1>1, <1>2, Piece DEF Prefix

\* The elements up to n, and then those up to m.
LEMMA PrefixJoined ==
  ASSUME NEW V, NEW s \in Seq(V), NEW n \in 0..Len(s), NEW m \in n..Len(s)
  PROVE  Joint(Prefix(s, n), SubSeq(s, n + 1, m)) = Prefix(s, m)
<1> DEFINE p == Prefix(s, n)
           x == SubSeq(s, n + 1, m)
           j == Joint(p, x)
           q == Prefix(s, m)
<1>0. Len(s) \in Nat /\ n \in Nat /\ m \in Nat /\ n <= m /\ m \in 0..Len(s)
  OBVIOUS
<1>1. p \in Seq(V) /\ Len(p) = n /\ \A k \in 1..n : p[k] = s[k]
  BY PrefixSeq
<1>2. x \in Seq(V) /\ Len(x) = m - n /\ \A k \in 1..(m - n) : x[k] = s[n + k]
  <2>1. n + 1 \in 1..(Len(s) + 1) /\ m \in (n + 1 - 1)..Len(s)
    OBVIOUS
  <2>2. QED
    BY <2>1, Piece
<1>3. q \in Seq(V) /\ Len(q) = m /\ \A k \in 1..m : q[k] = s[k]
  BY <1>0, PrefixSeq
<1> HIDE DEF p, x, q
<1>4. /\ j \in Seq(V) /\ Len(j) = Len(p) + Len(x)
      /\ \A k \in 1..Len(p) : j[k] = p[k]
      /\ \A k \in 1..Len(x) : j[Len(p) + k] = x[k]
  <2>1. p \in Seq(V) /\ x \in Seq(V)
    BY <1>1, <1>2
  <2>2. QED
    BY <2>1, Joined DEF Joint
<1> HIDE DEF j
<1>5. ASSUME NEW k \in 1..m
      PROVE  j[k] = q[k]
  <2>1. CASE k <= n
    <3>1. k \in 1..n
      BY <2>1
    <3>2. QED
      BY <1>1, <1>3, <1>4, <3>1
  <2>2. CASE k > n
    <3>1. k - n \in 1..(m - n) /\ n + (k - n) = k
      BY <1>0, <2>2
    <3>2. j[n + (k - n)] = x[k - n] /\ x[k - n] = s[n + (k - n)]
      BY <1>1, <1>2, <1>4, <3>1
    <3>3. QED
      BY <1>3, <3>1, <3>2
  <2>3. QED
    BY <1>0, <2>1, <2>2
<1>6. Len(j) = m
  BY <1>0, <1>1, <1>2, <1>4
<1>7. j = q
  BY <1>3, <1>4, <1>5, <1>6, SameSeq
<1>8. QED
  BY <1>7 DEF j, p, x, q

\* A piece of a prefix is that piece of the whole.
LEMMA PieceOfPrefix ==
  ASSUME NEW V, NEW s \in Seq(V), NEW n \in 0..Len(s), NEW a \in 0..n, NEW b \in a..n
  PROVE  SubSeq(Prefix(s, n), a + 1, b) = SubSeq(s, a + 1, b)
<1> DEFINE p == Prefix(s, n)
           x == SubSeq(p, a + 1, b)
           y == SubSeq(s, a + 1, b)
<1>0. Len(s) \in Nat /\ n \in Nat /\ n <= Len(s) /\ a \in 0..n /\ b \in a..n
  OBVIOUS
<1>1. p \in Seq(V) /\ Len(p) = n /\ \A k \in 1..n : p[k] = s[k]
  BY PrefixSeq
<1>2. y \in Seq(V) /\ Len(y) = b - a /\ \A k \in 1..(b - a) : y[k] = s[a + k]
  <2>1. a + 1 \in 1..(Len(s) + 1) /\ b \in (a + 1 - 1)..Len(s)
    BY <1>0
  <2>2. QED
    BY <2>1, Piece
<1> HIDE DEF p, y
<1>3. x \in Seq(V) /\ Len(x) = b - a /\ \A k \in 1..(b - a) : x[k] = p[a + k]
  <2>1. a + 1 \in 1..(Len(p) + 1) /\ b \in (a + 1 - 1)..Len(p)
    BY <1>0, <1>1
  <2>2. QED
    BY <1>1, <2>1, Piece
<1> HIDE DEF x
<1>4. ASSUME NEW k \in 1..(b - a)
      PROVE  x[k] = y[k]
  <2>1. a + k \in 1..n
    BY <1>0
  <2>2. QED
    BY <1>1, <1>2, <1>3, <2>1
<1>5. x = y
  BY <1>2, <1>3, <1>4, SameSeq
<1>6. QED
  BY <1>5 DEF x, y, p

\* From position n + 1 on, j is x.
EndsIn(j, n, x) ==
  \A a \in 0..Len(x) : \A b \in a..Len(x) : SubSeq(j, n + a + 1, n + b) = SubSeq(x, a + 1, b)

\* Both halves of two sequences one after the other.
LEMMA HalvesOfJoint ==
  ASSUME NEW V, NEW s \in Seq(V), NEW x \in Seq(V)
  PROVE  Prefix(Joint(s, x), Len(s)) = s /\ EndsIn(Joint(s, x), Len(s), x)
<1> DEFINE j == Joint(s, x)
           n == Len(s)
           m == Len(x)
<1>0. m \in Nat /\ n \in Nat
  OBVIOUS
<1>1. /\ j \in Seq(V) /\ Len(j) = n + m /\ \A k \in 1..n : j[k] = s[k]
      /\ \A k \in 1..m : j[n + k] = x[k]
  BY Joined DEF Joint
<1>9. Len(s) = n /\ Len(x) = m
  OBVIOUS
<1> HIDE DEF n, m
<1> HIDE DEF j
<1>2. Prefix(j, n) = s
  <2> DEFINE p == Prefix(j, n)
  <2>1. p \in Seq(V) /\ Len(p) = n /\ \A k \in 1..n : p[k] = j[k]
    <3>1. n \in 0..Len(j)
      BY <1>0, <1>1
    <3>2. QED
      BY <1>1, <3>1, PrefixSeq
  <2> HIDE DEF p
  <2>2. p = s
    BY <1>1, <1>9, <2>1, SameSeq
  <2>3. QED
    BY <2>2 DEF p
<1>3. ASSUME NEW a \in 0..m, NEW b \in a..m
      PROVE  SubSeq(j, n + a + 1, n + b) = SubSeq(x, a + 1, b)
  <2> DEFINE p == SubSeq(j, n + a + 1, n + b)
             q == SubSeq(x, a + 1, b)
             d == n + a + 1
             e == n + b
  <2>1. q \in Seq(V) /\ Len(q) = b - a /\ \A k \in 1..(b - a) : q[k] = x[a + k]
    <3>1. a + 1 \in 1..(Len(x) + 1) /\ b \in (a + 1 - 1)..Len(x)
      BY <1>0, <1>9
    <3>2. QED
      BY <3>1, Piece
  <2> HIDE DEF q
  <2>2. d \in 1..(Len(j) + 1) /\ e \in (d - 1)..Len(j) /\ e - d + 1 = b - a
    BY <1>0, <1>1
  <2>3. p = SubSeq(j, d, e)
    OBVIOUS
  <2> HIDE DEF p
  <2>4. p \in Seq(V) /\ Len(p) = b - a /\ \A k \in 1..(b - a) : p[k] = j[d + k - 1]
    <3> HIDE DEF d, e
    <3>1. /\ p \in Seq(V) /\ Len(p) = e - d + 1
          /\ \A k \in 1..(e - d + 1) : p[k] = j[d + k - 1]
      BY <1>1, <2>2, <2>3, Piece
    <3>2. QED
      BY <2>2, <3>1
  <2>5. ASSUME NEW k \in 1..(b - a)
        PROVE  p[k] = q[k]
    <3>1. a + k \in 1..m /\ d + k - 1 = n + (a + k)
      BY <1>0
    <3> HIDE DEF d
    <3>2. QED
      BY <1>1, <2>1, <2>4, <3>1
  <2>6. p = q
    BY <2>1, <2>4, <2>5, SameSeq
  <2>7. QED
    BY <2>6 DEF p, q
<1>4. QED
  BY <1>2, <1>3 DEF j, n, m, EndsIn

\* The parameters of a framer.
IsFramer(k) ==
  /\ k.size \in Nat \ {0} /\ k.step \in Nat \ {0} /\ k.prefill \in BOOLEAN
  /\ k.outer \in Nat \ {0} /\ k.frames \in Nat \ {0}
  /\ k.prefill => k.step <= k.size

\* The zeros in front of the stream.
Padding(k) == IF k.prefill THEN k.size - k.step ELSE 0

\* The frame that the padded stream completes first.
First(k) == CHOOSE w \in 1..k.size : /\ Padding(k) + w * k.step >= k.size
                                     /\ Padding(k) + (w - 1) * k.step < k.size

\* The zeros before the first input, if any.
LEMMA PaddingIs ==
  ASSUME NEW k, IsFramer(k)
  PROVE  /\ Padding(k) \in Nat /\ Padding(k) < k.size
         /\ Padding(k) = 0 \/ Padding(k) = k.size - k.step
BY DEF IsFramer, Padding

\* The number of steps after which the first frame is due.
LEMMA FirstIs ==
  ASSUME NEW k, IsFramer(k)
  PROVE  /\ First(k) \in 1..k.size
         /\ Padding(k) + First(k) * k.step >= k.size
         /\ Padding(k) + (First(k) - 1) * k.step < k.size
<1> DEFINE Z == k.size
           S == k.step
           P == Padding(k)
           a == Z - P + S - 1
           w == a \div S
           r == a % S
<1>1. Z \in Nat \ {0} /\ S \in Nat \ {0} /\ P \in Nat /\ P < Z
  BY PaddingIs DEF IsFramer
<1> HIDE DEF P
<1>2. a \in Int /\ a = Z - P + (S - 1)
  BY <1>1
<1> HIDE DEF a
<1>3. a = S * w + r /\ r \in 0..(S - 1) /\ w \in Int
  BY <1>1, <1>2, Division
<1> HIDE DEF w, r
<1>4. S * w \in Int /\ (w - 1) * S = S * w - S /\ w * S = S * w
  BY <1>1, <1>3
<1>5. P + w * S >= Z /\ P + (w - 1) * S < Z
  BY <1>1, <1>2, <1>3, <1>4
<1>6. w >= 1
  <2>1. CASE w <= 0
    <3>1. S * (-w) >= 0 /\ S * (-w) = -(S * w)
      BY <1>1, <1>3, <2>1
    <3>2. QED
      BY <1>1, <1>4, <1>5, <3>1
  <2>2. QED
    BY <1>3, <2>1
<1>7. w <= Z
  <2>1. (w - 1) * S >= w - 1
    <3>1. (w - 1) * (S - 1) >= 0 /\ (w - 1) * (S - 1) = (w - 1) * S - (w - 1)
      BY <1>1, <1>3, <1>6
    <3>2. (w - 1) * S \in Int
      BY <1>1, <1>3
    <3>3. QED
      BY <1>3, <3>1, <3>2
  <2>2. (w - 1) * S \in Int
    BY <1>1, <1>3
  <2>3. QED
    BY <1>1, <1>3, <1>4, <1>5, <2>1, <2>2
<1>8. w \in 1..Z
  BY <1>1, <1>3, <1>6, <1>7
<1>9. \E v \in 1..Z : P + v * S >= Z /\ P + (v - 1) * S < Z
  BY <1>5, <1>8
<1>10. First(k) = CHOOSE v \in 1..Z : P + v * S >= Z /\ P + (v - 1) * S < Z
  BY DEF First, P
<1>11. QED
  BY <1>9, <1>10 DEF P

\* There is one only.
LEMMA FirstOnly ==
  ASSUME NEW k, IsFramer(k), NEW w \in Int,
         Padding(k) + w * k.step >= k.size, Padding(k) + (w - 1) * k.step < k.size
  PROVE  w = First(k)
<1> DEFINE Z == k.size
           S == k.step
           P == Padding(k)
           v == First(k)
<1>1. /\ Z \in Nat \ {0} /\ S \in Nat \ {0} /\ P \in Nat
      /\ v \in Int /\ P + v * S >= Z /\ P + (v - 1) * S < Z
      /\ P + w * S >= Z /\ P + (w - 1) * S < Z
  BY PaddingIs, FirstIs DEF IsFramer
<1> HIDE DEF Z, S, P, v
<1>2. (v - 1) * S < w * S /\ (w - 1) * S < v * S
  <2>1. v * S \in Int /\ w * S \in Int /\ (v - 1) * S \in Int /\ (w - 1) * S \in Int
    BY <1>1
  <2>2. QED
    BY <1>1, <2>1
<1>3. ~(v - 1 >= w)
  <2>1. CASE v - 1 >= w
    <3>1. (v - 1 - w) * S >= 0 /\ (v - 1 - w) * S = (v - 1) * S - w * S
      BY <1>1, <2>1
    <3>2. QED
      BY <1>1, <1>2, <3>1
  <2>2. QED
    BY <2>1
<1>4. ~(w - 1 >= v)
  <2>1. CASE w - 1 >= v
    <3>1. (w - 1 - v) * S >= 0 /\ (w - 1 - v) * S = (w - 1) * S - v * S
      BY <1>1, <2>1
    <3>2. QED
      BY <1>1, <1>2, <3>1
  <2>2. QED
    BY <2>1
<1>5. w = v
  BY <1>1, <1>3, <1>4
<1>6. QED
  BY <1>5 DEF v

\* After g frames of which so many were delivered, the samples that remain are too few for a
\* frame, and were enough for one before the last delivery.
FramerKeepsUp(k, g, delivered) ==
  /\ delivered \in Nat
  /\ Padding(k) + (g - delivered) * k.step < k.size
  /\ delivered = 0 \/ Padding(k) + (g - delivered + 1) * k.step >= k.size

\* Then the buffer has room for a step.
LEMMA FramerFits ==
  ASSUME NEW k, IsFramer(k), NEW g \in Nat, NEW D \in Nat, FramerKeepsUp(k, g, D)
  PROVE  /\ FramerCapacity(k) \in Nat \ {0} /\ k.size <= FramerCapacity(k)
         /\ k.step <= FramerCapacity(k) - (Padding(k) + k.step * g - k.step * D)
<1> DEFINE Z == k.size
           S == k.step
           P == Padding(k)
           a == Z + S - 1
           m == a \div S
           r == a % S
           K == FramerCapacity(k)
           n == g - D
<1>1. /\ Z \in Nat \ {0} /\ S \in Nat \ {0} /\ P \in Nat /\ (P = 0 \/ P = Z - S)
      /\ (P # 0 => S <= Z)
  BY PaddingIs DEF IsFramer, Padding
<1>2. n \in Int /\ P + n * S < Z
  BY DEF FramerKeepsUp
<1> HIDE DEF P
<1>3. a \in Int /\ a = Z + (S - 1)
  BY <1>1
<1>4. K = m * S
  BY DEF FramerCapacity
<1> HIDE DEF a
<1>5. a = S * m + r /\ r \in 0..(S - 1) /\ m \in Int
  BY <1>1, <1>3, Division
<1> HIDE DEF m, r, K
<1>6. m * S \in Int /\ S * m = m * S
  BY <1>1, <1>5
<1>7. K >= Z /\ K \in Nat \ {0}
  BY <1>1, <1>3, <1>4, <1>5, <1>6
<1>8. S * g - S * D = n * S /\ n * S \in Int /\ S * g \in Nat /\ S * D \in Nat
  BY <1>1
<1> HIDE DEF n
<1>9. P + n * S + S <= K
  <2>1. CASE P = 0
    <3>1. ~(n >= m)
      <4>1. CASE n >= m
        <5>1. (n - m) * S >= 0 /\ (n - m) * S = n * S - m * S
          BY <1>1, <1>2, <1>5, <4>1
        <5>2. QED
          BY <1>1, <1>2, <1>4, <1>6, <1>7, <1>8, <2>1, <5>1
      <4>2. QED
        BY <4>1
    <3>2. (m - n - 1) * S >= 0 /\ (m - n - 1) * S = m * S - n * S - S
      BY <1>1, <1>2, <1>5, <3>1
    <3>3. QED
      BY <1>1, <1>4, <1>6, <1>7, <1>8, <2>1, <3>2
  <2>2. CASE P = Z - S
    <3>1. n * S < S
      BY <1>1, <1>2, <1>8, <2>2
    <3>2. ~(n >= 1)
      <4>1. CASE n >= 1
        <5>1. (n - 1) * S >= 0 /\ (n - 1) * S = n * S - S
          BY <1>1, <1>2, <4>1
        <5>2. QED
          BY <1>1, <1>8, <3>1, <5>1
      <4>2. QED
        BY <4>1
    <3>3. (-n) * S >= 0 /\ (-n) * S = -(n * S)
      BY <1>1, <1>2, <3>2
    <3>4. QED
      BY <1>1, <1>7, <1>8, <2>2, <3>3
  <2>3. QED
    BY <1>1, <2>1, <2>2
<1>10. S <= K - (P + S * g - S * D)
  BY <1>1, <1>7, <1>8, <1>9
<1>11. QED
  BY <1>7, <1>10 DEF K, P

\* What the g-th frame delivers of the padded stream s.
FrameAt(k, s, g) ==
  LET behind == g - First(k) IN
  IF behind < 0 THEN Unwritten
  ELSE SubSeq(s, behind * k.step + 1, behind * k.step + k.size)

\* After g frames, the next one completes a delivery or not.
FramerDue(k, g, D) ==
  IF Padding(k) + k.step * g + k.step - k.step * D >= k.size
  THEN (g + 1) - First(k) = D /\ FramerKeepsUp(k, g + 1, D + 1)
  ELSE (g + 1) - First(k) < 0 /\ FramerKeepsUp(k, g + 1, D)

\* A state in which the kernel keeps up is the one in which the outputs of the definition are due.
LEMMA FramerIsDue ==
  ASSUME NEW k, IsFramer(k), NEW g \in Nat, NEW D \in Nat, FramerKeepsUp(k, g, D)
  PROVE  FramerDue(k, g, D)
<1> DEFINE Z == k.size
           S == k.step
           P == Padding(k)
           v == First(k)
           n == g - D
<1>1. /\ Z \in Nat \ {0} /\ S \in Nat \ {0} /\ P \in Nat
      /\ v \in Int /\ P + v * S >= Z
  BY PaddingIs, FirstIs DEF IsFramer
<1>2. P + n * S < Z /\ (D = 0 \/ P + (n + 1) * S >= Z) /\ n \in Int
  BY DEF FramerKeepsUp
<1>3. S * g + S - S * D = (n + 1) * S /\ (n + 1) * S \in Int /\ n * S \in Int
      /\ S * g \in Int /\ S * D \in Int
  BY <1>1
<1> HIDE DEF P, v
<1>4. P + S * g + S - S * D >= Z <=> P + (n + 1) * S >= Z
  <2> HIDE DEF Z, S, n
  <2> DEFINE b == S * g
             d == S * D
             e == (n + 1) * S
  <2>1. b + S - d = e /\ b \in Int /\ d \in Int /\ e \in Int
    BY <1>3
  <2> HIDE DEF b, d, e
  <2>2. P + b + S - d >= Z <=> P + e >= Z
    BY <1>1, <2>1
  <2>3. QED
    BY <2>2 DEF b, d, e
<1>5. ASSUME P + (n + 1) * S >= Z
      PROVE  (g + 1) - v = D /\ FramerKeepsUp(k, g + 1, D + 1)
  <2> DEFINE w == n + 1
  <2>1. w \in Int /\ w - 1 = n
    BY <1>2
  <2> HIDE DEF w
  <2>2. P + w * S >= Z /\ P + (w - 1) * S < Z
    BY <1>2, <1>5, <2>1 DEF w
  <2>3. w = v
    BY <2>1, <2>2, FirstOnly DEF P, v
  <2>4. (g + 1) - v = D
    BY <2>3 DEF w
  <2>5. g + 1 - (D + 1) = n
    OBVIOUS
  <2>6. FramerKeepsUp(k, g + 1, D + 1)
    <3> DEFINE h == g + 1
               E == D + 1
    <3>1. h - E = n /\ E \in Nat
      OBVIOUS
    <3> HIDE DEF h, E, n
    <3>2. FramerKeepsUp(k, h, E)
      BY <1>2, <1>5, <3>1 DEF FramerKeepsUp, P
    <3>3. QED
      BY <3>2 DEF h, E
  <2>7. QED
    BY <2>4, <2>6
<1>6. ASSUME ~(P + (n + 1) * S >= Z)
      PROVE  (g + 1) - v < 0 /\ FramerKeepsUp(k, g + 1, D)
  <2>1. D = 0 /\ n + 1 = g + 1
    BY <1>2, <1>6
  <2> DEFINE w == g + 1
  <2>2. ~(P + w * S >= Z) /\ w \in Nat
    BY <1>6, <2>1
  <2> HIDE DEF w
  <2>3. w * S \in Int /\ v * S \in Int
    BY <1>1, <2>2
  <2>4. P + w * S < Z /\ w * S < v * S
    BY <1>1, <2>2, <2>3
  <2>5. ~(w >= v)
    <3>1. CASE w >= v
      <4>1. (w - v) * S >= 0 /\ (w - v) * S = w * S - v * S
        BY <1>1, <2>2, <3>1
      <4>2. QED
        BY <2>3, <2>4, <4>1
    <3>2. QED
      BY <3>1
  <2>6. FramerKeepsUp(k, w, D)
    <3>1. w - D = w /\ D \in Nat
      BY <2>1, <2>2
    <3>2. QED
      BY <2>1, <2>4, <3>1 DEF FramerKeepsUp, P
  <2>7. w - v < 0
    BY <1>1, <2>2, <2>5
  <2>8. QED
    BY <2>6, <2>7 DEF w
<1>7. QED
  BY <1>4, <1>5, <1>6 DEF FramerDue, P, v

\* After g frames of the padded stream s.
FramerHolds(k, s, g, c) ==
  /\ c.capacity = FramerCapacity(k)
  /\ \E delivered \in Nat :
       /\ FramerKeepsUp(k, g, delivered)
       /\ Holds(c, Prefix(s, Padding(k) + k.step * g), k.step * delivered)

\* The frame x, the samples of s behind the first a, comes after g frames.
FramerTakes(k, s, g, a, done, x, r) ==
  /\ s \in Seq(Number) /\ g \in Nat
  /\ a = Padding(k) + k.step * g /\ a + k.step <= Len(s)
  /\ FramerHolds(k, s, g, done.state)
  /\ x = SubSeq(s, a + 1, a + k.step) /\ r = FramerStep(k, done, x)

\* One frame.
LEMMA FramerStepHolds ==
  ASSUME NEW k, IsFramer(k), NEW s, NEW g, NEW a, NEW done, NEW x, NEW r,
         FramerTakes(k, s, g, a, done, x, r)
  PROVE  /\ FramerHolds(k, s, g + 1, r.state)
         /\ r.output = Append(done.output, FrameAt(k, s, g + 1))
         /\ r.valid <=> done.valid /\ (g + 1) - First(k) >= 0
<1> DEFINE Z == k.size
           S == k.step
           P == Padding(k)
           c == done.state
           b == a + S
           w == Write(c, x)
           p == Prefix(s, a)
           q == Prefix(s, b)
           l == Len(s)
<1>0. /\ s \in Seq(Number) /\ g \in Nat
      /\ a = Padding(k) + k.step * g /\ a + k.step <= Len(s)
      /\ FramerHolds(k, s, g, done.state)
      /\ x = SubSeq(s, a + 1, a + k.step) /\ r = FramerStep(k, done, x)
  BY DEF FramerTakes
<1>1. Z \in Nat \ {0} /\ S \in Nat \ {0} /\ P \in Nat /\ l \in Nat /\ b <= l /\ a = P + S * g /\ g \in Nat
  BY <1>0, PaddingIs DEF IsFramer
<1>2. a \in Nat /\ b \in Nat /\ a \in 0..l /\ b \in a..l /\ b \in 0..l /\ b = P + S * (g + 1)
  <2> HIDE DEF P, l, S
  <2>1. S * g \in Nat /\ S * (g + 1) = S * g + S
    BY <1>1
  <2> DEFINE e == S * g
             f == S * (g + 1)
  <2>2. e \in Nat /\ f = e + S /\ a = P + e
    BY <1>1, <2>1
  <2>5. S \in Nat /\ P \in Nat /\ l \in Nat /\ b = a + S /\ b <= l
    BY <1>1
  <2> HIDE DEF e, f, b
  <2>6. a \in Nat
    BY <2>2, <2>5
  <2>7. b \in Nat /\ a <= b
    BY <2>5, <2>6
  <2>8. b = P + f
    BY <2>2, <2>5, <2>6
  <2>3. a \in Nat /\ b \in Nat /\ a \in 0..l /\ b \in a..l /\ b \in 0..l /\ b = P + f
    BY <2>5, <2>6, <2>7, <2>8
  <2>4. QED
    BY <2>3 DEF f
<1>3. PICK D \in Nat : FramerKeepsUp(k, g, D) /\ Holds(c, p, S * D)
  BY <1>0 DEF FramerHolds
<1>4. c.capacity = FramerCapacity(k)
  BY <1>0 DEF FramerHolds
<1>5. FramerDue(k, g, D)
  BY <1>0, <1>3, FramerIsDue
<1>6. /\ S <= FramerCapacity(k) - (P + S * g - S * D) /\ FramerCapacity(k) \in Nat \ {0}
  BY <1>0, <1>3, FramerFits
<1>7. p \in Seq(Number) /\ Len(p) = a /\ q \in Seq(Number) /\ Len(q) = b
  BY <1>0, <1>2, PrefixSeq
<1>8. x \in Seq(Number) /\ Len(x) = S
  <2> DEFINE low == a + 1
  <2>3. x = SubSeq(s, low, b)
    BY <1>0
  <2> HIDE DEF P, S
  <2>1. l \in Nat /\ a \in Nat /\ b \in Nat /\ a <= b /\ b <= l /\ b = a + S /\ S \in Nat
    BY <1>1, <1>2
  <2> HIDE DEF b
  <2>6. low \in Nat /\ low = a + 1
    BY <2>1
  <2> HIDE DEF low
  <2>7. b - low + 1 = S
    BY <2>1, <2>6
  <2>8. low - 1 = a /\ low <= l + 1 /\ 1 <= low
    BY <2>1, <2>6
  <2> HIDE DEF l
  <2>9. low \in 1..(l + 1)
    BY <2>1, <2>6, <2>8
  <2>10. b \in (low - 1)..l
    BY <2>1, <2>8
  <2>2. low \in 1..(Len(s) + 1) /\ b \in (low - 1)..Len(s) /\ b - low + 1 = S
    BY <2>7, <2>9, <2>10 DEF l
  <2>4. x \in Seq(Number) /\ Len(x) = b - low + 1
    BY <1>0, <2>2, <2>3, Piece
  <2>5. QED
    BY <2>2, <2>4
<1>9. Joint(p, x) = q
  BY <1>0, <1>2, PrefixJoined
<1> HIDE DEF p, q, l, P, S, b, c
<1>10. Holds(w, q, S * D) /\ w.capacity = c.capacity
  <2>1. CanWrite(c) = c.capacity - (Len(p) - S * D)
    BY <1>3, HoldsFacts
  <2>2. Len(x) <= CanWrite(c)
    BY <1>1, <1>4, <1>6, <1>7, <1>8, <2>1
  <2>3. Holds(w, Joint(p, x), S * D) /\ w.capacity = c.capacity
    BY <1>3, <1>8, <2>2, HoldsWrite
  <2>4. QED
    BY <1>9, <2>3
<1> HIDE DEF w
<1>11. Available(w) = b - S * D /\ S * D \in 0..b
  <2>1. Available(w) = Len(q) - S * D
    BY <1>10, HoldsFacts
  <2>3. S * D \in 0..Len(q)
    BY <1>10 DEF Holds
  <2>2. QED
    BY <1>7, <2>1, <2>3
<1>12. P + S * g + S - S * D = b - S * D
  <2>1. S * g \in Int /\ S * D \in Int
    BY <1>1
  <2>2. b = P + S * g + S
    BY <1>1 DEF b
  <2> DEFINE e == S * g
             f == S * D
  <2>3. e \in Int /\ f \in Int /\ b = P + e + S
    BY <2>1, <2>2
  <2> HIDE DEF e, f
  <2>4. P + e + S - f = b - f
    BY <1>1, <2>3
  <2>5. QED
    BY <2>4 DEF e, f
<1>13. CASE b - S * D >= Z
  <2>1. (g + 1) - First(k) = D /\ FramerKeepsUp(k, g + 1, D + 1)
    BY <1>5, <1>12, <1>13 DEF FramerDue, P, S
  <2>2. r = [state |-> Discard(w, S), output |-> Append(done.output, Get(w, Z)),
             valid |-> done.valid]
    BY <1>0, <1>11, <1>13 DEF FramerStep, S, w, c
  <2>3. Z \in 0..(Len(q) - S * D)
    BY <1>1, <1>7, <1>11, <1>13
  <2>4. Get(w, Z) = SubSeq(q, S * D + 1, S * D + Z)
    BY <1>10, <2>3, HoldsGet
  <2>5. SubSeq(q, S * D + 1, S * D + Z) = SubSeq(s, S * D + 1, S * D + Z)
    <3> DEFINE e == S * D
    <3>1. e \in 0..b /\ e + Z \in e..b
      BY <1>1, <1>2, <1>11, <1>13
    <3> HIDE DEF e
    <3>2. b \in 0..Len(s)
      BY <1>2 DEF l
    <3>3. SubSeq(Prefix(s, b), e + 1, e + Z) = SubSeq(s, e + 1, e + Z)
      BY <1>0, <3>1, <3>2, PieceOfPrefix
    <3>4. QED
      BY <3>3 DEF e, q
  <2>6. S \in 1..(Len(q) - S * D)
    <3> DEFINE e == S * D
    <3>1. S \in 1..(b - e)
      <4>1. a - e \in Nat
        <5>1. e \in 0..Len(p)
          BY <1>3 DEF Holds
        <5>2. QED
          BY <1>2, <1>7, <5>1
      <4>2. e \in Int /\ a \in Nat /\ b = a + S
        BY <1>2, <1>11 DEF b
      <4> HIDE DEF e
      <4>3. QED
        BY <1>1, <4>1, <4>2
    <3>2. QED
      BY <1>7, <3>1
  <2>7. Holds(Discard(w, S), q, S * D + S) /\ Discard(w, S).capacity = w.capacity
    BY <1>10, <2>6, HoldsDiscard
  <2>8. S * D + S = S * (D + 1) /\ D + 1 \in Nat /\ S * D = D * S
    BY <1>1
  <2>9. Holds(r.state, Prefix(s, P + S * (g + 1)), S * (D + 1)) /\ r.state.capacity = FramerCapacity(k)
    <3>1. r.state = Discard(w, S)
      BY <2>2
    <3>2. q = Prefix(s, P + S * (g + 1))
      BY <1>2 DEF q
    <3>3. QED
      BY <1>4, <1>10, <2>7, <2>8, <3>1, <3>2
  <2>10. FrameAt(k, s, g + 1) = SubSeq(s, D * S + 1, D * S + Z)
    <3>1. ~(D < 0)
      OBVIOUS
    <3>2. QED
      BY <2>1, <3>1 DEF FrameAt, S
  <2>11. r.output = Append(done.output, FrameAt(k, s, g + 1))
    <3>1. r.output = Append(done.output, Get(w, Z))
      BY <2>2
    <3>2. Get(w, Z) = FrameAt(k, s, g + 1)
      BY <2>4, <2>5, <2>8, <2>10
    <3>3. QED
      BY <3>1, <3>2, Zenon
  <2>12. FramerHolds(k, s, g + 1, r.state)
    BY <2>1, <2>8, <2>9 DEF FramerHolds, P, S
  <2>13. r.valid <=> done.valid /\ (g + 1) - First(k) >= 0
    <3>1. (g + 1) - First(k) >= 0
      BY <2>1
    <3>2. r.valid = done.valid
      BY <2>2
    <3>3. QED
      BY <3>1, <3>2
  <2>14. QED
    BY <2>11, <2>12, <2>13
<1>14. CASE ~(b - S * D >= Z)
  <2>1. (g + 1) - First(k) < 0 /\ FramerKeepsUp(k, g + 1, D)
    BY <1>5, <1>12, <1>14 DEF FramerDue, P, S
  <2>2. r = [state |-> w, output |-> Append(done.output, Unwritten), valid |-> FALSE]
    BY <1>0, <1>11, <1>14 DEF FramerStep, S, w, c
  <2>3. FrameAt(k, s, g + 1) = Unwritten
    BY <2>1 DEF FrameAt
  <2>4. q = Prefix(s, P + S * (g + 1))
    BY <1>2 DEF q
  <2>5. FramerHolds(k, s, g + 1, w)
    BY <1>4, <1>10, <2>1, <2>4 DEF FramerHolds, P, S
  <2>6. r.valid <=> done.valid /\ (g + 1) - First(k) >= 0
    <3>1. First(k) \in Int
      BY FirstIs
    <3>2. ~((g + 1) - First(k) >= 0)
      BY <1>1, <2>1, <3>1
    <3>3. r.valid = FALSE
      BY <2>2
    <3>4. QED
      BY <3>2, <3>3
  <2>7. QED
    BY <2>2, <2>3, <2>5, <2>6
<1>15. QED
  BY <1>13, <1>14

\* The kernel after each frame of an invocation.
IsFrames(done, k, c, x, n) ==
  done = [f \in 0..n |->
           IF f = 0 THEN [state |-> c, output |-> <<>>, valid |-> TRUE]
           ELSE FramerStep(k, done[f - 1], SubSeq(x, (f - 1) * k.step + 1, f * k.step))]

\* The recursive definition in FramerChannel has a solution.
LEMMA FramesExist ==
  ASSUME NEW k, NEW c, NEW x, NEW n \in Nat
  PROVE  \E done : IsFrames(done, k, c, x, n)
<1> DEFINE Turn(d, f) == FramerStep(k, d, SubSeq(x, (f - 1) * k.step + 1, f * k.step))
           start == [state |-> c, output |-> <<>>, valid |-> TRUE]
           P == {m \in Nat : \E d : IsFrames(d, k, c, x, m)}
<1>0. \A d, m : IsFrames(d, k, c, x, m) <=> d = [f \in 0..m |-> IF f = 0 THEN start ELSE Turn(d[f - 1], f)]
  BY DEF IsFrames
<1> HIDE DEF Turn, start
<1>1. 0 \in P
  <2> DEFINE d == [f \in 0..0 |-> start]
  <2>1. d = [f \in 0..0 |-> IF f = 0 THEN start ELSE Turn(d[f - 1], f)]
    OBVIOUS
  <2> HIDE DEF d
  <2>2. IsFrames(d, k, c, x, 0)
    BY <1>0, <2>1
  <2>3. QED
    BY <2>2
<1>2. ASSUME NEW m \in Nat, m \in P
      PROVE  m + 1 \in P
  <2>1. PICK d : IsFrames(d, k, c, x, m)
    BY <1>2
  <2>2. d = [f \in 0..m |-> IF f = 0 THEN start ELSE Turn(d[f - 1], f)]
    BY <1>0, <2>1
  <2> DEFINE g == [f \in 0..(m + 1) |-> IF f = m + 1 THEN Turn(d[m], m + 1) ELSE d[f]]
  <2>3. \A f \in 0..m : g[f] = d[f]
    OBVIOUS
  <2>4. ASSUME NEW f \in 0..(m + 1)
        PROVE  g[f] = IF f = 0 THEN start ELSE Turn(g[f - 1], f)
    <3>1. CASE f = m + 1
      <4>1. f # 0 /\ f - 1 = m /\ m \in 0..m
        BY <3>1
      <4>2. g[f] = Turn(d[m], f)
        BY <3>1
      <4>3. g[f - 1] = d[m]
        BY <2>3, <4>1
      <4> HIDE DEF g
      <4>4. QED
        BY <4>1, <4>2, <4>3, Zenon
    <3>2. CASE f # m + 1 /\ f # 0
      <4>1. f \in 0..m /\ f - 1 \in 0..m
        BY <3>2
      <4>2. g[f] = d[f] /\ g[f - 1] = d[f - 1]
        BY <2>3, <4>1
      <4>3. d[f] = Turn(d[f - 1], f)
        BY <2>2, <3>2, <4>1
      <4> HIDE DEF g
      <4>4. QED
        BY <3>2, <4>2, <4>3, Zenon
    <3>3. CASE f = 0
      BY <2>2, <2>3, <3>3
    <3>4. QED
      BY <3>1, <3>2, <3>3
  <2>5. g = [f \in 0..(m + 1) |-> g[f]]
    OBVIOUS
  <2> HIDE DEF g
  <2>6. g = [f \in 0..(m + 1) |-> IF f = 0 THEN start ELSE Turn(g[f - 1], f)]
    BY <2>4, <2>5
  <2>7. IsFrames(g, k, c, x, m + 1)
    BY <1>0, <2>6
  <2>8. QED
    BY <2>7
<1> HIDE DEF P
<1>3. \A m \in Nat : m \in P
  BY <1>1, <1>2, Induction
<1>4. QED
  BY <1>3 DEF P

\* A sequence is its own longest prefix.
LEMMA PrefixAll ==
  ASSUME NEW V, NEW s \in Seq(V)
  PROVE  Prefix(s, Len(s)) = s
<1>1. Len(s) \in 0..Len(s)
  OBVIOUS
<1> DEFINE p == Prefix(s, Len(s))
<1>2. p \in Seq(V) /\ Len(p) = Len(s) /\ \A i \in 1..Len(s) : p[i] = s[i]
  BY <1>1, PrefixSeq
<1> HIDE DEF p
<1>3. p = s
  BY <1>2, SameSeq
<1>4. QED
  BY <1>3 DEF p

\* The frames of one invocation.
LEMMA FramerChannelHolds ==
  ASSUME NEW k, IsFramer(k), NEW base \in Seq(Number), NEW before \in Nat,
         Len(base) = Padding(k) + k.step * before,
         NEW x \in Seq(Number), Len(x) = k.frames * k.step,
         NEW c, FramerHolds(k, base, before, c), NEW r, r = FramerChannel(k, c, x)
  PROVE  /\ FramerHolds(k, Joint(base, x), before + k.frames, r.state)
         /\ \A f \in 1..k.frames : r.output[f] = FrameAt(k, Joint(base, x), before + f)
         /\ r.valid <=> before + 1 - First(k) >= 0
<1> DEFINE S == k.step
           F == k.frames
           n == Len(base)
           s == Joint(base, x)
           done == CHOOSE d : IsFrames(d, k, c, x, F)
           V == {FrameAt(k, s, before + f) : f \in 1..F}
<1>1. S \in Nat \ {0} /\ F \in Nat \ {0} /\ n \in Nat /\ Padding(k) \in Nat
  BY PaddingIs DEF IsFramer
<1>2. s \in Seq(Number) /\ Len(s) = n + Len(x)
  BY JointSeq
<1>3. Prefix(s, n) = base /\ Prefix(base, n) = base
  BY HalvesOfJoint, PrefixAll DEF EndsIn
<1>4. r = done[F]
  BY DEF FramerChannel, IsFrames
<1>5. IsFrames(done, k, c, x, F)
  <2>1. \E d : IsFrames(d, k, c, x, F)
    BY <1>1, FramesExist
  <2>2. QED
    BY <2>1
<1> HIDE DEF done
<1>6. /\ done[0] = [state |-> c, output |-> <<>>, valid |-> TRUE]
      /\ \A f \in 0..F : f # 0 => done[f] = FramerStep(k, done[f - 1], SubSeq(x, (f - 1) * S + 1, f * S))
  <2> DEFINE start == [state |-> c, output |-> <<>>, valid |-> TRUE]
             Turn(f) == FramerStep(k, done[f - 1], SubSeq(x, (f - 1) * S + 1, f * S))
  <2>1. done = [f \in 0..F |-> IF f = 0 THEN start ELSE Turn(f)]
    BY <1>5 DEF IsFrames
  <2> HIDE DEF start, Turn, F
  <2>2. 0 \in 0..F
    BY <1>1
  <2>3. done[0] = start /\ \A f \in 0..F : f # 0 => done[f] = Turn(f)
    BY <2>1, <2>2, Zenon
  <2>4. QED
    BY <2>3, Zenon DEF start, Turn
<1>7. FramerHolds(k, s, before, c)
  <2>1. n = Padding(k) + k.step * before
    OBVIOUS
  <2> HIDE DEF n, s
  <2>2. QED
    BY <1>3, <2>1 DEF FramerHolds
<1>8. \A a \in 0..Len(x) : \A b \in a..Len(x) :
        SubSeq(s, n + a + 1, n + b) = SubSeq(x, a + 1, b)
  <2>1. EndsIn(s, n, x)
    BY HalvesOfJoint
  <2> HIDE DEF s, n
  <2>2. QED
    BY <2>1 DEF EndsIn
<1> DEFINE Good(f) == /\ FramerHolds(k, s, before + f, done[f].state)
                      /\ done[f].output \in Seq(V) /\ Len(done[f].output) = f
                      /\ \A i \in 1..f : done[f].output[i] = FrameAt(k, s, before + i)
                      /\ done[f].valid <=> f = 0 \/ before + 1 - First(k) >= 0
           P == {f \in Nat : f <= F => Good(f)}
<1>9. 0 \in P
  <2>1. /\ before + 0 = before /\ done[0].state = c /\ done[0].output = <<>>
        /\ done[0].valid = TRUE
    BY <1>6
  <2> HIDE DEF V, s
  <2>2. <<>> \in Seq(V) /\ Len(<<>>) = 0 /\ 1..0 = {}
    OBVIOUS
  <2>3. Good(0)
    BY <1>7, <2>1, <2>2
  <2> HIDE DEF Good
  <2>4. QED
    BY <2>3
<1>10. ASSUME NEW f \in Nat, f \in P
       PROVE  f + 1 \in P
  <2> SUFFICES ASSUME f + 1 <= F PROVE Good(f + 1)
    OBVIOUS
  <2> DEFINE e == f + 1
             d == done[f]
             g == before + f
             low == f * S
             high == e * S
             y == SubSeq(x, low + 1, high)
             q == done[e]
             at == FrameAt(k, s, g + 1)
  <2>1. Good(f)
    <3> HIDE DEF Good
    <3>1. QED
      BY <1>1, <1>10
  <2>2. q = FramerStep(k, d, y)
    <3>1. e \in 0..F /\ e # 0 /\ e - 1 = f
      BY <1>1
    <3>2. done[e] = FramerStep(k, done[e - 1], SubSeq(x, (e - 1) * S + 1, e * S))
      BY <1>6, <3>1
    <3> HIDE DEF e
    <3>3. QED
      BY <3>1, <3>2
  <2>3. low \in 0..Len(x) /\ high \in low..Len(x) /\ high = low + S
    <3>1. low \in Nat /\ high = low + S
      <4>1. S \in Nat /\ f \in Nat
        BY <1>1
      <4> HIDE DEF S
      <4>2. f * S \in Nat /\ (f + 1) * S = f * S + S
        BY <4>1
      <4>3. QED
        BY <4>2
    <3>2. e \in Nat /\ e <= F
      BY <1>1
    <3> HIDE DEF e, S, F
    <3>3. (F - e) * S \in Nat /\ (F - e) * S = F * S - high /\ F * S \in Nat
      BY <1>1, <3>2
    <3>4. Len(x) = F * S
      BY DEF S, F
    <3> DEFINE m == F * S
    <3> HIDE DEF low, high, m
    <3>5. m \in Nat /\ m - high \in Nat
      BY <3>3 DEF m
    <3>6. low \in 0..m /\ high \in low..m
      BY <1>1, <3>1, <3>5
    <3>7. QED
      BY <3>1, <3>4, <3>6 DEF m
  <2> DEFINE a == n + low
  <2>4. a = Padding(k) + k.step * g /\ n + high = a + k.step /\ g \in Nat /\ g + 1 = before + e
    <3>1. S * g = S * before + low /\ S * before \in Nat /\ low \in Nat
      BY <1>1
    <3> DEFINE h == S * before
               i == S * g
    <3>2. n = Padding(k) + h /\ i = h + low /\ h \in Nat
      BY <3>1
    <3>3. g \in Nat /\ g + 1 = before + e
      OBVIOUS
    <3>4. high = low + S /\ low \in Nat
      BY <2>3, <3>1
    <3>7. S \in Nat /\ n \in Nat /\ Padding(k) \in Nat
      BY <1>1
    <3> HIDE DEF h, i, low, high, n, g, e, S
    <3>5. n + low = Padding(k) + i /\ n + high = (n + low) + S
      BY <3>2, <3>4, <3>7
    <3>6. QED
      BY <3>3, <3>5 DEF i, S
  <2>5. y = SubSeq(s, a + 1, a + k.step)
    <3> HIDE DEF low, high, s, n
    <3>1. SubSeq(s, n + low + 1, n + high) = SubSeq(x, low + 1, high)
      BY <1>8, <2>3
    <3>2. QED
      BY <2>4, <3>1
  <2>6. a + k.step <= Len(s)
    <3>1. n + high <= n + Len(x)
      <4> HIDE DEF low, high, n
      <4>1. Len(x) \in Nat
        OBVIOUS
      <4>2. QED
        BY <1>1, <2>3, <4>1
    <3>2. QED
      BY <1>2, <2>4, <3>1
  <2>7. FramerHolds(k, s, g, d.state)
    BY <2>1
  <2> HIDE DEF Good, P, s, low, high, y, q, d, g, a, e, V
  <2>8. /\ FramerHolds(k, s, g + 1, q.state) /\ q.output = Append(d.output, at)
        /\ q.valid <=> d.valid /\ (g + 1) - First(k) >= 0
    <3>1. FramerTakes(k, s, g, a, d, y, q)
      BY <1>2, <2>2, <2>4, <2>5, <2>6, <2>7 DEF FramerTakes
    <3>2. QED
      BY <3>1, FramerStepHolds DEF at
  <2>9. at \in V
    <3>1. e \in 1..F
      BY <1>1 DEF e
    <3>2. at = FrameAt(k, s, before + e)
      BY <2>4 DEF at
    <3>3. QED
      BY <3>1, <3>2 DEF V
  <2>10. d.output \in Seq(V) /\ Len(d.output) = f
         /\ \A i \in 1..f : d.output[i] = FrameAt(k, s, before + i)
    BY <2>1 DEF Good, d
  <2> HIDE DEF at
  <2>11. /\ Append(d.output, at) \in Seq(V) /\ Len(Append(d.output, at)) = f + 1
         /\ \A i \in 1..f : Append(d.output, at)[i] = d.output[i]
         /\ Append(d.output, at)[f + 1] = at
    <3> DEFINE out == d.output
    <3>1. out \in Seq(V) /\ at \in V /\ Len(out) = f
      BY <2>9, <2>10
    <3> HIDE DEF out
    <3>2. /\ Append(out, at) \in Seq(V) /\ Len(Append(out, at)) = Len(out) + 1
          /\ \A i \in 1..Len(out) : Append(out, at)[i] = out[i]
          /\ Append(out, at)[Len(out) + 1] = at
      BY <3>1, Appended, Zenon
    <3>3. /\ Append(out, at) \in Seq(V) /\ Len(Append(out, at)) = f + 1
          /\ \A i \in 1..f : Append(out, at)[i] = out[i]
          /\ Append(out, at)[f + 1] = at
      BY <3>1, <3>2, Zenon
    <3>4. QED
      BY <3>3 DEF out
  <2>12. \A i \in 1..e : Append(d.output, at)[i] = FrameAt(k, s, before + i)
    <3>1. SUFFICES ASSUME NEW i \in 1..e PROVE Append(d.output, at)[i] = FrameAt(k, s, before + i)
      OBVIOUS
    <3>2. CASE i = f + 1
      BY <2>4, <2>11, <3>2 DEF at, e
    <3>3. CASE i # f + 1
      <4>1. i \in 1..f
        BY <3>3 DEF e
      <4>2. QED
        BY <2>10, <2>11, <4>1
    <3>4. QED
      BY <3>2, <3>3
  <2>13. FramerHolds(k, s, before + e, q.state)
    BY <2>4, <2>8
  <2>14. q.valid <=> e = 0 \/ before + 1 - First(k) >= 0
    <3> DEFINE v == First(k)
    <3>1. v \in Int
      BY FirstIs
    <3>2. d.valid <=> f = 0 \/ before + 1 - First(k) >= 0
      BY <2>1 DEF Good, d
    <3>3. g = before + f /\ e = f + 1
      BY DEF g, e
    <3> HIDE DEF v
    <3>4. /\ d.valid <=> f = 0 \/ before + 1 - v >= 0
          /\ q.valid <=> d.valid /\ (g + 1) - v >= 0
      BY <2>8, <3>2 DEF v
    <3>5. q.valid <=> before + 1 - v >= 0
      BY <3>1, <3>3, <3>4
    <3>6. e # 0
      BY <3>3
    <3>7. QED
      BY <3>5, <3>6 DEF v
  <2>15. Good(e)
    BY <2>8, <2>11, <2>12, <2>13, <2>14 DEF Good, q, e
  <2>16. QED
    BY <2>15 DEF e
<1> HIDE DEF P
<1>11. \A f \in Nat : f \in P
  BY <1>9, <1>10, Induction
<1> HIDE DEF Good
<1>12. Good(F) /\ F # 0
  BY <1>1, <1>11 DEF P
<1>13. QED
  BY <1>4, <1>12 DEF s, Good

\* The stream of a channel with the zeros in front of it.
Padded(k, h, i) == Joint(Zeros(Padding(k)), StreamOf(h, i))

FramerInv == kernel.kind = "framer" =>
  /\ InputsAre(history, kernel.outer, kernel.frames * kernel.step)
  /\ DOMAIN state = 1..kernel.outer
  /\ \A i \in 1..kernel.outer :
       FramerHolds(kernel, Padded(kernel, history, i), kernel.frames * Len(history), state[i])
  /\ FramesExact

\* What the ops accept, for FRAMER.
LEMMA FramerFacts ==
  ASSUME kernel \in Kernels, kernel.kind = "framer"
  PROVE  IsFramer(kernel)
BY KernelAccepted DEF Accepted, FramerAccepted, Positive, IsFramer

\* The length of a padded stream.
LEMMA PaddedIs ==
  ASSUME NEW k, IsFramer(k), NEW h, InputsAre(h, k.outer, k.frames * k.step), Len(h) \in Nat,
         NEW i \in 1..k.outer
  PROVE  /\ Padded(k, h, i) \in Seq(Number)
         /\ Len(Padded(k, h, i)) = Padding(k) + k.step * (k.frames * Len(h))
<1> DEFINE z == Zeros(Padding(k))
           t == StreamOf(h, i)
<1>1. Padding(k) \in Nat
  BY PaddingIs
<1>2. z \in Seq(Number) /\ Len(z) = Padding(k)
  BY <1>1, ZerosSeq
<1>3. t \in Seq(Number) /\ Len(t) = (k.frames * k.step) * Len(h)
  BY DEF InputsAre
<1>4. (k.frames * k.step) * Len(h) = k.step * (k.frames * Len(h))
  BY DEF IsFramer
<1> HIDE DEF z, t
<1>5. Joint(z, t) \in Seq(Number) /\ Len(Joint(z, t)) = Len(z) + Len(t)
  BY <1>2, <1>3, JointSeq
<1>6. QED
  BY <1>2, <1>3, <1>4, <1>5 DEF Padded, z, t

\* An invocation of FRAMER.
LEMMA FramerEvalStep ==
  ASSUME kernel \in Kernels, calls \in Nat, FramerInv, FramerEval
  PROVE  FramerInv'
<1> DEFINE k == kernel
           outer == k.outer
           n == k.frames * k.step
           input == Fresh(outer, n)
           N == Len(history)
           g == Append(history, input)
<1>1. k.kind = "framer" /\ IsFramer(k)
  BY FramerFacts DEF FramerEval
<1>2. outer \in Nat /\ n \in Nat /\ k.frames \in Nat /\ k.step \in Nat
  BY <1>1 DEF IsFramer
<1>3. input \in Tensors(outer, n) /\ DOMAIN input = 1..outer
  <2> HIDE DEF outer, n
  <2>1. QED
    BY <1>2, FreshInput DEF Tensors
<1>4. /\ history' = g /\ kernel' = k /\ DOMAIN state' = 1..outer
      /\ \A i \in 1..outer : /\ state'[i] = FramerChannel(k, state[i], input[i]).state
                             /\ output'[i] = FramerChannel(k, state[i], input[i]).output
      /\ valid' <=> \A i \in 1..outer : FramerChannel(k, state[i], input[i]).valid
  <2> HIDE DEF input
  <2>1. QED
    BY <1>3 DEF FramerEval, Invoked, ByChannel, AllValid, input
<1>5. /\ InputsAre(history, outer, n)
      /\ \A i \in 1..outer : FramerHolds(k, Padded(k, history, i), k.frames * N, state[i])
  BY <1>1 DEF FramerInv
<1>6. /\ InputsAre(g, outer, n) /\ Len(g) = N + 1 /\ N \in Nat
      /\ \A i \in 1..outer : StreamOf(g, i) = Joint(StreamOf(history, i), input[i])
  <2> HIDE DEF outer, n, input
  <2>1. InputsAre(g, outer, n) /\ Len(g) = N + 1 /\ N \in Nat
    BY <1>2, <1>3, <1>5, InputsNext
  <2>2. \A i \in 1..outer : StreamOf(g, i) = Joint(StreamOf(history, i), input[i])
    BY <1>2, <1>3, <1>5, InputsNext
  <2>3. QED
    BY <2>1, <2>2
<1> DEFINE before == k.frames * N
<1>7. before \in Nat /\ before + k.frames = k.frames * (N + 1)
  <2> HIDE DEF N
  <2>1. QED
    BY <1>2, <1>6
<1> HIDE DEF input, g, before, N
<1>8. ASSUME NEW i \in 1..outer
      PROVE  /\ FramerHolds(k, Padded(k, g, i), before + k.frames, state'[i])
             /\ \A f \in 1..k.frames : output'[i][f] = FrameAt(k, Padded(k, g, i), before + f)
             /\ FramerChannel(k, state[i], input[i]).valid <=> before + 1 - First(k) >= 0
  <2> DEFINE base == Padded(k, history, i)
             x == input[i]
             c == state[i]
             r == FramerChannel(k, c, x)
             t == StreamOf(history, i)
             z == Zeros(Padding(k))
  <2>1. base \in Seq(Number) /\ Len(base) = Padding(k) + k.step * before
    <3>1. InputsAre(history, k.outer, k.frames * k.step) /\ Len(history) \in Nat
      BY <1>5, <1>6 DEF N
    <3> HIDE DEF n, k
    <3>2. base \in Seq(Number) /\ Len(base) = Padding(k) + k.step * (k.frames * Len(history))
      BY <1>1, <3>1, PaddedIs
    <3>3. QED
      BY <3>2 DEF before, N
  <2>2. x \in Seq(Number) /\ Len(x) = n
    <3>1. x \in [1..n -> Number]
      BY <1>3 DEF Tensors
    <3> HIDE DEF n, x
    <3>2. QED
      BY <1>2, <3>1
  <2>3. FramerHolds(k, base, before, c)
    BY <1>5 DEF before
  <2>4. Padded(k, g, i) = Joint(base, x)
    <3>1. z \in Seq(Number)
      BY <1>1, PaddingIs, ZerosSeq
    <3>2. t \in Seq(Number)
      BY <1>5 DEF InputsAre
    <3>3. StreamOf(g, i) = Joint(t, x)
      BY <1>6
    <3> HIDE DEF z, t, x
    <3>4. Joint(z, Joint(t, x)) = Joint(Joint(z, t), x)
      BY <2>2, <3>1, <3>2, JointThrice
    <3>5. Padded(k, g, i) = Joint(z, Joint(t, x))
      BY <3>3 DEF Padded, z
    <3>6. base = Joint(z, t)
      BY DEF Padded, z, t
    <3> HIDE DEF base
    <3>7. QED
      BY <3>4, <3>5, <3>6
  <2>5. state'[i] = r.state /\ output'[i] = r.output
    BY <1>4
  <2> HIDE DEF base, x, c, r, k
  <2>6. Len(x) = k.frames * k.step /\ r = FramerChannel(k, c, x)
    BY <2>2 DEF r
  <2>7. /\ FramerHolds(k, Joint(base, x), before + k.frames, r.state)
        /\ \A f \in 1..k.frames : r.output[f] = FrameAt(k, Joint(base, x), before + f)
        /\ r.valid <=> before + 1 - First(k) >= 0
    BY <1>1, <1>7, <2>1, <2>2, <2>3, <2>6, FramerChannelHolds
  <2>8. QED
    BY <2>4, <2>5, <2>7 DEF r, c, x, k
<1>9. FramesExact'
  <2>1. ASSUME NEW i \in 1..outer, NEW f \in 1..k.frames
        PROVE  LET behind == (Len(g) - 1) * k.frames + f - First(k)
                   from == behind * k.step
               IN  output'[i][f] = IF behind < 0 THEN Unwritten
                     ELSE SubSeq(Padded(k, g, i), from + 1, from + k.size)
    <3>1. First(k) \in Int
      BY <1>1, FirstIs
    <3>2. (Len(g) - 1) * k.frames = before
      <4>1. Len(g) - 1 = N
        BY <1>6
      <4>2. N * k.frames = before
        BY <1>2, <1>6 DEF before
      <4>3. QED
        BY <4>1, <4>2
    <3> DEFINE behind == (Len(g) - 1) * k.frames + f - First(k)
    <3>3. behind = (before + f) - First(k)
      <4> HIDE DEF k
      <4>1. f \in Int
        OBVIOUS
      <4>2. QED
        BY <1>7, <3>1, <3>2, <4>1
    <3>4. output'[i][f] = FrameAt(k, Padded(k, g, i), before + f)
      BY <1>8
    <3> HIDE DEF behind, k
    <3>5. output'[i][f] = IF behind < 0 THEN Unwritten
            ELSE SubSeq(Padded(k, g, i), behind * k.step + 1, behind * k.step + k.size)
      BY <3>3, <3>4 DEF FrameAt
    <3>6. QED
      BY <3>5, Zenon DEF behind
  <2> DEFINE Exact(i, f) ==
        LET behind == (Len(g) - 1) * k.frames + f - First(k)
            from == behind * k.step
        IN  output'[i][f] = IF behind < 0 THEN Unwritten
              ELSE SubSeq(Padded(k, g, i), from + 1, from + k.size)
  <2>2. \A i \in 1..outer, f \in 1..k.frames : Exact(i, f)
    BY <2>1, Zenon
  <2>3. kernel' = k /\ history' = g
    BY <1>4
  <2> DEFINE ExactFlag == valid' <=> (Len(g) - 1) * k.frames + 1 - First(k) >= 0
  <2>4. FramesExact' = (k.kind = "framer" /\ g # <<>> =>
          (\A i \in 1..outer, f \in 1..k.frames : Exact(i, f)) /\ ExactFlag)
    BY <2>3 DEF FramesExact, Invocations, Stream, Padded, Padding, First, Joint, StreamOf
  <2> HIDE DEF Exact
  <2>5. ExactFlag
    <3>1. valid' <=> before + 1 - First(k) >= 0
      <4>1. 1 \in 1..outer
        BY <1>1 DEF IsFramer
      <4>2. QED
        BY <1>4, <1>8, <4>1
    <3>2. (Len(g) - 1) * k.frames = before
      <4>1. Len(g) - 1 = N
        BY <1>6
      <4>2. N * k.frames = before
        BY <1>2, <1>6 DEF before
      <4>3. QED
        BY <4>1, <4>2
    <3>3. QED
      BY <3>1, <3>2
  <2> HIDE DEF ExactFlag
  <2>6. QED
    BY <2>2, <2>4, <2>5
<1>10. QED
  BY <1>4, <1>6, <1>7, <1>8, <1>9 DEF FramerInv

\* The buffers as Prepare and Reset leave them.
LEMMA FramerStart ==
  ASSUME NEW k, IsFramer(k), NEW c, c.capacity = FramerCapacity(k), NEW i, NEW h, h = <<>>
  PROVE  FramerHolds(k, Padded(k, h, i), 0, FramerResetState(k, c))
<1> DEFINE P == Padding(k)
           r == CircularBufferReset(c)
           z == Zeros(P)
           d == FramerResetState(k, c)
<1>1. P \in Nat /\ P < k.size /\ k.size \in Nat /\ k.step \in Nat
  BY PaddingIs DEF IsFramer
<1>2. FramerKeepsUp(k, 0, 0)
  <2>1. (0 - 0) * k.step = 0
    BY <1>1
  <2>2. QED
    BY <1>1, <2>1 DEF FramerKeepsUp
<1>3. FramerCapacity(k) \in Nat \ {0} /\ k.size <= FramerCapacity(k)
  <2> DEFINE m == 0
  <2>1. m \in Nat /\ FramerKeepsUp(k, m, m)
    BY <1>2
  <2> HIDE DEF m
  <2>2. QED
    BY <2>1, FramerFits
<1>4. z \in Seq(Number) /\ Len(z) = P
  BY <1>1, ZerosSeq
<1>5. Holds(r, <<>>, 0) /\ r.capacity = FramerCapacity(k)
  <2> DEFINE none == <<>>
             b == c.capacity
  <2>1. none \in Seq(Number) /\ Len(none) = 0 /\ b \in Nat \ {0}
    BY <1>3
  <2>2. r = CircularBufferInit(b)
    BY DEF CircularBufferReset
  <2> HIDE DEF none, b
  <2>3. Holds(CircularBufferInit(b), none, Len(none)) /\ CircularBufferInit(b).capacity = b
    BY <2>1, HoldsInit
  <2>4. QED
    BY <2>1, <2>2, <2>3 DEF none, b
<1> HIDE DEF r
<1>6. Holds(d, z, 0) /\ d.capacity = FramerCapacity(k)
  <2>1. CASE k.prefill
    <3>1. d = Write(r, z)
      BY <2>1 DEF FramerResetState, WriteZeros, Padding, r
    <3> HIDE DEF z
    <3>2. Len(z) <= CanWrite(r)
      <4>1. CanWrite(r) = r.capacity - (Len(<<>>) - 0)
        BY <1>5, HoldsFacts
      <4>2. Len(<<>>) - 0 = 0
        OBVIOUS
      <4>3. QED
        BY <1>1, <1>3, <1>4, <1>5, <4>1, <4>2
    <3>3. Holds(Write(r, z), Joint(<<>>, z), 0) /\ Write(r, z).capacity = r.capacity
      BY <1>4, <1>5, <3>2, HoldsWrite
    <3>4. Joint(<<>>, z) = z
      BY <1>4, JointEmpty
    <3>5. QED
      BY <1>5, <3>1, <3>3, <3>4 DEF z
  <2>2. CASE ~k.prefill
    <3>1. d = r /\ P = 0
      BY <2>2 DEF FramerResetState, Padding, r
    <3>2. z = <<>>
      BY <1>4, <3>1
    <3>3. QED
      BY <1>5, <3>1, <3>2
  <2>3. QED
    BY <2>1, <2>2
<1>7. Padded(k, h, i) = z
  <2> HIDE DEF z
  <2>1. Joint(z, <<>>) = z
    BY <1>4, JointEmpty
  <2>2. StreamOf(h, i) = <<>>
    BY StreamStart
  <2>3. QED
    BY <2>1, <2>2 DEF Padded, z
<1>8. Prefix(z, P + k.step * 0) = z
  <2>1. P + k.step * 0 = P
    BY <1>1
  <2> HIDE DEF z
  <2>2. Prefix(z, Len(z)) = z
    BY <1>4, PrefixAll
  <2>3. QED
    BY <1>4, <2>1, <2>2
<1> HIDE DEF d, z
<1>9. FramerHolds(k, z, 0, d)
  <2>1. k.step * 0 = 0 /\ 0 \in Nat
    BY <1>1
  <2>2. Holds(d, Prefix(z, P + k.step * 0), k.step * 0)
    BY <1>6, <1>8, <2>1
  <2>3. QED
    BY <1>2, <1>6, <2>1, <2>2 DEF FramerHolds
<1>10. QED
  BY <1>7, <1>9 DEF d

\* FRAMER after Prepare.
LEMMA FramerInit ==
  ASSUME Init
  PROVE  FramerInv
<1>1. SUFFICES ASSUME kernel.kind = "framer" PROVE FramerInv
  BY DEF FramerInv
<1>2. kernel \in Kernels /\ history = <<>> /\ IsFramer(kernel)
  BY <1>1, FramerFacts DEF Init
<1>3. state = [i \in 1..kernel.outer |->
                 FramerResetState(kernel, CircularBufferInit(FramerCapacity(kernel)))]
  BY <1>1 DEF Init, Prepared
<1>4. kernel.outer \in Nat /\ kernel.frames * kernel.step \in Nat /\ kernel.frames * 0 = 0
  BY <1>2 DEF IsFramer
<1>5. InputsAre(history, kernel.outer, kernel.frames * kernel.step) /\ Len(history) = 0
  <2> DEFINE n == kernel.frames * kernel.step
  <2>1. n \in Nat
    BY <1>4
  <2> HIDE DEF n
  <2>2. InputsAre(history, kernel.outer, n) /\ Len(history) = 0
    BY <1>2, <1>4, <2>1, InputsStart
  <2>3. QED
    BY <2>2 DEF n
<1>6. ASSUME NEW i \in 1..kernel.outer
      PROVE  FramerHolds(kernel, Padded(kernel, history, i), kernel.frames * Len(history), state[i])
  <2> DEFINE c == CircularBufferInit(FramerCapacity(kernel))
  <2>1. c.capacity = FramerCapacity(kernel)
    BY DEF CircularBufferInit
  <2>2. state[i] = FramerResetState(kernel, c)
    BY <1>3
  <2> HIDE DEF c
  <2>3. FramerHolds(kernel, Padded(kernel, history, i), 0, FramerResetState(kernel, c))
    BY <1>2, <2>1, FramerStart
  <2>4. QED
    BY <1>4, <1>5, <2>2, <2>3
<1>7. FramesExact
  BY <1>2 DEF FramesExact
<1>8. QED
  BY <1>3, <1>5, <1>6, <1>7 DEF FramerInv

\* A reset of FRAMER.
LEMMA FramerResetStep ==
  ASSUME kernel \in Kernels, FramerInv, FramerReset
  PROVE  FramerInv'
<1> DEFINE h == history'
           st == state'
<1>1. kernel.kind = "framer" /\ IsFramer(kernel) /\ kernel' = kernel /\ h = <<>>
  BY FramerFacts DEF FramerReset, Restarted
<1>2. DOMAIN state = 1..kernel.outer
      /\ \A i \in 1..kernel.outer : state[i].capacity = FramerCapacity(kernel)
  BY <1>1 DEF FramerInv, FramerHolds
<1>3. /\ DOMAIN st = 1..kernel.outer
      /\ \A i \in 1..kernel.outer : st[i] = FramerResetState(kernel, state[i])
  BY <1>2 DEF FramerReset, Restarted
<1> HIDE DEF h, st
<1>4. kernel.outer \in Nat /\ kernel.frames * kernel.step \in Nat /\ kernel.frames * 0 = 0
  BY <1>1 DEF IsFramer
<1>5. InputsAre(h, kernel.outer, kernel.frames * kernel.step) /\ Len(h) = 0
  <2> DEFINE n == kernel.frames * kernel.step
  <2>1. n \in Nat
    BY <1>4
  <2> HIDE DEF n
  <2>2. InputsAre(h, kernel.outer, n) /\ Len(h) = 0
    BY <1>1, <1>4, <2>1, InputsStart
  <2>3. QED
    BY <2>2 DEF n
<1>6. ASSUME NEW i \in 1..kernel.outer
      PROVE  FramerHolds(kernel, Padded(kernel, h, i), kernel.frames * Len(h), st[i])
  <2>1. FramerHolds(kernel, Padded(kernel, h, i), 0, FramerResetState(kernel, state[i]))
    BY <1>1, <1>2, FramerStart
  <2>2. QED
    BY <1>3, <1>4, <1>5, <2>1
<1>7. FramesExact'
  BY <1>1 DEF FramesExact, h
<1>8. QED
  BY <1>1, <1>3, <1>5, <1>6, <1>7 DEF FramerInv, h, st

\* What the framer's part of RoomForNext needs.
LEMMA FramerRoom ==
  ASSUME kernel \in Kernels, FramerInv, kernel.kind = "framer", NEW i \in DOMAIN state
  PROVE  CanWrite(state[i]) >= kernel.step
<1> DEFINE k == kernel
           c == state[i]
           s == Padded(k, history, i)
           g == k.frames * Len(history)
           n == Padding(k) + k.step * g
<1>1. IsFramer(k)
  BY FramerFacts
<1>2. i \in 1..k.outer /\ InputsAre(history, k.outer, k.frames * k.step) /\ FramerHolds(k, s, g, c)
  BY DEF FramerInv
<1>3. Len(history) \in Nat
  BY <1>2 DEF InputsAre
<1>4. g \in Nat /\ Padding(k) \in Nat /\ k.step \in Nat /\ n \in Nat
  BY SMTT(30), <1>1, <1>3, PaddingIs DEF IsFramer
<1>5. s \in Seq(Number) /\ Len(s) = n
  <2> HIDE DEF k
  <2>1. QED
    BY <1>1, <1>2, <1>3, PaddedIs
<1>6. Prefix(s, n) = s
  <2> HIDE DEF s, n
  <2>1. QED
    BY <1>5, PrefixAll
<1> HIDE DEF s, g, c, k
<1>7. PICK D \in Nat : FramerKeepsUp(k, g, D) /\ Holds(c, Prefix(s, n), k.step * D)
  BY <1>2 DEF FramerHolds
<1>8. CanWrite(c) = c.capacity - (Len(s) - k.step * D) /\ c.capacity = FramerCapacity(k)
  BY <1>2, <1>6, <1>7, HoldsFacts DEF FramerHolds
<1>9. k.step <= FramerCapacity(k) - (Padding(k) + k.step * g - k.step * D) /\ FramerCapacity(k) \in Nat
  BY <1>1, <1>4, <1>7, FramerFits
<1>10. k.step * g \in Int /\ k.step * D \in Int
  BY <1>4
<1>11. k.step <= CanWrite(c)
  <2> DEFINE e == k.step * g
             f == k.step * D
             K == FramerCapacity(k)
  <2>1. CanWrite(c) = K - (n - f) /\ n = Padding(k) + e /\ k.step <= K - (Padding(k) + e - f) /\ e \in Int /\ f \in Int
    BY <1>5, <1>8, <1>9, <1>10
  <2> HIDE DEF e, f, n, K
  <2>2. n - f = Padding(k) + e - f
    BY <1>4, <2>1
  <2>3. QED
    BY <2>1, <2>2
<1>12. QED
  <2>1. k.step \in Int /\ CanWrite(c) \in Int
    BY <1>4, <1>7, HoldsFacts
  <2>2. CanWrite(c) >= k.step
    BY <1>11, <2>1
  <2>3. QED
    BY <2>2 DEF c, k

-----------------------------------------------------------------------------
(***************************************************************************)
(* Part 10: OVERLAP_ADD.                                                   *)
(***************************************************************************)

IsOverlap(k) ==
  /\ k.size \in Nat \ {0} /\ k.step \in Nat \ {0} /\ k.step <= k.size
  /\ k.outer \in Nat \ {0} /\ k.frames \in Nat \ {0}

\* Frame g of the stream s, added to the sum at a position if it covers that position.
Added(k, s, at, g, sum) ==
  IF at - (g - 1) * k.step \in 1..k.size THEN Saturate(s[g][at - (g - 1) * k.step] + sum) ELSE sum

\* The recursive definition in OverlapAddExact, and what the first n frames sum up to.
IsSum(sum, k, s, at, n) ==
  sum = [g \in 0..n |-> IF g = 0 THEN 0 ELSE Added(k, s, at, g, sum[g - 1])]

SumOf(k, s, at, n) == (CHOOSE sum : IsSum(sum, k, s, at, n))[n]

\* There is such a running sum.
LEMMA SumExists ==
  ASSUME NEW k, NEW s, NEW at, NEW n \in Nat
  PROVE  \E sum : IsSum(sum, k, s, at, n)
<1> DEFINE Turn(v, f) == Added(k, s, at, f, v)
           P == {m \in Nat : \E d : IsSum(d, k, s, at, m)}
<1>0. \A d, m : IsSum(d, k, s, at, m) <=> d = [f \in 0..m |-> IF f = 0 THEN 0 ELSE Turn(d[f - 1], f)]
  BY DEF IsSum
<1> HIDE DEF Turn
<1>1. 0 \in P
  <2> DEFINE d == [f \in 0..0 |-> 0]
  <2>1. d = [f \in 0..0 |-> IF f = 0 THEN 0 ELSE Turn(d[f - 1], f)]
    OBVIOUS
  <2> HIDE DEF d
  <2>2. IsSum(d, k, s, at, 0)
    BY <1>0, <2>1
  <2>3. QED
    BY <2>2
<1>2. ASSUME NEW m \in Nat, m \in P
      PROVE  m + 1 \in P
  <2>1. PICK d : IsSum(d, k, s, at, m)
    BY <1>2
  <2>2. d = [f \in 0..m |-> IF f = 0 THEN 0 ELSE Turn(d[f - 1], f)]
    BY <1>0, <2>1
  <2> DEFINE g == [f \in 0..(m + 1) |-> IF f = m + 1 THEN Turn(d[m], m + 1) ELSE d[f]]
  <2>3. \A f \in 0..m : g[f] = d[f]
    OBVIOUS
  <2>4. ASSUME NEW f \in 0..(m + 1)
        PROVE  g[f] = IF f = 0 THEN 0 ELSE Turn(g[f - 1], f)
    <3>1. CASE f = m + 1
      <4>1. f # 0 /\ f - 1 = m /\ m \in 0..m
        BY <3>1
      <4>2. g[f] = Turn(d[m], f)
        BY <3>1
      <4>3. g[f - 1] = d[m]
        BY <2>3, <4>1
      <4> HIDE DEF g
      <4>4. QED
        BY <4>1, <4>2, <4>3, Zenon
    <3>2. CASE f # m + 1 /\ f # 0
      <4>1. f \in 0..m /\ f - 1 \in 0..m
        BY <3>2
      <4>2. g[f] = d[f] /\ g[f - 1] = d[f - 1]
        BY <2>3, <4>1
      <4>3. d[f] = Turn(d[f - 1], f)
        BY <2>2, <3>2, <4>1
      <4> HIDE DEF g
      <4>4. QED
        BY <3>2, <4>2, <4>3, Zenon
    <3>3. CASE f = 0
      BY <2>2, <2>3, <3>3
    <3>4. QED
      BY <3>1, <3>2, <3>3
  <2>5. g = [f \in 0..(m + 1) |-> g[f]]
    OBVIOUS
  <2> HIDE DEF g
  <2>6. g = [f \in 0..(m + 1) |-> IF f = 0 THEN 0 ELSE Turn(g[f - 1], f)]
    BY <2>4, <2>5
  <2>7. IsSum(g, k, s, at, m + 1)
    BY <1>0, <2>6
  <2>8. QED
    BY <2>7
<1> HIDE DEF P
<1>3. \A m \in Nat : m \in P
  BY <1>1, <1>2, Induction
<1>4. QED
  BY <1>3 DEF P

\* A sum is determined by the frames it is of.
SameFrames(s, t, n) == \A g \in 1..n : s[g] = t[g]

\* And only one; it does not depend on the frames that come later.
LEMMA SumOnce ==
  ASSUME NEW k, NEW s, NEW t, NEW at, NEW n \in Nat, NEW m \in Nat, n <= m,
         SameFrames(s, t, n), NEW q, NEW r, IsSum(q, k, s, at, n), IsSum(r, k, t, at, m)
  PROVE  \A g \in 0..n : q[g] = r[g]
<1> DEFINE P == {g \in Nat : g <= n => q[g] = r[g]}
<1>1. \A g \in 0..n : q[g] = IF g = 0 THEN 0 ELSE Added(k, s, at, g, q[g - 1])
  BY DEF IsSum
<1>2. \A g \in 0..m : r[g] = IF g = 0 THEN 0 ELSE Added(k, t, at, g, r[g - 1])
  BY DEF IsSum
<1>3. 0 \in P
  <2>1. 0 \in 0..n /\ 0 \in 0..m
    OBVIOUS
  <2>2. q[0] = 0 /\ r[0] = 0
    BY <1>1, <1>2, <2>1
  <2>3. QED
    BY <2>2
<1>4. ASSUME NEW g \in Nat, g \in P
      PROVE  g + 1 \in P
  <2> SUFFICES ASSUME g + 1 <= n PROVE q[g + 1] = r[g + 1]
    OBVIOUS
  <2> DEFINE e == g + 1
  <2>1. e \in 1..n /\ e \in 0..n /\ e \in 0..m /\ e # 0 /\ e - 1 = g /\ g <= n
    OBVIOUS
  <2>2. q[g] = r[g] /\ s[e] = t[e]
    BY <1>4, <2>1 DEF SameFrames
  <2>3. q[e] = Added(k, s, at, e, q[e - 1]) /\ r[e] = Added(k, t, at, e, r[e - 1])
    BY <1>1, <1>2, <2>1
  <2> HIDE DEF e
  <2>4. Added(k, s, at, e, q[g]) = Added(k, t, at, e, r[g])
    BY <2>2, Zenon DEF Added
  <2>5. QED
    BY <2>1, <2>3, <2>4 DEF e
<1> HIDE DEF P
<1>5. \A g \in Nat : g \in P
  BY <1>3, <1>4, Induction
<1>6. QED
  BY <1>5 DEF P

\* The recursion that sums follow.
LEMMA SumNext ==
  ASSUME NEW k, NEW s, NEW at, NEW n \in Nat
  PROVE  /\ SumOf(k, s, at, 0) = 0
         /\ SumOf(k, s, at, n + 1) = Added(k, s, at, n + 1, SumOf(k, s, at, n))
<1> DEFINE m == n + 1
           f == CHOOSE sum : IsSum(sum, k, s, at, 0)
           q == CHOOSE sum : IsSum(sum, k, s, at, n)
           r == CHOOSE sum : IsSum(sum, k, s, at, m)
<1>1. m \in Nat /\ n <= m /\ m # 0 /\ m - 1 = n /\ m \in 0..m /\ n \in 0..n /\ 0 \in Nat /\ 0 \in 0..0
  OBVIOUS
<1>2. SumOf(k, s, at, 0) = f[0] /\ SumOf(k, s, at, n) = q[n] /\ SumOf(k, s, at, m) = r[m]
  BY DEF SumOf
<1> HIDE DEF m
<1>3. IsSum(f, k, s, at, 0) /\ IsSum(q, k, s, at, n) /\ IsSum(r, k, s, at, m)
  BY <1>1, SumExists
<1> HIDE DEF f, q, r
<1>4. f[0] = 0
  BY <1>1, <1>3 DEF IsSum
<1>5. r[m] = Added(k, s, at, m, r[m - 1])
  BY <1>1, <1>3 DEF IsSum
<1>6. q[n] = r[n]
  <2>1. SameFrames(s, s, n)
    BY DEF SameFrames
  <2>2. \A g \in 0..n : q[g] = r[g]
    BY <1>1, <1>3, <2>1, SumOnce
  <2>3. QED
    BY <1>1, <2>2
<1>7. QED
  BY <1>1, <1>2, <1>4, <1>5, <1>6 DEF m

\* The sum over a stream and over what continues it.
LEMMA SumSame ==
  ASSUME NEW k, NEW s, NEW t, NEW at, NEW n \in Nat, SameFrames(s, t, n)
  PROVE  SumOf(k, s, at, n) = SumOf(k, t, at, n)
<1> DEFINE q == CHOOSE sum : IsSum(sum, k, s, at, n)
           r == CHOOSE sum : IsSum(sum, k, t, at, n)
<1>1. IsSum(q, k, s, at, n) /\ IsSum(r, k, t, at, n)
  BY SumExists
<1>2. SumOf(k, s, at, n) = q[n] /\ SumOf(k, t, at, n) = r[n]
  BY DEF SumOf
<1> HIDE DEF q, r
<1>3. n <= n /\ n \in 0..n
  OBVIOUS
<1>4. q[n] = r[n]
  BY <1>1, <1>3, SumOnce
<1>5. QED
  BY <1>2, <1>4

\* Nothing is added where no frame reaches yet, nor where none reaches any more.
LEMMA SumBeyond ==
  ASSUME NEW k, IsOverlap(k), NEW s, NEW at \in Nat, NEW n \in Nat, at > n * k.step + k.size
  PROVE  SumOf(k, s, at, n + 1) = 0
<1> DEFINE S == k.step
           Z == k.size
           P == {g \in Nat : g <= n + 1 => SumOf(k, s, at, g) = 0}
<1>1. S \in Nat /\ Z \in Nat
  BY DEF IsOverlap
<1>2. 0 \in P
  BY SumNext
<1>3. ASSUME NEW g \in Nat, g \in P
      PROVE  g + 1 \in P
  <2> SUFFICES ASSUME g + 1 <= n + 1 PROVE SumOf(k, s, at, g + 1) = 0
    OBVIOUS
  <2>1. SumOf(k, s, at, g) = 0 /\ n - g \in Nat
    BY <1>3
  <2>2. (g + 1) - 1 = g
    OBVIOUS
  <2>3. at - g * S \notin 1..Z
    <3>1. (n - g) * S \in Nat /\ (n - g) * S = n * S - g * S /\ n * S \in Nat /\ g * S \in Nat
      BY <1>1, <2>1
    <3> DEFINE a == n * S
               b == g * S
               d == (n - g) * S
    <3>2. d \in Nat /\ d = a - b /\ a \in Nat /\ b \in Nat /\ at > a + Z
      BY <3>1
    <3> HIDE DEF a, b, d
    <3>3. at - b > Z
      BY <1>1, <3>2
    <3>4. QED
      BY <1>1, <3>2, <3>3 DEF b
  <2>4. SumOf(k, s, at, g + 1) = Added(k, s, at, g + 1, SumOf(k, s, at, g))
    BY SumNext
  <2>5. QED
    BY <2>1, <2>2, <2>3, <2>4 DEF Added
<1> HIDE DEF P
<1>4. \A g \in Nat : g \in P
  BY <1>2, <1>3, Induction
<1>5. QED
  <2>1. n + 1 \in Nat /\ n + 1 <= n + 1
    OBVIOUS
  <2>2. QED
    BY <1>4, <2>1 DEF P

\* A sample gets nothing more once its last frame is in.
LEMMA SumSettled ==
  ASSUME NEW k, IsOverlap(k), NEW s, NEW at \in Nat, NEW n \in Nat, at <= n * k.step, NEW m \in Nat, n <= m
  PROVE  SumOf(k, s, at, m) = SumOf(k, s, at, n)
<1> DEFINE S == k.step
           P == {d \in Nat : SumOf(k, s, at, n + d) = SumOf(k, s, at, n)}
<1>1. S \in Nat
  BY DEF IsOverlap
<1>2. 0 \in P
  OBVIOUS
<1>3. ASSUME NEW d \in Nat, d \in P
      PROVE  d + 1 \in P
  <2> DEFINE g == n + d
  <2>1. SumOf(k, s, at, g) = SumOf(k, s, at, n) /\ g \in Nat /\ (g + 1) - 1 = g /\ n + (d + 1) = g + 1
    BY <1>3
  <2>2. at - g * S \notin 1..k.size
    <3>1. g * S = n * S + d * S /\ n * S \in Nat /\ d * S \in Nat
      BY <1>1
    <3> DEFINE a == n * S
               b == d * S
               c == g * S
    <3>2. c = a + b /\ a \in Nat /\ b \in Nat /\ at <= a
      BY <3>1
    <3> HIDE DEF a, b, c
    <3>3. at - c <= 0
      BY <3>2
    <3>4. QED
      BY <3>2, <3>3 DEF c
  <2> HIDE DEF g
  <2>3. SumOf(k, s, at, g + 1) = Added(k, s, at, g + 1, SumOf(k, s, at, g))
    BY <2>1, SumNext
  <2>4. SumOf(k, s, at, g + 1) = SumOf(k, s, at, g)
    BY <2>1, <2>2, <2>3 DEF Added
  <2>5. QED
    BY <2>1, <2>4
<1> HIDE DEF P
<1>4. \A d \in Nat : d \in P
  BY <1>2, <1>3, Induction
<1>5. m - n \in Nat /\ n + (m - n) = m
  OBVIOUS
<1>6. m - n \in P
  BY <1>4, <1>5
<1>7. QED
  BY <1>5, <1>6 DEF P

\* After g frames of the stream s every running sum is that of the frames before it.
OverlapHolds(k, s, g, b) ==
  /\ b \in Seq(Number) /\ Len(b) = k.size
  /\ \A p \in 1..k.size : b[p] = SumOf(k, s, g * k.step + p, g)

\* What frame g + 1 completes.
OverlapAt(k, s, g) == [j \in 1..k.step |-> SumOf(k, s, g * k.step + j, g + 1)]

\* A saturated value is a sample.
LEMMA SaturateNumber ==
  ASSUME NEW x \in Int
  PROVE  Saturate(x) \in Number
BY StreamKernelsAssumption DEF Saturate, Number

\* The frame behind the first g of the stream.
NextFrame(k, s, g, x) == x = s[g + 1] /\ x \in [1..k.size -> Int]

\* After g frames of the stream the kernel in done takes the next one.
OverlapTakes(k, s, g, done, x, r) ==
  /\ g \in Nat
  /\ OverlapHolds(k, s, g, done.state)
  /\ NextFrame(k, s, g, x)
  /\ r = OverlapAdd(k, done, x)

\* One frame.
LEMMA OverlapAddHolds ==
  ASSUME NEW k, IsOverlap(k), NEW s, NEW g, NEW done, NEW x, NEW r, OverlapTakes(k, s, g, done, x, r)
  PROVE  /\ OverlapHolds(k, s, g + 1, r.state)
         /\ r.output = Append(done.output, OverlapAt(k, s, g))
<1> DEFINE Z == k.size
           S == k.step
           b == done.state
           sum == [p \in 1..Z |-> Saturate(x[p] + b[p])]
           low == SubSeq(sum, 1, S)
           high == SubSeq(sum, S + 1, Z)
           e == g + 1
           at == g * S
<1>0. g \in Nat /\ OverlapHolds(k, s, g, b) /\ NextFrame(k, s, g, x) /\ r = OverlapAdd(k, done, x)
  BY DEF OverlapTakes
<1>1. Z \in Nat /\ S \in Nat \ {0} /\ S <= Z
  BY DEF IsOverlap
<1>2. b \in Seq(Number) /\ Len(b) = Z /\ \A p \in 1..Z : b[p] = SumOf(k, s, at + p, g)
  BY <1>0 DEF OverlapHolds
<1>3. r.state = high \o Zeros(S) /\ r.output = Append(done.output, low)
  BY <1>0 DEF OverlapAdd
<1>4. at \in Nat /\ e * S = at + S /\ e \in Nat /\ e - 1 = g
  BY <1>0, <1>1
<1> HIDE DEF b, at
<1>5. \A p \in 1..Z : x[p] + b[p] \in Int
  <2>1. x \in [1..Z -> Int] /\ b \in Seq(Int) /\ Len(b) = Z
    BY <1>0, <1>2 DEF NextFrame, Number
  <2>2. QED
    BY <1>1, <2>1
<1>6. \A p \in 1..Z : Saturate(x[p] + b[p]) \in Number
  BY <1>5, SaturateNumber
<1>7. sum \in Seq(Number) /\ Len(sum) = Z /\ \A p \in 1..Z : sum[p] = Saturate(x[p] + b[p])
  BY <1>1, <1>6
<1> HIDE DEF sum
<1>8. \A p \in 1..Z : sum[p] = SumOf(k, s, at + p, e)
  <2> SUFFICES ASSUME NEW p \in 1..Z PROVE sum[p] = SumOf(k, s, at + p, e)
    OBVIOUS
  <2> DEFINE a == at + p
  <2>1. SumOf(k, s, a, g + 1) = Added(k, s, a, g + 1, SumOf(k, s, a, g))
    BY <1>0, SumNext
  <2>2. a - at = p
    BY <1>1, <1>4
  <2> HIDE DEF e, a
  <2>3. Added(k, s, a, e, b[p]) = Saturate(s[e][p] + b[p])
    <3>1. (e - 1) * S = at
      BY <1>4 DEF at
    <3>2. a - (e - 1) * S = p
      BY <2>2, <3>1
    <3>3. QED
      BY <3>2 DEF Added
  <2>4. b[p] = SumOf(k, s, a, g) /\ sum[p] = Saturate(x[p] + b[p]) /\ s[e] = x
    BY <1>0, <1>2, <1>7 DEF NextFrame, a, e
  <2>5. QED
    BY <2>1, <2>3, <2>4 DEF e, a
<1>9. low = OverlapAt(k, s, g)
  <2>1. 1 \in 1..(Z + 1) /\ S \in (1 - 1)..Z /\ S - 1 + 1 = S
    BY <1>1
  <2>2. /\ low \in Seq(Number) /\ Len(low) = S
        /\ \A j \in 1..S : low[j] = sum[j]
    <3>1. /\ low \in Seq(Number) /\ Len(low) = S - 1 + 1
          /\ \A j \in 1..(S - 1 + 1) : low[j] = sum[1 + j - 1]
      BY <1>7, <2>1, Piece
    <3>2. \A j \in 1..S : 1 + j - 1 = j
      BY <1>1
    <3>3. QED
      BY <2>1, <3>1, <3>2
  <2> HIDE DEF low
  <2>3. low = [j \in 1..S |-> low[j]]
    BY <2>2
  <2>4. \A j \in 1..S : low[j] = SumOf(k, s, at + j, e)
    <3>1. \A j \in 1..S : j \in 1..Z
      BY <1>1
    <3>2. QED
      BY <1>8, <2>2, <3>1
  <2> HIDE DEF e
  <2>5. low = [j \in 1..S |-> SumOf(k, s, at + j, e)]
    BY <2>3, <2>4
  <2>6. QED
    BY <2>5 DEF OverlapAt, at, e
<1>10. /\ high \in Seq(Number) /\ Len(high) = Z - S
       /\ \A j \in 1..(Z - S) : high[j] = sum[S + j]
  <2>1. S + 1 \in 1..(Z + 1) /\ Z \in (S + 1 - 1)..Z /\ Z - (S + 1) + 1 = Z - S
    BY <1>1
  <2>2. /\ high \in Seq(Number) /\ Len(high) = Z - (S + 1) + 1
        /\ \A j \in 1..(Z - (S + 1) + 1) : high[j] = sum[S + 1 + j - 1]
    BY <1>7, <2>1, Piece
  <2>3. \A j \in 1..(Z - S) : S + 1 + j - 1 = S + j
    BY <1>1
  <2> HIDE DEF high
  <2>4. QED
    BY <2>1, <2>2, <2>3
<1>11. Zeros(S) \in Seq(Number) /\ Len(Zeros(S)) = S /\ \A j \in 1..S : Zeros(S)[j] = 0
  <2>1. \A j \in 1..S : Zeros(S)[j] = 0
    BY DEF Zeros
  <2>2. S \in Nat
    BY <1>1
  <2>3. QED
    BY <2>1, <2>2, ZerosSeq
<1> DEFINE z == Zeros(S)
           new == Joint(high, z)
<1> HIDE DEF high, low, z
<1>12. /\ new \in Seq(Number) /\ Len(new) = (Z - S) + S
       /\ \A j \in 1..(Z - S) : new[j] = high[j]
       /\ \A j \in 1..S : new[(Z - S) + j] = z[j]
  <2>1. /\ Joint(high, z) \in Seq(Number) /\ Len(Joint(high, z)) = Len(high) + Len(z)
        /\ \A j \in 1..Len(high) : Joint(high, z)[j] = high[j]
        /\ \A j \in 1..Len(z) : Joint(high, z)[Len(high) + j] = z[j]
    <3>1. high \in Seq(Number) /\ z \in Seq(Number)
      BY <1>10, <1>11 DEF z
    <3>2. \A j \in 1..Len(high) : Joint(high, z)[j] = high[j]
      BY <3>1, JointSeq
    <3>3. \A j \in 1..Len(z) : Joint(high, z)[Len(high) + j] = z[j]
      BY <3>1, JointSeq
    <3>4. Joint(high, z) \in Seq(Number) /\ Len(Joint(high, z)) = Len(high) + Len(z)
      BY <3>1, JointSeq
    <3>5. QED
      BY <3>2, <3>3, <3>4
  <2>2. Len(z) = S
    BY <1>11 DEF z
  <2>3. QED
    BY <1>10, <2>1, <2>2
<1>13. r.state = new
  BY <1>3 DEF Joint, z
<1> HIDE DEF new
<1>14. ASSUME NEW p \in 1..Z
       PROVE  new[p] = SumOf(k, s, e * S + p, e)
  <2>1. CASE p <= Z - S
    <3>1. p \in 1..(Z - S) /\ S + p \in 1..Z /\ at + (S + p) = e * S + p
      BY <1>0, <1>1, <1>4, <2>1
    <3>2. new[p] = sum[S + p] /\ sum[S + p] = SumOf(k, s, at + (S + p), e)
      BY <1>8, <1>10, <1>12, <3>1
    <3>3. QED
      BY <3>1, <3>2
  <2>2. CASE p > Z - S
    <3> DEFINE j == p - (Z - S)
               a == e * S + p
    <3>1. j \in 1..S /\ (Z - S) + j = p
      BY <1>1, <2>2
    <3>2. new[p] = 0
      BY <1>11, <1>12, <3>1 DEF z
    <3>3. a \in Nat /\ a > at + Z
      BY <1>0, <1>1, <1>4, <2>2
    <3>4. SumOf(k, s, a, g + 1) = 0
      <4> HIDE DEF a
      <4>1. a > g * k.step + k.size
        BY <3>3 DEF at
      <4>2. QED
        BY <1>0, <3>3, <4>1, SumBeyond
    <3>5. QED
      BY <3>2, <3>4
  <2>3. QED
    BY <1>1, <2>1, <2>2
<1>15. Len(new) = Z
  BY <1>1, <1>12
<1>16. OverlapHolds(k, s, e, r.state)
  BY <1>12, <1>13, <1>14, <1>15 DEF OverlapHolds
<1>17. QED
  BY <1>3, <1>9, <1>16

\* The kernel after each frame of an invocation.
IsOverlaps(done, k, b, x, n) ==
  done = [f \in 0..n |-> IF f = 0 THEN [state |-> b, output |-> <<>>]
                         ELSE OverlapAdd(k, done[f - 1], x[f])]

\* The recursive definition in OverlapAddChannel has a solution.
LEMMA OverlapsExist ==
  ASSUME NEW k, NEW b, NEW x, NEW n \in Nat
  PROVE  \E done : IsOverlaps(done, k, b, x, n)
<1> DEFINE Turn(d, f) == OverlapAdd(k, d, x[f])
           start == [state |-> b, output |-> <<>>]
           P == {m \in Nat : \E d : IsOverlaps(d, k, b, x, m)}
<1>0. \A d, m : IsOverlaps(d, k, b, x, m) <=> d = [f \in 0..m |-> IF f = 0 THEN start ELSE Turn(d[f - 1], f)]
  BY DEF IsOverlaps
<1> HIDE DEF Turn, start
<1>1. 0 \in P
  <2> DEFINE d == [f \in 0..0 |-> start]
  <2>1. d = [f \in 0..0 |-> IF f = 0 THEN start ELSE Turn(d[f - 1], f)]
    OBVIOUS
  <2> HIDE DEF d
  <2>2. IsOverlaps(d, k, b, x, 0)
    BY <1>0, <2>1
  <2>3. QED
    BY <2>2
<1>2. ASSUME NEW m \in Nat, m \in P
      PROVE  m + 1 \in P
  <2>1. PICK d : IsOverlaps(d, k, b, x, m)
    BY <1>2
  <2>2. d = [f \in 0..m |-> IF f = 0 THEN start ELSE Turn(d[f - 1], f)]
    BY <1>0, <2>1
  <2> DEFINE g == [f \in 0..(m + 1) |-> IF f = m + 1 THEN Turn(d[m], m + 1) ELSE d[f]]
  <2>3. \A f \in 0..m : g[f] = d[f]
    OBVIOUS
  <2>4. ASSUME NEW f \in 0..(m + 1)
        PROVE  g[f] = IF f = 0 THEN start ELSE Turn(g[f - 1], f)
    <3>1. CASE f = m + 1
      <4>1. f # 0 /\ f - 1 = m /\ m \in 0..m
        BY <3>1
      <4>2. g[f] = Turn(d[m], f)
        BY <3>1
      <4>3. g[f - 1] = d[m]
        BY <2>3, <4>1
      <4> HIDE DEF g
      <4>4. QED
        BY <4>1, <4>2, <4>3, Zenon
    <3>2. CASE f # m + 1 /\ f # 0
      <4>1. f \in 0..m /\ f - 1 \in 0..m
        BY <3>2
      <4>2. g[f] = d[f] /\ g[f - 1] = d[f - 1]
        BY <2>3, <4>1
      <4>3. d[f] = Turn(d[f - 1], f)
        BY <2>2, <3>2, <4>1
      <4> HIDE DEF g
      <4>4. QED
        BY <3>2, <4>2, <4>3, Zenon
    <3>3. CASE f = 0
      BY <2>2, <2>3, <3>3
    <3>4. QED
      BY <3>1, <3>2, <3>3
  <2>5. g = [f \in 0..(m + 1) |-> g[f]]
    OBVIOUS
  <2> HIDE DEF g
  <2>6. g = [f \in 0..(m + 1) |-> IF f = 0 THEN start ELSE Turn(g[f - 1], f)]
    BY <2>4, <2>5
  <2>7. IsOverlaps(g, k, b, x, m + 1)
    BY <1>0, <2>6
  <2>8. QED
    BY <2>7
<1> HIDE DEF P
<1>3. \A m \in Nat : m \in P
  BY <1>1, <1>2, Induction
<1>4. QED
  BY <1>3 DEF P

\* The frames x come after the first of the stream s.
NextFrames(k, s, before, x) ==
  \A f \in 1..k.frames : x[f] = s[before + f] /\ x[f] \in [1..k.size -> Int]

\* The frames of one invocation.
LEMMA OverlapAddChannelHolds ==
  ASSUME NEW k, IsOverlap(k), NEW s, NEW before \in Nat, NEW x, NextFrames(k, s, before, x),
         NEW b, OverlapHolds(k, s, before, b), NEW r, r = OverlapAddChannel(k, b, x)
  PROVE  /\ OverlapHolds(k, s, before + k.frames, r.state)
         /\ \A f \in 1..k.frames : r.output[f] = OverlapAt(k, s, before + f - 1)
<1> DEFINE F == k.frames
           done == CHOOSE d : IsOverlaps(d, k, b, x, F)
           V == {OverlapAt(k, s, before + f - 1) : f \in 1..F}
<1>1. F \in Nat \ {0}
  BY DEF IsOverlap
<1>2. r = done[F]
  BY DEF OverlapAddChannel, IsOverlaps
<1>3. IsOverlaps(done, k, b, x, F)
  <2>1. \E d : IsOverlaps(d, k, b, x, F)
    BY <1>1, OverlapsExist
  <2>2. QED
    BY <2>1
<1> HIDE DEF done
<1>4. /\ done[0] = [state |-> b, output |-> <<>>]
      /\ \A f \in 0..F : f # 0 => done[f] = OverlapAdd(k, done[f - 1], x[f])
  BY <1>1, <1>3 DEF IsOverlaps
<1> DEFINE Good(f) == /\ OverlapHolds(k, s, before + f, done[f].state)
                      /\ done[f].output \in Seq(V) /\ Len(done[f].output) = f
                      /\ \A i \in 1..f : done[f].output[i] = OverlapAt(k, s, before + i - 1)
           P == {f \in Nat : f <= F => Good(f)}
<1>5. 0 \in P
  <2>1. before + 0 = before /\ done[0].state = b /\ done[0].output = <<>>
    BY <1>4
  <2> HIDE DEF V
  <2>2. <<>> \in Seq(V) /\ Len(<<>>) = 0 /\ 1..0 = {}
    OBVIOUS
  <2>3. Good(0)
    BY <2>1, <2>2
  <2> HIDE DEF Good
  <2>4. QED
    BY <2>3
<1>6. ASSUME NEW f \in Nat, f \in P
      PROVE  f + 1 \in P
  <2> SUFFICES ASSUME f + 1 <= F PROVE Good(f + 1)
    BY SMTT(30)
  <2> DEFINE e == f + 1
             d == done[f]
             g == before + f
             y == x[e]
             q == done[e]
             at == OverlapAt(k, s, g)
  <2>1. Good(f)
    <3> HIDE DEF Good
    <3>1. QED
      BY <1>1, <1>6
  <2>2. e \in 0..F /\ e \in 1..F /\ e # 0 /\ e - 1 = f
    BY <1>1
  <2>3. q = OverlapAdd(k, d, y)
    <3>1. done[e] = OverlapAdd(k, done[e - 1], x[e])
      BY <1>4, <2>2
    <3> HIDE DEF e
    <3>2. QED
      BY <2>2, <3>1
  <2>4. g \in Nat /\ g + 1 = before + e /\ before + e - 1 = g
    OBVIOUS
  <2>5. NextFrame(k, s, g, y)
    <3> HIDE DEF e, g
    <3>1. y = s[before + e] /\ y \in [1..k.size -> Int]
      BY <2>2 DEF NextFrames
    <3>2. QED
      BY <2>4, <3>1 DEF NextFrame
  <2>6. /\ OverlapHolds(k, s, g, d.state)
        /\ d.output \in Seq(V) /\ Len(d.output) = f
        /\ \A i \in 1..f : d.output[i] = OverlapAt(k, s, before + i - 1)
    BY <2>1
  <2> HIDE DEF Good, P, e, d, g, y, q, V
  <2>7. OverlapHolds(k, s, g + 1, q.state) /\ q.output = Append(d.output, at)
    <3>1. OverlapTakes(k, s, g, d, y, q)
      BY <2>3, <2>4, <2>5, <2>6 DEF OverlapTakes
    <3>2. QED
      BY <3>1, OverlapAddHolds DEF at
  <2>8. at \in V
    <3>1. at = OverlapAt(k, s, before + e - 1)
      BY <2>4
    <3>2. QED
      BY <2>2, <3>1 DEF V
  <2> HIDE DEF at
  <2>9. /\ Append(d.output, at) \in Seq(V) /\ Len(Append(d.output, at)) = f + 1
        /\ \A i \in 1..f : Append(d.output, at)[i] = d.output[i]
        /\ Append(d.output, at)[f + 1] = at
    <3> DEFINE out == d.output
    <3>1. out \in Seq(V) /\ at \in V /\ Len(out) = f
      BY <2>6, <2>8
    <3> HIDE DEF out
    <3>2. /\ Append(out, at) \in Seq(V) /\ Len(Append(out, at)) = Len(out) + 1
          /\ \A i \in 1..Len(out) : Append(out, at)[i] = out[i]
          /\ Append(out, at)[Len(out) + 1] = at
      BY <3>1, Appended, Zenon
    <3>3. /\ Append(out, at) \in Seq(V) /\ Len(Append(out, at)) = f + 1
          /\ \A i \in 1..f : Append(out, at)[i] = out[i]
          /\ Append(out, at)[f + 1] = at
      BY <3>1, <3>2, Zenon
    <3>4. QED
      BY <3>3 DEF out
  <2>10. \A i \in 1..e : Append(d.output, at)[i] = OverlapAt(k, s, before + i - 1)
    <3>1. SUFFICES ASSUME NEW i \in 1..e PROVE Append(d.output, at)[i] = OverlapAt(k, s, before + i - 1)
      OBVIOUS
    <3>2. CASE i = f + 1
      BY <2>4, <2>9, <3>2 DEF at, e
    <3>3. CASE i # f + 1
      <4>1. i \in 1..f
        BY <3>3 DEF e
      <4>2. QED
        BY <2>6, <2>9, <4>1
    <3>4. QED
      BY <3>2, <3>3
  <2>11. OverlapHolds(k, s, before + e, q.state)
    BY <2>4, <2>7
  <2>12. Good(e)
    BY <2>7, <2>9, <2>10, <2>11 DEF Good, q, e
  <2>13. QED
    BY <2>12 DEF e
<1> HIDE DEF P
<1>7. \A f \in Nat : f \in P
  BY <1>5, <1>6, Induction
<1> HIDE DEF Good
<1>8. Good(F)
  BY <1>1, <1>7 DEF P
<1>9. QED
  BY <1>2, <1>8 DEF Good

\* The frames that a channel was given since the last reset.
FrameOf(k) == [1..k.size -> OverlapSamples]
FramesAre(h, k) ==
  /\ h \in Seq(TensorsOf(FrameOf(k), k.outer, k.frames))
  /\ \A i \in 1..k.outer : StreamOf(h, i) \in Seq(FrameOf(k)) /\ Len(StreamOf(h, i)) = k.frames * Len(h)

\* One more input continues every stream of frames.
LEMMA FramesNext ==
  ASSUME NEW k, IsOverlap(k), NEW h, FramesAre(h, k), NEW x \in TensorsOf(FrameOf(k), k.outer, k.frames)
  PROVE  /\ FramesAre(Append(h, x), k) /\ Len(Append(h, x)) = Len(h) + 1 /\ Len(h) \in Nat
         /\ \A i \in 1..k.outer : /\ StreamOf(Append(h, x), i) = Joint(StreamOf(h, i), x[i])
                                  /\ x[i] \in Seq(FrameOf(k)) /\ Len(x[i]) = k.frames
<1> DEFINE g == Append(h, x)
           E == FrameOf(k)
<1>1. /\ h \in Seq(TensorsOf(E, k.outer, k.frames)) /\ Len(h) \in Nat
      /\ k.outer \in Nat /\ k.frames \in Nat
  BY DEF FramesAre, IsOverlap
<1> HIDE DEF E
<1>2. g \in Seq(TensorsOf(E, k.outer, k.frames)) /\ Len(g) = Len(h) + 1
  BY <1>1 DEF E
<1>3. ASSUME NEW i \in 1..k.outer
      PROVE  /\ StreamOf(g, i) = Joint(StreamOf(h, i), x[i])
             /\ StreamOf(g, i) \in Seq(E) /\ Len(StreamOf(g, i)) = k.frames * Len(g)
             /\ x[i] \in Seq(E) /\ Len(x[i]) = k.frames
  <2> DEFINE s == StreamOf(h, i)
             y == x[i]
  <2>1. StreamOf(g, i) = Joint(s, y) /\ y \in Seq(E) /\ Len(y) = k.frames
    <3>1. InputBehind(E, k.outer, k.frames, h, x, i)
      BY <1>1 DEF InputBehind, E
    <3>2. QED
      BY <3>1, StreamNext
  <2>2. s \in Seq(E) /\ Len(s) = k.frames * Len(h)
    BY DEF FramesAre, E
  <2> HIDE DEF s, y, g
  <2>3. Joint(s, y) \in Seq(E) /\ Len(Joint(s, y)) = Len(s) + Len(y)
    BY <2>1, <2>2, JointSeq
  <2>4. k.frames * Len(h) + k.frames = k.frames * Len(g)
    BY <1>1, <1>2
  <2>5. QED
    BY <2>1, <2>2, <2>3, <2>4 DEF s, y
<1>4. QED
  BY <1>1, <1>2, <1>3 DEF FramesAre, E

\* Each running sum is that of the frames that reach its position so far.
OverlapAddInv == kernel.kind = "overlap_add" =>
  /\ FramesAre(history, kernel)
  /\ DOMAIN state = 1..kernel.outer
  /\ \A i \in 1..kernel.outer :
       OverlapHolds(kernel, StreamOf(history, i), kernel.frames * Len(history), state[i])
  /\ OverlapAddExact

\* What the ops accept, for OVERLAP_ADD.
LEMMA OverlapFacts ==
  ASSUME kernel \in Kernels, kernel.kind = "overlap_add"
  PROVE  IsOverlap(kernel)
BY KernelAccepted DEF Accepted, OverlapAddAccepted, Positive, IsOverlap

\* The frames of an invocation come behind the stream that the sums are of.
LEMMA OverlapJoined ==
  ASSUME NEW k, IsOverlap(k), NEW before \in Nat, NEW s \in Seq(FrameOf(k)), Len(s) = before,
         NEW x \in Seq(FrameOf(k)), Len(x) = k.frames, NEW b, OverlapHolds(k, s, before, b)
  PROVE  OverlapHolds(k, Joint(s, x), before, b) /\ NextFrames(k, Joint(s, x), before, x)
<1> DEFINE E == FrameOf(k)
           j == Joint(s, x)
<1>1. E \subseteq [1..k.size -> Int]
  <2>1. \A v \in OverlapSamples : v \in Int
    BY StreamKernelsAssumption
  <2>2. QED
    BY <2>1 DEF FrameOf
<1>2. s \in Seq(E) /\ x \in Seq(E)
  OBVIOUS
<1> HIDE DEF E
<1>3. /\ \A q \in 1..Len(s) : j[q] = s[q]
      /\ \A q \in 1..Len(x) : j[Len(s) + q] = x[q]
  <2>1. \A q \in 1..Len(s) : j[q] = s[q]
    BY <1>2, JointSeq
  <2>2. \A q \in 1..Len(x) : j[Len(s) + q] = x[q]
    <3> HIDE DEF j
    <3>1. j = s \o x /\ \A q \in 1..Len(x) : (s \o x)[Len(s) + q] = x[q]
      BY <1>2, Joined DEF j, Joint
    <3>2. QED
      BY <3>1
  <2>3. QED
    BY <2>1, <2>2
<1> HIDE DEF j
<1>4. SameFrames(s, j, before)
  BY <1>3 DEF SameFrames
<1>5. \A at : SumOf(k, s, at, before) = SumOf(k, j, at, before)
  BY <1>4, SumSame
<1>6. OverlapHolds(k, j, before, b)
  BY <1>5 DEF OverlapHolds
<1>7. ASSUME NEW f \in 1..k.frames
      PROVE  x[f] = j[before + f] /\ x[f] \in [1..k.size -> Int]
  <2>1. x[f] \in E
    BY <1>2
  <2>2. QED
    BY <1>1, <1>3, <2>1
<1>8. QED
  BY <1>6, <1>7 DEF NextFrames, j

\* What OverlapAddExact says of one sample.
ExactSum(k, s, n, out, f, j) ==
  LET at == ((n - 1) * k.frames + f - 1) * k.step + j
      Place(g) == at - (g - 1) * k.step
      sum[g \in 0..Len(s)] ==
        IF g = 0 THEN 0
        ELSE IF Place(g) \in 1..k.size THEN Saturate(s[g][Place(g)] + sum[g - 1])
        ELSE sum[g - 1]
  IN  out[f][j] = sum[Len(s)]

\* The sum of the kernel is the sum of the property.
LEMMA OverlapIsExact ==
  ASSUME NEW k, IsOverlap(k), NEW s, NEW N \in Nat, Len(s) = k.frames * (N + 1), NEW out,
         NEW f \in 1..k.frames, NEW j \in 1..k.step,
         out[f] = OverlapAt(k, s, k.frames * N + f - 1)
  PROVE  ExactSum(k, s, N + 1, out, f, j)
<1> DEFINE F == k.frames
           S == k.step
           n == F * N + f
           m == Len(s)
           at == (n - 1) * S + j
           at2 == (((N + 1) - 1) * F + f - 1) * S + j
<1>1. F \in Nat \ {0} /\ S \in Nat \ {0} /\ F * N \in Nat
  BY DEF IsOverlap
<1>2. n \in Nat /\ n - 1 \in Nat /\ m \in Nat /\ n <= m /\ n - 1 + 1 = n
  <2>1. m = F * N + F
    <3>1. m = F * (N + 1)
      OBVIOUS
    <3> HIDE DEF F, m
    <3>2. QED
      BY <1>1, <3>1, TimesNext
  <2> DEFINE a == F * N
  <2>2. a \in Nat /\ m = a + F /\ n = a + f
    BY <1>1, <2>1
  <2> HIDE DEF a, m, n
  <2>3. QED
    BY SMTT(30), <1>1, <2>2
<1>3. at2 = at
  <2>1. ((N + 1) - 1) * F = F * N
    BY <1>1
  <2> DEFINE a == F * N
             c == ((N + 1) - 1) * F
  <2>2. c = a
    BY <2>1
  <2>3. at2 = (c + f - 1) * S + j
    BY Zenon
  <2>4. n - 1 = a + f - 1
    <3>1. a \in Int /\ f \in Int /\ n = a + f
      BY <1>1
    <3> HIDE DEF a, n
    <3>2. QED
      BY <3>1
  <2>5. at = (a + f - 1) * S + j
    BY <2>4, Zenon
  <2> HIDE DEF a, c, at, at2
  <2>6. QED
    BY <2>2, <2>3, <2>5, Zenon
<1>4. at \in Nat /\ at <= n * S
  <2> DEFINE l == n - 1
             a == l * S
  <2>1. a \in Nat /\ n * S = a + S
    <3>1. l \in Nat /\ n = l + 1
      BY <1>2
    <3> HIDE DEF l, n, S
    <3>2. QED
      BY <1>1, <3>1, TimesNext
  <2>2. j \in Nat /\ j <= S
    OBVIOUS
  <2>3. at = a + j
    OBVIOUS
  <2> HIDE DEF a, l, n, at
  <2>4. QED
    BY <1>1, <2>1, <2>2, <2>3
<1>5. out[f][j] = SumOf(k, s, at, n)
  <2> DEFINE l == n - 1
  <2>1. out[f] = OverlapAt(k, s, l)
    <3> DEFINE a == F * N
    <3>1. a \in Int /\ f \in Int /\ l = (a + f) - 1
      BY <1>1
    <3>2. out[f] = OverlapAt(k, s, a + f - 1)
      BY Zenon
    <3> HIDE DEF a, l
    <3>3. l = a + f - 1
      BY <3>1
    <3>4. QED
      BY <3>2, <3>3, Zenon
  <2>2. l + 1 = n
    BY <1>2
  <2>3. OverlapAt(k, s, l)[j] = SumOf(k, s, l * S + j, l + 1)
    BY DEF OverlapAt
  <2>4. at = l * S + j
    OBVIOUS
  <2> HIDE DEF l, at, n
  <2>5. QED
    BY <2>1, <2>2, <2>3, <2>4
<1> HIDE DEF n, m
<1>6. SumOf(k, s, at, m) = SumOf(k, s, at, n)
  <2> HIDE DEF at
  <2>1. QED
    BY <1>2, <1>4, SumSettled
<1>7. ExactSum(k, s, N + 1, out, f, j) <=> out[f][j] = SumOf(k, s, at2, m)
  BY DEF ExactSum, SumOf, IsSum, Added, m
<1>8. QED
  BY <1>3, <1>5, <1>6, <1>7

\* An invocation of OVERLAP_ADD.
LEMMA OverlapAddEvalStep ==
  ASSUME kernel \in Kernels, OverlapAddInv, OverlapAddEval
  PROVE  OverlapAddInv'
<1> DEFINE k == kernel
           outer == k.outer
           N == Len(history)
           before == k.frames * N
<1>1. k.kind = "overlap_add" /\ IsOverlap(k)
  BY OverlapFacts DEF OverlapAddEval
<1>2. PICK input \in TensorsOf(FrameOf(k), outer, k.frames) :
        Invoked(input, ByChannel([i \in DOMAIN input |-> OverlapAddChannel(kernel, state[i], input[i])]))
  BY DEF OverlapAddEval, TensorsOf, FrameOf
<1> DEFINE g == Append(history, input)
<1>3. DOMAIN input = 1..outer
  BY DEF TensorsOf
<1>4. /\ history' = g /\ kernel' = k /\ DOMAIN state' = 1..outer
      /\ \A i \in 1..outer : /\ state'[i] = OverlapAddChannel(k, state[i], input[i]).state
                             /\ output'[i] = OverlapAddChannel(k, state[i], input[i]).output
  BY <1>2, <1>3 DEF Invoked, ByChannel
<1>5. /\ FramesAre(history, k)
      /\ \A i \in 1..outer : OverlapHolds(k, StreamOf(history, i), before, state[i])
  BY <1>1 DEF OverlapAddInv
<1>6. /\ FramesAre(g, k) /\ Len(g) = N + 1 /\ N \in Nat
      /\ \A i \in 1..outer : /\ StreamOf(g, i) = Joint(StreamOf(history, i), input[i])
                             /\ input[i] \in Seq(FrameOf(k)) /\ Len(input[i]) = k.frames
  <2> HIDE DEF k
  <2>1. QED
    BY <1>1, <1>5, FramesNext
<1> HIDE DEF g
<1>7. before \in Nat /\ before + k.frames = k.frames * (N + 1)
  <2> DEFINE F == k.frames
  <2>1. F \in Nat
    BY <1>1 DEF IsOverlap
  <2> HIDE DEF F, N
  <2>2. F * N \in Nat /\ F * (N + 1) = F * N + F
    BY <1>6, <2>1, TimesNext
  <2>3. QED
    BY <2>2 DEF F
<1> HIDE DEF before, N
<1>8. ASSUME NEW i \in 1..outer
      PROVE  /\ OverlapHolds(k, StreamOf(g, i), before + k.frames, state'[i])
             /\ \A f \in 1..k.frames : output'[i][f] = OverlapAt(k, StreamOf(g, i), before + f - 1)
  <2> DEFINE s == StreamOf(history, i)
             x == input[i]
             b == state[i]
             j == Joint(s, x)
             r == OverlapAddChannel(k, b, x)
  <2>1. s \in Seq(FrameOf(k)) /\ Len(s) = before /\ OverlapHolds(k, s, before, b)
    BY <1>5 DEF FramesAre, before, N
  <2>2. x \in Seq(FrameOf(k)) /\ Len(x) = k.frames /\ StreamOf(g, i) = j
    BY <1>6
  <2>3. state'[i] = r.state /\ output'[i] = r.output
    BY <1>4
  <2> HIDE DEF s, x, b, k
  <2>4. OverlapHolds(k, j, before, b) /\ NextFrames(k, j, before, x)
    BY <1>1, <1>7, <2>1, <2>2, OverlapJoined
  <2> HIDE DEF j
  <2>5. r = OverlapAddChannel(k, b, x)
    OBVIOUS
  <2> HIDE DEF r
  <2>6. /\ OverlapHolds(k, j, before + k.frames, r.state)
        /\ \A f \in 1..k.frames : r.output[f] = OverlapAt(k, j, before + f - 1)
    BY <1>1, <1>7, <2>4, <2>5, OverlapAddChannelHolds
  <2>7. QED
    BY <2>2, <2>3, <2>6
<1>9. OverlapAddExact'
  <2>1. ASSUME NEW i \in 1..outer, NEW f \in 1..k.frames, NEW j \in 1..k.step
        PROVE  ExactSum(k, StreamOf(g, i), Len(g), output'[i], f, j)
    <3>1. Len(StreamOf(g, i)) = k.frames * (N + 1)
      BY <1>6 DEF FramesAre
    <3>2. output'[i][f] = OverlapAt(k, StreamOf(g, i), k.frames * N + f - 1)
      BY <1>8 DEF before
    <3> HIDE DEF k
    <3>3. ExactSum(k, StreamOf(g, i), N + 1, output'[i], f, j)
      BY <1>1, <1>6, <3>1, <3>2, OverlapIsExact
    <3>4. QED
      BY <1>6, <3>3
  <2>2. kernel' = k /\ history' = g
    BY <1>4
  <2>3. OverlapAddExact' = (k.kind = "overlap_add" /\ g # <<>> =>
          \A i \in 1..outer, f \in 1..k.frames, j \in 1..k.step :
            ExactSum(k, StreamOf(g, i), Len(g), output'[i], f, j))
    BY <2>2 DEF OverlapAddExact, Invocations, Stream, StreamOf, ExactSum
  <2>4. QED
    BY <2>1, <2>3
<1>10. QED
  <2>1. \A i \in 1..outer : OverlapHolds(k, StreamOf(g, i), k.frames * Len(g), state'[i])
    BY <1>6, <1>7, <1>8
  <2>2. QED
    BY <1>4, <1>6, <1>9, <2>1 DEF OverlapAddInv

\* The sums as Prepare and Reset leave them.
LEMMA OverlapStart ==
  ASSUME NEW k, IsOverlap(k), NEW h, h = <<>>
  PROVE  FramesAre(h, k) /\ \A i : OverlapHolds(k, StreamOf(h, i), k.frames * Len(h), Zeros(k.size))
<1>1. Len(h) = 0 /\ k.frames * Len(h) = 0 /\ k.size \in Nat /\ \A i : StreamOf(h, i) = <<>>
  BY StreamStart DEF IsOverlap
<1>2. FramesAre(h, k)
  <2>1. h \in Seq(TensorsOf(FrameOf(k), k.outer, k.frames))
    OBVIOUS
  <2>2. <<>> \in Seq(FrameOf(k)) /\ Len(<<>>) = 0
    OBVIOUS
  <2>3. QED
    BY <1>1, <2>1, <2>2 DEF FramesAre
<1>3. Zeros(k.size) \in Seq(Number) /\ Len(Zeros(k.size)) = k.size
  BY <1>1, ZerosSeq
<1>4. \A s, at : SumOf(k, s, at, 0) = 0
  BY SumNext
<1>5. \A p \in 1..k.size : Zeros(k.size)[p] = 0
  BY DEF Zeros
<1>6. \A s : OverlapHolds(k, s, 0, Zeros(k.size))
  BY <1>3, <1>4, <1>5 DEF OverlapHolds
<1>7. QED
  BY <1>1, <1>2, <1>6

\* OVERLAP_ADD after Prepare.
LEMMA OverlapAddInit ==
  ASSUME Init
  PROVE  OverlapAddInv
<1>1. SUFFICES ASSUME kernel.kind = "overlap_add" PROVE OverlapAddInv
  BY DEF OverlapAddInv
<1>2. kernel \in Kernels /\ history = <<>> /\ IsOverlap(kernel)
  BY <1>1, OverlapFacts DEF Init
<1>3. state = [i \in 1..kernel.outer |-> Zeros(kernel.size)]
  BY <1>1 DEF Init, Prepared, OverlapAddResetState
<1>4. /\ FramesAre(history, kernel)
      /\ \A i : OverlapHolds(kernel, StreamOf(history, i), kernel.frames * Len(history), Zeros(kernel.size))
  BY <1>2, OverlapStart
<1>5. OverlapAddExact
  BY <1>2 DEF OverlapAddExact
<1>6. QED
  BY <1>3, <1>4, <1>5 DEF OverlapAddInv

\* A reset of OVERLAP_ADD.
LEMMA OverlapAddResetStep ==
  ASSUME kernel \in Kernels, OverlapAddInv, OverlapAddReset
  PROVE  OverlapAddInv'
<1> DEFINE h == history'
<1>1. kernel.kind = "overlap_add" /\ IsOverlap(kernel) /\ kernel' = kernel /\ h = <<>>
  BY OverlapFacts DEF OverlapAddReset, Restarted
<1>2. DOMAIN state = 1..kernel.outer
  BY <1>1 DEF OverlapAddInv
<1>3. state' = [i \in 1..kernel.outer |-> Zeros(kernel.size)]
  BY <1>2 DEF OverlapAddReset, Restarted, OverlapAddResetState
<1>4. /\ FramesAre(h, kernel)
      /\ \A i : OverlapHolds(kernel, StreamOf(h, i), kernel.frames * Len(h), Zeros(kernel.size))
  <2> HIDE DEF h
  <2>1. QED
    BY <1>1, OverlapStart
<1>5. OverlapAddExact'
  BY <1>1 DEF OverlapAddExact
<1>6. QED
  BY <1>1, <1>3, <1>4, <1>5 DEF OverlapAddInv

-----------------------------------------------------------------------------
(***************************************************************************)
(* Part 11: LSTM.  A tensor is handled by rows; what a row of the states   *)
(* holds is told by the inputs it was computed from.                       *)
(***************************************************************************)

IsLstm(k) ==
  /\ k.timeMajor \in BOOLEAN /\ k.batch \in Nat \ {0} /\ k.steps \in Nat \ {0}
  /\ k.inputs \in Nat \ {0} /\ k.states \in Nat \ {0}

\* A flat tensor of n elements, a row of it, and a row of states computed from the same inputs.
IsTensor(x, n) == x = [i \in 1..n |-> x[i]]
Row(x, c, r) == SubSeq(x, r * c + 1, (r + 1) * c)
RowHolds(x, c, r, seen) == \A s \in 1..c : x[r * c + s] = Element(s, seen)

\* A tensor is a sequence.
LEMMA TensorSeq ==
  ASSUME NEW n \in Nat, NEW x, IsTensor(x, n)
  PROVE  Len(x) = n /\ DOMAIN x = 1..n /\ \E V : x \in Seq(V)
<1> DEFINE V == {x[i] : i \in 1..n}
<1>1. x = [i \in 1..n |-> x[i]]
  BY DEF IsTensor
<1>2. x \in [1..n -> V]
  BY <1>1
<1> HIDE DEF V
<1>3. x \in Seq(V) /\ Len(x) = n
  BY <1>2
<1>4. QED
  BY <1>2, <1>3

\* Where the rows of a tensor of m rows of c elements lie.
LEMMA PlaceInTensor ==
  ASSUME NEW c \in Nat \ {0}, NEW m \in Nat, NEW r \in 0..(m - 1)
  PROVE  /\ r * c \in Nat /\ (r + 1) * c = r * c + c /\ r * c + c <= m * c /\ m * c \in Nat
         /\ \A s \in 1..c : r * c + s \in 1..(m * c)
<1>1. m - 1 - r \in Nat
  OBVIOUS
<1> DEFINE d == m - 1 - r
<1>2. m = r + 1 + d /\ d \in Nat
  BY <1>1
<1> HIDE DEF d
<1>3. m * c = r * c + c + d * c /\ d * c \in Nat /\ r * c \in Nat /\ (r + 1) * c = r * c + c
  BY <1>2
<1> DEFINE a == r * c
           b == d * c
           e == m * c
           l == (r + 1) * c
<1>4. e = a + c + b /\ b \in Nat /\ a \in Nat /\ l = a + c
  BY <1>3
<1> HIDE DEF a, b, e, l
<1>5. a + c <= e /\ e \in Nat /\ \A s \in 1..c : a + s \in 1..e
  BY <1>4
<1>6. QED
  BY <1>4, <1>5 DEF a, e, l

\* A piece of a tensor, under a name that the provers do not take apart, is a tensor.
Part(x, a, b) == SubSeq(x, a + 1, b)

PartInTensor(x, n, a, len, b) ==
  n \in Nat /\ IsTensor(x, n) /\ a \in Nat /\ len \in Nat /\ a + len <= n /\ b = a + len

PartElements(y, x, a, len) ==
  IsTensor(y, len) /\ Len(y) = len /\ DOMAIN y = 1..len /\ \A s \in 1..len : y[s] = x[a + s]

\* The elements of a piece.
LEMMA PartOfTensor ==
  ASSUME NEW x, NEW n, NEW a, NEW len, NEW b, PartInTensor(x, n, a, len, b)
  PROVE  PartElements(Part(x, a, b), x, a, len)
<1> DEFINE lo == a + 1
           y == Part(x, a, b)
<1>0. n \in Nat /\ IsTensor(x, n) /\ a \in Nat /\ len \in Nat /\ a + len <= n /\ b = a + len
  BY DEF PartInTensor
<1>1. y = SubSeq(x, lo, b) /\ lo \in Nat /\ lo = a + 1
  BY <1>0 DEF Part
<1>2. PICK V : x \in Seq(V) /\ Len(x) = n
  BY <1>0, TensorSeq
<1> HIDE DEF lo, y
<1>3. lo \in 1..(Len(x) + 1) /\ b \in (lo - 1)..Len(x)
  BY <1>0, <1>1, <1>2
<1>4. /\ y \in Seq(V) /\ Len(y) = b - lo + 1
      /\ \A s \in 1..(b - lo + 1) : y[s] = x[lo + s - 1]
  <2>1. SubSeq(x, lo, b) \in Seq(V) /\ Len(SubSeq(x, lo, b)) = b - lo + 1
    BY <1>2, <1>3, Piece
  <2>2. \A s \in 1..(b - lo + 1) : SubSeq(x, lo, b)[s] = x[lo + s - 1]
    BY <1>2, <1>3, Piece
  <2>3. QED
    BY <1>1, <2>1, <2>2, Zenon
<1>5. b - lo + 1 = len /\ \A s \in 1..len : lo + s - 1 = a + s
  BY <1>0, <1>1
<1>6. y \in Seq(V) /\ Len(y) = len /\ \A s \in 1..len : y[s] = x[a + s]
  BY <1>4, <1>5
<1>7. DOMAIN y = 1..len
  BY <1>6
<1>8. y = [i \in 1..len |-> y[i]]
  BY <1>6
<1>9. QED
  BY <1>6, <1>7, <1>8 DEF y, IsTensor, PartElements

\* The elements of a row.
RowInTensor(x, c, m, r) == c \in Nat \ {0} /\ m \in Nat /\ r \in 0..(m - 1) /\ IsTensor(x, m * c)

RowElements(y, x, c, r) ==
  IsTensor(y, c) /\ Len(y) = c /\ DOMAIN y = 1..c /\ \A s \in 1..c : y[s] = x[r * c + s]

\* The elements of a row.
LEMMA RowIs ==
  ASSUME NEW x, NEW c, NEW m, NEW r, RowInTensor(x, c, m, r)
  PROVE  RowElements(Row(x, c, r), x, c, r)
<1>0. c \in Nat \ {0} /\ m \in Nat /\ r \in 0..(m - 1) /\ IsTensor(x, m * c)
  BY DEF RowInTensor
<1> DEFINE n == m * c
           a == r * c
           b == (r + 1) * c
           y == Row(x, c, r)
<1>1. n \in Nat /\ a \in Nat /\ b = a + c /\ a + c <= n
  BY <1>0, PlaceInTensor
<1>2. y = Part(x, a, b) /\ IsTensor(x, n)
  BY <1>0 DEF Row, Part
<1> HIDE DEF n, a, b, y
<1>3. PartInTensor(x, n, a, c, b)
  BY <1>0, <1>1, <1>2 DEF PartInTensor
<1>4. PartElements(y, x, a, c)
  BY <1>2, <1>3, PartOfTensor
<1>5. QED
  BY <1>4 DEF y, a, PartElements, RowElements

\* The gates recover what a row of the hidden state was computed from.
StatesOf(y, c, seen) ==
  c \in Nat \ {0} /\ DOMAIN y = 1..c /\ \A s \in 1..c : y[s] = Element(s, seen)

LEMMA SeenByRow ==
  ASSUME NEW y, NEW c, NEW seen, StatesOf(y, c, seen)
  PROVE  SeenBy(y) = seen
<1>1. 1 \in 1..c /\ \A s \in 1..c : y[s] = Element(s, seen)
  BY DEF StatesOf
<1>2. y[1].seen = seen
  <2>1. y[1] = Element(1, seen)
    BY <1>1
  <2>2. Element(1, seen).seen = seen
    BY DEF Element, Cleared, Computed
  <2>3. QED
    BY <2>1, <2>2
<1>3. DOMAIN y = 1..c
  BY DEF StatesOf
<1>4. \A s \in DOMAIN y : y[s] = Element(s, y[1].seen)
  BY <1>1, <1>2, <1>3
<1>5. QED
  BY <1>2, <1>4, Zenon DEF SeenBy

\* y is x of m rows, its n rows from row h on replaced by the given values.
IsStored(y, x, values, c, m, h, n) ==
  /\ c \in Nat \ {0} /\ m \in Nat /\ h \in Nat /\ n \in Nat /\ h + n <= m
  /\ IsTensor(x, m * c) /\ IsTensor(values, n * c) /\ y = Stored(x, h * c, values)

RowsReplaced(y, x, values, c, m, h, n) ==
  /\ IsTensor(y, m * c)
  /\ \A row \in 0..(n - 1) : \A s \in 1..c : y[(h + row) * c + s] = values[row * c + s]
  /\ \A q \in 0..(m - 1) : \A s \in 1..c : q \notin h..(h + n - 1) => y[q * c + s] = x[q * c + s]

\* What replaces some rows leaves the others as they are.
LEMMA StoredReplaces ==
  ASSUME NEW y, NEW x, NEW values, NEW c, NEW m, NEW h, NEW n, IsStored(y, x, values, c, m, h, n)
  PROVE  RowsReplaced(y, x, values, c, m, h, n)
<1>0. /\ c \in Nat \ {0} /\ m \in Nat /\ h \in Nat /\ n \in Nat /\ h + n <= m
      /\ IsTensor(x, m * c) /\ IsTensor(values, n * c) /\ y = Stored(x, h * c, values)
  BY DEF IsStored
<1> DEFINE off == h * c
           size == m * c
           len == n * c
<1>1. size \in Nat /\ len \in Nat /\ off \in Nat
  BY <1>0
<1>2. Len(values) = len /\ DOMAIN x = 1..size
  <2> HIDE DEF size, len
  <2>1. IsTensor(x, size) /\ IsTensor(values, len)
    BY <1>0 DEF size, len
  <2>2. QED
    BY <1>1, <2>1, TensorSeq
<1>3. y = [i \in 1..size |-> IF i \in (off + 1)..(off + len) THEN values[i - off] ELSE x[i]]
  BY <1>0, <1>2 DEF Stored
<1>4. IsTensor(y, size)
  BY <1>3 DEF IsTensor
<1>5. ASSUME NEW row \in 0..(n - 1), NEW s \in 1..c
      PROVE  y[(h + row) * c + s] = values[row * c + s]
  <2> DEFINE a == row * c
             i == (h + row) * c + s
  <2>1. a + s \in 1..len
    BY <1>0, PlaceInTensor
  <2>2. i \in 1..size
    <3>1. h + row \in 0..(m - 1)
      BY <1>0
    <3>2. QED
      BY <1>0, <3>1, PlaceInTensor
  <2>3. i = off + (a + s)
    BY <1>0
  <2> HIDE DEF i, a, off, size, len
  <2>4. i \in (off + 1)..(off + len) /\ i - off = a + s
    BY <1>1, <2>1, <2>3
  <2>5. y[i] = values[i - off]
    BY <1>3, <2>2, <2>4
  <2>6. QED
    BY <2>4, <2>5 DEF i, a
<1>6. ASSUME NEW q \in 0..(m - 1), NEW s \in 1..c, q \notin h..(h + n - 1)
      PROVE  y[q * c + s] = x[q * c + s]
  <2> DEFINE i == q * c + s
  <2>1. i \in 1..size
    BY <1>0, PlaceInTensor
  <2>2. i \notin (off + 1)..(off + len)
    <3>1. CASE q < h
      <4>1. q \in 0..(h - 1)
        BY <1>0, <3>1
      <4>2. q * c + s \in 1..(h * c)
        BY <1>0, <4>1, PlaceInTensor
      <4> HIDE DEF len, size
      <4>3. i <= off
        BY <1>0, <4>2
      <4> HIDE DEF i, off
      <4>4. QED
        BY <1>1, <2>1, <4>3
    <3>2. CASE q >= h + n
      <4> DEFINE d == q - (h + n)
      <4>1. d \in Nat /\ q = h + n + d
        BY <1>0, <3>2
      <4> HIDE DEF d
      <4>2. q * c = h * c + n * c + d * c /\ d * c \in Nat
        BY <1>0, <4>1
      <4> DEFINE e == d * c
      <4>3. i = off + len + e + s /\ e \in Nat
        BY <1>0, <4>2
      <4> HIDE DEF i, off, len, size, e
      <4>4. i > off + len
        BY <1>1, <4>3
      <4>5. QED
        BY <1>1, <4>4
    <3>3. q < h \/ q >= h + n
      BY <1>0, <1>6
    <3> HIDE DEF i, off, len
    <3>4. QED
      BY <3>1, <3>2, <3>3
  <2> HIDE DEF i, off, len, size
  <2>3. y[i] = x[i]
    BY <1>3, <2>1, <2>2
  <2>4. QED
    BY <2>3 DEF i
<1>7. QED
  BY <1>4, <1>5, <1>6 DEF RowsReplaced

\* The kernel between two time steps: its tensors and where its offsets are, for the states at
\* row h of their tensors, for the input and the output at row r.
LstmRecord(d) ==
  d = [hidden |-> d.hidden, cell |-> d.cell, output |-> d.output, inputOffset |-> d.inputOffset,
       outputOffset |-> d.outputOffset, hiddenOffset |-> d.hiddenOffset, cellOffset |-> d.cellOffset]

LstmTensors(k, d) ==
  /\ LstmRecord(d)
  /\ IsTensor(d.hidden, k.batch * k.states) /\ IsTensor(d.cell, k.batch * k.states)
  /\ IsTensor(d.output, (k.batch * k.steps) * k.states)

LstmOffsets(k, d, h, r) ==
  /\ d.inputOffset = r * k.inputs /\ d.outputOffset = r * k.states
  /\ d.hiddenOffset = h * k.states /\ d.cellOffset = h * k.states

\* The values that a step computes, from the rows at the offsets.
LstmValues(k, input, d) ==
  LET Inputs(row) == SubSeq(input, d.inputOffset + row * k.inputs + 1,
                            d.inputOffset + (row + 1) * k.inputs)
      Hidden(row) == SubSeq(d.hidden, d.hiddenOffset + row * k.states + 1,
                            d.hiddenOffset + (row + 1) * k.states)
  IN  [i \in 1..(RowsInStep(k) * k.states) |-> LET row == RowOf(i - 1, k.states) IN
        NextCell(PlaceOf(i - 1, k.states) + 1, d.cell[d.cellOffset + i],
                 Inputs(row), SeenBy(Hidden(row)))]

\* A time step, field by field.
LEMMA LstmStepIs ==
  ASSUME NEW k, NEW input, NEW d, LstmRecord(d), NEW e, e = LstmStep(k, input, d)
  PROVE  /\ LstmRecord(e)
         /\ e.inputOffset = d.inputOffset /\ e.outputOffset = d.outputOffset
         /\ e.hiddenOffset = d.hiddenOffset /\ e.cellOffset = d.cellOffset
         /\ e.cell = Stored(d.cell, d.cellOffset, LstmValues(k, input, d))
         /\ e.hidden = Stored(d.hidden, d.hiddenOffset, LstmValues(k, input, d))
         /\ e.output = Stored(d.output, d.outputOffset,
                         SubSeq(e.hidden, d.hiddenOffset + 1, d.hiddenOffset + RowsInStep(k) * k.states))
<1> DEFINE v == LstmValues(k, input, d)
           hidden == Stored(d.hidden, d.hiddenOffset, v)
           cell == Stored(d.cell, d.cellOffset, v)
           written == Stored(d.output, d.outputOffset,
                       SubSeq(hidden, d.hiddenOffset + 1, d.hiddenOffset + RowsInStep(k) * k.states))
<1>1. e = [d EXCEPT !.cell = cell, !.hidden = hidden, !.output = written]
  BY DEF LstmStep, LstmValues
<1> HIDE DEF v, hidden, cell, written
<1>2. d = [hidden |-> d.hidden, cell |-> d.cell, output |-> d.output, inputOffset |-> d.inputOffset,
       outputOffset |-> d.outputOffset, hiddenOffset |-> d.hiddenOffset, cellOffset |-> d.cellOffset]
  BY DEF LstmRecord
<1>3. e = [hidden |-> hidden, cell |-> cell, output |-> written, inputOffset |-> d.inputOffset,
       outputOffset |-> d.outputOffset, hiddenOffset |-> d.hiddenOffset, cellOffset |-> d.cellOffset]
  BY <1>1, <1>2
<1>4. /\ e.hidden = hidden /\ e.cell = cell /\ e.output = written
      /\ e.inputOffset = d.inputOffset /\ e.outputOffset = d.outputOffset
      /\ e.hiddenOffset = d.hiddenOffset /\ e.cellOffset = d.cellOffset
  BY <1>3
<1>5. LstmRecord(e)
  BY <1>3, <1>4 DEF LstmRecord
<1>6. QED
  BY <1>4, <1>5 DEF hidden, cell, written, v

\* A step may be taken from rows h and r on: the rows of the states there were computed from
\* the inputs seen, and the rows of the inputs are in V.
LstmReady(k, input, d, h, r, seen, V) ==
  /\ LstmTensors(k, d) /\ LstmOffsets(k, d, h, r) /\ IsTensor(input, (k.batch * k.steps) * k.inputs)
  /\ h \in Nat /\ h + RowsInStep(k) <= k.batch /\ r \in Nat /\ r + RowsInStep(k) <= k.batch * k.steps
  /\ \A row \in 0..(RowsInStep(k) - 1) :
       /\ seen[row] \in Seq(V) /\ Row(input, k.inputs, r + row) \in V
       /\ RowHolds(d.hidden, k.states, h + row, seen[row])
       /\ RowHolds(d.cell, k.states, h + row, seen[row])

\* A time step handles at least one row.
LEMMA RowsInStepIs ==
  ASSUME NEW k, IsLstm(k)
  PROVE  RowsInStep(k) \in Nat \ {0}
BY DEF IsLstm, RowsInStep

\* What a time step computes was computed from one more input row.
LEMMA LstmValuesHold ==
  ASSUME NEW k, IsLstm(k), NEW input, NEW d, NEW h, NEW r, NEW seen, NEW V,
         LstmReady(k, input, d, h, r, seen, V), NEW row \in 0..(RowsInStep(k) - 1)
  PROVE  /\ IsTensor(LstmValues(k, input, d), RowsInStep(k) * k.states)
         /\ RowHolds(LstmValues(k, input, d), k.states, row,
                     Append(seen[row], Row(input, k.inputs, r + row)))
<1> DEFINE R == RowsInStep(k)
           c == k.states
           w == k.inputs
           v == LstmValues(k, input, d)
           Inputs(q) == SubSeq(input, d.inputOffset + q * w + 1, d.inputOffset + (q + 1) * w)
           Hidden(q) == SubSeq(d.hidden, d.hiddenOffset + q * c + 1, d.hiddenOffset + (q + 1) * c)
           x == Row(input, w, r + row)
           y == Row(d.hidden, c, h + row)
           new == Append(seen[row], x)
<1>1. c \in Nat \ {0} /\ w \in Nat \ {0} /\ R \in Nat \ {0} /\ k.batch \in Nat /\ h \in Nat /\ r \in Nat
      /\ row \in Nat /\ h + row \in 0..(k.batch - 1)
  BY RowsInStepIs DEF IsLstm, LstmReady
<1>2. v = [i \in 1..(R * c) |-> NextCell(PlaceOf(i - 1, c) + 1, d.cell[d.cellOffset + i],
                                         Inputs(RowOf(i - 1, c)), SeenBy(Hidden(RowOf(i - 1, c))))]
  BY DEF LstmValues
<1> HIDE DEF v, R
<1>3. IsTensor(v, R * c)
  BY <1>2 DEF IsTensor
<1>4. /\ d.inputOffset = r * w /\ d.hiddenOffset = h * c /\ d.cellOffset = h * c
      /\ seen[row] \in Seq(V) /\ x \in V
      /\ RowHolds(d.hidden, c, h + row, seen[row]) /\ RowHolds(d.cell, c, h + row, seen[row])
      /\ IsTensor(d.hidden, k.batch * c)
  BY DEF LstmReady, LstmOffsets, LstmTensors, R
<1>5. Inputs(row) = x /\ Hidden(row) = y
  <2>1. r * w + row * w = (r + row) * w /\ r * w + (row + 1) * w = (r + row + 1) * w
    BY <1>1
  <2>2. h * c + row * c = (h + row) * c /\ h * c + (row + 1) * c = (h + row + 1) * c
    BY <1>1
  <2>3. QED
    BY <1>4, <2>1, <2>2 DEF Row
<1>6. SeenBy(y) = seen[row]
  <2> DEFINE m == k.batch
             l == h + row
             z == d.hidden
  <2>1. m \in Nat /\ l \in 0..(m - 1) /\ IsTensor(z, m * c) /\ y = Row(z, c, l)
        /\ RowHolds(z, c, l, seen[row])
    BY <1>1, <1>4
  <2> HIDE DEF m, l, z, c
  <2>2. RowInTensor(z, c, m, l)
    BY <1>1, <2>1 DEF RowInTensor
  <2>3. RowElements(Row(z, c, l), z, c, l)
    BY <2>2, RowIs
  <2> HIDE DEF y
  <2>4. RowElements(y, z, c, l)
    BY <2>1, <2>3
  <2>5. StatesOf(y, c, seen[row])
    BY <1>1, <2>1, <2>4 DEF RowHolds, RowElements, StatesOf
  <2>6. QED
    BY <2>5, SeenByRow
<1> HIDE DEF x, y, Inputs, Hidden
<1>7. ASSUME NEW s \in 1..c
      PROVE  v[row * c + s] = Element(s, new)
  <2> DEFINE i == row * c + s
             e == c * row + (s - 1)
  <2>1. i \in 1..(R * c)
    <3> HIDE DEF c
    <3>1. R \in Nat /\ row \in 0..(R - 1) /\ c \in Nat \ {0} /\ s \in 1..c
      BY <1>1 DEF R
    <3>2. QED
      BY <3>1, PlaceInTensor
  <2>2. i - 1 = e /\ h * c + i = (h + row) * c + s
    BY <1>1
  <2>3. RowOf(e, c) = row /\ PlaceOf(e, c) = s - 1
    <3>1. s - 1 \in 0..(c - 1)
      BY <1>1
    <3>2. QED
      BY <1>1, <3>1, RowAndPlace
  <2>4. s - 1 + 1 = s
    OBVIOUS
  <2> HIDE DEF i, e
  <2>5. v[i] = NextCell(s, d.cell[h * c + i], x, seen[row])
    <3>1. v[i] = NextCell(PlaceOf(i - 1, c) + 1, d.cell[d.cellOffset + i],
                          Inputs(RowOf(i - 1, c)), SeenBy(Hidden(RowOf(i - 1, c))))
      BY <1>2, <2>1
    <3>2. PlaceOf(i - 1, c) + 1 = s /\ RowOf(i - 1, c) = row
      BY <2>2, <2>3, <2>4
    <3>3. QED
      BY <1>4, <1>5, <1>6, <3>1, <3>2
  <2>6. d.cell[h * c + i] = Element(s, seen[row])
    BY <1>4, <2>2 DEF RowHolds
  <2>7. new # <<>>
    BY <1>4
  <2> HIDE DEF new
  <2>8. Element(s, new) = Computed(s, new)
    BY <2>7 DEF Element
  <2>9. v[i] = Computed(s, Append(seen[row], x))
    BY <2>5, <2>6 DEF NextCell
  <2>10. QED
    BY <2>8, <2>9 DEF new, i
<1>8. QED
  BY <1>3, <1>7 DEF RowHolds, v, R, new, x

\* Some rows of a tensor are a tensor.
RowsInTensor(y, x, c, m, h, n) ==
  /\ c \in Nat \ {0} /\ m \in Nat /\ h \in Nat /\ n \in Nat /\ h + n <= m
  /\ IsTensor(x, m * c) /\ y = SubSeq(x, h * c + 1, h * c + n * c)

RowsTaken(y, x, c, h, n) ==
  /\ IsTensor(y, n * c)
  /\ \A row \in 0..(n - 1) : \A s \in 1..c : y[row * c + s] = x[(h + row) * c + s]

\* The elements of the rows.
LEMMA SomeRows ==
  ASSUME NEW y, NEW x, NEW c, NEW m, NEW h, NEW n, RowsInTensor(y, x, c, m, h, n)
  PROVE  RowsTaken(y, x, c, h, n)
<1>0. /\ c \in Nat \ {0} /\ m \in Nat /\ h \in Nat /\ n \in Nat /\ h + n <= m
      /\ IsTensor(x, m * c) /\ y = SubSeq(x, h * c + 1, h * c + n * c)
  BY DEF RowsInTensor
<1> DEFINE off == h * c
           len == n * c
           size == m * c
<1>1. off \in Nat /\ len \in Nat /\ off + len <= size /\ size \in Nat
  <2> DEFINE d == m - (h + n)
  <2>1. d \in Nat /\ m = h + n + d
    BY <1>0
  <2> HIDE DEF d
  <2>2. m * c = h * c + n * c + d * c /\ d * c \in Nat
    BY <1>0, <2>1
  <2> DEFINE e == d * c
  <2>3. size = off + len + e /\ e \in Nat /\ off \in Nat /\ len \in Nat
    BY <1>0, <2>2
  <2> HIDE DEF off, len, size, e
  <2>4. QED
    BY <2>3
<1>2. IsTensor(x, size) /\ y = Part(x, off, off + len)
  BY <1>0 DEF Part
<1> DEFINE b == off + len
<1> HIDE DEF off, len, size
<1>3. b = off + len /\ y = Part(x, off, b)
  BY <1>2
<1> HIDE DEF b
<1>4. IsTensor(y, len) /\ \A i \in 1..len : y[i] = x[off + i]
  <2>1. PartInTensor(x, size, off, len, b)
    BY <1>1, <1>2, <1>3 DEF PartInTensor
  <2>2. PartElements(y, x, off, len)
    BY <1>3, <2>1, PartOfTensor
  <2>3. QED
    BY <2>2 DEF PartElements
<1>5. ASSUME NEW row \in 0..(n - 1), NEW s \in 1..c
      PROVE  y[row * c + s] = x[(h + row) * c + s]
  <2> DEFINE i == row * c + s
  <2>1. i \in 1..len
    BY <1>0, PlaceInTensor DEF len
  <2>2. off + i = (h + row) * c + s
    BY <1>0 DEF off
  <2> HIDE DEF i
  <2>3. QED
    BY <1>4, <2>1, <2>2 DEF i
<1>6. QED
  BY <1>4, <1>5 DEF len, RowsTaken

\* What a step did to the rows it handles, and to the others.
LstmStepped(k, input, d, e, h, r, seen) ==
  /\ LstmTensors(k, e) /\ LstmOffsets(k, e, h, r)
  /\ \A row \in 0..(RowsInStep(k) - 1) :
       /\ RowHolds(e.hidden, k.states, h + row, Append(seen[row], Row(input, k.inputs, r + row)))
       /\ RowHolds(e.cell, k.states, h + row, Append(seen[row], Row(input, k.inputs, r + row)))
       /\ RowHolds(e.output, k.states, r + row, Append(seen[row], Row(input, k.inputs, r + row)))
  /\ \A q \in 0..(k.batch - 1) : q \notin h..(h + RowsInStep(k) - 1) => \A x :
       /\ RowHolds(d.hidden, k.states, q, x) => RowHolds(e.hidden, k.states, q, x)
       /\ RowHolds(d.cell, k.states, q, x) => RowHolds(e.cell, k.states, q, x)
  /\ \A q \in 0..(k.batch * k.steps - 1) : q \notin r..(r + RowsInStep(k) - 1) => \A x :
       RowHolds(d.output, k.states, q, x) => RowHolds(e.output, k.states, q, x)

\* A time step appends its input row to what the rows of the states were computed from.
LEMMA LstmStepHolds ==
  ASSUME NEW k, IsLstm(k), NEW input, NEW d, NEW h, NEW r, NEW seen, NEW V,
         LstmReady(k, input, d, h, r, seen, V), NEW e, e = LstmStep(k, input, d)
  PROVE  LstmStepped(k, input, d, e, h, r, seen)
<1> DEFINE R == RowsInStep(k)
           c == k.states
           B == k.batch
           T == k.batch * k.steps
           v == LstmValues(k, input, d)
           off == h * c
           o == SubSeq(e.hidden, off + 1, off + R * c)
           New(row) == Append(seen[row], Row(input, k.inputs, r + row))
<1>1. /\ c \in Nat \ {0} /\ R \in Nat /\ R \in Nat \ {0} /\ B \in Nat /\ T \in Nat /\ h \in Nat /\ r \in Nat
      /\ h + R <= B /\ r + R <= T
  BY RowsInStepIs DEF IsLstm, LstmReady
<1>2. /\ LstmRecord(d) /\ IsTensor(d.hidden, B * c) /\ IsTensor(d.cell, B * c) /\ IsTensor(d.output, T * c)
      /\ d.inputOffset = r * k.inputs /\ d.outputOffset = r * c
      /\ d.hiddenOffset = off /\ d.cellOffset = off
  BY DEF LstmReady, LstmOffsets, LstmTensors
<1>3. IsTensor(v, R * c) /\ \A row \in 0..(R - 1) : RowHolds(v, c, row, New(row))
  <2>1. \A row \in 0..(R - 1) : IsTensor(v, R * c) /\ RowHolds(v, c, row, New(row))
    BY LstmValuesHold
  <2>2. 0 \in 0..(R - 1)
    BY <1>1
  <2>3. QED
    BY <2>1, <2>2
<1>4. /\ LstmRecord(e)
      /\ e.inputOffset = d.inputOffset /\ e.outputOffset = d.outputOffset
      /\ e.hiddenOffset = d.hiddenOffset /\ e.cellOffset = d.cellOffset
      /\ e.cell = Stored(d.cell, off, v) /\ e.hidden = Stored(d.hidden, off, v)
      /\ e.output = Stored(d.output, r * c, o)
  BY <1>2, LstmStepIs
<1> HIDE DEF R, c, B, T, v
<1>5. /\ IsTensor(e.hidden, B * c)
      /\ \A row \in 0..(R - 1) : \A s \in 1..c : e.hidden[(h + row) * c + s] = v[row * c + s]
      /\ \A q \in 0..(B - 1) : \A s \in 1..c : q \notin h..(h + R - 1) =>
           e.hidden[q * c + s] = d.hidden[q * c + s]
  <2>1. IsStored(e.hidden, d.hidden, v, c, B, h, R)
    BY <1>1, <1>2, <1>3, <1>4 DEF IsStored
  <2>2. RowsReplaced(e.hidden, d.hidden, v, c, B, h, R)
    BY <2>1, StoredReplaces
  <2>3. QED
    BY <2>2, Zenon DEF RowsReplaced
<1>6. /\ IsTensor(e.cell, B * c)
      /\ \A row \in 0..(R - 1) : \A s \in 1..c : e.cell[(h + row) * c + s] = v[row * c + s]
      /\ \A q \in 0..(B - 1) : \A s \in 1..c : q \notin h..(h + R - 1) =>
           e.cell[q * c + s] = d.cell[q * c + s]
  <2>1. IsStored(e.cell, d.cell, v, c, B, h, R)
    BY <1>1, <1>2, <1>3, <1>4 DEF IsStored
  <2>2. RowsReplaced(e.cell, d.cell, v, c, B, h, R)
    BY <2>1, StoredReplaces
  <2>3. QED
    BY <2>2, Zenon DEF RowsReplaced
<1>7. /\ IsTensor(o, R * c)
      /\ \A row \in 0..(R - 1) : \A s \in 1..c : o[row * c + s] = e.hidden[(h + row) * c + s]
  <2> DEFINE z == e.hidden
  <2>1. o = SubSeq(z, h * c + 1, h * c + R * c) /\ IsTensor(z, B * c)
    BY <1>5
  <2> HIDE DEF o, z
  <2>2. RowsInTensor(o, z, c, B, h, R)
    BY <1>1, <2>1 DEF RowsInTensor
  <2>3. RowsTaken(o, z, c, h, R)
    BY <2>2, SomeRows
  <2>4. QED
    BY <2>3 DEF z, RowsTaken
<1> HIDE DEF o, off
<1>8. /\ IsTensor(e.output, T * c)
      /\ \A row \in 0..(R - 1) : \A s \in 1..c : e.output[(r + row) * c + s] = o[row * c + s]
      /\ \A q \in 0..(T - 1) : \A s \in 1..c : q \notin r..(r + R - 1) =>
           e.output[q * c + s] = d.output[q * c + s]
  <2>1. IsStored(e.output, d.output, o, c, T, r, R)
    BY <1>1, <1>2, <1>4, <1>7 DEF IsStored
  <2>2. RowsReplaced(e.output, d.output, o, c, T, r, R)
    BY <2>1, StoredReplaces
  <2>3. QED
    BY <2>2, Zenon DEF RowsReplaced
<1>9. ASSUME NEW row \in 0..(R - 1)
      PROVE  /\ RowHolds(e.hidden, c, h + row, New(row)) /\ RowHolds(e.cell, c, h + row, New(row))
             /\ RowHolds(e.output, c, r + row, New(row))
  <2> DEFINE new == New(row)
  <2>1. RowHolds(v, c, row, new)
    BY <1>3
  <2> HIDE DEF new
  <2>2. \A s \in 1..c : v[row * c + s] = Element(s, new)
    BY <2>1 DEF RowHolds
  <2>3. RowHolds(e.hidden, c, h + row, new)
    BY <1>5, <2>2 DEF RowHolds
  <2>4. RowHolds(e.cell, c, h + row, new)
    BY <1>6, <2>2 DEF RowHolds
  <2>5. RowHolds(e.output, c, r + row, new)
    BY <1>5, <1>7, <1>8, <2>2 DEF RowHolds
  <2>6. QED
    BY <2>3, <2>4, <2>5 DEF new
<1>10. \A q \in 0..(B - 1) : q \notin h..(h + R - 1) => \A x :
         /\ RowHolds(d.hidden, c, q, x) => RowHolds(e.hidden, c, q, x)
         /\ RowHolds(d.cell, c, q, x) => RowHolds(e.cell, c, q, x)
  BY <1>5, <1>6 DEF RowHolds
<1>11. \A q \in 0..(T - 1) : q \notin r..(r + R - 1) => \A x :
         RowHolds(d.output, c, q, x) => RowHolds(e.output, c, q, x)
  BY <1>8 DEF RowHolds
<1>12. LstmTensors(k, e)
  BY <1>4, <1>5, <1>6, <1>8 DEF LstmTensors, B, T, c
<1>13. LstmOffsets(k, e, h, r)
  BY <1>2, <1>4 DEF LstmOffsets, c, off
<1>14. QED
  BY <1>9, <1>10, <1>11, <1>12, <1>13 DEF LstmStepped, B, T, R, c

\* The order in which the rows are handled: before step n (from 0) so many time steps of a batch
\* are done, and the states of the batches from this row on come next.
TimeDone(k, b, n) ==
  IF k.timeMajor THEN n
  ELSE IF b <= RowOf(n, k.steps) THEN k.steps
  ELSE IF b = RowOf(n, k.steps) + 1 THEN PlaceOf(n, k.steps)
  ELSE 0

StateRow(k, n) == IF k.timeMajor THEN 0 ELSE RowOf(n, k.steps)
StepsOf(k) == IF k.timeMajor THEN k.steps ELSE k.batch * k.steps

\* What one step does to them.
LstmSchedule(k, n) ==
  /\ StateRow(k, n) \in Nat /\ StateRow(k, n) + RowsInStep(k) <= k.batch
  /\ n * RowsInStep(k) \in Nat /\ n * RowsInStep(k) + RowsInStep(k) <= k.batch * k.steps
  /\ \A row \in 0..(RowsInStep(k) - 1) :
       /\ TimeDone(k, StateRow(k, n) + row + 1, n) \in 0..(k.steps - 1)
       /\ RowAt(k, StateRow(k, n) + row + 1, TimeDone(k, StateRow(k, n) + row + 1, n) + 1)
            = n * RowsInStep(k) + row
       /\ TimeDone(k, StateRow(k, n) + row + 1, n + 1) = TimeDone(k, StateRow(k, n) + row + 1, n) + 1
  /\ \A b \in 1..k.batch : b - 1 \notin StateRow(k, n)..(StateRow(k, n) + RowsInStep(k) - 1) =>
       TimeDone(k, b, n + 1) = TimeDone(k, b, n)
  /\ \A b \in 1..k.batch : \A t \in 1..k.steps :
       /\ RowAt(k, b, t) \in 0..(k.batch * k.steps - 1)
       /\ RowAt(k, b, t) < (n + 1) * RowsInStep(k) =>
            \/ RowAt(k, b, t) < n * RowsInStep(k)
            \/ \E row \in 0..(RowsInStep(k) - 1) :
                 b = StateRow(k, n) + row + 1 /\ t = TimeDone(k, b, n) + 1

\* With time major inputs the n-th step takes the n-th time step of all batch rows.
LEMMA TimeMajorSchedule ==
  ASSUME NEW k, IsLstm(k), k.timeMajor, NEW n \in 0..(k.steps - 1)
  PROVE  LstmSchedule(k, n)
<1> DEFINE B == k.batch
           T == k.steps
<1>1. B \in Nat \ {0} /\ T \in Nat \ {0}
  BY DEF IsLstm
<1>2. /\ \A m : StateRow(k, m) = 0
      /\ \A b, m : TimeDone(k, b, m) = m
      /\ \A b, t : RowAt(k, b, t) = (t - 1) * B + b - 1
      /\ RowsInStep(k) = B
  BY DEF StateRow, TimeDone, RowAt, RowsInStep
<1>3. n * B \in Nat /\ n * B + B <= T * B /\ T * B = B * T /\ (n + 1) * B = n * B + B
  <2>1. n * B + B <= T * B
    BY <1>1, PlaceInTensor
  <2>2. QED
    BY <1>1, <2>1
<1>4. \A row \in 0..(B - 1) : RowAt(k, 0 + row + 1, n + 1) = n * B + row
  <2> SUFFICES ASSUME NEW row \in 0..(B - 1) PROVE (n + 1 - 1) * B + (0 + row + 1) - 1 = n * B + row
    BY <1>2
  <2>1. n + 1 - 1 = n
    OBVIOUS
  <2> DEFINE a == n * B
  <2>2. a \in Nat /\ (n + 1 - 1) * B = a
    BY <1>1, <2>1
  <2>3. row \in Int
    OBVIOUS
  <2> HIDE DEF a
  <2>4. (n + 1 - 1) * B + (0 + row + 1) - 1 = a + row
    BY <2>2, <2>3
  <2>5. QED
    BY <2>4 DEF a
<1>5. ASSUME NEW b \in 1..B, NEW t \in 1..T
      PROVE  /\ RowAt(k, b, t) \in 0..(B * T - 1)
             /\ RowAt(k, b, t) < (n + 1) * B => RowAt(k, b, t) < n * B \/ t = n + 1
  <2> DEFINE q == t - 1
             a == q * B
             z == B * T
  <2>1. q \in 0..(T - 1) /\ b \in Nat /\ b - 1 \in 0..(B - 1)
    BY <1>1
  <2>2. a \in Nat /\ a + B <= z /\ z \in Nat
    BY <1>1, <1>3, <2>1, PlaceInTensor
  <2>3. RowAt(k, b, t) = a + b - 1
    BY <1>2
  <2>4. RowAt(k, b, t) \in 0..(z - 1)
    <3> HIDE DEF a, z
    <3>1. QED
      BY <1>1, <2>1, <2>2, <2>3
  <2>5. CASE q < n
    <3>1. q \in 0..(n - 1)
      BY <2>1, <2>5
    <3>2. a + B <= n * B
      BY <1>1, <3>1, PlaceInTensor
    <3> DEFINE m == n * B
    <3> HIDE DEF a, m
    <3>3. a + b - 1 < m
      BY <1>1, <1>3, <2>1, <2>2, <3>2 DEF m
    <3>4. QED
      BY <2>3, <2>4, <3>3 DEF m
  <2>6. CASE q = n
    BY <2>4, <2>6
  <2>7. CASE q > n
    <3>1. n + 1 \in 0..q
      BY <2>1, <2>7
    <3> DEFINE d == q - (n + 1)
    <3>2. d \in Nat /\ q = (n + 1) + d
      BY <2>1, <2>7
    <3> HIDE DEF d, q
    <3>3. a = (n + 1) * B + d * B /\ d * B \in Nat
      BY <1>1, <3>2
    <3> DEFINE m == (n + 1) * B
               e == d * B
    <3>4. a = m + e /\ e \in Nat /\ m \in Nat
      BY <1>1, <3>3
    <3> HIDE DEF a, m, e
    <3>5. ~(a + b - 1 < m)
      BY <2>1, <3>4
    <3>6. QED
      BY <2>3, <2>4, <3>5 DEF m
  <2>8. QED
    BY <2>1, <2>5, <2>6, <2>7
<1>6. ASSUME NEW b \in 1..B
      PROVE  b - 1 \in 0..(B - 1) /\ b = 0 + (b - 1) + 1
  BY <1>1
<1>7. \A b \in 1..B : \A t \in 1..T :
        t = n + 1 => \E row \in 0..(B - 1) : b = 0 + row + 1 /\ t = n + 1
  BY <1>6
<1> HIDE DEF B, T
<1>8. n * B \in Nat /\ n * B + B <= B * T
  BY <1>3
<1>9. 0 + B <= B /\ 0 + B - 1 = B - 1
  BY <1>1
<1>10. n \in 0..(T - 1)
  BY DEF T
<1>11. \A b \in 1..B : b - 1 \notin 0..(0 + B - 1) => FALSE
  BY <1>6, <1>9
<1>12. QED
  BY <1>2, <1>4, <1>5, <1>7, <1>8, <1>9, <1>10, <1>11 DEF LstmSchedule, B, T

\* With batch major inputs it takes one time step of one batch row, row after row.
LEMMA BatchMajorSchedule ==
  ASSUME NEW k, IsLstm(k), ~k.timeMajor, NEW n \in 0..(k.batch * k.steps - 1)
  PROVE  LstmSchedule(k, n)
<1> DEFINE B == k.batch
           T == k.steps
           q == RowOf(n, T)
           p == PlaceOf(n, T)
           q2 == RowOf(n + 1, T)
           p2 == PlaceOf(n + 1, T)
<1>1. B \in Nat \ {0} /\ T \in Nat \ {0} /\ B * T \in Nat /\ n \in Nat /\ n + 1 <= B * T
  BY DEF IsLstm
<1>2. q \in 0..(B - 1) /\ p \in 0..(T - 1) /\ n = T * q + p
  BY <1>1, RowInRange
<1> HIDE DEF q, p
<1>3. \/ p + 1 < T /\ q2 = q /\ p2 = p + 1
      \/ p + 1 = T /\ q2 = q + 1 /\ p2 = 0
  <2>1. CASE p + 1 < T
    <3>1. p + 1 \in 0..(T - 1) /\ q \in Nat
      BY <1>1, <1>2, <2>1
    <3>2. n + 1 = T * q + (p + 1)
      BY <1>1, <1>2
    <3>3. RowOf(T * q + (p + 1), T) = q /\ PlaceOf(T * q + (p + 1), T) = p + 1
      BY <1>1, <3>1, RowAndPlace
    <3>4. QED
      BY <2>1, <3>2, <3>3
  <2>2. CASE p + 1 = T
    <3>1. 0 \in 0..(T - 1) /\ q + 1 \in Nat
      BY <1>1, <1>2
    <3>2. n + 1 = T * (q + 1) + 0
      <4> HIDE DEF T
      <4>1. T * (q + 1) = T * q + T /\ T * q \in Nat
        BY <1>1, <1>2, TimesNext
      <4> DEFINE a == T * q
                 e == T * (q + 1)
      <4>2. e = a + T /\ a \in Nat /\ n = a + p
        BY <1>2, <4>1
      <4> HIDE DEF a, e
      <4>3. n + 1 = e + 0
        BY <1>1, <1>2, <2>2, <4>2
      <4>4. QED
        BY <4>3 DEF e
    <3>3. RowOf(T * (q + 1) + 0, T) = q + 1 /\ PlaceOf(T * (q + 1) + 0, T) = 0
      BY <1>1, <3>1, RowAndPlace
    <3>4. QED
      BY <2>2, <3>2, <3>3
  <2> HIDE DEF T, q2, p2
  <2>3. p + 1 < T \/ p + 1 = T
    BY <1>1, <1>2
  <2>4. QED
    BY <2>1, <2>2, <2>3
<1>4. /\ StateRow(k, n) = q /\ RowsInStep(k) = 1
      /\ \A b : TimeDone(k, b, n) = IF b <= q THEN T ELSE IF b = q + 1 THEN p ELSE 0
      /\ \A b : TimeDone(k, b, n + 1) = IF b <= q2 THEN T ELSE IF b = q2 + 1 THEN p2 ELSE 0
      /\ \A b, t : RowAt(k, b, t) = (b - 1) * T + t - 1
  BY DEF StateRow, RowsInStep, TimeDone, RowAt, q, p
<1> HIDE DEF q2, p2
<1>5. q + 0 + 1 = q + 1 /\ n * 1 = n /\ n + 0 = n /\ q + 1 - 1 = q /\ 0..(1 - 1) = {0}
      /\ q \in Nat /\ p \in Nat
  BY <1>1, <1>2
<1>6. TimeDone(k, q + 1, n) = p
  BY <1>4, <1>5
<1>7. RowAt(k, q + 1, p + 1) = n
  <2>1. RowAt(k, q + 1, p + 1) = ((q + 1) - 1) * T + (p + 1) - 1
    BY <1>4
  <2>2. ((q + 1) - 1) * T = T * q
    BY <1>1, <1>5
  <2> DEFINE a == T * q
             c == ((q + 1) - 1) * T
  <2>3. c = a /\ a \in Int /\ n = a + p
    BY <1>1, <1>2, <1>5, <2>2
  <2> HIDE DEF a, c
  <2>4. c + (p + 1) - 1 = n
    BY <1>5, <2>3
  <2>5. QED
    BY <2>1, <2>4 DEF c
<1>8. TimeDone(k, q + 1, n + 1) = p + 1
  <2>1. CASE q2 = q /\ p2 = p + 1
    BY <1>4, <1>5, <2>1
  <2>2. CASE q2 = q + 1 /\ p + 1 = T
    BY <1>4, <1>5, <2>2
  <2>3. QED
    BY <1>3, <2>1, <2>2
<1>9. ASSUME NEW b \in 1..B, b - 1 # q
      PROVE  TimeDone(k, b, n + 1) = TimeDone(k, b, n)
  <2>1. b # q + 1 /\ b \in Nat
    BY <1>5, <1>9
  <2>2. CASE q2 = q
    BY <1>4, <1>5, <2>1, <2>2
  <2>3. CASE q2 = q + 1 /\ p2 = 0
    BY <1>4, <1>5, <2>1, <2>3
  <2>4. QED
    BY <1>3, <2>2, <2>3
<1>10. ASSUME NEW b \in 1..B, NEW t \in 1..T
       PROVE  /\ RowAt(k, b, t) \in 0..(B * T - 1)
              /\ RowAt(k, b, t) < n + 1 => RowAt(k, b, t) < n \/ (b = q + 1 /\ t = p + 1)
  <2> DEFINE r == b - 1
             a == r * T
             z == B * T
             l == RowAt(k, b, t)
  <2>1. r \in 0..(B - 1) /\ r \in Nat /\ t - 1 \in 0..(T - 1)
    BY <1>1
  <2>2. a \in Nat /\ a + T <= z /\ z \in Nat
    BY <1>1, <2>1, PlaceInTensor
  <2>3. l = a + t - 1
    BY <1>4
  <2>4. l \in 0..(z - 1)
    <3> HIDE DEF a, z, l
    <3>1. QED
      BY <1>1, <2>1, <2>2, <2>3
  <2>5. ASSUME l = n
        PROVE  b = q + 1 /\ t = p + 1
    <3>1. n = T * r + (t - 1)
      <4>1. T * r = a
        BY <1>1, <2>1
      <4> HIDE DEF a, l, r
      <4>2. QED
        BY <1>1, <2>2, <2>3, <2>5, <4>1
    <3>2. RowOf(T * r + (t - 1), T) = r /\ PlaceOf(T * r + (t - 1), T) = t - 1
      BY <1>1, <2>1, RowAndPlace
    <3>3. q = r /\ p = t - 1
      BY <3>1, <3>2 DEF q, p
    <3>4. QED
      BY <1>1, <3>3
  <2> HIDE DEF l
  <2>6. l < n + 1 => l < n \/ l = n
    <3> HIDE DEF z
    <3>1. QED
      BY <1>1, <2>4
  <2>7. QED
    BY <2>4, <2>5, <2>6 DEF l
<1> HIDE DEF B, T
<1>11. /\ StateRow(k, n) \in Nat /\ StateRow(k, n) + RowsInStep(k) <= B
       /\ n * RowsInStep(k) \in Nat /\ n * RowsInStep(k) + RowsInStep(k) <= B * T
  BY <1>1, <1>2, <1>4, <1>5
<1>12. ASSUME NEW row \in 0..(RowsInStep(k) - 1)
       PROVE  /\ TimeDone(k, StateRow(k, n) + row + 1, n) \in 0..(T - 1)
              /\ RowAt(k, StateRow(k, n) + row + 1, TimeDone(k, StateRow(k, n) + row + 1, n) + 1)
                   = n * RowsInStep(k) + row
              /\ TimeDone(k, StateRow(k, n) + row + 1, n + 1) = TimeDone(k, StateRow(k, n) + row + 1, n) + 1
  <2>1. row = 0 /\ StateRow(k, n) + row + 1 = q + 1 /\ n * RowsInStep(k) + row = n
    BY <1>4, <1>5
  <2>2. QED
    BY <1>2, <1>6, <1>7, <1>8, <2>1
<1>13. ASSUME NEW b \in 1..B, b - 1 \notin StateRow(k, n)..(StateRow(k, n) + RowsInStep(k) - 1)
       PROVE  TimeDone(k, b, n + 1) = TimeDone(k, b, n)
  <2>1. b - 1 # q
    BY <1>4, <1>5, <1>13
  <2>2. QED
    BY <1>9, <2>1
<1>14. ASSUME NEW b \in 1..B, NEW t \in 1..T
       PROVE  /\ RowAt(k, b, t) \in 0..(B * T - 1)
              /\ RowAt(k, b, t) < (n + 1) * RowsInStep(k) =>
                   \/ RowAt(k, b, t) < n * RowsInStep(k)
                   \/ \E row \in 0..(RowsInStep(k) - 1) :
                        b = StateRow(k, n) + row + 1 /\ t = TimeDone(k, b, n) + 1
  <2>1. (n + 1) * RowsInStep(k) = n + 1 /\ n * RowsInStep(k) = n /\ 0 \in 0..(RowsInStep(k) - 1)
        /\ StateRow(k, n) + 0 + 1 = q + 1
    BY <1>1, <1>4, <1>5
  <2>2. b = q + 1 /\ t = p + 1 => b = StateRow(k, n) + 0 + 1 /\ t = TimeDone(k, b, n) + 1
    BY <1>6, <2>1
  <2>3. QED
    BY <1>10, <2>1, <2>2
<1>15. QED
  BY <1>11, <1>12, <1>13, <1>14 DEF LstmSchedule, B, T

\* The schedule of either layout.
LEMMA ScheduleHolds ==
  ASSUME NEW k, IsLstm(k), NEW n \in 0..(StepsOf(k) - 1)
  PROVE  LstmSchedule(k, n)
<1>1. CASE k.timeMajor
  BY <1>1, TimeMajorSchedule DEF StepsOf
<1>2. CASE ~k.timeMajor
  BY <1>2, BatchMajorSchedule DEF StepsOf
<1>3. QED
  BY <1>1, <1>2

\* Before the first step nothing is done; after the last one everything is.
LEMMA ScheduleEnds ==
  ASSUME NEW k, IsLstm(k)
  PROVE  /\ StepsOf(k) \in Nat \ {0} /\ StepsOf(k) * RowsInStep(k) = k.batch * k.steps
         /\ StateRow(k, 0) = 0
         /\ \A b \in 1..k.batch : TimeDone(k, b, 0) = 0 /\ TimeDone(k, b, StepsOf(k)) = k.steps
<1> DEFINE B == k.batch
           T == k.steps
<1>1. B \in Nat \ {0} /\ T \in Nat \ {0} /\ B * T \in Nat /\ B * T # 0 /\ B * T = T * B
  BY DEF IsLstm
<1>2. RowOf(0, T) = 0 /\ PlaceOf(0, T) = 0
  <2>1. 0 \in Nat /\ 0 \in 0..(T - 1) /\ T * 0 + 0 = 0
    BY <1>1
  <2>2. RowOf(T * 0 + 0, T) = 0 /\ PlaceOf(T * 0 + 0, T) = 0
    BY <1>1, <2>1, RowAndPlace
  <2>3. QED
    BY <2>1, <2>2
<1>3. RowOf(B * T, T) = B /\ PlaceOf(B * T, T) = 0
  <2>1. B \in Nat /\ 0 \in 0..(T - 1) /\ T * B + 0 = B * T
    BY <1>1
  <2>2. RowOf(T * B + 0, T) = B /\ PlaceOf(T * B + 0, T) = 0
    BY <1>1, <2>1, RowAndPlace
  <2>3. QED
    BY <2>1, <2>2
<1>4. CASE k.timeMajor
  BY <1>1, <1>4 DEF StepsOf, RowsInStep, StateRow, TimeDone
<1>5. CASE ~k.timeMajor
  <2>1. \A b \in 1..B : ~(b <= 0) /\ b <= B
    BY <1>1
  <2>2. \A b \in 1..B : TimeDone(k, b, 0) = 0 /\ TimeDone(k, b, B * T) = T
    BY <1>2, <1>3, <1>5, <2>1 DEF TimeDone
  <2>3. StepsOf(k) = B * T /\ RowsInStep(k) = 1 /\ StateRow(k, 0) = 0
    BY <1>2, <1>5 DEF StepsOf, RowsInStep, StateRow
  <2>4. B * T * 1 = B * T
    BY <1>1
  <2>5. QED
    BY <1>1, <2>2, <2>3, <2>4
<1>6. QED
  BY <1>4, <1>5

\* The states move to the next batch behind the last time step of one.
LEMMA StateRowNext ==
  ASSUME NEW k, IsLstm(k), NEW n \in Nat
  PROVE  StateRow(k, n + 1) = IF ~k.timeMajor /\ (n + 1) % k.steps = 0 THEN StateRow(k, n) + 1
                              ELSE StateRow(k, n)
<1> DEFINE T == k.steps
           q == RowOf(n, T)
           p == PlaceOf(n, T)
<1>1. T \in Nat \ {0}
  BY DEF IsLstm
<1>2. CASE k.timeMajor
  BY <1>2 DEF StateRow
<1>3. CASE ~k.timeMajor
  <2>1. q \in Nat /\ p \in 0..(T - 1) /\ n = T * q + p
    <3> DEFINE m == n + 1
    <3>1. m \in Nat /\ n \in 0..(m * T - 1)
      <4>1. m * T >= m
        <5>1. m * T = n * T + T /\ n * T >= n
          <6>1. T - 1 \in Nat
            BY <1>1
          <6>2. n * (T - 1) \in Nat /\ n * (T - 1) = n * T - n
            BY <1>1, <6>1
          <6>3. QED
            BY <1>1, <6>2
        <5>2. QED
          BY <1>1, <5>1
      <4>2. QED
        BY <1>1, <4>1
    <3>2. RowOf(n, T) \in 0..(m - 1) /\ PlaceOf(n, T) \in 0..(T - 1) /\ n = T * RowOf(n, T) + PlaceOf(n, T)
      BY <1>1, <3>1, RowInRange
    <3>3. QED
      BY <3>2
  <2> HIDE DEF q, p
  <2>2. CASE p + 1 < T
    <3>1. p + 1 \in 0..(T - 1) /\ n + 1 = T * q + (p + 1) /\ p + 1 # 0
      BY <1>1, <2>1, <2>2
    <3>2. RowOf(T * q + (p + 1), T) = q /\ PlaceOf(T * q + (p + 1), T) = p + 1
      BY <1>1, <2>1, <3>1, RowAndPlace
    <3>3. RowOf(n + 1, T) = q /\ (n + 1) % T # 0
      BY <3>1, <3>2 DEF PlaceOf
    <3>4. QED
      BY <1>3, <3>3 DEF StateRow, q
  <2>3. CASE p + 1 = T
    <3>1. 0 \in 0..(T - 1) /\ q + 1 \in Nat /\ n + 1 = T * (q + 1) + 0
      BY <1>1, <2>1, <2>3
    <3>2. RowOf(T * (q + 1) + 0, T) = q + 1 /\ PlaceOf(T * (q + 1) + 0, T) = 0
      BY <1>1, <3>1, RowAndPlace
    <3>3. RowOf(n + 1, T) = q + 1 /\ (n + 1) % T = 0
      BY <3>1, <3>2 DEF PlaceOf
    <3>4. QED
      BY <1>3, <3>3 DEF StateRow, q
  <2>4. p + 1 < T \/ p + 1 = T
    <3> HIDE DEF T
    <3>1. QED
      BY <1>1, <2>1
  <2>5. QED
    BY <2>2, <2>3, <2>4, Zenon
<1>4. QED
  BY <1>2, <1>3, Zenon

\* No two time steps lie in the same row.
LEMMA RowAtOnce ==
  ASSUME NEW k, IsLstm(k), NEW b \in 1..k.batch, NEW t \in 1..k.steps,
         NEW c \in 1..k.batch, NEW u \in 1..k.steps, RowAt(k, b, t) = RowAt(k, c, u)
  PROVE  b = c /\ t = u
<1> DEFINE B == k.batch
           T == k.steps
<1>1. B \in Nat \ {0} /\ T \in Nat \ {0}
  BY DEF IsLstm
<1>2. /\ b - 1 \in Nat /\ c - 1 \in Nat /\ b - 1 \in 0..(B - 1) /\ c - 1 \in 0..(B - 1)
      /\ t - 1 \in Nat /\ u - 1 \in Nat /\ t - 1 \in 0..(T - 1) /\ u - 1 \in 0..(T - 1)
  BY <1>1
<1>3. CASE k.timeMajor
  <2>1. B * (t - 1) + (b - 1) = B * (u - 1) + (c - 1)
    <3>1. (t - 1) * B + b - 1 = (u - 1) * B + c - 1
      BY <1>3 DEF RowAt
    <3>2. QED
      BY <1>1, <1>2, <3>1
  <2>2. /\ RowOf(B * (t - 1) + (b - 1), B) = t - 1 /\ PlaceOf(B * (t - 1) + (b - 1), B) = b - 1
        /\ RowOf(B * (u - 1) + (c - 1), B) = u - 1 /\ PlaceOf(B * (u - 1) + (c - 1), B) = c - 1
    BY <1>1, <1>2, RowAndPlace
  <2>3. t - 1 = u - 1 /\ b - 1 = c - 1
    BY <2>1, <2>2
  <2>4. QED
    BY <2>3
<1>4. CASE ~k.timeMajor
  <2>1. T * (b - 1) + (t - 1) = T * (c - 1) + (u - 1)
    <3>1. (b - 1) * T + t - 1 = (c - 1) * T + u - 1
      BY <1>4 DEF RowAt
    <3>2. QED
      BY <1>1, <1>2, <3>1
  <2>2. /\ RowOf(T * (b - 1) + (t - 1), T) = b - 1 /\ PlaceOf(T * (b - 1) + (t - 1), T) = t - 1
        /\ RowOf(T * (c - 1) + (u - 1), T) = c - 1 /\ PlaceOf(T * (c - 1) + (u - 1), T) = u - 1
    BY <1>1, <1>2, RowAndPlace
  <2>3. t - 1 = u - 1 /\ b - 1 = c - 1
    BY <2>1, <2>2
  <2>4. QED
    BY <2>3
<1>5. QED
  BY <1>3, <1>4

\* The inputs of a batch, its rows up to one.
InputRow(s, k, m) == SubSeq(s, (m - 1) * k.inputs + 1, m * k.inputs)
Seen(s, k, n) == [m \in 1..n |-> InputRow(s, k, m)]

\* One more input row seen.
LEMMA SeenNext ==
  ASSUME NEW s, NEW k, NEW n \in Nat, NEW V, \A m \in Nat : InputRow(s, k, m) \in V
  PROVE  Seen(s, k, n) \in Seq(V) /\ Append(Seen(s, k, n), InputRow(s, k, n + 1)) = Seen(s, k, n + 1)
<1> DEFINE a == Seen(s, k, n)
           x == InputRow(s, k, n + 1)
           b == Seen(s, k, n + 1)
<1>1. \A m \in 1..n : m \in Nat
  OBVIOUS
<1>2. \A m \in 1..(n + 1) : m \in Nat
  OBVIOUS
<1>3. a \in Seq(V) /\ Len(a) = n /\ \A m \in 1..n : a[m] = InputRow(s, k, m)
  BY <1>1 DEF Seen
<1>4. b \in Seq(V) /\ Len(b) = n + 1 /\ \A m \in 1..(n + 1) : b[m] = InputRow(s, k, m)
  BY <1>2 DEF Seen
<1>5. x \in V
  OBVIOUS
<1> HIDE DEF a, b
<1> DEFINE c == Append(a, x)
<1>6. c \in Seq(V) /\ Len(c) = n + 1 /\ (\A m \in 1..n : c[m] = a[m]) /\ c[n + 1] = x
  <2>1. /\ c \in Seq(V) /\ Len(c) = Len(a) + 1
        /\ (\A m \in 1..Len(a) : c[m] = a[m]) /\ c[Len(a) + 1] = x
    <3> HIDE DEF x
    <3>1. QED
      BY <1>3, <1>5, Appended
  <2>2. QED
    BY <1>3, <2>1
<1> HIDE DEF c
<1>7. \A m \in 1..(n + 1) : c[m] = b[m]
  <2> SUFFICES ASSUME NEW m \in 1..(n + 1) PROVE c[m] = b[m]
    OBVIOUS
  <2>1. CASE m = n + 1
    BY <1>4, <1>6, <2>1
  <2>2. CASE m # n + 1
    <3>1. m \in 1..n
      BY <2>2
    <3>2. QED
      BY <1>3, <1>4, <1>6, <3>1
  <2>3. QED
    BY <2>1, <2>2
<1>8. c = b
  BY <1>4, <1>6, <1>7, SameSeq
<1>9. QED
  BY <1>3, <1>8 DEF a, b, c

\* The calls behind a step move the offsets and leave the tensors.
LstmRecordOf(d, hidden, cell, written, i, o, h, c) ==
  d = [hidden |-> hidden, cell |-> cell, output |-> written, inputOffset |-> i, outputOffset |-> o,
       hiddenOffset |-> h, cellOffset |-> c]

LstmFieldsAre(d, hidden, cell, written, i, o, h, c) ==
  /\ d.hidden = hidden /\ d.cell = cell /\ d.output = written /\ d.inputOffset = i
  /\ d.outputOffset = o /\ d.hiddenOffset = h /\ d.cellOffset = c /\ LstmRecord(d)

\* The fields of such a record.
LEMMA LstmRecordFields ==
  ASSUME NEW hidden, NEW cell, NEW written, NEW i, NEW o, NEW h, NEW c, NEW d,
         LstmRecordOf(d, hidden, cell, written, i, o, h, c)
  PROVE  LstmFieldsAre(d, hidden, cell, written, i, o, h, c)
<1>1. /\ d.hidden = hidden /\ d.cell = cell /\ d.output = written /\ d.inputOffset = i
      /\ d.outputOffset = o /\ d.hiddenOffset = h /\ d.cellOffset = c
  BY DEF LstmRecordOf
<1>2. LstmRecord(d)
  BY <1>1, Zenon DEF LstmRecordOf, LstmRecord
<1>3. QED
  BY <1>1, <1>2, Zenon DEF LstmFieldsAre

\* A function on the fields of the record is the record of its fields.
LstmNames ==
  {"hidden", "cell", "output", "inputOffset", "outputOffset", "hiddenOffset", "cellOffset"}

\* And back.
LEMMA LstmRecordBy ==
  ASSUME NEW hidden, NEW cell, NEW written, NEW i, NEW o, NEW h, NEW c, NEW d,
         d = [x \in LstmNames |-> d[x]], d.hidden = hidden, d.cell = cell, d.output = written,
         d.inputOffset = i, d.outputOffset = o, d.hiddenOffset = h, d.cellOffset = c
  PROVE  LstmRecordOf(d, hidden, cell, written, i, o, h, c)
<1> DEFINE r == [hidden |-> hidden, cell |-> cell, output |-> written, inputOffset |-> i,
                 outputOffset |-> o, hiddenOffset |-> h, cellOffset |-> c]
<1>1. /\ r.hidden = hidden /\ r.cell = cell /\ r.output = written /\ r.inputOffset = i
      /\ r.outputOffset = o /\ r.hiddenOffset = h /\ r.cellOffset = c
  OBVIOUS
<1>2. r = [x \in LstmNames |-> r[x]]
  <2>1. DOMAIN r = LstmNames
    BY DEF LstmNames
  <2>2. QED
    BY <2>1
<1> HIDE DEF r
<1>3. \A x \in LstmNames : d[x] = r[x]
  BY <1>1 DEF LstmNames
<1>4. d = r
  BY <1>2, <1>3
<1>5. QED
  BY <1>4 DEF r, LstmRecordOf

\* What moving on does to the record.
LEMMA OffsetsMoved ==
  ASSUME NEW hidden, NEW cell, NEW written, NEW i, NEW o, NEW h, NEW c, NEW d,
         LstmRecordOf(d, hidden, cell, written, i, o, h, c), NEW k
  PROVE  /\ LstmRecordOf(UpdateTime(k, d), hidden, cell, written, i + k.inputs * RowsInStep(k),
                         o + k.states * RowsInStep(k), h, c)
         /\ LstmRecordOf(UpdateBatch(k, d), hidden, cell, written, i, o, h + k.states, c + k.states)
<1> DEFINE di == k.inputs * RowsInStep(k)
           do == k.states * RowsInStep(k)
           s == k.states
           i2 == i + di
           o2 == o + do
           h2 == h + s
           c2 == c + s
<1>1. /\ UpdateTime(k, d) = [d EXCEPT !.inputOffset = @ + di, !.outputOffset = @ + do]
      /\ UpdateBatch(k, d) = [d EXCEPT !.hiddenOffset = @ + s, !.cellOffset = @ + s]
  BY DEF UpdateTime, UpdateBatch
<1> HIDE DEF di, do, s
<1>2. d.inputOffset = i /\ d.outputOffset = o /\ d.hiddenOffset = h /\ d.cellOffset = c
  <2>1. LstmFieldsAre(d, hidden, cell, written, i, o, h, c)
    BY LstmRecordFields, Zenon
  <2>2. QED
    BY <2>1, Zenon DEF LstmFieldsAre
<1>3. /\ UpdateTime(k, d) = [d EXCEPT !.inputOffset = i2, !.outputOffset = o2]
      /\ UpdateBatch(k, d) = [d EXCEPT !.hiddenOffset = h2, !.cellOffset = c2]
  BY <1>1, <1>2, Zenon
<1> HIDE DEF i2, o2, h2, c2
<1>4. DOMAIN d = LstmNames /\ d.hidden = hidden /\ d.cell = cell /\ d.output = written
  BY DEF LstmRecordOf, LstmNames
<1>5. LstmRecordOf([d EXCEPT !.inputOffset = i2, !.outputOffset = o2],
                   hidden, cell, written, i2, o2, h, c)
  <2> DEFINE e == [d EXCEPT !.inputOffset = i2, !.outputOffset = o2]
  <2>1. e = [x \in LstmNames |-> e[x]]
    BY <1>4
  <2>2. /\ e.hidden = hidden /\ e.cell = cell /\ e.output = written /\ e.inputOffset = i2
        /\ e.outputOffset = o2 /\ e.hiddenOffset = h /\ e.cellOffset = c
    BY <1>2, <1>4 DEF LstmNames
  <2> HIDE DEF e
  <2>3. LstmRecordOf(e, hidden, cell, written, i2, o2, h, c)
    BY <2>1, <2>2, LstmRecordBy
  <2>4. QED
    BY <2>3 DEF e
<1>6. LstmRecordOf([d EXCEPT !.hiddenOffset = h2, !.cellOffset = c2],
                   hidden, cell, written, i, o, h2, c2)
  <2> DEFINE e == [d EXCEPT !.hiddenOffset = h2, !.cellOffset = c2]
  <2>1. e = [x \in LstmNames |-> e[x]]
    BY <1>4
  <2>2. /\ e.hidden = hidden /\ e.cell = cell /\ e.output = written /\ e.inputOffset = i
        /\ e.outputOffset = o /\ e.hiddenOffset = h2 /\ e.cellOffset = c2
    BY <1>2, <1>4 DEF LstmNames
  <2> HIDE DEF e
  <2>3. LstmRecordOf(e, hidden, cell, written, i, o, h2, c2)
    BY <2>1, <2>2, LstmRecordBy
  <2>4. QED
    BY <2>3 DEF e
<1>7. QED
  BY <1>3, <1>5, <1>6, Zenon DEF di, do, s, i2, o2, h2, c2

\* What moving on to the next time step, or to the next batch row, does to the offsets.
LEMMA LstmMoved ==
  ASSUME NEW k, IsLstm(k), NEW f, NEW h \in Nat, NEW r \in Nat, LstmTensors(k, f), LstmOffsets(k, f, h, r),
         NEW last \in BOOLEAN,
         NEW e, e = IF last THEN UpdateBatch(k, UpdateTime(k, f)) ELSE UpdateTime(k, f)
  PROVE  /\ LstmTensors(k, e) /\ LstmOffsets(k, e, IF last THEN h + 1 ELSE h, r + RowsInStep(k))
         /\ e.hidden = f.hidden /\ e.cell = f.cell /\ e.output = f.output
<1> DEFINE R == RowsInStep(k)
           u == UpdateTime(k, f)
<1>1. /\ LstmRecordOf(f, f.hidden, f.cell, f.output, r * k.inputs, r * k.states, h * k.states, h * k.states)
      /\ IsTensor(f.hidden, k.batch * k.states) /\ IsTensor(f.cell, k.batch * k.states)
      /\ IsTensor(f.output, (k.batch * k.steps) * k.states)
  <2>1. /\ f = [hidden |-> f.hidden, cell |-> f.cell, output |-> f.output, inputOffset |-> f.inputOffset,
                outputOffset |-> f.outputOffset, hiddenOffset |-> f.hiddenOffset,
                cellOffset |-> f.cellOffset]
        /\ f.inputOffset = r * k.inputs /\ f.outputOffset = r * k.states
        /\ f.hiddenOffset = h * k.states /\ f.cellOffset = h * k.states
    BY Zenon DEF LstmTensors, LstmRecord, LstmOffsets
  <2>2. LstmRecordOf(f, f.hidden, f.cell, f.output, f.inputOffset, f.outputOffset, f.hiddenOffset,
                     f.cellOffset)
    BY <2>1, Zenon DEF LstmRecordOf
  <2>3. QED
    BY <2>1, <2>2, Zenon DEF LstmTensors
<1>2. k.states \in Nat /\ k.inputs \in Nat /\ R \in Nat
  BY RowsInStepIs DEF IsLstm
<1>3. /\ r * k.inputs + k.inputs * R = (r + R) * k.inputs
      /\ r * k.states + k.states * R = (r + R) * k.states
      /\ h * k.states + k.states = (h + 1) * k.states
  BY <1>2
<1>4. LstmRecordOf(u, f.hidden, f.cell, f.output, (r + R) * k.inputs, (r + R) * k.states,
                   h * k.states, h * k.states)
  <2>1. LstmRecordOf(u, f.hidden, f.cell, f.output, r * k.inputs + k.inputs * R,
                     r * k.states + k.states * R, h * k.states, h * k.states)
    BY <1>1, OffsetsMoved, Zenon
  <2>2. QED
    BY <1>3, <2>1, Zenon
<1> HIDE DEF u, R
<1>5. CASE ~last
  <2>1. e = u
    BY <1>5 DEF u
  <2>2. /\ e.hidden = f.hidden /\ e.cell = f.cell /\ e.output = f.output /\ LstmRecord(e)
        /\ e.inputOffset = (r + R) * k.inputs /\ e.outputOffset = (r + R) * k.states
        /\ e.hiddenOffset = h * k.states /\ e.cellOffset = h * k.states
    <3>1. LstmFieldsAre(e, f.hidden, f.cell, f.output, (r + R) * k.inputs, (r + R) * k.states,
                        h * k.states, h * k.states)
      BY <1>4, <2>1, LstmRecordFields, Zenon
    <3>2. QED
      BY <3>1, Zenon DEF LstmFieldsAre
  <2>3. LstmTensors(k, e) /\ LstmOffsets(k, e, h, r + R)
    BY <1>1, <2>2, Zenon DEF LstmTensors, LstmOffsets
  <2>4. QED
    BY <1>5, <2>2, <2>3, Zenon DEF R
<1>6. CASE last
  <2>1. e = UpdateBatch(k, u)
    BY <1>6 DEF u
  <2>2. LstmRecordOf(e, f.hidden, f.cell, f.output, (r + R) * k.inputs, (r + R) * k.states,
                     (h + 1) * k.states, (h + 1) * k.states)
    <3>1. LstmRecordOf(e, f.hidden, f.cell, f.output, (r + R) * k.inputs, (r + R) * k.states,
                       h * k.states + k.states, h * k.states + k.states)
      BY <1>4, <2>1, OffsetsMoved, Zenon
    <3>2. QED
      BY <1>3, <3>1, Zenon
  <2>3. /\ e.hidden = f.hidden /\ e.cell = f.cell /\ e.output = f.output /\ LstmRecord(e)
        /\ e.inputOffset = (r + R) * k.inputs /\ e.outputOffset = (r + R) * k.states
        /\ e.hiddenOffset = (h + 1) * k.states /\ e.cellOffset = (h + 1) * k.states
    <3>1. LstmFieldsAre(e, f.hidden, f.cell, f.output, (r + R) * k.inputs, (r + R) * k.states,
                        (h + 1) * k.states, (h + 1) * k.states)
      BY <2>2, LstmRecordFields, Zenon
    <3>2. QED
      BY <3>1, Zenon DEF LstmFieldsAre
  <2>4. LstmTensors(k, e) /\ LstmOffsets(k, e, h + 1, r + R)
    BY <1>1, <2>3, Zenon DEF LstmTensors, LstmOffsets
  <2>5. QED
    BY <1>6, <2>3, <2>4, Zenon DEF R
<1>7. QED
  BY <1>5, <1>6

\* After n steps, when base time steps of the streams came in earlier invocations.
LstmHolds(k, s, base, n, d) ==
  /\ LstmTensors(k, d) /\ LstmOffsets(k, d, StateRow(k, n), n * RowsInStep(k))
  /\ \A b \in 1..k.batch :
       /\ RowHolds(d.hidden, k.states, b - 1, Seen(s[b], k, base + TimeDone(k, b, n)))
       /\ RowHolds(d.cell, k.states, b - 1, Seen(s[b], k, base + TimeDone(k, b, n)))
  /\ \A b \in 1..k.batch : \A t \in 1..k.steps : RowAt(k, b, t) < n * RowsInStep(k) =>
       RowHolds(d.output, k.states, RowAt(k, b, t), Seen(s[b], k, base + t))

\* The rows of the input are those of the streams behind the first base.
LstmInput(k, s, base, input) ==
  /\ IsTensor(input, (k.batch * k.steps) * k.inputs)
  /\ \A b \in 1..k.batch : \A t \in 1..k.steps :
       Row(input, k.inputs, RowAt(k, b, t)) = InputRow(s[b], k, base + t)

\* One time step.
LstmTurn(k, input, d, n) ==
  LET stepped == UpdateTime(k, LstmStep(k, input, d))
  IN  IF ~k.timeMajor /\ n % k.steps = 0 THEN UpdateBatch(k, stepped) ELSE stepped

\* One time step and the move to the next.
LEMMA LstmTurnHolds ==
  ASSUME NEW k, IsLstm(k), NEW s, NEW base \in Nat, NEW input, LstmInput(k, s, base, input),
         NEW n \in 0..(StepsOf(k) - 1), NEW d, LstmHolds(k, s, base, n, d),
         NEW e, e = LstmTurn(k, input, d, n + 1)
  PROVE  LstmHolds(k, s, base, n + 1, e)
<1> DEFINE R == RowsInStep(k)
           B == k.batch
           T == k.steps
           c == k.states
           h == StateRow(k, n)
           r == n * R
           Batch(row) == h + row + 1
           Done(b) == TimeDone(k, b, n)
           seen == [row \in 0..(R - 1) |-> Seen(s[Batch(row)], k, base + Done(Batch(row)))]
           V == {InputRow(s[b], k, m) : b \in 1..B, m \in Nat}
           f == LstmStep(k, input, d)
<1>1. /\ R \in Nat \ {0} /\ B \in Nat \ {0} /\ T \in Nat \ {0} /\ n \in Nat
  BY RowsInStepIs DEF IsLstm
<1>2. LstmSchedule(k, n)
  BY ScheduleHolds
<1>3. /\ h \in Nat /\ h + R <= B /\ r \in Nat /\ r + R <= B * T /\ B * T \in Nat
      /\ \A row \in 0..(R - 1) :
           /\ Done(Batch(row)) \in 0..(T - 1)
           /\ RowAt(k, Batch(row), Done(Batch(row)) + 1) = r + row
           /\ TimeDone(k, Batch(row), n + 1) = Done(Batch(row)) + 1
      /\ \A b \in 1..B : b - 1 \notin h..(h + R - 1) => TimeDone(k, b, n + 1) = Done(b)
      /\ \A b \in 1..B : \A t \in 1..T :
           /\ RowAt(k, b, t) \in 0..(B * T - 1)
           /\ RowAt(k, b, t) < (n + 1) * R =>
                \/ RowAt(k, b, t) < r
                \/ \E row \in 0..(R - 1) : b = Batch(row) /\ t = Done(b) + 1
  BY <1>1, <1>2 DEF LstmSchedule
<1>4. /\ LstmTensors(k, d) /\ LstmOffsets(k, d, h, r)
      /\ \A b \in 1..B : /\ RowHolds(d.hidden, c, b - 1, Seen(s[b], k, base + Done(b)))
                         /\ RowHolds(d.cell, c, b - 1, Seen(s[b], k, base + Done(b)))
      /\ \A b \in 1..B : \A t \in 1..T : RowAt(k, b, t) < r =>
           RowHolds(d.output, c, RowAt(k, b, t), Seen(s[b], k, base + t))
  BY DEF LstmHolds
<1>5. /\ IsTensor(input, (B * T) * k.inputs)
      /\ \A b \in 1..B : \A t \in 1..T : Row(input, k.inputs, RowAt(k, b, t)) = InputRow(s[b], k, base + t)
  BY DEF LstmInput
<1> HIDE DEF R, h, r, Done
<1>6. \A row \in 0..(R - 1) : Batch(row) \in 1..B /\ Batch(row) - 1 = h + row
  BY <1>1, <1>3
<1>7. \A b \in 1..B : \A m \in Nat : InputRow(s[b], k, m) \in V
  OBVIOUS
<1> HIDE DEF V
<1>8. ASSUME NEW row \in 0..(R - 1)
      PROVE  /\ seen[row] \in Seq(V) /\ Row(input, k.inputs, r + row) \in V
             /\ Append(seen[row], Row(input, k.inputs, r + row))
                  = Seen(s[Batch(row)], k, base + (Done(Batch(row)) + 1))
             /\ seen[row] = Seen(s[Batch(row)], k, base + Done(Batch(row)))
  <2> DEFINE b == Batch(row)
             t == Done(b) + 1
             m == base + Done(b)
  <2>1. b \in 1..B
    BY <1>6
  <2>2. Done(b) \in 0..(T - 1) /\ RowAt(k, b, t) = r + row
    BY <1>3
  <2>3. seen[row] = Seen(s[b], k, m)
    OBVIOUS
  <2> HIDE DEF b, seen
  <2>4. t \in 1..T /\ m \in Nat /\ base + t = m + 1 /\ m + 1 \in Nat
    BY <1>1, <2>2
  <2>5. Row(input, k.inputs, r + row) = InputRow(s[b], k, m + 1)
    BY <1>5, <2>1, <2>2, <2>4
  <2> HIDE DEF t, m
  <2>6. \A l \in Nat : InputRow(s[b], k, l) \in V
    BY <1>7, <2>1
  <2>7. Seen(s[b], k, m) \in Seq(V) /\ Append(Seen(s[b], k, m), InputRow(s[b], k, m + 1)) = Seen(s[b], k, m + 1)
    BY <2>4, <2>6, SeenNext
  <2>8. InputRow(s[b], k, m + 1) \in V
    BY <2>4, <2>6
  <2>9. Append(seen[row], Row(input, k.inputs, r + row)) = Seen(s[b], k, base + t)
    BY <2>3, <2>4, <2>5, <2>7
  <2>10. QED
    BY <2>3, <2>5, <2>7, <2>8, <2>9 DEF b, t, m
<1> HIDE DEF seen, Batch
<1>9. LstmReady(k, input, d, h, r, seen, V)
  <2>1. \A row \in 0..(R - 1) : /\ RowHolds(d.hidden, c, h + row, seen[row])
                                /\ RowHolds(d.cell, c, h + row, seen[row])
    BY <1>4, <1>6, <1>8
  <2>2. QED
    BY <1>3, <1>4, <1>5, <1>8, <2>1 DEF LstmReady, R
<1>10. LstmStepped(k, input, d, f, h, r, seen)
  BY <1>9, LstmStepHolds
<1> HIDE DEF f
<1>11. /\ LstmTensors(k, f) /\ LstmOffsets(k, f, h, r)
       /\ \A row \in 0..(R - 1) :
            LET new == Seen(s[Batch(row)], k, base + (Done(Batch(row)) + 1)) IN
            /\ RowHolds(f.hidden, c, h + row, new) /\ RowHolds(f.cell, c, h + row, new)
            /\ RowHolds(f.output, c, r + row, new)
       /\ \A q \in 0..(B - 1) : q \notin h..(h + R - 1) => \A x :
            /\ RowHolds(d.hidden, c, q, x) => RowHolds(f.hidden, c, q, x)
            /\ RowHolds(d.cell, c, q, x) => RowHolds(f.cell, c, q, x)
       /\ \A q \in 0..(B * T - 1) : q \notin r..(r + R - 1) => \A x :
            RowHolds(d.output, c, q, x) => RowHolds(f.output, c, q, x)
  BY <1>8, <1>10 DEF LstmStepped, R
<1>12. ASSUME NEW b \in 1..B
       PROVE  /\ RowHolds(f.hidden, c, b - 1, Seen(s[b], k, base + TimeDone(k, b, n + 1)))
              /\ RowHolds(f.cell, c, b - 1, Seen(s[b], k, base + TimeDone(k, b, n + 1)))
  <2>1. CASE b - 1 \in h..(h + R - 1)
    <3> DEFINE row == b - 1 - h
    <3>1. row \in 0..(R - 1) /\ h + row = b - 1 /\ h + row + 1 = b
      BY <1>1, <1>3, <2>1
    <3>2. Batch(row) = b
      BY <3>1 DEF Batch
    <3> HIDE DEF row
    <3>3. QED
      BY <1>3, <1>11, <3>1, <3>2
  <2>2. CASE b - 1 \notin h..(h + R - 1)
    <3>1. b - 1 \in 0..(B - 1)
      BY <1>1
    <3>2. QED
      BY <1>3, <1>4, <1>11, <2>2, <3>1
  <2>3. QED
    BY <2>1, <2>2
<1>13. ASSUME NEW b \in 1..B, NEW t \in 1..T, RowAt(k, b, t) < (n + 1) * R
       PROVE  RowHolds(f.output, c, RowAt(k, b, t), Seen(s[b], k, base + t))
  <2>1. CASE RowAt(k, b, t) < r
    <3>1. RowHolds(d.output, c, RowAt(k, b, t), Seen(s[b], k, base + t))
      BY <1>4, <2>1
    <3>2. RowAt(k, b, t) \in 0..(B * T - 1) /\ RowAt(k, b, t) \notin r..(r + R - 1)
      BY <1>1, <1>3, <2>1
    <3>3. QED
      BY <1>11, <3>1, <3>2
  <2>2. CASE \E row \in 0..(R - 1) : b = Batch(row) /\ t = Done(b) + 1
    <3>1. PICK row \in 0..(R - 1) : b = Batch(row) /\ t = Done(b) + 1
      BY <2>2
    <3>2. RowAt(k, b, t) = r + row
      BY <1>3, <3>1
    <3>3. RowHolds(f.output, c, r + row, Seen(s[b], k, base + t))
      BY <1>11, <3>1
    <3>4. QED
      BY <3>2, <3>3
  <2>3. QED
    BY <1>3, <1>13, <2>1, <2>2
<1> DEFINE last == ~k.timeMajor /\ (n + 1) % T = 0
<1>14. last \in BOOLEAN /\ e = IF last THEN UpdateBatch(k, UpdateTime(k, f)) ELSE UpdateTime(k, f)
  BY DEF LstmTurn, f
<1>15. StateRow(k, n + 1) = IF last THEN h + 1 ELSE h
  BY <1>1, StateRowNext DEF h
<1>16. (n + 1) * R = r + R
  BY <1>1 DEF r
<1> HIDE DEF last
<1>17. /\ LstmTensors(k, e) /\ LstmOffsets(k, e, IF last THEN h + 1 ELSE h, r + R)
       /\ e.hidden = f.hidden /\ e.cell = f.cell /\ e.output = f.output
  BY <1>3, <1>11, <1>14, LstmMoved DEF R
<1>18. LstmOffsets(k, e, StateRow(k, n + 1), (n + 1) * R)
  BY <1>15, <1>16, <1>17
<1>19. QED
  BY <1>12, <1>13, <1>17, <1>18 DEF LstmHolds, R

\* The kernel after each time step of an invocation.
IsTurns(done, k, input, start, n) ==
  done = [i \in 0..n |-> IF i = 0 THEN start ELSE LstmTurn(k, input, done[i - 1], i)]

\* The recursive definition in LstmInvoked has a solution.
LEMMA TurnsExist ==
  ASSUME NEW k, NEW input, NEW start, NEW n \in Nat
  PROVE  \E done : IsTurns(done, k, input, start, n)
<1> DEFINE Turn(d, i) == LstmTurn(k, input, d, i)
           P == {m \in Nat : \E d : IsTurns(d, k, input, start, m)}
<1>0. \A d, m : IsTurns(d, k, input, start, m)
                  <=> d = [i \in 0..m |-> IF i = 0 THEN start ELSE Turn(d[i - 1], i)]
  BY DEF IsTurns
<1> HIDE DEF Turn
<1>1. 0 \in P
  <2> DEFINE d == [i \in 0..0 |-> start]
  <2>1. d = [i \in 0..0 |-> IF i = 0 THEN start ELSE Turn(d[i - 1], i)]
    OBVIOUS
  <2> HIDE DEF d
  <2>2. IsTurns(d, k, input, start, 0)
    BY <1>0, <2>1
  <2>3. QED
    BY <2>2
<1>2. ASSUME NEW m \in Nat, m \in P
      PROVE  m + 1 \in P
  <2>1. PICK d : IsTurns(d, k, input, start, m)
    BY <1>2
  <2>2. d = [i \in 0..m |-> IF i = 0 THEN start ELSE Turn(d[i - 1], i)]
    BY <1>0, <2>1
  <2> DEFINE g == [i \in 0..(m + 1) |-> IF i = m + 1 THEN Turn(d[m], m + 1) ELSE d[i]]
  <2>3. \A i \in 0..m : g[i] = d[i]
    OBVIOUS
  <2>4. ASSUME NEW i \in 0..(m + 1)
        PROVE  g[i] = IF i = 0 THEN start ELSE Turn(g[i - 1], i)
    <3>1. CASE i = m + 1
      <4>1. i # 0 /\ i - 1 = m /\ m \in 0..m
        BY <3>1
      <4>2. g[i] = Turn(d[m], m + 1)
        BY <3>1
      <4>3. g[i - 1] = d[m]
        BY <2>3, <4>1
      <4> HIDE DEF g
      <4>4. QED
        BY <3>1, <4>1, <4>2, <4>3, Zenon
    <3>2. CASE i # m + 1 /\ i # 0
      <4>1. i \in 0..m /\ i - 1 \in 0..m
        BY <3>2
      <4>2. g[i] = d[i] /\ g[i - 1] = d[i - 1]
        BY <2>3, <4>1
      <4>3. d[i] = Turn(d[i - 1], i)
        BY <2>2, <3>2, <4>1
      <4> HIDE DEF g
      <4>4. QED
        BY <3>2, <4>2, <4>3, Zenon
    <3>3. CASE i = 0
      BY <2>2, <2>3, <3>3
    <3>4. QED
      BY <3>1, <3>2, <3>3
  <2>5. g = [i \in 0..(m + 1) |-> g[i]]
    OBVIOUS
  <2> HIDE DEF g
  <2>6. g = [i \in 0..(m + 1) |-> IF i = 0 THEN start ELSE Turn(g[i - 1], i)]
    BY <2>4, <2>5
  <2>7. IsTurns(g, k, input, start, m + 1)
    BY <1>0, <2>6
  <2>8. QED
    BY <2>7
<1> HIDE DEF P
<1>3. \A m \in Nat : m \in P
  BY <1>1, <1>2, Induction
<1>4. QED
  BY <1>3 DEF P

\* The state between two invocations: every row of both tensors was computed from the first n
\* inputs of its batch.
LstmStateHolds(k, s, n, st) ==
  /\ IsTensor(st.hidden, k.batch * k.states) /\ IsTensor(st.cell, k.batch * k.states)
  /\ \A b \in 1..k.batch : /\ RowHolds(st.hidden, k.states, b - 1, Seen(s[b], k, n))
                           /\ RowHolds(st.cell, k.states, b - 1, Seen(s[b], k, n))

\* One invocation.
LEMMA LstmInvokedHolds ==
  ASSUME NEW k, IsLstm(k), NEW s, NEW base \in Nat, NEW input, LstmInput(k, s, base, input),
         NEW st, LstmStateHolds(k, s, base, st), NEW r, r = LstmInvoked(k, st, input)
  PROVE  /\ LstmStateHolds(k, s, base + k.steps, r.state)
         /\ \A b \in 1..k.batch : \A t \in 1..k.steps :
              RowHolds(r.output, k.states, RowAt(k, b, t), Seen(s[b], k, base + t))
<1> DEFINE N == StepsOf(k)
           R == RowsInStep(k)
           size == (k.batch * k.steps) * k.states
           start == [hidden |-> st.hidden, cell |-> st.cell, output |-> Copies(Mixed, size),
                     inputOffset |-> 0, outputOffset |-> 0, hiddenOffset |-> 0, cellOffset |-> 0]
           done == CHOOSE d : IsTurns(d, k, input, start, N)
           end == done[N]
<1>1. /\ N \in Nat \ {0} /\ N * R = k.batch * k.steps /\ StateRow(k, 0) = 0 /\ R \in Nat \ {0}
      /\ \A b \in 1..k.batch : TimeDone(k, b, 0) = 0 /\ TimeDone(k, b, N) = k.steps
  BY ScheduleEnds, RowsInStepIs
<1>2. r = [state |-> [hidden |-> end.hidden, cell |-> end.cell], output |-> end.output]
  BY DEF LstmInvoked, IsTurns, LstmTurn, StepsOf
<1>3. IsTurns(done, k, input, start, N)
  <2> HIDE DEF start, N
  <2>1. \E d : IsTurns(d, k, input, start, N)
    BY <1>1, TurnsExist
  <2>2. QED
    BY <2>1
<1>4. LstmHolds(k, s, base, 0, start)
  <2>1. LstmRecord(start)
    BY DEF LstmRecord
  <2>2. IsTensor(start.hidden, k.batch * k.states) /\ IsTensor(start.cell, k.batch * k.states)
    BY DEF LstmStateHolds
  <2>3. IsTensor(start.output, size)
    <3> HIDE DEF size
    <3>1. start.output = [i \in 1..size |-> Mixed]
      BY DEF Copies
    <3> HIDE DEF start
    <3>2. QED
      BY <3>1 DEF IsTensor
  <2>4. LstmOffsets(k, start, StateRow(k, 0), 0 * R)
    <3>1. 0 * R = 0 /\ 0 * k.inputs = 0 /\ 0 * k.states = 0
      BY <1>1 DEF IsLstm
    <3>2. /\ start.inputOffset = 0 /\ start.outputOffset = 0
          /\ start.hiddenOffset = 0 /\ start.cellOffset = 0
      OBVIOUS
    <3> HIDE DEF start
    <3>3. QED
      BY <1>1, <3>1, <3>2 DEF LstmOffsets
  <2>5. ASSUME NEW b \in 1..k.batch
        PROVE  /\ RowHolds(start.hidden, k.states, b - 1, Seen(s[b], k, base + TimeDone(k, b, 0)))
               /\ RowHolds(start.cell, k.states, b - 1, Seen(s[b], k, base + TimeDone(k, b, 0)))
    <3>1. base + TimeDone(k, b, 0) = base
      BY <1>1
    <3>2. start.hidden = st.hidden /\ start.cell = st.cell
      OBVIOUS
    <3>3. QED
      BY <3>1, <3>2 DEF LstmStateHolds
  <2>6. ASSUME NEW b \in 1..k.batch, NEW t \in 1..k.steps
        PROVE  ~(RowAt(k, b, t) < 0 * R)
    <3>1. 0 \in 0..(N - 1)
      BY <1>1
    <3>2. LstmSchedule(k, 0)
      BY <3>1, ScheduleHolds
    <3>3. RowAt(k, b, t) \in 0..(k.batch * k.steps - 1)
      BY <3>2 DEF LstmSchedule
    <3>4. RowAt(k, b, t) \in Nat /\ 0 * R = 0
      BY <1>1, <3>3
    <3>5. QED
      BY <3>4
  <2> HIDE DEF start
  <2>7. QED
    BY <2>1, <2>2, <2>3, <2>4, <2>5, <2>6 DEF LstmHolds, LstmTensors
<1> HIDE DEF start, done
<1>5. done[0] = start /\ \A n \in 0..N : n # 0 => done[n] = LstmTurn(k, input, done[n - 1], n)
  BY <1>1, <1>3 DEF IsTurns
<1> DEFINE P == {n \in Nat : n <= N => LstmHolds(k, s, base, n, done[n])}
<1>6. 0 \in P
  BY <1>4, <1>5
<1>7. ASSUME NEW n \in Nat, n \in P
      PROVE  n + 1 \in P
  <2> SUFFICES ASSUME n + 1 <= N PROVE LstmHolds(k, s, base, n + 1, done[n + 1])
    OBVIOUS
  <2>1. n \in 0..(N - 1) /\ n + 1 \in 0..N /\ n + 1 # 0 /\ n + 1 - 1 = n /\ n <= N
    BY <1>1
  <2>2. LstmHolds(k, s, base, n, done[n])
    BY <1>7, <2>1
  <2>3. done[n + 1] = LstmTurn(k, input, done[n], n + 1)
    BY <1>5, <2>1
  <2> HIDE DEF P, N
  <2>4. QED
    BY <2>1, <2>2, <2>3, LstmTurnHolds DEF N
<1> HIDE DEF P
<1>8. \A n \in Nat : n \in P
  BY <1>6, <1>7, Induction
<1>9. LstmHolds(k, s, base, N, end)
  BY <1>1, <1>8 DEF P
<1> HIDE DEF N, R, end
<1>10. /\ IsTensor(end.hidden, k.batch * k.states) /\ IsTensor(end.cell, k.batch * k.states)
       /\ \A b \in 1..k.batch :
            /\ RowHolds(end.hidden, k.states, b - 1, Seen(s[b], k, base + TimeDone(k, b, N)))
            /\ RowHolds(end.cell, k.states, b - 1, Seen(s[b], k, base + TimeDone(k, b, N)))
       /\ \A b \in 1..k.batch : \A t \in 1..k.steps : RowAt(k, b, t) < N * R =>
            RowHolds(end.output, k.states, RowAt(k, b, t), Seen(s[b], k, base + t))
  BY <1>9 DEF LstmHolds, LstmTensors, R
<1>11. r.state.hidden = end.hidden /\ r.state.cell = end.cell /\ r.output = end.output
  BY <1>2
<1>12. LstmStateHolds(k, s, base + k.steps, r.state)
  BY <1>1, <1>10, <1>11 DEF LstmStateHolds
<1>13. ASSUME NEW b \in 1..k.batch, NEW t \in 1..k.steps
       PROVE  RowAt(k, b, t) < N * R
  <2>1. 0 \in 0..(N - 1)
    BY <1>1
  <2>2. LstmSchedule(k, 0)
    BY <2>1, ScheduleHolds DEF N
  <2>3. RowAt(k, b, t) \in 0..(N * R - 1)
    BY <1>1, <2>2 DEF LstmSchedule
  <2>4. N * R \in Nat
    BY <1>1
  <2> HIDE DEF R
  <2>5. QED
    BY <2>3, <2>4
<1>14. QED
  BY <1>10, <1>11, <1>12, <1>13

\* The tensor that LstmEval makes of the input of each batch.
LstmTensor(k, x) ==
  LET At(e) == CHOOSE at \in (1..k.batch) \X (1..k.steps) :
                 RowAt(k, at[1], at[2]) = RowOf(e - 1, k.inputs)
  IN  [e \in 1..(k.batch * k.steps * k.inputs) |->
        x[At(e)[1]][(At(e)[2] - 1) * k.inputs + PlaceOf(e - 1, k.inputs) + 1]]

\* Where every row of it lies.
LEMMA RowAtRange ==
  ASSUME NEW k, IsLstm(k), NEW b \in 1..k.batch, NEW t \in 1..k.steps
  PROVE  RowAt(k, b, t) \in 0..(k.batch * k.steps - 1)
<1>1. 0 \in 0..(StepsOf(k) - 1)
  BY ScheduleEnds
<1>2. LstmSchedule(k, 0)
  BY <1>1, ScheduleHolds
<1>3. QED
  BY <1>2 DEF LstmSchedule

\* Where the layout puts an element of the inputs.
LEMMA LstmTensorElement ==
  ASSUME NEW k, IsLstm(k), NEW x, NEW b \in 1..k.batch, NEW t \in 1..k.steps, NEW p \in 1..k.inputs
  PROVE  LstmTensor(k, x)[RowAt(k, b, t) * k.inputs + p] = x[b][(t - 1) * k.inputs + p]
<1> DEFINE w == k.inputs
           B == k.batch
           T == k.steps
           q == RowAt(k, b, t)
           At(e) == CHOOSE at \in (1..B) \X (1..T) : RowAt(k, at[1], at[2]) = RowOf(e - 1, w)
           i == q * w + p
<1>1. w \in Nat \ {0} /\ B * T \in Nat
  BY DEF IsLstm
<1>2. q \in 0..(B * T - 1) /\ q \in Nat
  BY <1>1, RowAtRange
<1>3. i \in 1..(B * T * w)
  <2> DEFINE m == B * T
  <2>1. m \in Nat /\ q \in 0..(m - 1)
    BY <1>1, <1>2
  <2> HIDE DEF q, w, m
  <2>2. q * w + p \in 1..(m * w)
    BY <1>1, <2>1, PlaceInTensor DEF w
  <2>3. QED
    BY <2>2 DEF m
<1>4. RowOf(i - 1, w) = q /\ PlaceOf(i - 1, w) = p - 1
  <2>1. p - 1 \in 0..(w - 1)
    BY <1>1
  <2>2. i - 1 = w * q + (p - 1)
    <3> HIDE DEF q
    <3>1. QED
      BY <1>1, <1>2
  <2> HIDE DEF i, q
  <2>3. QED
    BY <1>1, <1>2, <2>1, <2>2, RowAndPlace
<1>5. LstmTensor(k, x)[i] = x[At(i)[1]][(At(i)[2] - 1) * w + PlaceOf(i - 1, w) + 1]
  BY <1>3 DEF LstmTensor
<1>6. At(i)[1] = b /\ At(i)[2] = t
  <2> DEFINE at == At(i)
  <2>1. <<b, t>> \in (1..B) \X (1..T) /\ RowAt(k, <<b, t>>[1], <<b, t>>[2]) = RowOf(i - 1, w)
    BY <1>4
  <2> HIDE DEF i
  <2>2. at \in (1..B) \X (1..T) /\ RowAt(k, at[1], at[2]) = RowOf(i - 1, w)
    <3>1. \E z \in (1..B) \X (1..T) : RowAt(k, z[1], z[2]) = RowOf(i - 1, w)
      BY <2>1
    <3>2. QED
      BY <3>1
  <2> HIDE DEF at
  <2>3. at[1] \in 1..B /\ at[2] \in 1..T /\ RowAt(k, at[1], at[2]) = RowAt(k, b, t)
    BY <1>4, <2>2
  <2>4. at[1] = b /\ at[2] = t
    BY <2>3, RowAtOnce
  <2>5. QED
    BY <2>4 DEF at
<1> HIDE DEF At, i, q
<1>7. (t - 1) * w + (p - 1) + 1 = (t - 1) * w + p
  <2> DEFINE a == (t - 1) * w
  <2>1. a \in Int
    BY <1>1
  <2> HIDE DEF a
  <2>2. a + (p - 1) + 1 = a + p
    BY <2>1
  <2>3. QED
    BY <2>2 DEF a
<1>8. QED
  BY <1>4, <1>5, <1>6, <1>7 DEF i, q

\* Its rows are the pieces of the inputs.
LEMMA LstmTensorRows ==
  ASSUME NEW k, IsLstm(k), NEW x \in Tensors(k.batch, k.steps * k.inputs)
  PROVE  /\ IsTensor(LstmTensor(k, x), (k.batch * k.steps) * k.inputs)
         /\ \A b \in 1..k.batch : \A t \in 1..k.steps :
              Row(LstmTensor(k, x), k.inputs, RowAt(k, b, t))
                = SubSeq(x[b], (t - 1) * k.inputs + 1, t * k.inputs)
<1> DEFINE y == LstmTensor(k, x)
           w == k.inputs
           B == k.batch
           T == k.steps
<1>1. w \in Nat \ {0} /\ B \in Nat \ {0} /\ T \in Nat \ {0} /\ B * T \in Nat
  BY DEF IsLstm
<1>2. IsTensor(y, (B * T) * w)
  BY DEF LstmTensor, IsTensor
<1>3. ASSUME NEW b \in 1..B, NEW t \in 1..T
      PROVE  Row(y, w, RowAt(k, b, t)) = SubSeq(x[b], (t - 1) * w + 1, t * w)
  <2> DEFINE q == RowAt(k, b, t)
             a == (t - 1) * w
             z == t * w
             m == T * w
             r == Row(y, w, q)
             v == x[b]
             u == SubSeq(v, a + 1, z)
  <2>1. q \in 0..(B * T - 1)
    BY RowAtRange
  <2>2. a \in Nat /\ z = a + w /\ a + w <= m /\ m \in Nat
    <3> DEFINE l == t - 1
    <3>1. l \in 0..(T - 1) /\ l + 1 = t
      BY <1>1
    <3> HIDE DEF l
    <3>2. l * w \in Nat /\ (l + 1) * w = l * w + w /\ l * w + w <= m /\ m \in Nat
      BY <1>1, <3>1, PlaceInTensor
    <3>3. QED
      BY <3>1, <3>2 DEF l
  <2>3. v \in Seq(Number) /\ Len(v) = m
    <3> HIDE DEF m
    <3>1. v \in [1..m -> Number]
      BY DEF Tensors, m
    <3>2. QED
      BY <2>2, <3>1
  <2>4. \A p \in 1..w : y[q * w + p] = v[a + p]
    BY LstmTensorElement
  <2>5. RowElements(r, y, w, q)
    <3> DEFINE n == B * T
    <3>1. RowInTensor(y, w, n, q)
      BY <1>1, <1>2, <2>1 DEF RowInTensor
    <3> HIDE DEF y, w, q, n
    <3>2. QED
      BY <3>1, RowIs
  <2> HIDE DEF y, q, a, z, m, v, w
  <2>6. PartElements(u, v, a, w)
    <3>1. IsTensor(v, m)
      BY <2>2, <2>3 DEF IsTensor
    <3>2. PartInTensor(v, m, a, w, z)
      BY <1>1, <2>2, <3>1 DEF PartInTensor
    <3>3. PartElements(Part(v, a, z), v, a, w)
      BY <3>2, PartOfTensor
    <3>4. QED
      BY <3>3 DEF Part
  <2> HIDE DEF r, u
  <2>7. \A p \in 1..w : r[p] = u[p]
    BY <2>4, <2>5, <2>6 DEF PartElements, RowElements
  <2>8. r = [p \in 1..w |-> r[p]] /\ u = [p \in 1..w |-> u[p]]
    BY <2>5, <2>6 DEF PartElements, RowElements, IsTensor
  <2>9. r = u
    <3>1. [p \in 1..w |-> r[p]] = [p \in 1..w |-> u[p]]
      BY <2>7
    <3>2. QED
      BY <2>8, <3>1, Zenon
  <2>10. QED
    BY <2>9 DEF r, u, y, q, a, z, v, w
<1>4. QED
  BY <1>2, <1>3

\* What came in before is still the beginning of the stream.
LEMMA SeenBefore ==
  ASSUME NEW k, IsLstm(k), NEW n \in Nat, NEW s \in Seq(Number), Len(s) = n * k.inputs,
         NEW x \in Seq(Number)
  PROVE  Seen(Joint(s, x), k, n) = Seen(s, k, n)
<1> DEFINE w == k.inputs
           j == Joint(s, x)
           z == Len(s)
<1>1. w \in Nat \ {0}
  BY DEF IsLstm
<1>2. j \in Seq(Number) /\ Len(j) = z + Len(x) /\ Prefix(j, z) = s
  BY JointSeq, HalvesOfJoint DEF EndsIn
<1>3. z \in Nat /\ Len(x) \in Nat /\ z = n * w
  OBVIOUS
<1> HIDE DEF j, z
<1>4. ASSUME NEW m \in 1..n
      PROVE  InputRow(j, k, m) = InputRow(s, k, m)
  <2> DEFINE a == (m - 1) * w
             b == m * w
  <2>1. a \in Nat /\ b = a + w /\ b <= z
    <3> DEFINE l == m - 1
    <3>1. l \in 0..(n - 1) /\ l + 1 = m
      OBVIOUS
    <3> HIDE DEF l
    <3>2. l * w \in Nat /\ (l + 1) * w = l * w + w /\ l * w + w <= n * w
      BY <1>1, <3>1, PlaceInTensor
    <3>3. QED
      BY <1>3, <3>1, <3>2 DEF l
  <2>2. z \in 0..Len(j) /\ a \in 0..z /\ b \in a..z
    <3>1. z \in Nat /\ Len(x) \in Nat /\ Len(j) = z + Len(x)
      BY <1>2, <1>3
    <3> HIDE DEF a, b, w
    <3>2. QED
      BY <1>1, <2>1, <3>1
  <2> HIDE DEF a, b
  <2>3. SubSeq(Prefix(j, z), a + 1, b) = SubSeq(j, a + 1, b)
    BY <1>2, <2>2, PieceOfPrefix
  <2>4. SubSeq(s, a + 1, b) = SubSeq(j, a + 1, b)
    BY <1>2, <2>3
  <2>5. QED
    BY <2>4 DEF InputRow, a, b
<1>5. QED
  BY <1>4 DEF Seen, j

\* The inputs of an invocation come behind the streams that the state was computed from.
LEMMA LstmJoined ==
  ASSUME NEW k, IsLstm(k), NEW base \in Nat, NEW old, NEW x \in Tensors(k.batch, k.steps * k.inputs),
         \A b \in 1..k.batch : old[b] \in Seq(Number) /\ Len(old[b]) = base * k.inputs,
         NEW new, \A b \in 1..k.batch : new[b] = Joint(old[b], x[b]),
         NEW st, LstmStateHolds(k, old, base, st)
  PROVE  LstmInput(k, new, base, LstmTensor(k, x)) /\ LstmStateHolds(k, new, base, st)
<1> DEFINE w == k.inputs
           T == k.steps
           m == T * w
           y == LstmTensor(k, x)
<1>1. w \in Nat \ {0} /\ T \in Nat \ {0} /\ m \in Nat
  BY DEF IsLstm
<1>2. \A b \in 1..k.batch : x[b] \in Seq(Number) /\ Len(x[b]) = m
  <2> SUFFICES ASSUME NEW b \in 1..k.batch PROVE x[b] \in Seq(Number) /\ Len(x[b]) = m
    OBVIOUS
  <2> DEFINE v == x[b]
  <2>1. v \in [1..m -> Number]
    BY DEF Tensors
  <2> HIDE DEF v, m
  <2>2. QED
    BY <1>1, <2>1 DEF v
<1>3. \A b \in 1..k.batch : Seen(new[b], k, base) = Seen(old[b], k, base)
  BY <1>2, SeenBefore
<1>4. LstmStateHolds(k, new, base, st)
  BY <1>3 DEF LstmStateHolds
<1>5. /\ IsTensor(y, (k.batch * k.steps) * w)
      /\ \A b \in 1..k.batch : \A t \in 1..T :
           Row(y, w, RowAt(k, b, t)) = SubSeq(x[b], (t - 1) * w + 1, t * w)
  BY LstmTensorRows
<1> HIDE DEF y
<1>6. ASSUME NEW b \in 1..k.batch, NEW t \in 1..T
      PROVE  Row(y, w, RowAt(k, b, t)) = InputRow(new[b], k, base + t)
  <2> DEFINE s == old[b]
             v == x[b]
             z == Len(s)
             a == (t - 1) * w
             e == t * w
  <2>1. s \in Seq(Number) /\ v \in Seq(Number) /\ Len(v) = m /\ z \in Nat /\ z = base * w
    BY <1>2
  <2>2. a \in Nat /\ e = a + w /\ a + w <= m
    <3> DEFINE l == t - 1
    <3>1. l \in 0..(T - 1) /\ l + 1 = t
      BY <1>1
    <3> HIDE DEF l
    <3>2. l * w \in Nat /\ (l + 1) * w = l * w + w /\ l * w + w <= m
      BY <1>1, <3>1, PlaceInTensor
    <3>3. QED
      BY <3>1, <3>2 DEF l
  <2>3. ((base + t) - 1) * w = base * w + (t - 1) * w /\ (base + t) * w = base * w + t * w
    BY <1>1
  <2>4. new[b] = Joint(s, v)
    OBVIOUS
  <2>5. Row(y, w, RowAt(k, b, t)) = SubSeq(v, a + 1, e)
    BY <1>5
  <2>6. InputRow(new[b], k, base + t) = SubSeq(new[b], ((base + t) - 1) * w + 1, (base + t) * w)
    BY DEF InputRow
  <2>7. ((base + t) - 1) * w = z + a /\ (base + t) * w = z + e
    BY <2>1, <2>3
  <2> HIDE DEF s, v, a, e, m
  <2>8. SubSeq(Joint(s, v), z + a + 1, z + e) = SubSeq(v, a + 1, e)
    <3>1. a \in 0..Len(v) /\ e \in a..Len(v)
      BY <1>1, <2>1, <2>2
    <3>2. QED
      <4>1. EndsIn(Joint(s, v), z, v)
        BY <2>1, HalvesOfJoint
      <4>2. QED
        BY ZenonT(30), <3>1, <4>1 DEF EndsIn
  <2> HIDE DEF z
  <2>9. QED
    BY <2>4, <2>5, <2>6, <2>7, <2>8
<1>7. QED
  BY <1>4, <1>5, <1>6 DEF LstmInput, y

\* Every row of the states was computed from all that the batch was given.
LstmStreams(h, k) == [b \in 1..k.batch |-> StreamOf(h, b)]
LstmInv == kernel.kind = "lstm" =>
  /\ InputsAre(history, kernel.batch, kernel.steps * kernel.inputs)
  /\ LstmStateHolds(kernel, LstmStreams(history, kernel), kernel.steps * Len(history), state)
  /\ LstmExact

\* What the ops accept, for LSTM.
LEMMA LstmFacts ==
  ASSUME kernel \in Kernels, kernel.kind = "lstm"
  PROVE  IsLstm(kernel)
BY KernelAccepted DEF Accepted, LstmAccepted, Positive, IsLstm

\* What LstmExact says of one element.
ExactElement(k, s, n, out, b, t, p) ==
  LET RowIn(m) == SubSeq(s, (m - 1) * k.inputs + 1, m * k.inputs) IN
  out[RowAt(k, b, t) * k.states + p] = Computed(p, [m \in 1..((n - 1) * k.steps + t) |-> RowIn(m)])

\* A row of the output computed from all inputs seen is what the property asks for.
LEMMA LstmIsExactAt ==
  ASSUME NEW k, IsLstm(k), NEW s, NEW N \in Nat, NEW out, NEW b, NEW t \in 1..k.steps,
         NEW p \in 1..k.states, RowHolds(out, k.states, RowAt(k, b, t), Seen(s, k, k.steps * N + t))
  PROVE  ExactElement(k, s, N + 1, out, b, t, p)
<1> DEFINE T == k.steps
           n == T * N + t
           n2 == ((N + 1) - 1) * T + t
           seen == Seen(s, k, n)
<1>1. n = n2 /\ n \in Nat \ {0}
  <2>1. T \in Nat \ {0}
    BY DEF IsLstm
  <2>2. ((N + 1) - 1) * T = T * N /\ T * N \in Nat
    BY <2>1
  <2> DEFINE a == T * N
             c == ((N + 1) - 1) * T
  <2>3. c = a /\ a \in Nat /\ t \in Nat /\ t >= 1
    BY <2>1, <2>2
  <2> HIDE DEF a, c
  <2>4. a + t = c + t /\ a + t \in Nat \ {0}
    BY <2>3
  <2>5. QED
    BY <2>4 DEF a, c
<1>2. out[RowAt(k, b, t) * k.states + p] = Element(p, seen)
  BY DEF RowHolds
<1> HIDE DEF n, n2
<1>3. seen # <<>>
  <2>1. DOMAIN seen = 1..n /\ 1 \in 1..n
    BY <1>1 DEF Seen
  <2>2. DOMAIN seen # {}
    BY <2>1
  <2>3. DOMAIN <<>> = {}
    OBVIOUS
  <2> HIDE DEF seen
  <2>4. QED
    BY <2>2, <2>3, Zenon
<1>4. out[RowAt(k, b, t) * k.states + p] = Computed(p, seen)
  <2> HIDE DEF seen
  <2>1. QED
    BY <1>2, <1>3 DEF Element
<1>5. QED
  BY <1>1, <1>4 DEF ExactElement, Seen, InputRow, n2

\* An invocation of LSTM.
LEMMA LstmEvalStep ==
  ASSUME kernel \in Kernels, calls \in Nat, LstmInv, LstmEval
  PROVE  LstmInv'
<1> DEFINE k == kernel
           w == k.steps * k.inputs
           N == Len(history)
           base == k.steps * N
           x == Fresh(k.batch, w)
           g == Append(history, x)
           y == LstmTensor(k, x)
           r == LstmInvoked(k, state, y)
           old == LstmStreams(history, k)
           new == LstmStreams(g, k)
<1>1. k.kind = "lstm" /\ IsLstm(k)
  BY LstmFacts DEF LstmEval
<1>2. w \in Nat /\ k.batch \in Nat /\ k.steps \in Nat /\ k.inputs \in Nat
  BY <1>1 DEF IsLstm
<1>3. x \in Tensors(k.batch, w)
  <2> HIDE DEF w
  <2>1. QED
    BY <1>2, FreshInput
<1>4. history' = g /\ state' = r.state /\ output' = r.output /\ kernel' = k
  BY DEF LstmEval, Invoked, LstmTensor
<1>5. InputsAre(history, k.batch, w) /\ LstmStateHolds(k, old, base, state)
  BY <1>1 DEF LstmInv
<1> HIDE DEF x, r, y
<1>6. /\ \A b \in 1..k.batch : StreamOf(g, b) = Joint(StreamOf(history, b), x[b])
      /\ InputsAre(g, k.batch, w) /\ Len(g) = N + 1 /\ N \in Nat
  <2> HIDE DEF w, k
  <2>1. QED
    BY <1>2, <1>3, <1>5, InputsNext
<1> HIDE DEF g
<1>7. base \in Nat /\ base + k.steps = k.steps * Len(g)
  <2> HIDE DEF N
  <2>1. QED
    BY SMTT(30), <1>2, <1>6
<1>8. \A b \in 1..k.batch : old[b] \in Seq(Number) /\ Len(old[b]) = base * k.inputs
  <2>1. \A b \in 1..k.batch : StreamOf(history, b) \in Seq(Number) /\ Len(StreamOf(history, b)) = w * N
    BY <1>5 DEF InputsAre
  <2>2. w * N = base * k.inputs
    <3> HIDE DEF N
    <3>1. QED
      BY <1>2, <1>6
  <2>3. QED
    BY <2>1, <2>2 DEF LstmStreams
<1>9. \A b \in 1..k.batch : new[b] = Joint(old[b], x[b])
  BY <1>6 DEF LstmStreams
<1> HIDE DEF old, new, base
<1>10. LstmInput(k, new, base, y) /\ LstmStateHolds(k, new, base, state)
  <2> HIDE DEF k
  <2>1. QED
    BY <1>1, <1>3, <1>5, <1>7, <1>8, <1>9, LstmJoined DEF y, w
<1>11. /\ LstmStateHolds(k, new, base + k.steps, r.state)
       /\ \A b \in 1..k.batch : \A t \in 1..k.steps :
            RowHolds(r.output, k.states, RowAt(k, b, t), Seen(new[b], k, base + t))
  <2> HIDE DEF k
  <2>1. r = LstmInvoked(k, state, y)
    BY DEF r
  <2>2. QED
    BY <1>1, <1>7, <1>10, <2>1, LstmInvokedHolds
<1>12. ASSUME NEW b \in 1..k.batch, NEW t \in 1..k.steps, NEW p \in 1..k.states
       PROVE  ExactElement(k, StreamOf(g, b), Len(g), output', b, t, p)
  <2>1. RowHolds(r.output, k.states, RowAt(k, b, t), Seen(StreamOf(g, b), k, k.steps * N + t))
    BY <1>11 DEF new, LstmStreams, base
  <2> HIDE DEF k
  <2>2. ExactElement(k, StreamOf(g, b), N + 1, r.output, b, t, p)
    BY <1>1, <1>6, <2>1, LstmIsExactAt
  <2>3. QED
    BY <1>4, <1>6, <2>2
<1>13. LstmExact'
  <2>1. kernel' = k /\ history' = g
    BY <1>4
  <2>2. LstmExact' = (k.kind = "lstm" /\ g # <<>> =>
          \A b \in 1..k.batch, t \in 1..k.steps, p \in 1..k.states :
            ExactElement(k, StreamOf(g, b), Len(g), output', b, t, p))
    BY <2>1 DEF LstmExact, Invocations, Stream, StreamOf, ExactElement
  <2>3. QED
    BY <1>12, <2>2
<1>14. QED
  <2>1. LstmStateHolds(k, LstmStreams(g, k), k.steps * Len(g), state')
    BY <1>4, <1>7, <1>11 DEF new
  <2>2. QED
    BY <1>4, <1>6, <1>13, <2>1 DEF LstmInv

\* The state as Reset leaves it was computed from nothing.
LEMMA LstmStart ==
  ASSUME NEW k, IsLstm(k), NEW h, h = <<>>
  PROVE  /\ InputsAre(h, k.batch, k.steps * k.inputs)
         /\ LstmStateHolds(k, LstmStreams(h, k), k.steps * Len(h), ClearedLstm(k))
<1> DEFINE size == k.batch * k.states
           zeros == Copies(Cleared, size)
<1>1. /\ k.batch \in Nat \ {0} /\ k.states \in Nat \ {0} /\ k.steps * k.inputs \in Nat /\ k.steps \in Nat
      /\ size \in Nat
  BY DEF IsLstm
<1>2. InputsAre(h, k.batch, k.steps * k.inputs)
  BY <1>1, InputsStart
<1>3. k.steps * Len(h) = 0
  BY <1>1
<1>4. IsTensor(zeros, size)
  BY DEF IsTensor, Copies
<1>5. ASSUME NEW s, NEW b \in 1..k.batch
      PROVE  RowHolds(zeros, k.states, b - 1, Seen(s, k, 0))
  <2>1. Seen(s, k, 0) = <<>>
    BY DEF Seen
  <2>2. \A p \in 1..k.states : (b - 1) * k.states + p \in 1..size
    <3>1. b - 1 \in 0..(k.batch - 1)
      BY <1>1
    <3>2. QED
      BY <1>1, <3>1, PlaceInTensor
  <2> HIDE DEF size
  <2>3. QED
    BY <2>1, <2>2 DEF RowHolds, Element, Copies
<1>6. ClearedLstm(k).hidden = zeros /\ ClearedLstm(k).cell = zeros
  BY DEF ClearedLstm
<1> HIDE DEF zeros
<1>7. QED
  BY <1>2, <1>3, <1>4, <1>5, <1>6 DEF LstmStateHolds, size

\* LSTM after Prepare.
LEMMA LstmInit ==
  ASSUME Init
  PROVE  LstmInv
<1>1. SUFFICES ASSUME kernel.kind = "lstm" PROVE LstmInv
  BY DEF LstmInv
<1>2. kernel \in Kernels /\ history = <<>> /\ state = ClearedLstm(kernel)
  BY <1>1 DEF Init, Prepared
<1>3. /\ InputsAre(history, kernel.batch, kernel.steps * kernel.inputs)
      /\ LstmStateHolds(kernel, LstmStreams(history, kernel), kernel.steps * Len(history), ClearedLstm(kernel))
  BY <1>1, <1>2, LstmFacts, LstmStart
<1>4. LstmExact
  BY <1>2 DEF LstmExact
<1>5. QED
  BY <1>2, <1>3, <1>4 DEF LstmInv

\* A reset of LSTM.
LEMMA LstmResetStep ==
  ASSUME kernel \in Kernels, LstmInv, LstmReset
  PROVE  LstmInv'
<1> DEFINE h == history'
<1>1. kernel.kind = "lstm" /\ kernel' = kernel /\ h = <<>> /\ state' = ClearedLstm(kernel)
  BY DEF LstmReset, Restarted
<1> HIDE DEF h
<1>2. /\ InputsAre(h, kernel.batch, kernel.steps * kernel.inputs)
      /\ LstmStateHolds(kernel, LstmStreams(h, kernel), kernel.steps * Len(h), ClearedLstm(kernel))
  BY <1>1, LstmFacts, LstmStart
<1>3. LstmExact'
  BY <1>1 DEF LstmExact, h
<1>4. QED
  BY <1>1, <1>2, <1>3 DEF LstmInv, h

-----------------------------------------------------------------------------
(***************************************************************************)
(* Part 12: the kernels together.  A model holds one of them; the          *)
(* invariant of each says nothing of the others.                           *)
(***************************************************************************)

KernelsInv ==
  /\ kernel \in Kernels /\ calls \in Nat
  /\ FramerInv /\ StackerInv /\ DelayInv /\ OverlapAddInv /\ SvdfInv /\ LstmInv

\* All kernels after Prepare.
LEMMA KernelsInit == Init => KernelsInv
<1> SUFFICES ASSUME Init PROVE KernelsInv
  OBVIOUS
<1>1. kernel \in Kernels /\ calls \in Nat
  BY DEF Init
<1>2. FramerInv /\ StackerInv /\ DelayInv /\ OverlapAddInv /\ SvdfInv /\ LstmInv
  BY FramerInit, StackerInit, DelayInit, OverlapAddInit, SvdfInit, LstmInit
<1>3. QED
  BY <1>1, <1>2 DEF KernelsInv

\* What every step does: no other kernel takes its place.
LEMMA KernelsFrame ==
  ASSUME KernelsInv, Next
  PROVE  kernel' = kernel /\ kernel' \in Kernels /\ calls' \in Nat
<1> USE DEF KernelsInv
<1>0. calls \in Nat /\ calls + 1 \in Nat /\ kernel \in Kernels
  OBVIOUS
<1>1. CASE FramerEval
  <2>1. kernel' = kernel /\ calls' = calls + 1
    BY <1>1, Zenon DEF FramerEval, Invoked
  <2>2. QED
    BY <1>0, <2>1
<1>2. CASE StackerEval
  <2>1. kernel' = kernel /\ calls' = calls + 1
    BY <1>2, Zenon DEF StackerEval, Invoked
  <2>2. QED
    BY <1>0, <2>1
<1>3. CASE DelayEval
  <2>1. kernel' = kernel /\ calls' = calls + 1
    BY <1>3, Zenon DEF DelayEval, Invoked
  <2>2. QED
    BY <1>0, <2>1
<1>4. CASE OverlapAddEval
  <2>1. kernel' = kernel /\ calls' = calls + 1
    BY <1>4, Zenon DEF OverlapAddEval, Invoked
  <2>2. QED
    BY <1>0, <2>1
<1>5. CASE SvdfEval
  <2>1. kernel' = kernel /\ calls' = calls + 1
    BY <1>5, Zenon DEF SvdfEval, Invoked
  <2>2. QED
    BY <1>0, <2>1
<1>6. CASE LstmEval
  <2>1. kernel' = kernel /\ calls' = calls + 1
    BY <1>6, Zenon DEF LstmEval, Invoked
  <2>2. QED
    BY <1>0, <2>1
<1>7. CASE \/ FramerReset \/ StackerReset \/ DelayReset
           \/ OverlapAddReset \/ SvdfReset \/ LstmReset
  BY <1>0, <1>7 DEF FramerReset, StackerReset, DelayReset, OverlapAddReset, SvdfReset,
              LstmReset, Restarted
<1>8. QED
  BY <1>1, <1>2, <1>3, <1>4, <1>5, <1>6, <1>7 DEF Next

\* Properties in a step that changes nothing: as functions of the variables they look at.
LEMMA FramesUnchanged ==
  ASSUME UNCHANGED vars, FramesExact
  PROVE  FramesExact'
<1> DEFINE Exact(k, h, o, v) == k.kind = "framer" /\ h # <<>> =>
      LET padding == IF k.prefill THEN k.size - k.step ELSE 0
          first == CHOOSE w \in 1..k.size : /\ padding + w * k.step >= k.size
                                            /\ padding + (w - 1) * k.step < k.size
          Behind(f) == (Len(h) - 1) * k.frames + f - first
      IN  /\ \A i \in 1..k.outer, f \in 1..k.frames :
               LET from == Behind(f) * k.step
                   stream == FlattenSeq([t \in DOMAIN h |-> h[t][i]])
               IN  o[i][f] = IF Behind(f) < 0 THEN Unwritten
                             ELSE SubSeq(Zeros(padding) \o stream, from + 1, from + k.size)
          /\ v <=> Behind(1) >= 0
<1>1. kernel' = kernel /\ history' = history /\ output' = output /\ valid' = valid
  BY DEF vars
<1>2. FramesExact = Exact(kernel, history, output, valid)
  BY DEF FramesExact, Invocations, Stream
<1>3. FramesExact' = Exact(kernel', history', output', valid')
  BY DEF FramesExact, Invocations, Stream
<1> HIDE DEF Exact
<1>4. QED
  BY <1>1, <1>2, <1>3

\* The properties are about the state alone.
LEMMA SvdfUnchanged ==
  ASSUME UNCHANGED vars, SvdfExact
  PROVE  SvdfExact'
<1> DEFINE Exact(k, h, o) == k.kind = "svdf" /\ h # <<>> =>
      \A b \in 1..k.batch, u \in 1..k.units, r \in 1..k.rank :
        LET filter == (u - 1) * k.rank + r
            Latest(j) == Len(h) - k.memory + j
        IN  o[b][u][r] = [j \in 1..k.memory |->
              IF Latest(j) < 1 THEN Cleared ELSE Feature(h[Latest(j)][b], filter)]
<1>1. kernel' = kernel /\ history' = history /\ output' = output
  BY DEF vars
<1>2. SvdfExact = Exact(kernel, history, output)
  BY DEF SvdfExact, Invocations
<1>3. SvdfExact' = Exact(kernel', history', output')
  BY DEF SvdfExact, Invocations
<1> HIDE DEF Exact
<1>4. QED
  BY <1>1, <1>2, <1>3

\* The same for OVERLAP_ADD.
LEMMA OverlapAddUnchanged ==
  ASSUME UNCHANGED vars, OverlapAddExact
  PROVE  OverlapAddExact'
<1> DEFINE Exact(k, h, o) == k.kind = "overlap_add" /\ h # <<>> =>
      \A i \in 1..k.outer, f \in 1..k.frames, j \in 1..k.step :
        ExactSum(k, StreamOf(h, i), Len(h), o[i], f, j)
<1>1. kernel' = kernel /\ history' = history /\ output' = output
  BY DEF vars
<1>2. OverlapAddExact = Exact(kernel, history, output)
  BY DEF OverlapAddExact, Invocations, Stream, StreamOf, ExactSum
<1>3. OverlapAddExact' = Exact(kernel', history', output')
  BY DEF OverlapAddExact, Invocations, Stream, StreamOf, ExactSum
<1> HIDE DEF Exact
<1>4. QED
  BY <1>1, <1>2, <1>3

\* The same for LSTM.
LEMMA LstmUnchanged ==
  ASSUME UNCHANGED vars, LstmExact
  PROVE  LstmExact'
<1> DEFINE Exact(k, h, o) == k.kind = "lstm" /\ h # <<>> =>
      \A b \in 1..k.batch, t \in 1..k.steps, p \in 1..k.states :
        ExactElement(k, StreamOf(h, b), Len(h), o, b, t, p)
<1>1. kernel' = kernel /\ history' = history /\ output' = output
  BY DEF vars
<1>2. LstmExact = Exact(kernel, history, output)
  BY DEF LstmExact, Invocations, Stream, StreamOf, ExactElement
<1>3. LstmExact' = Exact(kernel', history', output')
  BY DEF LstmExact, Invocations, Stream, StreamOf, ExactElement
<1> HIDE DEF Exact
<1>4. QED
  BY <1>1, <1>2, <1>3

\* No step breaks the invariant of any kernel.
LEMMA KernelsNext == KernelsInv /\ [Next]_vars => KernelsInv'
<1> SUFFICES ASSUME KernelsInv, [Next]_vars PROVE KernelsInv'
  OBVIOUS
<1>1. CASE UNCHANGED vars
  <2>1. /\ kernel' = kernel /\ state' = state /\ calls' = calls /\ history' = history
        /\ output' = output /\ valid' = valid
    BY <1>1 DEF vars
  <2>2. FramerInv'
    <3>1. CASE kernel.kind # "framer"
      BY <2>1, <3>1 DEF FramerInv
    <3>2. CASE kernel.kind = "framer"
      <4>1. FramesExact => FramesExact'
        BY <1>1, FramesUnchanged
      <4>2. FramerInv
        BY DEF KernelsInv
      <4>3. QED
        BY <2>1, <4>1, <4>2, Zenon DEF FramerInv
    <3>3. QED
      BY <3>1, <3>2
  <2>3. StackerInv'
    BY <2>1 DEF KernelsInv, StackerInv, StacksExact, Stream, Invocations
  <2>4. DelayInv'
    BY <2>1 DEF KernelsInv, DelayInv, DelayExact, Stream, Invocations
  <2>5. SvdfInv'
    <3>1. SvdfExact => SvdfExact'
      BY <1>1, SvdfUnchanged
    <3>2. SvdfInv
      BY DEF KernelsInv
    <3>3. QED
      BY <2>1, <3>1, <3>2, Zenon DEF SvdfInv
  <2>6. OverlapAddInv'
    <3>1. OverlapAddExact => OverlapAddExact'
      BY <1>1, OverlapAddUnchanged
    <3>2. OverlapAddInv
      BY DEF KernelsInv
    <3>3. QED
      BY <2>1, <3>1, <3>2, Zenon DEF OverlapAddInv
  <2>7. LstmInv'
    <3>1. LstmExact => LstmExact'
      BY <1>1, LstmUnchanged
    <3>2. LstmInv
      BY DEF KernelsInv
    <3>3. QED
      BY <2>1, <3>1, <3>2, Zenon DEF LstmInv
  <2>8. QED
    BY <2>1, <2>2, <2>3, <2>4, <2>5, <2>6, <2>7 DEF KernelsInv
<1>2. CASE Next
  <2>1. kernel' = kernel /\ kernel' \in Kernels /\ calls' \in Nat
    BY <1>2, KernelsFrame
  <2>2. /\ kernel \in Kernels /\ calls \in Nat
        /\ FramerInv /\ StackerInv /\ DelayInv /\ OverlapAddInv /\ SvdfInv /\ LstmInv
    BY DEF KernelsInv
  <2>3. FramerInv'
    <3>1. CASE FramerEval
      BY <2>2, <3>1, FramerEvalStep
    <3>2. CASE FramerReset
      BY <2>2, <3>2, FramerResetStep
    <3>3. CASE kernel.kind # "framer"
      BY <2>1, <3>3 DEF FramerInv
    <3>4. QED
      BY <1>2, <3>1, <3>2, <3>3 DEF Next, StackerEval, DelayEval, OverlapAddEval, SvdfEval, LstmEval,
           StackerReset, DelayReset, OverlapAddReset, SvdfReset, LstmReset, Restarted
  <2>4. StackerInv'
    <3>1. CASE StackerEval
      BY <2>2, <3>1, StackerEvalStep
    <3>2. CASE StackerReset
      BY <2>2, <3>2, StackerResetStep
    <3>3. CASE kernel.kind # "stacker"
      BY <2>1, <3>3 DEF StackerInv
    <3>4. QED
      BY <1>2, <3>1, <3>2, <3>3 DEF Next, FramerEval, DelayEval, OverlapAddEval, SvdfEval, LstmEval,
           FramerReset, DelayReset, OverlapAddReset, SvdfReset, LstmReset, Restarted
  <2>5. DelayInv'
    <3>1. CASE DelayEval
      BY <2>2, <3>1, DelayEvalStep
    <3>2. CASE DelayReset
      BY <2>2, <3>2, DelayResetStep
    <3>3. CASE kernel.kind # "delay"
      BY <2>1, <3>3 DEF DelayInv
    <3>4. QED
      BY <1>2, <3>1, <3>2, <3>3 DEF Next, FramerEval, StackerEval, OverlapAddEval, SvdfEval, LstmEval,
           FramerReset, StackerReset, OverlapAddReset, SvdfReset, LstmReset, Restarted
  <2>6. SvdfInv'
    <3>1. CASE SvdfEval
      BY <2>2, <3>1, SvdfEvalStep
    <3>2. CASE SvdfReset
      BY <2>2, <3>2, SvdfResetStep
    <3>3. CASE kernel.kind # "svdf"
      BY <2>1, <3>3 DEF SvdfInv
    <3>4. QED
      BY <1>2, <3>1, <3>2, <3>3 DEF Next, FramerEval, StackerEval, DelayEval, OverlapAddEval, LstmEval,
           FramerReset, StackerReset, DelayReset, OverlapAddReset, LstmReset, Restarted
  <2>7. OverlapAddInv'
    <3>1. CASE OverlapAddEval
      BY <2>2, <3>1, OverlapAddEvalStep
    <3>2. CASE OverlapAddReset
      BY <2>2, <3>2, OverlapAddResetStep
    <3>3. CASE kernel.kind # "overlap_add"
      BY <2>1, <3>3 DEF OverlapAddInv
    <3>4. QED
      BY <1>2, <3>1, <3>2, <3>3 DEF Next, FramerEval, StackerEval, DelayEval, SvdfEval, LstmEval,
           FramerReset, StackerReset, DelayReset, SvdfReset, LstmReset, Restarted
  <2>8. LstmInv'
    <3>1. CASE LstmEval
      BY <2>2, <3>1, LstmEvalStep
    <3>2. CASE LstmReset
      BY <2>2, <3>2, LstmResetStep
    <3>3. CASE kernel.kind # "lstm"
      BY <2>1, <3>3 DEF LstmInv
    <3>4. QED
      BY <1>2, <3>1, <3>2, <3>3 DEF Next, FramerEval, StackerEval, DelayEval, OverlapAddEval, SvdfEval,
           FramerReset, StackerReset, DelayReset, OverlapAddReset, SvdfReset, Restarted
  <2>9. QED
    BY <2>1, <2>3, <2>4, <2>5, <2>6, <2>7, <2>8 DEF KernelsInv
<1>3. QED
  BY <1>1, <1>2

\* What a kernel keeps is, in every reachable state, what the stream it was given makes it: the
\* samples not yet delivered (the buffers of FRAMER, STACKER and DELAY), the running sums (the
\* buffer of OVERLAP_ADD), the last features and what was computed from all inputs (the
\* variable tensors of SVDF and LSTM), behind any number of invocations and resets.
THEOREM KernelsInvariant == Spec => []KernelsInv
BY KernelsInit, KernelsNext, PTL DEF Spec

\* FRAMER writes every frame of the (zero-padded) stream once and in order, for any frame size
\* and step, any number of frames in an invocation, per channel, across resets; output_valid
\* holds exactly when no frame of the invocation is incomplete, so that complete frames in the
\* same tensor behind the last incomplete one are marked invalid with it.
THEOREM FramesAreExact == Spec => []FramesExact
<1>1. KernelsInv => FramesExact
  BY DEF KernelsInv, FramerInv, FramesExact
<1>2. QED
  BY <1>1, KernelsInvariant, PTL

\* STACKER delivers the frames with their contexts, every stacker_step invocations, for any
\* contexts and step, padded on the left with the first frame since the reset, and says so by
\* output_valid; otherwise it leaves the output as it was.
THEOREM StacksAreExact == Spec => []StacksExact
<1>1. KernelsInv => StacksExact
  BY DEF KernelsInv, StackerInv, StacksExact
<1>2. QED
  BY <1>1, KernelsInvariant, PTL

\* DELAY delivers the stream late by delay_length samples, for any delay and frame size.
THEOREM DelayIsExact == Spec => []DelayExact
<1>1. KernelsInv => DelayExact
  BY DEF KernelsInv, DelayInv, DelayExact
<1>2. QED
  BY <1>1, KernelsInvariant, PTL

\* SVDF computes every unit from the last memory_size features of its own filters and batch,
\* for any number of batches, filters and units: the shift over the ends of the rows is right.
THEOREM SvdfIsExact == Spec => []SvdfExact
<1>1. KernelsInv => SvdfExact
  BY DEF KernelsInv, SvdfInv, SvdfExact
<1>2. QED
  BY <1>1, KernelsInvariant, PTL

\* OVERLAP_ADD delivers at every position the sum of the frames that cover it, saturated in
\* their order, for any frame size and step, any samples and any number of invocations.
THEOREM OverlapAddIsExact == Spec => []OverlapAddExact
<1>1. KernelsInv => OverlapAddExact
  BY DEF KernelsInv, OverlapAddInv, OverlapAddExact
<1>2. QED
  BY <1>1, KernelsInvariant, PTL

\* LSTM computes every output from the inputs of its own batch up to its own step since the last
\* reset, for any sizes and in both layouts of the tensors: the offsets of its steps agree.
THEOREM LstmIsExact == Spec => []LstmExact
<1>1. KernelsInv => LstmExact
  BY DEF KernelsInv, LstmInv, LstmExact
<1>2. QED
  BY <1>1, KernelsInvariant, PTL

\* The buffers of FRAMER, STACKER and DELAY have room for what the next invocation writes: no
\* assertion of circular_buffer.cc fails, for any parameters the operators accept but those of a
\* framer with prefill that steps further than its frame is long, and of a stacker that steps
\* further than its contexts and its frame are long.
THEOREM KernelsHaveRoom == Spec => []RoomForNext
<1>1. ASSUME KernelsInv
      PROVE  RoomForNext
  <2>1. kernel \in Kernels /\ FramerInv /\ StackerInv /\ DelayInv
    BY <1>1 DEF KernelsInv
  <2>2. kernel.kind = "framer" => \A i \in DOMAIN state : CanWrite(state[i]) >= kernel.step
    BY <2>1, FramerRoom
  <2>3. kernel.kind = "delay" => \A i \in DOMAIN state :
          CanWrite(state[i]) = kernel.frame /\ Available(state[i]) = kernel.delay
    BY <2>1, DelayRoom
  <2>4. ASSUME kernel.kind = "stacker", NEW i \in DOMAIN state
        PROVE  CanWrite(state[i].cb) >= kernel.channels * (IF state[i].hasFirst THEN 1 ELSE kernel.left + 1)
    <3> DEFINE c == state[i].cb
               C == kernel.channels
               m == IF state[i].hasFirst THEN 1 ELSE kernel.left + 1
    <3>1. i = 1 /\ C \in Nat /\ kernel.left \in Nat /\ state[1].hasFirst \in BOOLEAN
      <4>1. /\ C \in Nat \ {0} /\ kernel.left \in Nat
            /\ DOMAIN state = 1..1 /\ state[1].hasFirst = (history # <<>>)
        BY <2>1, <2>4, StackerFacts
      <4>2. i \in 1..1
        BY <2>4, <4>1
      <4>3. QED
        BY <4>1, <4>2
    <3>2. state[1].hasFirst => C <= CanWrite(c)
      BY <2>1, <2>4, <3>1, StackerRoom
    <3>3. ~state[1].hasFirst => C * (kernel.left + 1) <= CanWrite(c)
      BY <2>1, <2>4, <3>1, StackerRoom
    <3>4. C * 1 = C
      BY <3>1
    <3>5. m \in Nat /\ C * m <= CanWrite(c)
      BY <3>1, <3>2, <3>3, <3>4
    <3>6. CanWrite(c) \in Int
      <4>1. PICK D \in Nat : Holds(state[1].cb, WithLeft(kernel, history), kernel.channels * (kernel.step * D))
        BY <2>1, <2>4 DEF StackerInv
      <4>2. QED
        BY <3>1, <4>1, HoldsFacts
    <3> HIDE DEF c, m, C
    <3>7. C * m \in Int
      BY <3>1, <3>5
    <3>8. CanWrite(c) >= C * m
      BY <3>5, <3>6, <3>7
    <3>9. QED
      BY <3>8 DEF c, m, C
  <2>5. QED
    BY <2>2, <2>3, <2>4 DEF RoomForNext
<1>2. QED
  BY <1>1, KernelsInvariant, PTL
====
