--------------------------- MODULE CircularBuffer ---------------------------
(***************************************************************************)
(* The functions of signal/src/circular_buffer.cc on a record: capacity,   *)
(* read, write and empty are the struct's fields, buffer its samples, from *)
(* 0.  The array is twice the capacity and its second half mirrors the     *)
(* first, so that a reader may run past the end.  What the code asserts of *)
(* a call is the operator Fits... or a comment of its own; an operator     *)
(* says what the call does when that holds.                                *)
(***************************************************************************)
EXTENDS Integers, SequencesExt

\* memcpy of values into the array, and a read of n cells from it.
Placed(buffer, at, values) ==
  [i \in DOMAIN buffer |-> IF i \in at..(at + Len(values) - 1) THEN values[i - at + 1] ELSE buffer[i]]
Cells(buffer, from, n) == [i \in 1..n |-> buffer[from + i - 1]]

Zeros(n) == [i \in 1..n |-> 0]

CircularBufferInit(capacity) ==
  [capacity |-> capacity, read |-> 0, write |-> 0, empty |-> TRUE,
   buffer |-> [i \in 0..(2 * capacity - 1) |-> 0]]

CircularBufferReset(cb) == CircularBufferInit(cb.capacity)

Available(cb) ==
  LET diff == cb.write - cb.read IN
  IF diff > 0 THEN diff
  ELSE IF diff < 0 THEN cb.capacity + diff
  ELSE IF cb.empty THEN 0 ELSE cb.capacity

CanWrite(cb) == cb.capacity - Available(cb)

Full(cb) == cb.read = cb.write /\ ~cb.empty

\* Asserted: ~Full(cb).
Add(cb, value) ==
  [cb EXCEPT !.buffer = [@ EXCEPT ![cb.write] = value, ![cb.write + cb.capacity] = value],
             !.write = IF @ + 1 = cb.capacity THEN 0 ELSE @ + 1,
             !.empty = FALSE]

FitsWrite(cb, n) == CanWrite(cb) >= n

\* A slip in the definition below: what wraps around is not copied to the start.
WriteWithoutWrap(cb, values) ==
  LET n == Len(values)
      end == cb.write + n
      n1 == IF end < cb.capacity THEN n ELSE cb.capacity - cb.write
  IN  IF n = 0 THEN cb
      ELSE [cb EXCEPT !.buffer = Placed(Placed(@, cb.write, values),
                                        cb.capacity + cb.write, SubSeq(values, 1, n1)),
                      !.write = IF end < cb.capacity THEN end ELSE end - cb.capacity,
                      !.empty = FALSE]

\* A slip in the definition below: the second half is left alone.
WriteWithoutMirror(cb, values) ==
  LET n == Len(values)
      end == cb.write + n
      n1 == IF end < cb.capacity THEN n ELSE cb.capacity - cb.write
  IN  IF n = 0 THEN cb
      ELSE [cb EXCEPT !.buffer = Placed(Placed(@, cb.write, SubSeq(values, 1, n1)),
                                        0, SubSeq(values, n1 + 1, n)),
                      !.write = IF end < cb.capacity THEN end ELSE end - cb.capacity,
                      !.empty = FALSE]

\* The first copy may run on into the second half, where what wraps belongs as well.
Write(cb, values) ==
  LET n == Len(values)
      end == cb.write + n
      n1 == IF end < cb.capacity THEN n ELSE cb.capacity - cb.write
      placed == Placed(cb.buffer, cb.write, values)
      mirrored == Placed(placed, cb.capacity + cb.write, SubSeq(values, 1, n1))
  IN  IF n = 0 THEN cb
      ELSE [cb EXCEPT !.buffer = Placed(mirrored, 0, SubSeq(values, n1 + 1, n)),
                      !.write = IF end < cb.capacity THEN end ELSE end - cb.capacity,
                      !.empty = FALSE]

WriteZeros(cb, n) == Write(cb, Zeros(n))

\* Asserted: cb.write + Len(values) <= cb.capacity.  The caller stores its values through
\* the pointer it is given, in the first half only.
ReserveForWrite(cb, values) ==
  LET end == cb.write + Len(values) IN
  [cb EXCEPT !.buffer = Placed(@, cb.write, values),
             !.write = IF end = cb.capacity THEN 0 ELSE end,
             !.empty = @ /\ values = <<>>]

\* The count samples from start once more, in two pieces when they lie around the end.
WriteAgain(cb, start, count) ==
  LET n1 == cb.capacity - start
      head == Write(cb, Cells(cb.buffer, start, n1))
  IN  IF start + count <= cb.capacity THEN Write(cb, Cells(cb.buffer, start, count))
      ELSE Write(head, Cells(head.buffer, 0, count - n1))

FitsExtend(cb, count, n) ==
  n > 0 /\ count > 0 => CanWrite(cb) >= count * n /\ Available(cb) >= count

Extend(cb, count, n) ==
  LET start == IF count > cb.write THEN cb.write + cb.capacity - count ELSE cb.write - count
      repeated[i \in 0..n] == IF i = 0 THEN cb ELSE WriteAgain(repeated[i - 1], start, count)
  IN  IF n > 0 /\ count > 0 THEN repeated[n] ELSE cb

\* Advancing the read position, with the test for emptiness.
RemoveSample(cb) ==
  LET next == IF cb.read + 1 = cb.capacity THEN 0 ELSE cb.read + 1 IN
  [cb EXCEPT !.read = next, !.empty = @ \/ next = cb.write]

\* Asserted: n > 0 and Available(cb) >= n.
Discard(cb, n) ==
  LET next == IF cb.read + n >= cb.capacity THEN cb.read + n - cb.capacity ELSE cb.read + n IN
  [cb EXCEPT !.read = next, !.empty = @ \/ next = cb.write]

\* Asserted: n <= CanWrite(cb).
Rewind(cb, n) ==
  [cb EXCEPT !.read = IF n > @ THEN @ + cb.capacity - n ELSE @ - n,
             !.empty = @ /\ n = 0]

\* Asserted: -capacity <= n <= capacity.  The empty flag is left as it is.
Shift(cb, n) ==
  [cb EXCEPT !.read = IF n < 0 THEN (IF @ < -n THEN @ + cb.capacity ELSE @) + n
                      ELSE IF @ + n >= cb.capacity THEN @ + n - cb.capacity
                      ELSE @ + n]

Get(cb, n) ==
  IF cb.read + n <= cb.capacity
  THEN Cells(cb.buffer, cb.read, n)
  ELSE Cells(cb.buffer, cb.read, cb.capacity - cb.read)
         \o Cells(cb.buffer, 0, cb.read + n - cb.capacity)

\* The position of the sample at index; PeekDirect returns a pointer to it.
PeekTarget(cb, index) ==
  IF cb.read + index >= cb.capacity THEN cb.read + index - cb.capacity ELSE cb.read + index

Peek(cb, index) == cb.buffer[PeekTarget(cb, index)]

PeekMax(cb) ==
  IF Available(cb) = 0 THEN <<>>
  ELSE Cells(cb.buffer, cb.read,
         IF cb.write <= cb.read THEN cb.capacity - cb.read ELSE cb.write - cb.read)
=============================================================================
