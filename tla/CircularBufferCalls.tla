------------------------- MODULE CircularBufferCalls -------------------------
(***************************************************************************)
(* Any sequence of legal calls of the signal circular buffer, one action   *)
(* for each function that changes the buffer.  The guards are the          *)
(* functions' assertions; Shift has one on its distance only, so it may    *)
(* move the read position past the write position.                         *)
(***************************************************************************)
EXTENDS CircularBuffer

CONSTANTS Capacity, Samples

ASSUME CapacityAssumption == Capacity \in Nat \ {0} /\ 0 \in Samples

VARIABLES
  cb,
  unmirrored,      \* positions whose sample came through ReserveForWrite
  given            \* the samples the last call handed over

callVars == <<cb, unmirrored, given>>

\* The positions a call that advances write by n stored to.
Positions(n) == {(cb.write + i) % cb.capacity : i \in 0..(n - 1)}

CallsInit == cb = CircularBufferInit(Capacity) /\ unmirrored = {} /\ given = <<>>

CallReset == cb' = CircularBufferReset(cb) /\ unmirrored' = {} /\ given' = <<>>

CallAdd == \E value \in Samples :
  /\ ~Full(cb)
  /\ cb' = Add(cb, value)
  /\ unmirrored' = unmirrored \ Positions(1)
  /\ given' = <<value>>

CallWrite == \E n \in 0..Capacity : \E values \in [1..n -> Samples] :
  /\ FitsWrite(cb, n)
  /\ cb' = Write(cb, values)
  /\ unmirrored' = unmirrored \ Positions(n)
  /\ given' = values

CallWriteZeros == \E n \in 0..Capacity :
  /\ FitsWrite(cb, n)
  /\ cb' = WriteZeros(cb, n)
  /\ unmirrored' = unmirrored \ Positions(n)
  /\ given' = Zeros(n)

\* "Fails if n elements are not available contiguously": the caller sees to the first
\* half of that, the code only asserts the second.
CallReserveForWrite == \E n \in 0..Capacity : \E values \in [1..n -> Samples] :
  /\ FitsWrite(cb, n)
  /\ cb.write + n <= cb.capacity
  /\ cb' = ReserveForWrite(cb, values)
  /\ unmirrored' = unmirrored \union Positions(n)
  /\ given' = values

CallExtend == \E count \in 0..Capacity, n \in 0..Capacity :
  /\ FitsExtend(cb, count, n)
  /\ cb' = Extend(cb, count, n)
  /\ unmirrored' = unmirrored \ Positions(count * n)
  /\ given' = <<>>

CallRemove ==
  /\ ~cb.empty
  /\ cb' = RemoveSample(cb)
  /\ given' = <<>>
  /\ UNCHANGED unmirrored

CallDiscard == \E n \in 1..Available(cb) :
  /\ cb' = Discard(cb, n)
  /\ given' = <<>>
  /\ UNCHANGED unmirrored

CallRewind == \E n \in 0..CanWrite(cb) :
  /\ cb' = Rewind(cb, n)
  /\ given' = <<>>
  /\ UNCHANGED unmirrored

\* Shift does not touch the empty flag, and its assertion does not look at it: after a shift
\* by all that is unread the buffer is full, and an empty one that is shifted has something
\* to read although the flag stays.
CallShift == \E n \in (-Capacity)..Capacity :
  /\ cb' = Shift(cb, n)
  /\ given' = <<>>
  /\ UNCHANGED unmirrored

CallsNext ==
  \/ CallReset
  \/ CallAdd
  \/ CallWrite
  \/ CallWriteZeros
  \/ CallReserveForWrite
  \/ CallExtend
  \/ CallRemove
  \/ CallDiscard
  \/ CallRewind
  \/ CallShift

CallsSpec == CallsInit /\ [][CallsNext]_callVars

-----------------------------------------------------------------------------
\* The last Capacity samples lie before the write position, the oldest at it.
Recent == [i \in 1..Capacity |-> cb.buffer[(cb.write + i - 1) % Capacity]]
Unread == SubSeq(Recent, Capacity - Available(cb) + 1, Capacity)

Window == INSTANCE SlidingWindow WITH recent <- Recent, unread <- Available(cb),
                                         given <- given

\* Every call does to the buffer what its name says of a sliding window: no sample is lost,
\* repeated or taken out of order at any alignment of the two positions, and a rewind restores
\* what was read (signal/src/circular_buffer.cc).  A shift only moves the end of what is
\* unread: how far, when it runs into the write position, the window does not say.
IsWindow == Window!WindowSpec

\* The ways to look at the unread samples agree with one another and with the window,
\* whichever side of the wrap they start on; PeekMax is a non-empty prefix.  The pointer
\* PeekDirect returns can be followed to the last unread sample without a wrap, as far as the
\* samples were not stored through the pointer of ReserveForWrite, which the second half of
\* the array never sees.
ReadsAgree ==
  /\ \A n \in 0..Available(cb) : Get(cb, n) = SubSeq(Unread, 1, n)
  /\ \A i \in 0..(Available(cb) - 1) : Peek(cb, i) = Unread[i + 1]
  /\ IsPrefix(PeekMax(cb), Unread) /\ (PeekMax(cb) = <<>> => Unread = <<>>)
  /\ \A i \in 0..(Available(cb) - 1) : \A n \in 0..(Available(cb) - 1 - i) :
       LET at == PeekTarget(cb, i) + n IN
       at - Capacity \notin unmirrored => cb.buffer[at] = Unread[i + n + 1]
=============================================================================
