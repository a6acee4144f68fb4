---------------------------- MODULE SlidingWindow ----------------------------
(***************************************************************************)
(* What the users of a signal circular buffer rely on: the last Capacity   *)
(* samples written, oldest first, of which the newest unread ones are      *)
(* still to be read.  Samples that were read stay until new ones push them *)
(* out, so that a rewind can restore them.                                 *)
(***************************************************************************)
EXTENDS Integers, Sequences

CONSTANTS Capacity, Samples

VARIABLES
  recent,          \* the last Capacity samples, the oldest first
  unread,          \* how many of them, from the newest, are still to be read
  given            \* the samples the last call handed over

windowVars == <<recent, unread, given>>

CanWrite == Capacity - unread

Newest(s) == SubSeq(s, Len(s) - Capacity + 1, Len(s))

\* New samples push out as many old ones, never one that is still to be read.
Push(values) ==
  /\ Len(values) \in 1..CanWrite
  /\ recent' = Newest(recent \o values)
  /\ unread' = unread + Len(values)

WindowWrites == \E n \in 1..CanWrite :
  /\ given' \in [1..n -> Samples]
  /\ Push(given')

\* The newest samples, all of them still to be read, several times over.
WindowRepeats == \E count \in 1..unread, times \in 1..CanWrite :
  /\ count * times <= CanWrite
  /\ Push([i \in 1..(count * times) |-> recent[Capacity - count + 1 + ((i - 1) % count)]])
  /\ given' = <<>>

WindowReads == \E n \in 1..unread :
  /\ unread' = unread - n
  /\ given' = <<>>
  /\ UNCHANGED recent

WindowRewinds == \E n \in 1..CanWrite :
  /\ unread' = unread + n
  /\ given' = <<>>
  /\ UNCHANGED recent

WindowClears ==
  /\ recent' = [i \in 1..Capacity |-> 0]
  /\ unread' = 0
  /\ given' = <<>>

\* A call with nothing to do.
WindowRests == given' = <<>> /\ UNCHANGED <<recent, unread>>

WindowInit ==
  /\ recent = [i \in 1..Capacity |-> 0]
  /\ unread = 0
  /\ given = <<>>

WindowNext ==
  \/ WindowWrites \/ WindowRepeats \/ WindowReads
  \/ WindowRewinds \/ WindowClears \/ WindowRests

WindowSpec == WindowInit /\ [][WindowNext]_windowVars
=============================================================================
