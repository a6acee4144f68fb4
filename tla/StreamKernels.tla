--------------------------- MODULE StreamKernels ---------------------------
(***************************************************************************)
(* The kernels that keep something from one invocation to the next: the    *)
(* signal kernels FRAMER, STACKER, DELAY and OVERLAP_ADD, and SVDF and     *)
(* LSTM with state in variable tensors.  A model holds one of them; each   *)
(* invocation hands it a tensor, and MicroInterpreter::Reset may fall      *)
(* between any two invocations.  A tensor is a sequence of channels (the   *)
(* outer dimensions), a channel a sequence of samples or of frames.        *)
(*                                                                         *)
(* What they are given are tokens that never repeat, so that a lost,       *)
(* repeated or stale sample shows; OVERLAP_ADD computes, so it is given    *)
(* numbers, and saturates at SampleMax for INT16_MAX.                      *)
(***************************************************************************)
EXTENDS CircularBuffer, RecurrentKernels

CONSTANTS
  Kernels,         \* records: kind, the parameters of that kind, the bound MaxCalls
  OverlapSamples,  \* what OVERLAP_ADD is given
  SampleMax        \* INT16_MAX, and -SampleMax - 1 is INT16_MIN

Positive == Nat \ {0}

\* The attributes the op definitions accept (frame_step >= 1 and the like), less three
\* combinations that they accept too and the kernels do not check: a framer with prefill that
\* steps further than its frame is long, which is to write frame_size - frame_step zeros, fewer
\* than none; a stacker that is to discard more than it holds; overlap_add that is to move
\* size - step sums, fewer than none.  With these an assertion fails or a length is negative.
FramerAccepted(k) == k.kind = "framer" =>
  /\ k.size \in Positive /\ k.step \in Positive /\ k.prefill \in BOOLEAN
  /\ k.outer \in Positive /\ k.frames \in Positive
  /\ k.prefill => k.step <= k.size

StackerAccepted(k) == k.kind = "stacker" =>
  /\ k.channels \in Positive /\ k.step \in Positive /\ k.left \in Nat /\ k.right \in Nat
  /\ k.step <= k.left + k.right + 1

DelayAccepted(k) == k.kind = "delay" =>
  k.frame \in Positive /\ k.delay \in Nat /\ k.outer \in Positive

OverlapAddAccepted(k) == k.kind = "overlap_add" =>
  /\ k.size \in Positive /\ k.step \in Positive /\ k.step <= k.size
  /\ k.outer \in Positive /\ k.frames \in Positive

SvdfAccepted(k) == k.kind = "svdf" =>
  /\ k.batch \in Positive /\ k.rank \in Positive
  /\ k.units \in Positive /\ k.memory \in Positive

LstmAccepted(k) == k.kind = "lstm" =>
  /\ k.timeMajor \in BOOLEAN /\ k.batch \in Positive /\ k.steps \in Positive
  /\ k.inputs \in Positive /\ k.states \in Positive

Accepted(k) ==
  /\ FramerAccepted(k) /\ StackerAccepted(k) /\ DelayAccepted(k) /\ OverlapAddAccepted(k)
  /\ SvdfAccepted(k) /\ LstmAccepted(k)

ASSUME StreamKernelsAssumption ==
  /\ SampleMax \in Nat /\ OverlapSamples \subseteq (-SampleMax - 1)..SampleMax
  /\ \A k \in Kernels : Accepted(k)

VARIABLES
  kernel,          \* the node's parameters
  state,           \* per channel, what the kernel keeps
  calls,           \* invocations so far
  history,         \* the inputs since the kernel was last reset
  output,          \* per channel, what the last invocation wrote; Unwritten is left as it was
  valid            \* output_valid of FRAMER and STACKER, one flag for the whole tensor

vars == <<kernel, state, calls, history, output, valid>>

Unwritten == <<>>

-----------------------------------------------------------------------------
\* A slip in the definition below: no room for the step that is written before the frame is read.
FrameCapacity(k) == k.size

\* The frame size rounded up to a multiple of the step.
FramerCapacity(k) == ((k.size + k.step - 1) \div k.step) * k.step

\* A slip in the definition below: the zeros are written on Prepare but not on Reset.
FramerClear(k, cb) ==
  LET clear == CircularBufferReset(cb) IN
  IF k.prefill /\ calls = 0 THEN WriteZeros(clear, k.size - k.step) ELSE clear

FramerResetState(k, cb) ==
  LET clear == CircularBufferReset(cb) IN
  IF k.prefill THEN WriteZeros(clear, k.size - k.step) ELSE clear

\* A frame that is not complete leaves its part of the output alone and the whole output
\* invalid.
FramerStep(k, done, samples) ==
  LET cb == Write(done.state, samples) IN
  IF Available(cb) >= k.size
  THEN [state |-> Discard(cb, k.step), output |-> Append(done.output, Get(cb, k.size)),
        valid |-> done.valid]
  ELSE [state |-> cb, output |-> Append(done.output, Unwritten), valid |-> FALSE]

FramerChannel(k, cb, samples) ==
  LET done[f \in 0..k.frames] ==
        IF f = 0 THEN [state |-> cb, output |-> <<>>, valid |-> TRUE]
        ELSE FramerStep(k, done[f - 1], SubSeq(samples, (f - 1) * k.step + 1, f * k.step))
  IN  done[k.frames]

-----------------------------------------------------------------------------
BufferSize(k) == k.channels * (k.left + k.right + 1)

StackerResetState(k, s) == [cb |-> CircularBufferReset(s.cb), hasFirst |-> FALSE]

\* A slip in the definition below: stacker_has_first_frame is never set.
StackerAlwaysExtends(k, s, samples) ==
  LET written == Write(s.cb, samples)
      cb == IF s.hasFirst THEN written ELSE Extend(written, k.channels, k.left)
  IN  IF Available(cb) >= BufferSize(k)
      THEN [state |-> [cb |-> Discard(cb, k.channels * k.step), hasFirst |-> FALSE],
            output |-> Get(cb, BufferSize(k)), valid |-> TRUE]
      ELSE [state |-> [cb |-> cb, hasFirst |-> FALSE], output |-> Unwritten, valid |-> FALSE]

\* The first frame is replicated left times to pad.
StackerChannel(k, s, samples) ==
  LET written == Write(s.cb, samples)
      cb == IF s.hasFirst THEN written ELSE Extend(written, k.channels, k.left)
  IN  IF Available(cb) >= BufferSize(k)
      THEN [state |-> [cb |-> Discard(cb, k.channels * k.step), hasFirst |-> TRUE],
            output |-> Get(cb, BufferSize(k)), valid |-> TRUE]
      ELSE [state |-> [cb |-> cb, hasFirst |-> TRUE], output |-> Unwritten, valid |-> FALSE]

-----------------------------------------------------------------------------
\* A slip in the definition below: the delay is not restored.
DelayClear(k, cb) ==
  IF calls = 0 THEN WriteZeros(CircularBufferReset(cb), k.delay) ELSE CircularBufferReset(cb)

DelayResetState(k, cb) == WriteZeros(CircularBufferReset(cb), k.delay)

DelayChannel(k, cb, samples) ==
  LET written == Write(cb, samples) IN
  [state |-> Discard(written, k.frame), output |-> Get(written, k.frame)]

-----------------------------------------------------------------------------
Saturate(x) == IF x < -SampleMax - 1 THEN -SampleMax - 1 ELSE IF x > SampleMax THEN SampleMax ELSE x

OverlapAddResetState(k, buffer) == Zeros(k.size)

\* A slip in the definition below: what was output stays at the end of the buffer.
OverlapAddLeavesTail(k, done, frame) ==
  LET sum == [i \in 1..k.size |-> Saturate(frame[i] + done.state[i])]
  IN  [state |-> SubSeq(sum, k.step + 1, k.size) \o SubSeq(sum, 1, k.step),
       output |-> Append(done.output, SubSeq(sum, 1, k.step))]

OverlapAdd(k, done, frame) ==
  LET sum == [i \in 1..k.size |-> Saturate(frame[i] + done.state[i])]
  IN  [state |-> SubSeq(sum, k.step + 1, k.size) \o Zeros(k.step),
       output |-> Append(done.output, SubSeq(sum, 1, k.step))]

OverlapAddChannel(k, buffer, frames) ==
  LET done[f \in 0..k.frames] ==
        IF f = 0 THEN [state |-> buffer, output |-> <<>>]
        ELSE OverlapAdd(k, done[f - 1], frames[f])
  IN  done[k.frames]

-----------------------------------------------------------------------------
\* The next input of a channel: n samples never seen before.
Fresh(channels, n) ==
  [i \in 1..channels |-> [j \in 1..n |-> ((calls + 1) * 10 + i) * 10 + j]]

Invoked(input, done) ==
  /\ calls < kernel.MaxCalls
  /\ calls' = calls + 1
  /\ history' = Append(history, input)
  /\ state' = done.state
  /\ output' = done.output
  /\ UNCHANGED kernel

\* The loop over the outer dimensions: each channel has a state of its own, and the output is
\* valid if it is in all of them.
ByChannel(done) == [state |-> [i \in DOMAIN done |-> done[i].state],
                    output |-> [i \in DOMAIN done |-> done[i].output]]
AllValid(done) == \A i \in DOMAIN done : done[i].valid

FramerEval ==
  /\ kernel.kind = "framer"
  /\ LET input == Fresh(kernel.outer, kernel.frames * kernel.step)
         done == [i \in DOMAIN input |-> FramerChannel(kernel, state[i], input[i])]
     IN  Invoked(input, ByChannel(done)) /\ valid' = AllValid(done)

StackerEval ==
  /\ kernel.kind = "stacker"
  /\ LET input == Fresh(1, kernel.channels)
         done == [i \in DOMAIN input |-> StackerChannel(kernel, state[i], input[i])]
     IN  Invoked(input, ByChannel(done)) /\ valid' = AllValid(done)

DelayEval ==
  /\ kernel.kind = "delay"
  /\ LET input == Fresh(kernel.outer, kernel.frame)
         done == [i \in DOMAIN input |-> DelayChannel(kernel, state[i], input[i])]
     IN  Invoked(input, ByChannel(done)) /\ UNCHANGED valid

OverlapAddEval ==
  /\ kernel.kind = "overlap_add"
  /\ \E input \in [1..kernel.outer -> [1..kernel.frames -> [1..kernel.size -> OverlapSamples]]] :
       LET done == [i \in DOMAIN input |-> OverlapAddChannel(kernel, state[i], input[i])]
       IN  Invoked(input, ByChannel(done)) /\ UNCHANGED valid

SvdfEval ==
  /\ kernel.kind = "svdf"
  /\ LET input == Fresh(kernel.batch, 1) IN Invoked(input, SvdfInvoked(kernel, state, input))
  /\ UNCHANGED valid

\* The input as it lies in memory: rows of kernel.inputs samples.
LstmEval ==
  /\ kernel.kind = "lstm"
  /\ LET input == Fresh(kernel.batch, kernel.steps * kernel.inputs)
         At(e) == CHOOSE at \in (1..kernel.batch) \X (1..kernel.steps) :
                    RowAt(kernel, at[1], at[2]) = RowOf(e - 1, kernel.inputs)
         tensor == [e \in 1..(kernel.batch * kernel.steps * kernel.inputs) |->
                     input[At(e)[1]][(At(e)[2] - 1) * kernel.inputs
                                     + PlaceOf(e - 1, kernel.inputs) + 1]]
     IN  Invoked(input, LstmInvoked(kernel, state, tensor))
  /\ UNCHANGED valid

Restarted(kind, clear) ==
  /\ kernel.kind = kind
  /\ state' = clear
  /\ history' = <<>>
  /\ output' = Unwritten
  /\ UNCHANGED <<kernel, calls, valid>>

FramerReset ==
  Restarted("framer", [i \in DOMAIN state |-> FramerResetState(kernel, state[i])])
StackerReset ==
  Restarted("stacker", [i \in DOMAIN state |-> StackerResetState(kernel, state[i])])
DelayReset ==
  Restarted("delay", [i \in DOMAIN state |-> DelayResetState(kernel, state[i])])
OverlapAddReset ==
  Restarted("overlap_add", [i \in DOMAIN state |-> OverlapAddResetState(kernel, state[i])])

\* Without a reset of their own: their state is in variable tensors, which Reset clears.
SvdfReset == Restarted("svdf", ClearedSvdf(kernel))
LstmReset == Restarted("lstm", ClearedLstm(kernel))

\* Prepare (Init for the stacker) makes the buffers and clears them as Reset does.
Prepared(k) ==
  IF k.kind = "framer" THEN
    [i \in 1..k.outer |-> FramerResetState(k, CircularBufferInit(FramerCapacity(k)))]
  ELSE IF k.kind = "stacker" THEN
    [i \in 1..1 |-> [cb |-> CircularBufferInit(BufferSize(k)), hasFirst |-> FALSE]]
  ELSE IF k.kind = "delay" THEN
    [i \in 1..k.outer |-> DelayResetState(k, CircularBufferInit(k.frame + k.delay))]
  ELSE IF k.kind = "svdf" THEN ClearedSvdf(k)
  ELSE IF k.kind = "lstm" THEN ClearedLstm(k)
  ELSE [i \in 1..k.outer |-> OverlapAddResetState(k, <<>>)]

Init ==
  /\ kernel \in Kernels
  /\ calls = 0
  /\ state = Prepared(kernel)
  /\ history = <<>>
  /\ output = Unwritten
  /\ valid = FALSE

Next ==
  \/ FramerEval \/ StackerEval \/ DelayEval \/ OverlapAddEval
  \/ SvdfEval \/ LstmEval
  \/ FramerReset \/ StackerReset \/ DelayReset \/ OverlapAddReset
  \/ SvdfReset \/ LstmReset

Spec == Init /\ [][Next]_vars

-----------------------------------------------------------------------------
\* The samples of a channel since the last reset, and the invocations they came in.
Stream(i) == FlattenSeq([t \in DOMAIN history |-> history[t][i]])
Invocations == Len(history)

\* Every channel's buffer has room for what the next invocation writes before it reads, and
\* holds what it will then read: no assertion of circular_buffer.cc fails in a kernel, after
\* any number of invocations and resets.
RoomForNext ==
  /\ kernel.kind = "framer" => \A i \in DOMAIN state : CanWrite(state[i]) >= kernel.step
  /\ kernel.kind = "delay" => \A i \in DOMAIN state :
       CanWrite(state[i]) = kernel.frame /\ Available(state[i]) = kernel.delay
  /\ kernel.kind = "stacker" => \A i \in DOMAIN state :
       CanWrite(state[i].cb) >= kernel.channels * (IF state[i].hasFirst THEN 1 ELSE kernel.left + 1)

\* FRAMER writes every frame of the stream once and in order, consecutive ones frame_step
\* apart, from the first that the (zero-padded) stream completes: whatever the relation of
\* frame_size to frame_step, however the frames fall into invocations, per channel.  What is
\* before the first is left as it was, and output_valid, which speaks for the whole tensor,
\* holds from the invocation on in which no frame is: one whose tensor begins with
\* incomplete frames is invalid with the complete ones behind them.
FramesExact == kernel.kind = "framer" /\ history # <<>> =>
  LET padding == IF kernel.prefill THEN kernel.size - kernel.step ELSE 0
      first == CHOOSE w \in 1..kernel.size : /\ padding + w * kernel.step >= kernel.size
                                             /\ padding + (w - 1) * kernel.step < kernel.size
      Behind(f) == (Invocations - 1) * kernel.frames + f - first
  IN  /\ \A i \in 1..kernel.outer, f \in 1..kernel.frames :
           LET from == Behind(f) * kernel.step
           IN  output[i][f] = IF Behind(f) < 0 THEN Unwritten
                              ELSE SubSeq(Zeros(padding) \o Stream(i), from + 1, from + kernel.size)
      /\ valid <=> Behind(1) >= 0

\* STACKER delivers, every stacker_step invocations from the one that completes the right
\* context, the frame with its contexts, the left one padded with the first frame, and says
\* so by output_valid; in between the output is not valid and is left as it was.
StacksExact == kernel.kind = "stacker" /\ history # <<>> =>
  LET head == FlattenSeq([c \in 1..kernel.left |-> SubSeq(Stream(1), 1, kernel.channels)])
      behind == Invocations - kernel.right - 1
      from == behind * kernel.channels
      due == behind >= 0 /\ behind % kernel.step = 0
  IN  /\ output[1] = IF due THEN SubSeq(head \o Stream(1), from + 1, from + BufferSize(kernel))
                     ELSE Unwritten
      /\ valid <=> due

\* DELAY delivers the stream delay_length samples late, zeros first.
DelayExact == kernel.kind = "delay" /\ history # <<>> =>
  \A i \in 1..kernel.outer :
    output[i] = SubSeq(Zeros(kernel.delay) \o Stream(i),
                       (Invocations - 1) * kernel.frame + 1, Invocations * kernel.frame)

\* OVERLAP_ADD delivers at every position the sum of the samples of the frames that cover
\* it, added and saturated in the order of the frames, across invocations.
OverlapAddExact == kernel.kind = "overlap_add" /\ history # <<>> =>
  \A i \in 1..kernel.outer, f \in 1..kernel.frames, j \in 1..kernel.step :
    LET at == ((Invocations - 1) * kernel.frames + f - 1) * kernel.step + j
        Place(g) == at - (g - 1) * kernel.step
        sum[g \in 0..Len(Stream(i))] ==
          IF g = 0 THEN 0
          ELSE IF Place(g) \in 1..kernel.size THEN Saturate(Stream(i)[g][Place(g)] + sum[g - 1])
          ELSE sum[g - 1]
    IN  output[i][f][j] = sum[Len(Stream(i))]

\* SVDF computes every unit of every batch from the last memory_size features of its own rank
\* filters and of no others, oldest first, zeros before the first: although the shift of the
\* state carries samples over from row to row.
SvdfExact == kernel.kind = "svdf" /\ history # <<>> =>
  \A b \in 1..kernel.batch, u \in 1..kernel.units, r \in 1..kernel.rank :
    LET filter == (u - 1) * kernel.rank + r
        Latest(j) == Invocations - kernel.memory + j
    IN  output[b][u][r] = [j \in 1..kernel.memory |->
          IF Latest(j) < 1 THEN Cleared ELSE Feature(history[Latest(j)][b], filter)]

\* LSTM computes the output of every batch at every step from the inputs of that batch up to
\* that step, since the last reset, in order, in either layout of the tensors.
LstmExact == kernel.kind = "lstm" /\ history # <<>> =>
  \A b \in 1..kernel.batch, t \in 1..kernel.steps, s \in 1..kernel.states :
    LET Row(n) == SubSeq(Stream(b), (n - 1) * kernel.inputs + 1, n * kernel.inputs) IN
    output[RowAt(kernel, b, t) * kernel.states + s] =
      Computed(s, [n \in 1..((Invocations - 1) * kernel.steps + t) |-> Row(n)])
=============================================================================
