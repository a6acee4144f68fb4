------------------------------ MODULE MCSignal ------------------------------
(***************************************************************************)
(* StreamKernels for every small set of parameters the kernels accept:     *)
(* frame sizes that are and are not multiples of the step, steps longer    *)
(* than the frame, several frames and channels in a tensor; sizes of SVDF  *)
(* and LSTM that tell the dimensions of their tensors apart.  And the ring *)
(* buffer alone, under any sequence of calls of CircularBufferCalls.       *)
(***************************************************************************)
EXTENDS StreamKernels, CircularBufferCalls

Framers ==
  {k \in [kind : {"framer"}, size : 1..5, step : 1..4, prefill : BOOLEAN,
          outer : 1..2, frames : 1..2,
          MaxCalls : {6}] : k.prefill => k.step <= k.size}

Stackers ==
  {k \in [kind : {"stacker"}, channels : 1..2, left : 0..2, right : 0..2, step : 1..4,
          MaxCalls : {7}] :
    k.step <= k.left + k.right + 1}

Delays == [kind : {"delay"}, frame : 1..3, delay : 0..4, outer : 1..2, MaxCalls : {5}]

OverlapAdds ==
  {k \in [kind : {"overlap_add"}, size : {2, 3}, step : 1..3, outer : {1}, frames : 1..2,
          MaxCalls : {2, 3, 4}] : k.step <= k.size /\ k.MaxCalls = 8 - 2 * k.frames - k.size}

Svdfs == [kind : {"svdf"}, batch : 1..2, rank : 1..2, units : 1..2, memory : 1..3, MaxCalls : {5}]

Lstms == [kind : {"lstm"}, timeMajor : BOOLEAN, batch : 1..3, steps : 1..2, inputs : 1..2,
          states : 1..3, MaxCalls : {3}]

\* A kernel that is never invoked: then it is the ring that is called.
NoKernel == [kind |-> "delay", frame |-> 1, delay |-> 0, outer |-> 1, MaxCalls |-> 0]

MCKernels == {NoKernel} \union Framers \union Stackers \union Delays \union OverlapAdds
               \union Svdfs \union Lstms

MCOverlapSamples == {-2, 1, 2}

SignalInit == Init /\ CallsInit

SignalNext ==
  \/ Next /\ kernel # NoKernel /\ UNCHANGED callVars
  \/ CallsNext /\ kernel = NoKernel /\ UNCHANGED vars

SignalSpec == SignalInit /\ [][SignalNext]_<<vars, callVars>>
=============================================================================
