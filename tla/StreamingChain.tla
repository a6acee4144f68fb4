--------------------------- MODULE StreamingChain ---------------------------
(***************************************************************************)
(* A streaming model: CIRCULAR_BUFFER operators (kernels/circular_buffer)  *)
(* one after another, each followed by an operator that computes one value *)
(* from the window it holds.  A CIRCULAR_BUFFER that is not due aborts the *)
(* invocation, unless it has an output that says so.                       *)
(*                                                                         *)
(* Time is counted in invocations, and a value is the set of invocations   *)
(* whose input it depends on: what is computed from a window depends on    *)
(* all that the window holds.                                              *)
(***************************************************************************)
EXTENDS Integers, Sequences, FiniteSetsExt

CONSTANTS
  Models,          \* sequences of layers: the records below
  MaxTime,         \* bound on the invocations
  MaxCount         \* bound on cb_prepare_count when Prepare fails

\* slots, rows and depth are the output's dims 1 to 3, cyclesMax comes from the flatbuffer, 0 when
\* it says nothing, and hasValid tells of a second output.
Layer == [slots : Nat \ {0}, rows : Nat, depth : Nat, cyclesMax : Nat, hasValid : BOOLEAN]

ASSUME StreamingChainAssumption == Models \subseteq Seq(Layer) /\ MaxTime \in Nat

VARIABLES
  model,
  cbPrepareCount,  \* cb_prepare_count, which is static
  cyclesMax,       \* of the layers prepared so far
  cyclesUntilRun,
  window,          \* the variable tensors the layers fill, the oldest value first
  layer,           \* the layer about to run; 0 between invocations
  value,           \* what it is given
  time,            \* invocations since the reset
  delivered,       \* what the last invocation that reached the end delivered, and when
  failedAt         \* when an operator failed last since the reset; 0 for never

vars == <<model, cbPrepareCount, cyclesMax, cyclesUntilRun, window,
          layer, value, time, delivered, failedAt>>

Layers == DOMAIN model
Prepared == Len(cyclesMax) = Len(model)

NoWindow == [i \in Layers |-> [s \in 1..model[i].slots |-> {}]]

-----------------------------------------------------------------------------
IsLast(l, count) == l.slots \in {5, 13, 25} \/ (count = 5 /\ l.rows = 2 /\ l.depth = 96)

\* The period the flatbuffer does not give: 1 for the last layer, which only accumulates.
CircularBufferPrepare ==
  /\ ~Prepared
  /\ LET l == model[Len(cyclesMax) + 1]
         count == cbPrepareCount + 1
         cycles == IF l.cyclesMax > 0 THEN l.cyclesMax ELSE IF IsLast(l, count) THEN 1 ELSE 2
     IN  /\ cyclesMax' = Append(cyclesMax, cycles)
         /\ cyclesUntilRun' = Append(cyclesUntilRun, cycles)
         /\ cbPrepareCount' = IF l.cyclesMax > 0 THEN cbPrepareCount
                              ELSE IF IsLast(l, count) THEN 0 ELSE count
  /\ UNCHANGED <<model, window, layer, value, time, delivered, failedAt>>

\* An operator after the layers prepared so far fails; the application tries the model
\* again, with another allocator on a larger arena.
PrepareFails ==
  /\ ~Prepared /\ cbPrepareCount <= MaxCount
  /\ cyclesMax' = <<>>
  /\ cyclesUntilRun' = <<>>
  /\ UNCHANGED <<model, cbPrepareCount, window, layer, value, time, delivered, failedAt>>

-----------------------------------------------------------------------------
Invoke ==
  /\ Prepared /\ layer = 0 /\ time < MaxTime
  /\ layer' = 1
  /\ time' = time + 1
  /\ value' = {time + 1}
  /\ UNCHANGED <<model, cbPrepareCount, cyclesMax, cyclesUntilRun, window, delivered, failedAt>>

Shifted(slots, new) == Append(Tail(slots), new)

\* A slip in the definition below: the counter is tested before it is counted down.
ReadyOneLate(cycles) == cycles <= 0

IsReady(cycles) == cycles - 1 <= 0

\* The input is stored in any case; then the operators behind run, or kTfLiteAbort ends Invoke.
CircularBufferEval ==
  /\ layer \in Layers
  /\ window' = [window EXCEPT ![layer] = Shifted(@, value)]
  /\ LET isReady == IsReady(cyclesUntilRun[layer])
         goesOn == isReady \/ model[layer].hasValid
     IN  /\ cyclesUntilRun' = [cyclesUntilRun EXCEPT
                                 ![layer] = IF isReady THEN cyclesMax[layer] ELSE @ - 1]
         /\ layer' = IF goesOn THEN layer + 1 ELSE 0
         /\ value' = IF goesOn THEN UNION {window'[layer][s] : s \in DOMAIN window'[layer]} ELSE {}
  /\ UNCHANGED <<model, cbPrepareCount, cyclesMax, time, delivered, failedAt>>

\* The operator between two layers, or behind the last, fails and ends the invocation.
OperatorFails ==
  /\ layer > 1
  /\ layer' = 0
  /\ value' = {}
  /\ failedAt' = time
  /\ UNCHANGED <<model, cbPrepareCount, cyclesMax, cyclesUntilRun, window, time, delivered>>

InvokeEnds ==
  /\ layer = Len(model) + 1
  /\ layer' = 0
  /\ value' = {}
  /\ delivered' = [at |-> time, from |-> value]
  /\ UNCHANGED <<model, cbPrepareCount, cyclesMax, cyclesUntilRun, window, time, failedAt>>

\* A slip in the definition below: the counters are left where they are.
ResetWindowsOnly ==
  /\ Prepared /\ layer = 0
  /\ window' = NoWindow
  /\ time' = 0
  /\ failedAt' = 0
  /\ delivered' = [at |-> 0, from |-> {}]
  /\ UNCHANGED <<model, cbPrepareCount, cyclesMax, cyclesUntilRun, layer, value>>

\* MicroInterpreter::Reset: every kernel's reset, then the variable tensors.
Reset ==
  /\ Prepared /\ layer = 0
  /\ cyclesUntilRun' = cyclesMax
  /\ window' = NoWindow
  /\ time' = 0
  /\ failedAt' = 0
  /\ delivered' = [at |-> 0, from |-> {}]
  /\ UNCHANGED <<model, cbPrepareCount, cyclesMax, layer, value>>

Init ==
  /\ model \in Models
  /\ cbPrepareCount = 0
  /\ cyclesMax = <<>> /\ cyclesUntilRun = <<>>
  /\ window = NoWindow
  /\ layer = 0 /\ value = {} /\ time = 0
  /\ delivered = [at |-> 0, from |-> {}]
  /\ failedAt = 0

Next ==
  \/ CircularBufferPrepare \/ PrepareFails
  \/ Invoke \/ CircularBufferEval \/ OperatorFails \/ InvokeEnds
  \/ Reset

Spec == Init /\ [][Next]_vars

-----------------------------------------------------------------------------
Every(i) == IF model[i].hasValid THEN 1 ELSE cyclesMax[i]

Periods == LET
    product[i \in 0..Len(model)] == IF i = 0 THEN 1 ELSE product[i - 1] * Every(i)
  IN product

Period(i) == Periods[i]

\* The invocations that what layer i hands on at time t depends on: its window holds what the
\* layer before handed on in the last slots of its periods.
Field == LET
    field[i \in 0..Len(model)] == [t \in 1..MaxTime |->
      IF i = 0 THEN {t}
      ELSE UNION {field[i - 1][t - k * Period(i - 1)] :
                    k \in {k \in 0..(model[i].slots - 1) : t > k * Period(i - 1)}}]
  IN field

\* Without failures, the model delivers exactly in every Period-th invocation after a reset,
\* computed from all inputs in its field and from none before the reset: the aborts in the
\* middle of Invoke, the counters and the windows of all layers stay in step.
OutputsExact == Prepared /\ layer = 0 /\ failedAt = 0 =>
  LET due == (time \div Period(Len(model))) * Period(Len(model)) IN
  delivered = [at |-> due, from |-> IF due = 0 THEN {} ELSE Field[Len(model)][due]]

\* Failures delay: within one Period of the last failure or output there is an output again.
RecoversWithinPeriod == Prepared /\ layer = 0 =>
  time - Max({delivered.at, failedAt}) < Period(Len(model))

\* "They use the shape of the output tensor along with the layer number to determine if the
\* circular buffer period should be 1 or 2" (circular_buffer_common.cc:79-81), so a model gets
\* the periods it gets when it is the first to be prepared.
PeriodsByLayerNumber == \A i \in DOMAIN cyclesMax :
  model[i].cyclesMax = 0 => cyclesMax[i] = IF IsLast(model[i], i) THEN 1 ELSE 2
=============================================================================
