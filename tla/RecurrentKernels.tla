-------------------------- MODULE RecurrentKernels --------------------------
(***************************************************************************)
(* The two kernels that carry state in variable tensors: SVDF              *)
(* (kernels/svdf_common.cc) and UNIDIRECTIONAL_SEQUENCE_LSTM               *)
(* (kernels/lstm_eval.h, .cc).  Both address flat tensors with offsets     *)
(* that must agree with the tensors' shapes.  What they compute is         *)
(* arithmetic; here a value is a record that says by what it was computed  *)
(* (a filter or an element of the state) and from which inputs.            *)
(***************************************************************************)
EXTENDS Integers, SequencesExt

Computed(by, seen) == [by |-> by, seen |-> seen]
Cleared == Computed(0, <<>>)        \* the zero that ResetTensorData writes
Mixed == Computed(0, <<<<>>>>)      \* what no correct step computes
Copies(value, n) == [i \in 1..n |-> value]

\* Element e (from 0) of rows of the given length: the row, and the place in it, from 0.
RowOf(e, length) == e \div length
PlaceOf(e, length) == e % length

-----------------------------------------------------------------------------
\* SVDF: batch, rank, units and memory; each batch has a row of memory for every filter.
Filters(k) == k.rank * k.units
SvdfRows(k) == k.batch * Filters(k)
ClearedSvdf(k) == Copies(Cleared, SvdfRows(k) * k.memory)

Feature(vector, filter) == Computed(filter, <<vector>>)

\* A slip in the definition below: the end of the old state leaves out the batches.
SvdfShiftFirstBatch(k, state) ==
  [i \in DOMAIN state |-> IF i < Filters(k) * k.memory THEN state[i + 1] ELSE state[i]]

\* The whole tensor moves left by one, over the ends of its rows.
SvdfShift(k, state) ==
  [i \in DOMAIN state |-> IF i < Len(state) THEN state[i + 1] ELSE state[i]]

\* One invocation on a vector for each batch.  The feature product of each filter goes to
\* the end of its row; then each unit sums the time products of rank rows.
SvdfInvoked(k, state, vectors) ==
  LET shifted == SvdfShift(k, state)
      Product(row) == Feature(vectors[RowOf(row, Filters(k)) + 1], PlaceOf(row, Filters(k)) + 1)
      new == [i \in DOMAIN state |->
               IF PlaceOf(i - 1, k.memory) = k.memory - 1 THEN Product(RowOf(i - 1, k.memory))
               ELSE shifted[i]]
      TimeProduct(row) == SubSeq(new, row * k.memory + 1, (row + 1) * k.memory)
      Unit(b, u) == [r \in 1..k.rank |-> TimeProduct(b * Filters(k) + u * k.rank + r - 1)]
  IN  [state |-> new,
       output |-> [b \in 1..k.batch |-> [u \in 1..k.units |-> Unit(b - 1, u - 1)]]]

-----------------------------------------------------------------------------
\* LSTM: batch, steps, inputs and states are the sizes, timeMajor the layout.
ClearedLstm(k) ==
  LET zeros == Copies(Cleared, k.batch * k.states) IN [hidden |-> zeros, cell |-> zeros]

\* An element of the hidden or the cell state after these inputs.
Element(place, seen) == IF seen = <<>> THEN Cleared ELSE Computed(place, seen)

\* The inputs that a row of the hidden state was computed from, by all its elements.
SeenBy(row) ==
  IF \A s \in DOMAIN row : row[s] = Element(s, row[1].seen) THEN row[1].seen ELSE Mixed.seen

\* An element of the cell state under the gates, which are computed from the row of inputs and
\* the row of hidden state; the three must be of one batch and one time.
NextCell(place, cell, input, seen) ==
  IF cell = Element(place, seen) THEN Computed(place, Append(seen, input)) ELSE Mixed

\* The rows a single step computes: all batches when the time comes first, else one.
RowsInStep(k) == IF k.timeMajor THEN k.batch ELSE 1

\* Replaces the elements from an offset on.
Stored(tensor, offset, values) ==
  [i \in DOMAIN tensor |-> IF i \in (offset + 1)..(offset + Len(values)) THEN values[i - offset]
                           ELSE tensor[i]]

\* One time step, at the offsets of the step manager: the gates read the input and the hidden
\* state, the cell state is updated, then the hidden state from it, and copied to the output.
LstmStep(k, input, done) ==
  LET n == RowsInStep(k) * k.states
      Inputs(row) == SubSeq(input, done.inputOffset + row * k.inputs + 1,
                            done.inputOffset + (row + 1) * k.inputs)
      Hidden(row) == SubSeq(done.hidden, done.hiddenOffset + row * k.states + 1,
                            done.hiddenOffset + (row + 1) * k.states)
      cell == [i \in 1..n |-> LET row == RowOf(i - 1, k.states) IN
                NextCell(PlaceOf(i - 1, k.states) + 1, done.cell[done.cellOffset + i],
                         Inputs(row), SeenBy(Hidden(row)))]
      hidden == Stored(done.hidden, done.hiddenOffset, cell)
  IN  [done EXCEPT !.cell = Stored(@, done.cellOffset, cell),
                   !.hidden = hidden,
                   !.output = Stored(@, done.outputOffset,
                                SubSeq(hidden, done.hiddenOffset + 1, done.hiddenOffset + n))]

\* A slip in the definition below: the output does not move over all batches.
UpdateTimeOneOutput(k, done) ==
  [done EXCEPT !.inputOffset = @ + k.inputs * RowsInStep(k), !.outputOffset = @ + k.states]

UpdateTime(k, done) ==
  [done EXCEPT !.inputOffset = @ + k.inputs * RowsInStep(k),
               !.outputOffset = @ + k.states * RowsInStep(k)]

UpdateBatch(k, done) ==
  [done EXCEPT !.hiddenOffset = @ + k.states, !.cellOffset = @ + k.states]

\* EvalLstm: time steps over all batches, or, when the batch comes first, batch after batch.
\* The manager's counts of steps and batches, which only assertions look at, are left out.
LstmInvoked(k, state, input) ==
  LET start == [hidden |-> state.hidden, cell |-> state.cell,
                output |-> Copies(Mixed, k.batch * k.steps * k.states),
                inputOffset |-> 0, outputOffset |-> 0, hiddenOffset |-> 0, cellOffset |-> 0]
      Steps == IF k.timeMajor THEN k.steps ELSE k.batch * k.steps
      Stepped(before, n) ==
        LET stepped == UpdateTime(k, LstmStep(k, input, before))
        IN  IF ~k.timeMajor /\ n % k.steps = 0 THEN UpdateBatch(k, stepped) ELSE stepped
      done[n \in 0..Steps] == IF n = 0 THEN start ELSE Stepped(done[n - 1], n)
      end == done[Steps]
  IN  [state |-> [hidden |-> end.hidden, cell |-> end.cell], output |-> end.output]

\* Where the rows of a sequence tensor lie, from 0: that of step t of batch b, both from 1.
RowAt(k, b, t) == IF k.timeMajor THEN (t - 1) * k.batch + b - 1 ELSE (b - 1) * k.steps + t - 1
=============================================================================
