# Verification of the heliaRT interpreter core

heliaRT is a distribution of TensorFlow Lite for Microcontrollers: a C++
library that runs a neural network from a flatbuffer on one thread, in a
*tensor arena*, a byte array the application owns. There is no heap and no
operating system. What is hard in it is not concurrency but memory: every
tensor, scratch buffer and structure is carved out of the arena by hand, most
bytes serve several buffers at different times, several models may share one
arena, and every one of those decisions is made once, before the first
inference, by code whose mistakes show up as wrong numbers.

This directory holds TLA+ modules of that code, TLC configurations that check
them on small instances, and TLAPS proofs for every value of the constants.
Paths below are relative to `src/tensorflow/lite/micro/` unless they start
with `src/`.

## 1. Inventory

| Component | State | Operations | Properties that make it correct |
|---|---|---|---|
| Arena allocator, `arena_allocator/single_arena_buffer_allocator.cc` (contract: `ibuffer_allocator.h`) | `head_`, `temp_`, `tail_`, the audit count and XOR word of temporaries | resize / deallocate / reserve the head section, persistent, temporary, free, reset, available and used bytes | nobody's bytes are anybody else's; audit exact; available memory can be had; used bytes cover everything |
| Persistent and non-persistent arena allocators, `persistent_arena_buffer_allocator.cc`, `non_persistent_arena_buffer_allocator.cc` | two arenas, a flag for the resizable buffer | the same | the same contract over two arenas |
| Recording allocators, `recording_*` | byte and call counters | wrap the allocators | counters agree with the arena |
| Greedy planner, `memory_planner/greedy_memory_planner.cc` | requirements, offsets, sorted ids, an offset-ordered linked list | add a buffer, compute offsets, read them | buffers live at the same time never overlap; first fit; int range; the loops end |
| Linear planner, plan shim | offsets, a count | the same interface | no overlap; the plan given is the plan used |
| Allocation info builder, `micro_allocation_info.cc` | a lifetime for each tensor and scratch buffer, a scope counter | walk all subgraphs in order of invocation | lifetimes cover every use in every flow of control |
| Micro allocator, `micro_allocator.cc` | scratch requests in the head section, largest plan, "model is allocating" | start / finish a model, requests, commit the memory plan | requests fit; plans of all models stay inside the reserved head and off persistent memory |
| Interpreter, `micro_interpreter.cc`, `micro_interpreter_context.cc` | allocations, `tensors_allocated_`, state | AllocateTensors, Invoke, Reset | Invoke runs only what was allocated |
| Interpreter graph, `micro_interpreter_graph.cc` | current subgraph and operator index | init, prepare, reset, free, InvokeSubgraph (re-entrant) | indices name what runs; each operator once, in order |
| Control-flow kernels, `kernels/if.cc`, `while.cc`, `call_once.cc`, copies in `kernel_util.cc` | `has_run` | Prepare, Eval | nothing is read after its bytes were given to another buffer; CALL_ONCE once |
| Resource variables, `micro_resource_variable.cc`, `kernels/{var_handle,assign_variable,read_variable}.cc` | table of names and buffers | create id, allocate, assign, read, reset | one id a name; a read returns the last assignment |
| Streaming CIRCULAR_BUFFER, `kernels/circular_buffer*.cc` | cycle counter, variable tensor | Prepare, Eval (may abort the invocation), Reset | the rest of the graph runs every n-th call on a full window |
| Signal library, `src/signal/src/circular_buffer.cc`; framer, stacker, delay, overlap-add | a mirrored ring buffer | write, read, rewind, extend, shift | a sliding window, contiguous at every position |
| SVDF, LSTM: `kernels/svdf_common.cc`, `lstm_eval.*` | variable tensors, addressed flat | Eval over batches, steps and layouts; Reset clears the tensors | each output comes from its own batch, filter and past |
| Decompression memory, `micro_context.cc`; `kernels/decode*.cc` | bytes used of alternate regions | allocate, reset in the Prepare of each DECODE | what is decoded is intact when its consumer reads it |
| Op resolver, profiler | bounded tables | register, record | bounds |
| Compute kernels (reference, CMSIS-NN, helia, Ethos-U, Xtensa, ...) | tensors | arithmetic | out of scope |
| Python bindings, compression tools, flatbuffer conversions, ports, build, CI, site | none at run time | | out of scope |

How they interact. `MicroInterpreter::AllocateTensors` calls the micro
allocator, which calls the arena allocator for everything; the kernels' `Init`
and `Prepare` call back through the context into the micro allocator.
`FinishModelAllocation` has the allocation info builder walk the model, feeds
the lifetimes to the planner (whose own tables live in a temporary of the same
arena), writes the planned addresses into the tensors, and reserves the head.
`Invoke` runs subgraph 0; IF, WHILE and CALL_ONCE call `InvokeSubgraph` again
from inside a kernel. Everything is a synchronous call on one thread: no
preemption, no messages, no persistence across a restart. So the hard
behaviours are long sequences of legal calls, failures half-way (the arena runs
out, a kernel returns an error or `kTfLiteAbort`), re-entrant calls that share
members, memory that is reused on the strength of a computed lifetime, and
arithmetic at the edges of alignment and `int`. `PROJECT.json` lists each of
these hazards at its line, with the properties that cover it.

## 2. Modules

| Module | Models | Uses |
|---|---|---|
| `ArenaPromise` | the contract of the allocator interfaces, whatever the layout | |
| `MemoryHelpers` | pointer alignment and the regions callers hold (`memory_helpers.cc`) | |
| `ArenaAllocator` | `SingleArenaBufferAllocator`, a refinement of `ArenaPromise` | `MemoryHelpers` |
| `SeparateArenas` | `PersistentArenaBufferAllocator` and `NonPersistentArenaBufferAllocator`, a refinement of `ArenaPromise` too | `MemoryHelpers` |
| `GreedyPlanner` | `GreedyMemoryPlanner` | |
| `AllocationLifetimes` | `AllocationInfoBuilder::MarkAllocationLifetimes` | |
| `DecodeMemory` | DECODE insertion (`compression/decode_insert.py`), decompression memory (`micro_context.cc`, `kernels/decode.cc`) | `MemoryHelpers` |
| `GraphInvoke` | `InvokeSubgraph`, IF, WHILE, CALL_ONCE, Invoke, Reset | `AllocationLifetimes` |
| `ModelFamily` | families of models with shared and nested subgraphs, and compressed ones | `DecodeMemory` |
| `ModelAllocation` | `MicroAllocator`, `AllocateTensors`, several interpreters | `ArenaAllocator` |
| `ResourceVariables` | `MicroResourceVariables`, VAR_HANDLE, ASSIGN_VARIABLE, READ_VARIABLE | |
| `SlidingWindow` | what the ring buffer of the signal library is for, abstractly | |
| `CircularBuffer` | every function of `src/signal/src/circular_buffer.cc`, as operators on a record | |
| `CircularBufferCalls` | any sequence of legal calls of them, a refinement of `SlidingWindow` | `CircularBuffer` |
| `RecurrentKernels` | how SVDF and LSTM address their state, as operators | |
| `StreamKernels` | FRAMER, STACKER, DELAY, OVERLAP_ADD, SVDF, LSTM over invocations and resets | `CircularBuffer`, `RecurrentKernels` |
| `StreamingChain` | chains of the streaming CIRCULAR_BUFFER kernel, with aborts, failures and resets | |
| `*Proofs` | theorems and proofs of the module they extend | |
| `MC*` | instances for TLC | |

How state and actions correspond to the code:

- **ArenaAllocator.** `head`, `temp`, `tail`, `checkSum`, `count` are the
  fields; addresses are naturals, alignment arithmetic is the code's. `section`,
  `persistent` and `chain` are ghosts: what callers were handed. Every method
  that changes state is one action and its guard is the code's checks; a call
  that is refused changes nothing and is a stutter. The XOR word is the set of
  addresses XORed an odd number of times, so equal words are equal sets (two
  different sets of addresses that collide as integers are not modelled; the
  count, modelled next to it, is what excludes them in the code).
- **SeparateArenas.** The same ghosts over two arenas, apart from each other in
  either order; the two allocator objects lie at the end of the persistent one, as
  `MicroAllocator::Create` puts them there. `granted` counts the resizable buffers
  out, beside the flag the code keeps. `ResizeBuffer(buf, 0, 1)` gives the bytes
  back but leaves the flag, as in the code (its comment, at
  `non_persistent_arena_buffer_allocator.cc:104-105`, calls that deallocation).
- **GreedyPlanner.** One step is one iteration of the placement loop or of the
  gap search inside it, so the loops have invariants. The linked list is the
  sequence `byOffset`; the sort is the order `Precedes`, including the order the
  stable sort leaves among equal sizes. `IntMax` stands for `INT_MAX`, with the
  code's overflow checks as guards. Alignment of sizes is done by the caller.
- **AllocationLifetimes.** The recursion of the walk is an explicit stack,
  `marking`; one step enters or leaves one operator or subgraph. Tensors are
  names, a model is a record of subgraphs, as `ModelFamily` builds them.
- **GraphInvoke.** `frames` is the C++ call stack of `InvokeSubgraph`, with the
  kernel's own position (`step`) in each frame, because IF, WHILE and CALL_ONCE
  are in the middle of their `Eval` while a nested call runs. Data is abstracted
  to whether a buffer still holds what was last written to it: `Writing` a buffer
  spoils every buffer that may share bytes with it. Two planned buffers may share
  when their lifetimes are apart, two offline ones always, two in alternate memory
  when their addresses say so: the worst plan a correct planner may produce, so
  what holds here holds for every plan; that the greedy planner is correct is
  proved in `GreedyPlannerProofs`. `OrderAssumption` and `FlowAssumption` say what a
  model file is: operators in execution order, outputs that something wrote, the
  tensor counts that the Prepare of IF and WHILE check (but an IF with outputs has no
  branch without any, see section 3), alternate memory used only as DECODE insertion does.
- **DecodeMemory.** Compressed constants are rewired to what a DECODE before each
  consumer makes of them, and the Prepare of each DECODE takes alternate memory
  from the start again. Addresses there are numbers, with the code's padding.
- **ModelAllocation.** A step is one call into the arena, with the success and
  the refusal as two disjuncts, so that an allocation may fail at every place
  where the code can. `FinishFails` and the second way to end
  `AllocateInputsAndOutputs` are the errors for which no memory is missing: of the
  lifetime walk, the offline metadata, the planner, and of the `Reset` that
  `AllocateTensors` ends with. `AllocateTensors` may be called on an allocated
  interpreter, as the code lets it. Consecutive persistent allocations of bookkeeping are one
  request of `StructSize`. The memory plan is a size chosen from the model's
  `plans`. `Sizes` of `ArenaAllocator` is empty here: this module drives the
  arena itself.
- **ResourceVariables.** `resourceVariables` is the table; a variable's bytes are
  one value. A model is its operators in the order of Prepare; in Invoke any
  operator may run next, which is what control flow can make of them. A tensor
  that a caller fills has no memory in Prepare, so an ASSIGN that is passed its id
  (in the body of a WHILE) skips the allocation, as `AssignVariablePrepare` does.
  `ProgramAssumption` says which models Prepare can have met.
- **CircularBuffer.** The record has the fields of the C++ struct, with the buffer
  twice the capacity; every function is an operator from record to record or to
  what it returns. `CircularBufferCalls` makes an action of each, guarded by the
  function's assertions and by nothing else, so `Shift` may run the read position
  into the write position or past it; `unmirrored` remembers what came through the raw pointer
  of `ReserveForWrite`, which the second half never sees.
- **StreamKernels.** A kernel's parameters, its state for each channel, and the
  inputs since the last reset; `valid` is the output `output_valid` of FRAMER and
  STACKER, one flag for all frames and channels of an invocation. What is fed in are tokens that never repeat, so a
  lost, repeated or stale sample shows; OVERLAP_ADD computes and is fed numbers.
- **RecurrentKernels.** The state and the tensors are flat sequences, addressed with
  the offsets of the code. A value says which filter or state element computed it and
  from which inputs; what goes into one sum must belong together, else the result is
  `Mixed`. The time manager's counts, which only assertions read, are left out.
- **StreamingChain.** Time is counted in invocations, and a value is the set of
  invocations it depends on, which is what a streaming model may get wrong.
  `kTfLiteAbort` ends the invocation between two layers. A window has at least one
  slot: `EvalInt8` moves `num_slots - 1` of them.

## 3. What TLC checks

Each run finishes within a minute or so. Every action of every next-state relation
fires in some passing run.

| Run | Question | Bounds and why they are enough |
|---|---|---|
| `arena` | Exclusive, UsedBytesCover, AvailableIsGrantable, AuditExact; the allocator implements `ArenaPromise` (KeepsPromise) | 12 bytes from an odd address, alignments 1 and 4, sizes 0 and 3, three temporaries: padding at both ends, zero-sized temporaries at one address, head, temporaries and tail meeting exactly |
| `planner` | NoOverlap, PlanComplete, FirstFit, NoIntOverflow; the loops end (PlanningEnds) | four buffers over two times, sizes -1 (refused), 0 and 2, offline at 1 and 5, `INT_MAX` = 7: a gap that is too small, then one that fits between two placed buffers; offline buffers over each other; plans that overflow |
| `invoke` | of the walk: ReachableHaveLifetimes, CallersOverlapCallees; of the memory: NothingLost, OutputsDelivered; of the control: CurrentIsRunning, EachOpOnceInOrder, CallOnceRunsOnce, InvokeReturns | all chains of three operators over five shared subgraphs, with IF in a WHILE body and in an IF branch, and two models with a WHILE in a WHILE body; 36 models with compressed constants, read by one or several operators, by subgraphs and as outputs, with no alternate memory, with a single region and with two that fill up; three with offline activations, two of which lie over each other. Two invocations, at most two turns of a loop, and any plain kernel may fail: the second invocation meets what the first left behind |
| `tenants` | RequestsFit, TenantsKeepTheirPlans, PlanStartsClean, UnplannedOnlyHalfWay | two interpreters that may be allocated again, 34 bytes: enough for a model and half of another when kernels ask for little, and running out at every step otherwise (each refusal occurs, which coverage shows) |
| `arenas` | the two allocators implement `ArenaPromise` (KeepsPromise) | arenas of 11 and 7 bytes whose outer ends are unaligned, otherwise as `arena` |
| `signal` | what FRAMER, STACKER, DELAY and OVERLAP_ADD deliver (FramesExact, StacksExact, DelayExact, OverlapAddExact), what SVDF and LSTM compute each output from (SvdfExact, LstmExact), and that no assertion of the ring buffer can fail in them (RoomForNext); the ring buffer alone is a sliding window (IsWindow), whose reads agree (ReadsAgree) | frames up to 5 and steps up to 4 in every relation, contexts up to 2, delays up to 4, two channels, two frames a call, up to 7 calls with resets: each ring buffer wraps more than once; SVDF with up to 2 batches, ranks and units and memory 3, over 5 calls; LSTM with up to 3 batches, 2 steps and 3 states, so that no two dimensions need be equal, in both layouts; the ring alone with capacity 4 and two sample values: every alignment of the read and write positions, full and empty, with every content |
| `resources` | IdsIdentify, BuffersReady, ReadsLatest | two variables that differ in name, in container, in both or not at all, null containers, and a third that is one too many; assigned in the main subgraph, in an initialisation or through an id that is passed on |
| `chain` | OutputsExact, RecoversWithinPeriod | chains of one to three layers with periods up to 3, given or left to Prepare, with and without the output that says "valid"; nine invocations: a full period of the slowest chain, several of the others |

Deadlock is checked in all passing runs but `resources`, where a Prepare that
failed is the end: the allocator refuses the model from then on. In `tenants` that check says something
of its own: the arena never refuses the two calls after planning whose refusal
the code treats as an error (`ResetTempAllocations` and
`DeallocateResizableBuffer`).

**Fairness.** `PlanningEnds` assumes weak fairness of the steps inside
`CalculateOffsetsIfNeeded`, and `InvokeReturns` of the steps inside the lifetime
walk and `InvokeSubgraph`: both are synchronous calls on one thread, which run
on once entered. No fairness is assumed of the application. `InvokeReturns` also
relies on every WHILE condition becoming false at last: `MaxIterations` bounds
the turns.

### Disagreements between the code and what it says of itself

Each of these is a run in which TLC finds the quoted statement violated.

| Run | Statement | What the code does |
|---|---|---|
| `tenant_failure` | `micro_allocator.h:238-239`: a persistent buffer lives as long as the allocator | after an allocation that failed half-way, persistent buffers lie in an earlier model's overlay |
| `offline_subgraphs` | `docs/memory_management.md:97-100`: offline offsets are concatenated over subgraphs | variables are looked up from 0 in each subgraph |
| `allocate_again` | `micro_interpreter.cc:277-278`: "Ensure tensors are allocated before the interpreter is invoked to avoid difficult to debug segfaults" | `tensors_allocated_` is never cleared, so after a second `AllocateTensors` that failed `Invoke` runs nodes that were not prepared |
| `layer_number` | `kernels/circular_buffer_common.cc:79-81`: the period follows from the output's shape and the layer's number | the number is a static that a failed Prepare leaves behind, so on a second attempt the last layer is not the fifth, gets period 2 and halves the rate |

Also noticed while modelling, without a run of their own:

- `docs/memory_management.md:209-210` says variable tensors keep their data from
  one `Invoke` to the next; one with an offline offset is planned like an
  activation (`micro_allocation_info.cc:203-210`) and may be overwritten. The
  same overlap lets `Reset`, which clears variable tensors, write over outputs.
- `micro_interpreter.h:130-131` says `Reset` restores the state after the first
  Prepare; resource variables are cleared, but the `has_run` of CALL_ONCE is not,
  so what the initialisation wrote is gone for good.
- `micro_interpreter.h:143-147` calls `arena_used_bytes()` the optimal arena size;
  planning needs more than is reported afterwards (`micro_allocator.cc:1221`).
- A failed model allocation leaves `model_is_allocating_` set, so the allocator
  refuses every later model. That is also what confines the disagreement of
  `allocate_again`: UnplannedOnlyHalfWay, which `tenants` checks, says that an
  interpreter counts as allocated over an unfinished graph only while that flag is set.
- `kernels/circular_buffer.cc:29-33` says the streaming operator inserts its input "if
  the op runs". The code inserts on every call and only then decides whether to
  abort, and `kernels/circular_buffer_test.cc:79-102` expects that; so does the model.
- `src/signal/tensorflow_core/ops/framer_op.cc:59-60` says the framer sets
  `output_valid` when it has enough samples for a frame. The code has one flag for all
  frames and channels of a call and clears it when any frame is incomplete: with
  frame size 3, step 2 and two frames a call, the first call writes the complete frame
  [1, 2, 3] behind an incomplete one and marks the whole output invalid. A consumer that
  goes by the flag never sees that frame. FramesExact says what the code does, of the
  frames and of the flag.
- The same file at line 81, and `stacker_op.cc:78`, call an output that is not valid a
  "frame of all zeros" (`framer_op.cc:61-63` says it is not initialised). Neither kernel
  writes to it: it holds what the memory held. FramesExact and StacksExact say so
  (`Unwritten`).
- The ops accept three combinations that the kernels do not check: FRAMER with prefill
  and a step above the frame size, STACKER with a step above its contexts plus one,
  OVERLAP_ADD with a step above the frame size. FRAMER then writes fewer than no zeros
  and STACKER discards more than there is, where an assertion of the ring buffer fails; the
  length of the `memmove` of OVERLAP_ADD is negative. `Accepted` leaves them out, and
  RoomForNext says nothing of them.
- `CircularBufferShift` does not maintain the empty flag (`src/signal/src/circular_buffer.cc:272`):
  after a shift by all unread samples the buffer counts as full, and one that was empty has
  samples to read while `CircularBufferEmpty` is still true, so the assertion of `Remove`
  would fail. Nothing in the repository calls it.
- `CopySubgraphOutputsToOpOutputs` (`kernels/kernel_util.cc:322`) accepts a branch of IF
  without outputs for an operator that has some, and copies nothing: the operator's outputs
  keep what the memory held. `TensorsFit` leaves such models out.
- CALL_ONCE keeps `has_run` for each operator (`kernels/call_once.cc:34`): two
  operators that name one init subgraph run it twice, and CallOnceRunsOnce speaks of
  operators.
- The tensors of a subgraph that subgraph 0 does not reach are handed to the
  planner with a lifetime of -1, although the comment at
  `micro_allocation_info.cc:327-330` speaks of all tensors.
- `MicroResourceVariables::ResetAll` sets the bytes of a variable whose buffer
  could not be allocated (`micro_resource_variable.cc:163`): `bytes` is set before
  the allocation, the buffer stays null. The model is refused by then, so this
  takes an application that resets an interpreter whose allocation failed.

## 4. What is proved

Constants are assumed to be what each module's named ASSUME says and no more
(`ArenaAssumption`, `ArenasAssumption`, `PlannerAssumption`, `ModelAssumption`,
`OrderAssumption`, `FlowAssumption`, `InvokeAssumption`, `AllocationAssumption`,
`ProgramAssumption`, `CapacityAssumption`, `StreamKernelsAssumption`,
`StreamingChainAssumption`); TLC evaluates each in a passing run. A theorem that needs
more says so in its statement, and the reason is given below.

- **Arena** (`ArenaAllocatorProofs`): `TypeCorrect`, `ExclusiveAlways`,
  `UsedBytesCoverAlways`, `AvailableIsGrantableAlways`, `AuditExactAlways`,
  `ImplementsPromise`. The invariant `IInv` orders the arena (buffer head,
  section end = `head` <= `temp` <= `tail` <= buffer tail), puts every persistent
  region in `tail..BufferTail`, every temporary in `head..temp` with the chain in
  ascending order, and says the count is the number of live temporaries. Exclusive
  alone is not inductive: nothing in it relates what was handed out to the three
  pointers the next allocation starts from, and reclaiming the chain needs the
  count to be exact. The bounds on rounding up and down that the module starts with
  are the only facts about alignment that are used. The refinement maps each action to the contract's
  action of the same name; the three calls that change the head section map to
  `ReplaceSection`. The audit needs one fact more, that an address is in the XOR word
  exactly when an odd number of live temporaries begins there: several may, when
  they are empty.
- **Separate arenas** (`SeparateArenasProofs`): `OneResizableAlways`,
  `ImplementsPromise`. The invariant keeps each arena in order as above (persistent
  regions at or above `tailTemp` and pairwise apart, section below `headTemp`,
  temporaries in ascending order up to `nextTemp`), ties `granted` to the flag,
  which alone makes `OneResizable` inductive (it is proved only, no run repeats it),
  and uses the assumption that the arenas are apart to carry what holds in each over
  to the contract's single memory.
- **Planner** (`GreedyPlannerProofs`): `TypeCorrect`, `NoOverlapAlways`,
  `FirstFitAlways`, `NoIntOverflowAlways`, `PlanCompleteAlways`, for any number of
  buffers. The
  invariant says that `byOffset` is sorted by offset, lists each placed buffer
  once and in the order of `Precedes`, and, during the gap search, that every
  offset below the candidate is blocked and every placed buffer at or before
  `prior` that is live with the wanted one ends at or below the candidate. The last
  is what makes the chosen gap free: an entry of low offset may end far beyond
  later ones.
  `PlanningShrinks` and `PlanningGoesOn` are the safety half of `PlanningEnds`: each
  iteration makes the natural number `StepsLeft` smaller, and no branch of the loops is
  ever missing one to go on with. What is left to fairness is that the call runs.
- **Model allocation** (`ModelAllocationProofs`): `AllocationExclusive`,
  `AllocationKeepsPromise`, `RequestsFitAlways`, `TenantsKeepTheirPlansAlways`,
  `PlanStartsCleanAlways`, `UnplannedOnlyHalfWayAlways`, `FinishNeverRefused`, for any number of interpreters and
  any models. Every step is a call into the arena, so `IInv` of the arena holds on;
  `AllocationInv` says by `stage` what the code relies on without checking it: in
  which stages the chain of temporaries is empty, how many there are while planning,
  how long the section is while requests live in it, that `max_head_buffer_usage_`
  bounds every finished plan, and that an interpreter whose last allocation is not
  finished is the running one or was left half-way. Nothing is proved of InvokesPlanned
  and VariablesPlaced: the code violates both.
- **Lifetimes** (`GraphInvokeProofs`, first part): `ReachableHaveLifetimesHolds`,
  `CallersOverlapCalleesHolds`, `MarkedSpansAlways`, for every model. Neither
  property is inductive: they speak of the end of a recursive walk. `WalkInv` says of
  each frame on the walk's stack that all it has finished was used again since the
  operator it is walked for began, and of the set `D` of subgraphs finished at least
  once that it is closed under calls and has no cycle of calls - a walk of a cycle
  would not end, so the code needs no check of its own. `MarkedSpans` is what
  memory reuse rests on: while an operator runs, whatever its subgraph has written
  and not read for the last time overlaps everything that running the operator
  touches, in any depth of calls. This is where `OrderAssumption` is needed.
- **Graph, control** (`GraphInvokeProofs`): `CurrentIsRunningAlways`,
  `EachOpOnceInOrderAlways`, `CallOnceRunsOnceAlways`, `NoReentryAlways`, for every
  model and nesting; CALL_ONCE once for each operator. The invariant `ControlInv` says of every suspended frame that
  the frame above saved exactly its subgraph and operator (`previousGraph`,
  `previousOp`), which makes the property survive the return. That CALL_ONCE runs
  once rests on the absence of recursion, and this on the walk: `SpecWalks` shows
  that the walk of every invoked model is one of `AllocationLifetimes`, so that its
  invariant can be used.
- **Graph, data** (`GraphInvokeProofs`): `NothingLostAlways` and
  `OutputsDeliveredAlways`. `DataInv` says what must be intact: `Needed`, of the
  frame on top, is what its loop keeps for later operators, and besides that what the
  kernel it is in has yet to copy; `Waiting`, of a frame below, what it will need when
  the call returns. Every kernel writes only what its operator touches, which
  `MarkedSpans` keeps apart from what every frame below waits for, because each of
  them is in a call of a subgraph that reaches the one on top. Alternate memory is
  apart by the order in which DECODE operators are inserted; it is why WHILE must
  copy its inputs to its outputs before it calls. The hypothesis `NoOfflineVariables`
  leaves out models with a variable tensor that has an offline offset: such a tensor
  is planned like an activation (section 3), so that its data may be overwritten
  between two calls, and the theorem would be false.
- **Resource variables** (`ResourceVariablesProofs`): `IdsIdentifyAlways`,
  `BuffersReadyAlways`, `ReadsLatestAlways`. The table has one entry a variable, no
  entry goes away or changes its name, and the first ASSIGN of a variable that
  Prepare meets gives it its buffer and its default. Where one operator has a null
  container and another a given one, the code's comparison takes the first for any
  container of that name; `ProgramAssumption` has the containers of a model all null
  or all given.

- **Ring buffer** (`StreamKernelsProofs`, parts 1 and 2): `CallsInvariant`,
  `CallsReadsAgree` and `CallsAreWindow`, for every capacity and any samples. A ring
  is described by two sequences, `Kept`, the last samples written, and `Queue`, the
  newest of them, which are unread; each function of `circular_buffer.cc` is proved to
  do to them what it does to a window, whichever side of the wrap it starts on.
  `CallsInv` relates the two halves of the buffer: they agree except at positions in
  `unmirrored`, written through the pointer of `ReserveForWrite`. Without that set the
  invariant would be false: a caller that reads on past the end, from the pointer of
  `PeekDirect`, may find an older sample at such a position, and `ReadsAgree` claims
  nothing of it.
- **Kernels with state** (`StreamKernelsProofs`, parts 3 to 12): `KernelsInvariant`,
  `FramesAreExact`, `StacksAreExact`, `DelayIsExact`, `OverlapAddIsExact`,
  `SvdfIsExact`, `LstmIsExact`, `KernelsHaveRoom`, for all parameters that `Accepted`
  allows, any number of channels, invocations and resets. What a kernel delivered last
  says nothing of what it will deliver next, so the invariant describes its state by the
  stream it was given: `Holds(c, s, from)` says that the ring `c` keeps the end of the
  stream `s` and that all of it behind `from` is unread; for FRAMER the capacity, a
  multiple of the step, has to be related to how many frames are still to come
  (`FramerKeepsUp`), for STACKER to the context that each frame repeats. OVERLAP_ADD
  keeps the running sums of the frames that still overlap later ones, in the order in
  which they saturate; a row of the SVDF state keeps the features of the last
  invocations, although the shift runs over the ends of the rows; LSTM keeps, for each
  batch, states computed from the inputs up to the current step, which the two layouts
  reach in different orders. What is a loop in the code is a recursive function here, and
  is unrolled by `Induction`, which is stated for a set in place of a predicate.
  `Accepted` is what the ops check less the three combinations named in section 3; the
  theorems, `KernelsHaveRoom` among them, say nothing of those.
- **Streaming chain** (`StreamingChainProofs`): `ChainHolds`, `OutputsAreExact`,
  `OutputsRecover`, for every chain of layers, whatever their windows and periods, and
  any number of invocations. `OutputsExact` speaks of the end of the chain; what
  carries it there is a count `h[i]` of the values that each layer handed on since the
  reset. `InStep` says that a layer took `every[i] * h[i]` values and those it has
  counted down since, that its window is the last of what the layer before handed on, and
  that the layer about to run is one value behind, which is where an abort leaves those
  after it. A failure loses a value and with it the counts, so `RecoversWithinPeriod`
  has an invariant of its own, `InTime`: `wait[i]`, the invocations until layer `i` hands
  on, is that of the layer before and a period of it for each value still to come, and
  the time since the last output or failure and the wait of the last layer make at most
  one period of the chain. TLC was used to check both on a small instance first.

Only model-checked: liveness (`PlanningEnds`, of which the bound on the iterations is proved,
and `InvokeReturns`), as the prover does no fairness; and that DECODE insertion gives models that satisfy `FlowAssumption`, which TLC
evaluates on the 36 compressed models of the run `invoke`. Every other property that a
passing run checks is stated by a theorem, two of them (`NothingLostAlways` and
`OutputsDeliveredAlways`) under the hypothesis named above.
`StreamKernelsProofs` extends both `StreamKernels` and `CircularBufferCalls`; the theorems
about the kernels use nothing of the latter's assumption.

## 5. What is not modelled

The listing in `PROJECT.json` names every component and the reason. Most of the
repository's lines are generated code, vendored libraries, and kernels in many
variants, which are arithmetic on tensors without state of their own; the models
cover the run-time core that is left. Within the modelled components:
`preserve_all_tensors`, which only widens lifetimes; `ModelAllocation` over the
separate arenas (the contract is proved of both layouts); `FreeSubgraphs` and
destruction; input and output `TfLiteTensor` details; temporaries a kernel takes in
`Eval` (none in the modelled kernels); the bits a DECODE turns into values; decoding
of the flatbuffer, and the linear search for the offline metadata; the scratch buffers the
gates of the LSTM share and all arithmetic of SVDF and LSTM; the float variant
of OVERLAP_ADD, which has the same control; STACKER's and FRAMER's checks of their
tensors' shapes.

## 6. Plan

1. *Done.* Arena, planner, lifetimes, invocation, model allocation; their theorems.
2. *Done.* The separate arenas as a second implementation of `ArenaPromise`, with
   its proof; the ring buffer as a refinement of a sliding window, the four signal
   kernels over it; resource variables; the streaming CIRCULAR_BUFFER kernel with
   abort and Reset; SVDF and LSTM; DECODE insertion and decompression memory.
3. *Done.* The other invariants of the arena and the planner; `ModelAllocation`; the
   lifetime walk, and on it `NothingLost` and `OutputsDelivered`; `CallOnceRunsOnce`;
   resource variables.
4. *Done.* Proofs of the ring buffer as a sliding window, of the kernels with state, and
   of the streaming chain.
5. Recording counters, linear planner and plan shim; temporaries taken in `Eval`;
   the integer square root against its definition.
