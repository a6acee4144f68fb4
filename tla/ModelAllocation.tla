--------------------------- MODULE ModelAllocation --------------------------
(***************************************************************************)
(* MicroAllocator and MicroInterpreter::AllocateTensors: how a model gets  *)
(* its memory from the arena of ArenaAllocator, and how several            *)
(* interpreters share one MicroAllocator.  AllocateTensors is one call; a  *)
(* step here is one call it, or a kernel's Init or Prepare, makes into the *)
(* arena, so that every refusal is met where the code meets it.            *)
(*                                                                         *)
(* While a model is allocated the head section holds the scratch buffer    *)
(* requests of its kernels; afterwards it is the overlay, which every      *)
(* allocated model uses in turn when it is invoked.  A model is a record:  *)
(*   operators  how many                                                   *)
(*   variable   is_variable() of each tensor, one sequence a subgraph      *)
(*   offline    whether the offline plan has an offset for each tensor of  *)
(*              the model, all subgraphs concatenated                      *)
(*   plans      the high-water marks its memory plan may have              *)
(***************************************************************************)
EXTENDS ArenaAllocator

CONSTANTS
  Interpreters,
  ModelOf,                   \* the model of each interpreter
  kMaxScratchBuffersPerOp,
  RequestSize,               \* sizeof(ScratchBufferRequest)
  HandleSize,                \* sizeof(ScratchBufferHandle)
  StructSize,                \* bytes of every other bookkeeping structure
  InfoSize,                  \* sizeof(AllocationInfo)
  PlanSize,                  \* GreedyMemoryPlanner::per_buffer_size()
  VariableSize,              \* bytes of a variable tensor
  KernelSizes,               \* bytes kernels ask for
  StructAlign,               \* alignment of the structures
  ArenaAlign                 \* MicroArenaBufferAlignment()

Unassigned == -1
NoOne == "no one"

\* MicroAllocator::Create aligns the arena before it hands it on.
ASSUME AllocationAssumption ==
  /\ \A i \in Interpreters :
       /\ ModelOf[i].operators \in Nat
       /\ ModelOf[i].offline \in Seq(BOOLEAN)
       /\ ModelOf[i].plans \subseteq Nat
  /\ {kMaxScratchBuffersPerOp, RequestSize, HandleSize, StructSize, InfoSize, PlanSize,
      VariableSize} \subseteq Nat
  /\ KernelSizes \subseteq Nat
  /\ StructAlign \in Nat \ {0} /\ ArenaAlign \in Nat \ {0}
  /\ AlignPointerUp(BufferHead, StructAlign) = BufferHead
  /\ AlignPointerUp(BufferHead, ArenaAlign) = BufferHead
  /\ NoOne \notin Interpreters

VARIABLES
  running, stage,            \* the interpreter whose call is running, and where it is
  invoking,                  \* the call is Invoke, which allocates first if it must
  allocating,                \* model_is_allocating_
  requests,                  \* node_idx of each ScratchBufferRequest in the section
  maxHead,                   \* max_head_buffer_usage_
  operator,                  \* current_operator_index_ of Prepare, from 1
  todo,                      \* variable tensors AllocateVariables has still to visit
  placed,                    \* variable tensors with a persistent buffer
  interp                     \* what each interpreter knows

allocatorVars == <<allocating, requests, maxHead>>
allocationVars == <<running, stage, invoking, allocatorVars, operator, todo, placed, interp>>

Model == ModelOf[running]

-----------------------------------------------------------------------------
\* Tensors are numbered in their subgraph; the offline plan numbers them over the model.
Offset(m, g) == IF g = 1 THEN 0 ELSE Len(m.variable[1])
Variables(m) == {v \in {1, 2} \X (1..Len(m.offline)) :
  v[1] \in DOMAIN m.variable /\ v[2] \in DOMAIN m.variable[v[1]] /\ m.variable[v[1]][v[2]]}

\* AllocateVariables asks the offline plan for a tensor's number in its subgraph.
HasOfflineOffset(m, v) == m.offline[v[2]]

\* InitializeAllocationInfo asks it for the tensor's number in the model.
PlannedAsOffline(m, v) == m.offline[Offset(m, v[1]) + v[2]]

Knows(i, field, value) == interp' = [interp EXCEPT ![i][field] = value]

Goto(from, to) == stage = from /\ stage' = to
Return == stage' = "idle" /\ running' = NoOne /\ invoking' = FALSE
Continue == UNCHANGED <<running, invoking>>

AllocationInit ==
  /\ Init
  /\ running = NoOne /\ stage = "idle" /\ invoking = FALSE
  /\ allocating = FALSE /\ requests = <<>> /\ maxHead = 0
  /\ operator = 0 /\ todo = {} /\ placed = {}
  /\ interp = [i \in Interpreters |->
       [initialized |-> TRUE, allocated |-> FALSE, arenaFailed |-> FALSE, planned |-> FALSE,
        overlay |-> Region(BufferHead, 0)]]

-----------------------------------------------------------------------------
(* StartModelAllocation *)

StartModelAllocation(i, invoke) ==
  /\ ~allocating
  /\ Goto("idle", "builtin")
  /\ running' = i /\ invoking' = invoke
  /\ allocating' = TRUE
  /\ UNCHANGED <<vars, requests, maxHead, operator, todo, placed, interp>>

RefuseModelAllocation(i) ==
  /\ allocating
  /\ stage = "idle"
  /\ Knows(i, "initialized", FALSE)
  /\ UNCHANGED <<vars, running, stage, invoking, allocatorVars, operator, todo, placed>>

\* A null result of StartModelAllocation: the interpreter gives up for good.
StartFails ==
  /\ Return
  /\ Knows(running, "initialized", FALSE)
  /\ UNCHANGED <<vars, allocating, maxHead, operator, todo, placed>>

AllocateBuiltinData ==
  \/ /\ Goto("builtin", "scratch")
     /\ AllocatePersistentBuffer(StructSize, StructAlign)
     /\ Continue /\ UNCHANGED <<allocatorVars, operator, todo, placed, interp>>
  \/ /\ stage = "builtin"
     /\ ~PersistentFits(StructSize, StructAlign)
     /\ StartFails /\ UNCHANGED requests

InitScratchBufferData ==
  \/ /\ Goto("scratch", "metadata")
     /\ AllocateResizableBuffer(RequestSize * kMaxScratchBuffersPerOp, StructAlign)
     /\ requests' = <<>>
     /\ Continue /\ UNCHANGED <<allocating, maxHead, operator, todo, placed, interp>>
  \/ /\ stage = "scratch"
     /\ ~SectionFits(AlignPointerUp(BufferHead, StructAlign),
                     RequestSize * kMaxScratchBuffersPerOp, StructAlign)
     /\ requests' = <<>>
     /\ StartFails

\* SubgraphAllocations, eval tensors, nodes and registrations; then the interpreter's graph
\* is set to them.
AllocateMetadata ==
  \/ /\ Goto("metadata", "init")
     /\ AllocatePersistentBuffer(StructSize, StructAlign)
     /\ Knows(running, "planned", FALSE)
     /\ Continue /\ UNCHANGED <<allocatorVars, operator, todo, placed>>
  \/ /\ stage = "metadata"
     /\ ~PersistentFits(StructSize, StructAlign)
     /\ StartFails /\ UNCHANGED requests

-----------------------------------------------------------------------------
(* Init and Prepare of the kernels *)

\* A slip in the definition below: the allocator is free again for the next model.
GiveUpForTheNext ==
  /\ Return
  /\ allocating' = FALSE
  /\ UNCHANGED <<vars, requests, maxHead, operator, todo, placed, interp>>

\* AllocateTensors returns an error and leaves everything as it is.
GiveUp ==
  /\ Return
  /\ UNCHANGED <<vars, allocatorVars, operator, todo, placed, interp>>

KernelPersistent(size) ==
  /\ stage \in {"init", "prepare"}
  /\ \/ AllocatePersistentBuffer(size, ArenaAlign) /\ UNCHANGED interp
     \/ /\ ~PersistentFits(size, ArenaAlign)
        /\ Knows(running, "arenaFailed", TRUE) /\ UNCHANGED vars
  /\ UNCHANGED <<running, stage, invoking, allocatorVars, operator, todo, placed>>

KernelTemp(size) ==
  /\ stage = "prepare"
  /\ Len(chain) < MaxTemps
  /\ \/ AllocateTemp(size, StructAlign) /\ UNCHANGED interp
     \/ /\ ~TempFits(size, StructAlign)
        /\ Knows(running, "arenaFailed", TRUE) /\ UNCHANGED vars
  /\ UNCHANGED <<running, stage, invoking, allocatorVars, operator, todo, placed>>

KernelFreesTemp(n) ==
  /\ stage = "prepare"
  /\ DeallocateTemp(n)
  /\ UNCHANGED allocationVars

\* The requests of the operator that is being prepared, current_node_request_count of them.
CurrentNodeRequests == {r \in DOMAIN requests : requests[r] = Unassigned}

\* A slip in the definition below: one request too many.
RequestOneMore ==
  /\ stage = "prepare"
  /\ Cardinality(CurrentNodeRequests) <= kMaxScratchBuffersPerOp
  /\ requests' = Append(requests, Unassigned)
  /\ UNCHANGED <<vars, running, stage, invoking, allocating, maxHead, operator, todo, placed, interp>>

RequestScratchBufferInArena ==
  /\ stage = "prepare"
  /\ Cardinality(CurrentNodeRequests) < kMaxScratchBuffersPerOp
  /\ requests' = Append(requests, Unassigned)
  /\ UNCHANGED <<vars, running, stage, invoking, allocating, maxHead, operator, todo, placed, interp>>

NextStage == IF operator' <= Model.operators THEN "prepare" ELSE "handles"

InitSubgraphs ==
  /\ stage = "init"
  /\ ~interp[running].arenaFailed
  /\ operator' = 1
  /\ stage' = NextStage
  /\ Continue /\ UNCHANGED <<vars, allocatorVars, todo, placed, interp>>

\* A kernel returned an error, is missing or used up the arena.
KernelFails ==
  /\ stage \in {"init", "prepare"}
  /\ GiveUp

\* FinishPrepareNodeAllocations resets the temporaries, assigns the operator's requests and
\* makes room for those of the next one.
ResetKernelTemps ==
  \/ /\ Goto("prepare", "resize")
     /\ ~interp[running].arenaFailed
     /\ ResetTempAllocations
     /\ Continue /\ UNCHANGED <<allocatorVars, operator, todo, placed, interp>>
  \/ /\ stage = "prepare"
     /\ ~IsAllTempDeallocated
     /\ GiveUp

\* A slip in the definition below: the loop ends one request early.
AssignAllButLast ==
  requests' = [r \in DOMAIN requests |->
    IF requests[r] = Unassigned /\ r < Len(requests) THEN operator ELSE requests[r]]

AssignRequests ==
  requests' = [r \in DOMAIN requests |-> IF requests[r] = Unassigned THEN operator ELSE requests[r]]

FinishPrepareNodeAllocations ==
  LET size == RequestSize * (Len(requests) + kMaxScratchBuffersPerOp) IN
  /\ stage = "resize"
  /\ AssignRequests
  /\ \/ /\ ResizeBuffer(section.start, size, StructAlign)
        /\ operator' = operator + 1
        /\ stage' = NextStage
        /\ Continue /\ UNCHANGED <<allocating, maxHead, todo, placed, interp>>
     \/ /\ ~SectionFits(section.start, size, StructAlign)
        /\ Return
        /\ UNCHANGED <<vars, allocating, maxHead, operator, todo, placed, interp>>

-----------------------------------------------------------------------------
(* FinishModelAllocation *)

AllocateScratchBufferHandles ==
  LET size == HandleSize * Len(requests) IN
  \/ /\ Goto("handles", "offsets")
     /\ IF requests = <<>> THEN UNCHANGED vars ELSE AllocatePersistentBuffer(size, StructAlign)
     /\ Continue /\ UNCHANGED <<allocatorVars, operator, todo, placed, interp>>
  \/ /\ stage = "handles"
     /\ requests # <<>> /\ ~PersistentFits(size, StructAlign)
     /\ GiveUp

\* CreateAllocationInfo: two temporaries, the first.
AllocateSubgraphOffsets ==
  \/ /\ Goto("offsets", "info")
     /\ AllocateTemp(StructSize, StructAlign)
     /\ Continue /\ UNCHANGED <<allocatorVars, operator, todo, placed, interp>>
  \/ /\ stage = "offsets"
     /\ ~TempFits(StructSize, StructAlign)
     /\ GiveUp

InfoBytes == InfoSize * (Len(Model.offline) + Len(requests))

\* And the second, one AllocationInfo for each tensor and scratch buffer.
AllocateInfo ==
  \/ /\ Goto("info", "variables")
     /\ AllocateTemp(InfoBytes, StructAlign)
     /\ todo' = Variables(Model) /\ placed' = {}
     /\ Continue /\ UNCHANGED <<allocatorVars, operator, interp>>
  \/ /\ stage = "info"
     /\ ~TempFits(InfoBytes, StructAlign)
     /\ GiveUp

\* AllocateVariables, one tensor: it is left to the plan, or gets a persistent buffer.
AllocateVariable(v) ==
  /\ stage = "variables"
  /\ v \in todo
  /\ \/ /\ HasOfflineOffset(Model, v)
        /\ todo' = todo \ {v}
        /\ UNCHANGED <<vars, running, stage, invoking, allocatorVars, operator, placed, interp>>
     \/ /\ ~HasOfflineOffset(Model, v)
        /\ AllocatePersistentBuffer(VariableSize, ArenaAlign)
        /\ todo' = todo \ {v} /\ placed' = placed \union {v}
        /\ UNCHANGED <<running, stage, invoking, allocatorVars, operator, interp>>
     \/ /\ ~HasOfflineOffset(Model, v)
        /\ ~PersistentFits(VariableSize, ArenaAlign)
        /\ GiveUp

\* The planner works in a temporary that takes all the memory left.
AllocatePlannerArena ==
  LET size == GetAvailableMemory(ArenaAlign) IN
  /\ todo = {}
  /\ \/ /\ Goto("variables", "plan")
        /\ AllocateTemp(size, ArenaAlign)
        /\ Continue /\ UNCHANGED <<allocatorVars, operator, todo, placed, interp>>
     \/ /\ stage = "variables"
        /\ ~TempFits(size, ArenaAlign)
        /\ GiveUp

PlannedCount ==
  Len(requests) + Cardinality({n \in DOMAIN Model.offline :
    ~ \E v \in Variables(Model) : Offset(Model, v[1]) + v[2] = n /\ ~PlannedAsOffline(Model, v)})
PlanBytes == PlanSize * PlannedCount

\* CreatePlan, which fails without room for a buffer's requirements, and CommitPlan.
CommitPlan ==
  \/ /\ Goto("plan", "free")
     /\ PlanBytes <= chain[3].size
     /\ \E plan \in Model.plans :
          Knows(running, "overlay", Region(BufferHead, plan))
     /\ Continue /\ UNCHANGED <<vars, allocatorVars, operator, todo, placed>>
  \/ /\ stage = "plan"
     /\ PlanBytes > chain[3].size \/ Model.plans = {}
     /\ GiveUp

\* An error of FinishModelAllocation before the plan is committed for which no memory is
\* missing: a tensor without a size, offline metadata of the wrong length, subgraphs that
\* call themselves, a buffer too large for the planner or one it has no place for.
FinishFails ==
  /\ stage \in {"variables", "plan"}
  /\ GiveUp

\* FreeAllocationInfo frees the second temporary and the first; then the planner's.
FreedNext == IF 2 \in Live THEN 2 ELSE IF 1 \in Live THEN 1 ELSE 3

FreePlanningMemory ==
  /\ stage = "free"
  /\ FreedNext \in Live
  /\ DeallocateTemp(FreedNext)
  /\ UNCHANGED allocationVars

\* This and DeallocateRequests below return an error if the arena refuses.  It never does
\* here: a state where it did would be a deadlock of the model.
ResetPlanningTemps ==
  /\ Live = {}
  /\ Goto("free", "deallocate")
  /\ ResetTempAllocations
  /\ Continue /\ UNCHANGED <<allocatorVars, operator, todo, placed, interp>>

\* A slip in the definition below: the head is what this model needs.
DeallocateAndForgetOthers ==
  /\ Goto("deallocate", "reserve")
  /\ DeallocateResizableBuffer
  /\ maxHead' = interp[running].overlay.size
  /\ Continue /\ UNCHANGED <<allocating, requests, operator, todo, placed, interp>>

\* The requests are dropped; the largest plan of all models sets the head.
DeallocateRequests ==
  /\ Goto("deallocate", "reserve")
  /\ DeallocateResizableBuffer
  /\ maxHead' =
       IF maxHead < interp[running].overlay.size THEN interp[running].overlay.size ELSE maxHead
  /\ Continue /\ UNCHANGED <<allocating, requests, operator, todo, placed, interp>>

ReserveOverlay ==
  \/ /\ Goto("reserve", "tensors")
     /\ ReserveNonPersistentOverlayMemory(maxHead, ArenaAlign)
     /\ allocating' = FALSE
     /\ Knows(running, "planned", TRUE)
     /\ Continue /\ UNCHANGED <<requests, maxHead, operator, todo, placed>>
  \/ /\ stage = "reserve"
     /\ ~SectionFits(AlignPointerUp(BufferHead, ArenaAlign), maxHead, ArenaAlign)
     /\ GiveUp

\* The TfLiteTensors of the inputs and outputs and Reset(), which may fail; then
\* AllocateTensors is done.
AllocateInputsAndOutputs ==
  \/ /\ stage = "tensors"
     /\ AllocatePersistentBuffer(StructSize, ArenaAlign)
     /\ \/ /\ Knows(running, "allocated", TRUE)
           /\ IF invoking
              THEN stage' = "invoke" /\ Continue
              ELSE Return
        \/ Return /\ UNCHANGED interp
     /\ UNCHANGED <<allocatorVars, operator, todo, placed>>
  \/ /\ stage = "tensors"
     /\ ~PersistentFits(StructSize, ArenaAlign)
     /\ GiveUp

-----------------------------------------------------------------------------
(* The application *)

\* The code lets it be called at any time, on an allocated interpreter too.
AllocateTensors(i) == StartModelAllocation(i, FALSE) \/ RefuseModelAllocation(i)

\* MicroResourceVariables::Create takes its table from the allocator, at any time.
CreateResourceVariables(size) ==
  /\ stage = "idle"
  /\ AllocatePersistentBuffer(size, ArenaAlign)
  /\ UNCHANGED allocationVars

\* Invoke allocates first if AllocateTensors has not succeeded.
Invoke(i) ==
  /\ interp[i].initialized
  /\ \/ /\ interp[i].allocated
        /\ Goto("idle", "invoke")
        /\ running' = i /\ invoking' = TRUE
        /\ UNCHANGED <<vars, allocatorVars, operator, todo, placed, interp>>
     \/ ~interp[i].allocated /\ (StartModelAllocation(i, TRUE) \/ RefuseModelAllocation(i))

\* After each operator InvokeSubgraph resets the temporaries, and ignores a refusal.
InvokeEnds ==
  /\ stage = "invoke"
  /\ IF IsAllTempDeallocated THEN ResetTempAllocations ELSE UNCHANGED vars
  /\ Return
  /\ UNCHANGED <<allocatorVars, operator, todo, placed, interp>>

StartStep == AllocateBuiltinData \/ InitScratchBufferData \/ AllocateMetadata

KernelStep ==
  \/ \E size \in KernelSizes : KernelPersistent(size) \/ KernelTemp(size)
  \/ \E n \in Live : KernelFreesTemp(n)
  \/ RequestScratchBufferInArena
  \/ KernelFails

PrepareStep ==
  \/ InitSubgraphs
  \/ ResetKernelTemps
  \/ FinishPrepareNodeAllocations

FinishStep ==
  \/ AllocateScratchBufferHandles
  \/ AllocateSubgraphOffsets
  \/ AllocateInfo
  \/ \E v \in todo : AllocateVariable(v)
  \/ AllocatePlannerArena
  \/ CommitPlan
  \/ FinishFails
  \/ FreePlanningMemory
  \/ ResetPlanningTemps
  \/ DeallocateRequests
  \/ ReserveOverlay
  \/ AllocateInputsAndOutputs

AllocationNext ==
  \/ \E i \in Interpreters : AllocateTensors(i) \/ Invoke(i)
  \/ StartStep \/ KernelStep \/ PrepareStep \/ FinishStep
  \/ \E size \in KernelSizes : CreateResourceVariables(size)
  \/ InvokeEnds

AllocationSpec == AllocationInit /\ [][AllocationNext]_<<vars, allocationVars>>

-----------------------------------------------------------------------------
Preparing == stage \in {"prepare", "resize", "handles", "offsets", "info", "variables", "plan",
                        "free", "deallocate"}

\* The array of scratch buffer requests never outgrows the head section it lives in, so a
\* request never lands on a kernel's temporaries, and while a kernel is prepared there is
\* room for all that one kernel may ask for (RequestScratchBufferInArena,
\* FinishPrepareNodeAllocations).
RequestsFit == Preparing =>
  /\ RequestSize * Len(requests) <= section.size
  /\ stage = "prepare" =>
       section.size >= RequestSize *
         (kMaxScratchBuffersPerOp + Len(requests) - Cardinality(CurrentNodeRequests))

\* When no allocation is under way, or was left half-way, the plan of every allocated model
\* lies inside the reserved head and meets no persistent buffer: models that share the
\* allocator may be invoked in any order, whoever was allocated last (max_head_buffer_usage_).
TenantsKeepTheirPlans == ~allocating => \A i \in Interpreters : interp[i].planned =>
  /\ interp[i].overlay.start + interp[i].overlay.size <= head
  /\ \A p \in persistent : Apart(p, interp[i].overlay)

\* The memory plan is made over a clean chain: every temporary of every kernel is gone and
\* every request belongs to an operator.
PlanStartsClean == stage = "offsets" =>
  /\ chain = <<>> /\ temp = head
  /\ Unassigned \notin {requests[r] : r \in DOMAIN requests}

\* "Ensure tensors are allocated before the interpreter is invoked to avoid difficult to debug
\* segfaults" (micro_interpreter.cc:277): an Invoke that runs the model runs a graph whose
\* allocation was finished.
InvokesPlanned == stage = "invoke" => interp[running].planned

\* What is left of InvokesPlanned: while the allocator can still take a model, every interpreter
\* that counts as allocated has a finished allocation.  Only the interpreter whose second
\* AllocateTensors failed can be allocated over an unfinished graph, and model_is_allocating_,
\* which that failure leaves set, shows it (tensors_allocated_, MicroInterpreter::AllocateTensors).
UnplannedOnlyHalfWay == ~allocating =>
  \A i \in Interpreters : interp[i].allocated => interp[i].planned

\* Every variable tensor has one home: a persistent buffer, or a place in the offline plan.
VariablesPlaced == stage = "plan" =>
  \A v \in Variables(Model) : (v \in placed) # PlannedAsOffline(Model, v)

\* "Allocates persistent buffer which has the same life time as the allocator"
\* (micro_allocator.h:238): a model that is invoked after its allocation was finished does not
\* use its bytes.
InvokesKeepPersistent == stage = "invoke" /\ interp[running].planned =>
  \A p \in persistent : Apart(p, interp[running].overlay)
=============================================================================
