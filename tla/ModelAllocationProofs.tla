------------------------ MODULE ModelAllocationProofs ------------------------
(***************************************************************************)
(* Theorems about ModelAllocation, for any number of interpreters, any     *)
(* models, arena, structure sizes and alignments.                          *)
(*                                                                         *)
(* The argument: every step of MicroAllocator is a call into the arena or  *)
(* leaves it alone, so what ArenaAllocatorProofs shows of the arena holds  *)
(* here.  What the code keeps in mind between the calls is which stages    *)
(* have a clean chain, how large the section is while requests live in it, *)
(* and that max_head_buffer_usage_ bounds every finished plan: these are   *)
(* the invariants, each by the stage the running call is in.               *)
(***************************************************************************)
EXTENDS ModelAllocation, ArenaAllocatorProofs

-----------------------------------------------------------------------------
\* The parts of the inductive invariant.

AllocatingStages == {"builtin", "scratch", "metadata", "init", "prepare", "resize", "handles",
  "offsets", "info", "variables", "plan", "free", "deallocate", "reserve"}
Stages == AllocatingStages \union {"idle", "tensors", "invoke"}

InterpRecord ==
  [initialized : BOOLEAN, allocated : BOOLEAN, arenaFailed : BOOLEAN, planned : BOOLEAN,
   overlay : [start : Nat, size : Nat]]

AllocationTypes ==
  /\ stage \in Stages
  /\ stage # "idle" => running \in Interpreters
  /\ allocating \in BOOLEAN
  /\ requests \in Seq(Int)
  /\ maxHead \in Nat
  /\ operator \in Nat
  /\ interp \in [Interpreters -> InterpRecord]

\* model_is_allocating_ is set from the start of an allocation to the reserved overlay.
AllocatingIsStage ==
  /\ stage \in AllocatingStages => allocating
  /\ stage = "tensors" => ~allocating

CleanStages == {"builtin", "scratch", "metadata", "init", "resize", "handles", "offsets",
  "deallocate", "reserve"}

ChainIsClean == ~allocating \/ stage \in CleanStages => chain = <<>> /\ temp = head

\* The temporaries of the planning: the offsets, the allocation infos, the planner's memory.
PlanningChain ==
  /\ stage = "info" => Len(chain) = 1
  /\ stage = "variables" => Len(chain) = 2
  /\ stage \in {"plan", "free"} => Len(chain) = 3

RequestsInSection ==
  /\ stage \in {"metadata", "init"} =>
       requests = <<>> /\ section.size = RequestSize * kMaxScratchBuffersPerOp
  /\ RequestsFit
  /\ stage = "prepare" => Cardinality(CurrentNodeRequests) <= kMaxScratchBuffersPerOp
  /\ stage \in {"handles", "offsets"} => CurrentNodeRequests = {}

SectionAtHead == section.start = BufferHead

Planning == stage \in {"init", "prepare", "resize", "handles", "offsets", "info", "variables",
  "plan", "free", "deallocate", "reserve"}

PlansInHead ==
  /\ ~allocating => head = BufferHead + maxHead
  /\ \A i \in Interpreters :
       /\ interp[i].overlay.start = BufferHead
       /\ interp[i].planned => interp[i].overlay.size <= maxHead
  /\ Planning => ~interp[running].planned
  /\ stage = "reserve" => interp[running].overlay.size <= maxHead

\* An interpreter whose graph is not finished although it was allocated before is the one that
\* is allocated now, or the allocator was left half-way.
GraphsFinished ==
  /\ UnplannedOnlyHalfWay
  /\ stage \in AllocatingStages =>
       \A i \in Interpreters \ {running} : interp[i].allocated => interp[i].planned
  /\ stage = "tensors" => interp[running].planned

AllocationInv ==
  /\ AllocationTypes /\ AllocatingIsStage /\ ChainIsClean /\ PlanningChain
  /\ RequestsInSection /\ SectionAtHead /\ PlansInHead /\ GraphsFinished

-----------------------------------------------------------------------------
LEMMA Constants ==
  /\ RequestSize \in Nat /\ HandleSize \in Nat /\ StructSize \in Nat /\ InfoSize \in Nat
  /\ PlanSize \in Nat /\ VariableSize \in Nat /\ kMaxScratchBuffersPerOp \in Nat
  /\ StructAlign \in Nat \ {0} /\ ArenaAlign \in Nat \ {0}
  /\ BufferHead \in Nat /\ BufferSize \in Nat /\ KernelSizes \subseteq Nat
  /\ AlignPointerUp(BufferHead, StructAlign) = BufferHead
  /\ AlignPointerUp(BufferHead, ArenaAlign) = BufferHead
  /\ \A i \in Interpreters : /\ ModelOf[i].operators \in Nat /\ ModelOf[i].plans \subseteq Nat
                             /\ ModelOf[i].offline \in Seq(BOOLEAN)
BY AllocationAssumption, ArenaAssumption DEF AllocationAssumption, ArenaAssumption

LEMMA Product ==
  ASSUME NEW a \in Nat, NEW b \in Nat
  PROVE  a * b \in Nat
OBVIOUS

\* What a step that changes one field of one interpreter leaves of the others.
LEMMA KnowsFlag ==
  ASSUME AllocationTypes, NEW i \in Interpreters, NEW v \in BOOLEAN,
         NEW field \in {"initialized", "allocated", "arenaFailed", "planned"},
         Knows(i, field, v)
  PROVE  /\ interp' \in [Interpreters -> InterpRecord]
         /\ \A j \in Interpreters :
              /\ interp'[j].overlay = interp[j].overlay
              /\ j # i \/ field # "planned" => interp'[j].planned = interp[j].planned
              /\ j # i \/ field # "allocated" => interp'[j].allocated = interp[j].allocated
         /\ field = "planned" => interp'[i].planned = v
         /\ field = "allocated" => interp'[i].allocated = v
<1>1. interp \in [Interpreters -> InterpRecord]
  BY DEF AllocationTypes
<1>2. \A j \in Interpreters : interp'[j] = IF j = i THEN [interp[i] EXCEPT ![field] = v] ELSE interp[j]
  BY <1>1 DEF Knows
<1>3. DOMAIN interp' = Interpreters /\ interp' = [j \in Interpreters |-> interp'[j]]
  BY <1>1 DEF Knows
<1>4. interp[i] \in InterpRecord
  BY <1>1
<1>5. CASE field = "initialized"
  BY <1>1, <1>2, <1>3, <1>4, <1>5 DEF InterpRecord
<1>6. CASE field = "allocated"
  BY <1>1, <1>2, <1>3, <1>4, <1>6 DEF InterpRecord
<1>7. CASE field = "arenaFailed"
  BY <1>1, <1>2, <1>3, <1>4, <1>7 DEF InterpRecord
<1>8. CASE field = "planned"
  BY <1>1, <1>2, <1>3, <1>4, <1>8 DEF InterpRecord
<1>9. QED
  BY <1>5, <1>6, <1>7, <1>8

LEMMA KnowsOverlay ==
  ASSUME AllocationTypes, NEW i \in Interpreters, NEW plan \in Nat,
         Knows(i, "overlay", Region(BufferHead, plan))
  PROVE  /\ interp' \in [Interpreters -> InterpRecord]
         /\ \A j \in Interpreters :
              /\ interp'[j].planned = interp[j].planned
              /\ interp'[j].allocated = interp[j].allocated
              /\ j # i => interp'[j].overlay = interp[j].overlay
         /\ interp'[i].overlay = Region(BufferHead, plan)
<1>1. interp \in [Interpreters -> InterpRecord]
  BY DEF AllocationTypes
<1>2. Region(BufferHead, plan) \in [start : Nat, size : Nat]
  BY Constants DEF Region
<1>3. \A j \in Interpreters : interp'[j] =
        IF j = i THEN [interp[i] EXCEPT !.overlay = Region(BufferHead, plan)] ELSE interp[j]
  BY <1>1 DEF Knows
<1>4. DOMAIN interp' = Interpreters /\ interp' = [j \in Interpreters |-> interp'[j]]
  BY <1>1 DEF Knows
<1>5. interp[i] \in InterpRecord
  BY <1>1
<1>6. QED
  BY <1>1, <1>2, <1>3, <1>4, <1>5 DEF InterpRecord

LEMMA InitAllocation == AllocationInit => AllocationInv
<1> SUFFICES ASSUME AllocationInit PROVE AllocationInv
  OBVIOUS
<1> USE DEF AllocationInit, Init, Region
<1>1. AllocationTypes
  <2>1. interp \in [Interpreters -> InterpRecord]
    BY Constants DEF InterpRecord
  <2>2. requests \in Seq(Int)
    <3>1. \A S : <<>> \in Seq(S)
      OBVIOUS
    <3>2. QED
      BY <3>1
  <2>3. QED
    BY <2>1, <2>2 DEF AllocationTypes, Stages
<1>2. AllocatingIsStage /\ ChainIsClean /\ PlanningChain /\ GraphsFinished
  BY DEF AllocatingIsStage, AllocatingStages, ChainIsClean, PlanningChain, GraphsFinished,
         UnplannedOnlyHalfWay
<1>3. RequestsInSection /\ SectionAtHead
  BY DEF RequestsInSection, SectionAtHead, RequestsFit, Preparing
<1>4. PlansInHead
  BY Constants DEF PlansInHead, Planning
<1>5. QED
  BY <1>1, <1>2, <1>3, <1>4 DEF AllocationInv

-----------------------------------------------------------------------------
\* Every step is a call into the arena or leaves the arena alone.

LEMMA StartIsCall == StartStep => ArenaCall \/ UNCHANGED vars
<1> SUFFICES ASSUME StartStep PROVE ArenaCall \/ UNCHANGED vars
  OBVIOUS
<1>1. AllocateBuiltinData \/ AllocateMetadata => ArenaCall \/ UNCHANGED vars
  BY Constants DEF AllocateBuiltinData, AllocateMetadata, StartFails, ArenaCall
<1>2. ASSUME InitScratchBufferData PROVE ArenaCall \/ UNCHANGED vars
  <2>1. RequestSize * kMaxScratchBuffersPerOp \in Nat
    BY Constants, Product
  <2>2. QED
    BY <1>2, <2>1, Constants, AllocateResizableIsCall DEF InitScratchBufferData, StartFails
<1>3. QED
  BY <1>1, <1>2 DEF StartStep

LEMMA KernelIsCall == KernelStep => ArenaCall \/ UNCHANGED vars
<1> SUFFICES ASSUME KernelStep PROVE ArenaCall \/ UNCHANGED vars
  OBVIOUS
<1>1. ASSUME NEW size \in KernelSizes, KernelPersistent(size) \/ KernelTemp(size)
      PROVE  ArenaCall \/ UNCHANGED vars
  <2>1. size \in Nat
    BY Constants
  <2>2. QED
    BY <1>1, <2>1, Constants DEF KernelPersistent, KernelTemp, ArenaCall
<1>2. (\E n \in Live : KernelFreesTemp(n)) => ArenaCall
  BY DEF KernelFreesTemp, ArenaCall
<1>3. RequestScratchBufferInArena \/ KernelFails => UNCHANGED vars
  BY DEF RequestScratchBufferInArena, KernelFails, GiveUp
<1>4. QED
  BY <1>1, <1>2, <1>3 DEF KernelStep

LEMMA PrepareIsCall == TypeOK /\ AllocationTypes /\ PrepareStep => ArenaCall \/ UNCHANGED vars
<1> SUFFICES ASSUME TypeOK, AllocationTypes, PrepareStep PROVE ArenaCall \/ UNCHANGED vars
  OBVIOUS
<1>1. InitSubgraphs \/ ResetKernelTemps => ArenaCall \/ UNCHANGED vars
  BY DEF InitSubgraphs, ResetKernelTemps, GiveUp, ArenaCall
<1>2. ASSUME FinishPrepareNodeAllocations PROVE ArenaCall \/ UNCHANGED vars
  <2>1. Len(requests) + kMaxScratchBuffersPerOp \in Nat
    BY Constants DEF AllocationTypes
  <2>2. RequestSize * (Len(requests) + kMaxScratchBuffersPerOp) \in Nat
    BY <2>1, Constants, Product
  <2>3. QED
    BY <1>2, <2>2, Constants, SectionResizeIsCall DEF FinishPrepareNodeAllocations
<1>3. QED
  BY <1>1, <1>2 DEF PrepareStep

LEMMA FinishIsCall ==
  TypeOK /\ AllocationTypes /\ FinishStep => ArenaCall \/ UNCHANGED vars
<1> SUFFICES ASSUME TypeOK, AllocationTypes, FinishStep PROVE ArenaCall \/ UNCHANGED vars
  OBVIOUS
<1>0. Len(requests) \in Nat
  BY DEF AllocationTypes
<1>1. ASSUME AllocateScratchBufferHandles PROVE ArenaCall \/ UNCHANGED vars
  <2>1. HandleSize * Len(requests) \in Nat
    BY <1>0, Constants, Product
  <2>2. QED
    BY <1>1, <2>1, Constants DEF AllocateScratchBufferHandles, GiveUp, ArenaCall
<1>2. ASSUME AllocateSubgraphOffsets PROVE ArenaCall \/ UNCHANGED vars
  BY <1>2, Constants DEF AllocateSubgraphOffsets, GiveUp, ArenaCall
<1>3. ASSUME AllocateInfo PROVE ArenaCall \/ UNCHANGED vars
  <2>1. stage = "info" /\ running \in Interpreters
    BY <1>3 DEF AllocateInfo, Goto, AllocationTypes
  <2>2. Model.offline \in Seq(BOOLEAN)
    BY <2>1, Constants DEF Model
  <2>3. Len(Model.offline) + Len(requests) \in Nat
    BY <1>0, <2>2
  <2>4. InfoBytes \in Nat
    BY <2>3, Constants, Product DEF InfoBytes
  <2>5. QED
    BY <1>3, <2>4, Constants DEF AllocateInfo, GiveUp, ArenaCall
<1>4. ASSUME NEW v \in todo, AllocateVariable(v) PROVE ArenaCall \/ UNCHANGED vars
  BY <1>4, Constants DEF AllocateVariable, GiveUp, ArenaCall
<1>5. ASSUME AllocatePlannerArena PROVE ArenaCall \/ UNCHANGED vars
  <2>1. GetAvailableMemory(ArenaAlign) \in Nat
    <3>1. temp \in Nat /\ tail \in Nat
      BY DEF TypeOK
    <3>2. AlignPointerUp(temp, ArenaAlign) \in Nat /\ AlignPointerDown(tail, ArenaAlign) \in Nat
      BY <3>1, Constants, AlignUpBound, AlignDownBound
    <3>3. QED
      BY <3>2 DEF GetAvailableMemory
  <2>2. QED
    BY <1>5, <2>1, Constants DEF AllocatePlannerArena, GiveUp, ArenaCall
<1>6. CommitPlan \/ FinishFails \/ FreePlanningMemory \/ ResetPlanningTemps => ArenaCall \/ UNCHANGED vars
  BY DEF CommitPlan, FinishFails, FreePlanningMemory, ResetPlanningTemps, GiveUp, ArenaCall
<1>7. DeallocateRequests => ArenaCall
  BY SectionResizeIsCall DEF DeallocateRequests
<1>8. ReserveOverlay => ArenaCall \/ UNCHANGED vars
  BY AllocateResizableIsCall, Constants DEF ReserveOverlay, GiveUp, AllocationTypes
<1>9. AllocateInputsAndOutputs => ArenaCall \/ UNCHANGED vars
  BY Constants DEF AllocateInputsAndOutputs, GiveUp, ArenaCall
<1>10. QED
  BY <1>1, <1>2, <1>3, <1>4, <1>5, <1>6, <1>7, <1>8, <1>9 DEF FinishStep

LEMMA StepIsCall ==
  TypeOK /\ AllocationTypes /\ [AllocationNext]_<<vars, allocationVars>> => ArenaCall \/ UNCHANGED vars
<1> SUFFICES ASSUME TypeOK, AllocationTypes, AllocationNext PROVE ArenaCall \/ UNCHANGED vars
  OBVIOUS
<1>1. ASSUME NEW i \in Interpreters, AllocateTensors(i) \/ Invoke(i) PROVE UNCHANGED vars
  BY <1>1 DEF AllocateTensors, Invoke, StartModelAllocation, RefuseModelAllocation
<1>2. ASSUME NEW size \in KernelSizes, CreateResourceVariables(size) PROVE ArenaCall
  BY <1>2, Constants DEF CreateResourceVariables, ArenaCall
<1>3. InvokeEnds => ArenaCall \/ UNCHANGED vars
  BY DEF InvokeEnds, ArenaCall
<1>4. QED
  BY <1>1, <1>2, <1>3, StartIsCall, KernelIsCall, PrepareIsCall, FinishIsCall DEF AllocationNext

-----------------------------------------------------------------------------
LEMMA TypesStep ==
  ASSUME AllocationTypes, AllocationNext
  PROVE  AllocationTypes'
<1> USE DEF AllocationTypes, Goto, Continue, Return, allocatorVars
<1>1. ASSUME NEW i \in Interpreters, AllocateTensors(i) \/ Invoke(i)
      PROVE  AllocationTypes'
  <2>1. ASSUME NEW invoke, StartModelAllocation(i, invoke) PROVE AllocationTypes'
    BY <2>1 DEF StartModelAllocation, Stages, AllocatingStages
  <2>2. ASSUME RefuseModelAllocation(i) PROVE AllocationTypes'
    BY <2>2, KnowsFlag DEF RefuseModelAllocation
  <2>3. ASSUME interp[i].allocated, Invoke(i) PROVE AllocationTypes'
    BY <2>3 DEF Invoke, Stages
  <2>4. QED
    BY <1>1, <2>1, <2>2, <2>3 DEF AllocateTensors, Invoke
<1>2. ASSUME stage # "idle", GiveUp PROVE AllocationTypes'
  BY <1>2 DEF GiveUp, Stages
<1>3. ASSUME stage # "idle", StartFails, requests' \in Seq(Int) PROVE AllocationTypes'
  BY <1>3, KnowsFlag DEF StartFails, Stages
<1>4. StartStep => AllocationTypes'
  <2>0. \A S : <<>> \in Seq(S)
    OBVIOUS
  <2>1. AllocateBuiltinData => AllocationTypes'
    BY <1>3 DEF AllocateBuiltinData, Stages, AllocatingStages
  <2>2. InitScratchBufferData => AllocationTypes'
    BY <1>3, <2>0 DEF InitScratchBufferData, Stages, AllocatingStages
  <2>3. AllocateMetadata => AllocationTypes'
    BY <1>3, KnowsFlag DEF AllocateMetadata, Stages, AllocatingStages
  <2>4. QED
    BY <2>1, <2>2, <2>3 DEF StartStep
<1>5. KernelStep => AllocationTypes'
  <2>1. ASSUME NEW size, KernelPersistent(size) \/ KernelTemp(size) PROVE AllocationTypes'
    BY <2>1, KnowsFlag DEF KernelPersistent, KernelTemp
  <2>2. ASSUME NEW n, KernelFreesTemp(n) PROVE AllocationTypes'
    BY <2>2 DEF KernelFreesTemp, allocationVars
  <2>3. RequestScratchBufferInArena => AllocationTypes'
    BY DEF RequestScratchBufferInArena, Unassigned
  <2>4. KernelFails => AllocationTypes'
    BY <1>2 DEF KernelFails
  <2>5. QED
    BY <2>1, <2>2, <2>3, <2>4 DEF KernelStep
<1>6. PrepareStep => AllocationTypes'
  <2>1. InitSubgraphs => AllocationTypes'
    BY DEF InitSubgraphs, NextStage, Stages, AllocatingStages
  <2>2. ResetKernelTemps => AllocationTypes'
    BY <1>2 DEF ResetKernelTemps, Stages, AllocatingStages
  <2>3. ASSUME FinishPrepareNodeAllocations PROVE AllocationTypes'
    <3>1. requests' \in Seq(Int)
      <4>1. \A r \in DOMAIN requests : requests[r] \in Int
        OBVIOUS
      <4>2. DOMAIN requests = 1..Len(requests) /\ Len(requests) \in Nat
        OBVIOUS
      <4>3. requests' \in [1..Len(requests) -> Int]
        BY <2>3, <4>1, <4>2 DEF FinishPrepareNodeAllocations, AssignRequests
      <4>4. QED
        BY <4>2, <4>3 DEF Seq
    <3>2. QED
      BY <2>3, <3>1 DEF FinishPrepareNodeAllocations, NextStage, Stages, AllocatingStages
  <2>4. QED
    BY <2>1, <2>2, <2>3 DEF PrepareStep
<1>7. FinishStep => AllocationTypes'
  <2>1. AllocateScratchBufferHandles => AllocationTypes'
    BY <1>2 DEF AllocateScratchBufferHandles, Stages, AllocatingStages
  <2>2. AllocateSubgraphOffsets \/ AllocateInfo => AllocationTypes'
    BY <1>2 DEF AllocateSubgraphOffsets, AllocateInfo, Stages, AllocatingStages
  <2>3. ASSUME NEW v \in todo, AllocateVariable(v) PROVE AllocationTypes'
    BY <2>3, <1>2 DEF AllocateVariable
  <2>4. AllocatePlannerArena => AllocationTypes'
    BY <1>2 DEF AllocatePlannerArena, Stages, AllocatingStages
  <2>5. CommitPlan => AllocationTypes'
    <3>1. stage = "plan" => Model.plans \subseteq Nat
      BY Constants DEF Model
    <3>2. QED
      BY <3>1, <1>2, KnowsOverlay DEF CommitPlan, Stages, AllocatingStages
  <2>12. FinishFails => AllocationTypes'
    BY <1>2 DEF FinishFails
  <2>6. FreePlanningMemory => AllocationTypes'
    BY DEF FreePlanningMemory, allocationVars
  <2>7. ResetPlanningTemps => AllocationTypes'
    BY DEF ResetPlanningTemps, Stages, AllocatingStages
  <2>8. DeallocateRequests => AllocationTypes'
    BY DEF DeallocateRequests, Stages, AllocatingStages, InterpRecord
  <2>9. ReserveOverlay => AllocationTypes'
    BY <1>2, KnowsFlag DEF ReserveOverlay, Stages, AllocatingStages
  <2>10. AllocateInputsAndOutputs => AllocationTypes'
    BY <1>2, KnowsFlag DEF AllocateInputsAndOutputs, Stages, AllocatingStages
  <2>11. QED
    BY <2>1, <2>2, <2>3, <2>4, <2>5, <2>6, <2>7, <2>8, <2>9, <2>10, <2>12 DEF FinishStep
<1>8. ASSUME NEW size, CreateResourceVariables(size) PROVE AllocationTypes'
  BY <1>8 DEF CreateResourceVariables, allocationVars
<1>9. InvokeEnds => AllocationTypes'
  BY DEF InvokeEnds, Stages
<1>10. QED
  BY <1>1, <1>4, <1>5, <1>6, <1>7, <1>8, <1>9 DEF AllocationNext

LEMMA AllocatingStep ==
  ASSUME AllocationTypes, AllocatingIsStage, AllocationNext
  PROVE  AllocatingIsStage'
<1> USE DEF AllocatingIsStage, AllocatingStages, Goto, Continue, Return, allocatorVars
<1>1. ASSUME NEW i \in Interpreters, AllocateTensors(i) \/ Invoke(i)
      PROVE  AllocatingIsStage'
  BY <1>1 DEF AllocateTensors, Invoke, StartModelAllocation, RefuseModelAllocation
<1>2. GiveUp => AllocatingIsStage'
  BY DEF GiveUp
<1>3. StartStep => AllocatingIsStage'
  <2>1. AllocateBuiltinData => AllocatingIsStage'
    BY DEF AllocateBuiltinData, StartFails, Knows
  <2>2. InitScratchBufferData => AllocatingIsStage'
    BY DEF InitScratchBufferData, StartFails, Knows
  <2>3. AllocateMetadata => AllocatingIsStage'
    BY DEF AllocateMetadata, StartFails, Knows
  <2>4. QED
    BY <2>1, <2>2, <2>3 DEF StartStep
<1>4. KernelStep => AllocatingIsStage'
  <2>1. ASSUME NEW size, KernelPersistent(size) \/ KernelTemp(size) PROVE AllocatingIsStage'
    BY <2>1 DEF KernelPersistent, KernelTemp, Knows
  <2>2. ASSUME NEW n, KernelFreesTemp(n) PROVE AllocatingIsStage'
    BY <2>2 DEF KernelFreesTemp, allocationVars
  <2>3. RequestScratchBufferInArena \/ KernelFails => AllocatingIsStage'
    BY <1>2 DEF RequestScratchBufferInArena, KernelFails
  <2>4. QED
    BY <2>1, <2>2, <2>3 DEF KernelStep
<1>5. PrepareStep => AllocatingIsStage'
  BY <1>2 DEF PrepareStep, InitSubgraphs, ResetKernelTemps, FinishPrepareNodeAllocations, NextStage
<1>6. FinishStep => AllocatingIsStage'
  <2>1. AllocateScratchBufferHandles \/ AllocateSubgraphOffsets \/ AllocateInfo => AllocatingIsStage'
    BY <1>2 DEF AllocateScratchBufferHandles, AllocateSubgraphOffsets, AllocateInfo
  <2>2. ASSUME NEW v, AllocateVariable(v) PROVE AllocatingIsStage'
    <3>1. GiveUp \/ UNCHANGED <<stage, allocating>>
      BY <2>2 DEF AllocateVariable
    <3>2. QED
      BY <1>2, <3>1
  <2>3. AllocatePlannerArena \/ CommitPlan \/ FinishFails => AllocatingIsStage'
    BY <1>2 DEF AllocatePlannerArena, CommitPlan, FinishFails
  <2>4. FreePlanningMemory \/ ResetPlanningTemps \/ DeallocateRequests => AllocatingIsStage'
    BY DEF FreePlanningMemory, allocationVars, ResetPlanningTemps, DeallocateRequests
  <2>5. ReserveOverlay \/ AllocateInputsAndOutputs => AllocatingIsStage'
    BY <1>2 DEF ReserveOverlay, AllocateInputsAndOutputs
  <2>6. QED
    BY <2>1, <2>2, <2>3, <2>4, <2>5 DEF FinishStep
<1>7. ASSUME NEW size, CreateResourceVariables(size) PROVE AllocatingIsStage'
  BY <1>7 DEF CreateResourceVariables, allocationVars
<1>8. InvokeEnds => AllocatingIsStage'
  BY DEF InvokeEnds
<1>9. QED
  BY <1>1, <1>3, <1>4, <1>5, <1>6, <1>7, <1>8 DEF AllocationNext

-----------------------------------------------------------------------------
\* Where the chain of temporaries is clean, and how long it is while a plan is made.

\* The arena calls that leave the chain and the ends of the head section alone.
LEMMA PersistentKeepsChain ==
  ASSUME NEW size, NEW align, AllocatePersistentBuffer(size, align)
  PROVE  UNCHANGED <<chain, temp, head, section>>
BY DEF AllocatePersistentBuffer

LEMMA ChainStep ==
  ASSUME TypeOK, AllocatingIsStage, ChainIsClean, PlanningChain, AllocationNext
  PROVE  ChainIsClean' /\ PlanningChain'
<1> USE DEF ChainIsClean, PlanningChain, CleanStages, Goto, Continue, Return, allocatorVars, vars
<1> DEFINE Goal == ChainIsClean' /\ PlanningChain'
<1>0. /\ chain \in Seq(TempRecord)
      /\ AllocatingIsStage
  BY DEF TypeOK
<1>1. ASSUME NEW i \in Interpreters, AllocateTensors(i) \/ Invoke(i)
      PROVE  Goal
  BY <1>1 DEF AllocateTensors, Invoke, StartModelAllocation, RefuseModelAllocation
<1>2. StartStep => Goal
  BY <1>0, PersistentKeepsChain
     DEF StartStep, AllocateBuiltinData, InitScratchBufferData, AllocateMetadata, StartFails,
         AllocateResizableBuffer, ResizeBuffer, SectionFits, AllocatingIsStage, AllocatingStages
<1>3. ASSUME GiveUp, stage \in AllocatingStages \/ stage = "tensors" PROVE Goal
  BY <1>0, <1>3 DEF GiveUp, AllocatingIsStage
<1>4. KernelStep => Goal
  <2>1. ASSUME NEW size, KernelPersistent(size) PROVE Goal
    BY <2>1, PersistentKeepsChain DEF KernelPersistent
  <2>2. ASSUME NEW size, KernelTemp(size) PROVE Goal
    BY <2>2, <1>0 DEF KernelTemp, AllocatingIsStage, AllocatingStages
  <2>3. ASSUME NEW n, KernelFreesTemp(n) PROVE Goal
    BY <2>3, <1>0 DEF KernelFreesTemp, allocationVars, AllocatingIsStage, AllocatingStages
  <2>4. RequestScratchBufferInArena => Goal
    BY DEF RequestScratchBufferInArena
  <2>5. KernelFails => Goal
    BY <1>3 DEF KernelFails, AllocatingStages
  <2>6. QED
    BY <2>1, <2>2, <2>3, <2>4, <2>5 DEF KernelStep
<1>5. PrepareStep => Goal
  <2>1. InitSubgraphs => Goal
    BY DEF InitSubgraphs, NextStage
  <2>2. ResetKernelTemps => Goal
    BY <1>3 DEF ResetKernelTemps, ResetTempAllocations, AllocatingStages
  <2>3. FinishPrepareNodeAllocations => Goal
    BY <1>0 DEF FinishPrepareNodeAllocations, NextStage, ResizeBuffer, AllocatingIsStage, AllocatingStages
  <2>4. QED
    BY <2>1, <2>2, <2>3 DEF PrepareStep
<1>6. FinishStep => Goal
\* A temporary of the planning is taken: allocating stays set, and the chain is one longer.
  <2>0. ASSUME NEW size, NEW align, AllocateTemp(size, align),
               \/ stage = "offsets" /\ stage' = "info"
               \/ stage = "info" /\ stage' = "variables"
               \/ stage = "variables" /\ stage' = "plan",
               UNCHANGED allocating
        PROVE  Goal
    <3>1. Len(chain') = Len(chain) + 1
      BY <2>0, <1>0 DEF AllocateTemp
    <3>2. allocating'
      BY <2>0 DEF AllocatingIsStage, AllocatingStages
    <3>3. CASE stage = "offsets" /\ stage' = "info"
      <4>1. Len(chain) = 0
        BY <3>3
      <4>2. Len(chain') = 1
        BY <3>1, <4>1
      <4>3. ChainIsClean' /\ PlanningChain'
        BY <3>2, <3>3, <4>2
      <4>4. QED
        BY <4>3
    <3>4. CASE stage = "info" /\ stage' = "variables"
      <4>1. Len(chain) = 1
        BY <3>4
      <4>2. Len(chain') = 2
        BY <3>1, <4>1
      <4>3. ChainIsClean' /\ PlanningChain'
        BY <3>2, <3>4, <4>2
      <4>4. QED
        BY <4>3
    <3>5. CASE stage = "variables" /\ stage' = "plan"
      <4>1. Len(chain) = 2
        BY <3>5
      <4>2. Len(chain') = 3
        BY <3>1, <4>1
      <4>3. ChainIsClean' /\ PlanningChain'
        BY <3>2, <3>5, <4>2
      <4>4. QED
        BY <4>3
    <3>6. QED
      BY <2>0, <3>3, <3>4, <3>5
  <2>1. AllocateScratchBufferHandles => Goal
    BY <1>3, PersistentKeepsChain DEF AllocateScratchBufferHandles, AllocatingStages
  <2>2. AllocateSubgraphOffsets => Goal
    BY <1>3, <2>0 DEF AllocateSubgraphOffsets, AllocatingStages
  <2>3. AllocateInfo => Goal
    BY <1>3, <2>0 DEF AllocateInfo, AllocatingStages
  <2>4. ASSUME NEW v \in todo, AllocateVariable(v) PROVE Goal
    BY <2>4, <1>3, PersistentKeepsChain DEF AllocateVariable, AllocatingStages
  <2>5. AllocatePlannerArena => Goal
    BY <1>3, <2>0 DEF AllocatePlannerArena, AllocatingStages
  <2>6. CommitPlan \/ FinishFails => Goal
    BY <1>3 DEF CommitPlan, FinishFails, AllocatingStages
  <2>7. FreePlanningMemory => Goal
    BY <1>0 DEF FreePlanningMemory, allocationVars, DeallocateTemp, AllocatingIsStage, AllocatingStages
  <2>8. ResetPlanningTemps => Goal
    BY DEF ResetPlanningTemps, ResetTempAllocations
  <2>9. DeallocateRequests => Goal
    BY DEF DeallocateRequests, DeallocateResizableBuffer, ResizeBuffer
  <2>10. ReserveOverlay => Goal
    BY <1>3 DEF ReserveOverlay, ReserveNonPersistentOverlayMemory, ResizeBuffer, AllocatingStages
  <2>11. ASSUME AllocateInputsAndOutputs PROVE Goal
    <3>1. CASE GiveUp
      BY <1>3, <2>11, <3>1 DEF AllocateInputsAndOutputs
    <3>2. CASE ~GiveUp
      <4>1. /\ stage = "tensors" /\ stage' \in {"invoke", "idle"} /\ UNCHANGED allocating
            /\ UNCHANGED <<chain, temp, head>>
        BY <2>11, <3>2, PersistentKeepsChain DEF AllocateInputsAndOutputs
      <4>2. QED
        BY <4>1
    <3>3. QED
      BY <3>1, <3>2
  <2>12. QED
    BY <2>1, <2>2, <2>3, <2>4, <2>5, <2>6, <2>7, <2>8, <2>9, <2>10, <2>11 DEF FinishStep
<1>7. ASSUME NEW size, CreateResourceVariables(size) PROVE Goal
  BY <1>7, PersistentKeepsChain DEF CreateResourceVariables, allocationVars
<1>8. InvokeEnds => Goal
  BY DEF InvokeEnds, ResetTempAllocations
<1>9. QED
  BY <1>1, <1>2, <1>4, <1>5, <1>6, <1>7, <1>8 DEF AllocationNext

-----------------------------------------------------------------------------
\* The head section and the plans that lie in it.

LEMMA TempKeepsSection ==
  ASSUME \/ \E size, align : AllocateTemp(size, align)
         \/ \E i : DeallocateTemp(i)
         \/ ResetTempAllocations
  PROVE  UNCHANGED <<head, section>>
BY DEF AllocateTemp, DeallocateTemp, ResetTempAllocations

LEMMA ResizeMovesHead ==
  ASSUME NEW buf, NEW size, NEW align, ResizeBuffer(buf, size, align)
  PROVE  head' = buf + size /\ section'.start = buf /\ section'.size = size
BY DEF ResizeBuffer, Region

\* Only four calls move the section, and each of them puts it at buffer_head_.
LEMMA SectionStep ==
  ASSUME SectionAtHead, AllocationNext
  PROVE  /\ SectionAtHead'
         /\ \/ InitScratchBufferData \/ FinishPrepareNodeAllocations
            \/ DeallocateRequests \/ ReserveOverlay
            \/ UNCHANGED <<head, section>>
<1> USE DEF SectionAtHead
<1> DEFINE Same == UNCHANGED <<head, section>>
<1>1. UNCHANGED vars \/ GiveUp \/ StartFails => Same
  BY DEF vars, GiveUp, StartFails
<1>2. ASSUME NEW i \in Interpreters, AllocateTensors(i) \/ Invoke(i) PROVE Same
  BY <1>2 DEF AllocateTensors, Invoke, StartModelAllocation, RefuseModelAllocation, vars
<1>3. AllocateBuiltinData \/ AllocateMetadata => Same
  BY <1>1, PersistentKeepsChain DEF AllocateBuiltinData, AllocateMetadata
<1>4. InitScratchBufferData => SectionAtHead'
  BY <1>1, ResizeMovesHead, Constants DEF InitScratchBufferData, AllocateResizableBuffer
<1>5. KernelStep => Same
  <2>1. ASSUME NEW size, KernelPersistent(size) PROVE Same
    BY <1>1, <2>1, PersistentKeepsChain DEF KernelPersistent
  <2>2. ASSUME NEW size, KernelTemp(size) PROVE Same
    BY <1>1, <2>2, TempKeepsSection DEF KernelTemp
  <2>3. ASSUME NEW n, KernelFreesTemp(n) PROVE Same
    BY <2>3, TempKeepsSection DEF KernelFreesTemp
  <2>4. RequestScratchBufferInArena \/ KernelFails => Same
    BY <1>1 DEF RequestScratchBufferInArena, KernelFails, vars
  <2>5. QED
    BY <2>1, <2>2, <2>3, <2>4 DEF KernelStep
<1>6. InitSubgraphs \/ ResetKernelTemps => Same
  BY <1>1, TempKeepsSection DEF InitSubgraphs, ResetKernelTemps, vars
<1>7. FinishPrepareNodeAllocations => SectionAtHead'
  BY ResizeMovesHead DEF FinishPrepareNodeAllocations, vars
<1>8. AllocateScratchBufferHandles => Same
  BY <1>1, PersistentKeepsChain DEF AllocateScratchBufferHandles
<1>9. AllocateSubgraphOffsets \/ AllocateInfo \/ AllocatePlannerArena => Same
  BY <1>1, TempKeepsSection DEF AllocateSubgraphOffsets, AllocateInfo, AllocatePlannerArena
<1>10. ASSUME NEW v, AllocateVariable(v) PROVE Same
  BY <1>1, <1>10, PersistentKeepsChain DEF AllocateVariable, vars
<1>11. CommitPlan \/ FinishFails \/ FreePlanningMemory \/ ResetPlanningTemps => Same
  BY <1>1, TempKeepsSection DEF CommitPlan, FinishFails, FreePlanningMemory, ResetPlanningTemps, vars
<1>12. DeallocateRequests => SectionAtHead'
  BY ResizeMovesHead DEF DeallocateRequests, DeallocateResizableBuffer
<1>13. ReserveOverlay => SectionAtHead'
  BY <1>1, ResizeMovesHead, Constants DEF ReserveOverlay, ReserveNonPersistentOverlayMemory
<1>14. AllocateInputsAndOutputs => Same
  BY <1>1, PersistentKeepsChain DEF AllocateInputsAndOutputs
<1>15. ASSUME NEW size, CreateResourceVariables(size) PROVE Same
  BY <1>15, PersistentKeepsChain DEF CreateResourceVariables
<1>16. InvokeEnds => Same
  BY <1>1, TempKeepsSection DEF InvokeEnds
<1>17. QED
  BY <1>2, <1>3, <1>4, <1>5, <1>6, <1>7, <1>8, <1>9, <1>10, <1>11, <1>12, <1>13, <1>14, <1>15, <1>16
     DEF AllocationNext, StartStep, PrepareStep, FinishStep

\* What a step does to the plans, the other actions being those that touch neither.
LEMMA PlansUntouched ==
  ASSUME AllocationTypes, PlansInHead,
         UNCHANGED maxHead,
         ~allocating' => ~allocating /\ UNCHANGED head,
         \A i \in Interpreters : /\ interp'[i].overlay = interp[i].overlay
                                 /\ interp'[i].planned = interp[i].planned,
         Planning' => Planning /\ running' = running,
         stage' = "reserve" => stage = "reserve"
  PROVE  PlansInHead'
<1>1. \A i \in Interpreters : interp[i] \in InterpRecord
  BY DEF AllocationTypes
<1>2. /\ ~allocating' => head' = BufferHead + maxHead'
      /\ \A i \in Interpreters : /\ interp'[i].overlay.start = BufferHead
                                 /\ interp'[i].planned => interp'[i].overlay.size <= maxHead'
  BY DEF PlansInHead
<1>3. Planning => running \in Interpreters
  BY DEF Planning, AllocationTypes
<1>4. Planning' => ~interp'[running'].planned
  BY <1>3 DEF PlansInHead
<1>5. stage' = "reserve" => interp'[running'].overlay.size <= maxHead'
  <2>1. stage' = "reserve" => Planning'
    BY DEF Planning
  <2>2. QED
    BY <2>1, <1>3 DEF PlansInHead, Planning
<1>6. QED
  BY <1>2, <1>4, <1>5 DEF PlansInHead

LEMMA PlansStep ==
  ASSUME AllocationTypes, AllocatingIsStage, SectionAtHead, PlansInHead, AllocationNext
  PROVE  PlansInHead'
<1> USE DEF Goto, Continue, Return, allocatorVars, Planning
<1>0. /\ allocating \in BOOLEAN /\ maxHead \in Nat /\ interp \in [Interpreters -> InterpRecord]
      /\ stage # "idle" => running \in Interpreters
  BY DEF AllocationTypes
<1> DEFINE SamePlans == \A i \in Interpreters : /\ interp'[i].overlay = interp[i].overlay
                                                /\ interp'[i].planned = interp[i].planned
           Leaves == stage' \in {"idle", "builtin", "invoke", "tensors"} \/ UNCHANGED <<stage, running>>
\* A step that makes no plan, moves the head only while allocating and takes no step of the
\* planning.
<1>1. ASSUME UNCHANGED <<maxHead, allocating>>, SamePlans, Leaves, allocating \/ UNCHANGED head
      PROVE  PlansInHead'
  <2>1. Planning' => Planning /\ running' = running
    BY <1>1
  <2>2. stage' = "reserve" => stage = "reserve"
    BY <1>1
  <2> HIDE DEF Planning
  <2>3. QED
    BY <1>1, <2>1, <2>2, PlansUntouched
<1>2. ASSUME stage \in AllocatingStages PROVE allocating
  BY <1>2 DEF AllocatingIsStage
<1>3. interp' = interp => SamePlans
  OBVIOUS
<1>4. GiveUp \/ UNCHANGED vars => UNCHANGED head
  BY DEF GiveUp, vars
<1>5. GiveUp => PlansInHead'
  BY <1>1, <1>3, <1>4 DEF GiveUp
<1>6. ASSUME NEW i \in Interpreters, RefuseModelAllocation(i)
      PROVE  PlansInHead'
  <2>1. Knows(i, "initialized", FALSE) /\ UNCHANGED <<maxHead, allocating, stage, running>> /\ allocating
    BY <1>6 DEF RefuseModelAllocation
  <2>2. SamePlans
    BY <2>1, KnowsFlag
  <2>3. QED
    BY <1>1, <2>1, <2>2
<1>7. ASSUME NEW i \in Interpreters, NEW invoke, StartModelAllocation(i, invoke)
      PROVE  PlansInHead'
  <2>1. allocating' /\ UNCHANGED <<maxHead, interp>> /\ stage' = "builtin"
    BY <1>7 DEF StartModelAllocation
  <2>2. ~Planning' /\ stage' # "reserve"
    BY <2>1
  <2> HIDE DEF Planning
  <2>3. QED
    BY <2>1, <2>2 DEF PlansInHead
<1>8. ASSUME NEW i \in Interpreters, Invoke(i), interp[i].allocated
      PROVE  PlansInHead'
  BY <1>1, <1>3, <1>4, <1>8 DEF Invoke
<1>9. ASSUME NEW i \in Interpreters, AllocateTensors(i) \/ Invoke(i)
      PROVE  PlansInHead'
  BY <1>6, <1>7, <1>8, <1>9 DEF AllocateTensors, Invoke
<1>10. ASSUME stage \in AllocatingStages, StartFails PROVE PlansInHead'
  <2>1. Knows(running, "initialized", FALSE) /\ UNCHANGED <<maxHead, allocating>> /\ stage' = "idle"
    BY <1>10 DEF StartFails
  <2>2. running \in Interpreters
    BY <1>0, <1>10 DEF AllocatingStages
  <2>3. SamePlans
    BY <2>1, <2>2, KnowsFlag
  <2>4. QED
    BY <1>1, <1>2, <1>10, <2>1, <2>3
<1>11. AllocateBuiltinData => PlansInHead'
  <2>1. ASSUME stage = "builtin", stage' = "scratch", UNCHANGED <<allocating, maxHead, interp>>
        PROVE  PlansInHead'
    <3>1. allocating' /\ ~Planning' /\ stage' # "reserve"
      BY <2>1, <1>2 DEF AllocatingStages
    <3> HIDE DEF Planning
    <3>2. QED
      BY <2>1, <3>1 DEF PlansInHead
  <2>2. QED
    BY <2>1, <1>10 DEF AllocateBuiltinData, AllocatingStages
<1>12. InitScratchBufferData => PlansInHead'
  <2>1. ASSUME stage = "scratch", stage' = "metadata", UNCHANGED <<allocating, maxHead, interp>>
        PROVE  PlansInHead'
    <3>1. allocating' /\ ~Planning' /\ stage' # "reserve"
      BY <2>1, <1>2 DEF AllocatingStages
    <3> HIDE DEF Planning
    <3>2. QED
      BY <2>1, <3>1 DEF PlansInHead
  <2>2. QED
    BY <2>1, <1>10 DEF InitScratchBufferData, AllocatingStages
<1>13. AllocateMetadata => PlansInHead'
  <2>1. ASSUME stage = "metadata", stage' = "init", Knows(running, "planned", FALSE),
               UNCHANGED <<running, allocating, maxHead>>
        PROVE  PlansInHead'
    <3>1. allocating' /\ running \in Interpreters
      BY <2>1, <1>0, <1>2 DEF AllocatingStages
    <3>2. /\ ~interp'[running].planned
          /\ \A i \in Interpreters : /\ interp'[i].overlay = interp[i].overlay
                                     /\ interp'[i].planned => interp[i].planned
      BY <2>1, <3>1, KnowsFlag
    <3>3. QED
      BY <2>1, <3>1, <3>2 DEF PlansInHead
  <2>2. QED
    BY <2>1, <1>10 DEF AllocateMetadata, AllocatingStages
\* The steps of the planning that only go on to the next stage of it.
<1>14. ASSUME stage \in AllocatingStages, Planning, stage # "reserve", stage' \in AllocatingStages,
              stage' # "reserve", UNCHANGED <<running, maxHead, allocating, interp>>
       PROVE  PlansInHead'
  <2>1. allocating'
    BY <1>2, <1>14
  <2> HIDE DEF Planning
  <2>2. QED
    BY <1>14, <2>1, PlansUntouched
<1>15. KernelStep => PlansInHead'
  <2>1. ASSUME NEW size, KernelPersistent(size) \/ KernelTemp(size) PROVE PlansInHead'
    <3>1. stage \in {"init", "prepare"} /\ UNCHANGED <<running, stage, maxHead, allocating>>
      BY <2>1 DEF KernelPersistent, KernelTemp
    <3>2. UNCHANGED interp \/ Knows(running, "arenaFailed", TRUE)
      BY <2>1 DEF KernelPersistent, KernelTemp
    <3>3. running \in Interpreters /\ allocating
      BY <3>1, <1>0, <1>2 DEF AllocatingStages
    <3>4. SamePlans
      BY <3>2, <3>3, KnowsFlag
    <3>5. QED
      BY <1>1, <3>1, <3>3, <3>4
  <2>2. ASSUME NEW n, KernelFreesTemp(n) PROVE PlansInHead'
    BY <2>2, <1>1, <1>3, TempKeepsSection DEF KernelFreesTemp, allocationVars
  <2>3. RequestScratchBufferInArena \/ KernelFails => PlansInHead'
    BY <1>1, <1>3, <1>4, <1>5 DEF RequestScratchBufferInArena, KernelFails
  <2>4. QED
    BY <2>1, <2>2, <2>3 DEF KernelStep
<1>16. PrepareStep => PlansInHead'
  <2>1. InitSubgraphs => PlansInHead'
    BY <1>14 DEF InitSubgraphs, NextStage, AllocatingStages
  <2>2. ResetKernelTemps => PlansInHead'
    BY <1>5, <1>14 DEF ResetKernelTemps, AllocatingStages
  <2>3. FinishPrepareNodeAllocations => PlansInHead'
    <3>1. ASSUME FinishPrepareNodeAllocations, stage' = "idle" PROVE PlansInHead'
      BY <3>1, <1>1, <1>2, <1>3 DEF FinishPrepareNodeAllocations, AllocatingStages, NextStage
    <3>2. ASSUME FinishPrepareNodeAllocations, stage' # "idle" PROVE PlansInHead'
      BY <3>2, <1>14 DEF FinishPrepareNodeAllocations, AllocatingStages, NextStage
    <3>3. QED
      BY <3>1, <3>2
  <2>4. QED
    BY <2>1, <2>2, <2>3 DEF PrepareStep
<1>17. FinishStep => PlansInHead'
  <2>1. AllocateScratchBufferHandles \/ AllocateSubgraphOffsets \/ AllocateInfo => PlansInHead'
    BY <1>5, <1>14 DEF AllocateScratchBufferHandles, AllocateSubgraphOffsets, AllocateInfo, AllocatingStages
  <2>2. ASSUME NEW v, AllocateVariable(v) PROVE PlansInHead'
    <3>1. GiveUp \/ (stage = "variables" /\ UNCHANGED <<running, stage, maxHead, allocating, interp>>)
      BY <2>2 DEF AllocateVariable
    <3>2. QED
      BY <1>5, <1>14, <3>1 DEF AllocatingStages
  <2>3. AllocatePlannerArena => PlansInHead'
    BY <1>5, <1>14 DEF AllocatePlannerArena, AllocatingStages
  <2>4. CommitPlan => PlansInHead'
    <3>1. ASSUME NEW plan \in Model.plans, stage = "plan", stage' = "free",
                 Knows(running, "overlay", Region(BufferHead, plan)),
                 UNCHANGED <<running, allocating, maxHead>>
          PROVE  PlansInHead'
      <4>1. allocating' /\ running \in Interpreters /\ ~interp[running].planned
        BY <3>1, <1>0, <1>2 DEF AllocatingStages, PlansInHead
      <4>2. plan \in Nat
        BY <3>1, <4>1, Constants DEF Model
      <4>3. \A i \in Interpreters : /\ interp'[i].planned = interp[i].planned
                                    /\ i # running => interp'[i].overlay = interp[i].overlay
        BY <3>1, <4>1, <4>2, KnowsOverlay
      <4>4. interp'[running].overlay.start = BufferHead
        BY <3>1, <4>1, <4>2, KnowsOverlay DEF Region
      <4>5. QED
        BY <3>1, <4>1, <4>3, <4>4 DEF PlansInHead
    <3>2. QED
      BY <3>1, <1>5 DEF CommitPlan
  <2>11. FinishFails => PlansInHead'
    BY <1>5 DEF FinishFails
  <2>5. FreePlanningMemory => PlansInHead'
    BY <1>14 DEF FreePlanningMemory, allocationVars, AllocatingStages
  <2>6. ResetPlanningTemps => PlansInHead'
    BY <1>14 DEF ResetPlanningTemps, AllocatingStages
  <2>7. ASSUME DeallocateRequests PROVE PlansInHead'
    <3>1. /\ stage = "deallocate" /\ stage' = "reserve" /\ UNCHANGED <<running, allocating, interp>>
          /\ maxHead' = IF maxHead < interp[running].overlay.size
                        THEN interp[running].overlay.size ELSE maxHead
      BY <2>7 DEF DeallocateRequests
    <3>2. allocating' /\ running \in Interpreters
      BY <3>1, <1>0, <1>2 DEF AllocatingStages
    <3>3. \A i \in Interpreters : interp[i].overlay.size \in Nat
      BY <1>0 DEF InterpRecord
    <3>4. maxHead' >= maxHead /\ maxHead' >= interp[running].overlay.size
      BY <1>0, <3>1, <3>2, <3>3
    <3>5. maxHead' \in Nat
      BY <1>0, <3>1, <3>2, <3>3
    <3>6. QED
      BY <1>0, <3>1, <3>2, <3>3, <3>4, <3>5 DEF PlansInHead
  <2>8. ReserveOverlay => PlansInHead'
    <3>1. ASSUME stage = "reserve", stage' = "tensors", ~allocating', UNCHANGED <<running, maxHead>>,
                 Knows(running, "planned", TRUE),
                 ReserveNonPersistentOverlayMemory(maxHead, ArenaAlign)
          PROVE  PlansInHead'
      <4>1. head' = BufferHead + maxHead
        BY <3>1, ResizeMovesHead, Constants DEF ReserveNonPersistentOverlayMemory
      <4>2. running \in Interpreters
        BY <1>0, <3>1
      <4>3. /\ interp'[running].planned
            /\ \A i \in Interpreters : /\ interp'[i].overlay = interp[i].overlay
                                       /\ i # running => interp'[i].planned = interp[i].planned
        BY <3>1, <4>2, KnowsFlag
      <4>4. QED
        BY <3>1, <4>1, <4>2, <4>3 DEF PlansInHead
    <3>2. QED
      BY <3>1, <1>5 DEF ReserveOverlay
  <2>9. ASSUME AllocateInputsAndOutputs PROVE PlansInHead'
    <3>1. ASSUME ~GiveUp PROVE PlansInHead'
      <4>1. /\ stage = "tensors" /\ stage' \in {"idle", "invoke"} /\ UNCHANGED <<allocating, maxHead>>
            /\ Knows(running, "allocated", TRUE) \/ UNCHANGED interp
            /\ UNCHANGED head
        BY <2>9, <3>1, PersistentKeepsChain DEF AllocateInputsAndOutputs
      <4>2. SamePlans
        BY <4>1, <1>0, <1>3, KnowsFlag
      <4>3. QED
        BY <1>1, <4>1, <4>2
    <3>2. QED
      BY <1>5, <3>1
  <2>10. QED
    BY <2>1, <2>2, <2>3, <2>4, <2>5, <2>6, <2>7, <2>8, <2>9, <2>11 DEF FinishStep
<1>18. ASSUME NEW size, CreateResourceVariables(size) PROVE PlansInHead'
  BY <1>1, <1>3, <1>18, PersistentKeepsChain DEF CreateResourceVariables, allocationVars
<1>19. InvokeEnds => PlansInHead'
  BY <1>1, <1>3, <1>4, TempKeepsSection DEF InvokeEnds
<1>20. QED
  BY <1>9, <1>11, <1>12, <1>13, <1>15, <1>16, <1>17, <1>18, <1>19 DEF AllocationNext, StartStep

-----------------------------------------------------------------------------
\* The scratch buffer requests and the section they live in.

LEMMA MoreBytes ==
  ASSUME NEW a \in Nat, NEW b \in Nat, NEW c \in Nat, b <= c
  PROVE  a * b <= a * c
<1>1. PICK d \in Nat : c = b + d
  BY c - b \in Nat
<1>2. a * c = a * b + a * d /\ a * d \in Nat /\ a * b \in Nat
  BY <1>1
<1>3. QED
  BY <1>2

LEMMA CurrentAreRequests ==
  ASSUME AllocationTypes
  PROVE  /\ Len(requests) \in Nat /\ DOMAIN requests = 1..Len(requests)
         /\ IsFiniteSet(CurrentNodeRequests)
         /\ Cardinality(CurrentNodeRequests) \in 0..Len(requests)
<1>1. Len(requests) \in Nat /\ DOMAIN requests = 1..Len(requests)
  BY DEF AllocationTypes
<1>2. IsFiniteSet(1..Len(requests)) /\ Cardinality(1..Len(requests)) = Len(requests)
  <2>1. IsFiniteSet(1..Len(requests))
    BY <1>1, FS_Interval
  <2>2. Cardinality(1..Len(requests)) = IF 1 > Len(requests) THEN 0 ELSE Len(requests) - 1 + 1
    BY <1>1, FS_Interval
  <2>3. QED
    BY <1>1, <2>1, <2>2
<1>3. CurrentNodeRequests \subseteq 1..Len(requests)
  BY <1>1 DEF CurrentNodeRequests
<1>4. /\ IsFiniteSet(CurrentNodeRequests)
      /\ Cardinality(CurrentNodeRequests) <= Len(requests)
  BY <1>2, <1>3, FS_Subset
<1>5. Cardinality(CurrentNodeRequests) \in Nat
  BY <1>4, FS_CardinalityType
<1>6. QED
  BY <1>1, <1>4, <1>5

LEMMA RequestsUntouched ==
  ASSUME RequestsInSection, UNCHANGED <<requests, section>>,
         stage' \in {"metadata", "init"} => stage \in {"metadata", "init"},
         stage' = "prepare" => stage = "prepare",
         stage' \in {"handles", "offsets"} => stage \in {"handles", "offsets"},
         Preparing' => Preparing
  PROVE  RequestsInSection'
<1>1. CurrentNodeRequests' = CurrentNodeRequests
  BY DEF CurrentNodeRequests
<1>2. RequestsFit'
  BY <1>1 DEF RequestsInSection, RequestsFit
<1>3. QED
  BY <1>1, <1>2 DEF RequestsInSection

\* Where no operator has requests of its own, the section needs room for the operators before
\* and for one more.
LEMMA NoneOpen ==
  ASSUME AllocationTypes', CurrentNodeRequests' = {}, stage' \in {"prepare", "handles"},
         section'.size = RequestSize * (kMaxScratchBuffersPerOp + Len(requests'))
  PROVE  RequestsInSection'
<1>1. Len(requests') \in Nat
  BY DEF AllocationTypes
<1>2. Cardinality(CurrentNodeRequests') = 0
  BY FS_EmptySet
<1>3. RequestSize * Len(requests') <= section'.size
  BY <1>1, Constants, MoreBytes
<1>4. kMaxScratchBuffersPerOp + Len(requests') - 0 = kMaxScratchBuffersPerOp + Len(requests')
  BY <1>1, Constants
<1>5. section'.size >= RequestSize * (kMaxScratchBuffersPerOp + Len(requests'))
  BY <1>1, Constants, Product
<1>6. RequestsFit'
  BY <1>2, <1>3, <1>4, <1>5 DEF RequestsFit
<1>7. QED
  BY <1>2, <1>6, Constants DEF RequestsInSection

LEMMA OneMoreRequest ==
  ASSUME TypeOK, AllocationTypes, AllocationTypes', RequestsInSection, RequestScratchBufferInArena,
         UNCHANGED section
  PROVE  RequestsInSection'
<1> DEFINE open == Cardinality(CurrentNodeRequests)
           n == Len(requests)
<1>1. /\ stage = "prepare" /\ stage' = "prepare" /\ open < kMaxScratchBuffersPerOp
      /\ requests' = Append(requests, Unassigned)
  BY DEF RequestScratchBufferInArena
<1>2. n \in Nat /\ open \in 0..n /\ DOMAIN requests = 1..n
  BY CurrentAreRequests
<1>3. /\ Len(requests') = n + 1 /\ DOMAIN requests' = 1..(n + 1)
      /\ \A r \in 1..n : requests'[r] = requests[r]
      /\ requests'[n + 1] = Unassigned
  BY <1>1, <1>2 DEF AllocationTypes, Unassigned
<1>4. CurrentNodeRequests' = CurrentNodeRequests \union {n + 1}
  BY <1>2, <1>3 DEF CurrentNodeRequests
<1>5. n + 1 \notin CurrentNodeRequests
  BY <1>2 DEF CurrentNodeRequests
<1>6. Cardinality(CurrentNodeRequests') = open + 1
  BY <1>4, <1>5, CurrentAreRequests, FS_AddElement
<1>7. section.size >= RequestSize * (kMaxScratchBuffersPerOp + n - open)
  BY <1>1 DEF RequestsInSection, RequestsFit, Preparing
<1>8. kMaxScratchBuffersPerOp + (n + 1) - (open + 1) = kMaxScratchBuffersPerOp + n - open
  BY <1>2, Constants
<1>9. section.size >= RequestSize * (n + 1)
  <2> DEFINE room == kMaxScratchBuffersPerOp + n - open
  <2>1. room \in Nat /\ n + 1 <= room /\ n + 1 \in Nat
    BY <1>1, <1>2, Constants
  <2>2. RequestSize * (n + 1) <= RequestSize * room
    BY <2>1, Constants, MoreBytes
  <2>3. RequestSize * (n + 1) \in Nat /\ RequestSize * room \in Nat
    BY <2>1, Constants, Product
  <2>4. section.size \in Int
    BY DEF TypeOK
  <2>5. QED
    BY <1>7, <2>2, <2>3, <2>4
<1>10. RequestsFit'
  BY <1>1, <1>3, <1>6, <1>7, <1>8, <1>9 DEF RequestsFit
<1>11. open + 1 <= kMaxScratchBuffersPerOp
  BY <1>1, <1>2, Constants
<1>12. QED
  BY <1>1, <1>6, <1>10, <1>11 DEF RequestsInSection

LEMMA RequestsStep ==
  ASSUME TypeOK, AllocationTypes, AllocationTypes', RequestsInSection, AllocationNext
  PROVE  RequestsInSection'
<1> USE DEF Goto, Continue, Return, allocatorVars
<1> DEFINE Elsewhere == stage' \in {"idle", "builtin", "scratch", "reserve", "tensors", "invoke"}
\* A step that leaves the requests and the section alone, and opens no operator.
<1>1. ASSUME UNCHANGED <<requests, section>>, ~Elsewhere => stage' = stage PROVE RequestsInSection'
  BY <1>1, RequestsUntouched DEF Preparing
<1>2. ASSUME Elsewhere PROVE RequestsInSection'
  BY <1>2 DEF RequestsInSection, RequestsFit, Preparing
<1>3. ASSUME UNCHANGED <<requests, section>>,
             \/ stage = "metadata" /\ stage' = "init"
             \/ stage = "prepare" /\ stage' = "resize"
             \/ stage = "handles" /\ stage' = "offsets"
             \/ stage = "offsets" /\ stage' = "info"
             \/ stage = "info" /\ stage' = "variables"
             \/ stage = "variables" /\ stage' = "plan"
             \/ stage = "plan" /\ stage' = "free"
             \/ stage = "free" /\ stage' = "deallocate"
      PROVE  RequestsInSection'
  BY <1>3, RequestsUntouched DEF Preparing
<1>5. GiveUp \/ StartFails => Elsewhere
  BY DEF GiveUp, StartFails
<1>6. ASSUME NEW i \in Interpreters, AllocateTensors(i) \/ Invoke(i) PROVE RequestsInSection'
  <2>1. UNCHANGED <<requests, section>> /\ (~Elsewhere => stage' = stage)
    BY <1>6 DEF AllocateTensors, Invoke, StartModelAllocation, RefuseModelAllocation, vars
  <2>2. QED
    BY <1>1, <2>1
<1>7. AllocateBuiltinData => RequestsInSection'
  BY <1>2, <1>5 DEF AllocateBuiltinData
<1>8. ASSUME InitScratchBufferData PROVE RequestsInSection'
  <2>1. ASSUME stage' = "metadata", requests' = <<>>,
               AllocateResizableBuffer(RequestSize * kMaxScratchBuffersPerOp, StructAlign)
        PROVE  RequestsInSection'
    <3>1. section'.size = RequestSize * kMaxScratchBuffersPerOp
      BY <2>1, ResizeMovesHead DEF AllocateResizableBuffer
    <3>2. QED
      BY <2>1, <3>1 DEF RequestsInSection, RequestsFit, Preparing
  <2>2. QED
    BY <1>2, <1>5, <1>8, <2>1 DEF InitScratchBufferData
<1>9. ASSUME AllocateMetadata PROVE RequestsInSection'
  <2>1. StartFails \/ (UNCHANGED <<requests, section>> /\ stage = "metadata" /\ stage' = "init")
    BY <1>9, PersistentKeepsChain DEF AllocateMetadata
  <2>2. QED
    BY <1>2, <1>3, <1>5, <2>1
<1>10. KernelStep => RequestsInSection'
  <2>1. ASSUME NEW size, KernelPersistent(size) \/ KernelTemp(size) PROVE RequestsInSection'
    <3>1. UNCHANGED <<stage, requests>>
      BY <2>1 DEF KernelPersistent, KernelTemp
    <3>2. UNCHANGED section
      BY <2>1, PersistentKeepsChain, TempKeepsSection DEF KernelPersistent, KernelTemp, vars
    <3>3. QED
      BY <1>1, <3>1, <3>2
  <2>2. ASSUME NEW n, KernelFreesTemp(n) PROVE RequestsInSection'
    BY <2>2, <1>1, TempKeepsSection DEF KernelFreesTemp, allocationVars
  <2>3. RequestScratchBufferInArena => RequestsInSection'
    BY OneMoreRequest DEF RequestScratchBufferInArena, vars
  <2>4. KernelFails => RequestsInSection'
    BY <1>2, <1>5 DEF KernelFails
  <2>5. QED
    BY <2>1, <2>2, <2>3, <2>4 DEF KernelStep
<1>11. ASSUME InitSubgraphs PROVE RequestsInSection'
  <2>1. /\ stage = "init" /\ stage' \in {"prepare", "handles"}
        /\ UNCHANGED <<requests, section>>
    BY <1>11 DEF InitSubgraphs, NextStage, vars
  <2>2. requests' = <<>> /\ section'.size = RequestSize * kMaxScratchBuffersPerOp
    BY <2>1 DEF RequestsInSection
  <2>3. CurrentNodeRequests' = {} /\ Len(requests') = 0
    BY <2>2 DEF CurrentNodeRequests
  <2>4. kMaxScratchBuffersPerOp + Len(requests') = kMaxScratchBuffersPerOp
    BY <2>3, Constants
  <2>5. QED
    BY <2>1, <2>2, <2>3, <2>4, NoneOpen
<1>12. ASSUME ResetKernelTemps PROVE RequestsInSection'
  <2>1. GiveUp \/ (UNCHANGED <<requests, section>> /\ stage = "prepare" /\ stage' = "resize")
    BY <1>12, TempKeepsSection DEF ResetKernelTemps
  <2>2. QED
    BY <1>2, <1>3, <1>5, <2>1
<1>13. ASSUME FinishPrepareNodeAllocations PROVE RequestsInSection'
  <2>1. Len(requests) \in Nat /\ DOMAIN requests = 1..Len(requests) /\ operator \in Nat
    BY CurrentAreRequests DEF AllocationTypes
  <2>2. requests' = [r \in DOMAIN requests |-> IF requests[r] = Unassigned THEN operator ELSE requests[r]]
    BY <1>13 DEF FinishPrepareNodeAllocations, AssignRequests
  <2>3. CurrentNodeRequests' = {}
    BY <2>1, <2>2 DEF CurrentNodeRequests, Unassigned
  <2>4. Len(requests') = Len(requests)
    <3>1. requests' \in Seq(Int) /\ DOMAIN requests' = 1..Len(requests)
      BY <2>1, <2>2 DEF AllocationTypes
    <3>2. QED
      BY <2>1, <3>1
  <2>5. Elsewhere \/ /\ stage' \in {"prepare", "handles"}
                     /\ section'.size = RequestSize * (Len(requests) + kMaxScratchBuffersPerOp)
    BY <1>13, ResizeMovesHead DEF FinishPrepareNodeAllocations, NextStage
  <2>6. Len(requests) + kMaxScratchBuffersPerOp = kMaxScratchBuffersPerOp + Len(requests')
    BY <2>1, <2>4, Constants
  <2>7. QED
    BY <1>2, <2>3, <2>5, <2>6, NoneOpen
<1>14. ASSUME AllocateScratchBufferHandles PROVE RequestsInSection'
  <2>1. GiveUp \/ (UNCHANGED <<requests, section>> /\ stage = "handles" /\ stage' = "offsets")
    BY <1>14, PersistentKeepsChain DEF AllocateScratchBufferHandles, vars
  <2>2. QED
    BY <1>2, <1>3, <1>5, <2>1
<1>15. ASSUME AllocateSubgraphOffsets \/ AllocateInfo \/ AllocatePlannerArena PROVE RequestsInSection'
  <2>1. \/ GiveUp
        \/ /\ UNCHANGED <<requests, section>>
           /\ \/ stage = "offsets" /\ stage' = "info"
              \/ stage = "info" /\ stage' = "variables"
              \/ stage = "variables" /\ stage' = "plan"
    BY <1>15, TempKeepsSection DEF AllocateSubgraphOffsets, AllocateInfo, AllocatePlannerArena
  <2>2. QED
    BY <1>2, <1>3, <1>5, <2>1
<1>16. ASSUME NEW v, AllocateVariable(v) PROVE RequestsInSection'
  <2>1. GiveUp \/ UNCHANGED <<requests, section, stage>>
    BY <1>16, PersistentKeepsChain DEF AllocateVariable, vars
  <2>2. QED
    BY <1>1, <1>2, <1>5, <2>1
<1>17. ASSUME CommitPlan \/ FinishFails \/ ResetPlanningTemps PROVE RequestsInSection'
  <2>1. \/ GiveUp
        \/ /\ UNCHANGED <<requests, section>>
           /\ \/ stage = "plan" /\ stage' = "free"
              \/ stage = "free" /\ stage' = "deallocate"
    BY <1>17, TempKeepsSection DEF CommitPlan, FinishFails, ResetPlanningTemps, vars
  <2>2. QED
    BY <1>2, <1>3, <1>5, <2>1
<1>18. FreePlanningMemory => RequestsInSection'
  BY <1>1, TempKeepsSection DEF FreePlanningMemory, allocationVars
<1>19. DeallocateRequests \/ ReserveOverlay \/ AllocateInputsAndOutputs => Elsewhere
  BY <1>5 DEF DeallocateRequests, ReserveOverlay, AllocateInputsAndOutputs
<1>20. ASSUME NEW size, CreateResourceVariables(size) PROVE RequestsInSection'
  BY <1>1, <1>20, PersistentKeepsChain DEF CreateResourceVariables, allocationVars
<1>21. InvokeEnds => Elsewhere
  BY DEF InvokeEnds
<1>22. QED
  BY <1>2, <1>6, <1>7, <1>8, <1>9, <1>10, <1>11, <1>12, <1>13, <1>14, <1>15, <1>16, <1>17, <1>18,
     <1>19, <1>20, <1>21
     DEF AllocationNext, StartStep, PrepareStep, FinishStep

-----------------------------------------------------------------------------
\* What the interpreters know of their graphs.

LEMMA GraphsUntouched ==
  ASSUME GraphsFinished, UNCHANGED allocating,
         \A i \in Interpreters : /\ interp'[i].allocated = interp[i].allocated
                                 /\ interp'[i].planned = interp[i].planned,
         \/ stage' \in {"idle", "invoke"}
         \/ UNCHANGED <<stage, running>>
         \/ UNCHANGED running /\ stage \in AllocatingStages /\ stage' \in AllocatingStages,
         stage # "idle" => running \in Interpreters
  PROVE  GraphsFinished'
<1>1. UnplannedOnlyHalfWay'
  BY DEF GraphsFinished, UnplannedOnlyHalfWay
<1>2. CASE stage' \in {"idle", "invoke"}
  BY <1>1, <1>2 DEF GraphsFinished, AllocatingStages
<1>3. CASE stage' # "idle" /\ UNCHANGED <<stage, running>>
  BY <1>1, <1>3 DEF GraphsFinished
<1>4. CASE UNCHANGED running /\ stage \in AllocatingStages /\ stage' \in AllocatingStages
  BY <1>1, <1>4 DEF GraphsFinished, AllocatingStages
<1>5. QED
  BY <1>2, <1>3, <1>4

LEMMA GraphsStep ==
  ASSUME AllocationTypes, AllocatingIsStage, GraphsFinished, AllocationNext
  PROVE  GraphsFinished'
<1> USE DEF Goto, Continue, Return, allocatorVars
<1> DEFINE SameGraphs == \A i \in Interpreters : /\ interp'[i].allocated = interp[i].allocated
                                                 /\ interp'[i].planned = interp[i].planned
           Goes == \/ stage' \in {"idle", "invoke"}
                   \/ UNCHANGED <<stage, running>>
                   \/ UNCHANGED running /\ stage \in AllocatingStages /\ stage' \in AllocatingStages
<1>0. /\ stage # "idle" => running \in Interpreters
      /\ interp \in [Interpreters -> InterpRecord]
  BY DEF AllocationTypes
<1>1. ASSUME UNCHANGED allocating, SameGraphs, Goes PROVE GraphsFinished'
  BY <1>0, <1>1, GraphsUntouched
<1>2. interp' = interp => SameGraphs
  OBVIOUS
<1>3. GiveUp => GraphsFinished'
  BY <1>1, <1>2 DEF GiveUp
<1>4. ASSUME stage # "idle", StartFails PROVE GraphsFinished'
  <2>1. SameGraphs
    BY <1>0, <1>4, KnowsFlag DEF StartFails
  <2>2. QED
    BY <1>1, <1>4, <2>1 DEF StartFails
<1>5. ASSUME NEW i \in Interpreters, RefuseModelAllocation(i) PROVE GraphsFinished'
  <2>1. SameGraphs
    BY <1>0, <1>5, KnowsFlag DEF RefuseModelAllocation
  <2>2. QED
    BY <1>1, <1>5, <2>1 DEF RefuseModelAllocation
<1>6. ASSUME NEW i \in Interpreters, NEW invoke, StartModelAllocation(i, invoke) PROVE GraphsFinished'
  BY <1>6 DEF StartModelAllocation, GraphsFinished, UnplannedOnlyHalfWay
<1>7. ASSUME NEW i \in Interpreters, AllocateTensors(i) \/ Invoke(i) PROVE GraphsFinished'
  <2>1. CASE interp[i].allocated /\ Invoke(i)
    BY <1>1, <1>2, <1>5, <1>6, <2>1 DEF Invoke
  <2>2. CASE ~(interp[i].allocated /\ Invoke(i))
    BY <1>5, <1>6, <1>7, <2>2 DEF AllocateTensors, Invoke
  <2>3. QED
    BY <2>1, <2>2
<1>8. AllocateBuiltinData => GraphsFinished'
  BY <1>1, <1>2, <1>4 DEF AllocateBuiltinData, AllocatingStages
<1>9. InitScratchBufferData => GraphsFinished'
  BY <1>1, <1>2, <1>4 DEF InitScratchBufferData, AllocatingStages
<1>10. AllocateMetadata => GraphsFinished'
  <2>1. ASSUME stage = "metadata", stage' = "init", UNCHANGED <<running, allocating>>,
               Knows(running, "planned", FALSE)
        PROVE  GraphsFinished'
    <3>1. running \in Interpreters /\ allocating'
      BY <1>0, <2>1 DEF AllocatingIsStage, AllocatingStages
    <3>2. \A j \in Interpreters : /\ interp'[j].allocated = interp[j].allocated
                                  /\ j # running => interp'[j].planned = interp[j].planned
      BY <1>0, <2>1, <3>1, KnowsFlag
    <3>3. QED
      BY <2>1, <3>1, <3>2 DEF GraphsFinished, UnplannedOnlyHalfWay, AllocatingStages
  <2>2. QED
    BY <1>4, <2>1 DEF AllocateMetadata
<1>11. KernelStep => GraphsFinished'
  <2>1. ASSUME NEW size, KernelPersistent(size) \/ KernelTemp(size) PROVE GraphsFinished'
    <3>1. /\ stage # "idle" /\ UNCHANGED <<stage, running, allocating>>
          /\ UNCHANGED interp \/ Knows(running, "arenaFailed", TRUE)
      BY <2>1 DEF KernelPersistent, KernelTemp
    <3>2. SameGraphs
      BY <1>0, <3>1, KnowsFlag
    <3>3. QED
      BY <1>1, <3>1, <3>2
  <2>2. ASSUME NEW n, KernelFreesTemp(n) PROVE GraphsFinished'
    BY <1>1, <1>2, <2>2 DEF KernelFreesTemp, allocationVars
  <2>3. RequestScratchBufferInArena \/ KernelFails => GraphsFinished'
    BY <1>1, <1>2, <1>3 DEF RequestScratchBufferInArena, KernelFails
  <2>4. QED
    BY <2>1, <2>2, <2>3 DEF KernelStep
<1>12. PrepareStep => GraphsFinished'
  <2>1. InitSubgraphs \/ ResetKernelTemps => GraphsFinished'
    BY <1>1, <1>2, <1>3 DEF InitSubgraphs, ResetKernelTemps, NextStage, AllocatingStages
  <2>2. FinishPrepareNodeAllocations => GraphsFinished'
    BY <1>1, <1>2 DEF FinishPrepareNodeAllocations, NextStage, AllocatingStages
  <2>3. QED
    BY <2>1, <2>2 DEF PrepareStep
<1>13. FinishStep => GraphsFinished'
  <2>1. AllocateScratchBufferHandles \/ AllocateSubgraphOffsets \/ AllocateInfo => GraphsFinished'
    BY <1>1, <1>2, <1>3 DEF AllocateScratchBufferHandles, AllocateSubgraphOffsets, AllocateInfo,
       AllocatingStages
  <2>2. ASSUME NEW v, AllocateVariable(v) PROVE GraphsFinished'
    <3>1. GiveUp \/ UNCHANGED <<stage, running, allocating, interp>>
      BY <2>2 DEF AllocateVariable
    <3>2. QED
      BY <1>1, <1>2, <1>3, <3>1
  <2>3. AllocatePlannerArena => GraphsFinished'
    BY <1>1, <1>2, <1>3 DEF AllocatePlannerArena, AllocatingStages
  <2>4. CommitPlan => GraphsFinished'
    <3>1. ASSUME NEW plan \in Model.plans, stage = "plan", stage' = "free",
                 UNCHANGED <<running, allocating>>,
                 Knows(running, "overlay", Region(BufferHead, plan))
          PROVE  GraphsFinished'
      <4>1. running \in Interpreters /\ plan \in Nat
        BY <1>0, <3>1, Constants DEF Model
      <4>2. SameGraphs
        BY <3>1, <4>1, KnowsOverlay
      <4>3. QED
        BY <1>1, <3>1, <4>2 DEF AllocatingStages
    <3>2. QED
      BY <1>3, <3>1 DEF CommitPlan
  <2>9. FinishFails => GraphsFinished'
    BY <1>3 DEF FinishFails
  <2>5. FreePlanningMemory \/ ResetPlanningTemps \/ DeallocateRequests => GraphsFinished'
    BY <1>1, <1>2 DEF FreePlanningMemory, ResetPlanningTemps, DeallocateRequests, allocationVars,
       AllocatingStages
  <2>6. ReserveOverlay => GraphsFinished'
    <3>1. ASSUME stage = "reserve", stage' = "tensors", UNCHANGED running,
                 Knows(running, "planned", TRUE)
          PROVE  GraphsFinished'
      <4>1. running \in Interpreters
        BY <1>0, <3>1
      <4>2. /\ interp'[running].planned
            /\ \A j \in Interpreters : /\ interp'[j].allocated = interp[j].allocated
                                       /\ j # running => interp'[j].planned = interp[j].planned
        BY <1>0, <3>1, <4>1, KnowsFlag
      <4>3. \A j \in Interpreters \ {running} : interp[j].allocated => interp[j].planned
        BY <3>1 DEF GraphsFinished, AllocatingStages
      <4>4. \A j \in Interpreters : interp'[j].allocated => interp'[j].planned
        BY <4>2, <4>3
      <4>5. QED
        BY <3>1, <4>1, <4>2, <4>4 DEF GraphsFinished, UnplannedOnlyHalfWay, AllocatingStages
    <3>2. QED
      BY <1>3, <3>1 DEF ReserveOverlay
  <2>7. AllocateInputsAndOutputs => GraphsFinished'
    <3>1. ASSUME stage = "tensors", Knows(running, "allocated", TRUE), UNCHANGED allocating,
                 stage' \in {"idle", "invoke"}
          PROVE  GraphsFinished'
      <4>1. running \in Interpreters /\ interp[running].planned
        BY <1>0, <3>1 DEF GraphsFinished
      <4>2. \A j \in Interpreters : /\ interp'[j].planned = interp[j].planned
                                    /\ j # running => interp'[j].allocated = interp[j].allocated
        BY ZenonT(30), <1>0, <3>1, <4>1, KnowsFlag
      <4>3. UnplannedOnlyHalfWay'
        BY <3>1, <4>1, <4>2 DEF GraphsFinished, UnplannedOnlyHalfWay
      <4>4. QED
        BY <3>1, <4>3 DEF GraphsFinished, AllocatingStages
    <3>2. CASE UNCHANGED <<allocating, interp>> /\ stage' = "idle"
      BY <1>1, <1>2, <3>2
    <3>3. QED
      BY <1>3, <3>1, <3>2 DEF AllocateInputsAndOutputs
  <2>8. QED
    BY <2>1, <2>2, <2>3, <2>4, <2>5, <2>6, <2>7, <2>9 DEF FinishStep
<1>14. ASSUME NEW size, CreateResourceVariables(size) PROVE GraphsFinished'
  BY <1>1, <1>2, <1>14 DEF CreateResourceVariables, allocationVars
<1>15. InvokeEnds => GraphsFinished'
  BY <1>1, <1>2 DEF InvokeEnds
<1>16. QED
  BY <1>7, <1>8, <1>9, <1>10, <1>11, <1>12, <1>13, <1>14, <1>15 DEF AllocationNext, StartStep

-----------------------------------------------------------------------------
\* The inductive invariant, and what follows from it.

LEMMA StutterAllocation ==
  ASSUME AllocationInv, UNCHANGED <<vars, allocationVars>>
  PROVE  AllocationInv'
<1> USE DEF vars, allocationVars, allocatorVars
<1>1. AllocationTypes' /\ AllocatingIsStage' /\ ChainIsClean' /\ PlanningChain' /\ SectionAtHead'
  BY DEF AllocationInv, AllocationTypes, AllocatingIsStage, ChainIsClean, PlanningChain, SectionAtHead
<1>2. RequestsInSection'
  BY RequestsUntouched DEF AllocationInv, Preparing
<1>3. PlansInHead'
  BY DEF AllocationInv, PlansInHead, Planning
<1>4. GraphsFinished'
  BY DEF AllocationInv, GraphsFinished, UnplannedOnlyHalfWay
<1>5. QED
  BY <1>1, <1>2, <1>3, <1>4 DEF AllocationInv

LEMMA AllocationNextInvariant ==
  IInv /\ AllocationInv /\ [AllocationNext]_<<vars, allocationVars>> => IInv' /\ AllocationInv'
<1> SUFFICES ASSUME IInv, AllocationInv, [AllocationNext]_<<vars, allocationVars>>
             PROVE  IInv' /\ AllocationInv'
  OBVIOUS
<1>1. IInv'
  BY StepIsCall, CallKeepsInvariant DEF IInv, AllocationInv
<1>2. ASSUME AllocationNext PROVE AllocationInv'
  <2>1. TypeOK
    BY DEF IInv
  <2>2. AllocationTypes' /\ AllocatingIsStage'
    BY <1>2, TypesStep, AllocatingStep DEF AllocationInv
  <2>3. ChainIsClean' /\ PlanningChain' /\ SectionAtHead'
    BY <1>2, <2>1, ChainStep, SectionStep DEF AllocationInv
  <2>4. RequestsInSection'
    BY <1>2, <2>1, <2>2, RequestsStep DEF AllocationInv
  <2>5. PlansInHead'
    BY <1>2, PlansStep DEF AllocationInv
  <2>6. GraphsFinished'
    BY <1>2, GraphsStep DEF AllocationInv
  <2>7. QED
    BY <2>2, <2>3, <2>4, <2>5, <2>6 DEF AllocationInv
<1>3. QED
  BY <1>1, <1>2, StutterAllocation

LEMMA AllocationInitInvariant == AllocationInit => IInv /\ AllocationInv
BY InitInvariant, InitAllocation DEF AllocationInit

\* The arena's invariant and the allocator's own hold together in every state.
THEOREM AllocationInvariance == AllocationSpec => [](IInv /\ AllocationInv)
BY AllocationInitInvariant, AllocationNextInvariant, PTL DEF AllocationSpec

\* Nobody's bytes are anybody else's, when the arena's clients are MicroAllocator, the
\* interpreters that share it, their kernels and the application.
THEOREM AllocationExclusive == AllocationSpec => []Exclusive
BY AllocationInvariance, InvariantImpliesExclusive, PTL

\* Every step of an allocation, failed ones included, keeps the arena's contract.
THEOREM AllocationKeepsPromise == AllocationSpec => KeepsPromise
<1>1. AllocationInit => Promise!PromiseInit
  BY InitRefines DEF AllocationInit
<1>2. IInv /\ AllocationInv /\ [AllocationNext]_<<vars, allocationVars>>
        => [Promise!PromiseNext]_(Promise!promiseVars)
  BY StepIsCall, CallRefines DEF IInv, AllocationInv
<1>3. QED
  BY <1>1, <1>2, AllocationInvariance, PTL DEF AllocationSpec, KeepsPromise, Promise!PromiseSpec

\* The scratch buffer requests never outgrow the section they live in, whatever the models,
\* their kernels and the order of their allocations.
THEOREM RequestsFitAlways == AllocationSpec => []RequestsFit
<1>1. IInv /\ AllocationInv => RequestsFit
  BY DEF AllocationInv, RequestsInSection
<1>2. QED
  BY <1>1, AllocationInvariance, PTL

\* The plan of every allocated model stays inside the reserved head and clear of the
\* persistent buffers of all the models, in any number and any order.
THEOREM TenantsKeepTheirPlansAlways == AllocationSpec => []TenantsKeepTheirPlans
<1>1. ASSUME IInv, AllocationInv PROVE TenantsKeepTheirPlans
  <2> SUFFICES ASSUME ~allocating, NEW i \in Interpreters, interp[i].planned
               PROVE  /\ interp[i].overlay.start + interp[i].overlay.size <= head
                      /\ \A p \in persistent : Apart(p, interp[i].overlay)
    BY DEF TenantsKeepTheirPlans
  <2> DEFINE o == interp[i].overlay
  <2>1. /\ o.start = BufferHead /\ o.size <= maxHead /\ head = BufferHead + maxHead
        /\ o.size \in Nat /\ maxHead \in Nat /\ BufferHead \in Nat
    BY <1>1, Constants DEF AllocationInv, PlansInHead, AllocationTypes, InterpRecord
  <2>2. o.start + o.size <= head
    BY <2>1
  <2>3. ASSUME NEW p \in persistent PROVE Apart(p, o)
    <3>1. p.start >= tail /\ p.start \in Nat /\ p.size \in Nat
      BY <1>1 DEF IInv, Layout, PersistentAbove, TypeOK
    <3>2. head <= temp /\ temp <= tail /\ head \in Nat /\ temp \in Nat /\ tail \in Nat
      BY <1>1 DEF IInv, Layout, Ordered, TypeOK
    <3>3. o.start + o.size <= p.start
      BY <2>1, <2>2, <3>1, <3>2
    <3>4. QED
      BY <3>3 DEF Apart, Promise!Apart
  <2>4. QED
    BY <2>2, <2>3
<1>2. QED
  BY <1>1, AllocationInvariance, PTL

\* A memory plan is made over a clean chain and over requests that all have an operator.
THEOREM PlanStartsCleanAlways == AllocationSpec => []PlanStartsClean
<1>1. ASSUME IInv, AllocationInv PROVE PlanStartsClean
  BY <1>1 DEF AllocationInv, ChainIsClean, CleanStages, RequestsInSection, CurrentNodeRequests,
              PlanStartsClean
<1>2. QED
  BY <1>1, AllocationInvariance, PTL

\* While the allocator can take a model, every interpreter that counts as allocated has a
\* finished allocation, whatever failed and whoever was allocated again (tensors_allocated_
\* against model_is_allocating_).
THEOREM UnplannedOnlyHalfWayAlways == AllocationSpec => []UnplannedOnlyHalfWay
<1>1. AllocationInv => UnplannedOnlyHalfWay
  BY DEF AllocationInv, GraphsFinished
<1>2. QED
  BY <1>1, AllocationInvariance, PTL

-----------------------------------------------------------------------------
\* What the end of FinishModelAllocation relies on: once a plan is committed, a temporary of
\* the planning that is not freed yet is one FreeAllocationInfo or the planner frees, the audit
\* accepts the chain they leave, and the section can be given back.
FinishGranted ==
  /\ stage = "free" /\ Live # {} => FreedNext \in Live
  /\ stage = "free" /\ Live = {} => IsAllTempDeallocated
  /\ stage = "deallocate" => SectionFits(section.start, 0, 1)

LEMMA ByteAligned == AlignPointerUp(BufferHead, 1) = BufferHead
BY Constants DEF AlignPointerUp

\* The arena never refuses the calls that undo the planning: a committed plan is not lost to
\* ResetTempAllocations or DeallocateResizableBuffer (the errors FinishModelAllocation
\* returns there cannot happen).
THEOREM FinishNeverRefused == AllocationSpec => []FinishGranted
<1>1. AllocationInit => WordIsParity
  BY InitParity DEF AllocationInit
<1>2. IInv /\ AllocationInv /\ WordIsParity /\ [AllocationNext]_<<vars, allocationVars>>
        => WordIsParity'
  BY StepIsCall, CallKeepsParity DEF IInv, AllocationInv
<1>3. ASSUME IInv, AllocationInv, WordIsParity PROVE FinishGranted
  <2>1. ASSUME stage = "free", Live # {} PROVE FreedNext \in Live
    <3>1. Len(chain) = 3 /\ DOMAIN chain = 1..Len(chain)
      BY <1>3, <2>1, ChainTypes DEF AllocationInv, PlanningChain, IInv
    <3>2. Live \subseteq {1, 2, 3}
      BY <3>1 DEF Live
    <3>3. QED
      BY <2>1, <3>2 DEF FreedNext
  <2>2. Live = {} => IsAllTempDeallocated
    BY <1>3, ParityImpliesExact DEF AuditExact
  <2>3. ASSUME stage = "deallocate" PROVE SectionFits(section.start, 0, 1)
    <3>1. temp = head /\ section.start = BufferHead
      BY <1>3, <2>3 DEF AllocationInv, ChainIsClean, CleanStages, SectionAtHead
    <3>2. BufferHead <= tail
      BY <1>3, <3>1, Constants DEF IInv, Layout, Ordered, TypeOK
    <3>3. 0 <= tail - BufferHead
      BY <1>3, <3>2, Constants DEF IInv, TypeOK
    <3>4. QED
      BY <3>1, <3>2, <3>3, ByteAligned DEF SectionFits
  <2>4. QED
    BY <2>1, <2>2, <2>3 DEF FinishGranted
<1>4. QED
  BY <1>1, <1>2, <1>3, AllocationInvariance, PTL DEF AllocationSpec
=============================================================================
