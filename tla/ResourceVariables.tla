------------------------- MODULE ResourceVariables -------------------------
(***************************************************************************)
(* Resource variables: the table of MicroResourceVariables, and the        *)
(* VAR_HANDLE, ASSIGN_VARIABLE and READ_VARIABLE operators of a model that *)
(* share it.  Prepare runs over the operators of all subgraphs in order;   *)
(* in Invoke, control flow (IF, WHILE, CALL_ONCE) decides which run, and   *)
(* how often, so here any may run next.  AllocateTensors, which ends with  *)
(* a Reset, may be called again, and Reset at any time.  A failure of      *)
(* Prepare is final: the allocator refuses the model from then on.         *)
(*                                                                         *)
(* An operator is a record: op, subgraph, the container and name of the    *)
(* variable, and for an ASSIGN the zero point of the value's tensor and    *)
(* whether the id reaches it as an input of its subgraph, from the         *)
(* operator that calls it (passed), rather than from a handle beside it.   *)
(***************************************************************************)
EXTENDS Integers, Sequences, FiniteSetsExt

CONSTANTS
  Programs,        \* the models: sequences of operators, in the order of Prepare
  Values,          \* contents of a tensor
  MaxVariables,    \* the max_num_variables of Create
  NullContainer, NullBuffer

\* Operator h of model p is a handle of the variable that operator i is about.
IsHandle(p, h, i) ==
  p[h].op = "var_handle" /\ p[h].container = p[i].container /\ p[h].name = p[i].name

\* An operator that uses a handle of its own subgraph comes after it.  Containers are null in
\* all handles of a model or in none.  A variable that is read has a handle, and somewhere an
\* ASSIGN that knows it in Prepare: the assertion of MicroResourceVariables::Read.
WellFormed(p) ==
  /\ p \in Seq({p[i] : i \in DOMAIN p})
  /\ \A i \in DOMAIN p : p[i].passed \in BOOLEAN /\ p[i].zeroPoint # NullBuffer
  /\ \A i \in DOMAIN p : p[i].op \in {"assign", "read"} /\ ~p[i].passed =>
       \E h \in 1..(i - 1) : IsHandle(p, h, i) /\ p[h].subgraph = p[i].subgraph
  /\ \A i \in DOMAIN p : p[i].op = "read" =>
       /\ \E h \in DOMAIN p : IsHandle(p, h, i)
       /\ \E j \in DOMAIN p : /\ p[j].op = "assign" /\ ~p[j].passed
                             /\ p[j].container = p[i].container /\ p[j].name = p[i].name
  /\ \A h, i \in DOMAIN p : p[h].op = "var_handle" /\ p[i].op = "var_handle" =>
       (p[h].container = NullContainer <=> p[i].container = NullContainer)

ASSUME ProgramAssumption ==
  MaxVariables \in Nat /\ NullBuffer \notin Values /\ \A p \in Programs : WellFormed(p)

VARIABLES
  program,
  resourceVariables,  \* resource_variables_, with ids from 0
  handleId,        \* VAR_HANDLE's op_data.resource_id, at the operator's index; None before Prepare
  stage,           \* of AllocateTensors: operators prepared, Failed, or Done
  stored           \* for the property: what the model stored since the last reset, by name

vars == <<program, resourceVariables, handleId, stage, stored>>

Failed == -1
None == -1
Done == Len(program) + 1
Nothing == [n \in {} |-> 0]

Ops == DOMAIN program
Named(i) == <<program[i].container, program[i].name>>
IsOp(i, op) == i \in Ops /\ program[i].op = op

Preparing(i, op) == IsOp(i, op) /\ stage = i - 1
Invoking(i, op) == IsOp(i, op) /\ stage = Done

-----------------------------------------------------------------------------
\* A slip in the definition below: the container is not looked at.
FindIdByName(container, name) ==
  LET found == {id \in 0..(Len(resourceVariables) - 1) : resourceVariables[id + 1].name = name}
  IN  IF found = {} THEN None ELSE Min(found)

FindId(container, name) ==
  LET found == {id \in 0..(Len(resourceVariables) - 1) :
                  /\ container \in {NullContainer, resourceVariables[id + 1].container}
                  /\ resourceVariables[id + 1].name = name}
  IN  IF found = {} THEN None ELSE Min(found)

\* The handles an ASSIGN or READ may have its id from: beside it in its subgraph, or one that
\* a caller has passed on.
Handles(i) ==
  {h \in Ops : /\ program[h].op = "var_handle" /\ Named(h) = Named(i)
               /\ program[i].passed \/ program[h].subgraph = program[i].subgraph}

\* The id in the operator's input tensor; every handle of a variable has the same.
InputId(i) == IF Handles(i) = {} THEN None ELSE handleId[Min(Handles(i))]

\* A slip in the definition below: the id is tested, not the pointer to it.
IdIsNonzero(i) == ~program[i].passed /\ InputId(i) > 0

\* In Prepare a handle's tensor points at its id, a tensor that a caller fills has no memory.
HasIdInPrepare(i) == ~program[i].passed /\ InputId(i) # None

-----------------------------------------------------------------------------
CreateId(i, id) ==
  /\ handleId' = [handleId EXCEPT ![i] = id]
  /\ stage' = i
  /\ UNCHANGED <<program, stored>>

PrepareFails == stage' = Failed /\ UNCHANGED <<program, resourceVariables, handleId, stored>>

\* CreateIdIfNoneFound; the operator fails when the table is full.
PrepareVarHandle(i) ==
  /\ Preparing(i, "var_handle")
  /\ LET container == program[i].container
         name == program[i].name
         id == FindId(container, name)
         count == Len(resourceVariables)
     IN  \/ id # None /\ CreateId(i, id) /\ UNCHANGED resourceVariables
         \/ /\ id = None /\ count < MaxVariables
            /\ CreateId(i, count)
            /\ resourceVariables' = Append(resourceVariables,
                 [container |-> container, name |-> name, buffer |-> NullBuffer, default |-> 0])
         \/ id = None /\ count >= MaxVariables /\ PrepareFails

\* The buffer is allocated once, and filled with the zero point of the tensor it is for.
Allocate(id, zeroPoint) ==
  IF resourceVariables[id + 1].buffer = NullBuffer
  THEN [resourceVariables EXCEPT ![id + 1].buffer = zeroPoint, ![id + 1].default = zeroPoint]
  ELSE resourceVariables

\* Without an id there is nothing to allocate; a variable that needs it may not get memory.
PrepareAssign(i) ==
  /\ Preparing(i, "assign")
  /\ \/ /\ HasIdInPrepare(i)
        /\ resourceVariables' = Allocate(InputId(i), program[i].zeroPoint)
        /\ stage' = i
        /\ UNCHANGED <<program, handleId, stored>>
     \/ /\ HasIdInPrepare(i)
        /\ resourceVariables[InputId(i) + 1].buffer = NullBuffer
        /\ PrepareFails
     \/ /\ ~HasIdInPrepare(i)
        /\ stage' = i
        /\ UNCHANGED <<program, resourceVariables, handleId, stored>>

PrepareRead(i) ==
  /\ Preparing(i, "read")
  /\ stage' = i
  /\ UNCHANGED <<program, resourceVariables, handleId, stored>>

-----------------------------------------------------------------------------
\* A slip in the definition below: every variable is zeroed.
ResetAllToZero ==
  [i \in DOMAIN resourceVariables |->
    IF resourceVariables[i].buffer = NullBuffer THEN resourceVariables[i]
    ELSE [resourceVariables[i] EXCEPT !.buffer = 0]]

\* A variable without a buffer has no bytes to set.
ResetAll ==
  [i \in DOMAIN resourceVariables |->
    IF resourceVariables[i].buffer = NullBuffer THEN resourceVariables[i]
    ELSE [resourceVariables[i] EXCEPT !.buffer = resourceVariables[i].default]]

Reset ==
  /\ stage \in {Len(program), Done}
  /\ resourceVariables' = ResetAll
  /\ stage' = Done
  /\ stored' = Nothing
  /\ UNCHANGED <<program, handleId>>

\* The table survives; every operator is initialised and prepared again.
AllocateTensors ==
  /\ stage = Done
  /\ stage' = 0
  /\ handleId' = [i \in Ops |-> None]
  /\ UNCHANGED <<program, resourceVariables, stored>>

\* Assign refuses an id that is none, and a variable that has no buffer.
EvalAssign(i) == \E value \in Values :
  /\ Invoking(i, "assign")
  /\ InputId(i) # None /\ resourceVariables[InputId(i) + 1].buffer # NullBuffer
  /\ resourceVariables' = [resourceVariables EXCEPT ![InputId(i) + 1].buffer = value]
  /\ stored' = [n \in DOMAIN stored \union {Named(i)} |-> IF n = Named(i) THEN value ELSE stored[n]]
  /\ UNCHANGED <<program, handleId, stage>>

\* What READ_VARIABLE copies to its output; like the eval of VAR_HANDLE it changes nothing here.
Read(i) == resourceVariables[InputId(i) + 1].buffer

Init ==
  /\ program \in Programs
  /\ resourceVariables = <<>>
  /\ handleId = [i \in Ops |-> None]
  /\ stage = 0
  /\ stored = Nothing

Next ==
  \/ \E i \in Ops : PrepareVarHandle(i) \/ PrepareAssign(i) \/ PrepareRead(i) \/ EvalAssign(i)
  \/ Reset
  \/ AllocateTensors

Spec == Init /\ [][Next]_vars

-----------------------------------------------------------------------------
\* Two handles have the same id exactly when they name the same variable, in whatever subgraphs
\* they are, also where the containers are null and when the model is allocated again; a
\* variable takes one entry of the table (micro_resource_variable.cc).
IdsIdentify == \A i, j \in Ops :
  handleId[i] # None /\ handleId[j] # None => (handleId[i] = handleId[j] <=> Named(i) = Named(j))

\* Once the model is allocated, a variable that is read has a buffer, wherever the ASSIGN that
\* allocated it is: in Prepare some operators do not know their id yet (assign_variable.cc).
BuffersReady == stage = Done =>
  \A i \in Ops : IsOp(i, "read") => InputId(i) # None /\ Read(i) # NullBuffer

ZeroPoint(i) ==
  program[Min({j \in Ops : IsOp(j, "assign") /\ ~program[j].passed /\ Named(j) = Named(i)})].zeroPoint

\* A READ delivers what was stored last under its name, by any subgraph, and the zero point of
\* the variable if nothing was since the model was allocated or reset.
ReadsLatest == stage = Done =>
  \A i \in Ops : IsOp(i, "read") =>
    Read(i) = IF Named(i) \in DOMAIN stored THEN stored[Named(i)] ELSE ZeroPoint(i)
=============================================================================
