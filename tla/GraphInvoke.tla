----------------------------- MODULE GraphInvoke ----------------------------
(***************************************************************************)
(* MicroInterpreterGraph::InvokeSubgraph and the control-flow kernels IF,  *)
(* WHILE and CALL_ONCE that call it again, over memory laid out from the   *)
(* lifetimes of AllocationLifetimes.                                       *)
(*                                                                         *)
(* The memory is the worst one a plan may give: two planned buffers share  *)
(* bytes whenever their lifetimes do not overlap (GreedyPlanner proves     *)
(* that they never do when they overlap).  memory.intact is the set of     *)
(* buffers that still hold what was last written to them, memory.lost the  *)
(* set of buffers something read after their bytes had been overwritten.   *)
(* Two buffers with offline offsets share bytes only if the offline plan   *)
(* says so, and are left alone.  Tensors that DECODE placed in alternate   *)
(* memory share it where their addresses meet.                             *)
(*                                                                         *)
(* Each frame is a running InvokeSubgraph: graph is its parameter, node    *)
(* and step say where it and the kernel it called are, previousGraph and   *)
(* previousOp are its locals.  currentGraph and currentOp are the members  *)
(* current_subgraph_index_ (here from 1) and current_operator_index_; they *)
(* drive the loop and are how a kernel's tensors are found.                *)
(***************************************************************************)
EXTENDS AllocationLifetimes, FiniteSets

CONSTANTS
  MaxInvokes,        \* bound: calls of Invoke
  MaxIterations,     \* bound: turns of one WHILE loop
  OpsFail            \* whether plain kernels may return an error or kTfLiteAbort

ASSUME InvokeAssumption ==
  /\ MaxInvokes \in Nat
  /\ MaxIterations \in Nat
  /\ OpsFail \in BOOLEAN

\* The tensors that a control-flow operator and its subgraphs copy to each other: what the
\* Prepare functions check, and of the other branch of an IF the copies in Eval.  A condition
\* has a result; an initialisation is given no inputs.  A branch without any output, which
\* CopySubgraphOutputsToOpOutputs accepts and then copies nothing, is left out when the IF has
\* outputs: they would be read as they were, and NothingLost says nothing of such a model.
TensorsFit(m, op) ==
  LET Ins(i) == Len(m.graphs[op.callees[i]].inputs)
      Outs(i) == Len(m.graphs[op.callees[i]].outputs)
  IN  /\ op.kind = "IF" =>
           /\ Len(op.ins) >= 1
           /\ \A i \in 1..2 : Ins(i) = Len(op.ins) - 1 /\ Outs(i) = Len(op.outs)
      /\ op.kind = "WHILE" =>
           /\ Ins(1) = Len(op.ins) /\ Ins(2) = Len(op.ins)
           /\ Len(op.outs) = Len(op.ins) /\ Outs(2) = Len(op.outs) /\ Outs(1) >= 1
      /\ op.kind = "CALL_ONCE" => op.outs = <<>> /\ Ins(1) = 0

\* A subgraph writes the outputs it does not only pass on.
OutputsInOrder(m, graph) == Range(graph.outputs) \subseteq
  m.constants \union m.variables \union DOMAIN m.alternate
    \union Range(graph.inputs) \union UNION {Range(op.outs) : op \in Range(graph.ops)}

\* What decode_insert.py and the Prepare of DECODE see to: a tensor in alternate memory is
\* an output of a DECODE, beside the others it writes, and is read by the next operator or is an
\* output of the subgraph that ends there.
AlternatesInOrder(m, graph) ==
  LET ops == graph.ops
      placed == DOMAIN m.alternate
      Fresh(n) == IF n = 0 THEN {} ELSE Range(ops[n].outs) \intersect placed
  IN  /\ placed \intersect Range(graph.inputs) = {}
      /\ placed \intersect Range(graph.outputs) \subseteq Fresh(Len(ops))
      /\ \A n \in DOMAIN ops :
           /\ placed \intersect (Range(ops[n].ins) \ Fresh(n - 1)) = {}
           /\ placed \intersect ops[n].scratch = {}
           /\ Fresh(n) # {} => ops[n].kind = "plain" /\ Range(ops[n].ins) \subseteq m.constants
           /\ \A a, b \in Fresh(n) : a # b => m.alternate[a] \intersect m.alternate[b] = {}

ASSUME FlowAssumption == \A m \in Models :
  /\ (m.constants \union m.variables) \intersect DOMAIN m.alternate = {}
  /\ \A g \in DOMAIN m.graphs :
       /\ OutputsInOrder(m, m.graphs[g]) /\ AlternatesInOrder(m, m.graphs[g])
       /\ \A n \in DOMAIN m.graphs[g].ops : TensorsFit(m, m.graphs[g].ops[n])

VARIABLES
  frames,            \* the call stack of InvokeSubgraph, the innermost last
  currentGraph, currentOp,
  memory,
  hasRun,            \* CALL_ONCE nodes with has_run set
  status,            \* what the last InvokeSubgraph to return returned
  invokes            \* calls of Invoke so far

invokeVars == <<frames, currentGraph, currentOp, memory, hasRun, status, invokes>>
vars == <<lifetimeVars, invokeVars>>

Top == frames[Len(frames)]
Running == frames # <<>>
Node == Graph(Top.graph).ops[Top.node]
NodeId == <<Top.graph, Top.node>>

-----------------------------------------------------------------------------
\* Memory.
ShareInPlan(a, b) ==
  /\ NeedsAllocating(a) /\ NeedsAllocating(b)
  /\ ~OverlapInTime(a, b)
  /\ ~({a, b} \subseteq model.offline)

ShareAlternate(a, b) ==
  /\ {a, b} \subseteq DOMAIN model.alternate
  /\ model.alternate[a] \intersect model.alternate[b] # {}

MayShare(a, b) == a # b /\ (ShareInPlan(a, b) \/ ShareAlternate(a, b))

Reading(mem, buffers) == [mem EXCEPT !.lost = @ \union (buffers \ mem.intact)]

Writing(mem, buffers) == [mem EXCEPT !.intact =
  {b \in @ \union buffers : \A a \in buffers : ~MayShare(a, b)}]

\* The copy loops of kernel_util.cc, one tensor after the other.  What is intact after n copies
\* was so before or is one of the copies, and was not overwritten since.
Copying(mem, from, to) ==
  LET Intact(n) == {b \in mem.intact \union Range(to) : \E j \in 0..n :
        /\ IF j = 0 THEN b \in mem.intact ELSE b = to[j]
        /\ \A k \in (j + 1)..n : ~MayShare(to[k], b)}
  IN  [intact |-> Intact(Len(from)),
       lost |-> mem.lost \union {from[i] : i \in {i \in DOMAIN from : from[i] \notin Intact(i - 1)}}]

\* GetEvalInput and GetEvalOutput look a node's tensors up in the current subgraph; in any
\* other subgraph the index names some other tensor.
Elsewhere == "elsewhere"
Resolve(tensors) ==
  [i \in DOMAIN tensors |-> IF currentGraph = Top.graph THEN tensors[i] ELSE Elsewhere]

-----------------------------------------------------------------------------
InvokeInit ==
  /\ LifetimesInit
  /\ frames = <<>>
  /\ currentGraph = 1 /\ currentOp = 0
  /\ memory = [intact |-> model.constants \union model.variables, lost |-> {}]
  /\ hasRun = {}
  /\ status = "ok"
  /\ invokes = 0

Frame(g) == [graph |-> g, node |-> 0, step |-> "loop", callee |-> 0, turns |-> 0,
             previousGraph |-> currentGraph, previousOp |-> currentOp]

\* The kernel on top calls InvokeSubgraph(g) and goes on at step when it returns.
CallSubgraph(g, step, turns) ==
  /\ frames' = Append(
       [frames EXCEPT ![Len(frames)].step = step, ![Len(frames)].callee = g,
                      ![Len(frames)].turns = turns],
       Frame(g))
  /\ currentGraph' = g
  /\ currentOp' = 0

\* The kernel on top returns to the loop: the next operator, or the break.
KernelReturns(result) ==
  /\ frames' = [frames EXCEPT ![Len(frames)].step = IF result = "ok" THEN "loop" ELSE "break",
                              ![Len(frames)].turns = 0]
  /\ currentOp' = IF result = "ok" THEN currentOp + 1 ELSE currentOp
  /\ status' = result
  /\ UNCHANGED currentGraph

\* The application writes every input and calls MicroInterpreter::Invoke.
Invoke ==
  /\ Marked /\ ~Running
  /\ invokes < MaxInvokes
  /\ invokes' = invokes + 1
  /\ memory' = Writing(memory, Range(Graph(1).inputs))
  /\ frames' = <<Frame(1)>>
  /\ currentGraph' = 1
  /\ currentOp' = 0
  /\ status' = "ok"
  /\ UNCHANGED <<hasRun>>

\* MicroInterpreter::Reset: variable tensors get their defaults (for the resource variables
\* see ResourceVariables); has_run of CALL_ONCE stays.
Reset ==
  /\ Marked /\ ~Running
  /\ memory' = Writing(memory, model.variables)
  /\ UNCHANGED <<frames, currentGraph, currentOp, hasRun, status, invokes>>

StartNode ==
  /\ Top.step = "loop"
  /\ currentOp < Len(Graph(Top.graph).ops)
  /\ frames' = [frames EXCEPT ![Len(frames)].node = currentOp + 1,
                              ![Len(frames)].step = "eval"]
  /\ UNCHANGED <<currentGraph, currentOp, memory, hasRun, status, invokes>>

Returning ==
  \/ Top.step = "loop" /\ currentOp >= Len(Graph(Top.graph).ops)
  \/ Top.step = "break"

\* Slips in ReturnFromSubgraph: a member is not restored, or to the wrong value.
ReturnKeepsGraph ==
  /\ Returning
  /\ frames' = Front(frames)
  /\ currentOp' = Top.previousOp
  /\ status' = IF Top.step = "break" THEN "failed" ELSE "ok"
  /\ UNCHANGED <<currentGraph, memory, hasRun, invokes>>

ReturnToFirstOp ==
  /\ Returning
  /\ frames' = Front(frames)
  /\ currentGraph' = Top.previousGraph
  /\ currentOp' = 0
  /\ status' = IF Top.step = "break" THEN "failed" ELSE "ok"
  /\ UNCHANGED <<memory, hasRun, invokes>>

ReturnToOpBefore ==
  /\ Returning
  /\ frames' = Front(frames)
  /\ currentGraph' = Top.previousGraph
  /\ currentOp' = IF Top.previousOp = 0 THEN 0 ELSE Top.previousOp - 1
  /\ status' = IF Top.step = "break" THEN "failed" ELSE "ok"
  /\ UNCHANGED <<memory, hasRun, invokes>>

\* The end of InvokeSubgraph, by the loop or by the break.
ReturnFromSubgraph ==
  /\ Returning
  /\ frames' = Front(frames)
  /\ currentGraph' = Top.previousGraph
  /\ currentOp' = Top.previousOp
  /\ status' = IF Top.step = "break" THEN "failed" ELSE "ok"
  /\ UNCHANGED <<memory, hasRun, invokes>>

\* Any other kernel: reads its inputs while it writes its outputs, its scratch buffers and
\* the variable tensors among its inputs.
EvalPlain(result) ==
  /\ Top.step = "eval" /\ Node.kind = "plain"
  /\ LET ins == Range(Resolve(Node.ins))
         outs == Range(Resolve(Node.outs))
     IN  memory' = Reading(
           Writing(memory, outs \union Node.scratch \union (ins \intersect model.variables)), ins)
  /\ KernelReturns(result)
  /\ UNCHANGED <<hasRun, invokes>>

EvalIf(branch) ==
  /\ Top.step = "eval" /\ Node.kind = "IF"
  /\ branch \in Range(Node.callees)
  /\ LET ins == Resolve(Node.ins) IN
       memory' = Copying(Reading(memory, {Head(ins)}), Tail(ins), Graph(branch).inputs)
  /\ CallSubgraph(branch, "branch", 0)
  /\ UNCHANGED <<hasRun, status, invokes>>

IfReturns ==
  /\ Top.step = "branch" /\ status = "ok"
  /\ memory' = Copying(memory, Graph(Top.callee).outputs, Resolve(Node.outs))
  /\ KernelReturns("ok")
  /\ UNCHANGED <<hasRun, invokes>>

Cond == Node.callees[1]
Body == Node.callees[2]

\* The condition runs on the inputs; the outputs hold the loop's values from the start.
EvalWhile ==
  /\ Top.step = "eval" /\ Node.kind = "WHILE"
  /\ LET ins == Resolve(Node.ins) IN
       memory' = Copying(Copying(memory, ins, Graph(Cond).inputs), ins, Resolve(Node.outs))
  /\ CallSubgraph(Cond, "cond", 0)
  /\ UNCHANGED <<hasRun, status, invokes>>

CondValue(mem) == Reading(mem, {Head(Graph(Cond).outputs)})

WhileTurns ==
  /\ Top.step = "cond" /\ status = "ok"
  /\ Top.turns < MaxIterations
  /\ memory' = Copying(CondValue(memory), Resolve(Node.outs), Graph(Body).inputs)
  /\ CallSubgraph(Body, "body", Top.turns + 1)
  /\ UNCHANGED <<hasRun, status, invokes>>

BodyReturns ==
  /\ Top.step = "body" /\ status = "ok"
  /\ LET outs == Resolve(Node.outs) IN
       memory' = Copying(Copying(memory, Graph(Body).outputs, outs), outs, Graph(Cond).inputs)
  /\ CallSubgraph(Cond, "cond", Top.turns)
  /\ UNCHANGED <<hasRun, status, invokes>>

WhileEnds ==
  /\ Top.step = "cond" /\ status = "ok"
  /\ memory' = CondValue(memory)
  /\ KernelReturns("ok")
  /\ UNCHANGED <<hasRun, invokes>>

\* A slip in the definition below: has_run is not looked at.
EvalCallAlways ==
  /\ Top.step = "eval" /\ Node.kind = "CALL_ONCE"
  /\ CallSubgraph(Node.callees[1], "once", 0)
  /\ UNCHANGED <<memory, hasRun, status, invokes>>

EvalCallOnce ==
  /\ Top.step = "eval" /\ Node.kind = "CALL_ONCE"
  /\ IF NodeId \in hasRun
     THEN KernelReturns("ok")
     ELSE CallSubgraph(Node.callees[1], "once", 0) /\ UNCHANGED status
  /\ UNCHANGED <<memory, hasRun, invokes>>

CallOnceReturns ==
  /\ Top.step = "once" /\ status = "ok"
  /\ hasRun' = hasRun \union {NodeId}
  /\ KernelReturns("ok")
  /\ UNCHANGED <<memory, invokes>>

\* TF_LITE_ENSURE_OK around InvokeSubgraph: the kernel returns the callee's status.
CalleeFailed ==
  /\ Top.step \in {"branch", "cond", "body", "once"} /\ status = "failed"
  /\ KernelReturns("failed")
  /\ UNCHANGED <<memory, hasRun, invokes>>

Execute ==
  /\ Running
  /\ \/ StartNode
     \/ ReturnFromSubgraph
     \/ EvalPlain("ok")
     \/ OpsFail /\ EvalPlain("failed")
     \/ \E g \in DOMAIN model.graphs : EvalIf(g)
     \/ IfReturns
     \/ EvalWhile
     \/ WhileTurns
     \/ BodyReturns
     \/ WhileEnds
     \/ EvalCallOnce
     \/ CallOnceReturns
     \/ CalleeFailed
  /\ UNCHANGED lifetimeVars

Plan == MarkLifetimes /\ UNCHANGED invokeVars

Application == (Invoke \/ Reset) /\ UNCHANGED lifetimeVars

Next == Plan \/ Application \/ Execute

\* Marking and Invoke are synchronous calls on one thread: once entered they run on.
Spec == InvokeInit /\ [][Next]_vars /\ WF_vars(Plan \/ Execute)

-----------------------------------------------------------------------------
\* "tensors are correctly planned for all valid invocation flows" (micro_allocation_info.h):
\* no kernel, copy loop or condition ever reads a buffer whose bytes another buffer of the
\* plan has taken over, through every nesting and sharing of subgraphs, every branch, every
\* number of loop turns and every failure half-way.
NothingLost == memory.lost = {}

\* After a successful Invoke the application finds every output as it was written.
OutputsDelivered ==
  invokes > 0 /\ ~Running /\ status = "ok" => Range(Graph(1).outputs) \subseteq memory.intact

\* The two index members name the running subgraph and operator whenever a kernel runs,
\* through every nested InvokeSubgraph and every early return, and are back at the main
\* subgraph when Invoke has returned (InvokeSubgraph's restore, micro_interpreter_graph.cc).
CurrentIsRunning ==
  /\ Running => currentGraph = Top.graph
  /\ Running /\ Top.step # "loop" => currentOp + 1 = Top.node
  /\ ~Running => currentGraph = 1 /\ currentOp = 0

\* A subgraph starts its operators in the model's order, the first one first and each exactly
\* once, although the loop's counter is the member that nested calls count with too: when a
\* kernel starts, its operator is the one after the last that started, and between two starts
\* the frame stays at its operator.  It returns success only from its end.
Starts(i) == frames[i].step = "loop" /\ frames'[i].step = "eval"
OpsInOrder ==
  /\ \A i \in DOMAIN frames' \ DOMAIN frames : frames'[i].node = 0
  /\ \A i \in DOMAIN frames \intersect DOMAIN frames' :
       frames'[i].node = frames[i].node + (IF Starts(i) THEN 1 ELSE 0)
  /\ \A i \in DOMAIN frames \ DOMAIN frames' :
       status' = "ok" => frames[i].node = Len(Graph(frames[i].graph).ops)
EachOpOnceInOrder == [][OpsInOrder]_vars

\* "Call once only runs one time then is a no-op for every subsequent call" (call_once.cc),
\* of each CALL_ONCE operator: it never enters its init subgraph again once that ran to its
\* end, and an Invoke that succeeds has run it.  has_run is the operator's: two operators that
\* name one subgraph each run it once.
CallOnceRunsOnce ==
  /\ \A i \in DOMAIN frames :
       frames[i].step = "once" => <<frames[i].graph, frames[i].node>> \notin hasRun
  /\ invokes > 0 /\ ~Running /\ status = "ok" =>
       \A n \in DOMAIN Graph(1).ops : Graph(1).ops[n].kind = "CALL_ONCE" => <<1, n>> \in hasRun

\* Every Invoke returns, if every WHILE condition becomes false.
InvokeReturns == Running ~> ~Running
=============================================================================
