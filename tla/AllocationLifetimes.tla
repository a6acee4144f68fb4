------------------------- MODULE AllocationLifetimes ------------------------
(***************************************************************************)
(* AllocationInfoBuilder::MarkAllocationLifetimes: a walk over the main    *)
(* subgraph, and over each subgraph a control-flow operator names at the   *)
(* point of that operator, that gives every tensor and scratch buffer the  *)
(* interval of allocation scopes during which its bytes must stay its own. *)
(* The recursion of the code is the stack marking, one frame for each call *)
(* of MarkAllocationLifetimes, and one step here is one operator entered,  *)
(* one operator left, or one subgraph entered or left.                     *)
(*                                                                         *)
(* A model is a record:                                                    *)
(*   graphs     the subgraphs, the main one first, each                    *)
(*              [inputs, outputs, ops]; inputs and outputs are sequences   *)
(*              of buffer names; an op is                                  *)
(*              [kind, ins, outs, callees, scratch]                        *)
(*   variables  the tensors with is_variable()                             *)
(*   constants  the tensors whose data is in the flatbuffer                *)
(*   offline    the tensors the model's metadata gives an offset           *)
(*   alternate  the addresses of those that DECODE placed in other memory  *)
(* Names are unique over the model; scopes count from 0 as in the code.    *)
(***************************************************************************)
EXTENDS Integers, SequencesExt

CONSTANT Models

Operators == [kind : {"plain", "IF", "WHILE", "CALL_ONCE"}, ins : Seq(STRING),
              outs : Seq(STRING), callees : Seq(Nat), scratch : SUBSET STRING]
Subgraphs == [inputs : Seq(STRING), outputs : Seq(STRING), ops : Seq(Operators)]

\* What the Prepare functions of IF, WHILE and CALL_ONCE require.
WellFormed(m, op) ==
  /\ \A i \in DOMAIN op.callees : op.callees[i] \in DOMAIN m.graphs
  /\ Len(op.callees) = CASE op.kind \in {"IF", "WHILE"} -> 2
                          [] op.kind = "CALL_ONCE" -> 1
                          [] op.kind = "plain" -> 0

ASSUME ModelAssumption == \A m \in Models :
  /\ m.graphs \in Seq(Subgraphs) /\ m.graphs # <<>>
  /\ \A g \in DOMAIN m.graphs : \A n \in DOMAIN m.graphs[g].ops : WellFormed(m, m.graphs[g].ops[n])

\* "All operators, in execution order" (schema.fbs:1678): what an operator reads was written
\* before, by the caller of its subgraph or by an earlier operator.  No operator or caller
\* writes a variable tensor; a scratch buffer belongs to the operator that asked for it.
ReadsInOrder(m, graph) == \A n \in DOMAIN graph.ops : \A a \in Range(graph.ops[n].ins) :
  \/ a \in m.constants \union m.variables \union DOMAIN m.alternate
  \/ a \in Range(graph.inputs)
  \/ \E k \in 1..(n - 1) : a \in Range(graph.ops[k].outs)

WrittenIn(graph) ==
  Range(graph.inputs) \union Range(graph.outputs) \union UNION {Range(op.outs) : op \in Range(graph.ops)}
ReadIn(graph) == UNION {Range(op.ins) : op \in Range(graph.ops)}

ScratchIsOwn(m, g, n) == \A s \in m.graphs[g].ops[n].scratch : \A h \in DOMAIN m.graphs :
  /\ s \notin m.variables \union WrittenIn(m.graphs[h]) \union ReadIn(m.graphs[h])
  /\ \A k \in DOMAIN m.graphs[h].ops : s \in m.graphs[h].ops[k].scratch => h = g /\ k = n

ASSUME OrderAssumption == \A m \in Models : \A g \in DOMAIN m.graphs :
  /\ ReadsInOrder(m, m.graphs[g])
  /\ m.variables \intersect WrittenIn(m.graphs[g]) = {}
  /\ \A n \in DOMAIN m.graphs[g].ops : ScratchIsOwn(m, g, n)

kUninitializedLifetime == -1

VARIABLES
  model,
  scope,                 \* allocation_scope_count_
  first,                 \* first_created of each buffer
  last,                  \* last_used of each buffer
  marking                \* frames of MarkAllocationLifetimes, the running one first

lifetimeVars == <<model, scope, first, last, marking>>

Graph(g) == model.graphs[g]
Ops(g) == Range(Graph(g).ops)

TensorsOf(g) ==
  Range(Graph(g).inputs) \union Range(Graph(g).outputs)
    \union UNION {Range(op.ins) \union Range(op.outs) : op \in Ops(g)}
ScratchOf(g) == UNION {op.scratch : op \in Ops(g)}
BuffersOf(g) == TensorsOf(g) \union ScratchOf(g)
Buffers == (UNION {BuffersOf(g) : g \in DOMAIN model.graphs}) \union model.variables

\* needs_allocating, as InitializeAllocationInfo sets it for tensors of a non-zero size.
NeedsAllocating(b) ==
  /\ b \notin model.constants
  /\ b \notin DOMAIN model.alternate
  /\ b \in model.variables => b \in model.offline

IsActivation(b) == NeedsAllocating(b) /\ b \notin model.variables

OverlapInTime(a, b) == first[a] <= last[b] /\ first[b] <= last[a]

\* A slip in the definition below: a tensor that is marked again starts anew.
UpdateFirstAgain(created, buffers, at) ==
  [b \in DOMAIN created |-> IF b \in buffers THEN at ELSE created[b]]

UpdateFirstCreated(created, buffers, at) ==
  [b \in DOMAIN created |->
    IF b \in buffers /\ created[b] = kUninitializedLifetime THEN at ELSE created[b]]

UpdateLastUsed(used, buffers, at) ==
  [b \in DOMAIN used |-> IF b \in buffers THEN at ELSE used[b]]

\* A call that has marked its inputs and no operator yet.
Call(g) == [graph |-> g, op |-> 0, inOp |-> FALSE, start |-> 0, callees |-> <<>>]

Caller == marking[1]
CallerOp == Graph(Caller.graph).ops[Caller.op]
Marked == marking = <<>>

\* InitializeAllocationInfo, then the entry into the main subgraph.
LifetimesInit ==
  /\ model \in Models
  /\ scope = 0
  /\ LET unmarked == [b \in Buffers |-> kUninitializedLifetime]
         inputs == Range(Graph(1).inputs)
     IN  /\ first = UpdateFirstCreated(unmarked, inputs, 0)
         /\ last = UpdateLastUsed(unmarked, inputs, 0)
  /\ marking = <<Call(1)>>

BeginOp ==
  /\ ~Marked /\ ~Caller.inOp
  /\ Caller.op < Len(Graph(Caller.graph).ops)
  /\ LET op == Graph(Caller.graph).ops[Caller.op + 1] IN
       /\ first' = UpdateFirstCreated(first, Range(op.outs), scope + 1)
       /\ marking' = [marking EXCEPT ![1] =
            [graph |-> Caller.graph, op |-> Caller.op + 1, inOp |-> TRUE, start |-> scope + 1,
             callees |-> op.callees]]
  /\ scope' = scope + 1
  /\ UNCHANGED <<model, last>>

\* MarkSubgraphLifetimesIfNecessary enters the next subgraph the operator names.
EnterSubgraph ==
  /\ ~Marked /\ Caller.inOp
  /\ Caller.callees # <<>>
  /\ LET callee == Head(Caller.callees)
         inputs == Range(Graph(callee).inputs)
     IN  /\ first' = UpdateFirstCreated(first, inputs, scope + 1)
         /\ last' = UpdateLastUsed(last, inputs, scope + 1)
         /\ marking' = <<Call(callee), [Caller EXCEPT !.callees = Tail(@)]>> \o Tail(marking)
  /\ scope' = scope + 1
  /\ UNCHANGED model

\* A slip in the definition below: the tensors' last use is the operator's own scope, not
\* that of the last subgraph it ran.
EndOpAtStart ==
  /\ ~Marked /\ Caller.inOp
  /\ Caller.callees = <<>>
  /\ first' = UpdateFirstCreated(first, CallerOp.scratch, Caller.start)
  /\ last' = UpdateLastUsed(last,
       Range(CallerOp.ins) \union Range(CallerOp.outs) \union CallerOp.scratch, Caller.start)
  /\ marking' = [marking EXCEPT ![1].inOp = FALSE]
  /\ UNCHANGED <<model, scope>>

\* A slip in the definition below: scratch buffers are not marked.
EndOpWithoutScratch ==
  /\ ~Marked /\ Caller.inOp
  /\ Caller.callees = <<>>
  /\ last' = UpdateLastUsed(last, Range(CallerOp.ins) \union Range(CallerOp.outs), scope)
  /\ marking' = [marking EXCEPT ![1].inOp = FALSE]
  /\ UNCHANGED <<model, scope, first>>

\* The operator's tensors were used up to here; its scratch buffers were used since it began.
EndOp ==
  /\ ~Marked /\ Caller.inOp
  /\ Caller.callees = <<>>
  /\ first' = UpdateFirstCreated(first, CallerOp.scratch, Caller.start)
  /\ last' = UpdateLastUsed(last,
       Range(CallerOp.ins) \union Range(CallerOp.outs) \union CallerOp.scratch, scope)
  /\ marking' = [marking EXCEPT ![1].inOp = FALSE]
  /\ UNCHANGED <<model, scope>>

\* A slip in the definition below: the outputs are not kept to the end.
LeaveWithoutOutputs ==
  /\ ~Marked /\ ~Caller.inOp
  /\ Caller.op = Len(Graph(Caller.graph).ops)
  /\ marking' = Tail(marking)
  /\ UNCHANGED <<model, scope, first, last>>

LeaveSubgraph ==
  /\ ~Marked /\ ~Caller.inOp
  /\ Caller.op = Len(Graph(Caller.graph).ops)
  /\ LET outputs == Range(Graph(Caller.graph).outputs) IN
       /\ first' = UpdateFirstCreated(first, outputs, scope)
       /\ last' = UpdateLastUsed(last, outputs, scope)
  /\ marking' = Tail(marking)
  /\ UNCHANGED <<model, scope>>

MarkLifetimes == BeginOp \/ EnterSubgraph \/ EndOp \/ LeaveSubgraph

-----------------------------------------------------------------------------
\* The subgraphs an invocation of g can reach: those in every set that holds g and, with a
\* subgraph, all it calls.
Calls(g) == UNION {Range(op.callees) : op \in Ops(g)}
ClosedUnderCalls(C) == \A h \in C : Calls(h) \subseteq C
Reach(g) == {h \in DOMAIN model.graphs :
  \A C \in SUBSET DOMAIN model.graphs : g \in C /\ ClosedUnderCalls(C) => h \in C}

WalkEnds == ~Marked /\ Marked'

\* What the planner is handed when the walk ends: every buffer of a subgraph an invocation
\* can reach has a lifetime, not empty and inside the timeline (the -1 that
\* InitializeAllocationInfo set is gone), whatever path of nested calls marked it.
HasLifetime(b) == 0 <= first[b] /\ first[b] <= last[b] /\ last[b] <= scope
ReachableHaveLifetimes == [][WalkEnds =>
  \A g \in Reach(1) : \A b \in BuffersOf(g) : IsActivation(b) => HasLifetime(b)']_lifetimeVars

\* When the walk ends, a control-flow operator's tensors and scratch buffers are live
\* together with every buffer of every subgraph it runs: "so that scratch buffers' lifetime
\* within a control flow op properly overlaps with all subgraphs" (micro_allocation_info.cc).
CallersOverlapCallees == [][WalkEnds =>
  \A g \in Reach(1) : \A op \in Ops(g) : \A callee \in Range(op.callees) :
    \A h \in Reach(callee) : \A b \in BuffersOf(h) :
      \A a \in Range(op.ins) \union Range(op.outs) \union op.scratch :
        NeedsAllocating(a) /\ IsActivation(b) => OverlapInTime(a, b)']_lifetimeVars
=============================================================================
