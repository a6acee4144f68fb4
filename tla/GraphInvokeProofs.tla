-------------------------- MODULE GraphInvokeProofs -------------------------
(***************************************************************************)
(* Theorems about the lifetime walk and about the interpreter that runs    *)
(* over memory planned from it.  Part 1 is the walk, part 2 the            *)
(* interpreter, for every set of models, any nesting of subgraphs and any  *)
(* number of invocations and loop turns.                                   *)
(***************************************************************************)
EXTENDS GraphInvoke, TLAPS

-----------------------------------------------------------------------------
(***************************************************************************)
(* Part 1: the lifetime walk, for every model: any subgraphs, operators,   *)
(* nesting and sharing of subgraphs.                                       *)
(*                                                                         *)
(* The argument: each frame of the walk knows a scope since which all that *)
(* it has finished was used again, its caller's start.  An operator that   *)
(* ends was started at a scope by which its own tensors exist, has seen    *)
(* every subgraph below it used since then, and is itself used now: it     *)
(* overlaps them all.  Lifetimes only grow, so this stays true.  A         *)
(* subgraph that was finished calls only subgraphs that were, and these    *)
(* never call each other in a cycle: the walk of a cycle would not end.    *)
(* What an operator leaves unread had its first use before the operator    *)
(* and is used again after it, so it spans all that running it touches.    *)
(***************************************************************************)

CallRecord == [graph : DOMAIN model.graphs, op : Nat, inOp : BOOLEAN, start : Nat, callees : Seq(Nat)]

UsedBy(op) == Range(op.ins) \union Range(op.outs) \union op.scratch

\* The buffer was used at t or later and, if the planner places it, has a lifetime.
Lived(b, t) == t <= last[b] /\ (IsActivation(b) => HasLifetime(b))

OverlapsCallees(op) == \A c \in Range(op.callees) : \A h \in Reach(c) : \A b \in BuffersOf(h) :
  \A a \in UsedBy(op) : NeedsAllocating(a) /\ IsActivation(b) => OverlapInTime(a, b)

\* All that g can reach was walked, at t or later.
WalkedDeep(g, t) == \A h \in Reach(g) :
  /\ \A b \in BuffersOf(h) : Lived(b, t)
  /\ \A op \in Ops(h) : OverlapsCallees(op)

OpDone(op, t) ==
  /\ \A a \in UsedBy(op) : Lived(a, t)
  /\ OverlapsCallees(op)
  /\ \A c \in Range(op.callees) : WalkedDeep(c, t)

\* The scope at which the operator started that this frame's subgraph is walked for.
Base(j) == IF j = Len(marking) THEN 0 ELSE marking[j + 1].start

\* The subgraphs that the operator of a frame has still to walk, the one under way included.
Pending(j) == {c \in DOMAIN model.graphs :
  c \in Range(marking[j].callees) \/ (j > 1 /\ c = marking[j - 1].graph)}

\* What the subgraph wrote by the end of its operator n, its caller's copies first, what it reads
\* from there on, and the buffers its operator n finds in use.
Produced(g, n) ==
  Range(Graph(g).inputs) \union UNION {Range(Graph(g).ops[k].outs) : k \in 1..n}
ReadFrom(g, n) ==
  Range(Graph(g).outputs) \union UNION {Range(Graph(g).ops[k].ins) : k \in n..Len(Graph(g).ops)}
Alive(g, n) == UsedBy(Graph(g).ops[n]) \union (Produced(g, n) \intersect ReadFrom(g, n))

\* All that running the operator may write or read.
Touched(op) == UsedBy(op) \union
  UNION {UNION {BuffersOf(h) : h \in Reach(c)} : c \in Range(op.callees)}

\* The planner keeps any two of these apart.
Meet(a, b) == IsActivation(a) /\ IsActivation(b) =>
  0 <= first[a] /\ 0 <= first[b] /\ OverlapInTime(a, b)
Together(A, B) == \A a \in A : \A b \in B : Meet(a, b)

\* While an operator runs, whatever of its subgraph is still to be read is kept apart from
\* whatever running it touches; and so are the inputs, which are there together at the start.
Spanned(g) == \A I \in {Range(Graph(g).inputs)} :
  /\ Together(I, I)
  /\ \A n \in DOMAIN Graph(g).ops : \A A \in {Alive(g, n)} : \A T \in {Touched(Graph(g).ops[n])} :
       Together(A, T)

Depth == DOMAIN marking
OpsOf(f) == Graph(f.graph).ops
OpAt(f) == OpsOf(f)[f.op]
Finished(f) == {n \in 1..f.op : n < f.op \/ ~f.inOp}

-----------------------------------------------------------------------------
\* The parts of the inductive invariant.

WalkTypes ==
  /\ model \in Models
  /\ scope \in Nat
  /\ first \in [Buffers -> Int] /\ last \in [Buffers -> Int]
  /\ marking \in Seq(CallRecord)

Timeline ==
  /\ \A b \in Buffers : first[b] \in -1..scope /\ last[b] \in -1..scope
  /\ \A v \in model.variables : first[v] = -1

\* The frame is at an operator of its subgraph, and was at it by now.
FrameFits(f) ==
  /\ f.op <= Len(OpsOf(f)) /\ f.start <= scope
  /\ f.inOp => f.op >= 1 /\ Range(f.callees) \subseteq Range(OpAt(f).callees)

\* The stack of calls: all but the innermost are inside an operator, which calls the next.
StackLinked ==
  /\ ~Marked => marking[Len(marking)].graph = 1
  /\ \A j \in Depth : \A f \in {marking[j]} : \A t \in {Base(j)} :
       /\ FrameFits(f)
       /\ f.inOp => t <= f.start
       /\ j > 1 => f.inOp /\ marking[j - 1].graph \in Range(OpAt(f).callees)

\* What a frame has done, if t is its base.
FrameDone(f, t) ==
  /\ \A b \in Range(Graph(f.graph).inputs) : Lived(b, t)
  /\ \A op \in {OpsOf(f)[n] : n \in Finished(f)} : OpDone(op, t)

\* What it has done for the operator it is in, if that started at t, with C to do.
OpUnderWay(f, C, t) == f.inOp =>
  /\ \A a \in Range(OpAt(f).ins) \union Range(OpAt(f).outs) :
       IsActivation(a) => 0 <= first[a] /\ first[a] <= t
  /\ \A s \in OpAt(f).scratch : first[s] <= t
  /\ \A c \in Range(OpAt(f).callees) : c \in C \/ WalkedDeep(c, t)

\* The bound variables name the values that a step may move in the stack but not change.
FramesDone == \A j \in Depth : \A f \in {marking[j]} :
  /\ \A t \in {Base(j)} : FrameDone(f, t)
  /\ \A t \in {marking[j].start} : \A C \in {Pending(j)} : OpUnderWay(f, C, t)

\* Both sides of Spanned as far as the frame has come: what was read since by an operator that
\* is finished meets what running op touched, and there is a scope by which all that was
\* produced existed and since when all of that was used.
FirstBy(A, t) == \A a \in A : IsActivation(a) => 0 <= first[a] /\ first[a] <= t
OpSpans(P, later, op) == \A U \in {UsedBy(op)} : \A T \in {Touched(op)} :
  /\ Together(U, T) /\ Together(P \intersect later, T)
  /\ \E s \in Nat : FirstBy(P, s) /\ \A b \in T : Lived(b, s)

ReadSince(f, n) == UNION {Range(OpsOf(f)[m].ins) : m \in {m \in Finished(f) : n <= m}}
FrameSpans(f) ==
  /\ \A I \in {Range(Graph(f.graph).inputs)} : Together(I, I)
  /\ \A n \in Finished(f) : \A P \in {Produced(f.graph, n)} : \A later \in {ReadSince(f, n)} :
       \A op \in {OpsOf(f)[n]} : OpSpans(P, later, op)
  /\ f.inOp => \A P \in {Produced(f.graph, f.op)} : FirstBy(P, f.start)
FramesSpan == \A j \in Depth : \A f \in {marking[j]} : FrameSpans(f)

\* The subgraphs that were finished once: D is closed, and no set of them calls in a cycle.
NoCycleIn(D) == \A S \in SUBSET D : S # {} => \E g \in S : Calls(g) \intersect S = {}
CalleesIn(f, C, D) ==
  /\ \A n \in Finished(f) : Range(OpsOf(f)[n].callees) \subseteq D
  /\ f.inOp => Range(OpAt(f).callees) \subseteq C \union D
Walked(D) ==
  /\ ClosedUnderCalls(D) /\ NoCycleIn(D)
  /\ \A g \in D : Spanned(g)
  /\ \A j \in Depth : \A f \in {marking[j]} : \A C \in {Pending(j)} : CalleesIn(f, C, D)
  /\ Marked => 1 \in D

WalkInv ==
  /\ WalkTypes /\ Timeline /\ StackLinked /\ FramesDone /\ FramesSpan
  /\ \E D \in SUBSET DOMAIN model.graphs : Walked(D)
  /\ Marked => WalkedDeep(1, 0)

-----------------------------------------------------------------------------
\* The model: what the walk and the lemmas below look up in it.

LEMMA ModelFacts ==
  ASSUME model \in Models
  PROVE  /\ model.graphs \in Seq(Subgraphs) /\ 1 \in DOMAIN model.graphs
         /\ DOMAIN model.graphs \subseteq Nat
<1>1. model.graphs \in Seq(Subgraphs) /\ model.graphs # <<>>
  BY ModelAssumption DEF ModelAssumption
<1>2. Len(model.graphs) \in Nat /\ DOMAIN model.graphs = 1..Len(model.graphs)
  BY <1>1
<1>3. QED
  BY <1>1, <1>2

LEMMA SubgraphFacts ==
  ASSUME model \in Models, NEW g \in DOMAIN model.graphs
  PROVE  /\ Graph(g) \in Subgraphs
         /\ Graph(g).ops \in Seq(Operators)
         /\ Len(Graph(g).ops) \in Nat /\ DOMAIN Graph(g).ops = 1..Len(Graph(g).ops)
         /\ BuffersOf(g) \subseteq Buffers
         /\ Calls(g) \subseteq DOMAIN model.graphs
<1>1. Graph(g) \in Subgraphs
  BY ModelFacts DEF Graph
<1>2. Graph(g).ops \in Seq(Operators)
  BY <1>1 DEF Subgraphs
<1>3. Len(Graph(g).ops) \in Nat /\ DOMAIN Graph(g).ops = 1..Len(Graph(g).ops)
  BY <1>2
<1>4. BuffersOf(g) \subseteq Buffers
  BY DEF Buffers
<1>5. \A n \in DOMAIN Graph(g).ops : WellFormed(model, Graph(g).ops[n])
  BY ModelAssumption DEF ModelAssumption, Graph
<1>6. Calls(g) \subseteq DOMAIN model.graphs
  BY <1>5 DEF Calls, Ops, Range, WellFormed
<1>7. QED
  BY <1>1, <1>2, <1>3, <1>4, <1>6

LEMMA OpFacts ==
  ASSUME model \in Models, NEW g \in DOMAIN model.graphs, NEW op \in Ops(g)
  PROVE  /\ op \in Operators
         /\ UsedBy(op) \subseteq BuffersOf(g) /\ UsedBy(op) \subseteq Buffers
         /\ Range(op.callees) \subseteq DOMAIN model.graphs
         /\ Range(op.callees) \subseteq Calls(g)
<1>1. op \in Operators
  BY SubgraphFacts DEF Ops, Range
<1>2. UsedBy(op) \subseteq BuffersOf(g)
  BY DEF UsedBy, BuffersOf, TensorsOf, ScratchOf
<1>3. Range(op.callees) \subseteq Calls(g)
  BY DEF Calls
<1>4. QED
  BY <1>1, <1>2, <1>3, SubgraphFacts

LEMMA ReachSelf ==
  ASSUME NEW g \in DOMAIN model.graphs
  PROVE  g \in Reach(g)
BY DEF Reach

LEMMA ReachClosed ==
  ASSUME model \in Models, NEW g
  PROVE  ClosedUnderCalls(Reach(g))
<1> SUFFICES ASSUME NEW h \in Reach(g), NEW c \in Calls(h) PROVE c \in Reach(g)
  BY DEF ClosedUnderCalls
<1>1. c \in DOMAIN model.graphs
  BY SubgraphFacts DEF Reach
<1>2. QED
  BY <1>1 DEF Reach, ClosedUnderCalls

\* What g reaches is g and what its callees reach.
LEMMA ReachUnfold ==
  ASSUME model \in Models, NEW g \in DOMAIN model.graphs
  PROVE  Reach(g) \subseteq {g} \union UNION {Reach(c) : c \in Calls(g)}
<1> DEFINE C == {g} \union UNION {Reach(c) : c \in Calls(g)}
<1>1. C \in SUBSET DOMAIN model.graphs
  BY DEF Reach
<1>2. ClosedUnderCalls(C)
  <2> SUFFICES ASSUME NEW h \in C, NEW c \in Calls(h) PROVE c \in C
    BY DEF ClosedUnderCalls
  <2>1. CASE h = g
    <3>1. c \in Calls(g) /\ c \in DOMAIN model.graphs
      BY <2>1, SubgraphFacts
    <3>2. QED
      BY <3>1, ReachSelf
  <2>2. CASE h # g
    <3>1. PICK d \in Calls(g) : h \in Reach(d)
      BY <2>2
    <3>2. c \in Reach(d)
      BY <3>1, ReachClosed DEF ClosedUnderCalls
    <3>3. QED
      BY <3>1, <3>2
  <2>3. QED
    BY <2>1, <2>2
<1>3. QED
  BY <1>1, <1>2 DEF Reach

-----------------------------------------------------------------------------
\* Lifetimes only grow, and what was shown of them stays.

Grows ==
  /\ UNCHANGED model
  /\ scope <= scope'
  /\ \A b \in Buffers :
       /\ last[b] <= last'[b]
       /\ first[b] >= 0 \/ b \in model.variables => first'[b] = first[b]

LEMMA ModelStays ==
  ASSUME UNCHANGED model
  PROVE  /\ Buffers' = Buffers
         /\ \A g : /\ Graph(g)' = Graph(g) /\ Ops(g)' = Ops(g) /\ BuffersOf(g)' = BuffersOf(g)
                   /\ Calls(g)' = Calls(g) /\ Reach(g)' = Reach(g)
         /\ \A b : /\ IsActivation(b)' = IsActivation(b)
                   /\ NeedsAllocating(b)' = NeedsAllocating(b)
<1>1. \A g : Graph(g)' = Graph(g) /\ Ops(g)' = Ops(g)
  BY DEF Graph, Ops
<1>2. \A g : BuffersOf(g)' = BuffersOf(g) /\ Calls(g)' = Calls(g)
  BY <1>1 DEF BuffersOf, TensorsOf, ScratchOf, Calls
<1>3. Buffers' = Buffers
  BY <1>2 DEF Buffers
<1>4. \A g : Reach(g)' = Reach(g)
  BY <1>2 DEF Reach, ClosedUnderCalls
<1>5. \A b : IsActivation(b)' = IsActivation(b) /\ NeedsAllocating(b)' = NeedsAllocating(b)
  BY DEF IsActivation, NeedsAllocating
<1>6. QED
  BY <1>1, <1>2, <1>3, <1>4, <1>5

LEMMA LivedGrows ==
  ASSUME WalkTypes, Timeline, Timeline', scope' \in Nat, Grows, NEW b \in Buffers, NEW t \in Nat,
         NEW u \in Nat, u <= t, Lived(b, t)
  PROVE  Lived(b, u)'
<1>1. Buffers' = Buffers /\ IsActivation(b)' = IsActivation(b)
  BY ModelStays DEF Grows
<1>2. last[b] <= last'[b] /\ last'[b] \in -1..scope' /\ last[b] \in Int
  BY <1>1 DEF Timeline, Grows, WalkTypes
<1>3. u <= last'[b]
  BY <1>2 DEF Lived
<1>4. ASSUME IsActivation(b) PROVE HasLifetime(b)'
  <2>1. 0 <= first[b] /\ first[b] <= last[b] /\ first'[b] = first[b] /\ first[b] \in Int
    BY <1>4 DEF Lived, HasLifetime, Grows, WalkTypes
  <2>2. QED
    BY <1>2, <2>1 DEF HasLifetime
<1>5. QED
  BY <1>1, <1>3, <1>4 DEF Lived

LEMMA OverlapGrows ==
  ASSUME WalkTypes, Timeline, Timeline', scope' \in Nat, Grows, NEW a \in Buffers, NEW b \in Buffers,
         NEW t \in Nat, Lived(a, t), Lived(b, t), NeedsAllocating(a), IsActivation(b),
         OverlapInTime(a, b)
  PROVE  OverlapInTime(a, b)'
<1>1. first'[b] = first[b] /\ first[b] \in Int
  BY DEF Lived, HasLifetime, Grows, WalkTypes
<1>2. first'[a] = first[a] /\ first[a] \in Int
  BY DEF Lived, HasLifetime, Grows, WalkTypes, IsActivation
<1>3. Buffers' = Buffers
  BY ModelStays DEF Grows
<1>4. /\ last[a] <= last'[a] /\ last[b] <= last'[b] /\ last[a] \in Int /\ last[b] \in Int
      /\ last'[a] \in Int /\ last'[b] \in Int
  BY <1>3 DEF Grows, WalkTypes, Timeline
<1>5. QED
  BY <1>1, <1>2, <1>4 DEF OverlapInTime

LEMMA OverlapsGrow ==
  ASSUME WalkTypes, Timeline, Timeline', scope' \in Nat, Grows, NEW g \in DOMAIN model.graphs,
         NEW op \in Ops(g), NEW t \in Nat,
         \A a \in UsedBy(op) : Lived(a, t),
         \A c \in Range(op.callees) : \A h \in Reach(c) : \A b \in BuffersOf(h) : Lived(b, t),
         OverlapsCallees(op)
  PROVE  OverlapsCallees(op)'
<1> SUFFICES ASSUME NEW c \in Range(op.callees), NEW h \in Reach(c), NEW b \in BuffersOf(h),
                    NEW a \in UsedBy(op), NeedsAllocating(a), IsActivation(b)
             PROVE  OverlapInTime(a, b)'
  BY ModelStays DEF OverlapsCallees, Grows
<1>1. a \in Buffers
  BY OpFacts DEF WalkTypes
<1>2. b \in Buffers
  BY SubgraphFacts DEF WalkTypes, Reach
<1>3. OverlapInTime(a, b)
  BY DEF OverlapsCallees
<1>4. QED
  BY <1>1, <1>2, <1>3, OverlapGrows

LEMMA WalkedGrows ==
  ASSUME WalkTypes, Timeline, Timeline', scope' \in Nat, Grows, NEW g \in DOMAIN model.graphs,
         NEW t \in Nat, NEW u \in Nat, u <= t, WalkedDeep(g, t)
  PROVE  WalkedDeep(g, u)'
<1> SUFFICES ASSUME NEW h \in Reach(g)
             PROVE  /\ \A b \in BuffersOf(h) : Lived(b, u)'
                    /\ \A op \in Ops(h) : OverlapsCallees(op)'
  BY ModelStays DEF WalkedDeep, Grows
<1>1. h \in DOMAIN model.graphs
  BY DEF Reach
<1>2. \A b \in BuffersOf(h) : Lived(b, u)'
  BY <1>1, SubgraphFacts, LivedGrows DEF WalkedDeep, WalkTypes
<1>3. ASSUME NEW op \in Ops(h) PROVE OverlapsCallees(op)'
  <2>1. \A a \in UsedBy(op) : Lived(a, t)
    BY <1>1, OpFacts DEF WalkedDeep, WalkTypes
  <2>2. ASSUME NEW c \in Range(op.callees), NEW k \in Reach(c) PROVE k \in Reach(g)
    <3>1. c \in Reach(g) /\ ClosedUnderCalls(Reach(g)) /\ Reach(g) \in SUBSET DOMAIN model.graphs
      BY <1>1, OpFacts, ReachClosed DEF ClosedUnderCalls, WalkTypes, Reach
    <3>2. QED
      BY <3>1 DEF Reach
  <2>3. \A c \in Range(op.callees) : \A k \in Reach(c) : \A b \in BuffersOf(k) : Lived(b, t)
    BY <2>2 DEF WalkedDeep
  <2>4. OverlapsCallees(op)
    BY DEF WalkedDeep
  <2>5. QED
    BY <1>1, <2>1, <2>3, <2>4, OverlapsGrow
<1>4. QED
  BY <1>2, <1>3

LEMMA DoneGrows ==
  ASSUME WalkTypes, Timeline, Timeline', scope' \in Nat, Grows, NEW g \in DOMAIN model.graphs,
         NEW op \in Ops(g), NEW t \in Nat, OpDone(op, t)
  PROVE  OpDone(op, t)'
<1>1. t <= t /\ model \in Models
  BY DEF WalkTypes
<1>2. \A a \in UsedBy(op) : Lived(a, t)'
  BY OpFacts, LivedGrows DEF OpDone, WalkTypes
<1>3. \A c \in Range(op.callees) : WalkedDeep(c, t)'
  <2> SUFFICES ASSUME NEW c \in Range(op.callees) PROVE WalkedDeep(c, t)'
    OBVIOUS
  <2>1. c \in DOMAIN model.graphs
    BY <1>1, OpFacts
  <2>2. WalkedDeep(c, t)
    BY DEF OpDone
  <2>3. QED
    BY <1>1, <2>1, <2>2, WalkedGrows
<1>4. \A c \in Range(op.callees) : \A h \in Reach(c) : \A b \in BuffersOf(h) : Lived(b, t)
  BY DEF OpDone, WalkedDeep
<1>5. OverlapsCallees(op)'
  BY <1>4, OverlapsGrow DEF OpDone
<1>6. QED
  BY <1>2, <1>3, <1>5 DEF OpDone

\* The span of an operator is a matter of the model, and of lifetimes that only grow.
LEMMA SpanStays ==
  ASSUME UNCHANGED model, NEW g, NEW n, NEW op, NEW f
  PROVE  /\ Produced(g, n)' = Produced(g, n) /\ Alive(g, n)' = Alive(g, n)
         /\ UsedBy(op)' = UsedBy(op) /\ Touched(op)' = Touched(op)
         /\ ReadSince(f, n)' = ReadSince(f, n) /\ Finished(f)' = Finished(f)
         /\ OpsOf(f)' = OpsOf(f) /\ Graph(g)' = Graph(g)
<1>1. Graph(g)' = Graph(g) /\ OpsOf(f)' = OpsOf(f) /\ Finished(f)' = Finished(f)
  BY DEF Graph, OpsOf, Finished
<1>2. Produced(g, n)' = Produced(g, n) /\ ReadFrom(g, n)' = ReadFrom(g, n)
  BY <1>1 DEF Produced, ReadFrom
<1>3. UsedBy(op)' = UsedBy(op)
  BY DEF UsedBy
<1>4. Alive(g, n)' = Alive(g, n)
  BY <1>1, <1>2 DEF Alive, UsedBy
<1>5. Touched(op)' = Touched(op)
  BY ModelStays DEF Touched, UsedBy
<1>6. ReadSince(f, n)' = ReadSince(f, n)
  BY <1>1 DEF ReadSince
<1>7. QED
  BY <1>1, <1>2, <1>3, <1>4, <1>5, <1>6

LEMMA TouchedFacts ==
  ASSUME model \in Models, NEW g \in DOMAIN model.graphs, NEW op \in Ops(g)
  PROVE  UsedBy(op) \subseteq Touched(op) /\ Touched(op) \subseteq Buffers
<1>1. \A c \in Range(op.callees) : \A h \in Reach(c) : BuffersOf(h) \subseteq Buffers
  BY SubgraphFacts DEF Reach
<1>2. QED
  BY <1>1, OpFacts DEF Touched

LEMMA TogetherGrows ==
  ASSUME WalkTypes, Timeline', Grows, NEW A, NEW B, A \subseteq Buffers, B \subseteq Buffers,
         Together(A, B)
  PROVE  Together(A, B)'
<1> SUFFICES ASSUME NEW a \in A, NEW b \in B PROVE Meet(a, b)'
  BY DEF Together
<1>1. a \in Buffers /\ b \in Buffers /\ Meet(a, b)
  BY DEF Together
<1>2. /\ first[a] \in Int /\ first[b] \in Int /\ last[a] \in Int /\ last[b] \in Int
      /\ last'[a] \in Int /\ last'[b] \in Int /\ last[a] <= last'[a] /\ last[b] <= last'[b]
      /\ first[a] >= 0 => first'[a] = first[a]
      /\ first[b] >= 0 => first'[b] = first[b]
  <2>1. Buffers' = Buffers
    BY ModelStays DEF Grows
  <2>2. last'[a] \in -1..scope' /\ last'[b] \in -1..scope'
    BY <1>1, <2>1 DEF Timeline
  <2>3. last'[a] \in Int /\ last'[b] \in Int
    BY <2>2
  <2>4. QED
    BY <1>1, <2>3 DEF Grows, WalkTypes
<1>3. (IsActivation(a)' <=> IsActivation(a)) /\ (IsActivation(b)' <=> IsActivation(b))
  BY ModelStays DEF Grows
<1>4. QED
  BY <1>1, <1>2, <1>3 DEF Meet, OverlapInTime

LEMMA FirstGrows ==
  ASSUME WalkTypes, Grows, NEW A, A \subseteq Buffers, NEW t \in Nat, FirstBy(A, t)
  PROVE  FirstBy(A, t)'
<1> SUFFICES ASSUME NEW a \in A, IsActivation(a) PROVE 0 <= first'[a] /\ first'[a] <= t
  BY ModelStays DEF FirstBy, Grows
<1>1. a \in Buffers /\ 0 <= first[a] /\ first[a] <= t /\ first[a] \in Int
  BY DEF FirstBy, WalkTypes
<1>2. QED
  BY <1>1 DEF Grows

LEMMA ProducedFacts ==
  ASSUME model \in Models, NEW g \in DOMAIN model.graphs, NEW n \in 0..Len(Graph(g).ops)
  PROVE  /\ Produced(g, n) \subseteq BuffersOf(g) /\ Produced(g, n) \subseteq Buffers
         /\ n \in DOMAIN Graph(g).ops => Alive(g, n) \subseteq Buffers
<1>1. Len(Graph(g).ops) \in Nat /\ DOMAIN Graph(g).ops = 1..Len(Graph(g).ops)
  BY SubgraphFacts
<1>2. \A k \in 1..n : Graph(g).ops[k] \in Ops(g)
  BY <1>1 DEF Ops, Range
<1>3. Produced(g, n) \subseteq BuffersOf(g)
  BY <1>2 DEF Produced, BuffersOf, TensorsOf
<1>4. BuffersOf(g) \subseteq Buffers
  BY SubgraphFacts
<1>5. n \in DOMAIN Graph(g).ops => Alive(g, n) \subseteq Buffers
  BY <1>2, <1>1, <1>3, <1>4, OpFacts DEF Alive
<1>6. QED
  BY <1>3, <1>4, <1>5

LEMMA SpannedGrows ==
  ASSUME WalkTypes, Timeline', Grows, NEW g \in DOMAIN model.graphs, Spanned(g)
  PROVE  Spanned(g)'
<1>1. model \in Models /\ UNCHANGED model
  BY DEF WalkTypes, Grows
<1>2. Graph(g)' = Graph(g) /\ Len(Graph(g).ops) \in Nat /\ DOMAIN Graph(g).ops = 1..Len(Graph(g).ops)
  BY <1>1, SpanStays, SubgraphFacts
<1>3. ASSUME NEW I, I = Range(Graph(g).inputs) PROVE Together(I, I)'
  <2>1. I \subseteq Buffers
    BY <1>1, <1>3, SubgraphFacts DEF BuffersOf, TensorsOf
  <2>2. Together(I, I)
    BY <1>3 DEF Spanned
  <2>3. QED
    BY <2>1, <2>2, TogetherGrows
<1>4. ASSUME NEW n \in DOMAIN Graph(g).ops, NEW A, A = Alive(g, n), NEW T, T = Touched(Graph(g).ops[n])
      PROVE  Together(A, T)'
  <2>1. A \subseteq Buffers
    <3>1. n \in 0..Len(Graph(g).ops)
      BY <1>2
    <3>2. QED
      BY <1>1, <1>4, <3>1, ProducedFacts
  <2>2. T \subseteq Buffers
    <3>1. Graph(g).ops[n] \in Ops(g)
      BY DEF Ops, Range
    <3>2. QED
      BY <1>1, <1>4, <3>1, TouchedFacts
  <2>3. Together(A, T)
    BY <1>4 DEF Spanned
  <2>4. QED
    BY <2>1, <2>2, <2>3, TogetherGrows
<1>5. \A n : Alive(g, n)' = Alive(g, n) /\ Touched(Graph(g).ops[n])' = Touched(Graph(g).ops[n])
  <2>1. \A n, op : Alive(g, n)' = Alive(g, n) /\ Touched(op)' = Touched(op)
    BY <1>1, SpanStays
  <2>2. QED
    BY <1>2, <2>1
<1>6. QED
  BY <1>2, <1>3, <1>4, <1>5 DEF Spanned

\* The two updates, in any step of the walk: at and used are scopes, and a variable tensor is
\* not among what is created.
LEMMA UpdateGrows ==
  ASSUME WalkTypes, Timeline, UNCHANGED model, scope' \in Nat, scope <= scope',
         NEW S, NEW at \in 0..scope', first' = UpdateFirstCreated(first, S, at),
         NEW T, NEW used \in scope..scope', last' = UpdateLastUsed(last, T, used),
         S \intersect model.variables = {}
  PROVE  /\ Grows /\ Timeline'
         /\ first' \in [Buffers -> Int] /\ last' \in [Buffers -> Int]
         /\ \A b \in Buffers :
              /\ first'[b] = IF b \in S /\ first[b] = -1 THEN at ELSE first[b]
              /\ last'[b] = IF b \in T THEN used ELSE last[b]
         /\ at <= used => \A b \in Buffers \intersect S \intersect T : \A t \in Nat :
                            t <= used => Lived(b, t)'
<1>1. /\ scope \in Nat /\ first \in [Buffers -> Int] /\ last \in [Buffers -> Int]
      /\ \A b \in Buffers : first[b] \in -1..scope /\ last[b] \in -1..scope
  BY DEF WalkTypes, Timeline
<1>2. /\ first' = [b \in Buffers |-> IF b \in S /\ first[b] = -1 THEN at ELSE first[b]]
      /\ last' = [b \in Buffers |-> IF b \in T THEN used ELSE last[b]]
  BY <1>1 DEF UpdateFirstCreated, UpdateLastUsed, kUninitializedLifetime
<1>3. /\ first' \in [Buffers -> Int] /\ last' \in [Buffers -> Int]
      /\ \A b \in Buffers :
           /\ first'[b] = IF b \in S /\ first[b] = -1 THEN at ELSE first[b]
           /\ last'[b] = IF b \in T THEN used ELSE last[b]
  BY <1>1, <1>2
<1>4. Buffers' = Buffers /\ \A b : IsActivation(b)' = IsActivation(b)
  BY ModelStays
<1>5. Timeline'
  <2>1. \A b \in Buffers : first'[b] \in -1..scope' /\ last'[b] \in -1..scope'
    BY <1>1, <1>3
  <2>2. \A v \in model.variables : v \in Buffers
    BY DEF Buffers
  <2>3. \A v \in model.variables : first'[v] = -1
    BY <1>3, <2>2 DEF Timeline
  <2>4. QED
    BY <1>4, <2>1, <2>3 DEF Timeline
<1>6. Grows
  <2>1. ASSUME NEW b \in Buffers PROVE last[b] <= last'[b]
    BY <1>1, <1>3
  <2>2. ASSUME NEW b \in Buffers, first[b] >= 0 \/ b \in model.variables PROVE first'[b] = first[b]
    BY <1>1, <1>3, <2>2
  <2>3. QED
    BY <2>1, <2>2 DEF Grows
<1>7. ASSUME at <= used, NEW b \in Buffers \intersect S \intersect T, NEW t \in Nat, t <= used
      PROVE  Lived(b, t)'
  <2>1. last'[b] = used /\ used \in Nat /\ used <= scope'
    BY <1>1, <1>3
  <2>2. 0 <= first'[b] /\ first'[b] <= used
    <3>1. CASE first[b] = -1
      BY <1>1, <1>3, <1>7, <3>1
    <3>2. CASE first[b] # -1
      BY <1>1, <1>3, <3>2
    <3>3. QED
      BY <3>1, <3>2
  <2>3. QED
    BY <1>7, <2>1, <2>2 DEF Lived, HasLifetime
<1>8. QED
  BY <1>3, <1>5, <1>6, <1>7

-----------------------------------------------------------------------------
\* The frames of the walk.

LEMMA StackFacts ==
  ASSUME WalkTypes, StackLinked
  PROVE  /\ Len(marking) \in Nat /\ Depth = 1..Len(marking) /\ (Marked <=> Len(marking) = 0)
         /\ \A j \in Depth : marking[j] \in CallRecord /\ FrameFits(marking[j])
         /\ \A j \in Depth : Base(j) \in Nat /\ Base(j) <= scope
         /\ \A j \in Depth : Pending(j) \subseteq DOMAIN model.graphs
<1>1. Len(marking) \in Nat /\ Depth = 1..Len(marking) /\ \A j \in Depth : marking[j] \in CallRecord
  BY DEF WalkTypes, Depth
<1>2. \A j \in Depth : FrameFits(marking[j])
  BY DEF StackLinked
<1>3. \A j \in Depth : marking[j].start \in Nat /\ marking[j].start <= scope
  BY <1>1, <1>2 DEF CallRecord, FrameFits
<1>4. ASSUME NEW j \in Depth PROVE Base(j) \in Nat /\ Base(j) <= scope
  <2>1. CASE j = Len(marking)
    BY <2>1 DEF Base, WalkTypes
  <2>2. CASE j # Len(marking)
    <3>1. j + 1 \in Depth
      BY <1>1, <2>2
    <3>2. QED
      BY <1>3, <2>2, <3>1 DEF Base
  <2>3. QED
    BY <2>1, <2>2
<1>5. Marked <=> Len(marking) = 0
  BY DEF Marked, WalkTypes
<1>6. QED
  BY <1>1, <1>2, <1>4, <1>5 DEF Pending

LEMMA FrameFacts ==
  ASSUME model \in Models, NEW f \in CallRecord, FrameFits(f)
  PROVE  /\ f.graph \in DOMAIN model.graphs /\ f.op \in Nat /\ f.inOp \in BOOLEAN /\ f.start \in Nat
         /\ OpsOf(f) \in Seq(Operators) /\ f.op <= Len(OpsOf(f)) /\ Len(OpsOf(f)) \in Nat
         /\ \A n \in Finished(f) : OpsOf(f)[n] \in Ops(f.graph)
         /\ f.inOp => OpAt(f) \in Ops(f.graph) /\ f.op \in DOMAIN OpsOf(f)
<1>1. f.graph \in DOMAIN model.graphs /\ f.op \in Nat /\ f.inOp \in BOOLEAN /\ f.start \in Nat
  BY DEF CallRecord
<1>2. OpsOf(f) \in Seq(Operators) /\ f.op <= Len(OpsOf(f))
  BY <1>1, SubgraphFacts DEF OpsOf, FrameFits
<1>3. \A n \in 1..f.op : n \in DOMAIN OpsOf(f)
  BY <1>1, <1>2
<1>4. \A n \in 1..f.op : OpsOf(f)[n] \in Ops(f.graph)
  BY <1>2, <1>3 DEF Ops, Range, OpsOf
<1>5. f.inOp => f.op \in 1..f.op
  BY <1>1 DEF FrameFits
<1>6. QED
  BY <1>1, <1>2, <1>3, <1>4, <1>5 DEF Finished, OpAt

\* A frame, wherever it is in the stack after the step, keeps what it has done.
LEMMA FrameKeeps ==
  ASSUME WalkTypes, Timeline, Timeline', scope' \in Nat, Grows,
         NEW f \in CallRecord, FrameFits(f), NEW t \in Nat, FrameDone(f, t)
  PROVE  FrameDone(f, t)'
<1>1. /\ f.graph \in DOMAIN model.graphs /\ model \in Models
      /\ \A n \in Finished(f) : OpsOf(f)[n] \in Ops(f.graph)
  BY FrameFacts DEF WalkTypes
<1>2. OpsOf(f)' = OpsOf(f) /\ Graph(f.graph)' = Graph(f.graph) /\ Finished(f)' = Finished(f)
  BY DEF OpsOf, Graph, Grows, Finished
<1>3. ASSUME NEW b \in Range(Graph(f.graph).inputs) PROVE Lived(b, t)'
  <2>1. b \in Buffers /\ Lived(b, t) /\ t <= t
    BY <1>1, SubgraphFacts DEF FrameDone, BuffersOf, TensorsOf
  <2>2. QED
    BY <2>1, LivedGrows
<1>4. ASSUME NEW n \in Finished(f), NEW op, op = OpsOf(f)[n] PROVE OpDone(op, t)'
  <2>1. OpDone(op, t) /\ op \in Ops(f.graph)
    BY <1>1, <1>4 DEF FrameDone
  <2>2. QED
    BY <1>1, <2>1, DoneGrows
<1>5. QED
  BY <1>2, <1>3, <1>4 DEF FrameDone

\* So does the operator it is in, if its scratch buffers are not created later than it began.
LEMMA UnderWayKeeps ==
  ASSUME WalkTypes, Timeline, Timeline', scope' \in Nat, Grows,
         NEW f \in CallRecord, FrameFits(f), NEW t \in Nat, NEW C, OpUnderWay(f, C, t),
         f.inOp => \A s \in OpAt(f).scratch : first'[s] <= t
  PROVE  OpUnderWay(f, C, t)'
<1> SUFFICES ASSUME f.inOp PROVE OpUnderWay(f, C, t)'
  BY DEF OpUnderWay
<1>1. OpAt(f) \in Ops(f.graph) /\ f.graph \in DOMAIN model.graphs /\ model \in Models
  BY FrameFacts DEF WalkTypes
<1>2. OpAt(f)' = OpAt(f)
  BY DEF OpAt, OpsOf, Graph, Grows
<1>3. ASSUME NEW a \in Range(OpAt(f).ins) \union Range(OpAt(f).outs), IsActivation(a)'
      PROVE  0 <= first'[a] /\ first'[a] <= t
  <2>1. a \in Buffers /\ IsActivation(a)
    BY <1>1, <1>3, OpFacts, ModelStays DEF UsedBy, Grows
  <2>2. 0 <= first[a] /\ first[a] <= t /\ first[a] \in Int
    BY <2>1 DEF OpUnderWay, WalkTypes
  <2>3. QED
    BY <2>1, <2>2 DEF Grows
<1>4. ASSUME NEW c \in Range(OpAt(f).callees), c \notin C PROVE WalkedDeep(c, t)'
  <2>1. WalkedDeep(c, t) /\ c \in DOMAIN model.graphs /\ t <= t
    BY <1>1, <1>4, OpFacts DEF OpUnderWay
  <2>2. QED
    BY <2>1, WalkedGrows
<1>5. QED
  BY <1>2, <1>3, <1>4 DEF OpUnderWay

LEMMA OpSpansGrow ==
  ASSUME WalkTypes, Timeline, Timeline', scope' \in Nat, Grows, NEW g \in DOMAIN model.graphs,
         NEW op \in Ops(g), NEW P, P \subseteq Buffers, NEW later, OpSpans(P, later, op)
  PROVE  OpSpans(P, later, op)'
<1>1. model \in Models /\ UNCHANGED model
  BY DEF WalkTypes, Grows
<1>2. UsedBy(op)' = UsedBy(op) /\ Touched(op)' = Touched(op)
  BY <1>1, SpanStays
<1>3. ASSUME NEW U, U = UsedBy(op), NEW T, T = Touched(op)
      PROVE  /\ Together(U, T)' /\ Together(P \intersect later, T)'
             /\ \E s \in Nat : FirstBy(P, s)' /\ \A b \in T : Lived(b, s)'
  <2>1. U \subseteq Buffers /\ T \subseteq Buffers
    BY <1>1, <1>3, OpFacts, TouchedFacts
  <2>2. Together(U, T) /\ Together(P \intersect later, T)
    BY <1>3 DEF OpSpans
  <2>3. Together(U, T)'
    BY <2>1, <2>2, TogetherGrows
  <2>4. Together(P \intersect later, T)'
    <3>1. PICK A : A = P \intersect later
      OBVIOUS
    <3>2. A \subseteq Buffers /\ Together(A, T)
      BY <2>2, <3>1
    <3>3. QED
      BY <2>1, <3>1, <3>2, TogetherGrows
  <2>5. PICK s \in Nat : FirstBy(P, s) /\ \A b \in T : Lived(b, s)
    BY <1>3 DEF OpSpans
  <2>6. FirstBy(P, s)' /\ \A b \in T : Lived(b, s)'
    <3>1. s <= s
      OBVIOUS
    <3>2. QED
      BY <2>1, <2>5, <3>1, FirstGrows, LivedGrows
  <2>7. QED
    BY <2>3, <2>4, <2>6
<1>4. QED
  BY <1>2, <1>3 DEF OpSpans

LEMMA SpansKeep ==
  ASSUME WalkTypes, Timeline, Timeline', scope' \in Nat, Grows,
         NEW f \in CallRecord, FrameFits(f), FrameSpans(f)
  PROVE  FrameSpans(f)'
<1>1. /\ model \in Models /\ UNCHANGED model /\ f.graph \in DOMAIN model.graphs /\ f.op \in Nat
      /\ f.op <= Len(OpsOf(f)) /\ OpsOf(f) = Graph(f.graph).ops /\ f.start \in Nat
      /\ Len(OpsOf(f)) \in Nat /\ \A n \in Finished(f) : OpsOf(f)[n] \in Ops(f.graph)
  BY FrameFacts DEF WalkTypes, Grows, OpsOf
<1>2. /\ \A n : Produced(f.graph, n)' = Produced(f.graph, n) /\ ReadSince(f, n)' = ReadSince(f, n)
      /\ Finished(f)' = Finished(f) /\ OpsOf(f)' = OpsOf(f) /\ Graph(f.graph)' = Graph(f.graph)
  BY <1>1, SpanStays
<1>3. \A n \in 0..f.op : Produced(f.graph, n) \subseteq Buffers
  BY <1>1, ProducedFacts
<1>4. ASSUME NEW I, I = Range(Graph(f.graph).inputs) PROVE Together(I, I)'
  <2>1. I \subseteq Buffers
    BY <1>1, <1>4, SubgraphFacts DEF BuffersOf, TensorsOf
  <2>2. Together(I, I)
    BY <1>4 DEF FrameSpans
  <2>3. QED
    BY <2>1, <2>2, TogetherGrows
<1>5. ASSUME NEW n \in Finished(f), NEW P, P = Produced(f.graph, n), NEW later, later = ReadSince(f, n),
             NEW op, op = OpsOf(f)[n]
      PROVE  OpSpans(P, later, op)'
  <2>1. OpSpans(P, later, op) /\ op \in Ops(f.graph)
    BY <1>1, <1>5 DEF FrameSpans
  <2>2. P \subseteq Buffers
    BY <1>1, <1>3, <1>5 DEF Finished
  <2>3. QED
    BY <1>1, <2>1, <2>2, OpSpansGrow
<1>6. ASSUME f.inOp, NEW P, P = Produced(f.graph, f.op) PROVE FirstBy(P, f.start)'
  <2>1. FirstBy(P, f.start) /\ P \subseteq Buffers
    BY <1>1, <1>3, <1>6 DEF FrameSpans
  <2>2. QED
    BY <1>1, <2>1, FirstGrows
<1>7. QED
  BY <1>2, <1>4, <1>5, <1>6 DEF FrameSpans

\* So it is for each frame that a step leaves alone, and for the subgraphs finished before.
LEMMA OthersSpan ==
  ASSUME WalkTypes, Timeline, StackLinked, FramesSpan, Timeline', scope' \in Nat, Grows,
         NEW j \in Depth, NEW f, f = marking[j]
  PROVE  FrameSpans(f)'
<1>1. f \in CallRecord /\ FrameFits(f) /\ FrameSpans(f)
  BY StackFacts DEF FramesSpan
<1>2. QED
  BY <1>1, SpansKeep

LEMMA WalkedSpan ==
  ASSUME WalkTypes, Timeline', Grows, NEW D \in SUBSET DOMAIN model.graphs, Walked(D)
  PROVE  \A g \in D : Spanned(g)'
BY SpannedGrows DEF Walked

LEMMA CalleesStay ==
  ASSUME UNCHANGED model, NEW f, NEW C, NEW D
  PROVE  /\ CalleesIn(f, C, D)' <=> CalleesIn(f, C, D)
         /\ ClosedUnderCalls(D)' <=> ClosedUnderCalls(D)
         /\ NoCycleIn(D)' <=> NoCycleIn(D)
         /\ OpsOf(f)' = OpsOf(f) /\ OpAt(f)' = OpAt(f) /\ Finished(f)' = Finished(f)
<1>1. OpsOf(f)' = OpsOf(f) /\ OpAt(f)' = OpAt(f) /\ Finished(f)' = Finished(f)
  BY DEF OpsOf, OpAt, Graph, Finished
<1>2. CalleesIn(f, C, D)' <=> CalleesIn(f, C, D)
  BY <1>1 DEF CalleesIn
<1>3. ClosedUnderCalls(D)' <=> ClosedUnderCalls(D)
  BY ModelStays DEF ClosedUnderCalls
<1>4. NoCycleIn(D)' <=> NoCycleIn(D)
  BY ModelStays DEF NoCycleIn
<1>5. QED
  BY <1>1, <1>2, <1>3, <1>4

LEMMA FitsStays ==
  ASSUME UNCHANGED model, scope \in Nat, scope' \in Nat, scope <= scope',
         NEW f \in CallRecord, FrameFits(f)
  PROVE  f \in CallRecord' /\ FrameFits(f)'
<1>1. f.start \in Nat /\ f.start <= scope
  BY DEF CallRecord, FrameFits
<1>2. f.start <= scope'
  BY <1>1
<1>3. QED
  BY <1>2, CalleesStay DEF FrameFits, CallRecord

\* BeginOp and EndOp change the innermost frame, and not its subgraph.
LEMMA OuterFramesStay ==
  ASSUME WalkTypes, StackLinked, ~Marked, UNCHANGED model, scope' \in Nat,
         NEW g \in CallRecord, g.graph = marking[1].graph, marking' = [marking EXCEPT ![1] = g]
  PROVE  /\ marking' \in Seq(CallRecord)' /\ Len(marking') = Len(marking) /\ Depth' = Depth
         /\ marking'[1] = g /\ 1 \in Depth /\ ~Marked'
         /\ \A j \in Depth : Base(j)' = Base(j)
         /\ \A j \in Depth \ {1} : marking'[j] = marking[j] /\ Pending(j)' = Pending(j)
<1>1. Len(marking) \in Nat /\ Depth = 1..Len(marking) /\ Len(marking) # 0
  BY StackFacts
<1>2. 1 \in Depth
  BY <1>1
<1>3. CallRecord' = CallRecord
  BY DEF CallRecord
<1>4. marking' \in Seq(CallRecord) /\ Len(marking') = Len(marking) /\ Depth' = Depth
  BY <1>1 DEF WalkTypes, Depth
<1>5. marking'[1] = g /\ \A j \in Depth \ {1} : marking'[j] = marking[j]
  BY <1>1, <1>2 DEF WalkTypes, Depth
<1>6. \A j \in Depth : marking'[j].graph = marking[j].graph
  BY <1>5
<1>7. ~Marked'
  BY <1>1, <1>4 DEF Marked
<1>8. ASSUME NEW j \in Depth PROVE Base(j)' = Base(j)
  <2>1. CASE j = Len(marking)
    BY <1>4, <2>1 DEF Base
  <2>2. CASE j # Len(marking)
    <3>1. j + 1 \in Depth \ {1}
      BY <1>1, <2>2
    <3>2. QED
      BY <1>4, <1>5, <2>2, <3>1 DEF Base
  <2>3. QED
    BY <2>1, <2>2
<1>9. ASSUME NEW j \in Depth \ {1} PROVE Pending(j)' = Pending(j)
  <2>1. j - 1 \in Depth
    BY <1>1
  <2>2. QED
    BY <1>5, <1>6, <2>1 DEF Pending
<1>10. QED
  BY <1>2, <1>3, <1>4, <1>5, <1>7, <1>8, <1>9

-----------------------------------------------------------------------------
\* BeginOp.  What the operator reads has a lifetime by now: what its subgraph was called with,
\* and what operators before it wrote.
LEMMA InputsLived ==
  ASSUME WalkTypes, NEW f \in CallRecord, FrameFits(f), ~f.inOp, f.op < Len(OpsOf(f)),
         NEW t \in Nat, FrameDone(f, t),
         NEW a \in Range(OpsOf(f)[f.op + 1].ins), IsActivation(a)
  PROVE  a \in Buffers /\ HasLifetime(a)
<1>1. /\ f.graph \in DOMAIN model.graphs /\ model \in Models /\ f.op \in Nat
      /\ OpsOf(f) \in Seq(Operators) /\ OpsOf(f) = Graph(f.graph).ops
      /\ Graph(f.graph) = model.graphs[f.graph]
  BY FrameFacts DEF WalkTypes, OpsOf, Graph
<1>2. f.op + 1 \in DOMAIN OpsOf(f)
  BY <1>1
<1>3. a \notin model.constants \union model.variables \union DOMAIN model.alternate
  BY DEF IsActivation, NeedsAllocating
<1>4. ReadsInOrder(model, Graph(f.graph))
  BY <1>1, OrderAssumption DEF OrderAssumption
<1>5. \/ a \in Range(Graph(f.graph).inputs)
      \/ \E k \in 1..(f.op + 1 - 1) : a \in Range(OpsOf(f)[k].outs)
  BY <1>1, <1>2, <1>3, <1>4 DEF ReadsInOrder
<1>6. CASE a \in Range(Graph(f.graph).inputs)
  <2>1. Lived(a, t)
    BY <1>6 DEF FrameDone
  <2>2. a \in Buffers
    BY <1>1, <1>6, SubgraphFacts DEF BuffersOf, TensorsOf
  <2>3. QED
    BY <2>1, <2>2 DEF Lived
<1>7. ASSUME NEW k \in 1..(f.op + 1 - 1), a \in Range(OpsOf(f)[k].outs)
      PROVE  a \in Buffers /\ HasLifetime(a)
  <2>1. k \in Finished(f)
    BY <1>1 DEF Finished
  <2>2. OpDone(OpsOf(f)[k], t) /\ OpsOf(f)[k] \in Ops(f.graph)
    BY <1>1, <2>1, FrameFacts DEF FrameDone
  <2>3. a \in UsedBy(OpsOf(f)[k])
    BY <1>7 DEF UsedBy
  <2>4. Lived(a, t)
    BY <2>2, <2>3 DEF OpDone
  <2>5. QED
    BY <1>1, <2>2, <2>3, <2>4, OpFacts DEF Lived
<1>8. QED
  BY <1>5, <1>6, <1>7

\* Scratch buffers are not among what is created anywhere else.
LEMMA ScratchKeeps ==
  ASSUME WalkTypes, NEW f \in CallRecord, FrameFits(f), f.inOp, NEW t \in Nat,
         \A s \in OpAt(f).scratch : first[s] <= t,
         NEW g \in DOMAIN model.graphs, NEW S, S \subseteq WrittenIn(Graph(g)),
         NEW at, first' = UpdateFirstCreated(first, S, at)
  PROVE  \A s \in OpAt(f).scratch : first'[s] <= t
<1>1. /\ f.graph \in DOMAIN model.graphs /\ model \in Models /\ f.op \in DOMAIN OpsOf(f)
      /\ OpAt(f) \in Ops(f.graph) /\ OpAt(f) = model.graphs[f.graph].ops[f.op]
      /\ DOMAIN OpsOf(f) = DOMAIN model.graphs[f.graph].ops
  BY FrameFacts DEF WalkTypes, OpAt, OpsOf, Graph
<1>2. ScratchIsOwn(model, f.graph, f.op)
  BY <1>1, OrderAssumption DEF OrderAssumption
<1>3. \A s \in OpAt(f).scratch : s \notin S
  BY <1>1, <1>2 DEF ScratchIsOwn, Graph
<1>4. OpAt(f).scratch \subseteq DOMAIN first
  BY <1>1, OpFacts DEF UsedBy, WalkTypes
<1>5. QED
  BY <1>3, <1>4 DEF UpdateFirstCreated

LEMMA NotVariables ==
  ASSUME model \in Models, NEW g \in DOMAIN model.graphs
  PROVE  WrittenIn(Graph(g)) \intersect model.variables = {}
BY OrderAssumption DEF OrderAssumption, Graph

\* A frame that the step leaves alone, and whose scratch buffers it does not create.
LEMMA FrameStays ==
  ASSUME WalkTypes, Timeline, StackLinked, FramesDone, Timeline', scope' \in Nat, Grows,
         NEW j \in Depth, NEW f, f = marking[j],
         f.inOp /\ (\A s \in OpAt(f).scratch : first[s] <= f.start)
           => \A s \in OpAt(f).scratch : first'[s] <= f.start
  PROVE  /\ f \in CallRecord' /\ FrameFits(f)'
         /\ \A t \in {Base(j)} : FrameDone(f, t)'
         /\ \A t \in {f.start} : \A C \in {Pending(j)} : OpUnderWay(f, C, t)'
<1>1. f \in CallRecord /\ FrameFits(f) /\ f.start \in Nat /\ Base(j) \in Nat /\ scope \in Nat
  BY StackFacts, FrameFacts DEF WalkTypes
<1>2. f \in CallRecord' /\ FrameFits(f)'
  BY <1>1, FitsStays DEF Grows
<1>3. \A t \in {Base(j)} : FrameDone(f, t)'
  BY <1>1, FrameKeeps DEF FramesDone
<1>4. ASSUME NEW C \in {Pending(j)} PROVE OpUnderWay(f, C, f.start)'
  <2>1. OpUnderWay(f, C, f.start)
    BY DEF FramesDone
  <2>2. f.inOp => \A s \in OpAt(f).scratch : first'[s] <= f.start
    BY <2>1 DEF OpUnderWay
  <2>3. QED
    BY <1>1, <2>1, <2>2, UnderWayKeeps
<1>5. QED
  BY <1>2, <1>3, <1>4

\* What was written before, too.
LEMMA ProducedFirst ==
  ASSUME WalkTypes, Timeline, NEW f \in CallRecord, FrameFits(f), ~f.inOp, NEW t \in Nat, FrameDone(f, t),
         NEW a \in Produced(f.graph, f.op), IsActivation(a)
  PROVE  0 <= first[a]
<1>1. /\ f.graph \in DOMAIN model.graphs /\ model \in Models /\ f.op \in Nat
      /\ OpsOf(f) = Graph(f.graph).ops /\ Finished(f) = 1..f.op
  BY FrameFacts DEF WalkTypes, OpsOf, Finished
<1>2. Lived(a, t)
  <2>1. CASE a \in Range(Graph(f.graph).inputs)
    BY <2>1 DEF FrameDone
  <2>2. CASE a \notin Range(Graph(f.graph).inputs)
    <3>1. PICK k \in 1..f.op : a \in Range(OpsOf(f)[k].outs)
      BY <1>1, <2>2 DEF Produced
    <3>2. OpDone(OpsOf(f)[k], t)
      BY <1>1, <3>1 DEF FrameDone
    <3>3. QED
      BY <3>1, <3>2 DEF OpDone, UsedBy
  <2>3. QED
    BY <2>1, <2>2
<1>3. QED
  BY <1>2 DEF Lived, HasLifetime

LEMMA BeginKeeps ==
  ASSUME WalkInv, BeginOp
  PROVE  WalkInv'
<1>1. /\ WalkTypes /\ Timeline /\ StackLinked /\ FramesDone /\ model \in Models /\ scope \in Nat
      /\ ~Marked /\ 1 \in Depth /\ UNCHANGED model /\ scope' = scope + 1 /\ scope' \in Nat
  BY StackFacts DEF WalkInv, WalkTypes, BeginOp
<1>2. PICK f \in CallRecord : f = marking[1]
  BY <1>1, StackFacts
<1>3. /\ FrameFits(f) /\ f.graph \in DOMAIN model.graphs /\ f.op \in Nat /\ ~f.inOp
      /\ OpsOf(f) \in Seq(Operators) /\ f.op < Len(OpsOf(f)) /\ OpsOf(f) = Graph(f.graph).ops
  BY <1>1, <1>2, StackFacts, FrameFacts DEF BeginOp, Caller, OpsOf
<1>4. PICK op : op = OpsOf(f)[f.op + 1]
  OBVIOUS
<1>5. f.op + 1 \in DOMAIN OpsOf(f) /\ op \in Ops(f.graph) /\ op \in Operators
  BY <1>1, <1>3, <1>4, OpFacts DEF Ops, Range
<1>6. PICK now \in Nat : now = scope + 1
  BY <1>1
<1> DEFINE g == [graph |-> f.graph, op |-> f.op + 1, inOp |-> TRUE, start |-> now,
                 callees |-> op.callees]
<1>7. first' = UpdateFirstCreated(first, Range(op.outs), now) /\ last' = last
  BY <1>2, <1>3, <1>4, <1>6 DEF BeginOp, Caller
<1>8. marking' = [marking EXCEPT ![1] = g]
  BY <1>2, <1>3, <1>4, <1>6 DEF BeginOp, Caller
<1>9. /\ g \in CallRecord /\ g.graph = f.graph /\ g.op = f.op + 1 /\ g.inOp = TRUE /\ g.start = now
      /\ g.callees = op.callees
  <2>1. op.callees \in Seq(Nat)
    BY <1>5 DEF Operators
  <2>2. QED
    BY <1>3, <2>1 DEF CallRecord
<1> HIDE DEF g
<1>10. OpsOf(g) = OpsOf(f) /\ OpAt(g) = op /\ Finished(g) = Finished(f)
  BY <1>3, <1>4, <1>9 DEF OpsOf, OpAt, Finished
<1>11. Range(op.outs) \subseteq WrittenIn(Graph(f.graph))
  BY <1>3, <1>5 DEF WrittenIn, Ops
<1>12. /\ Grows /\ Timeline' /\ first' \in [Buffers -> Int] /\ last' \in [Buffers -> Int]
       /\ \A b \in Buffers : first'[b] = IF b \in Range(op.outs) /\ first[b] = -1 THEN now ELSE first[b]
  <2>1. last' = UpdateLastUsed(last, {}, now)
    BY <1>1, <1>7 DEF UpdateLastUsed, WalkTypes
  <2>2. Range(op.outs) \intersect model.variables = {}
    BY <1>1, <1>3, <1>11, NotVariables
  <2>3. now \in scope..scope' /\ now \in 0..scope' /\ scope <= scope'
    BY <1>1, <1>6
  <2>4. QED
    BY <1>1, <1>7, <2>1, <2>2, <2>3, UpdateGrows
<1>13. /\ marking' \in Seq(CallRecord)' /\ Depth' = Depth /\ Len(marking') = Len(marking)
       /\ marking'[1] = g /\ ~Marked' /\ \A j \in Depth : Base(j)' = Base(j)
       /\ \A j \in Depth \ {1} : marking'[j] = marking[j] /\ Pending(j)' = Pending(j)
  BY <1>1, <1>2, <1>8, <1>9, OuterFramesStay
<1>14. WalkTypes'
  BY <1>1, <1>12, <1>13, ModelStays DEF WalkTypes
<1>15. FrameFits(g)'
  <2>1. OpsOf(g)' = OpsOf(g) /\ OpAt(g)' = OpAt(g)
    BY <1>1, CalleesStay
  <2>2. g.op <= Len(OpsOf(g)) /\ g.start <= scope' /\ g.op >= 1
    BY <1>1, <1>3, <1>5, <1>6, <1>9, <1>10
  <2>3. Range(g.callees) \subseteq Range(OpAt(g).callees)
    BY <1>9, <1>10
  <2>4. QED
    BY <2>1, <2>2, <2>3 DEF FrameFits
<1>16. StackLinked'
  <2>1. marking'[Len(marking')].graph = 1
    BY <1>1, <1>2, <1>9, <1>13, StackFacts DEF StackLinked
  <2>2. ASSUME NEW j \in Depth, NEW e, e = marking'[j], NEW t, t = Base(j)
        PROVE  /\ FrameFits(e)' /\ (e.inOp => t <= e.start)
               /\ j > 1 => e.inOp /\ marking'[j - 1].graph \in Range(OpAt(e)'.callees)
    <3>1. CASE j = 1
      <4>1. e = g /\ t <= scope /\ t \in Nat
        BY <1>1, <1>13, <2>2, <3>1, StackFacts
      <4>2. t <= now
        BY <1>1, <1>6, <4>1
      <4>3. QED
        BY <1>9, <1>15, <3>1, <4>1, <4>2
    <3>2. CASE j # 1
      <4>1. e = marking[j] /\ e \in CallRecord /\ FrameFits(e) /\ (e.inOp => t <= e.start)
        BY <1>1, <1>13, <2>2, <3>2, StackFacts DEF StackLinked
      <4>2. FrameFits(e)'
        <5>1. scope <= scope'
          BY <1>1
        <5>2. QED
          BY <1>1, <4>1, <5>1, FitsStays
      <4>3. j - 1 \in Depth /\ j > 1
        BY <1>1, <3>2, StackFacts
      <4>4. e.inOp /\ marking[j - 1].graph \in Range(OpAt(e).callees)
        BY <1>1, <4>1, <4>3 DEF StackLinked
      <4>5. marking'[j - 1].graph = marking[j - 1].graph
        BY <1>2, <1>9, <1>13, <4>3
      <4>6. OpAt(e)' = OpAt(e)
        BY <1>1, CalleesStay
      <4>7. QED
        BY <4>1, <4>2, <4>4, <4>5, <4>6
    <3>3. QED
      BY <3>1, <3>2
  <2>3. QED
    BY <1>13, <2>1, <2>2 DEF StackLinked
<1>17. FramesDone'
  <2>1. ASSUME NEW t \in {Base(1)} PROVE FrameDone(g, t)'
    <3>1. FrameDone(f, t)'
      BY <1>1, <1>2, <1>3, <1>12, StackFacts, FrameKeeps DEF FramesDone
    <3>2. /\ OpsOf(f)' = OpsOf(g)' /\ Finished(f)' = Finished(g)'
          /\ Graph(f.graph)' = Graph(g.graph)'
      BY <1>1, <1>9, <1>10, CalleesStay
    <3>3. QED
      BY <3>1, <3>2 DEF FrameDone
  <2>2. ASSUME NEW C \in {Pending(1)'} PROVE OpUnderWay(g, C, now)'
    <3>1. OpAt(g)' = op
      BY <1>1, <1>10, CalleesStay
    <3>2. \A a \in UsedBy(op) : a \in Buffers
      BY <1>1, <1>3, <1>5, OpFacts
    <3>3. \A a \in UsedBy(op) : first[a] \in -1..scope /\ first'[a] \in -1..now
      BY <1>1, <1>6, <1>12, <3>2, ModelStays DEF Timeline
    <3>4. ASSUME NEW a \in Range(op.ins), IsActivation(a) PROVE 0 <= first'[a]
      <4>1. FrameDone(f, Base(1)) /\ Base(1) \in Nat
        BY <1>1, <1>2, StackFacts DEF FramesDone
      <4>2. a \in Buffers /\ HasLifetime(a)
        BY <1>1, <1>3, <1>4, <3>4, <4>1, InputsLived
      <4>3. first[a] >= 0
        BY <3>3, <4>2 DEF HasLifetime, UsedBy
      <4>4. QED
        BY <1>12, <4>2, <4>3 DEF Grows
    <3>5. ASSUME NEW a \in Range(op.outs) PROVE 0 <= first'[a]
      BY <1>6, <1>12, <3>2, <3>3 DEF UsedBy
    <3>6. \A c \in Range(op.callees) : c \in C
      BY <1>1, <1>3, <1>5, <1>9, <1>13, OpFacts DEF Pending
    <3>7. \A a : IsActivation(a)' <=> IsActivation(a)
      BY <1>1, ModelStays
    <3>8. QED
      BY <1>6, <3>1, <3>3, <3>4, <3>5, <3>6, <3>7 DEF OpUnderWay, UsedBy
  <2>3. ASSUME NEW j \in Depth \ {1}, NEW e, e = marking[j]
        PROVE  /\ \A t \in {Base(j)} : FrameDone(e, t)'
               /\ \A t \in {e.start} : \A C \in {Pending(j)} : OpUnderWay(e, C, t)'
    <3>1. e \in CallRecord /\ FrameFits(e) /\ e.start \in Nat
      BY <1>1, <2>3, StackFacts, FrameFacts
    <3>2. e.inOp /\ (\A s \in OpAt(e).scratch : first[s] <= e.start)
            => \A s \in OpAt(e).scratch : first'[s] <= e.start
      BY <1>1, <1>3, <1>7, <1>11, <3>1, ScratchKeeps
    <3>3. QED
      BY <1>1, <1>12, <2>3, <3>2, FrameStays
  <2>4. QED
    BY <1>9, <1>13, <2>1, <2>2, <2>3 DEF FramesDone
<1>18. PICK D \in SUBSET DOMAIN model.graphs : Walked(D)
  BY DEF WalkInv
<1>19. Walked(D)'
  <2>1. ClosedUnderCalls(D)' /\ NoCycleIn(D)'
    BY <1>1, <1>18, CalleesStay DEF Walked
  <2>2. ASSUME NEW C \in {Pending(1)'} PROVE CalleesIn(g, C, D)'
    <3>1. CalleesIn(f, Pending(1), D)
      BY <1>1, <1>2, <1>18 DEF Walked
    <3>2. \A c \in Range(op.callees) : c \in C
      BY <1>1, <1>3, <1>5, <1>9, <1>13, OpFacts DEF Pending
    <3>3. CalleesIn(g, C, D)
      BY <1>10, <3>1, <3>2 DEF CalleesIn
    <3>4. QED
      BY <1>1, <3>3, CalleesStay
  <2>3. ASSUME NEW j \in Depth \ {1}, NEW e, e = marking[j], NEW C, C = Pending(j)
        PROVE  CalleesIn(e, C, D)'
    BY <1>1, <1>18, <2>3, CalleesStay DEF Walked
  <2>4. \A h \in D : Spanned(h)'
    BY <1>1, <1>12, <1>18, WalkedSpan
  <2>5. QED
    BY <1>13, <2>1, <2>2, <2>3, <2>4 DEF Walked
<1>20. FramesSpan'
  <2>1. FrameSpans(f)' /\ \A j \in Depth \ {1} : \A e \in {marking[j]} : FrameSpans(e)'
    BY <1>1, <1>2, <1>12, OthersSpan DEF WalkInv
  <2>2. ASSUME NEW P, P = Produced(g.graph, g.op) PROVE FirstBy(P, now)'
    <3>1. Graph(f.graph) = Graph(g.graph) /\ P \subseteq Buffers
      <4>1. g.op \in 0..Len(Graph(g.graph).ops) /\ g.graph \in DOMAIN model.graphs
        BY <1>3, <1>5, <1>9
      <4>2. QED
        BY <1>1, <1>9, <2>2, <4>1, ProducedFacts
    <3>2. ASSUME NEW a \in P, IsActivation(a) PROVE 0 <= first'[a] /\ first'[a] <= now
      <4>1. a \in Buffers /\ first[a] \in -1..scope /\ first'[a] \in -1..now
        BY <1>1, <1>6, <1>12, <3>1, ModelStays DEF Timeline
      <4>2. CASE a \in Range(op.outs)
        BY <1>6, <1>12, <4>1, <4>2
      <4>3. CASE a \notin Range(op.outs)
        <5>1. a \in Produced(f.graph, f.op)
          <6>1. \A k \in 1..(f.op + 1) : k \in 1..f.op \/ k = f.op + 1
            BY <1>3
          <6>2. QED
            BY <1>3, <1>4, <1>9, <2>2, <4>3, <6>1 DEF Produced
        <5>2. FrameDone(f, Base(1)) /\ Base(1) \in Nat
          BY <1>1, <1>2, StackFacts DEF FramesDone
        <5>3. 0 <= first[a]
          BY <1>1, <1>3, <3>2, <5>1, <5>2, ProducedFirst
        <5>4. QED
          BY <1>12, <4>1, <4>3, <5>3
      <4>4. QED
        BY <4>2, <4>3
    <3>3. QED
      BY <1>1, <3>2, ModelStays DEF FirstBy
  <2>3. FrameSpans(g)'
    <3>1. /\ Finished(g)' = Finished(f)' /\ OpsOf(g)' = OpsOf(f)' /\ Graph(g.graph)' = Graph(f.graph)'
          /\ \A n : ReadSince(g, n)' = ReadSince(f, n)' /\ Produced(g.graph, n)' = Produced(f.graph, n)'
          /\ \A n : Produced(g.graph, n)' = Produced(g.graph, n)
      BY <1>1, <1>9, <1>10, SpanStays DEF ReadSince
    <3>2. QED
      BY <1>9, <2>1, <2>2, <3>1 DEF FrameSpans
  <2>4. QED
    BY <1>13, <2>1, <2>3 DEF FramesSpan
<1>21. QED
  BY <1>1, <1>12, <1>13, <1>14, <1>16, <1>17, <1>18, <1>19, <1>20 DEF WalkInv

-----------------------------------------------------------------------------
\* EnterSubgraph.
LEMMA OuterFramesMoveOut ==
  ASSUME WalkTypes, StackLinked, ~Marked, UNCHANGED model, scope' \in Nat,
         NEW f \in CallRecord, f.graph = marking[1].graph, f.start = marking[1].start,
         NEW c \in CallRecord, marking' = <<c, f>> \o Tail(marking)
  PROVE  /\ marking' \in Seq(CallRecord)' /\ Len(marking') = Len(marking) + 1 /\ ~Marked'
         /\ Depth' = {1} \union {j + 1 : j \in Depth} /\ 1 \in Depth
         /\ marking'[1] = c /\ marking'[2] = f /\ Base(1)' = f.start
         /\ \A k, j : j \in Depth /\ k = j + 1 => Base(k)' = Base(j)
         /\ \A k, j : j \in Depth \ {1} /\ k = j + 1 =>
              marking'[k] = marking[j] /\ Pending(k)' = Pending(j)
         /\ \A d : d \in Pending(2)' <=>
              d \in DOMAIN model.graphs /\ (d \in Range(f.callees) \/ d = c.graph)
<1>1. Len(marking) \in Nat /\ Depth = 1..Len(marking) /\ Len(marking) # 0
  BY StackFacts
<1>2. CallRecord' = CallRecord
  BY DEF CallRecord
<1>3. /\ marking \in Seq(CallRecord) /\ Tail(marking) \in Seq(CallRecord)
      /\ Len(Tail(marking)) = Len(marking) - 1
      /\ \A j \in 1..(Len(marking) - 1) : Tail(marking)[j] = marking[j + 1]
  BY <1>1 DEF WalkTypes
<1>4. marking' \in Seq(CallRecord) /\ Len(marking') = Len(marking) + 1
  BY <1>1, <1>3
<1>5. marking'[1] = c /\ marking'[2] = f
  BY <1>1, <1>3
<1>6. ASSUME NEW j \in Depth \ {1}, NEW k, k = j + 1 PROVE marking'[k] = marking[j]
  <2>1. j \in 2..Len(marking) /\ k \in 3..(Len(marking) + 1) /\ k - 2 \in 1..(Len(marking) - 1)
    BY <1>1, <1>6
  <2>2. marking'[k] = Tail(marking)[k - 2]
    BY <1>1, <1>3, <2>1
  <2>3. QED
    BY <1>3, <1>6, <2>1, <2>2
<1>7. Depth' = 1..(Len(marking) + 1)
  BY <1>4 DEF Depth
<1>8. 1..(Len(marking) + 1) = {1} \union {j + 1 : j \in 1..Len(marking)}
  <2>1. ASSUME NEW k \in 1..(Len(marking) + 1), k # 1 PROVE k \in {j + 1 : j \in 1..Len(marking)}
    <3>1. k - 1 \in 1..Len(marking) /\ k = (k - 1) + 1
      BY <1>1, <2>1
    <3>2. QED
      BY <3>1
  <2>2. QED
    BY <1>1, <2>1
<1>9. ~Marked'
  BY <1>1, <1>4 DEF Marked
<1>10. \A j \in Depth : marking'[j + 1].start = marking[j].start /\ marking'[j + 1].graph = marking[j].graph
  <2> SUFFICES ASSUME NEW j \in Depth
               PROVE  /\ marking'[j + 1].start = marking[j].start
                      /\ marking'[j + 1].graph = marking[j].graph
    OBVIOUS
  <2>1. CASE j = 1
    BY <1>5, <2>1
  <2>2. CASE j # 1
    BY <1>6, <2>2
  <2>3. QED
    BY <2>1, <2>2
<1>11. Base(1)' = f.start
  BY <1>1, <1>4, <1>5 DEF Base
<1>12. ASSUME NEW j \in Depth, NEW k, k = j + 1 PROVE Base(k)' = Base(j)
  <2>1. k = Len(marking') <=> j = Len(marking)
    BY <1>1, <1>4, <1>12
  <2>2. CASE j = Len(marking)
    BY <2>1, <2>2 DEF Base
  <2>3. CASE j # Len(marking)
    <3>1. j + 1 \in Depth
      BY <1>1, <2>3
    <3>2. marking'[j + 1 + 1].start = marking[j + 1].start
      BY <1>10, <3>1
    <3>3. QED
      BY <1>12, <2>1, <2>3, <3>2 DEF Base
  <2>4. QED
    BY <2>2, <2>3
<1>13. ASSUME NEW j \in Depth \ {1}, NEW k, k = j + 1 PROVE Pending(k)' = Pending(j)
  <2>1. j - 1 \in Depth /\ j - 1 + 1 = j /\ k - 1 = j /\ k > 1 /\ j > 1
    BY <1>1, <1>13
  <2>2. marking'[k - 1].graph = marking[j - 1].graph
    BY <1>10, <2>1
  <2>3. QED
    BY <1>6, <1>13, <2>1, <2>2 DEF Pending
<1>14. ASSUME NEW d
       PROVE  d \in Pending(2)' <=>
                d \in DOMAIN model.graphs /\ (d \in Range(f.callees) \/ d = c.graph)
  BY <1>5 DEF Pending
<1>15. QED
  BY SMTT(30), <1>1, <1>2, <1>4, <1>5, <1>6, <1>7, <1>8, <1>9, <1>11, <1>12, <1>13, <1>14

LEMMA EnterKeeps ==
  ASSUME WalkInv, EnterSubgraph
  PROVE  WalkInv'
<1>1. /\ WalkTypes /\ Timeline /\ StackLinked /\ FramesDone /\ model \in Models /\ scope \in Nat
      /\ ~Marked /\ 1 \in Depth /\ UNCHANGED model /\ scope' = scope + 1 /\ scope' \in Nat
  BY StackFacts DEF WalkInv, WalkTypes, EnterSubgraph
<1>2. PICK f \in CallRecord : f = marking[1]
  BY <1>1, StackFacts
<1>3. /\ FrameFits(f) /\ f.graph \in DOMAIN model.graphs /\ f.inOp /\ OpAt(f) \in Ops(f.graph)
      /\ f.callees \in Seq(Nat) /\ f.callees # <<>> /\ f.start \in Nat
      /\ Range(f.callees) \subseteq Range(OpAt(f).callees)
      /\ Range(OpAt(f).callees) \subseteq DOMAIN model.graphs
  <2>1. FrameFits(f) /\ f.inOp /\ f.callees # <<>>
    BY <1>1, <1>2, StackFacts DEF EnterSubgraph, Caller
  <2>2. f.graph \in DOMAIN model.graphs /\ OpAt(f) \in Ops(f.graph) /\ f.start \in Nat
    BY <1>1, <2>1, FrameFacts
  <2>3. f.callees \in Seq(Nat)
    BY DEF CallRecord
  <2>4. QED
    BY <1>1, <2>1, <2>2, <2>3, OpFacts DEF FrameFits
<1>4. PICK callee : callee = Head(f.callees)
  OBVIOUS
<1>5. PICK rest : rest = Tail(f.callees)
  OBVIOUS
<1>6. /\ rest \in Seq(Nat) /\ callee \in Range(f.callees) /\ callee \in DOMAIN model.graphs
      /\ \A d : d \in Range(f.callees) <=> d = callee \/ d \in Range(rest)
  <2>1. /\ rest \in Seq(Nat) /\ Len(rest) = Len(f.callees) - 1 /\ Len(f.callees) >= 1
        /\ Len(f.callees) \in Nat /\ callee = f.callees[1]
        /\ \A i \in 1..Len(rest) : rest[i] = f.callees[i + 1]
    BY <1>3, <1>4, <1>5
  <2>2. Range(f.callees) = {f.callees[i] : i \in 1..Len(f.callees)}
    BY <1>3 DEF Range
  <2>3. Range(rest) = {rest[i] : i \in 1..Len(rest)}
    <3>1. rest \in Seq(Nat)
      BY <2>1
    <3>2. QED
      BY <3>1 DEF Range
  <2>4. ASSUME NEW i \in 1..Len(f.callees), i # 1 PROVE f.callees[i] \in Range(rest)
    <3>1. i - 1 \in 1..Len(rest) /\ rest[i - 1] = f.callees[i]
      BY <2>1, <2>4
    <3>2. QED
      BY <2>3, <3>1
  <2>5. ASSUME NEW i \in 1..Len(rest) PROVE rest[i] \in Range(f.callees)
    <3>1. i + 1 \in 1..Len(f.callees) /\ rest[i] = f.callees[i + 1]
      BY <2>1
    <3>2. QED
      BY <2>2, <3>1
  <2>6. callee \in Range(f.callees)
    BY <2>1, <2>2
  <2>7. QED
    BY <1>3, <2>1, <2>2, <2>3, <2>4, <2>5, <2>6
<1> DEFINE g == [f EXCEPT !.callees = rest]
           c == Call(callee)
<1>7. /\ first' = UpdateFirstCreated(first, Range(Graph(callee).inputs), scope')
      /\ last' = UpdateLastUsed(last, Range(Graph(callee).inputs), scope')
  BY <1>1, <1>2, <1>4 DEF EnterSubgraph, Caller
<1>8. marking' = <<c, g>> \o Tail(marking)
  BY <1>2, <1>4, <1>5 DEF EnterSubgraph, Caller
<1>9. /\ g \in CallRecord /\ g.graph = f.graph /\ g.op = f.op /\ g.inOp = f.inOp /\ g.start = f.start
      /\ g.callees = rest
  BY <1>6 DEF CallRecord
<1>10. /\ c \in CallRecord /\ c.graph = callee /\ c.op = 0 /\ ~c.inOp /\ c.start = 0
  BY <1>6 DEF CallRecord, Call
<1> HIDE DEF g, c
<1>11. OpsOf(g) = OpsOf(f) /\ OpAt(g) = OpAt(f) /\ Finished(g) = Finished(f) /\ Finished(c) = {}
  BY <1>9, <1>10 DEF OpsOf, OpAt, Finished
<1>12. Range(Graph(callee).inputs) \subseteq WrittenIn(Graph(callee))
  BY DEF WrittenIn
<1>13. /\ Grows /\ Timeline' /\ first' \in [Buffers -> Int] /\ last' \in [Buffers -> Int]
       /\ \A b \in Buffers \intersect Range(Graph(callee).inputs) : \A t \in Nat :
            t <= scope' => Lived(b, t)'
  <2>1. Range(Graph(callee).inputs) \intersect model.variables = {}
    BY <1>1, <1>6, <1>12, NotVariables
  <2>2. scope' \in scope..scope' /\ scope' \in 0..scope' /\ scope <= scope' /\ scope' <= scope'
    BY <1>1
  <2>3. QED
    BY <1>1, <1>7, <2>1, <2>2, UpdateGrows
<1>14. /\ marking' \in Seq(CallRecord)' /\ Len(marking') = Len(marking) + 1 /\ ~Marked'
       /\ Depth' = {1} \union {j + 1 : j \in Depth} /\ 1 \in Depth
       /\ marking'[1] = c /\ marking'[2] = g /\ Base(1)' = f.start
       /\ \A k, j : j \in Depth /\ k = j + 1 => Base(k)' = Base(j)
       /\ \A k, j : j \in Depth \ {1} /\ k = j + 1 =>
            marking'[k] = marking[j] /\ Pending(k)' = Pending(j)
       /\ \A d : d \in Pending(2)' <=>
            d \in DOMAIN model.graphs /\ (d \in Range(g.callees) \/ d = c.graph)
  BY <1>1, <1>2, <1>8, <1>9, <1>10, OuterFramesMoveOut
<1>15. Pending(2)' = Pending(1)
  <2>1. \A d : d \in Pending(1) <=> d \in DOMAIN model.graphs /\ d \in Range(f.callees)
    BY <1>2 DEF Pending
  <2>2. \A d : d \in Pending(2)' <=> d \in Pending(1)
    BY <1>6, <1>9, <1>10, <1>14, <2>1
  <2>3. QED
    BY <2>2 DEF Pending
<1>16. WalkTypes'
  BY <1>1, <1>13, <1>14, ModelStays DEF WalkTypes
<1>17. FrameFits(f)' /\ FrameFits(g)' /\ FrameFits(c)'
  <2>1. FrameFits(f)'
    <3>1. scope <= scope'
      BY <1>1
    <3>2. QED
      BY <1>1, <1>3, <3>1, FitsStays
  <2>2. FrameFits(g)'
    <3>1. OpsOf(g)' = OpsOf(f)' /\ OpAt(g)' = OpAt(f)'
      BY <1>1, <1>11, CalleesStay
    <3>2. Range(rest) \subseteq Range(f.callees)
      BY <1>6
    <3>3. QED
      BY <1>9, <2>1, <3>1, <3>2 DEF FrameFits
  <2>3. FrameFits(c)'
    <3>1. OpsOf(c)' = Graph(callee).ops /\ Len(Graph(callee).ops) \in Nat
      BY <1>1, <1>6, <1>10, SubgraphFacts, CalleesStay DEF OpsOf
    <3>2. 0 <= Len(Graph(callee).ops) /\ 0 <= scope'
      BY <1>1, <3>1
    <3>3. QED
      BY <1>10, <3>1, <3>2 DEF FrameFits
  <2>4. QED
    BY <2>1, <2>2, <2>3
\* The frames further out.
<1>18. ASSUME NEW j \in Depth \ {1}, NEW e, e = marking[j]
       PROVE  /\ e \in CallRecord' /\ FrameFits(e)'
              /\ \A t \in {Base(j)} : FrameDone(e, t)'
              /\ \A t \in {e.start} : \A C \in {Pending(j)} : OpUnderWay(e, C, t)'
  <2>1. e \in CallRecord /\ FrameFits(e) /\ e.start \in Nat
    BY <1>1, <1>18, StackFacts, FrameFacts
  <2>2. e.inOp /\ (\A s \in OpAt(e).scratch : first[s] <= e.start)
          => \A s \in OpAt(e).scratch : first'[s] <= e.start
    BY <1>1, <1>6, <1>7, <1>12, <2>1, ScratchKeeps
  <2>3. QED
    BY <1>1, <1>13, <1>18, <2>2, FrameStays
<1>19. StackLinked'
  <2>1. marking'[Len(marking')].graph = 1
    <3>1. Len(marking) \in Depth /\ marking[Len(marking)].graph = 1 /\ Len(marking) \in Nat
      BY <1>1, StackFacts DEF StackLinked
    <3>2. CASE Len(marking) = 1
      BY <1>2, <1>9, <1>14, <3>1, <3>2
    <3>3. CASE Len(marking) # 1
      BY <1>14, <3>1, <3>3
    <3>4. QED
      BY <3>2, <3>3
  <2>2. /\ FrameFits(c)' /\ ~c.inOp
    BY <1>10, <1>17
  <2>3. ASSUME NEW t, t = Base(1)
        PROVE  FrameFits(g)' /\ g.inOp /\ t <= g.start /\ callee \in Range(OpAt(g)'.callees)
    BY <1>1, <1>2, <1>3, <1>6, <1>9, <1>11, <1>17, <2>3, CalleesStay DEF StackLinked
  <2>4. ASSUME NEW j \in Depth \ {1}, NEW e, e = marking[j], NEW t, t = Base(j)
        PROVE  FrameFits(e)' /\ e.inOp /\ t <= e.start /\ marking'[j].graph \in Range(OpAt(e)'.callees)
    <3>1. j > 1 /\ j - 1 \in Depth /\ j \in Nat
      BY <1>1, StackFacts
    <3>2. e.inOp /\ t <= e.start /\ marking[j - 1].graph \in Range(OpAt(e).callees)
      BY <1>1, <2>4, <3>1 DEF StackLinked
    <3>3. marking'[j].graph = marking[j - 1].graph
      <4>1. CASE j = 2
        BY <1>2, <1>9, <1>14, <4>1
      <4>2. CASE j # 2
        <5>1. j - 1 \in Depth \ {1} /\ j = j - 1 + 1
          BY <3>1, <4>2
        <5>2. QED
          BY <1>14, <5>1
      <4>3. QED
        BY <4>1, <4>2
    <3>4. QED
      BY <1>1, <1>18, <2>4, <3>2, <3>3, CalleesStay
  <2>5. ASSUME NEW k \in Depth', NEW e, e = marking'[k], NEW t, t = Base(k)'
        PROVE  /\ FrameFits(e)'
               /\ e.inOp => t <= e.start
               /\ k > 1 => e.inOp /\ marking'[k - 1].graph \in Range(OpAt(e)'.callees)
    <3>1. CASE k = 1
      BY <1>14, <2>2, <2>5, <3>1
    <3>2. CASE k = 2
      BY <1>10, <1>14, <2>3, <2>5, <3>2
    <3>3. ASSUME NEW j \in Depth \ {1}, k = j + 1
          PROVE  FrameFits(e)' /\ t <= e.start /\ e.inOp /\ marking'[k - 1].graph \in Range(OpAt(e)'.callees)
      <4>1. e = marking[j] /\ t = Base(j) /\ k - 1 = j
        BY <1>1, <1>14, <2>5, <3>3, StackFacts
      <4>2. QED
        BY <2>4, <4>1
    <3>4. QED
      BY <1>1, <1>14, <3>1, <3>2, <3>3, StackFacts
  <2>6. QED
    BY <2>1, <2>5 DEF StackLinked
<1>20. FramesDone'
  <2>1. ASSUME NEW t \in {f.start} PROVE FrameDone(c, t)'
    <3>1. t \in Nat /\ t <= scope'
      BY <1>1, <1>3 DEF FrameFits
    <3>2. Graph(c.graph)' = Graph(callee) /\ Finished(c)' = {}
      BY <1>1, <1>10, <1>11, ModelStays, CalleesStay
    <3>3. Range(Graph(callee).inputs) \subseteq Buffers
      BY <1>1, <1>6, SubgraphFacts DEF BuffersOf, TensorsOf
    <3>4. QED
      BY <1>13, <3>1, <3>2, <3>3 DEF FrameDone
  <2>2. ASSUME NEW t, NEW C PROVE OpUnderWay(c, C, t)'
    BY <1>10 DEF OpUnderWay
  <2>3. ASSUME NEW t \in {Base(1)} PROVE FrameDone(g, t)'
    <3>1. FrameDone(f, t)'
      BY <1>1, <1>2, <1>3, <1>13, StackFacts, FrameKeeps DEF FramesDone
    <3>2. /\ OpsOf(f)' = OpsOf(g)' /\ Finished(f)' = Finished(g)'
          /\ Graph(f.graph)' = Graph(g.graph)'
      BY <1>1, <1>9, <1>11, CalleesStay
    <3>3. QED
      BY <3>1, <3>2 DEF FrameDone
  <2>4. ASSUME NEW t \in {g.start}, NEW C \in {Pending(1)} PROVE OpUnderWay(g, C, t)'
    <3>1. OpUnderWay(f, C, t)
      BY <1>1, <1>2, <1>9 DEF FramesDone
    <3>2. \A s \in OpAt(f).scratch : first'[s] <= t
      BY <1>1, <1>3, <1>6, <1>7, <1>9, <1>12, <3>1, ScratchKeeps DEF OpUnderWay
    <3>3. OpUnderWay(f, C, t)'
      BY <1>1, <1>3, <1>9, <1>13, <3>1, <3>2, UnderWayKeeps
    <3>4. OpAt(f)' = OpAt(g)'
      BY <1>1, <1>11, CalleesStay
    <3>5. QED
      BY <1>9, <3>3, <3>4 DEF OpUnderWay
  <2>5. ASSUME NEW k \in Depth', NEW e, e = marking'[k]
        PROVE  /\ \A t \in {Base(k)'} : FrameDone(e, t)'
               /\ \A t \in {e.start} : \A C \in {Pending(k)'} : OpUnderWay(e, C, t)'
    <3>1. CASE k = 1
      BY <1>14, <2>1, <2>2, <2>5, <3>1
    <3>2. CASE k = 2
      BY <1>14, <1>15, <2>3, <2>4, <2>5, <3>2
    <3>3. ASSUME NEW j \in Depth \ {1}, k = j + 1
          PROVE  /\ \A t \in {Base(k)'} : FrameDone(e, t)'
                 /\ \A t \in {e.start} : \A C \in {Pending(k)'} : OpUnderWay(e, C, t)'
      BY <1>14, <1>18, <2>5, <3>3
    <3>4. QED
      BY <1>1, <1>14, <3>1, <3>2, <3>3, StackFacts
  <2>6. QED
    BY <2>5 DEF FramesDone
<1>21. PICK D \in SUBSET DOMAIN model.graphs : Walked(D)
  BY DEF WalkInv
<1>22. Walked(D)'
  <2>1. ClosedUnderCalls(D)' /\ NoCycleIn(D)'
    BY <1>1, <1>21, CalleesStay DEF Walked
  <2>2. \A C : CalleesIn(c, C, D)'
    BY <1>1, <1>10, <1>11, CalleesStay DEF CalleesIn
  <2>3. ASSUME NEW C \in {Pending(1)} PROVE CalleesIn(g, C, D)'
    <3>1. CalleesIn(f, C, D)
      BY <1>1, <1>2, <1>21 DEF Walked
    <3>2. QED
      BY <1>1, <1>9, <1>11, <3>1, CalleesStay DEF CalleesIn
  <2>4. ASSUME NEW j \in Depth \ {1}, NEW e, e = marking[j], NEW C, C = Pending(j)
        PROVE  CalleesIn(e, C, D)'
    BY <1>1, <1>21, <2>4, CalleesStay DEF Walked
  <2>5. ASSUME NEW k \in Depth', NEW e, e = marking'[k], NEW C, C = Pending(k)'
        PROVE  CalleesIn(e, C, D)'
    <3>1. CASE k = 1
      BY <1>14, <2>2, <2>5, <3>1
    <3>2. CASE k = 2
      BY <1>14, <1>15, <2>3, <2>5, <3>2
    <3>3. ASSUME NEW j \in Depth \ {1}, k = j + 1 PROVE CalleesIn(e, C, D)'
      BY <1>14, <2>4, <2>5, <3>3
    <3>4. QED
      BY <1>1, <1>14, <3>1, <3>2, <3>3, StackFacts
  <2>6. \A h \in D : Spanned(h)'
    BY <1>1, <1>13, <1>21, WalkedSpan
  <2>7. QED
    BY <1>14, <2>1, <2>5, <2>6 DEF Walked
<1>23. FramesSpan'
  <2>1. FrameSpans(f)' /\ \A j \in Depth \ {1} : \A e \in {marking[j]} : FrameSpans(e)'
    BY <1>1, <1>2, <1>13, OthersSpan DEF WalkInv
  <2>2. FrameSpans(g)'
    <3>1. \A n : ReadSince(g, n)' = ReadSince(f, n)'
      BY <1>1, <1>11, SpanStays DEF ReadSince
    <3>2. Finished(g)' = Finished(f)' /\ OpsOf(g)' = OpsOf(f)'
      BY <1>1, <1>11, SpanStays
    <3>3. QED
      BY <1>9, <2>1, <3>1, <3>2 DEF FrameSpans
  <2>3. FrameSpans(c)'
    <3>1. ASSUME NEW I, I = Range(Graph(callee).inputs) PROVE Together(I, I)'
      <4>1. I \subseteq Buffers
        BY <1>1, <1>6, <3>1, SubgraphFacts DEF BuffersOf, TensorsOf
      <4>2. PICK now \in Nat : now = scope'
        BY <1>1
      <4>3. ASSUME NEW a \in I, NEW b \in I PROVE Meet(a, b)'
        <5>1. Lived(a, now)' /\ Lived(b, now)' /\ a \in Buffers /\ b \in Buffers
          BY <1>1, <1>13, <3>1, <4>1, <4>2
        <5>2. first'[a] \in -1..scope' /\ first'[b] \in -1..scope'
          BY <1>1, <1>13, <5>1, ModelStays DEF Timeline
        <5>3. last'[a] \in -1..scope' /\ last'[b] \in -1..scope'
          BY <1>1, <1>13, <5>1, ModelStays DEF Timeline
        <5>4. QED
          BY <1>1, <4>2, <5>1, <5>2, <5>3 DEF Meet, OverlapInTime, Lived, HasLifetime
      <4>4. QED
        BY <4>3 DEF Together
    <3>2. Finished(c)' = {}
      BY <1>1, <1>11, SpanStays
    <3>3. Graph(callee)' = Graph(callee)
      BY <1>1, SpanStays
    <3>4. QED
      BY <1>10, <3>1, <3>2, <3>3 DEF FrameSpans
  <2>4. ASSUME NEW k \in Depth', NEW e, e = marking'[k] PROVE FrameSpans(e)'
    <3>1. CASE k = 1
      BY <1>14, <2>3, <2>4, <3>1
    <3>2. CASE k = 2
      BY <1>14, <2>2, <2>4, <3>2
    <3>3. ASSUME NEW j \in Depth \ {1}, k = j + 1 PROVE FrameSpans(e)'
      BY <1>14, <2>1, <2>4, <3>3
    <3>4. QED
      BY <1>1, <1>14, <3>1, <3>2, <3>3, StackFacts
  <2>5. QED
    BY <2>4 DEF FramesSpan
<1>24. QED
  BY <1>1, <1>13, <1>14, <1>16, <1>19, <1>20, <1>21, <1>22, <1>23 DEF WalkInv

-----------------------------------------------------------------------------
\* EndOp.  No outer frame is in the same operator: its callee, which the operator that ends
\* has walked too, would be a finished subgraph that calls itself through the frames between.
LEMMA NoOperatorTwice ==
  ASSUME WalkTypes, StackLinked, NEW D \in SUBSET DOMAIN model.graphs, Walked(D), ~Marked,
         marking[1].inOp, Pending(1) = {}, NEW j \in Depth, j > 1
  PROVE  ~(marking[j].graph = marking[1].graph /\ marking[j].op = marking[1].op)
<1> SUFFICES ASSUME marking[j].graph = marking[1].graph, marking[j].op = marking[1].op PROVE FALSE
  OBVIOUS
<1>1. /\ Depth = 1..Len(marking) /\ Len(marking) \in Nat /\ 1 \in Depth /\ model \in Models
      /\ \A l \in Depth : marking[l] \in CallRecord /\ FrameFits(marking[l])
  BY StackFacts DEF WalkTypes
<1>2. OpAt(marking[j]) = OpAt(marking[1])
  BY DEF OpAt, OpsOf
<1>3. \A l \in Depth \ {1} : marking[l - 1].graph \in Range(OpAt(marking[l]).callees) /\ marking[l].inOp
  BY <1>1 DEF StackLinked
<1>4. ASSUME NEW l \in Depth \ {1} PROVE marking[l - 1].graph \in Calls(marking[l].graph)
  <2>1. OpAt(marking[l]) \in Ops(marking[l].graph)
    BY <1>1, <1>3, FrameFacts
  <2>2. QED
    BY <1>3, <2>1 DEF Calls
<1>5. marking[j - 1].graph \in D
  <2>1. CalleesIn(marking[1], Pending(1), D)
    BY <1>1 DEF Walked
  <2>2. Range(OpAt(marking[1]).callees) \subseteq D
    BY <2>1 DEF CalleesIn
  <2>3. QED
    BY <1>1, <1>2, <1>3, <2>2
<1> DEFINE S == {marking[l].graph : l \in 1..(j - 1)} \intersect D
<1>6. marking[j - 1].graph \in S
  BY <1>1, <1>5
<1>7. PICK g \in S : Calls(g) \intersect S = {}
  BY <1>6 DEF Walked, NoCycleIn
<1>8. PICK l \in 1..(j - 1) : g = marking[l].graph
  BY <1>7
<1>9. CASE l = 1
  <2>1. marking[j - 1].graph \in Calls(g)
    BY <1>1, <1>4, <1>8, <1>9
  <2>2. QED
    BY <1>6, <1>7, <2>1
<1>10. CASE l # 1
  <2>1. l \in Depth \ {1} /\ l - 1 \in 1..(j - 1)
    BY <1>1, <1>8, <1>10
  <2>2. marking[l - 1].graph \in Calls(g)
    BY <1>4, <1>8, <2>1
  <2>3. marking[l - 1].graph \in D
    BY <1>7, <2>2 DEF Walked, ClosedUnderCalls
  <2>4. QED
    BY <1>7, <2>1, <2>2, <2>3
<1>11. QED
  BY <1>9, <1>10

\* What is read now was there when the operators before it ran, and everything that they
\* touched was used since.
LEMMA ReadNow ==
  ASSUME Timeline', NEW P, NEW s \in Nat, FirstBy(P, s)', NEW T, T \subseteq Buffers',
         \A b \in T : Lived(b, s)', NEW A, A \subseteq P, A \subseteq Buffers',
         \A a \in A : last'[a] = scope'
  PROVE  Together(A, T)'
<1> SUFFICES ASSUME NEW a \in A, NEW b \in T, IsActivation(a)', IsActivation(b)'
             PROVE  /\ 0 <= first'[a] /\ 0 <= first'[b]
                    /\ first'[a] <= last'[b] /\ first'[b] <= last'[a]
  BY DEF Together, Meet, OverlapInTime
<1>1. 0 <= first'[a] /\ first'[a] <= s
  BY DEF FirstBy
<1>2. s <= last'[b] /\ 0 <= first'[b] /\ first'[b] <= scope'
  <2>1. Lived(b, s)' /\ b \in Buffers'
    OBVIOUS
  <2>2. QED
    BY <2>1 DEF Lived, HasLifetime, Timeline
<1>3. first'[a] \in Int /\ last'[b] \in Int
  BY DEF Timeline
<1>4. QED
  BY <1>1, <1>2, <1>3

LEMMA EndSpans ==
  ASSUME WalkTypes, Timeline, Timeline', scope' \in Nat, Grows, NEW f \in CallRecord, FrameFits(f),
         f.inOp, FrameSpans(f), NEW op, op = OpAt(f),
         \A b \in Touched(op) : Lived(b, f.start)',
         \A a \in UsedBy(op) : last'[a] = scope' /\ (IsActivation(a) => first'[a] <= f.start),
         NEW g, g.graph = f.graph, g.op = f.op, ~g.inOp, Finished(g) = Finished(f) \union {f.op}
  PROVE  FrameSpans(g)'
<1>1. /\ model \in Models /\ UNCHANGED model /\ f.graph \in DOMAIN model.graphs /\ f.op \in Nat
      /\ f.op <= Len(OpsOf(f)) /\ OpsOf(f) = Graph(f.graph).ops /\ f.start \in Nat
      /\ Len(OpsOf(f)) \in Nat /\ \A n \in Finished(f) : OpsOf(f)[n] \in Ops(f.graph)
      /\ op \in Ops(f.graph) /\ OpsOf(f)[f.op] = op /\ OpsOf(g) = OpsOf(f)
  BY FrameFacts DEF WalkTypes, Grows, OpsOf, OpAt
<1>2. FrameSpans(f)'
  BY SpansKeep
<1>3. /\ \A n : Produced(f.graph, n)' = Produced(f.graph, n) /\ ReadSince(f, n)' = ReadSince(f, n)
      /\ Finished(f)' = Finished(f) /\ OpsOf(f)' = OpsOf(f) /\ Graph(f.graph)' = Graph(f.graph)
      /\ Finished(g)' = Finished(f) \union {f.op} /\ OpsOf(g)' = OpsOf(f)
      /\ \A n : ReadSince(g, n)' = ReadSince(g, n)
      /\ \A o : Touched(o)' = Touched(o) /\ UsedBy(o)' = UsedBy(o)
      /\ Buffers' = Buffers
  BY <1>1, SpanStays, ModelStays
<1>4. \A n \in 0..f.op : Produced(f.graph, n) \subseteq Buffers
  BY <1>1, ProducedFacts
<1>5. UsedBy(op) \subseteq Buffers /\ Touched(op) \subseteq Buffers /\ UsedBy(op) \subseteq Touched(op)
  BY <1>1, OpFacts, TouchedFacts
<1>6. PICK T : T = Touched(op)
  OBVIOUS
\* The operator that ends.
<1>7. ASSUME NEW P, P = Produced(f.graph, f.op), NEW later, later = ReadSince(g, f.op)
      PROVE  OpSpans(P, later, op)'
  <2>1. FirstBy(P, f.start)'
    BY <1>2, <1>3, <1>7 DEF FrameSpans
  <2>2. PICK U : U = UsedBy(op)
    OBVIOUS
  <2>3. FirstBy(U, f.start)'
    <3>1. ASSUME NEW a \in U, IsActivation(a)' PROVE 0 <= first'[a] /\ first'[a] <= f.start
      <4>1. IsActivation(a)
        BY <1>1, <3>1, ModelStays
      <4>2. Lived(a, f.start)'
        BY <1>5, <2>2
      <4>3. QED
        BY <2>2, <3>1, <4>1, <4>2 DEF Lived, HasLifetime
    <3>2. QED
      BY <3>1 DEF FirstBy
  <2>4. Together(U, T)'
    <3>1. U \subseteq Buffers' /\ T \subseteq Buffers' /\ U \subseteq U
      BY <1>3, <1>5, <1>6, <2>2
    <3>2. \A b \in T : Lived(b, f.start)'
      BY <1>6
    <3>3. \A a \in U : last'[a] = scope'
      BY <2>2
    <3>4. QED
      BY <1>1, <2>3, <3>1, <3>2, <3>3, ReadNow
  <2>5. P \intersect later \subseteq U
    <3>1. later = Range(op.ins)
      <4>1. {m \in Finished(g) : f.op <= m} = {f.op}
        <5>1. Finished(g) \subseteq 1..f.op
          BY <1>1 DEF Finished
        <5>2. QED
          BY <1>1, <5>1
      <4>2. QED
        BY <1>1, <1>7, <4>1 DEF ReadSince
    <3>2. QED
      BY <2>2, <3>1 DEF UsedBy
  <2>6. Together(P \intersect later, T)'
    BY <2>4, <2>5 DEF Together
  <2>7. \A b \in T : Lived(b, f.start)'
    BY <1>6
  <2>8. QED
    BY <1>1, <1>3, <1>6, <2>1, <2>2, <2>4, <2>6, <2>7 DEF OpSpans
\* The ones before it.
<1>8. ASSUME NEW n \in Finished(f), NEW P, P = Produced(f.graph, n), NEW later, later = ReadSince(g, n),
             NEW o, o = OpsOf(f)[n]
      PROVE  OpSpans(P, later, o)'
  <2>1. PICK before : before = ReadSince(f, n)
    OBVIOUS
  <2>2. OpSpans(P, before, o)' /\ o \in Ops(f.graph)
    BY <1>1, <1>2, <1>3, <1>8, <2>1 DEF FrameSpans
  <2>3. PICK S : S = Touched(o)
    OBVIOUS
  <2>4. S \subseteq Buffers' /\ P \subseteq Buffers'
    BY <1>1, <1>3, <1>4, <1>8, <2>2, <2>3, TouchedFacts DEF Finished
  <2>5. PICK s \in Nat : FirstBy(P, s)' /\ \A b \in S : Lived(b, s)'
    BY <1>3, <2>2, <2>3 DEF OpSpans
  <2>6. PICK A : A = P \intersect Range(op.ins)
    OBVIOUS
  <2>7. Together(A, S)'
    <3>1. A \subseteq P /\ A \subseteq Buffers' /\ \A a \in A : last'[a] = scope'
      BY <1>3, <1>5, <2>6 DEF UsedBy
    <3>2. QED
      BY <2>4, <2>5, <3>1, ReadNow
  <2>8. later \subseteq before \union Range(op.ins)
    BY <1>1, <1>8, <2>1 DEF ReadSince
  <2>9. Together(P \intersect later, S)'
    <3>1. Together(P \intersect before, S)'
      BY <1>3, <2>2, <2>3 DEF OpSpans
    <3>2. QED
      BY <2>6, <2>7, <2>8, <3>1 DEF Together
  <2>10. QED
    BY <1>3, <2>2, <2>3, <2>9 DEF OpSpans
<1>9. QED
  BY <1>1, <1>2, <1>3, <1>7, <1>8 DEF FrameSpans

LEMMA EndKeeps ==
  ASSUME WalkInv, EndOp
  PROVE  WalkInv'
<1>1. /\ WalkTypes /\ Timeline /\ StackLinked /\ FramesDone /\ model \in Models /\ scope \in Nat
      /\ ~Marked /\ 1 \in Depth /\ UNCHANGED model /\ scope' = scope /\ scope' \in Nat
  BY StackFacts DEF WalkInv, WalkTypes, EndOp
<1>2. PICK f \in CallRecord : f = marking[1]
  BY <1>1, StackFacts
<1>3. /\ FrameFits(f) /\ f.graph \in DOMAIN model.graphs /\ f.inOp /\ f.op \in DOMAIN OpsOf(f)
      /\ f.op \in Nat /\ f.callees = <<>> /\ f.start \in Nat /\ f.start <= scope
      /\ OpAt(f) \in Ops(f.graph)
  <2>1. FrameFits(f) /\ f.inOp /\ f.callees = <<>>
    BY <1>1, <1>2, StackFacts DEF EndOp, Caller
  <2>2. QED
    BY <1>1, <2>1, FrameFacts DEF FrameFits
<1>4. PICK op \in Ops(f.graph) : op = OpAt(f)
  BY <1>3
<1>5. UsedBy(op) \subseteq Buffers /\ Range(op.callees) \subseteq DOMAIN model.graphs
  BY <1>1, <1>3, OpFacts
<1> DEFINE g == [f EXCEPT !.inOp = FALSE]
<1>6. /\ first' = UpdateFirstCreated(first, op.scratch, f.start)
      /\ last' = UpdateLastUsed(last, UsedBy(op), scope)
  BY <1>2, <1>4 DEF EndOp, Caller, CallerOp, OpAt, OpsOf, UsedBy
<1>7. marking' = [marking EXCEPT ![1] = g]
  BY <1>2 DEF EndOp
<1>8. /\ g \in CallRecord /\ g.graph = f.graph /\ g.op = f.op /\ ~g.inOp /\ g.start = f.start
      /\ g.callees = f.callees
  BY DEF CallRecord
<1> HIDE DEF g
<1>9. OpsOf(g) = OpsOf(f) /\ OpAt(g) = op /\ Finished(g) = Finished(f) \union {f.op}
  <2>1. OpsOf(g) = OpsOf(f) /\ OpAt(g) = op
    BY <1>4, <1>8 DEF OpsOf, OpAt
  <2>2. f.op >= 1 /\ f.op \in 1..f.op
    BY <1>3 DEF FrameFits
  <2>3. Finished(g) = 1..f.op /\ Finished(f) = {n \in 1..f.op : n < f.op}
    BY <1>3, <1>8 DEF Finished
  <2>4. Finished(g) = Finished(f) \union {f.op}
    BY <1>3, <2>2, <2>3
  <2>5. QED
    BY <2>1, <2>4
<1>10. ScratchIsOwn(model, f.graph, f.op) /\ op = model.graphs[f.graph].ops[f.op]
  BY <1>1, <1>3, <1>4, OrderAssumption DEF OrderAssumption, OpsOf, OpAt, Graph
<1>11. /\ Grows /\ Timeline' /\ first' \in [Buffers -> Int] /\ last' \in [Buffers -> Int]
       /\ \A b \in Buffers :
            /\ first'[b] = IF b \in op.scratch /\ first[b] = -1 THEN f.start ELSE first[b]
            /\ last'[b] = IF b \in UsedBy(op) THEN scope ELSE last[b]
       /\ \A b \in Buffers \intersect op.scratch \intersect UsedBy(op) : \A t \in Nat :
            t <= scope => Lived(b, t)'
  <2>1. op.scratch \intersect model.variables = {}
    BY <1>1, <1>3, <1>10 DEF ScratchIsOwn
  <2>2. f.start \in 0..scope' /\ scope \in scope..scope' /\ scope <= scope' /\ f.start <= scope
    BY <1>1, <1>3
  <2>3. QED
    BY <1>1, <1>6, <2>1, <2>2, UpdateGrows
<1>12. /\ marking' \in Seq(CallRecord)' /\ Depth' = Depth /\ Len(marking') = Len(marking)
       /\ marking'[1] = g /\ ~Marked' /\ \A j \in Depth : Base(j)' = Base(j)
       /\ \A j \in Depth \ {1} : marking'[j] = marking[j] /\ Pending(j)' = Pending(j)
  BY <1>1, <1>2, <1>7, <1>8, OuterFramesStay
<1>13. WalkTypes'
  BY <1>1, <1>11, <1>12, ModelStays DEF WalkTypes
<1>14. Pending(1) = {}
  BY <1>2, <1>3 DEF Pending, Range
<1>15. PICK D \in SUBSET DOMAIN model.graphs : Walked(D)
  BY DEF WalkInv
\* The operator that ends.
<1>16. OpUnderWay(f, {}, f.start)
  BY <1>1, <1>2, <1>14 DEF FramesDone
<1>17. ASSUME NEW a \in UsedBy(op), NeedsAllocating(a) PROVE first'[a] <= f.start
  <2>1. a \in Buffers /\ first[a] \in -1..scope /\ f.start >= 0
    BY <1>1, <1>3, <1>5 DEF Timeline
  <2>2. CASE a \in op.scratch
    <3>1. first[a] <= f.start
      BY <1>3, <1>4, <1>16, <2>2 DEF OpUnderWay
    <3>2. first'[a] = f.start \/ first'[a] = first[a]
      BY <1>11, <2>1
    <3>3. QED
      BY <1>3, <3>1, <3>2
  <2>3. CASE a \notin op.scratch /\ a \in model.variables
    <3>1. first[a] = -1 /\ first'[a] = first[a]
      BY <1>1, <1>11, <2>1, <2>3 DEF Timeline
    <3>2. QED
      BY <1>3, <2>1, <3>1
  <2>4. CASE a \notin op.scratch /\ a \notin model.variables
    <3>1. IsActivation(a) => first[a] <= f.start
      BY <1>3, <1>4, <1>16, <2>4 DEF OpUnderWay, UsedBy
    <3>2. QED
      BY <1>11, <1>17, <2>1, <2>4, <3>1 DEF IsActivation
  <2>5. QED
    BY <2>2, <2>3, <2>4
<1>18. ASSUME NEW t \in Nat, t <= scope, NEW a \in UsedBy(op) PROVE Lived(a, t)'
  <2>1. a \in Buffers /\ last'[a] = scope /\ first[a] \in Int
    BY <1>1, <1>5, <1>11 DEF WalkTypes
  <2>2. CASE a \in op.scratch
    BY <1>11, <1>18, <2>1, <2>2
  <2>3. CASE a \notin op.scratch
    <3>1. IsActivation(a) => 0 <= first[a] /\ first[a] <= f.start
      BY <1>3, <1>4, <1>16, <2>3 DEF OpUnderWay, UsedBy
    <3>2. first'[a] = first[a]
      BY <1>11, <2>1, <2>3
    <3>3. IsActivation(a)' => 0 <= first'[a] /\ first'[a] <= scope
      BY <1>1, <1>3, <2>1, <3>1, <3>2, ModelStays
    <3>4. QED
      BY <1>1, <1>18, <2>1, <3>3 DEF Lived, HasLifetime
  <2>4. QED
    BY <2>2, <2>3
<1>19. ASSUME NEW c \in Range(op.callees)
       PROVE  /\ WalkedDeep(c, f.start)
              /\ \A t \in Nat : t <= f.start => WalkedDeep(c, t)'
  <2>1. WalkedDeep(c, f.start)
    BY <1>3, <1>4, <1>16 DEF OpUnderWay
  <2>2. c \in DOMAIN model.graphs
    BY <1>5
  <2>3. QED
    BY <1>1, <1>3, <1>11, <2>1, <2>2, WalkedGrows
<1>20. OverlapsCallees(op)'
  <2> SUFFICES ASSUME NEW c \in Range(op.callees), NEW h \in Reach(c), NEW b \in BuffersOf(h),
                      NEW a \in UsedBy(op), NeedsAllocating(a), IsActivation(b)
               PROVE  OverlapInTime(a, b)'
    BY <1>1, ModelStays DEF OverlapsCallees
  <2>1. a \in Buffers /\ b \in Buffers
    BY <1>1, <1>5, SubgraphFacts DEF Reach
  <2>2. f.start <= last[b] /\ last[b] \in Int
    BY <1>1, <1>19, <2>1 DEF WalkedDeep, Lived, WalkTypes
  <2>3. last[b] <= last'[b] /\ last'[b] \in Int /\ first'[a] \in Int
    BY <1>11, <2>1 DEF Grows
  <2>4. first'[a] <= last'[b]
    BY <1>3, <1>17, <2>2, <2>3
  <2>5. first'[b] <= last'[a]
    BY <1>1, <1>11, <2>1, ModelStays DEF Timeline
  <2>6. QED
    BY <2>4, <2>5 DEF OverlapInTime
<1>21. ASSUME NEW t \in Nat, t <= f.start PROVE OpDone(op, t)'
  <2>1. t <= scope
    BY <1>1, <1>3, <1>21
  <2>2. QED
    BY <1>18, <1>19, <1>20, <1>21, <2>1 DEF OpDone
\* The frames further out.
<1>22. ASSUME NEW j \in Depth \ {1}, NEW e, e = marking[j]
       PROVE  /\ e \in CallRecord' /\ FrameFits(e)'
              /\ \A t \in {Base(j)} : FrameDone(e, t)'
              /\ \A t \in {e.start} : \A C \in {Pending(j)} : OpUnderWay(e, C, t)'
  <2>1. e \in CallRecord /\ FrameFits(e) /\ e.inOp /\ j > 1
    BY <1>1, <1>22, StackFacts DEF StackLinked
  <2>2. ~(e.graph = f.graph /\ e.op = f.op)
    BY <1>1, <1>2, <1>3, <1>14, <1>15, <1>22, <2>1, NoOperatorTwice
  <2>3. /\ e.graph \in DOMAIN model.graphs /\ e.op \in DOMAIN model.graphs[e.graph].ops
        /\ OpAt(e) = model.graphs[e.graph].ops[e.op] /\ OpAt(e) \in Ops(e.graph)
    BY <1>1, <2>1, FrameFacts DEF OpAt, OpsOf, Graph
  <2>4. \A s \in OpAt(e).scratch : s \notin op.scratch
    BY <1>10, <2>2, <2>3 DEF ScratchIsOwn
  <2>5. OpAt(e).scratch \subseteq Buffers
    BY <1>1, <2>3, OpFacts DEF UsedBy
  <2>6. \A s \in OpAt(e).scratch : first'[s] = first[s]
    BY <1>11, <2>4, <2>5
  <2>7. QED
    BY <1>1, <1>11, <1>22, <2>6, FrameStays
<1>23. FrameFits(g)'
  <2>1. OpsOf(g)' = OpsOf(f) /\ g.op <= Len(OpsOf(f)) /\ g.start <= scope'
    BY <1>1, <1>3, <1>8, <1>9, CalleesStay DEF FrameFits
  <2>2. QED
    BY <1>8, <2>1 DEF FrameFits
<1>24. StackLinked'
  <2>1. marking'[Len(marking')].graph = 1
    BY <1>1, <1>2, <1>8, <1>12, StackFacts DEF StackLinked
  <2>2. ASSUME NEW j \in Depth, NEW e, e = marking'[j], NEW t, t = Base(j)
        PROVE  /\ FrameFits(e)' /\ (e.inOp => t <= e.start)
               /\ j > 1 => e.inOp /\ marking'[j - 1].graph \in Range(OpAt(e)'.callees)
    <3>1. CASE j = 1
      BY <1>8, <1>12, <1>23, <2>2, <3>1
    <3>2. CASE j # 1
      <4>1. e = marking[j] /\ j - 1 \in Depth /\ j > 1
        BY <1>1, <1>12, <2>2, <3>2, StackFacts
      <4>2. e.inOp /\ t <= e.start /\ marking[j - 1].graph \in Range(OpAt(e).callees)
        BY <1>1, <2>2, <4>1 DEF StackLinked
      <4>3. marking'[j - 1].graph = marking[j - 1].graph
        BY <1>2, <1>8, <1>12, <4>1
      <4>4. QED
        BY <1>1, <1>22, <3>2, <4>1, <4>2, <4>3, CalleesStay
    <3>3. QED
      BY <3>1, <3>2
  <2>3. QED
    BY <1>12, <2>1, <2>2 DEF StackLinked
<1>25. FramesDone'
  <2>1. ASSUME NEW t \in {Base(1)} PROVE FrameDone(g, t)'
    <3>1. t \in Nat /\ t <= f.start
      BY <1>1, <1>2, <1>3, StackFacts DEF StackLinked
    <3>2. FrameDone(f, t)'
      BY <1>1, <1>2, <1>3, <1>11, <3>1, FrameKeeps DEF FramesDone
    <3>3. OpDone(op, t)'
      BY <1>21, <3>1
    <3>4. /\ OpsOf(f)' = OpsOf(f) /\ OpsOf(g)' = OpsOf(f) /\ Finished(g)' = Finished(f)' \union {f.op}
          /\ Graph(f.graph)' = Graph(g.graph)' /\ op = OpsOf(f)[f.op]
      BY <1>1, <1>4, <1>8, <1>9, CalleesStay DEF OpAt
    <3>5. QED
      BY <3>2, <3>3, <3>4 DEF FrameDone
  <2>2. ASSUME NEW t, NEW C PROVE OpUnderWay(g, C, t)'
    BY <1>8 DEF OpUnderWay
  <2>3. QED
    BY <1>12, <1>22, <2>1, <2>2 DEF FramesDone
<1>26. Walked(D)'
  <2>1. ClosedUnderCalls(D)' /\ NoCycleIn(D)'
    BY <1>1, <1>15, CalleesStay DEF Walked
  <2>2. ASSUME NEW C PROVE CalleesIn(g, C, D)'
    <3>1. CalleesIn(f, {}, D)
      BY <1>1, <1>2, <1>14, <1>15 DEF Walked
    <3>2. Range(op.callees) \subseteq D /\ op = OpsOf(f)[f.op]
      BY <1>3, <1>4, <3>1 DEF CalleesIn, OpAt
    <3>3. CalleesIn(g, C, D)
      BY <1>8, <1>9, <3>1, <3>2 DEF CalleesIn
    <3>4. QED
      BY <1>1, <3>3, CalleesStay
  <2>3. ASSUME NEW j \in Depth \ {1}, NEW e, e = marking[j], NEW C, C = Pending(j)
        PROVE  CalleesIn(e, C, D)'
    BY <1>1, <1>15, <2>3, CalleesStay DEF Walked
  <2>4. \A h \in D : Spanned(h)'
    BY <1>1, <1>11, <1>15, WalkedSpan
  <2>5. QED
    BY <1>12, <2>1, <2>2, <2>3, <2>4 DEF Walked
<1>27. FramesSpan'
  <2>1. FrameSpans(f) /\ \A j \in Depth \ {1} : \A e \in {marking[j]} : FrameSpans(e)'
    BY <1>1, <1>2, <1>11, OthersSpan DEF WalkInv, FramesSpan
  <2>2. \A b \in Touched(op) : Lived(b, f.start)'
    <3>1. OpDone(op, f.start)'
      <4>1. f.start <= f.start
        BY <1>3
      <4>2. QED
        BY <1>3, <1>21, <4>1
    <3>2. QED
      BY <1>1, <3>1, ModelStays DEF Touched, OpDone, WalkedDeep, UsedBy
  <2>3. \A a \in UsedBy(op) : last'[a] = scope' /\ (IsActivation(a) => first'[a] <= f.start)
    BY <1>1, <1>5, <1>11, <1>17 DEF IsActivation
  <2>4. FrameSpans(g)'
    BY <1>1, <1>3, <1>4, <1>8, <1>9, <1>11, <2>1, <2>2, <2>3, EndSpans
  <2>5. QED
    BY <1>12, <2>1, <2>4 DEF FramesSpan
<1>28. QED
  BY <1>1, <1>11, <1>12, <1>13, <1>15, <1>24, <1>25, <1>26, <1>27 DEF WalkInv

-----------------------------------------------------------------------------
\* LeaveSubgraph.
LEMMA OuterFramesMoveIn ==
  ASSUME WalkTypes, StackLinked, ~Marked, UNCHANGED model, marking' = Tail(marking)
  PROVE  /\ marking' \in Seq(CallRecord)' /\ Len(marking') = Len(marking) - 1 /\ 1 \in Depth
         /\ Depth' = 1..(Len(marking) - 1) /\ (Marked' <=> Len(marking) = 1)
         /\ \A k, j : k \in Depth' /\ j = k + 1 =>
              /\ j \in Depth \ {1} /\ marking'[k] = marking[j] /\ Base(k)' = Base(j)
              /\ k # 1 => Pending(k)' = Pending(j)
         /\ ~Marked' => \A d : d \in Pending(2) <=>
              d \in Pending(1)' \/ (d \in DOMAIN model.graphs /\ d = marking[1].graph)
<1>1. Len(marking) \in Nat /\ Depth = 1..Len(marking) /\ Len(marking) # 0
  BY StackFacts
<1>2. CallRecord' = CallRecord
  BY DEF CallRecord
<1>3. /\ marking' \in Seq(CallRecord) /\ Len(marking') = Len(marking) - 1
      /\ \A k \in 1..(Len(marking) - 1) : marking'[k] = marking[k + 1]
  BY <1>1 DEF WalkTypes
<1>4. Depth' = 1..(Len(marking) - 1)
  BY <1>3 DEF Depth
<1>5. Marked' <=> Len(marking) = 1
  <2>1. marking' = <<>> <=> Len(marking') = 0
    BY <1>3
  <2>2. QED
    BY <1>1, <1>3, <2>1 DEF Marked
<1>6. ASSUME NEW k \in Depth', NEW j, j = k + 1
      PROVE  j \in Depth \ {1} /\ marking'[k] = marking[j] /\ Base(k)' = Base(j)
  <2>1. j \in Depth \ {1} /\ marking'[k] = marking[j]
    BY <1>1, <1>3, <1>4, <1>6
  <2>2. k = Len(marking') <=> j = Len(marking)
    BY <1>1, <1>3, <1>4, <1>6
  <2>3. CASE j = Len(marking)
    BY <2>1, <2>2, <2>3 DEF Base
  <2>4. CASE j # Len(marking)
    <3>1. k + 1 \in 1..(Len(marking) - 1)
      BY <1>1, <1>4, <1>6, <2>4
    <3>2. marking'[k + 1] = marking[j + 1]
      BY <1>3, <1>6, <3>1
    <3>3. QED
      BY <2>1, <2>2, <2>4, <3>2 DEF Base
  <2>5. QED
    BY <2>1, <2>3, <2>4
<1>7. ASSUME NEW k \in Depth', NEW j, j = k + 1, k # 1 PROVE Pending(k)' = Pending(j)
  <2>1. k - 1 \in Depth' /\ k - 1 + 1 = j - 1 /\ k > 1 /\ j > 1
    BY <1>1, <1>4, <1>7
  <2>2. marking'[k - 1].graph = marking[j - 1].graph
    BY <1>6, <2>1
  <2>3. QED
    BY <1>6, <1>7, <2>1, <2>2 DEF Pending
<1>8. ASSUME ~Marked', NEW d
      PROVE  d \in Pending(2) <=>
               d \in Pending(1)' \/ (d \in DOMAIN model.graphs /\ d = marking[1].graph)
  <2>1. marking'[1] = marking[2]
    BY <1>1, <1>3, <1>5, <1>8
  <2>2. d \in Pending(2) <=>
          d \in DOMAIN model.graphs /\ (d \in Range(marking[2].callees) \/ d = marking[1].graph)
    BY DEF Pending
  <2>3. d \in Pending(1)' <=> d \in DOMAIN model.graphs /\ d \in Range(marking'[1].callees)
    <3>1. Pending(1)' = {c \in DOMAIN model'.graphs :
            c \in Range(marking'[1].callees) \/ (1 > 1 /\ c = marking'[1 - 1].graph)}
      BY Zenon DEF Pending
    <3>2. ~(1 > 1)
      OBVIOUS
    <3>3. QED
      BY <3>1, <3>2
  <2>4. QED
    BY <2>1, <2>2, <2>3
<1>9. QED
  BY <1>1, <1>2, <1>3, <1>4, <1>5, <1>6, <1>7, <1>8

\* A subgraph that calls only finished ones and is not one itself closes no cycle.
LEMMA NoNewCycle ==
  ASSUME NEW D, ClosedUnderCalls(D), NoCycleIn(D), NEW g, Calls(g) \subseteq D
  PROVE  ClosedUnderCalls(D \union {g}) /\ NoCycleIn(D \union {g})
<1>1. ClosedUnderCalls(D \union {g})
  BY DEF ClosedUnderCalls
<1>2. CASE g \in D
  <2>1. D \union {g} = D
    BY <1>2
  <2>2. QED
    BY <2>1
<1>3. CASE g \notin D
  <2> SUFFICES ASSUME NEW S \in SUBSET (D \union {g}), S # {}
               PROVE  \E h \in S : Calls(h) \intersect S = {}
    BY <1>1 DEF NoCycleIn
  <2>1. CASE S \intersect D = {}
    BY <1>3, <2>1
  <2>2. CASE S \intersect D # {}
    <3>1. PICK h \in S \intersect D : Calls(h) \intersect (S \intersect D) = {}
      BY <2>2 DEF NoCycleIn
    <3>2. Calls(h) \subseteq D
      BY <3>1 DEF ClosedUnderCalls
    <3>3. QED
      BY <1>3, <3>1, <3>2
  <2>3. QED
    BY <2>1, <2>2
<1>4. QED
  BY <1>2, <1>3

\* The subgraph that ends has been spanned: what only its caller reads is used up to now.
LEMMA LeaveSpans ==
  ASSUME WalkTypes, Timeline, Timeline', scope' \in Nat, Grows, NEW f \in CallRecord, FrameFits(f),
         ~f.inOp, f.op = Len(OpsOf(f)), FrameSpans(f),
         \A a \in Range(Graph(f.graph).outputs) : last'[a] = scope'
  PROVE  Spanned(f.graph)'
<1>1. /\ model \in Models /\ UNCHANGED model /\ f.graph \in DOMAIN model.graphs /\ f.op \in Nat
      /\ OpsOf(f) = Graph(f.graph).ops /\ Finished(f) = 1..f.op
      /\ DOMAIN Graph(f.graph).ops = Finished(f) /\ f.op = Len(Graph(f.graph).ops)
      /\ \A n \in Finished(f) : OpsOf(f)[n] \in Ops(f.graph)
  BY FrameFacts, SubgraphFacts DEF WalkTypes, Grows, OpsOf, Finished
<1>2. FrameSpans(f)'
  BY SpansKeep
<1>3. /\ \A n : Produced(f.graph, n)' = Produced(f.graph, n) /\ ReadSince(f, n)' = ReadSince(f, n)
      /\ \A n : Alive(f.graph, n)' = Alive(f.graph, n)
      /\ Finished(f)' = Finished(f) /\ OpsOf(f)' = OpsOf(f) /\ Graph(f.graph)' = Graph(f.graph)
      /\ \A o : Touched(o)' = Touched(o) /\ UsedBy(o)' = UsedBy(o)
      /\ Buffers' = Buffers
  BY <1>1, SpanStays, ModelStays
<1>4. PICK outputs : outputs = Range(Graph(f.graph).outputs)
  OBVIOUS
<1>5. ASSUME NEW n \in Finished(f), NEW A, A = Alive(f.graph, n), NEW T, T = Touched(OpsOf(f)[n])
      PROVE  Together(A, T)'
  <2>1. PICK P : P = Produced(f.graph, n)
    OBVIOUS
  <2>2. PICK before : before = ReadSince(f, n)
    OBVIOUS
  <2>3. PICK o \in Ops(f.graph) : o = OpsOf(f)[n]
    BY <1>1
  <2>4. PICK U : U = UsedBy(o)
    OBVIOUS
  <2>5. OpSpans(P, before, o)'
    BY <1>2, <1>3, <2>1, <2>2, <2>3 DEF FrameSpans
  <2>6. /\ Together(U, T)' /\ Together(P \intersect before, T)'
        /\ \E s \in Nat : FirstBy(P, s)' /\ \A b \in T : Lived(b, s)'
    BY <1>3, <1>5, <2>3, <2>4, <2>5 DEF OpSpans
  <2>7. Together(P \intersect outputs, T)'
    <3>1. PICK s \in Nat : FirstBy(P, s)' /\ \A b \in T : Lived(b, s)'
      BY <2>6
    <3>2. PICK B : B = P \intersect outputs
      OBVIOUS
    <3>3. T \subseteq Buffers'
      BY <1>1, <1>3, <1>5, <2>3, TouchedFacts
    <3>4. B \subseteq P /\ B \subseteq Buffers' /\ \A a \in B : last'[a] = scope'
      BY <1>1, <1>3, <1>4, <3>2, SubgraphFacts DEF BuffersOf, TensorsOf
    <3>5. Together(B, T)'
      BY <3>1, <3>3, <3>4, ReadNow
    <3>6. QED
      BY <3>2, <3>5
  <2>8. A \subseteq U \union (P \intersect before) \union (P \intersect outputs)
    <3>1. \A m \in n..Len(Graph(f.graph).ops) : m \in Finished(f) /\ n <= m
      BY <1>1
    <3>2. UNION {Range(Graph(f.graph).ops[k].ins) : k \in n..Len(Graph(f.graph).ops)} \subseteq before
      BY <1>1, <2>2, <3>1 DEF ReadSince
    <3>3. QED
      BY <1>1, <1>4, <1>5, <2>1, <2>3, <2>4, <3>2 DEF Alive, ReadFrom
  <2>9. QED
    BY <2>6, <2>7, <2>8 DEF Together
<1>6. QED
  BY <1>1, <1>2, <1>3, <1>5 DEF Spanned, FrameSpans

LEMMA LeaveKeeps ==
  ASSUME WalkInv, LeaveSubgraph
  PROVE  WalkInv'
<1>1. /\ WalkTypes /\ Timeline /\ StackLinked /\ FramesDone /\ model \in Models /\ scope \in Nat
      /\ ~Marked /\ 1 \in Depth /\ UNCHANGED model /\ scope' = scope /\ scope' \in Nat
      /\ marking' = Tail(marking)
  BY StackFacts DEF WalkInv, WalkTypes, LeaveSubgraph
<1>2. PICK f \in CallRecord : f = marking[1]
  BY <1>1, StackFacts
<1>3. /\ FrameFits(f) /\ f.graph \in DOMAIN model.graphs /\ ~f.inOp /\ f.op = Len(OpsOf(f))
      /\ OpsOf(f) \in Seq(Operators) /\ OpsOf(f) = Graph(f.graph).ops
  BY <1>1, <1>2, StackFacts, FrameFacts DEF LeaveSubgraph, Caller, OpsOf
<1>4. PICK g \in DOMAIN model.graphs : g = f.graph
  BY <1>3
<1>5. \A op \in Ops(g) : \E n \in Finished(f) : op = OpsOf(f)[n]
  <2>1. Finished(f) = DOMAIN OpsOf(f)
    BY <1>3 DEF Finished
  <2>2. QED
    BY <1>3, <1>4, <2>1 DEF Ops, Range
<1>6. /\ first' = UpdateFirstCreated(first, Range(Graph(g).outputs), scope)
      /\ last' = UpdateLastUsed(last, Range(Graph(g).outputs), scope)
  BY <1>2, <1>4 DEF LeaveSubgraph, Caller
<1>7. Range(Graph(g).outputs) \subseteq WrittenIn(Graph(g))
  BY DEF WrittenIn
<1>8. /\ Grows /\ Timeline' /\ first' \in [Buffers -> Int] /\ last' \in [Buffers -> Int]
      /\ \A b \in Buffers \intersect Range(Graph(g).outputs) : \A t \in Nat :
           t <= scope => Lived(b, t)'
  <2>1. Range(Graph(g).outputs) \intersect model.variables = {}
    BY <1>1, <1>7, NotVariables
  <2>2. scope \in scope..scope' /\ scope \in 0..scope' /\ scope <= scope' /\ scope <= scope
    BY <1>1
  <2>3. QED
    BY <1>1, <1>6, <2>1, <2>2, UpdateGrows
<1>9. /\ marking' \in Seq(CallRecord)' /\ Len(marking') = Len(marking) - 1
      /\ Depth' = 1..(Len(marking) - 1) /\ (Marked' <=> Len(marking) = 1)
      /\ \A k, j : k \in Depth' /\ j = k + 1 =>
           /\ j \in Depth \ {1} /\ marking'[k] = marking[j] /\ Base(k)' = Base(j)
           /\ k # 1 => Pending(k)' = Pending(j)
      /\ ~Marked' => \A d : d \in Pending(2) <=>
           d \in Pending(1)' \/ (d \in DOMAIN model.graphs /\ d = marking[1].graph)
  BY <1>1, OuterFramesMoveIn
<1>10. WalkTypes'
  BY <1>1, <1>8, <1>9, ModelStays DEF WalkTypes
\* The subgraph that ends.
<1>11. ASSUME NEW t, t = Base(1) PROVE WalkedDeep(g, t)'
  <2>1. t \in Nat /\ t <= scope /\ t <= t /\ FrameDone(f, t)
    BY <1>1, <1>2, <1>11, StackFacts DEF FramesDone
  <2>2. FrameDone(f, t)'
    BY <1>1, <1>3, <1>8, <2>1, FrameKeeps
  <2>3. \A b \in Range(Graph(g).inputs) : Lived(b, t)'
    BY <1>1, <1>4, <2>2, ModelStays DEF FrameDone
  <2>4. \A op \in Ops(g) : OpDone(op, t)'
    <3>1. OpsOf(f)' = OpsOf(f) /\ Finished(f)' = Finished(f)
      BY <1>1, CalleesStay
    <3>2. QED
      BY <1>5, <2>2, <3>1 DEF FrameDone
  <2>5. \A b \in Range(Graph(g).outputs) : Lived(b, t)'
    <3>1. Range(Graph(g).outputs) \subseteq Buffers
      BY <1>1, SubgraphFacts DEF BuffersOf, TensorsOf
    <3>2. QED
      BY <1>8, <2>1, <3>1
  <2>6. \A b \in BuffersOf(g) : Lived(b, t)'
    <3>1. \A op \in Ops(g) : \A b \in UsedBy(op) : Lived(b, t)'
      BY <2>4 DEF OpDone, UsedBy
    <3>2. QED
      BY <2>3, <2>5, <3>1 DEF BuffersOf, TensorsOf, ScratchOf, UsedBy
  <2>7. \A op \in Ops(g) : OverlapsCallees(op)'
    BY <2>4 DEF OpDone
  <2>8. \A c \in Calls(g) : WalkedDeep(c, t)'
    BY <2>4 DEF OpDone, Calls
  <2>9. ASSUME NEW h \in Reach(g)
        PROVE  (\A b \in BuffersOf(h) : Lived(b, t)') /\ (\A op \in Ops(h) : OverlapsCallees(op)')
    <3>1. CASE h = g
      BY <2>6, <2>7, <3>1
    <3>2. CASE h # g
      <4>1. PICK c \in Calls(g) : h \in Reach(c)
        BY <1>1, <2>9, <3>2, ReachUnfold
      <4>2. WalkedDeep(c, t)'
        BY <2>8
      <4>3. QED
        BY <1>1, <4>1, <4>2, ModelStays DEF WalkedDeep
    <3>3. QED
      BY <3>1, <3>2
  <2>10. QED
    BY <1>1, <2>9, ModelStays DEF WalkedDeep
<1>12. Marked' => WalkedDeep(1, 0)'
  <2> SUFFICES ASSUME Marked' PROVE WalkedDeep(1, 0)'
    OBVIOUS
  <2>1. Base(1) = 0 /\ g = 1
    BY <1>1, <1>2, <1>4, <1>9 DEF Base, StackLinked
  <2>2. QED
    BY <1>11, <2>1
\* The frames further out.
<1>13. ASSUME NEW j \in Depth \ {1}, NEW e, e = marking[j]
       PROVE  /\ e \in CallRecord' /\ FrameFits(e)'
              /\ \A t \in {Base(j)} : FrameDone(e, t)'
              /\ \A t \in {e.start} : \A C \in {Pending(j)} : OpUnderWay(e, C, t)'
  <2>1. e \in CallRecord /\ FrameFits(e) /\ e.start \in Nat
    BY <1>1, <1>13, StackFacts, FrameFacts
  <2>2. e.inOp /\ (\A s \in OpAt(e).scratch : first[s] <= e.start)
          => \A s \in OpAt(e).scratch : first'[s] <= e.start
    BY <1>1, <1>6, <1>7, <2>1, ScratchKeeps
  <2>3. QED
    BY <1>1, <1>8, <1>13, <2>2, FrameStays
<1>14. StackLinked'
  <2>1. ~Marked' => marking'[Len(marking')].graph = 1
    <3> SUFFICES ASSUME ~Marked' PROVE marking'[Len(marking')].graph = 1
      OBVIOUS
    <3>1. Len(marking) \in Nat /\ Len(marking) - 1 \in Depth' /\ Len(marking) - 1 + 1 = Len(marking)
      BY <1>1, <1>9, StackFacts
    <3>2. marking'[Len(marking) - 1] = marking[Len(marking)]
      BY <1>9, <3>1
    <3>3. QED
      BY <1>1, <1>9, <3>2 DEF StackLinked
  <2>2. ASSUME NEW k \in Depth', NEW e, e = marking'[k], NEW t, t = Base(k)'
        PROVE  /\ FrameFits(e)'
               /\ e.inOp => t <= e.start
               /\ k > 1 => e.inOp /\ marking'[k - 1].graph \in Range(OpAt(e)'.callees)
    <3>1. PICK j \in Depth \ {1} : j = k + 1 /\ e = marking[j] /\ t = Base(j)
      BY <1>9, <2>2
    <3>2. FrameFits(e)' /\ (e.inOp => t <= e.start) /\ OpAt(e)' = OpAt(e)
      BY <1>1, <1>13, <3>1, CalleesStay DEF StackLinked
    <3>3. ASSUME k > 1 PROVE e.inOp /\ marking'[k - 1].graph \in Range(OpAt(e).callees)
      <4>1. k - 1 \in Depth' /\ k - 1 + 1 = j - 1 /\ j > 1
        BY <1>1, <1>9, <3>1, <3>3, StackFacts
      <4>2. marking'[k - 1] = marking[j - 1]
        BY <1>9, <4>1
      <4>3. QED
        BY <1>1, <3>1, <4>1, <4>2 DEF StackLinked
    <3>4. QED
      BY <3>2, <3>3
  <2>3. QED
    BY <2>1, <2>2 DEF StackLinked
<1>15. FramesDone'
  <2>1. ASSUME NEW k \in Depth', NEW e, e = marking'[k]
        PROVE  /\ \A t \in {Base(k)'} : FrameDone(e, t)'
               /\ \A t \in {e.start} : \A C \in {Pending(k)'} : OpUnderWay(e, C, t)'
    <3>1. PICK j \in Depth \ {1} : j = k + 1 /\ e = marking[j] /\ Base(k)' = Base(j)
      BY <1>9, <2>1
    <3>2. \A t \in {Base(k)'} : FrameDone(e, t)'
      BY <1>13, <3>1
    <3>3. CASE k # 1
      <4>1. Pending(k)' = Pending(j)
        BY <1>9, <3>1, <3>3
      <4>2. QED
        BY <1>13, <3>1, <3>2, <4>1
    <3>4. CASE k = 1
      <4>1. j = 2 /\ ~Marked'
        BY <1>1, <1>9, <2>1, <3>1, <3>4, StackFacts
      <4>2. WalkedDeep(g, e.start)'
        <5>1. Base(1) = e.start
          <6>1. 1 # Len(marking)
            BY <1>9, <4>1
          <6>2. QED
            BY <3>1, <4>1, <6>1 DEF Base
        <5>2. QED
          BY <1>11, <5>1
      <4>3. ASSUME NEW C, C = Pending(j), NEW B, B = Pending(1)', NEW t, t = e.start
            PROVE  OpUnderWay(e, B, t)'
        <5>1. OpUnderWay(e, C, t)'
          BY <1>13, <3>1, <4>3
        <5>2. \A d \in C : d \in B \/ d = g
          BY <1>2, <1>4, <1>9, <4>1, <4>3
        <5>3. QED
          BY <4>2, <4>3, <5>1, <5>2 DEF OpUnderWay
      <4>4. QED
        BY <3>2, <3>4, <4>3
    <3>5. QED
      BY <3>3, <3>4
  <2>2. QED
    BY <2>1 DEF FramesDone
<1>16. PICK D \in SUBSET DOMAIN model.graphs : Walked(D)
  BY DEF WalkInv
<1>17. Walked(D \union {g})'
  <2>1. Calls(g) \subseteq D
    <3>1. \A n \in Finished(f) : Range(OpsOf(f)[n].callees) \subseteq D
      BY <1>1, <1>2, <1>16 DEF Walked, CalleesIn
    <3>2. QED
      BY <1>5, <3>1 DEF Calls
  <2>2. ClosedUnderCalls(D \union {g})' /\ NoCycleIn(D \union {g})'
    BY <1>1, <1>16, <2>1, NoNewCycle, CalleesStay DEF Walked
  <2>3. ASSUME NEW k \in Depth', NEW e, e = marking'[k], NEW B, B = Pending(k)'
        PROVE  CalleesIn(e, B, D \union {g})'
    <3>1. PICK j \in Depth \ {1} : j = k + 1 /\ e = marking[j]
      BY <1>9, <2>3
    <3>2. PICK C : C = Pending(j)
      OBVIOUS
    <3>3. CalleesIn(e, C, D)
      BY <1>16, <3>1, <3>2 DEF Walked
    <3>4. C \subseteq B \union {g}
      <4>1. CASE k = 1
        <5>1. j = 2 /\ ~Marked'
          BY <1>1, <1>9, <2>3, <3>1, <4>1, StackFacts
        <5>2. QED
          BY <1>2, <1>4, <1>9, <2>3, <3>2, <4>1, <5>1
      <4>2. CASE k # 1
        BY <1>9, <2>3, <3>1, <3>2, <4>2
      <4>3. QED
        BY <4>1, <4>2
    <3>5. CalleesIn(e, B, D \union {g})
      BY <3>3, <3>4 DEF CalleesIn
    <3>6. QED
      BY <1>1, <3>5, CalleesStay
  <2>4. Marked' => 1 \in D \union {g}
    BY <1>1, <1>2, <1>4, <1>9 DEF StackLinked
  <2>5. \A h \in D \union {g} : Spanned(h)'
    <3>1. \A h \in D : Spanned(h)'
      BY <1>1, <1>8, <1>16, WalkedSpan
    <3>2. \A a \in Range(Graph(g).outputs) : last'[a] = scope'
      <4>1. Range(Graph(g).outputs) \subseteq Buffers
        BY <1>1, SubgraphFacts DEF BuffersOf, TensorsOf
      <4>2. QED
        BY <1>1, <1>6, <4>1 DEF UpdateLastUsed, WalkTypes
    <3>3. Spanned(g)'
      BY <1>1, <1>2, <1>3, <1>4, <1>8, <3>2, LeaveSpans DEF WalkInv, FramesSpan
    <3>4. QED
      BY <3>1, <3>3
  <2>6. QED
    BY <2>2, <2>3, <2>4, <2>5 DEF Walked
<1>18. D \union {g} \in SUBSET DOMAIN model'.graphs
  BY <1>1, <1>16
<1>19. FramesSpan'
  <2>1. ASSUME NEW k \in Depth', NEW e, e = marking'[k] PROVE FrameSpans(e)'
    <3>1. PICK j \in Depth \ {1} : j = k + 1 /\ e = marking[j]
      BY <1>9, <2>1
    <3>2. QED
      BY <1>1, <1>8, <3>1, OthersSpan DEF WalkInv
  <2>2. QED
    BY <2>1 DEF FramesSpan
<1>20. QED
  BY <1>1, <1>8, <1>10, <1>12, <1>14, <1>15, <1>17, <1>18, <1>19 DEF WalkInv

-----------------------------------------------------------------------------
Walk == LifetimesInit /\ [][MarkLifetimes]_lifetimeVars

LEMMA InitWalk == LifetimesInit => WalkInv
<1> SUFFICES ASSUME LifetimesInit PROVE WalkInv
  OBVIOUS
<1> DEFINE c == Call(1)
           inputs == Range(Graph(1).inputs)
<1>1. model \in Models /\ scope = 0 /\ scope \in Nat /\ 1 \in DOMAIN model.graphs /\ marking = <<c>>
  BY ModelFacts DEF LifetimesInit
<1>2. c \in CallRecord /\ c.graph = 1 /\ c.op = 0 /\ ~c.inOp /\ c.start = 0
  BY <1>1 DEF Call, CallRecord
<1>3. Finished(c) = {} /\ OpsOf(c) = Graph(1).ops /\ Len(Graph(1).ops) \in Nat
  BY <1>1, <1>2, SubgraphFacts DEF Finished, OpsOf
<1>4. inputs \subseteq Buffers /\ inputs \intersect model.variables = {}
  <2>1. inputs \subseteq BuffersOf(1) /\ inputs \subseteq WrittenIn(Graph(1))
    BY DEF BuffersOf, TensorsOf, WrittenIn
  <2>2. QED
    BY <1>1, <2>1, SubgraphFacts, NotVariables
<1>5. /\ first = [b \in Buffers |-> IF b \in inputs THEN 0 ELSE -1]
      /\ last = [b \in Buffers |-> IF b \in inputs THEN 0 ELSE -1]
  BY DEF LifetimesInit, UpdateFirstCreated, UpdateLastUsed, kUninitializedLifetime
<1> HIDE DEF c, inputs
<1>6. marking \in Seq(CallRecord) /\ Len(marking) = 1 /\ Depth = {1} /\ marking[1] = c /\ ~Marked
  BY <1>1, <1>2 DEF Depth, Marked
<1>7. WalkTypes
  BY <1>1, <1>5, <1>6 DEF WalkTypes
<1>8. Timeline
  <2>1. \A b \in Buffers : first[b] \in -1..scope /\ last[b] \in -1..scope
    BY <1>1, <1>5
  <2>2. \A v \in model.variables : v \in Buffers /\ v \notin inputs
    BY <1>4 DEF Buffers
  <2>3. QED
    BY <1>5, <2>1, <2>2 DEF Timeline
<1>9. Base(1) = 0
  BY <1>6 DEF Base
<1>10. StackLinked
  <2>1. FrameFits(c)
    BY <1>1, <1>2, <1>3 DEF FrameFits
  <2>2. QED
    BY <1>2, <1>6, <2>1 DEF StackLinked
<1>11. FramesDone
  <2>1. \A b \in inputs : Lived(b, 0)
    BY <1>1, <1>4, <1>5 DEF Lived, HasLifetime
  <2>2. FrameDone(c, 0)
    BY <1>2, <1>3, <2>1 DEF FrameDone, inputs
  <2>3. \A C, t : OpUnderWay(c, C, t)
    BY <1>2 DEF OpUnderWay
  <2>4. QED
    BY <1>6, <1>9, <2>2, <2>3 DEF FramesDone
<1>12. Walked({})
  <2>1. \A C : CalleesIn(c, C, {})
    BY <1>2, <1>3 DEF CalleesIn
  <2>2. ClosedUnderCalls({}) /\ NoCycleIn({})
    BY DEF ClosedUnderCalls, NoCycleIn
  <2>3. QED
    BY <1>6, <2>1, <2>2 DEF Walked
<1>13. FramesSpan
  <2>1. \A a \in inputs : \A b \in inputs : Meet(a, b)
    BY <1>4, <1>5 DEF Meet, OverlapInTime
  <2>2. FrameSpans(c)
    BY <1>2, <1>3, <2>1 DEF FrameSpans, Together, inputs
  <2>3. QED
    BY <1>6, <2>2 DEF FramesSpan
<1>14. QED
  BY <1>6, <1>7, <1>8, <1>10, <1>11, <1>12, <1>13 DEF WalkInv

LEMMA UnchangedKeepsWalk ==
  ASSUME WalkInv, UNCHANGED lifetimeVars
  PROVE  WalkInv'
<1>1. UNCHANGED <<model, scope, first, last, marking>>
  BY DEF lifetimeVars
<1>2. /\ Buffers' = Buffers /\ CallRecord' = CallRecord /\ Depth' = Depth /\ (Marked' <=> Marked)
      /\ \A f : FrameFits(f)' <=> FrameFits(f)
      /\ \A f : OpAt(f)' = OpAt(f) /\ OpsOf(f)' = OpsOf(f) /\ Finished(f)' = Finished(f)
      /\ \A g : Graph(g)' = Graph(g)
  BY <1>1, ModelStays DEF CallRecord, Depth, Marked, FrameFits, OpAt, OpsOf, Finished, Graph
<1>3. WalkTypes' /\ Timeline'
  BY <1>1, <1>2 DEF WalkInv, WalkTypes, Timeline
<1>4. \A j : Base(j)' = Base(j) /\ Pending(j)' = Pending(j)
  BY <1>1 DEF Base, Pending
<1>5. StackLinked'
  BY <1>1, <1>2, <1>4 DEF WalkInv, StackLinked
<1>6. \A b, t : Lived(b, t)' <=> Lived(b, t)
  BY <1>1, ModelStays DEF Lived, HasLifetime
<1>7. \A op : OverlapsCallees(op)' <=> OverlapsCallees(op)
  BY <1>1, ModelStays DEF OverlapsCallees, OverlapInTime
<1>8. \A g, t : WalkedDeep(g, t)' <=> WalkedDeep(g, t)
  BY <1>1, <1>6, <1>7, ModelStays DEF WalkedDeep
<1>9. \A op, t : OpDone(op, t)' <=> OpDone(op, t)
  BY <1>6, <1>7, <1>8 DEF OpDone
<1>10. \A f, t : FrameDone(f, t)' <=> FrameDone(f, t)
  BY <1>2, <1>6, <1>9 DEF FrameDone
<1>11. \A f, C, t : OpUnderWay(f, C, t)' <=> OpUnderWay(f, C, t)
  BY <1>1, <1>2, <1>8, ModelStays DEF OpUnderWay
<1>12. FramesDone'
  BY <1>1, <1>2, <1>4, <1>10, <1>11 DEF WalkInv, FramesDone
<1>13. \A A, B, t : (Together(A, B)' <=> Together(A, B)) /\ (FirstBy(A, t)' <=> FirstBy(A, t))
  BY <1>1, ModelStays DEF Together, Meet, OverlapInTime, FirstBy
<1>14. ASSUME NEW D, Walked(D) PROVE Walked(D)'
  <2>1. \A f, C : CalleesIn(f, C, D)' <=> CalleesIn(f, C, D)
    BY <1>1, CalleesStay
  <2>2. \A g : Spanned(g)' <=> Spanned(g)
    <3>1. \A g, n, op : Alive(g, n)' = Alive(g, n) /\ Touched(op)' = Touched(op)
      BY <1>1, SpanStays
    <3>2. QED
      BY <1>2, <1>13, <3>1 DEF Spanned
  <2>3. QED
    BY <1>1, <1>2, <1>4, <1>14, <2>1, <2>2, CalleesStay DEF Walked
<1>15. FramesSpan'
  <2>1. ASSUME NEW f, FrameSpans(f) PROVE FrameSpans(f)'
    <3>1. /\ \A n : Produced(f.graph, n)' = Produced(f.graph, n) /\ ReadSince(f, n)' = ReadSince(f, n)
          /\ \A op : UsedBy(op)' = UsedBy(op) /\ Touched(op)' = Touched(op)
      BY <1>1, SpanStays
    <3>2. \A P, later, op : OpSpans(P, later, op) => OpSpans(P, later, op)'
      BY <1>6, <1>13, <3>1 DEF OpSpans
    <3>3. QED
      BY <1>2, <1>13, <2>1, <3>1, <3>2 DEF FrameSpans
  <2>2. QED
    BY <1>1, <1>2, <2>1 DEF WalkInv, FramesSpan
<1>16. QED
  BY <1>1, <1>2, <1>3, <1>5, <1>8, <1>12, <1>14, <1>15 DEF WalkInv

LEMMA StepKeepsWalk == WalkInv /\ [MarkLifetimes]_lifetimeVars => WalkInv'
BY BeginKeeps, EnterKeeps, EndKeeps, LeaveKeeps, UnchangedKeepsWalk DEF MarkLifetimes

\* The walk of every model keeps its frames' promises: what a call of MarkAllocationLifetimes
\* has finished was used since the call began, and overlaps what it calls.
THEOREM WalkInvariance == Walk => []WalkInv
BY InitWalk, StepKeepsWalk, PTL DEF Walk

LEMMA EndsWithLifetimes ==
  ASSUME WalkInv, [MarkLifetimes]_lifetimeVars, WalkEnds
  PROVE  \A g \in Reach(1) : \A b \in BuffersOf(g) : IsActivation(b) => HasLifetime(b)'
<1>1. WalkInv' /\ Marked'
  BY StepKeepsWalk DEF WalkEnds
<1>2. WalkedDeep(1, 0)'
  BY <1>1 DEF WalkInv
<1>3. UNCHANGED model
  BY DEF WalkEnds, MarkLifetimes, BeginOp, EnterSubgraph, EndOp, LeaveSubgraph, lifetimeVars
<1>4. QED
  BY <1>2, <1>3, ModelStays DEF WalkedDeep, Lived

LEMMA EndsWithOverlaps ==
  ASSUME WalkInv, [MarkLifetimes]_lifetimeVars, WalkEnds
  PROVE  \A g \in Reach(1) : \A op \in Ops(g) : OverlapsCallees(op)'
<1>1. WalkInv' /\ Marked'
  BY StepKeepsWalk DEF WalkEnds
<1>2. WalkedDeep(1, 0)'
  BY <1>1 DEF WalkInv
<1>3. UNCHANGED model
  BY DEF WalkEnds, MarkLifetimes, BeginOp, EnterSubgraph, EndOp, LeaveSubgraph, lifetimeVars
<1>4. QED
  BY <1>2, <1>3, ModelStays DEF WalkedDeep

LEMMA StepHasLifetimes == WalkInv /\ [MarkLifetimes]_lifetimeVars =>
  [WalkEnds => \A g \in Reach(1) : \A b \in BuffersOf(g) :
     IsActivation(b) => HasLifetime(b)']_lifetimeVars
BY EndsWithLifetimes

LEMMA StepOverlaps == WalkInv /\ [MarkLifetimes]_lifetimeVars =>
  [WalkEnds => \A g \in Reach(1) : \A op \in Ops(g) : \A callee \in Range(op.callees) :
    \A h \in Reach(callee) : \A b \in BuffersOf(h) :
      \A a \in Range(op.ins) \union Range(op.outs) \union op.scratch :
        NeedsAllocating(a) /\ IsActivation(b) => OverlapInTime(a, b)']_lifetimeVars
<1> SUFFICES ASSUME WalkInv, [MarkLifetimes]_lifetimeVars, WalkEnds,
                    NEW g \in Reach(1), NEW op \in Ops(g), NEW callee \in Range(op.callees),
                    NEW h \in Reach(callee), NEW b \in BuffersOf(h), NEW a \in UsedBy(op),
                    NeedsAllocating(a), IsActivation(b)
             PROVE  OverlapInTime(a, b)'
  BY DEF UsedBy
<1>1. OverlapsCallees(op)'
  BY EndsWithOverlaps
<1>2. UNCHANGED model
  BY DEF WalkEnds, MarkLifetimes, BeginOp, EnterSubgraph, EndOp, LeaveSubgraph, lifetimeVars
<1>3. QED
  BY <1>1, <1>2, ModelStays DEF OverlapsCallees

\* Whatever nests and shares, every buffer of a subgraph that an invocation can reach has a
\* lifetime when MarkAllocationLifetimes returns.
THEOREM ReachableHaveLifetimesHolds == Walk => ReachableHaveLifetimes
BY WalkInvariance, StepHasLifetimes, PTL DEF Walk, ReachableHaveLifetimes

\* And a control-flow operator's tensors and scratch buffers overlap in time with every
\* buffer of every subgraph below it.
THEOREM CallersOverlapCalleesHolds == Walk => CallersOverlapCallees
BY WalkInvariance, StepOverlaps, PTL DEF Walk, CallersOverlapCallees

\* While an operator runs, nothing it or a subgraph below it touches may share bytes with a
\* tensor that its subgraph still has to read.
MarkedSpans == Marked => \A g \in Reach(1) : Spanned(g)

LEMMA WalkedSpans ==
  ASSUME WalkInv
  PROVE  MarkedSpans
<1> SUFFICES ASSUME Marked, NEW g \in Reach(1) PROVE Spanned(g)
  BY DEF MarkedSpans
<1>1. PICK D \in SUBSET DOMAIN model.graphs : Walked(D)
  BY DEF WalkInv
<1>2. 1 \in D /\ ClosedUnderCalls(D)
  BY <1>1 DEF Walked
<1>3. g \in D
  BY <1>2 DEF Reach
<1>4. QED
  BY <1>1, <1>3 DEF Walked

\* The lifetimes of every model keep what is still to be read apart from what runs meanwhile:
\* "tensors are correctly planned for all valid invocation flows" (micro_allocation_info.h).
THEOREM MarkedSpansAlways == Walk => []MarkedSpans
BY WalkInvariance, WalkedSpans, PTL

-----------------------------------------------------------------------------
(***************************************************************************)
(* Part 2: the interpreter.                                                *)
(*                                                                         *)
(* Control: every frame's two locals hold what the members meant to the    *)
(* frame below when it called - its own subgraph, and the operator whose   *)
(* kernel made the call - so that restoring them on any way out gives the  *)
(* loop below its own counter back.                                        *)
(*                                                                         *)
(* Data: each frame needs some buffers intact, which depend on its step.   *)
(* What a frame waits for below a call is alive, in the sense of the       *)
(* lifetime walk, during the operator it is in; every write above it is to *)
(* a buffer that running this operator touches; and these two are kept     *)
(* apart (MarkedSpans).                                                    *)
(***************************************************************************)

FrameRecord == [graph : DOMAIN model.graphs, node : Nat, callee : Nat, turns : 0..MaxIterations,
                step : {"loop", "break", "eval", "branch", "cond", "body", "once"},
                previousGraph : DOMAIN model.graphs, previousOp : Nat]

Calling == {"branch", "cond", "body", "once"}
Looping == {"cond", "body"}

FramesLinked ==
  /\ Running => frames[1].previousGraph = 1 /\ frames[1].previousOp = 0
  /\ \A i \in 2..Len(frames) :
       /\ frames[i].previousGraph = frames[i - 1].graph
       /\ frames[i].previousOp + 1 = frames[i - 1].node
       /\ frames[i - 1].step \in Calling

NodeFits(f) ==
  /\ f.node <= Len(Graph(f.graph).ops)
  /\ f.step # "loop" => f.node >= 1
  /\ f.step \in Looping => Graph(f.graph).ops[f.node].kind = "WHILE"
  /\ f.step = "branch" => Graph(f.graph).ops[f.node].kind = "IF"
NodesInRange == \A i \in DOMAIN frames : NodeFits(frames[i])

LoopCounts == Running /\ Top.step = "loop" => currentOp = Top.node

ControlTypes ==
  /\ model \in Models
  /\ frames \in Seq(FrameRecord)
  /\ currentGraph \in DOMAIN model.graphs
  /\ currentOp \in Nat
  /\ status \in {"ok", "failed"}

ControlInv == ControlTypes /\ CurrentIsRunning /\ FramesLinked /\ NodesInRange /\ LoopCounts

-----------------------------------------------------------------------------
LEMMA TopFacts ==
  ASSUME ControlInv, Running
  PROVE  /\ Len(frames) \in Nat \ {0}
         /\ DOMAIN frames = 1..Len(frames)
         /\ Top \in FrameRecord
         /\ \A i \in DOMAIN frames : frames[i] \in FrameRecord
         /\ Top.graph \in DOMAIN model.graphs /\ Top.node \in Nat
<1>1. frames \in Seq(FrameRecord) /\ frames # <<>>
  BY DEF ControlInv, ControlTypes, Running
<1>2. /\ Len(frames) \in Nat \ {0} /\ DOMAIN frames = 1..Len(frames)
      /\ \A i \in DOMAIN frames : frames[i] \in FrameRecord
  BY <1>1
<1>3. Top \in FrameRecord
  BY <1>2 DEF Top
<1>4. QED
  BY <1>2, <1>3 DEF FrameRecord

\* A frame's graph is a subgraph with a finite sequence of operators.
LEMMA GraphFacts ==
  ASSUME model \in Models, NEW g \in DOMAIN model.graphs
  PROVE  /\ Graph(g).ops \in Seq(Operators)
         /\ Len(Graph(g).ops) \in Nat
<1>1. model.graphs \in Seq(Subgraphs)
  BY ModelAssumption DEF ModelAssumption
<1>2. model.graphs[g] \in Subgraphs
  BY <1>1
<1>3. QED
  BY <1>2 DEF Subgraphs, Graph

\* The node whose kernel runs is one of the model's, and its callees are subgraphs.
LEMMA NodeFacts ==
  ASSUME ControlInv, Running, Top.step # "loop"
  PROVE  /\ Node \in Operators
         /\ Top.step \in Looping => Node.kind = "WHILE"
         /\ Top.step = "branch" => Node.kind = "IF"
         /\ \A i \in DOMAIN Node.callees :
              Node.callees[i] \in DOMAIN model.graphs /\ Node.callees[i] \in Calls(Top.graph)
         /\ Node.kind = "WHILE" => {1, 2} \subseteq DOMAIN Node.callees
         /\ Node.kind = "CALL_ONCE" => 1 \in DOMAIN Node.callees
<1>1. Top.node \in 1..Len(Graph(Top.graph).ops)
  BY TopFacts, GraphFacts DEF ControlInv, ControlTypes, NodesInRange, NodeFits, Top
<1>2. Top.node \in DOMAIN Graph(Top.graph).ops /\ Graph(Top.graph).ops \in Seq(Operators)
  BY <1>1, TopFacts, GraphFacts DEF ControlInv, ControlTypes
<1>3. Node \in Operators
  BY <1>2 DEF Node
<1>4. WellFormed(model, Node)
  BY <1>2, TopFacts, ModelAssumption DEF ModelAssumption, ControlInv, ControlTypes, Node, Graph
<1>5. Node.callees \in Seq(Nat)
  BY <1>3 DEF Operators
<1>6. (Top.step \in Looping => Node.kind = "WHILE") /\ (Top.step = "branch" => Node.kind = "IF")
  BY TopFacts DEF ControlInv, NodesInRange, NodeFits, Node, Top
<1>7. \A i \in DOMAIN Node.callees : Node.callees[i] \in Calls(Top.graph)
  <2>1. Node \in Ops(Top.graph)
    BY <1>2 DEF Node, Ops, Range
  <2>2. QED
    BY <2>1 DEF Calls, Range
<1>8. QED
  BY <1>3, <1>4, <1>5, <1>6, <1>7 DEF WellFormed

Steps == {"loop", "break", "eval"} \union Calling

\* A frame stays a frame when one of its fields moves, and only that field moves.
LEMMA FieldUpdate ==
  ASSUME NEW f \in FrameRecord
  PROVE  /\ \A k \in Nat : LET g == [f EXCEPT !.node = k] IN
              /\ g \in FrameRecord /\ g.node = k /\ g.graph = f.graph /\ g.step = f.step
              /\ g.previousGraph = f.previousGraph /\ g.previousOp = f.previousOp
         /\ \A k \in Nat : LET g == [f EXCEPT !.callee = k] IN
              /\ g \in FrameRecord /\ g.node = f.node /\ g.graph = f.graph /\ g.step = f.step
              /\ g.previousGraph = f.previousGraph /\ g.previousOp = f.previousOp
         /\ \A k \in 0..MaxIterations : LET g == [f EXCEPT !.turns = k] IN
              /\ g \in FrameRecord /\ g.node = f.node /\ g.graph = f.graph /\ g.step = f.step
              /\ g.previousGraph = f.previousGraph /\ g.previousOp = f.previousOp
         /\ \A k \in Steps : LET g == [f EXCEPT !.step = k] IN
              /\ g \in FrameRecord /\ g.node = f.node /\ g.graph = f.graph /\ g.step = k
              /\ g.previousGraph = f.previousGraph /\ g.previousOp = f.previousOp
<1>1. \A k \in Nat : LET g == [f EXCEPT !.node = k] IN
         /\ g \in FrameRecord /\ g.node = k /\ g.graph = f.graph /\ g.step = f.step
         /\ g.previousGraph = f.previousGraph /\ g.previousOp = f.previousOp
  BY DEF FrameRecord
<1>2. \A k \in Nat : LET g == [f EXCEPT !.callee = k] IN
         /\ g \in FrameRecord /\ g.node = f.node /\ g.graph = f.graph /\ g.step = f.step
         /\ g.previousGraph = f.previousGraph /\ g.previousOp = f.previousOp
  BY DEF FrameRecord
<1>3. \A k \in 0..MaxIterations : LET g == [f EXCEPT !.turns = k] IN
         /\ g \in FrameRecord /\ g.node = f.node /\ g.graph = f.graph /\ g.step = f.step
         /\ g.previousGraph = f.previousGraph /\ g.previousOp = f.previousOp
  BY DEF FrameRecord
<1>4. \A k \in Steps : LET g == [f EXCEPT !.step = k] IN
         /\ g \in FrameRecord /\ g.node = f.node /\ g.graph = f.graph /\ g.step = k
         /\ g.previousGraph = f.previousGraph /\ g.previousOp = f.previousOp
  BY DEF FrameRecord, Steps, Calling
<1>5. QED
  BY <1>1, <1>2, <1>3, <1>4

-----------------------------------------------------------------------------
LEMMA SequenceUpdate ==
  ASSUME NEW S, NEW q \in Seq(S), NEW n \in 1..Len(q), NEW e \in S
  PROVE  LET r == [q EXCEPT ![n] = e] IN
         /\ r \in Seq(S) /\ Len(r) = Len(q) /\ DOMAIN r = DOMAIN q /\ r[n] = e
         /\ \A i \in DOMAIN q : i # n => r[i] = q[i]
OBVIOUS

\* What an action does to the frame on top: Moved(f) says that f replaces it.
Moved(f) ==
  /\ frames' = [frames EXCEPT ![Len(frames)] = f]
  /\ f \in FrameRecord
  /\ f.graph = Top.graph /\ f.previousGraph = Top.previousGraph /\ f.previousOp = Top.previousOp

\* The frames below are not touched, so the links stand.
LEMMA MovedTop ==
  ASSUME ControlInv, Running, UNCHANGED model, NEW f, Moved(f)
  PROVE  /\ frames' \in Seq(FrameRecord)' /\ Len(frames') = Len(frames)
         /\ DOMAIN frames' = DOMAIN frames
         /\ Top' = f /\ Running'
         /\ \A i \in DOMAIN frames : i # Len(frames) => frames'[i] = frames[i]
         /\ FramesLinked'
<1> DEFINE n == Len(frames)
<1>1. n \in Nat \ {0} /\ DOMAIN frames = 1..n /\ frames \in Seq(FrameRecord) /\ frames # <<>>
  BY TopFacts DEF ControlInv, ControlTypes, Running
<1>0. n = Len(frames)
  OBVIOUS
<1> HIDE DEF n
<1>2. /\ frames' \in Seq(FrameRecord) /\ Len(frames') = n /\ DOMAIN frames' = 1..n
      /\ frames'[n] = f /\ \A i \in 1..n : i # n => frames'[i] = frames[i]
  <2>1. frames' = [frames EXCEPT ![n] = f] /\ f \in FrameRecord /\ n \in 1..Len(frames)
    BY <1>0, <1>1 DEF Moved
  <2>2. QED
    BY <1>0, <1>1, <2>1, SequenceUpdate
<1>3. Running' /\ Top' = f
  BY <1>0, <1>1, <1>2 DEF Running, Top
<1>4. FrameRecord' = FrameRecord
  BY DEF FrameRecord
<1>5. FramesLinked'
  <2>1. n >= 1 /\ frames[n] = Top
    BY <1>0, <1>1 DEF Top
  <2>2. frames'[1].previousGraph = 1 /\ frames'[1].previousOp = 0
    <3>1. CASE n = 1
      BY <1>2, <2>1, <3>1 DEF ControlInv, FramesLinked, Moved
    <3>2. CASE n # 1
      <4>1. 1 \in 1..n /\ 1 # n
        BY <1>1, <3>2
      <4>2. frames'[1] = frames[1]
        BY <1>2, <4>1
      <4>3. QED
        BY <4>2 DEF ControlInv, FramesLinked
    <3>3. QED
      BY <3>1, <3>2
  <2>3. ASSUME NEW i \in 2..n
        PROVE  /\ frames'[i].previousGraph = frames'[i - 1].graph
               /\ frames'[i].previousOp + 1 = frames'[i - 1].node
               /\ frames'[i - 1].step \in Calling
    <3>1. i - 1 \in 1..n /\ i - 1 # n /\ frames'[i - 1] = frames[i - 1]
      <4>1. i - 1 \in 1..n /\ i - 1 # n
        BY <1>1
      <4>2. QED
        BY <1>2, <4>1
    <3>2. frames'[i].previousGraph = frames[i].previousGraph /\ frames'[i].previousOp = frames[i].previousOp
      <4>1. CASE i = n
        BY <1>2, <2>1, <4>1 DEF Moved
      <4>2. CASE i # n
        <5>1. frames'[i] = frames[i]
          BY <1>1, <1>2, <4>2
        <5>2. QED
          BY <5>1
      <4>3. QED
        BY <4>1, <4>2
    <3>3. QED
      BY <1>0, <3>1, <3>2 DEF ControlInv, FramesLinked
  <2>4. QED
    BY <1>2, <2>2, <2>3 DEF FramesLinked
<1>6. QED
  BY <1>0, <1>1, <1>2, <1>3, <1>4, <1>5

\* NodesInRange only needs a look at the frame that moved.
LEMMA MovedInRange ==
  ASSUME ControlInv, Running, UNCHANGED model, NEW f, Moved(f),
         NodeFits(f)
  PROVE  NodesInRange'
<1>1. \A i \in DOMAIN frames' : IF i = Len(frames) THEN frames'[i] = f ELSE frames'[i] = frames[i]
  BY MovedTop, TopFacts DEF Top, Moved
<1>2. \A g : Graph(g)' = Graph(g)
  BY DEF Graph
<1>3. QED
  BY <1>1, <1>2, MovedTop DEF ControlInv, NodesInRange, NodeFits

LEMMA StartKeepsControl ==
  ASSUME ControlInv, Running, StartNode, UNCHANGED model
  PROVE  ControlInv'
<1> DEFINE g == [Top EXCEPT !.node = currentOp + 1]
           f == [g EXCEPT !.step = "eval"]
<1>1. Top \in FrameRecord /\ currentOp \in Nat /\ "eval" \in Steps
  BY TopFacts DEF ControlInv, ControlTypes, Steps
<1>2. g \in FrameRecord /\ g.node = currentOp + 1 /\ g.graph = Top.graph
      /\ g.previousGraph = Top.previousGraph /\ g.previousOp = Top.previousOp
  BY <1>1, FieldUpdate
<1>3. f \in FrameRecord /\ f.node = currentOp + 1 /\ f.step = "eval" /\ f.graph = Top.graph
      /\ f.previousGraph = Top.previousGraph /\ f.previousOp = Top.previousOp
  BY <1>1, <1>2, FieldUpdate
<1>4. frames' = [frames EXCEPT ![Len(frames)] = f]
  BY TopFacts DEF StartNode, Top
<1> HIDE DEF f, g
<1>5. Moved(f)
  BY <1>3, <1>4 DEF Moved
<1>6. UNCHANGED <<currentGraph, currentOp, status>> /\ currentOp < Len(Graph(Top.graph).ops)
  BY DEF StartNode
<1>7. ControlTypes'
  BY <1>5, <1>6, MovedTop DEF ControlInv, ControlTypes
<1>8. CurrentIsRunning'
  BY <1>3, <1>5, <1>6, MovedTop DEF ControlInv, CurrentIsRunning
<1>9. NodeFits(f)
  BY <1>1, <1>3, <1>6, TopFacts, GraphFacts DEF ControlInv, ControlTypes, NodeFits, Looping
<1>12. NodesInRange'
  BY <1>5, <1>9, MovedInRange
<1>10. LoopCounts'
  BY <1>3, <1>5, MovedTop DEF LoopCounts
<1>11. QED
  BY <1>5, <1>7, <1>8, <1>10, <1>12, MovedTop DEF ControlInv

\* No frame goes, and none starts another operator.
NodesKept == \A i \in DOMAIN frames : i \in DOMAIN frames' /\ frames'[i].node = frames[i].node

\* The frame on top goes to another step of its loop, or of the kernel it runs.
TopMoves(next) ==
  /\ frames'[Len(frames)].graph = Top.graph /\ frames'[Len(frames)].node = Top.node
  /\ frames'[Len(frames)].step = next
  /\ \A i \in DOMAIN frames : i # Len(frames) => frames'[i] = frames[i]
Turned(next) == TopMoves(next) /\ DOMAIN frames' = DOMAIN frames

\* The same, and a frame of the callee on top of it.
Called(callee, step) ==
  /\ TopMoves(step) /\ frames'[Len(frames)].callee = callee
  /\ DOMAIN frames' = 1..Len(frames) + 1 /\ Len(frames') = Len(frames) + 1
  /\ frames'[Len(frames) + 1].graph = callee
  /\ frames'[Len(frames) + 1].node = 0 /\ frames'[Len(frames) + 1].step = "loop"

LEMMA KernelReturnKeepsControl ==
  ASSUME ControlInv, Running, UNCHANGED model, Top.step \in {"eval"} \union Calling,
         NEW result \in {"ok", "failed"}, KernelReturns(result)
  PROVE  /\ ControlInv' /\ NodesKept
         /\ Turned(IF result = "ok" THEN "loop" ELSE "break")
<1> DEFINE next == IF result = "ok" THEN "loop" ELSE "break"
           g == [Top EXCEPT !.step = next]
           f == [g EXCEPT !.turns = 0]
<1>1. Top \in FrameRecord /\ currentOp \in Nat /\ next \in Steps /\ 0 \in 0..MaxIterations
  BY TopFacts, InvokeAssumption DEF ControlInv, ControlTypes, Steps, InvokeAssumption
<1>2. g \in FrameRecord /\ g.node = Top.node /\ g.step = next /\ g.graph = Top.graph
      /\ g.previousGraph = Top.previousGraph /\ g.previousOp = Top.previousOp
  BY <1>1, FieldUpdate
<1>4. frames' = [frames EXCEPT ![Len(frames)] = f]
  BY TopFacts DEF KernelReturns, Top
<1> HIDE DEF g, next
<1>3. f \in FrameRecord /\ f.node = Top.node /\ f.step = next /\ f.graph = Top.graph
      /\ f.previousGraph = Top.previousGraph /\ f.previousOp = Top.previousOp
  BY <1>1, <1>2, FieldUpdate
<1> HIDE DEF f
<1> USE DEF next
<1>5. Moved(f)
  BY <1>3, <1>4 DEF Moved
<1>6. /\ UNCHANGED currentGraph /\ status' = result
      /\ currentOp' = IF result = "ok" THEN currentOp + 1 ELSE currentOp
  BY DEF KernelReturns
<1>7. Top.step # "loop" /\ currentOp + 1 = Top.node
  BY DEF Calling, ControlInv, CurrentIsRunning
<1>8. ControlTypes'
  BY <1>1, <1>5, <1>6, MovedTop DEF ControlInv, ControlTypes
<1>9. CurrentIsRunning'
  BY <1>3, <1>5, <1>6, <1>7, MovedTop DEF ControlInv, CurrentIsRunning
<1>10. NodesInRange'
  <2>1. Top.node <= Len(Graph(Top.graph).ops) /\ Top.node >= 1
    BY <1>7, TopFacts DEF ControlInv, NodesInRange, NodeFits, Top
  <2>2. NodeFits(f)
    BY <1>3, <2>1 DEF NodeFits, Looping
  <2>3. QED
    BY <1>5, <2>2, MovedInRange
<1>11. LoopCounts'
  BY <1>3, <1>5, <1>6, <1>7, MovedTop DEF LoopCounts
<1>12. NodesKept
  BY <1>3, <1>5, MovedTop, TopFacts DEF NodesKept, Top
<1>13. Turned(IF result = "ok" THEN "loop" ELSE "break")
  <2>1. /\ DOMAIN frames' = DOMAIN frames
        /\ \A i \in DOMAIN frames : i # Len(frames) => frames'[i] = frames[i]
    BY <1>5, MovedTop
  <2>2. frames'[Len(frames)] = f
    BY <1>5, TopFacts, SequenceUpdate DEF Moved, ControlInv, ControlTypes
  <2>3. QED
    BY <1>3, <2>1, <2>2 DEF Turned, TopMoves
<1>14. QED
  BY <1>5, <1>8, <1>9, <1>10, <1>11, <1>12, <1>13, MovedTop DEF ControlInv

\* A kernel that calls InvokeSubgraph leaves its own frame at a step of Calling and puts one
\* on top that remembers what the members meant to it.
LEMMA CallKeepsControl ==
  ASSUME ControlInv, Running, UNCHANGED <<model, status>>,
         Top.step \in {"eval"} \union Calling, NEW callee \in DOMAIN model.graphs,
         NEW step \in Calling, step \in Looping => Node.kind = "WHILE",
         step = "branch" => Node.kind = "IF",
         NEW turns \in 0..MaxIterations, CallSubgraph(callee, step, turns)
  PROVE  ControlInv' /\ NodesKept /\ Called(callee, step)
<1> DEFINE n == Len(frames)
           g == [Top EXCEPT !.step = step]
           h == [g EXCEPT !.callee = callee]
           f == [h EXCEPT !.turns = turns]
           below == [frames EXCEPT ![n] = f]
           new == Frame(callee)
<1>1. /\ Top \in FrameRecord /\ currentOp \in Nat /\ step \in Steps /\ callee \in Nat
      /\ currentGraph \in DOMAIN model.graphs /\ frames \in Seq(FrameRecord)
      /\ n \in Nat \ {0} /\ n \in 1..Len(frames)
  <2>1. model.graphs \in Seq(Subgraphs)
    BY ModelAssumption DEF ModelAssumption, ControlInv, ControlTypes
  <2>2. QED
    BY <2>1, TopFacts DEF ControlInv, ControlTypes, Steps
<1>2. g \in FrameRecord /\ g.node = Top.node /\ g.step = step /\ g.graph = Top.graph
      /\ g.previousGraph = Top.previousGraph /\ g.previousOp = Top.previousOp
  BY <1>1, FieldUpdate
<1>3. h \in FrameRecord /\ h.node = Top.node /\ h.step = step /\ h.graph = Top.graph
      /\ h.previousGraph = Top.previousGraph /\ h.previousOp = Top.previousOp
  BY ZenonT(30), <1>1, <1>2, FieldUpdate
<1>4. f \in FrameRecord /\ f.node = Top.node /\ f.step = step /\ f.graph = Top.graph
      /\ f.previousGraph = Top.previousGraph /\ f.previousOp = Top.previousOp /\ f.callee = callee
  <2>1. h.callee = callee /\ f.callee = h.callee
    BY <1>1, <1>2, <1>3 DEF FrameRecord
  <2>2. QED
    BY ZenonT(30), <1>1, <1>3, <2>1, FieldUpdate
<1>5. frames' = Append(below, new)
  BY <1>1 DEF CallSubgraph, Top
<1>6. /\ new \in FrameRecord /\ new.graph = callee /\ new.node = 0 /\ new.step = "loop"
      /\ new.previousGraph = currentGraph /\ new.previousOp = currentOp
  BY <1>1, InvokeAssumption DEF Frame, FrameRecord, InvokeAssumption
<1> HIDE DEF f, g, h, new
<1>7. /\ below \in Seq(FrameRecord) /\ Len(below) = n /\ below[n] = f
      /\ \A i \in 1..n : i # n => below[i] = frames[i]
  BY <1>1, <1>4, SequenceUpdate
<1> HIDE DEF below
<1>8. /\ frames' \in Seq(FrameRecord) /\ Len(frames') = n + 1 /\ frames'[n + 1] = new
      /\ frames'[n] = f /\ \A i \in 1..n : i # n => frames'[i] = frames[i]
      /\ DOMAIN frames' = 1..n + 1
  BY <1>1, <1>5, <1>6, <1>7
<1>0. n = Len(frames) /\ Top = frames[n]
  BY DEF Top
<1> HIDE DEF n
<1>9. Running' /\ Top' = new
  BY <1>1, <1>8 DEF Running, Top
<1>10. currentGraph' = callee /\ currentOp' = 0 /\ FrameRecord' = FrameRecord
  BY DEF CallSubgraph, FrameRecord
<1>11. Top.step # "loop" /\ currentOp + 1 = Top.node /\ currentGraph = Top.graph
  BY DEF Calling, ControlInv, CurrentIsRunning
<1>12. ControlTypes'
  BY <1>8, <1>10 DEF ControlInv, ControlTypes
<1>13. CurrentIsRunning'
  BY <1>6, <1>9, <1>10 DEF CurrentIsRunning
<1>14. LoopCounts'
  BY <1>6, <1>9, <1>10 DEF LoopCounts
<1>15. \A i \in 1..n : /\ frames'[i].graph = frames[i].graph /\ frames'[i].node = frames[i].node
                       /\ frames'[i].previousGraph = frames[i].previousGraph
                       /\ frames'[i].previousOp = frames[i].previousOp
                       /\ i # n => frames'[i].step = frames[i].step
  BY <1>0, <1>4, <1>8
<1>16. NodesInRange'
  <2>1. \A k : NodeFits(k)' = NodeFits(k)
    BY DEF NodeFits, Graph
  <2>2. Len(Graph(callee).ops) \in Nat
    BY GraphFacts DEF ControlInv, ControlTypes
  <2>3. NodeFits(new)
    BY <1>6, <2>2 DEF NodeFits, Looping
  <2>4. NodeFits(f)
    <3>1. Top.node >= 1 /\ Top.node <= Len(Graph(Top.graph).ops)
      BY <1>1, <1>11, TopFacts DEF ControlInv, NodesInRange, NodeFits, Top
    <3>2. QED
      BY <1>4, <3>1 DEF NodeFits, Node
  <2>5. ASSUME NEW i \in 1..n + 1 PROVE NodeFits(frames'[i])
    <3>1. CASE i = n + 1
      BY <1>8, <2>3, <3>1
    <3>2. CASE i = n
      BY <1>8, <2>4, <3>2
    <3>3. CASE i # n + 1 /\ i # n
      <4>1. i \in 1..n /\ i \in DOMAIN frames
        BY <1>0, <1>1, <3>3
      <4>2. frames'[i] = frames[i]
        BY <1>8, <3>3, <4>1
      <4>3. QED
        BY <4>1, <4>2 DEF ControlInv, NodesInRange
    <3>4. QED
      BY <3>1, <3>2, <3>3
  <2>6. QED
    BY <1>8, <2>1, <2>5 DEF NodesInRange
<1>17. FramesLinked'
  <2>1. 1 \in 1..n
    BY <1>1
  <2>2. frames'[1].previousGraph = 1 /\ frames'[1].previousOp = 0
    BY <1>15, <2>1 DEF ControlInv, FramesLinked
  <2>3. ASSUME NEW i \in 2..n + 1
        PROVE  /\ frames'[i].previousGraph = frames'[i - 1].graph
               /\ frames'[i].previousOp + 1 = frames'[i - 1].node
               /\ frames'[i - 1].step \in Calling
    <3>1. CASE i = n + 1
      <4>1. i - 1 = n
        BY <1>1, <3>1
      <4>2. QED
        BY <1>4, <1>6, <1>8, <1>11, <3>1, <4>1
    <3>2. CASE i # n + 1
      <4>1. i \in 2..n /\ i \in 1..n /\ i - 1 \in 1..n /\ i - 1 # n
        BY <1>1, <3>2
      <4>2. QED
        BY <1>0, <1>15, <4>1 DEF ControlInv, FramesLinked
    <3>3. QED
      BY <3>1, <3>2
  <2>4. QED
    BY <1>8, <2>2, <2>3 DEF FramesLinked
<1>18. NodesKept
  BY <1>0, <1>1, <1>8, <1>15, TopFacts DEF NodesKept
<1>19. Called(callee, step)
  <2>1. DOMAIN frames = 1..n
    BY <1>0, TopFacts
  <2>2. TopMoves(step)
    BY <1>0, <1>4, <1>8, <2>1 DEF TopMoves
  <2>3. QED
    BY <1>0, <1>4, <1>6, <1>8, <2>2 DEF Called
<1>20. QED
  BY <1>12, <1>13, <1>14, <1>16, <1>17, <1>18, <1>19 DEF ControlInv

\* InvokeSubgraph's end: the frame below gets its own subgraph and counter back.
LEMMA ReturnKeepsControl ==
  ASSUME ControlInv, Running, ReturnFromSubgraph, UNCHANGED model
  PROVE  ControlInv'
<1> DEFINE n == Len(frames)
<1>1. /\ n \in Nat \ {0} /\ DOMAIN frames = 1..n /\ frames \in Seq(FrameRecord)
      /\ Top = frames[n] /\ Top \in FrameRecord /\ frames # <<>>
  BY TopFacts DEF Top, ControlInv, ControlTypes, Running
<1>2. /\ frames' \in Seq(FrameRecord) /\ Len(frames') = n - 1
      /\ \A i \in 1..n - 1 : frames'[i] = frames[i]
  BY <1>1 DEF ReturnFromSubgraph, Front
<1>3. /\ currentGraph' = frames[n].previousGraph /\ currentOp' = frames[n].previousOp
      /\ status' \in {"ok", "failed"} /\ FrameRecord' = FrameRecord
  BY <1>1 DEF ReturnFromSubgraph, FrameRecord
<1>0. n = Len(frames)
  OBVIOUS
<1> HIDE DEF n
<1>4. DOMAIN frames' = 1..n - 1
  BY <1>1, <1>2
<1>5. ControlTypes'
  <2>1. frames[n].previousGraph \in DOMAIN model.graphs /\ frames[n].previousOp \in Nat
    BY <1>1 DEF FrameRecord
  <2>2. QED
    BY <1>2, <1>3, <2>1 DEF ControlInv, ControlTypes
<1>6. FramesLinked'
  <2>1. ASSUME Running' PROVE 1 \in 1..n - 1
    BY <1>1, <1>2, <2>1 DEF Running
  <2>2. \A i \in 2..n - 1 : i \in 2..n /\ i \in 1..n - 1 /\ i - 1 \in 1..n - 1
    BY <1>1
  <2>3. QED
    BY <1>0, <1>2, <2>1, <2>2 DEF ControlInv, FramesLinked, Running
<1>7. NodesInRange'
  <2>1. \A k : NodeFits(k)' = NodeFits(k)
    BY DEF NodeFits, Graph
  <2>2. \A i \in 1..n - 1 : i \in DOMAIN frames
    BY <1>1
  <2>3. QED
    BY <1>2, <1>4, <2>1, <2>2 DEF ControlInv, NodesInRange
<1>8. CASE n = 1
  <2>1. ~Running'
    BY <1>2, <1>8 DEF Running
  <2>2. currentGraph' = 1 /\ currentOp' = 0
    BY <1>3, <1>8 DEF ControlInv, FramesLinked
  <2>3. QED
    BY <1>5, <1>6, <1>7, <2>1, <2>2 DEF ControlInv, CurrentIsRunning, LoopCounts
<1>9. CASE n # 1
  <2>1. n - 1 \in 1..n - 1 /\ n \in 2..n /\ frames'[n - 1] = frames[n - 1]
    BY <1>1, <1>2, <1>9
  <2>2. Running' /\ Top' = frames[n - 1]
    BY <1>2, <2>1 DEF Running, Top
  <2>3. /\ currentGraph' = frames[n - 1].graph /\ currentOp' + 1 = frames[n - 1].node
        /\ frames[n - 1].step \in Calling
    BY <1>0, <1>3, <2>1 DEF ControlInv, FramesLinked
  <2>4. QED
    BY <1>5, <1>6, <1>7, <2>2, <2>3 DEF ControlInv, CurrentIsRunning, LoopCounts, Calling
<1>10. QED
  BY <1>8, <1>9

LEMMA InvokeKeepsControl ==
  ASSUME ControlInv, ~Running, Invoke, UNCHANGED model
  PROVE  ControlInv'
<1>1. model.graphs \in Seq(Subgraphs) /\ model.graphs # <<>>
  BY ModelAssumption DEF ModelAssumption, ControlInv, ControlTypes
<1>2. 1 \in DOMAIN model.graphs
  BY <1>1
<1>3. currentGraph = 1 /\ currentOp = 0
  BY DEF ControlInv, CurrentIsRunning
<1>4. Frame(1) \in FrameRecord /\ Frame(1).graph = 1 /\ Frame(1).node = 0 /\ Frame(1).step = "loop"
      /\ Frame(1).previousGraph = 1 /\ Frame(1).previousOp = 0
  BY <1>2, <1>3, InvokeAssumption DEF Frame, FrameRecord, InvokeAssumption
<1>5. /\ frames' \in Seq(FrameRecord) /\ Len(frames') = 1 /\ DOMAIN frames' = {1}
      /\ frames'[1] = Frame(1) /\ Running' /\ Top' = Frame(1) /\ FrameRecord' = FrameRecord
  BY <1>4 DEF Invoke, Running, Top, FrameRecord
<1>6. currentGraph' = 1 /\ currentOp' = 0 /\ status' = "ok"
  BY DEF Invoke
<1>7. ControlTypes'
  BY <1>2, <1>5, <1>6 DEF ControlInv, ControlTypes
<1>8. Len(Graph(1).ops) \in Nat /\ Graph(1)' = Graph(1)
  BY <1>2, GraphFacts DEF ControlInv, ControlTypes, Graph
<1>9. NodesInRange'
  BY <1>4, <1>5, <1>8 DEF NodesInRange, NodeFits, Looping
<1>10. QED
  BY <1>4, <1>5, <1>6, <1>7, <1>9 DEF ControlInv, CurrentIsRunning, FramesLinked, LoopCounts

LEMMA UnchangedKeepsControl ==
  ASSUME ControlInv, UNCHANGED <<model, frames, currentGraph, currentOp, status>>
  PROVE  ControlInv'
BY DEF ControlInv, ControlTypes, CurrentIsRunning, FramesLinked, NodesInRange, NodeFits, LoopCounts,
       Running, Top, Graph, FrameRecord

LEMMA InitControl == InvokeInit => ControlInv
<1> SUFFICES ASSUME InvokeInit PROVE ControlInv
  OBVIOUS
<1>1. model \in Models /\ frames = <<>> /\ currentGraph = 1 /\ currentOp = 0 /\ status = "ok"
  BY DEF InvokeInit, LifetimesInit
<1>2. model.graphs \in Seq(Subgraphs) /\ model.graphs # <<>>
  BY <1>1, ModelAssumption DEF ModelAssumption
<1>3. 1 \in DOMAIN model.graphs /\ ~Running /\ frames \in Seq(FrameRecord)
      /\ DOMAIN frames = {} /\ Len(frames) = 0
  BY <1>1, <1>2 DEF Running
<1>4. QED
  BY <1>1, <1>3
     DEF ControlInv, ControlTypes, CurrentIsRunning, FramesLinked, NodesInRange, LoopCounts

\* A kernel returns: if the loop is to go on after a CALL_ONCE, it has run.
KernelTurned ==
  /\ NodesKept
  /\ hasRun' \in {hasRun, hasRun \union {NodeId}}
  /\ \/ Turned("break")
     \/ Turned("loop") /\ (Node.kind = "CALL_ONCE" => NodeId \in hasRun')

\* A kernel calls one of its subgraphs: CALL_ONCE if it has not run.
KernelCalled ==
  /\ NodesKept /\ UNCHANGED hasRun
  /\ \E callee \in Calls(Top.graph) : \E step \in Calling :
       Called(callee, step) /\ (step = "once" => NodeId \notin hasRun)

LEMMA ExecuteKeepsControl ==
  ASSUME ControlInv, Execute
  PROVE  ControlInv' /\ (StartNode \/ ReturnFromSubgraph \/ KernelTurned \/ KernelCalled)
<1>1. Running /\ UNCHANGED model
  BY DEF Execute, lifetimeVars
<1>2. CASE StartNode
  BY <1>1, <1>2, StartKeepsControl
<1>3. CASE ReturnFromSubgraph
  BY <1>1, <1>3, ReturnKeepsControl
<1>4. ASSUME NEW result \in {"ok", "failed"}, EvalPlain(result) PROVE ControlInv' /\ KernelTurned
  <2>1. Node.kind # "CALL_ONCE" /\ UNCHANGED hasRun
    BY <1>4 DEF EvalPlain
  <2>2. ControlInv' /\ NodesKept /\ Turned(IF result = "ok" THEN "loop" ELSE "break")
    BY <1>1, <1>4, KernelReturnKeepsControl DEF EvalPlain
  <2>3. QED
    BY <2>1, <2>2 DEF KernelTurned
<1>5. ASSUME NEW g \in DOMAIN model.graphs, EvalIf(g) PROVE ControlInv' /\ KernelCalled
  <2>1. 0 \in 0..MaxIterations /\ "branch" \in Calling
    BY InvokeAssumption DEF InvokeAssumption, Calling
  <2>2. "branch" \notin Looping
    BY DEF Looping
  <2>3. g \in Calls(Top.graph) /\ UNCHANGED hasRun
    BY <1>1, <1>5, NodeFacts DEF EvalIf, Range
  <2>4. ControlInv' /\ NodesKept /\ Called(g, "branch")
    BY <1>1, <1>5, <2>1, <2>2, CallKeepsControl DEF EvalIf
  <2>5. QED
    BY <2>1, <2>3, <2>4 DEF KernelCalled
<1>6. CASE IfReturns
  <2>1. Top.step = "branch" /\ Node.kind # "CALL_ONCE" /\ UNCHANGED hasRun
    BY <1>1, <1>6, NodeFacts DEF IfReturns
  <2>2. ControlInv' /\ NodesKept /\ Turned("loop")
    BY <1>1, <1>6, KernelReturnKeepsControl DEF IfReturns, Calling
  <2>3. QED
    BY <2>1, <2>2 DEF KernelTurned
<1>7. CASE EvalWhile
  <2>1. /\ 0 \in 0..MaxIterations /\ "cond" \in Calling /\ Cond \in DOMAIN model.graphs
        /\ Cond \in Calls(Top.graph) /\ UNCHANGED hasRun
    BY <1>1, <1>7, NodeFacts, InvokeAssumption DEF InvokeAssumption, Calling, EvalWhile, Cond
  <2>2. ControlInv' /\ NodesKept /\ Called(Cond, "cond")
    BY <1>1, <1>7, <2>1, CallKeepsControl DEF EvalWhile
  <2>3. QED
    BY <2>1, <2>2 DEF KernelCalled
<1>8. CASE WhileTurns
  <2>1. Top.turns + 1 \in 0..MaxIterations /\ "body" \in Calling /\ Top.step \in Calling
    BY <1>1, <1>8, TopFacts, InvokeAssumption
       DEF InvokeAssumption, Calling, WhileTurns, FrameRecord
  <2>2. Body \in DOMAIN model.graphs /\ Body \in Calls(Top.graph) /\ Node.kind = "WHILE"
    BY <1>1, <1>8, NodeFacts DEF WhileTurns, Body, Looping
  <2>3. ControlInv' /\ NodesKept /\ Called(Body, "body") /\ UNCHANGED hasRun
    BY <1>1, <1>8, <2>1, <2>2, CallKeepsControl DEF WhileTurns
  <2>4. QED
    BY <2>1, <2>2, <2>3 DEF KernelCalled
<1>9. CASE BodyReturns
  <2>1. Top.turns \in 0..MaxIterations /\ "cond" \in Calling /\ Top.step \in Calling
    BY <1>1, <1>9, TopFacts DEF Calling, BodyReturns, FrameRecord
  <2>2. Cond \in DOMAIN model.graphs /\ Cond \in Calls(Top.graph) /\ Node.kind = "WHILE"
    BY <1>1, <1>9, NodeFacts DEF BodyReturns, Cond, Looping
  <2>3. ControlInv' /\ NodesKept /\ Called(Cond, "cond") /\ UNCHANGED hasRun
    BY <1>1, <1>9, <2>1, <2>2, CallKeepsControl DEF BodyReturns
  <2>4. QED
    BY <2>1, <2>2, <2>3 DEF KernelCalled
<1>10. CASE WhileEnds
  <2>1. Top.step = "cond" /\ Node.kind # "CALL_ONCE" /\ UNCHANGED hasRun
    BY <1>1, <1>10, NodeFacts DEF WhileEnds, Looping
  <2>2. ControlInv' /\ NodesKept /\ Turned("loop")
    BY <1>1, <1>10, KernelReturnKeepsControl DEF WhileEnds, Calling
  <2>3. QED
    BY <2>1, <2>2 DEF KernelTurned
<1>11. CASE EvalCallOnce
  <2>1. CASE NodeId \in hasRun
    <3>1. ControlInv' /\ NodesKept /\ Turned("loop") /\ UNCHANGED hasRun
      BY <1>1, <1>11, <2>1, KernelReturnKeepsControl DEF EvalCallOnce
    <3>2. QED
      BY <2>1, <3>1 DEF KernelTurned
  <2>2. CASE NodeId \notin hasRun
    <3>1. /\ 0 \in 0..MaxIterations /\ "once" \in Calling /\ Node.callees[1] \in DOMAIN model.graphs
          /\ Node.callees[1] \in Calls(Top.graph)
      BY <1>1, <1>11, NodeFacts, InvokeAssumption DEF InvokeAssumption, Calling, EvalCallOnce
    <3>2. ControlInv' /\ NodesKept /\ Called(Node.callees[1], "once") /\ UNCHANGED hasRun
      BY <1>1, <1>11, <2>2, <3>1, CallKeepsControl DEF EvalCallOnce, Looping
    <3>3. QED
      BY <2>2, <3>1, <3>2 DEF KernelCalled
  <2>3. QED
    BY <2>1, <2>2
<1>12. CASE CallOnceReturns
  <2>1. ControlInv' /\ NodesKept /\ Turned("loop") /\ hasRun' = hasRun \union {NodeId}
    BY <1>1, <1>12, KernelReturnKeepsControl DEF CallOnceReturns, Calling
  <2>2. QED
    BY <2>1 DEF KernelTurned
<1>13. CASE CalleeFailed
  <2>1. ControlInv' /\ NodesKept /\ Turned("break") /\ UNCHANGED hasRun
    BY <1>1, <1>13, KernelReturnKeepsControl DEF CalleeFailed, Calling
  <2>2. QED
    BY <2>1 DEF KernelTurned
<1>14. QED
  BY <1>2, <1>3, <1>4, <1>5, <1>6, <1>7, <1>8, <1>9, <1>10, <1>11, <1>12, <1>13 DEF Execute

LEMMA NextKeepsControl == ControlInv /\ [Next]_vars => ControlInv'
<1> SUFFICES ASSUME ControlInv, [Next]_vars PROVE ControlInv'
  OBVIOUS
<1>1. CASE Plan
  BY <1>1, UnchangedKeepsControl
     DEF Plan, invokeVars, MarkLifetimes, BeginOp, EnterSubgraph, EndOp, LeaveSubgraph
<1>2. CASE Invoke /\ UNCHANGED lifetimeVars
  BY <1>2, InvokeKeepsControl DEF Invoke, lifetimeVars
<1>3. CASE Reset /\ UNCHANGED lifetimeVars
  BY <1>3, UnchangedKeepsControl DEF Reset, lifetimeVars
<1>4. CASE Execute
  BY <1>4, ExecuteKeepsControl
<1>5. CASE UNCHANGED vars
  BY <1>5, UnchangedKeepsControl DEF vars, lifetimeVars, invokeVars
<1>6. QED
  BY <1>1, <1>2, <1>3, <1>4, <1>5 DEF Next, Application

\* The inductive invariant of the control flow: the frames, how they are linked, the node each is at
\* and the turns of its loop, whatever kernels fail.
THEOREM ControlInvariance == Spec => []ControlInv
BY InitControl, NextKeepsControl, PTL DEF Spec

\* Whatever nests and however a subgraph is left, the two members name what runs.
THEOREM CurrentIsRunningAlways == Spec => []CurrentIsRunning
<1>1. ControlInv => CurrentIsRunning
  BY DEF ControlInv
<1>2. QED
  BY <1>1, ControlInvariance, PTL

-----------------------------------------------------------------------------
LEMMA StepInOrder == ControlInv /\ [Next]_vars => [OpsInOrder]_vars
<1> SUFFICES ASSUME ControlInv, Next PROVE OpsInOrder
  BY DEF vars
<1>0. \A i \in DOMAIN frames : frames[i] \in FrameRecord /\ frames[i].node \in Nat
  <2>1. \A i \in DOMAIN frames : frames[i] \in FrameRecord
    BY DEF ControlInv, ControlTypes
  <2>2. QED
    BY <2>1 DEF FrameRecord
<1>1. CASE UNCHANGED frames
  BY <1>0, <1>1 DEF OpsInOrder, Starts
<1>2. CASE Application
  <2>1. CASE Invoke
    BY <2>1 DEF Invoke, Running, Frame, OpsInOrder
  <2>2. CASE Reset
    BY <1>1, <2>2 DEF Reset
  <2>3. QED
    BY <1>2, <2>1, <2>2 DEF Application
<1>3. ASSUME Running, NodesKept, NEW next, next # "eval", TopMoves(next),
             \A i \in DOMAIN frames' \ DOMAIN frames : frames'[i].node = 0
      PROVE  OpsInOrder
  <2>1. DOMAIN frames \ DOMAIN frames' = {}
    BY <1>3 DEF NodesKept
  <2>2. ASSUME NEW i \in DOMAIN frames PROVE ~Starts(i) /\ frames'[i].node = frames[i].node
    <3>1. CASE i = Len(frames)
      BY <1>3, <2>2, <3>1 DEF NodesKept, TopMoves, Starts
    <3>2. CASE i # Len(frames)
      BY <1>3, <2>2, <3>2 DEF NodesKept, TopMoves, Starts
    <3>3. QED
      BY <3>1, <3>2
  <2>3. QED
    BY <1>0, <1>3, <2>1, <2>2 DEF OpsInOrder
<1>4. ASSUME Running, StartNode PROVE OpsInOrder
  <2>1. /\ DOMAIN frames' = DOMAIN frames /\ Len(frames) \in DOMAIN frames
        /\ \A i \in DOMAIN frames : i # Len(frames) => frames'[i] = frames[i]
        /\ frames'[Len(frames)].node = currentOp + 1 /\ frames'[Len(frames)].step = "eval"
    BY <1>4, TopFacts DEF StartNode, FrameRecord
  <2>2. currentOp = frames[Len(frames)].node /\ frames[Len(frames)].step = "loop"
    BY <1>4 DEF ControlInv, LoopCounts, StartNode, Top
  <2>3. Starts(Len(frames)) /\ \A i \in DOMAIN frames : i # Len(frames) => ~Starts(i)
    BY <2>1, <2>2 DEF Starts
  <2>4. QED
    BY <1>0, <2>1, <2>2, <2>3 DEF OpsInOrder
<1>5. ASSUME Running, ReturnFromSubgraph PROVE OpsInOrder
  <2> DEFINE n == Len(frames)
  <2>1. /\ n \in Nat \ {0} /\ DOMAIN frames = 1..n /\ frames \in Seq(FrameRecord)
        /\ Top = frames[n] /\ frames # <<>> /\ Top.node \in Nat /\ currentOp \in Nat
    BY <1>5, TopFacts DEF Top, ControlInv, ControlTypes, Running
  <2>2. DOMAIN frames' = 1..n - 1 /\ \A i \in 1..n - 1 : frames'[i] = frames[i]
    BY <1>5, <2>1 DEF ReturnFromSubgraph, Front
  <2>3. ASSUME status' = "ok" PROVE Top.node = Len(Graph(Top.graph).ops)
    <3>1. Top.step = "loop" /\ currentOp >= Len(Graph(Top.graph).ops)
      BY <1>5, <2>3 DEF ReturnFromSubgraph, Returning
    <3>2. Len(Graph(Top.graph).ops) \in Nat /\ Top.node <= Len(Graph(Top.graph).ops)
      BY <1>5, <2>1, TopFacts, GraphFacts DEF ControlInv, ControlTypes, NodesInRange, NodeFits
    <3>3. QED
      BY <1>5, <2>1, <3>1, <3>2 DEF ControlInv, LoopCounts
  <2>4. ASSUME NEW i \in DOMAIN frames \ DOMAIN frames' PROVE i = n
    BY <2>1, <2>2, <2>4
  <2>5. /\ DOMAIN frames' \ DOMAIN frames = {}
        /\ \A i \in DOMAIN frames \intersect DOMAIN frames' : frames'[i] = frames[i]
    BY <2>1, <2>2
  <2>6. \A i \in DOMAIN frames \intersect DOMAIN frames' : ~Starts(i)
    BY <2>5 DEF Starts
  <2>7. QED
    BY <1>0, <2>1, <2>3, <2>4, <2>5, <2>6 DEF OpsInOrder
<1>6. ASSUME Execute PROVE OpsInOrder
  <2>0. Running
    BY <1>6 DEF Execute
  <2>1. CASE KernelTurned
    <3>1. PICK next \in {"break", "loop"} : Turned(next)
      BY <2>1 DEF KernelTurned
    <3>2. QED
      BY <1>3, <2>0, <2>1, <3>1 DEF KernelTurned, Turned
  <2>2. CASE KernelCalled
    <3>1. PICK callee \in Calls(Top.graph), step \in Calling : Called(callee, step)
      BY <2>2 DEF KernelCalled
    <3>2. DOMAIN frames' \ DOMAIN frames = {Len(frames) + 1}
      BY <2>0, <3>1, TopFacts DEF Called
    <3>3. QED
      BY <1>3, <2>0, <2>2, <3>1, <3>2 DEF KernelCalled, Called, Calling
  <2>3. QED
    BY <1>4, <1>5, <1>6, <2>0, <2>1, <2>2, ExecuteKeepsControl
<1>7. QED
  BY <1>1, <1>2, <1>6 DEF Next, Plan, invokeVars

\* Every subgraph starts its operators in order and each exactly once, and ends successfully
\* only after the last.
THEOREM EachOpOnceInOrderAlways == Spec => EachOpOnceInOrder
BY ControlInvariance, StepInOrder, PTL DEF Spec, EachOpOnceInOrder

-----------------------------------------------------------------------------
\* CALL_ONCE.  A model whose walk ended has no subgraph that can call itself, so no subgraph
\* is twice on the stack; what a loop has passed, it has run.
CallsOnStack ==
  /\ Running => Marked /\ frames[1].graph = 1
  /\ \A i \in 2..Len(frames) : frames[i].graph \in Calls(frames[i - 1].graph)
  /\ Running => \E D \in SUBSET DOMAIN model.graphs :
       ClosedUnderCalls(D) /\ NoCycleIn(D) /\ \A i \in DOMAIN frames : frames[i].graph \in D

OncePassed(f) == \A n \in 1..f.node :
  (n < f.node \/ f.step = "loop") /\ Graph(f.graph).ops[n].kind = "CALL_ONCE" => <<f.graph, n>> \in hasRun

OnceInv ==
  /\ CallsOnStack
  /\ \A i \in DOMAIN frames : OncePassed(frames[i])
  /\ invokes > 0 => Marked
  /\ CallOnceRunsOnce

LEMMA NoGraphTwice ==
  ASSUME ControlInv, CallsOnStack, Running, NEW i \in DOMAIN frames, NEW j \in DOMAIN frames, i < j
  PROVE  frames[i].graph # frames[j].graph
<1> SUFFICES ASSUME frames[i].graph = frames[j].graph PROVE FALSE
  OBVIOUS
<1>1. DOMAIN frames = 1..Len(frames) /\ Len(frames) \in Nat
  BY TopFacts
<1>2. PICK D \in SUBSET DOMAIN model.graphs :
        ClosedUnderCalls(D) /\ NoCycleIn(D) /\ \A k \in DOMAIN frames : frames[k].graph \in D
  BY DEF CallsOnStack
<1> DEFINE S == {frames[k].graph : k \in (i + 1)..j}
<1>3. S \in SUBSET D /\ frames[j].graph \in S /\ frames[i + 1].graph \in S
  BY <1>1, <1>2
<1>4. PICK g \in S : Calls(g) \intersect S = {}
  BY <1>2, <1>3 DEF NoCycleIn
<1>5. PICK k \in (i + 1)..j : g = frames[k].graph
  BY <1>4
<1>6. \A l \in 1..(Len(frames) - 1) : frames[l + 1].graph \in Calls(frames[l].graph)
  <2> SUFFICES ASSUME NEW l \in 1..(Len(frames) - 1)
               PROVE  frames[l + 1].graph \in Calls(frames[l].graph)
    OBVIOUS
  <2>1. l + 1 \in 2..Len(frames) /\ l + 1 - 1 = l
    BY <1>1
  <2>2. QED
    BY <2>1 DEF CallsOnStack
<1>7. CASE k = j
  <2>1. frames[i + 1].graph \in Calls(g)
    BY <1>1, <1>5, <1>6, <1>7
  <2>2. QED
    BY <1>3, <1>4, <2>1
<1>8. CASE k # j
  <2>1. k \in 1..(Len(frames) - 1) /\ k + 1 \in (i + 1)..j
    BY <1>1, <1>5, <1>8
  <2>2. frames[k + 1].graph \in Calls(g) /\ frames[k + 1].graph \in S
    BY <1>5, <1>6, <2>1
  <2>3. QED
    BY <1>4, <2>2
<1>9. QED
  BY <1>7, <1>8

LEMMA StaysOnce ==
  ASSUME UNCHANGED model, hasRun \subseteq hasRun', NEW f, OncePassed(f)
  PROVE  OncePassed(f)'
<1>1. Graph(f.graph)' = Graph(f.graph)
  BY DEF Graph
<1>2. QED
  BY <1>1 DEF OncePassed

\* What the first two parts of CallsOnStack and the third need when the stack keeps its graphs.
LEMMA SameGraphs ==
  ASSUME ControlInv, CallsOnStack, Running, UNCHANGED lifetimeVars, DOMAIN frames' = DOMAIN frames,
         Len(frames') = Len(frames), \A i \in DOMAIN frames : frames'[i].graph = frames[i].graph
  PROVE  CallsOnStack'
<1>1. DOMAIN frames = 1..Len(frames) /\ Len(frames) \in Nat \ {0}
  BY TopFacts
<1>2. UNCHANGED <<model, marking>> /\ \A g : Calls(g)' = Calls(g)
  BY ModelStays DEF lifetimeVars
<1>3. Marked' /\ frames'[1].graph = 1
  BY <1>1, <1>2 DEF CallsOnStack, Marked
<1>4. \A i \in 2..Len(frames) : frames'[i].graph \in Calls(frames'[i - 1].graph)
  BY <1>1 DEF CallsOnStack
<1>5. PICK D \in SUBSET DOMAIN model.graphs :
        ClosedUnderCalls(D) /\ NoCycleIn(D) /\ \A i \in DOMAIN frames : frames[i].graph \in D
  BY DEF CallsOnStack
<1>6. ClosedUnderCalls(D)' /\ NoCycleIn(D)'
  BY <1>2, <1>5, CalleesStay
<1>7. ASSUME NEW i \in 2..Len(frames)', NEW g, g = frames'[i - 1].graph
      PROVE  frames'[i].graph \in Calls(g)'
  BY <1>2, <1>4, <1>7
<1>8. QED
  BY <1>2, <1>3, <1>5, <1>6, <1>7 DEF CallsOnStack

LEMMA TurnedKeepsOnce ==
  ASSUME ControlInv, ControlInv', OnceInv, Running, UNCHANGED <<lifetimeVars, invokes>>, KernelTurned
  PROVE  OnceInv'
<1>1. /\ DOMAIN frames = 1..Len(frames) /\ Len(frames) \in Nat \ {0} /\ Top = frames[Len(frames)]
      /\ UNCHANGED <<model, marking>> /\ Top.node \in Nat
  BY TopFacts DEF lifetimeVars, Top
<1>2. PICK next \in {"loop", "break"} : Turned(next) /\ (next = "loop" /\ Node.kind = "CALL_ONCE" => NodeId \in hasRun')
  BY DEF KernelTurned
<1>3. /\ DOMAIN frames' = DOMAIN frames
      /\ \A i \in DOMAIN frames : i # Len(frames) => frames'[i] = frames[i]
      /\ frames'[Len(frames)].graph = Top.graph /\ frames'[Len(frames)].node = Top.node
      /\ frames'[Len(frames)].step = next
  BY <1>2 DEF Turned, TopMoves
<1>4. Len(frames') = Len(frames) /\ Running'
  <2>1. frames' \in Seq(FrameRecord')
    BY DEF ControlInv, ControlTypes
  <2>2. Len(frames') \in Nat /\ DOMAIN frames' = 1..Len(frames')
    BY <2>1
  <2>3. Len(frames') = Len(frames)
    BY <1>1, <1>3, <2>2
  <2>4. QED
    BY <1>1, <2>3 DEF Running
<1>5. CallsOnStack'
  BY <1>1, <1>3, <1>4, SameGraphs DEF OnceInv
<1>6. ASSUME NEW i \in DOMAIN frames, NEW f, f = frames'[i] PROVE OncePassed(f)'
  <2>1. CASE i # Len(frames)
    BY <1>1, <1>3, <1>6, <2>1, StaysOnce DEF OnceInv, KernelTurned
  <2>2. CASE i = Len(frames)
    <3>1. OncePassed(Top) /\ hasRun \subseteq hasRun'
      BY <1>1 DEF OnceInv, KernelTurned
    <3>2. f.graph = Top.graph /\ f.node = Top.node /\ f.step = next
      BY <1>3, <1>6, <2>2
    <3>3. \A n \in 1..Top.node : n < Top.node /\ Graph(Top.graph).ops[n].kind = "CALL_ONCE"
            => <<Top.graph, n>> \in hasRun'
      BY <3>1 DEF OncePassed
    <3>4. Graph(Top.graph).ops[Top.node].kind = "CALL_ONCE" /\ next = "loop"
            => <<Top.graph, Top.node>> \in hasRun'
      BY <1>2 DEF Node, NodeId
    <3>5. \A n \in 1..Top.node : n < Top.node \/ n = Top.node
      BY <1>1
    <3>6. Graph(f.graph)' = Graph(Top.graph)
      BY <1>1, <3>2 DEF Graph
    <3>7. QED
      BY <3>2, <3>3, <3>4, <3>5, <3>6 DEF OncePassed
  <2>3. QED
    BY <2>1, <2>2
<1>7. ASSUME NEW i \in DOMAIN frames, frames'[i].step = "once"
      PROVE  <<frames'[i].graph, frames'[i].node>> \notin hasRun'
  <2>1. i # Len(frames) /\ frames'[i] = frames[i]
    BY <1>2, <1>3, <1>7
  <2>2. <<frames[i].graph, frames[i].node>> \notin hasRun
    BY <1>7, <2>1 DEF OnceInv, CallOnceRunsOnce
  <2>3. frames[i].graph # Top.graph
    <3>1. Len(frames) \in DOMAIN frames /\ i < Len(frames)
      BY <1>1, <2>1
    <3>2. QED
      BY <1>1, <3>1, NoGraphTwice DEF OnceInv
  <2>4. QED
    BY <2>1, <2>2, <2>3 DEF KernelTurned, NodeId
<1>8. QED
  BY <1>1, <1>3, <1>4, <1>5, <1>6, <1>7 DEF OnceInv, CallOnceRunsOnce, Marked

LEMMA CalledKeepsOnce ==
  ASSUME ControlInv, OnceInv, Running, UNCHANGED <<lifetimeVars, invokes>>, KernelCalled
  PROVE  OnceInv'
<1>1. /\ DOMAIN frames = 1..Len(frames) /\ Len(frames) \in Nat \ {0} /\ Top = frames[Len(frames)]
      /\ UNCHANGED <<model, marking, hasRun>> /\ \A g : Calls(g)' = Calls(g)
  BY TopFacts, ModelStays DEF lifetimeVars, Top, KernelCalled
<1>2. PICK callee \in Calls(Top.graph), step \in Calling :
        Called(callee, step) /\ (step = "once" => NodeId \notin hasRun)
  BY DEF KernelCalled
<1> DEFINE n == Len(frames)
<1>3. /\ DOMAIN frames' = 1..n + 1 /\ Len(frames') = n + 1
      /\ frames'[n + 1].graph = callee /\ frames'[n + 1].node = 0 /\ frames'[n + 1].step = "loop"
      /\ frames'[n].graph = Top.graph /\ frames'[n].node = Top.node /\ frames'[n].step = step
      /\ \A i \in DOMAIN frames : i # n => frames'[i] = frames[i]
  BY <1>2 DEF Called, TopMoves
<1>4. \A i \in 1..n : frames'[i].graph = frames[i].graph /\ frames'[i].node = frames[i].node
  BY <1>1, <1>3
<1> HIDE DEF n
<1>5. n \in Nat \ {0} /\ DOMAIN frames = 1..n /\ Len(frames) = n /\ Top = frames[n]
  BY <1>1 DEF n
<1>6. Running' /\ Marked' /\ frames'[1].graph = 1
  <2>1. Marked /\ frames[1].graph = 1 /\ 1 \in 1..n
    BY <1>5 DEF OnceInv, CallsOnStack
  <2>2. frames' # <<>>
    BY <1>3, <1>5
  <2>3. QED
    BY <1>1, <1>4, <2>1, <2>2 DEF Running, Marked
<1>7. CallsOnStack'
  <2>1. ASSUME NEW i \in 2..n + 1, NEW g, g = frames'[i - 1].graph PROVE frames'[i].graph \in Calls(g)
    <3>1. CASE i = n + 1
      <4>1. i - 1 = n
        BY <1>5, <3>1
      <4>2. QED
        BY <1>3, <2>1, <3>1, <4>1
    <3>2. CASE i # n + 1
      <4>1. i \in 2..Len(frames) /\ i \in 1..n /\ i - 1 \in 1..n
        BY <1>5, <3>2
      <4>2. frames[i].graph \in Calls(frames[i - 1].graph)
        BY <4>1 DEF OnceInv, CallsOnStack
      <4>3. QED
        BY <1>4, <2>1, <4>1, <4>2
    <3>3. QED
      BY <3>1, <3>2
  <2>2. PICK D \in SUBSET DOMAIN model.graphs :
          ClosedUnderCalls(D) /\ NoCycleIn(D) /\ \A i \in DOMAIN frames : frames[i].graph \in D
    BY DEF OnceInv, CallsOnStack
  <2>3. Top.graph \in D /\ callee \in D
    BY <1>2, <1>5, <2>2 DEF ClosedUnderCalls
  <2>4. \A i \in 1..n + 1 : frames'[i].graph \in D
    <3> SUFFICES ASSUME NEW i \in 1..n + 1 PROVE frames'[i].graph \in D
      OBVIOUS
    <3>1. i = n + 1 \/ i \in 1..n
      BY <1>5
    <3>2. QED
      BY <1>3, <1>4, <1>5, <2>2, <2>3, <3>1
  <2>5. ClosedUnderCalls(D)' /\ NoCycleIn(D)'
    BY <1>1, <2>2, CalleesStay
  <2>6. ASSUME NEW i \in 2..n + 1, NEW g, g = frames'[i - 1].graph PROVE frames'[i].graph \in Calls(g)'
    BY <1>1, <2>1, <2>6
  <2>7. QED
    BY <1>1, <1>3, <1>6, <2>2, <2>4, <2>5, <2>6 DEF CallsOnStack
<1>8. ASSUME NEW i \in 1..n + 1, NEW f, f = frames'[i] PROVE OncePassed(f)'
  <2>1. CASE i = n + 1
    BY <1>3, <1>8, <2>1 DEF OncePassed
  <2>2. CASE i \in 1..n /\ i # n
    BY <1>1, <1>3, <1>5, <1>8, <2>2, StaysOnce DEF OnceInv
  <2>3. CASE i = n
    <3>1. OncePassed(Top)
      BY <1>5 DEF OnceInv
    <3>2. f.graph = Top.graph /\ f.node = Top.node /\ f.step # "loop"
      BY <1>3, <1>8, <2>3 DEF Calling
    <3>3. Graph(f.graph)' = Graph(Top.graph)
      BY <1>1, <3>2 DEF Graph
    <3>4. QED
      BY <1>1, <3>1, <3>2, <3>3 DEF OncePassed
  <2>4. QED
    BY <1>5, <2>1, <2>2, <2>3
<1>9. ASSUME NEW i \in 1..n + 1, frames'[i].step = "once"
      PROVE  <<frames'[i].graph, frames'[i].node>> \notin hasRun
  <2>1. CASE i = n + 1
    BY <1>3, <1>9, <2>1
  <2>2. CASE i = n
    BY <1>2, <1>3, <1>9, <2>2 DEF NodeId
  <2>3. CASE i \in 1..n /\ i # n
    BY <1>3, <1>5, <1>9, <2>3 DEF OnceInv, CallOnceRunsOnce
  <2>4. QED
    BY <1>5, <2>1, <2>2, <2>3
<1>10. QED
  BY <1>1, <1>3, <1>6, <1>7, <1>8, <1>9 DEF OnceInv, CallOnceRunsOnce

LEMMA StartKeepsOnce ==
  ASSUME ControlInv, OnceInv, Running, UNCHANGED lifetimeVars, StartNode
  PROVE  OnceInv'
<1> DEFINE n == Len(frames)
<1>1. /\ DOMAIN frames = 1..n /\ n \in Nat \ {0} /\ Top = frames[n] /\ Top.node \in Nat
      /\ UNCHANGED <<model, marking, hasRun, invokes>> /\ frames \in Seq(FrameRecord)
      /\ currentOp = Top.node /\ Top.step = "loop" /\ Top \in FrameRecord
  BY TopFacts DEF lifetimeVars, Top, StartNode, ControlInv, ControlTypes, LoopCounts
<1>2. /\ DOMAIN frames' = DOMAIN frames /\ Len(frames') = n
      /\ \A i \in DOMAIN frames : i # n => frames'[i] = frames[i]
      /\ frames'[n].graph = Top.graph /\ frames'[n].node = Top.node + 1 /\ frames'[n].step = "eval"
  BY <1>1 DEF StartNode, FrameRecord
<1>3. Running' /\ n = Len(frames)
  BY <1>1, <1>2 DEF Running
<1> HIDE DEF n
<1>4. CallsOnStack'
  BY <1>1, <1>2, <1>3, SameGraphs DEF OnceInv
<1>5. ASSUME NEW i \in DOMAIN frames, NEW f, f = frames'[i] PROVE OncePassed(f)'
  <2>1. CASE i # n
    BY <1>1, <1>2, <1>5, <2>1, StaysOnce DEF OnceInv
  <2>2. CASE i = n
    <3>1. OncePassed(Top)
      BY <1>1 DEF OnceInv
    <3>2. f.graph = Top.graph /\ f.node = Top.node + 1 /\ f.step = "eval"
      BY <1>2, <1>5, <2>2
    <3>3. Graph(f.graph)' = Graph(Top.graph)
      BY <1>1, <3>2 DEF Graph
    <3>4. \A m \in 1..(Top.node + 1) : m < Top.node + 1 => m \in 1..Top.node
      BY <1>1
    <3>5. QED
      BY <1>1, <3>1, <3>2, <3>3, <3>4 DEF OncePassed
  <2>3. QED
    BY <2>1, <2>2
<1>6. QED
  BY <1>1, <1>2, <1>3, <1>4, <1>5 DEF OnceInv, CallOnceRunsOnce, Marked

LEMMA ReturnKeepsOnce ==
  ASSUME ControlInv, OnceInv, Running, UNCHANGED lifetimeVars, ReturnFromSubgraph
  PROVE  OnceInv'
<1> DEFINE n == Len(frames)
<1>1. /\ DOMAIN frames = 1..n /\ n \in Nat \ {0} /\ Top = frames[n] /\ frames # <<>>
      /\ UNCHANGED <<model, marking, hasRun, invokes>> /\ frames \in Seq(FrameRecord)
      /\ \A g : Calls(g)' = Calls(g)
  BY TopFacts, ModelStays
     DEF lifetimeVars, Top, ReturnFromSubgraph, ControlInv, ControlTypes, Running
<1>2. /\ frames' \in Seq(FrameRecord) /\ Len(frames') = n - 1 /\ DOMAIN frames' = 1..n - 1
      /\ \A i \in 1..n - 1 : frames'[i] = frames[i] /\ i \in DOMAIN frames
  BY <1>1 DEF ReturnFromSubgraph, Front
<1>3. n = Len(frames)
  OBVIOUS
<1> HIDE DEF n
<1>4. CallsOnStack'
  <2>1. Running' => 1 \in 1..n - 1
    BY <1>1, <1>2 DEF Running
  <2>2. Running' => Marked' /\ frames'[1].graph = 1
    BY <1>1, <1>2, <2>1 DEF OnceInv, CallsOnStack, Marked
  <2>3. ASSUME NEW i \in 2..n - 1, NEW g, g = frames'[i - 1].graph PROVE frames'[i].graph \in Calls(g)'
    <3>1. i \in 2..Len(frames) /\ i \in 1..n - 1 /\ i - 1 \in 1..n - 1
      BY <1>1, <1>3
    <3>2. QED
      BY <1>1, <1>2, <2>3, <3>1 DEF OnceInv, CallsOnStack
  <2>4. PICK D \in SUBSET DOMAIN model.graphs :
          ClosedUnderCalls(D) /\ NoCycleIn(D) /\ \A i \in DOMAIN frames : frames[i].graph \in D
    BY DEF OnceInv, CallsOnStack
  <2>5. ClosedUnderCalls(D)' /\ NoCycleIn(D)' /\ \A i \in 1..n - 1 : frames'[i].graph \in D
    BY <1>1, <1>2, <2>4, CalleesStay
  <2>6. QED
    BY <1>1, <1>2, <2>2, <2>3, <2>4, <2>5 DEF CallsOnStack
<1>5. ASSUME NEW i \in 1..n - 1, NEW f, f = frames'[i] PROVE OncePassed(f)'
  BY <1>1, <1>2, <1>5, StaysOnce DEF OnceInv
<1>6. ASSUME ~Running', status' = "ok", NEW m \in DOMAIN Graph(1).ops, Graph(1).ops[m].kind = "CALL_ONCE"
      PROVE  <<1, m>> \in hasRun
  <2>1. n = 1
    BY <1>1, <1>2, <1>6 DEF Running
  <2>2. Top.graph = 1 /\ OncePassed(Top)
    BY <1>1, <2>1 DEF OnceInv, CallsOnStack
  <2>3. Top.step = "loop" /\ currentOp >= Len(Graph(1).ops) /\ currentOp = Top.node
    BY <1>6, <2>2 DEF ReturnFromSubgraph, Returning, ControlInv, LoopCounts
  <2>4. m \in 1..Top.node
    BY <1>6, <2>2, <2>3, TopFacts, GraphFacts DEF ControlInv, ControlTypes
  <2>5. QED
    BY <1>6, <2>2, <2>3, <2>4 DEF OncePassed
<1>7. Graph(1)' = Graph(1)
  BY <1>1 DEF Graph
<1>8. QED
  BY <1>1, <1>2, <1>4, <1>5, <1>6, <1>7 DEF OnceInv, CallOnceRunsOnce, Marked

LEMMA InvokeKeepsOnce ==
  ASSUME ControlInv, WalkInv, OnceInv, UNCHANGED lifetimeVars, Invoke
  PROVE  OnceInv'
<1>1. /\ UNCHANGED <<model, marking, hasRun>> /\ Marked /\ 1 \in DOMAIN model.graphs
      /\ frames' = <<Frame(1)>> /\ Frame(1).graph = 1 /\ Frame(1).node = 0 /\ Frame(1).step = "loop"
  BY ModelFacts DEF lifetimeVars, Invoke, Frame, ControlInv, ControlTypes
<1> HIDE DEF Frame
<1>2. /\ Len(frames') = 1 /\ DOMAIN frames' = {1} /\ frames'[1].graph = 1
      /\ frames'[1].node = 0 /\ frames'[1].step = "loop" /\ Running' /\ Marked'
  BY <1>1 DEF Running, Marked
<1>3. PICK D \in SUBSET DOMAIN model.graphs : Walked(D)
  BY DEF WalkInv
<1>4. ClosedUnderCalls(D)' /\ NoCycleIn(D)' /\ 1 \in D
  BY <1>1, <1>3, CalleesStay DEF Walked
<1>5. CallsOnStack'
  BY <1>1, <1>2, <1>4 DEF CallsOnStack
<1>6. ASSUME NEW f, f.node = 0 PROVE OncePassed(f)'
  BY <1>6 DEF OncePassed
<1>7. QED
  BY <1>1, <1>2, <1>5, <1>6 DEF OnceInv, CallOnceRunsOnce

LEMMA IdleKeepsOnce ==
  ASSUME OnceInv, UNCHANGED model, UNCHANGED <<frames, hasRun, status, invokes>>, Marked => Marked'
  PROVE  OnceInv'
<1>1. (Running' <=> Running) /\ \A g : Calls(g)' = Calls(g) /\ Graph(g)' = Graph(g)
  BY ModelStays DEF Running
<1>2. CallsOnStack'
  <2>1. ASSUME NEW i \in 2..Len(frames), NEW g, g = frames[i - 1].graph
        PROVE  frames[i].graph \in Calls(g)'
    BY <1>1, <2>1 DEF OnceInv, CallsOnStack
  <2>2. ASSUME NEW D, ClosedUnderCalls(D), NoCycleIn(D) PROVE ClosedUnderCalls(D)' /\ NoCycleIn(D)'
    BY <2>2, CalleesStay
  <2>3. QED
    BY <1>1, <2>1, <2>2 DEF OnceInv, CallsOnStack
<1>3. ASSUME NEW f, OncePassed(f) PROVE OncePassed(f)'
  BY <1>3, StaysOnce
<1>4. QED
  BY <1>1, <1>2, <1>3 DEF OnceInv, CallOnceRunsOnce

InvokeInv == ControlInv /\ WalkInv /\ OnceInv

LEMMA InitKeepsOnce == InvokeInit => InvokeInv
<1> SUFFICES ASSUME InvokeInit PROVE OnceInv
  BY InitControl, InitWalk DEF InvokeInit, InvokeInv
<1>1. frames = <<>> /\ invokes = 0
  BY DEF InvokeInit
<1>2. DOMAIN frames = {} /\ Len(frames) = 0 /\ ~Running
  BY <1>1 DEF Running
<1>3. QED
  BY <1>1, <1>2 DEF OnceInv, CallsOnStack, CallOnceRunsOnce

\* The walk is over before the first Invoke, and nothing else changes what it made.
LEMMA NextWalks == [Next]_vars => [MarkLifetimes]_lifetimeVars
BY DEF Next, Plan, Application, Execute, vars

LEMMA NextKeepsOnce == InvokeInv /\ [Next]_vars => InvokeInv'
<1> SUFFICES ASSUME ControlInv, WalkInv, OnceInv, [Next]_vars PROVE InvokeInv'
  BY DEF InvokeInv
<1>1. ControlInv' /\ WalkInv'
  BY NextKeepsControl, NextWalks, StepKeepsWalk
<1>2. CASE Plan
  <2>1. UNCHANGED model /\ ~Marked /\ UNCHANGED <<frames, hasRun, status, invokes>>
    BY <1>2 DEF Plan, MarkLifetimes, BeginOp, EnterSubgraph, EndOp, LeaveSubgraph, invokeVars
  <2>2. QED
    BY <1>1, <2>1, IdleKeepsOnce DEF InvokeInv
<1>3. CASE Invoke /\ UNCHANGED lifetimeVars
  BY <1>1, <1>3, InvokeKeepsOnce DEF InvokeInv
<1>4. CASE (Reset /\ UNCHANGED lifetimeVars) \/ UNCHANGED vars
  <2>1. UNCHANGED <<model, marking>> /\ UNCHANGED <<frames, hasRun, status, invokes>>
    BY <1>4 DEF Reset, vars, lifetimeVars, invokeVars
  <2>2. QED
    BY <1>1, <2>1, IdleKeepsOnce DEF InvokeInv, Marked
<1>5. CASE Execute
  <2>1. Running /\ UNCHANGED lifetimeVars /\ UNCHANGED invokes
    BY <1>5 DEF Execute, StartNode, ReturnFromSubgraph, EvalPlain, EvalIf, IfReturns, EvalWhile,
       WhileTurns, BodyReturns, WhileEnds, EvalCallOnce, CallOnceReturns, CalleeFailed
  <2>2. StartNode \/ ReturnFromSubgraph \/ KernelTurned \/ KernelCalled
    BY <1>5, ExecuteKeepsControl
  <2>3. OnceInv'
    BY <1>1, <2>1, <2>2, StartKeepsOnce, ReturnKeepsOnce, TurnedKeepsOnce, CalledKeepsOnce
  <2>4. QED
    BY <1>1, <2>3 DEF InvokeInv
<1>6. QED
  BY <1>2, <1>3, <1>4, <1>5 DEF Next, Application

LEMMA InvokeInvariance == Spec => []InvokeInv
BY InitKeepsOnce, NextKeepsOnce, PTL DEF Spec

\* An init subgraph that has run to its end is never entered again, from whatever subgraph or
\* loop its CALL_ONCE is reached, and an Invoke that succeeds has run those of the main one.
THEOREM CallOnceRunsOnceAlways == Spec => []CallOnceRunsOnce
<1>1. InvokeInv => CallOnceRunsOnce
  BY DEF InvokeInv, OnceInv
<1>2. QED
  BY <1>1, InvokeInvariance, PTL

\* No InvokeSubgraph is entered for a subgraph whose earlier invocation has not returned: the
\* two would share one set of tensors (interpreter_graph.cc).
NoReentry == \A i, j \in DOMAIN frames : frames[i].graph = frames[j].graph => i = j

\* The call stack of every invocation holds each subgraph once.
THEOREM NoReentryAlways == Spec => []NoReentry
<1>1. ControlInv /\ OnceInv => NoReentry
  <2> SUFFICES ASSUME ControlInv, OnceInv, NEW i \in DOMAIN frames, NEW j \in DOMAIN frames,
                      frames[i].graph = frames[j].graph
               PROVE  i = j
    BY DEF NoReentry
  <2>1. Running
    BY DEF Running
  <2>2. i \in Nat /\ j \in Nat
    BY <2>1, TopFacts
  <2>3. QED
    BY <2>1, <2>2, NoGraphTwice DEF OnceInv
<1>2. QED
  BY <1>1, InvokeInvariance, PTL DEF InvokeInv

\* The same two facts about the walk, of the system whose invocations follow it.
THEOREM SpecWalks == Spec => Walk /\ ReachableHaveLifetimes /\ CallersOverlapCallees
<1>1. InvokeInit => LifetimesInit
  BY DEF InvokeInit
<1>2. Spec => Walk
  BY <1>1, NextWalks, PTL DEF Spec, Walk
<1>3. QED
  BY <1>2, ReachableHaveLifetimesHolds, CallersOverlapCalleesHolds, PTL

-----------------------------------------------------------------------------
\* The data.  What a frame still needs is kept apart, by the lifetimes of the walk, from all that
\* running its operator touches: every write of a frame above it is to such a buffer.

\* A variable tensor with an offline offset is planned with a lifetime inside one call, but its
\* data must outlive the calls: the theorems below are about models without one.
NoOfflineVariables == \A m \in Models : m.variables \intersect m.offline = {}

Placed == DOMAIN model.alternate
Fixed == model.constants \union model.variables
NodeOf(f) == Graph(f.graph).ops[f.node]

\* What operator n put in alternate memory, and what was produced elsewhere by the end of
\* operator n and is read by operator m or later.
Fresh(g, n) == IF n = 0 THEN {} ELSE Range(Graph(g).ops[n].outs) \intersect Placed
Kept(g, n, m) == (Produced(g, n) \intersect ReadFrom(g, m)) \ Placed

\* What a kernel needs when InvokeSubgraph returns to it; WHILE keeps the loop's values in its
\* outputs.
Waiting(f) == Kept(f.graph, f.node - 1, f.node + 1)
  \union (IF f.step \in Looping THEN Range(NodeOf(f).outs) ELSE {})

\* What the frame on top needs: its loop, the kernel it is about to run, the kernel it is in.
Needed(f) ==
  CASE f.step = "loop" -> Kept(f.graph, f.node, f.node + 1) \union Fresh(f.graph, f.node)
    [] f.step = "eval" -> Kept(f.graph, f.node - 1, f.node) \union Fresh(f.graph, f.node - 1)
    [] f.step \in Calling ->
         Waiting(f) \union (IF status = "ok" THEN Range(Graph(f.callee).outputs) ELSE {})
    [] f.step = "break" -> {}

CalleeFits(f) ==
  /\ f.callee \in Range(NodeOf(f).callees)
  /\ f.step = "branch" => NodeOf(f).kind = "IF"
  /\ f.step = "once" => NodeOf(f).kind = "CALL_ONCE"
  /\ f.step \in Looping => NodeOf(f).kind = "WHILE"
  /\ f.step = "cond" => f.callee = NodeOf(f).callees[1]
  /\ f.step = "body" => f.callee = NodeOf(f).callees[2]

\* Every frame runs below the call that each frame under it is in.
DataStack == \A i \in DOMAIN frames : \A f \in {frames[i]} :
  /\ f.graph \in Reach(1)
  /\ f.step \in Calling => CalleeFits(f)
  /\ i < Len(frames) => frames[i + 1].graph = f.callee
  /\ \A j \in DOMAIN frames : i < j => frames[j].graph \in Reach(f.callee)

Lower == {frames[i] : i \in {i \in DOMAIN frames : i < Len(frames)}}
Below == Fixed \union UNION {Waiting(f) : f \in Lower}

IsMemory(mem) == mem = [intact |-> mem.intact, lost |-> mem.lost]

DataInv ==
  /\ IsMemory(memory) /\ NothingLost /\ OutputsDelivered
  /\ DataStack
  /\ Below \subseteq memory.intact
  /\ Running => Needed(Top) \subseteq memory.intact

-----------------------------------------------------------------------------
\* Which buffers may share bytes.
LEMMA ApartFacts ==
  ASSUME model \in Models, NoOfflineVariables, NEW a, NEW b, Meet(a, b), a \notin Placed \/ b \notin Placed
  PROVE  ~MayShare(a, b) /\ ~MayShare(b, a)
<1>1. model.variables \intersect model.offline = {}
  BY DEF NoOfflineVariables
<1>2. NeedsAllocating(a) /\ NeedsAllocating(b) => IsActivation(a) /\ IsActivation(b)
  BY <1>1 DEF NeedsAllocating, IsActivation
<1>3. ~ShareInPlan(a, b) /\ ~ShareInPlan(b, a)
  BY <1>2 DEF ShareInPlan, Meet, OverlapInTime
<1>4. ~ShareAlternate(a, b) /\ ~ShareAlternate(b, a)
  BY DEF ShareAlternate, Placed
<1>5. QED
  BY <1>3, <1>4 DEF MayShare

LEMMA FixedApart ==
  ASSUME model \in Models, NoOfflineVariables, NEW a \in Fixed, NEW w
  PROVE  a \notin Placed /\ ~MayShare(w, a) /\ ~MayShare(a, w)
<1>1. Fixed \intersect Placed = {} /\ model.variables \intersect model.offline = {}
  BY FlowAssumption DEF FlowAssumption, Fixed, Placed, NoOfflineVariables
<1>2. a \notin Placed /\ ~NeedsAllocating(a)
  BY <1>1 DEF NeedsAllocating, Fixed
<1>3. QED
  BY <1>2 DEF MayShare, ShareInPlan, ShareAlternate, Placed

\* An operator's tensors in alternate memory do not meet each other's addresses, and it writes
\* nothing else there.
LEMMA PlacedFacts ==
  ASSUME model \in Models, NEW g \in DOMAIN model.graphs
  PROVE  /\ Placed \intersect Range(Graph(g).inputs) = {}
         /\ Range(Graph(g).outputs) \subseteq Fixed \union Produced(g, Len(Graph(g).ops)) \union Placed
         /\ Placed \intersect Range(Graph(g).outputs) \subseteq Fresh(g, Len(Graph(g).ops))
         /\ \A n \in DOMAIN Graph(g).ops : \A op \in {Graph(g).ops[n]} :
              /\ Placed \intersect (Range(op.ins) \ Fresh(g, n - 1)) = {}
              /\ Placed \intersect op.scratch = {}
              /\ Fresh(g, n) # {} => op.kind = "plain" /\ Range(op.ins) \subseteq model.constants
              /\ \A a, b \in Fresh(g, n) : a # b => ~MayShare(a, b)
<1>1. /\ OutputsInOrder(model, Graph(g)) /\ AlternatesInOrder(model, Graph(g))
  BY FlowAssumption DEF FlowAssumption, Graph
<1>2. Range(Graph(g).outputs) \subseteq Fixed \union Produced(g, Len(Graph(g).ops)) \union Placed
  <2>1. Len(Graph(g).ops) \in Nat /\ Graph(g).ops \in Seq(Operators)
    BY SubgraphFacts
  <2>2. Range(Graph(g).ops) = {Graph(g).ops[k] : k \in 1..Len(Graph(g).ops)}
    BY <2>1 DEF Range
  <2>3. UNION {Range(op.outs) : op \in Range(Graph(g).ops)} \subseteq Produced(g, Len(Graph(g).ops))
    BY <2>2 DEF Produced
  <2>4. QED
    BY <1>1, <2>3 DEF OutputsInOrder, Fixed, Placed, Produced
<1>3. /\ Placed \intersect Range(Graph(g).inputs) = {}
      /\ Placed \intersect Range(Graph(g).outputs) \subseteq Fresh(g, Len(Graph(g).ops))
  BY <1>1 DEF AlternatesInOrder, Placed, Fresh
<1>4. ASSUME NEW n \in DOMAIN Graph(g).ops, NEW op, op = Graph(g).ops[n]
      PROVE  /\ Placed \intersect (Range(op.ins) \ Fresh(g, n - 1)) = {}
             /\ Placed \intersect op.scratch = {}
             /\ Fresh(g, n) # {} => op.kind = "plain" /\ Range(op.ins) \subseteq model.constants
             /\ \A a, b \in Fresh(g, n) : a # b => ~MayShare(a, b)
  <2>1. /\ Placed \intersect (Range(op.ins) \ Fresh(g, n - 1)) = {}
        /\ Placed \intersect op.scratch = {}
        /\ Fresh(g, n) # {} => op.kind = "plain" /\ Range(op.ins) \subseteq model.constants
        /\ \A a, b \in Fresh(g, n) : a # b => model.alternate[a] \intersect model.alternate[b] = {}
    BY <1>1, <1>4 DEF AlternatesInOrder, Placed, Fresh
  <2>2. Fresh(g, n) \subseteq Placed
    BY DEF Fresh
  <2>3. QED
    BY <2>1, <2>2 DEF MayShare, ShareInPlan, ShareAlternate, NeedsAllocating, Placed
<1>5. QED
  BY <1>2, <1>3, <1>4

-----------------------------------------------------------------------------
\* The memory: a buffer is intact after writes to others that may not share bytes with it.
LEMMA ReadingFacts ==
  ASSUME NEW mem, IsMemory(mem), NEW B, B \subseteq mem.intact
  PROVE  LET m == Reading(mem, B) IN IsMemory(m) /\ m.intact = mem.intact /\ m.lost = mem.lost
<1>1. B \ mem.intact = {}
  OBVIOUS
<1>2. Reading(mem, B) = [intact |-> mem.intact, lost |-> mem.lost]
  BY <1>1 DEF Reading, IsMemory
<1>3. QED
  BY <1>2 DEF IsMemory

LEMMA WritingFacts ==
  ASSUME NEW mem, IsMemory(mem), NEW W, NEW K, K \subseteq mem.intact \union W,
         \A w \in W : \A k \in K : ~MayShare(w, k)
  PROVE  LET m == Writing(mem, W) IN IsMemory(m) /\ m.lost = mem.lost /\ K \subseteq m.intact
<1>1. Writing(mem, W) = [intact |-> {b \in mem.intact \union W : \A a \in W : ~MayShare(a, b)},
                         lost |-> mem.lost]
  BY DEF Writing, IsMemory
<1>2. QED
  BY <1>1 DEF IsMemory

LEMMA CopyingFacts ==
  ASSUME NEW mem, NEW from \in Seq(STRING), NEW to \in Seq(STRING), Len(from) = Len(to),
         Range(from) \subseteq mem.intact, NEW K, K \subseteq mem.intact,
         \A w \in Range(to) : \A k \in K \union Range(from) \union Range(to) : ~MayShare(w, k)
  PROVE  LET m == Copying(mem, from, to) IN
         /\ IsMemory(m) /\ m.lost = mem.lost
         /\ K \subseteq m.intact /\ Range(from) \subseteq m.intact /\ Range(to) \subseteq m.intact
<1> DEFINE Intact(n) == {b \in mem.intact \union Range(to) : \E j \in 0..n :
             /\ IF j = 0 THEN b \in mem.intact ELSE b = to[j]
             /\ \A k \in (j + 1)..n : ~MayShare(to[k], b)}
           lost == mem.lost \union {from[i] : i \in {i \in DOMAIN from : from[i] \notin Intact(i - 1)}}
<1>1. Copying(mem, from, to) = [intact |-> Intact(Len(from)), lost |-> lost]
  BY DEF Copying
<1>2. /\ Len(from) \in Nat /\ DOMAIN from = 1..Len(from) /\ DOMAIN to = 1..Len(from)
      /\ \A k \in 1..Len(from) : to[k] \in Range(to) /\ from[k] \in Range(from)
  BY DEF Range
<1>3. ASSUME NEW n \in 0..Len(from), NEW b \in mem.intact,
             \A k \in 1..n : ~MayShare(to[k], b)
      PROVE  b \in Intact(n)
  <2>1. 0 \in 0..n /\ \A k \in (0 + 1)..n : ~MayShare(to[k], b)
    BY <1>2, <1>3
  <2>2. QED
    BY <2>1
<1>4. ASSUME NEW i \in DOMAIN from PROVE from[i] \in Intact(i - 1)
  <2>1. i - 1 \in 0..Len(from) /\ \A k \in 1..(i - 1) : k \in DOMAIN to
    BY <1>2
  <2>2. QED
    BY <1>2, <1>3, <2>1
<1>5. lost = mem.lost
  BY <1>4
<1>6. Len(from) \in 0..Len(from)
  BY <1>2
<1>7. K \subseteq Intact(Len(from)) /\ Range(from) \subseteq Intact(Len(from))
  BY <1>2, <1>3, <1>6
<1>8. Range(to) \subseteq Intact(Len(from))
  <2> SUFFICES ASSUME NEW j \in 1..Len(from) PROVE to[j] \in Intact(Len(from))
    BY <1>2 DEF Range
  <2>1. j \in 0..Len(from) /\ j # 0 /\ \A k \in (j + 1)..Len(from) : k \in 1..Len(from)
    BY <1>2
  <2>2. QED
    BY <1>2, <2>1
<1> HIDE DEF Intact, lost
<1>9. QED
  BY <1>1, <1>5, <1>7, <1>8 DEF IsMemory

-----------------------------------------------------------------------------
\* What a node leaves for later is alive while it runs.
LEMMA WaitingAlive ==
  ASSUME model \in Models, NEW f, f.graph \in DOMAIN model.graphs, f.node \in DOMAIN Graph(f.graph).ops,
         f.step \in Looping => NodeOf(f).kind = "WHILE"
  PROVE  /\ Kept(f.graph, f.node - 1, f.node + 1) \subseteq Kept(f.graph, f.node - 1, f.node)
         /\ Kept(f.graph, f.node - 1, f.node) \subseteq Alive(f.graph, f.node)
         /\ Waiting(f) \subseteq Alive(f.graph, f.node) \ Placed
         /\ Kept(f.graph, f.node, f.node + 1)
              \subseteq Kept(f.graph, f.node - 1, f.node + 1) \union (Range(NodeOf(f).outs) \ Placed)
         /\ Range(NodeOf(f).outs) \subseteq Alive(f.graph, f.node)
         /\ NodeOf(f).kind # "plain" => Range(NodeOf(f).outs) \intersect Placed = {}
<1>1. PICK g \in DOMAIN model.graphs : g = f.graph
  OBVIOUS
<1>2. PICK n \in DOMAIN Graph(g).ops : n = f.node
  BY <1>1
<1>3. PICK op : op = Graph(g).ops[n]
  OBVIOUS
<1>4. n \in Nat \ {0} /\ Len(Graph(g).ops) \in Nat /\ n <= Len(Graph(g).ops)
  BY <1>1, SubgraphFacts
<1>5. Produced(g, n) = Produced(g, n - 1) \union Range(op.outs)
  <2>1. 1..n = 1..(n - 1) \union {n}
    BY <1>4
  <2>2. QED
    BY <1>3, <2>1 DEF Produced
<1>6. ReadFrom(g, n + 1) \subseteq ReadFrom(g, n)
  <2>1. (n + 1)..Len(Graph(g).ops) \subseteq n..Len(Graph(g).ops)
    BY <1>4
  <2>2. QED
    BY <2>1 DEF ReadFrom
<1>7. Kept(g, n - 1, n + 1) \subseteq Kept(g, n - 1, n) /\ Kept(g, n - 1, n) \subseteq Alive(g, n)
  BY <1>5, <1>6 DEF Kept, Alive
<1>8. Range(op.outs) \subseteq Alive(g, n)
  BY <1>3 DEF Alive, UsedBy
<1>9. op.kind # "plain" => Range(op.outs) \intersect Placed = {}
  <2>1. Fresh(g, n) # {} => op.kind = "plain"
    BY <1>1, <1>3, PlacedFacts
  <2>2. Fresh(g, n) = Range(op.outs) \intersect Placed
    BY <1>3, <1>4 DEF Fresh
  <2>3. QED
    BY <2>1, <2>2
<1>10. Waiting(f) \subseteq Alive(g, n) \ Placed
  <2>1. NodeOf(f) = op
    BY <1>1, <1>2, <1>3 DEF NodeOf
  <2>2. Waiting(f) \subseteq Kept(g, n - 1, n + 1) \union (IF f.step \in Looping THEN Range(op.outs) ELSE {})
    BY <1>1, <1>2, <2>1 DEF Waiting
  <2>3. Kept(g, n - 1, n + 1) \intersect Placed = {}
    BY DEF Kept
  <2>4. f.step \in Looping => Range(op.outs) \intersect Placed = {}
    BY <1>9, <2>1
  <2>5. QED
    BY <1>7, <1>8, <2>2, <2>3, <2>4
<1>11. Kept(g, n, n + 1) \subseteq Kept(g, n - 1, n + 1) \union (Range(op.outs) \ Placed)
  BY <1>5 DEF Kept
<1>12. QED
  BY <1>1, <1>2, <1>3, <1>7, <1>8, <1>9, <1>10, <1>11 DEF NodeOf

\* While an operator of a subgraph that was walked runs, what is alive is apart from all it
\* touches.
LEMMA AliveApart ==
  ASSUME model \in Models, NoOfflineVariables, NEW g \in DOMAIN model.graphs, Spanned(g),
         NEW n \in DOMAIN Graph(g).ops, NEW a \in Alive(g, n), NEW w \in Touched(Graph(g).ops[n]),
         a \notin Placed \/ w \notin Placed
  PROVE  ~MayShare(w, a) /\ ~MayShare(a, w)
<1>1. Together(Alive(g, n), Touched(Graph(g).ops[n]))
  BY DEF Spanned
<1>2. Meet(a, w)
  BY <1>1 DEF Together
<1>3. QED
  BY <1>2, ApartFacts

\* So is what the frames below wait for, from all that the frame on top can reach.
LEMMA BelowApart ==
  ASSUME ControlInv, WalkInv, Marked, DataStack, NoOfflineVariables, Running,
         NEW a \in Below, NEW h \in Reach(Top.graph), NEW w \in BuffersOf(h)
  PROVE  ~MayShare(w, a)
<1>1. /\ model \in Models /\ DOMAIN frames = 1..Len(frames) /\ Len(frames) \in Nat \ {0}
      /\ Top = frames[Len(frames)] /\ MarkedSpans
  BY TopFacts, WalkedSpans DEF ControlInv, ControlTypes, Top
<1>2. CASE a \in Fixed
  BY <1>1, <1>2, FixedApart
<1>3. ASSUME NEW i \in DOMAIN frames, i < Len(frames), a \in Waiting(frames[i])
      PROVE  ~MayShare(w, a)
  <2>1. PICK f : f = frames[i]
    OBVIOUS
  <2>2. f.graph \in DOMAIN model.graphs /\ f.node \in Nat
    BY <1>1, <1>3, <2>1, TopFacts DEF FrameRecord
  <2>3. f.step \in Calling
    <3>1. i + 1 \in 2..Len(frames) /\ i + 1 - 1 = i
      BY <1>1, <1>3
    <3>2. QED
      BY <2>1, <3>1 DEF ControlInv, FramesLinked
  <2>4. /\ f.graph \in Reach(1) /\ CalleeFits(f) /\ Top.graph \in Reach(f.callee)
    BY <1>1, <1>3, <2>1, <2>3 DEF DataStack
  <2>5. f.node \in DOMAIN Graph(f.graph).ops
    <3>1. f.node <= Len(Graph(f.graph).ops) /\ f.node >= 1
      BY <1>3, <2>1, <2>3 DEF ControlInv, NodesInRange, NodeFits, Calling
    <3>2. QED
      BY <1>1, <2>2, <3>1, SubgraphFacts
  <2>6. a \in Alive(f.graph, f.node) /\ a \notin Placed
    BY <1>1, <1>3, <2>1, <2>2, <2>4, <2>5, WaitingAlive DEF CalleeFits
  <2>7. h \in Reach(f.callee)
    <3>1. Reach(f.callee) \in SUBSET DOMAIN model.graphs /\ ClosedUnderCalls(Reach(f.callee))
      BY <1>1, ReachClosed DEF Reach
    <3>2. QED
      BY <2>4, <3>1 DEF Reach
  <2>8. w \in Touched(NodeOf(f))
    BY <2>4, <2>7 DEF Touched, CalleeFits
  <2>9. Spanned(f.graph)
    BY <1>1, <2>4 DEF MarkedSpans
  <2>10. QED
    BY <1>1, <2>2, <2>5, <2>6, <2>8, <2>9, AliveApart DEF NodeOf
<1>4. QED
  BY <1>2, <1>3 DEF Below, Lower

\* The kernel on top: its node, where its subgraph stands, and what its writes leave alone.
LEMMA KernelFacts ==
  ASSUME InvokeInv, DataStack, NoOfflineVariables, Running, Top.step # "loop"
  PROVE  /\ model \in Models /\ Marked /\ Top \in FrameRecord /\ Top = frames[Len(frames)]
         /\ Top.graph \in DOMAIN model.graphs /\ Top.node \in DOMAIN Graph(Top.graph).ops
         /\ NodeOf(Top) = Node /\ Node = Graph(Top.graph).ops[Top.node]
         /\ Node \in Ops(Top.graph) /\ Node \in Operators
         /\ Top.graph \in Reach(1) /\ Spanned(Top.graph)
         /\ Resolve(Node.ins) = Node.ins /\ Resolve(Node.outs) = Node.outs
         /\ TensorsFit(model, Node)
         /\ Top.step \in Calling => CalleeFits(Top)
<1>1. ControlInv /\ WalkInv /\ Marked
  BY DEF InvokeInv, OnceInv, CallsOnStack
<1>2. /\ model \in Models /\ DOMAIN frames = 1..Len(frames) /\ Len(frames) \in Nat \ {0}
      /\ Top \in FrameRecord /\ Top = frames[Len(frames)] /\ MarkedSpans
      /\ Top.graph \in DOMAIN model.graphs /\ Top.node \in Nat
  BY <1>1, TopFacts, WalkedSpans DEF ControlInv, ControlTypes, Top
<1>3. Top.node \in DOMAIN Graph(Top.graph).ops
  <2>1. Top.node <= Len(Graph(Top.graph).ops) /\ Top.node >= 1
    BY <1>1, <1>2 DEF ControlInv, NodesInRange, NodeFits
  <2>2. QED
    BY <1>2, <2>1, SubgraphFacts
<1>4. /\ Node = Graph(Top.graph).ops[Top.node] /\ Node \in Ops(Top.graph) /\ Node \in Operators
      /\ NodeOf(Top) = Node
  BY <1>2, <1>3, OpFacts DEF Node, NodeOf, Ops, Range
<1>5. Top.graph \in Reach(1) /\ Spanned(Top.graph) /\ (Top.step \in Calling => CalleeFits(Top))
  BY <1>1, <1>2 DEF DataStack, MarkedSpans
<1>6. currentGraph = Top.graph
  BY <1>1 DEF ControlInv, CurrentIsRunning
<1>7. Node.ins \in Seq(STRING) /\ Node.outs \in Seq(STRING)
  BY <1>4 DEF Operators
<1>8. Resolve(Node.ins) = Node.ins /\ Resolve(Node.outs) = Node.outs
  BY <1>6, <1>7 DEF Resolve
<1>9. TensorsFit(model, Node)
  BY <1>2, <1>3, <1>4, FlowAssumption DEF FlowAssumption, Graph
<1>10. QED
  BY <1>1, <1>2, <1>3, <1>4, <1>5, <1>8, <1>9

LEMMA CalleeFacts ==
  ASSUME InvokeInv, DataStack, NoOfflineVariables, Running, Top.step # "loop",
         NEW c \in Range(Node.callees)
  PROVE  /\ c \in DOMAIN model.graphs /\ c \in Reach(Top.graph) /\ c \in Reach(1) /\ Spanned(c)
         /\ BuffersOf(c) \subseteq Touched(Node)
         /\ Graph(c).inputs \in Seq(STRING) /\ Graph(c).outputs \in Seq(STRING)
         /\ Range(Graph(c).inputs) \subseteq BuffersOf(c)
         /\ Range(Graph(c).outputs) \subseteq BuffersOf(c)
         /\ Range(Graph(c).inputs) \intersect Placed = {}
<1>1. /\ model \in Models /\ Top.graph \in DOMAIN model.graphs /\ Node \in Ops(Top.graph) /\ MarkedSpans
      /\ Top.graph \in Reach(1) /\ Marked
  BY KernelFacts, WalkedSpans DEF InvokeInv
<1>2. c \in DOMAIN model.graphs /\ c \in Calls(Top.graph)
  BY <1>1, OpFacts
<1>3. c \in Reach(Top.graph) /\ c \in Reach(1)
  <2>1. \A k \in {1, Top.graph} : ClosedUnderCalls(Reach(k))
    BY <1>1, ReachClosed
  <2>2. Top.graph \in Reach(Top.graph)
    BY <1>1, ReachSelf
  <2>3. QED
    BY <1>1, <1>2, <2>1, <2>2 DEF ClosedUnderCalls
<1>4. Spanned(c)
  BY <1>1, <1>3 DEF MarkedSpans
<1>5. BuffersOf(c) \subseteq Touched(Node)
  <2>1. c \in Reach(c)
    BY <1>2, ReachSelf
  <2>2. QED
    BY <2>1 DEF Touched
<1>6. Graph(c) \in Subgraphs
  BY <1>1, <1>2, SubgraphFacts
<1>7. Graph(c).inputs \in Seq(STRING) /\ Graph(c).outputs \in Seq(STRING)
  BY <1>6 DEF Subgraphs
<1>8. Range(Graph(c).inputs) \intersect Placed = {}
  BY <1>1, <1>2, PlacedFacts
<1>9. QED
  BY <1>2, <1>3, <1>4, <1>5, <1>7, <1>8 DEF BuffersOf, TensorsOf

LEMMA WriteApart ==
  ASSUME InvokeInv, DataStack, NoOfflineVariables, Running, Top.step # "loop",
         NEW w \in Touched(Node)
  PROVE  /\ \A a \in Below : ~MayShare(w, a)
         /\ \A a \in Alive(Top.graph, Top.node) :
              a \notin Placed \/ w \notin Placed => ~MayShare(w, a) /\ ~MayShare(a, w)
<1>1. /\ model \in Models /\ Top.graph \in DOMAIN model.graphs /\ Node \in Ops(Top.graph)
      /\ Top.node \in DOMAIN Graph(Top.graph).ops /\ Node = Graph(Top.graph).ops[Top.node]
      /\ Spanned(Top.graph) /\ Marked
  BY KernelFacts
<1>2. ASSUME NEW a \in Below PROVE ~MayShare(w, a)
  <2>1. PICK h \in Reach(Top.graph) : w \in BuffersOf(h)
    <3>1. CASE w \in UsedBy(Node)
      BY <1>1, <3>1, OpFacts, ReachSelf
    <3>2. CASE w \notin UsedBy(Node)
      <4>1. PICK c \in Range(Node.callees) : \E h \in Reach(c) : w \in BuffersOf(h)
        BY <3>2 DEF Touched
      <4>2. c \in Reach(Top.graph)
        BY CalleeFacts
      <4>3. Reach(Top.graph) \in SUBSET DOMAIN model.graphs /\ ClosedUnderCalls(Reach(Top.graph))
        BY <1>1, ReachClosed DEF Reach
      <4>4. \A h \in Reach(c) : h \in Reach(Top.graph)
        BY <4>2, <4>3 DEF Reach
      <4>5. QED
        BY <4>1, <4>4
    <3>3. QED
      BY <3>1, <3>2
  <2>2. QED
    BY <1>1, <2>1, BelowApart DEF InvokeInv
<1>3. QED
  BY <1>1, <1>2, AliveApart

\* The inputs of a subgraph are there together.
LEMMA InputsApart ==
  ASSUME model \in Models, NoOfflineVariables, NEW c \in DOMAIN model.graphs, Spanned(c),
         NEW a \in Range(Graph(c).inputs), NEW b \in Range(Graph(c).inputs)
  PROVE  ~MayShare(a, b)
<1>1. Meet(a, b)
  BY DEF Spanned, Together
<1>2. a \notin Placed
  BY PlacedFacts
<1>3. QED
  BY <1>1, <1>2, ApartFacts

LEMMA DataStays ==
  ASSUME UNCHANGED model
  PROVE  /\ Placed' = Placed /\ Fixed' = Fixed
         /\ \A g : Graph(g)' = Graph(g) /\ Reach(g)' = Reach(g)
         /\ \A g, n, m : Kept(g, n, m)' = Kept(g, n, m) /\ Fresh(g, n)' = Fresh(g, n)
         /\ \A f : /\ NodeOf(f)' = NodeOf(f) /\ Waiting(f)' = Waiting(f)
                   /\ CalleeFits(f)' <=> CalleeFits(f)
<1>1. Placed' = Placed /\ Fixed' = Fixed
  BY DEF Placed, Fixed
<1>2. \A g : Graph(g)' = Graph(g) /\ Reach(g)' = Reach(g)
  BY ModelStays
<1>3. \A f : NodeOf(f)' = NodeOf(f)
  BY <1>2 DEF NodeOf
<1>4. \A g, n, m : Kept(g, n, m)' = Kept(g, n, m) /\ Fresh(g, n)' = Fresh(g, n)
  <2>1. \A g, n : Produced(g, n)' = Produced(g, n) /\ ReadFrom(g, n)' = ReadFrom(g, n)
    BY <1>2 DEF Produced, ReadFrom
  <2>2. QED
    BY <1>1, <1>2, <2>1 DEF Kept, Fresh
<1>5. \A f : Waiting(f)' = Waiting(f) /\ (CalleeFits(f)' <=> CalleeFits(f))
  BY <1>3, <1>4 DEF Waiting, CalleeFits
<1>6. QED
  BY <1>1, <1>2, <1>3, <1>4, <1>5

LEMMA NeededCases ==
  ASSUME NEW f
  PROVE  /\ f.step = "loop" =>
              Needed(f) = Kept(f.graph, f.node, f.node + 1) \union Fresh(f.graph, f.node)
         /\ f.step = "eval" =>
              Needed(f) = Kept(f.graph, f.node - 1, f.node) \union Fresh(f.graph, f.node - 1)
         /\ f.step = "break" => Needed(f) = {}
         /\ f.step \in Calling => Needed(f) =
              Waiting(f) \union (IF status = "ok" THEN Range(Graph(f.callee).outputs) ELSE {})
         /\ UNCHANGED model =>
              /\ f.step = "loop" =>
                   Needed(f)' = Kept(f.graph, f.node, f.node + 1) \union Fresh(f.graph, f.node)
              /\ f.step = "eval" =>
                   Needed(f)' = Kept(f.graph, f.node - 1, f.node) \union Fresh(f.graph, f.node - 1)
              /\ f.step = "break" => Needed(f)' = {}
              /\ f.step \in Calling => Needed(f)' =
                   Waiting(f) \union (IF status' = "ok" THEN Range(Graph(f.callee).outputs) ELSE {})
<1>1. Calling \intersect {"loop", "eval", "break"} = {}
  BY DEF Calling
<1>2. UNCHANGED model => /\ \A n, m : Kept(f.graph, n, m)' = Kept(f.graph, n, m)
                         /\ \A n : Fresh(f.graph, n)' = Fresh(f.graph, n)
                         /\ Waiting(f)' = Waiting(f) /\ Graph(f.callee)' = Graph(f.callee)
  BY DataStays
<1>3. QED
  BY <1>1, <1>2 DEF Needed

\* A kernel that is about to run finds its inputs as they were written.
LEMMA InputsIntact ==
  ASSUME InvokeInv, DataInv, NoOfflineVariables, Running, Top.step = "eval"
  PROVE  /\ Range(Node.ins) \subseteq memory.intact
         /\ Range(Node.ins) \intersect Placed # {} => Fresh(Top.graph, Top.node) = {}
         /\ Range(Node.ins) \subseteq Alive(Top.graph, Top.node)
         /\ Kept(Top.graph, Top.node - 1, Top.node) \subseteq memory.intact
<1>1. PICK g : g = Top.graph
  OBVIOUS
<1>2. PICK n : n = Top.node
  OBVIOUS
<1>3. /\ model \in Models /\ g \in DOMAIN model.graphs /\ n \in DOMAIN Graph(g).ops
      /\ Node = Graph(g).ops[n]
  BY <1>1, <1>2, KernelFacts DEF DataInv
<1>4. n \in Nat \ {0} /\ n \in n..Len(Graph(g).ops) /\ n - 1 \in Nat /\ 1..(n - 1) \subseteq 1..n
  BY <1>3, SubgraphFacts
<1>5. Kept(g, n - 1, n) \union Fresh(g, n - 1) \subseteq memory.intact
  BY <1>1, <1>2, NeededCases DEF DataInv
<1>6. /\ Placed \intersect (Range(Node.ins) \ Fresh(g, n - 1)) = {}
      /\ Fresh(g, n) # {} => Range(Node.ins) \subseteq model.constants
  BY <1>3, PlacedFacts
<1>7. ASSUME NEW a \in Range(Node.ins) PROVE a \in memory.intact
  <2>1. ReadsInOrder(model, Graph(g))
    BY <1>3, OrderAssumption DEF OrderAssumption, Graph
  <2>2. a \in Fixed \union Placed \union Produced(g, n - 1)
    BY <1>3, <2>1 DEF ReadsInOrder, Fixed, Placed, Produced
  <2>3. CASE a \in Fixed
    BY <2>3 DEF DataInv, Below
  <2>4. CASE a \in Placed
    BY <1>5, <1>6, <2>4
  <2>5. CASE a \in Produced(g, n - 1) /\ a \notin Placed
    <3>1. a \in ReadFrom(g, n)
      BY <1>3, <1>4 DEF ReadFrom
    <3>2. QED
      BY <1>5, <2>5, <3>1 DEF Kept
  <2>6. QED
    BY <2>2, <2>3, <2>4, <2>5
<1>8. Range(Node.ins) \intersect Placed # {} => Fresh(g, n) = {}
  <2>1. model.constants \intersect Placed = {}
    BY <1>3, FlowAssumption DEF FlowAssumption, Placed
  <2>2. QED
    BY <1>6, <2>1
<1>9. Range(Node.ins) \subseteq Alive(g, n)
  BY <1>3 DEF Alive, UsedBy
<1>10. QED
  BY <1>1, <1>2, <1>5, <1>7, <1>8, <1>9

-----------------------------------------------------------------------------
\* The steps of the stack.  A kernel returns to its loop, or to the break.
LEMMA TurnedKeepsData ==
  ASSUME InvokeInv, ControlInv', DataInv, Running, UNCHANGED model, Top.step # "loop",
         NEW next \in {"loop", "break"}, Turned(next),
         IsMemory(memory)', memory'.lost = memory.lost, Below \subseteq memory'.intact,
         next = "loop" => Kept(Top.graph, Top.node, Top.node + 1) \union Fresh(Top.graph, Top.node)
                            \subseteq memory'.intact
  PROVE  DataInv'
<1>1. /\ DOMAIN frames = 1..Len(frames) /\ Len(frames) \in Nat \ {0} /\ Top = frames[Len(frames)]
      /\ ControlInv /\ frames' # <<>> /\ frames' \in Seq(FrameRecord)'
  BY TopFacts DEF InvokeInv, Top, Turned, ControlInv, ControlTypes
<1>2. PICK n \in Nat \ {0} : n = Len(frames)
  BY <1>1
<1>3. /\ DOMAIN frames' = 1..n /\ Len(frames') = n /\ Top' = frames'[n] /\ Running'
      /\ frames'[n].graph = Top.graph /\ frames'[n].node = Top.node /\ frames'[n].step = next
      /\ \A i \in 1..n : i # n => frames'[i] = frames[i]
      /\ \A i \in 1..n : frames'[i].graph = frames[i].graph
  <2>1. DOMAIN frames' = 1..n /\ Len(frames') = n
    BY <1>1, <1>2 DEF Turned
  <2>2. QED
    BY <1>1, <1>2, <2>1 DEF Turned, TopMoves, Top, Running
<1>4. DataStack'
  <2>1. ASSUME NEW i \in 1..n, NEW f, f = frames'[i]
        PROVE  /\ f.graph \in Reach(1)
               /\ f.step \in Calling => CalleeFits(f)
               /\ i < n => frames'[i + 1].graph = f.callee
               /\ \A j \in 1..n : i < j => frames'[j].graph \in Reach(f.callee)
    <3>1. CASE i = n
      <4>1. f.graph = Top.graph /\ f.step = next /\ n \in DOMAIN frames
        BY <1>1, <1>2, <1>3, <2>1, <3>1
      <4>2. next \notin Calling /\ Top.graph \in Reach(1)
        BY <1>1, <1>2, <4>1 DEF Calling, DataInv, DataStack
      <4>3. QED
        BY <1>2, <3>1, <4>1, <4>2
    <3>2. CASE i # n
      <4>1. f = frames[i] /\ i + 1 \in 1..n
        BY <1>2, <1>3, <2>1, <3>2
      <4>2. QED
        BY <1>1, <1>2, <1>3, <2>1, <4>1 DEF DataInv, DataStack
    <3>3. QED
      BY <3>1, <3>2
  <2>2. QED
    BY <1>3, <2>1, DataStays DEF DataStack
<1>5. Below' \subseteq memory'.intact
  <2>1. Lower' = Lower
    <3>1. Lower = {frames[i] : i \in {i \in 1..n : i < n}} /\ Lower' = {frames'[i] : i \in {i \in 1..n : i < n}}
      BY <1>1, <1>2, <1>3, Zenon DEF Lower
    <3>2. \A i \in {i \in 1..n : i < n} : frames'[i] = frames[i]
      BY <1>2, <1>3
    <3>3. QED
      BY <3>1, <3>2, Zenon
  <2>2. Below' = Below
    BY <2>1, DataStays DEF Below
  <2>3. QED
    BY <2>2
<1>6. Needed(Top)' \subseteq memory'.intact
  <2>1. PICK f : f = frames'[n]
    OBVIOUS
  <2>2. Needed(f)' \subseteq memory'.intact
    BY <1>3, <2>1, NeededCases
  <2>3. QED
    BY <1>3, <2>1, <2>2
<1>7. NothingLost' /\ OutputsDelivered'
  BY <1>3 DEF DataInv, NothingLost, OutputsDelivered
<1>8. QED
  BY <1>4, <1>5, <1>6, <1>7 DEF DataInv

\* A kernel calls a subgraph whose inputs it has copied.
LEMMA CalledKeepsData ==
  ASSUME InvokeInv, ControlInv', DataInv, NoOfflineVariables, Running, UNCHANGED model, Top.step # "loop",
         NEW callee \in Range(Node.callees), NEW step \in Calling, Called(callee, step),
         \A f : /\ f.graph = Top.graph /\ f.node = Top.node /\ f.callee = callee /\ f.step = step
                => CalleeFits(f),
         IsMemory(memory)', memory'.lost = memory.lost, Below \subseteq memory'.intact,
         Kept(Top.graph, Top.node - 1, Top.node + 1) \subseteq memory'.intact,
         step \in Looping => Range(Node.outs) \subseteq memory'.intact,
         Range(Graph(callee).inputs) \subseteq memory'.intact
  PROVE  DataInv'
<1>1. /\ DOMAIN frames = 1..Len(frames) /\ Len(frames) \in Nat \ {0} /\ Top = frames[Len(frames)]
      /\ ControlInv /\ callee \in DOMAIN model.graphs
      /\ callee \in Reach(1) /\ callee \in Calls(Top.graph) /\ model \in Models
  <2>1. callee \in Calls(Top.graph)
    BY KernelFacts DEF Calls, DataInv
  <2>2. QED
    BY <2>1, TopFacts, CalleeFacts, KernelFacts DEF InvokeInv, Top, DataInv
<1>2. PICK n \in Nat \ {0} : n = Len(frames)
  BY <1>1
<1>3. /\ DOMAIN frames' = 1..n + 1 /\ Len(frames') = n + 1 /\ Top' = frames'[n + 1]
      /\ frames'[n].graph = Top.graph /\ frames'[n].node = Top.node /\ frames'[n].step = step
      /\ frames'[n].callee = callee
      /\ frames'[n + 1].graph = callee /\ frames'[n + 1].node = 0 /\ frames'[n + 1].step = "loop"
      /\ \A i \in 1..n : i # n => frames'[i] = frames[i]
      /\ \A i \in 1..n : frames'[i].graph = frames[i].graph
  BY <1>1, <1>2 DEF Called, TopMoves, Top
<1>4. DataStack'
  <2>1. ASSUME NEW i \in 1..n + 1, NEW f, f = frames'[i]
        PROVE  /\ f.graph \in Reach(1)
               /\ f.step \in Calling => CalleeFits(f)
               /\ i < n + 1 => frames'[i + 1].graph = f.callee
               /\ \A j \in 1..n + 1 : i < j => frames'[j].graph \in Reach(f.callee)
    <3>1. CASE i = n + 1
      <4>1. "loop" \notin Calling
        BY DEF Calling
      <4>2. f.graph = callee /\ f.step = "loop" /\ ~(i < n + 1) /\ \A j \in 1..n + 1 : ~(i < j)
        BY <1>2, <1>3, <2>1, <3>1
      <4>3. QED
        BY <1>1, <4>1, <4>2
    <3>2. CASE i = n
      <4>1. Top.graph \in Reach(1)
        BY <1>1 DEF DataInv, DataStack
      <4>2. callee \in Reach(callee)
        BY <1>1, ReachSelf
      <4>3. \A j \in 1..n + 1 : i < j => j = n + 1
        BY <1>2, <3>2
      <4>4. CalleeFits(f)
        BY <1>3, <2>1, <3>2
      <4>5. QED
        BY <1>2, <1>3, <2>1, <3>2, <4>1, <4>2, <4>3, <4>4
    <3>3. CASE i # n /\ i # n + 1
      <4>1. i \in 1..n /\ i < n /\ i + 1 \in 1..n /\ f = frames[i] /\ n \in 1..n
        BY <1>2, <1>3, <2>1, <3>3
      <4>2. /\ f.graph \in Reach(1)
            /\ f.step \in Calling => CalleeFits(f)
            /\ frames[i + 1].graph = f.callee
            /\ \A j \in 1..n : i < j => frames[j].graph \in Reach(f.callee)
        BY <1>1, <1>2, <4>1 DEF DataInv, DataStack
      <4>3. Top.graph \in Reach(f.callee)
        BY <1>1, <1>2, <4>1, <4>2
      <4>4. callee \in Reach(f.callee)
        BY <1>1, <4>3, ReachClosed DEF ClosedUnderCalls
      <4>5. ASSUME NEW j \in 1..n + 1, i < j PROVE frames'[j].graph \in Reach(f.callee)
        <5>1. CASE j = n + 1
          BY <1>3, <4>4, <5>1
        <5>2. CASE j # n + 1
          <6>1. j \in 1..n
            BY <1>2, <5>2
          <6>2. QED
            BY <1>3, <4>2, <4>5, <6>1
        <5>3. QED
          BY <5>1, <5>2
      <4>6. frames'[i + 1].graph = f.callee
        BY <1>3, <4>1, <4>2
      <4>7. QED
        BY <4>2, <4>5, <4>6
    <3>4. QED
      BY <3>1, <3>2, <3>3
  <2>2. QED
    BY <1>3, <2>1, DataStays DEF DataStack
<1>5. Below' \subseteq memory'.intact
  <2>1. ASSUME NEW f, f \in Lower' PROVE Waiting(f) \subseteq memory'.intact
    <3>1. PICK i \in 1..n + 1 : f = frames'[i] /\ i < n + 1
      BY <1>3, <2>1 DEF Lower
    <3>2. CASE i = n
      BY <1>3, <3>1, <3>2 DEF Waiting, NodeOf, Node
    <3>3. CASE i # n
      <4>1. i \in 1..n /\ i < n
        BY <1>2, <3>1, <3>3
      <4>2. f = frames[i] /\ i \in DOMAIN frames /\ i < Len(frames)
        BY <1>1, <1>2, <1>3, <3>1, <3>3, <4>1
      <4>4. f \in Lower
        BY <4>2 DEF Lower
      <4>3. QED
        BY <4>4 DEF Below
    <3>4. QED
      BY <3>2, <3>3
  <2>2. Fixed' \subseteq memory'.intact
    BY DataStays DEF Below
  <2>3. QED
    BY <2>1, <2>2, DataStays DEF Below
<1>6. Needed(Top)' \subseteq memory'.intact
  <2>1. PICK f : f = frames'[n + 1]
    OBVIOUS
  <2>2. Needed(f)' = Kept(callee, 0, 1) \union Fresh(callee, 0)
    BY <1>3, <2>1, NeededCases
  <2>3. Kept(callee, 0, 1) \subseteq Range(Graph(callee).inputs)
    BY DEF Kept, Produced
  <2>4. QED
    BY <1>3, <2>1, <2>2, <2>3 DEF Fresh
<1>7. Running' /\ NothingLost' /\ OutputsDelivered'
  <2>1. frames' # <<>>
    BY <1>2, <1>3
  <2>2. QED
    BY <2>1 DEF DataInv, NothingLost, OutputsDelivered, Running
<1>8. QED
  BY <1>4, <1>5, <1>6, <1>7 DEF DataInv

\* The loop starts its next operator: what it kept is what the operator may read.
LEMMA StartKeepsData ==
  ASSUME InvokeInv, ControlInv', DataInv, Running, UNCHANGED model, StartNode
  PROVE  DataInv'
<1>1. /\ DOMAIN frames = 1..Len(frames) /\ Len(frames) \in Nat \ {0} /\ Top = frames[Len(frames)]
      /\ ControlInv /\ frames \in Seq(FrameRecord) /\ Top \in FrameRecord /\ Top.node \in Nat
      /\ currentOp = Top.node /\ Top.step = "loop" /\ UNCHANGED <<memory, status, invokes>>
  BY TopFacts DEF InvokeInv, Top, ControlInv, ControlTypes, LoopCounts, StartNode
<1>2. PICK n \in Nat \ {0} : n = Len(frames)
  BY <1>1
<1>3. /\ DOMAIN frames' = 1..n /\ Len(frames') = n
      /\ \A i \in 1..n : i # n => frames'[i] = frames[i]
      /\ frames'[n].graph = Top.graph /\ frames'[n].node = Top.node + 1 /\ frames'[n].step = "eval"
  BY <1>1, <1>2 DEF StartNode, FrameRecord
<1>4. Running' /\ Top' = frames'[n] /\ \A i \in 1..n : frames'[i].graph = frames[i].graph
  <2>1. frames' # <<>> /\ Top' = frames'[n]
    BY <1>2, <1>3 DEF Top
  <2>2. QED
    BY <1>1, <1>2, <1>3, <2>1 DEF Running
<1>5. DataStack'
  <2>1. ASSUME NEW i \in 1..n, NEW f, f = frames'[i]
        PROVE  /\ f.graph \in Reach(1)
               /\ f.step \in Calling => CalleeFits(f)
               /\ i < n => frames'[i + 1].graph = f.callee
               /\ \A j \in 1..n : i < j => frames'[j].graph \in Reach(f.callee)
    <3>1. CASE i = n
      <4>1. f.graph = Top.graph /\ f.step = "eval" /\ n \in DOMAIN frames
        BY <1>1, <1>2, <1>3, <2>1, <3>1
      <4>2. f.step \notin Calling /\ Top.graph \in Reach(1)
        BY <1>1, <1>2, <4>1 DEF Calling, DataInv, DataStack
      <4>3. QED
        BY <1>2, <3>1, <4>1, <4>2
    <3>2. CASE i # n
      <4>1. f = frames[i] /\ i + 1 \in 1..n
        BY <1>2, <1>3, <2>1, <3>2
      <4>2. QED
        BY <1>1, <1>2, <1>4, <2>1, <4>1 DEF DataInv, DataStack
    <3>3. QED
      BY <3>1, <3>2
  <2>2. QED
    BY <1>3, <2>1, DataStays DEF DataStack
<1>6. Below' \subseteq memory'.intact
  <2>1. Lower' = Lower
    <3>1. Lower = {frames[i] : i \in {i \in 1..n : i < n}} /\ Lower' = {frames'[i] : i \in {i \in 1..n : i < n}}
      BY <1>1, <1>2, <1>3, Zenon DEF Lower
    <3>2. \A i \in {i \in 1..n : i < n} : frames'[i] = frames[i]
      BY <1>2, <1>3
    <3>3. QED
      BY <3>1, <3>2, Zenon
  <2>2. QED
    BY <1>1, <2>1, DataStays DEF Below, DataInv
<1>7. Needed(Top)' \subseteq memory'.intact
  <2>1. PICK f : f = frames'[n]
    OBVIOUS
  <2>2. f.graph = Top.graph /\ f.node = Top.node + 1 /\ f.node - 1 = Top.node /\ f.step = "eval"
    BY <1>1, <1>3, <2>1
  <2>3. Needed(f)' = Kept(Top.graph, Top.node, Top.node + 1) \union Fresh(Top.graph, Top.node)
    BY <2>2, NeededCases
  <2>4. Needed(Top) = Kept(Top.graph, Top.node, Top.node + 1) \union Fresh(Top.graph, Top.node)
    BY <1>1, NeededCases
  <2>5. QED
    BY <1>1, <1>4, <2>1, <2>3, <2>4 DEF DataInv
<1>8. QED
  BY <1>1, <1>4, <1>5, <1>6, <1>7 DEF DataInv, NothingLost, OutputsDelivered, IsMemory

\* At its end a subgraph's outputs are intact.
LEMMA OutputsIntact ==
  ASSUME InvokeInv, DataInv, Running, Top.step = "loop", currentOp >= Len(Graph(Top.graph).ops)
  PROVE  Range(Graph(Top.graph).outputs) \subseteq memory.intact
<1>1. PICK g : g = Top.graph
  OBVIOUS
<1>2. PICK m : m = Len(Graph(g).ops)
  OBVIOUS
<1>3. /\ model \in Models /\ g \in DOMAIN model.graphs /\ Top.node = m /\ m \in Nat
  <2>1. /\ model \in Models /\ g \in DOMAIN model.graphs /\ currentOp = Top.node /\ Top.node \in Nat
        /\ Top.node <= m
    BY <1>1, <1>2, TopFacts DEF InvokeInv, ControlInv, ControlTypes, LoopCounts, NodesInRange, NodeFits, Top
  <2>2. QED
    BY <1>1, <1>2, <2>1, SubgraphFacts
<1>4. Kept(g, m, m + 1) \union Fresh(g, m) \subseteq memory.intact
  BY <1>1, <1>3, NeededCases DEF DataInv
<1>5. /\ Range(Graph(g).outputs) \subseteq Fixed \union Produced(g, m) \union Placed
      /\ Placed \intersect Range(Graph(g).outputs) \subseteq Fresh(g, m)
  BY <1>2, <1>3, PlacedFacts
<1>6. Range(Graph(g).outputs) \subseteq ReadFrom(g, m + 1)
  BY DEF ReadFrom
<1>7. Fixed \subseteq memory.intact
  BY DEF DataInv, Below
<1>8. QED
  BY <1>1, <1>4, <1>5, <1>6, <1>7 DEF Kept

\* InvokeSubgraph returns: the kernel below finds what it waited for, and the callee's outputs.
LEMMA ReturnKeepsData ==
  ASSUME InvokeInv, ControlInv', DataInv, Running, UNCHANGED model, ReturnFromSubgraph
  PROVE  DataInv'
<1>1. /\ DOMAIN frames = 1..Len(frames) /\ Len(frames) \in Nat \ {0} /\ Top = frames[Len(frames)]
      /\ ControlInv /\ frames \in Seq(FrameRecord) /\ UNCHANGED <<memory, invokes>>
      /\ status' = IF Top.step = "break" THEN "failed" ELSE "ok"
  BY TopFacts DEF InvokeInv, Top, ControlInv, ControlTypes, ReturnFromSubgraph
<1>2. PICK n \in Nat \ {0} : n = Len(frames)
  BY <1>1
<1>3. /\ DOMAIN frames' = 1..n - 1 /\ Len(frames') = n - 1
      /\ \A i \in 1..n - 1 : frames'[i] = frames[i] /\ i \in 1..n
  BY <1>1, <1>2 DEF ReturnFromSubgraph, Front
<1>4. status' = "ok" => Range(Graph(Top.graph).outputs) \subseteq memory.intact
  BY <1>1, OutputsIntact DEF ReturnFromSubgraph, Returning
<1>5. DataStack'
  <2>1. ASSUME NEW i \in 1..n - 1, NEW f, f = frames'[i]
        PROVE  /\ f.graph \in Reach(1)
               /\ f.step \in Calling => CalleeFits(f)
               /\ i < n - 1 => frames'[i + 1].graph = f.callee
               /\ \A j \in 1..n - 1 : i < j => frames'[j].graph \in Reach(f.callee)
    <3>1. f = frames[i] /\ i \in 1..n /\ i < n
      BY <1>2, <1>3, <2>1
    <3>2. i < n - 1 => i + 1 \in 1..n - 1
      BY <1>2
    <3>3. QED
      BY <1>1, <1>2, <1>3, <3>1, <3>2 DEF DataInv, DataStack
  <2>2. QED
    BY <1>3, <2>1, DataStays DEF DataStack
<1>6. Lower' \subseteq Lower
  <2>1. ASSUME NEW f, f \in Lower' PROVE f \in Lower
    <3>1. PICK i \in 1..n - 1 : f = frames'[i] /\ i < n - 1
      BY <1>3, <2>1 DEF Lower
    <3>2. f = frames[i] /\ i \in DOMAIN frames /\ i < Len(frames)
      BY <1>1, <1>2, <1>3, <3>1
    <3>3. QED
      BY <3>2 DEF Lower
  <2>2. QED
    BY <2>1
<1>7. Below' \subseteq memory'.intact
  BY <1>1, <1>6, DataStays DEF Below, DataInv
<1>8. Running' => Needed(Top)' \subseteq memory'.intact
  <2> SUFFICES ASSUME Running' PROVE Needed(Top)' \subseteq memory'.intact
    OBVIOUS
  <2>1. n # 1 /\ n - 1 \in 1..n - 1 /\ n \in 2..Len(frames)
    <3>1. n = 1 => DOMAIN frames' = {} /\ frames' = <<>>
      BY <1>2, <1>3 DEF ControlInv, ControlTypes
    <3>2. QED
      BY <1>2, <3>1 DEF Running
  <2>2. PICK f : f = frames[n - 1]
    OBVIOUS
  <2>3. Top' = f /\ f.step \in Calling /\ f \in Lower /\ f.callee = Top.graph
    <3>1. Top' = frames'[n - 1]
      BY <1>3 DEF Top
    <3>2. f.step \in Calling
      BY <1>1, <2>1, <2>2 DEF ControlInv, FramesLinked
    <3>3. n - 1 \in DOMAIN frames /\ n - 1 < Len(frames) /\ n - 1 + 1 = n
      BY <1>1, <1>2, <2>1
    <3>4. f \in Lower
      BY <2>2, <3>3 DEF Lower
    <3>5. frames[n - 1 + 1].graph = f.callee
      BY <2>2, <3>3 DEF DataInv, DataStack
    <3>6. QED
      BY <1>1, <1>2, <1>3, <2>1, <2>2, <3>1, <3>2, <3>3, <3>4, <3>5
  <2>4. Waiting(f) \subseteq memory.intact
    BY <2>3 DEF Below, DataInv
  <2>5. Needed(f)' = Waiting(f) \union (IF status' = "ok" THEN Range(Graph(f.callee).outputs) ELSE {})
    BY <2>3, NeededCases
  <2>6. QED
    BY <1>1, <1>4, <2>3, <2>4, <2>5
<1>9. OutputsDelivered'
  <2> SUFFICES ASSUME ~Running', status' = "ok" PROVE Range(Graph(1).outputs)' \subseteq memory'.intact
    BY DEF OutputsDelivered
  <2>1. n = 1
    BY <1>2, <1>3 DEF Running
  <2>2. Top.graph = 1
    BY <1>1, <1>2, <2>1 DEF InvokeInv, OnceInv, CallsOnStack
  <2>3. QED
    BY <1>1, <1>4, <2>2, DataStays
<1>10. QED
  BY <1>1, <1>5, <1>7, <1>8, <1>9 DEF DataInv, NothingLost, IsMemory

-----------------------------------------------------------------------------
\* The kernels.  What one of them reads, writes and leaves, in terms of its node.
LEMMA KernelData ==
  ASSUME InvokeInv, DataInv, NoOfflineVariables, Running, Top.step # "loop"
  PROVE  /\ Kept(Top.graph, Top.node - 1, Top.node + 1) \subseteq Kept(Top.graph, Top.node - 1, Top.node)
         /\ Kept(Top.graph, Top.node - 1, Top.node) \subseteq Alive(Top.graph, Top.node) \ Placed
         /\ Kept(Top.graph, Top.node, Top.node + 1)
              \subseteq Kept(Top.graph, Top.node - 1, Top.node + 1) \union Range(Node.outs)
         /\ Fresh(Top.graph, Top.node) = Range(Node.outs) \intersect Placed
         /\ Range(Node.ins) \union Range(Node.outs)
              \subseteq Alive(Top.graph, Top.node) \intersect Touched(Node)
         /\ Node.scratch \subseteq Touched(Node)
         /\ Node.kind # "plain" => Range(Node.outs) \intersect Placed = {}
         /\ Node.ins \in Seq(STRING) /\ Node.outs \in Seq(STRING)
         /\ IsMemory(memory) /\ Below \subseteq memory.intact
         /\ Top.step = "eval" => Kept(Top.graph, Top.node - 1, Top.node + 1) \subseteq memory.intact
         /\ Top.step \in Calling => Kept(Top.graph, Top.node - 1, Top.node + 1) \subseteq memory.intact
         /\ Top.step \in Looping => Range(Node.outs) \subseteq memory.intact
         /\ Top.step \in Calling /\ status = "ok" => Range(Graph(Top.callee).outputs) \subseteq memory.intact
<1>1. /\ model \in Models /\ Top.graph \in DOMAIN model.graphs /\ Top.node \in DOMAIN Graph(Top.graph).ops
      /\ NodeOf(Top) = Node /\ Node = Graph(Top.graph).ops[Top.node] /\ Node \in Operators
      /\ Top.step \in Calling => CalleeFits(Top)
  BY KernelFacts DEF DataInv
<1>2. Top.step \in Looping => Node.kind = "WHILE" /\ Top.step \in Calling
  BY <1>1 DEF CalleeFits, Looping, Calling
<1>3. /\ Kept(Top.graph, Top.node - 1, Top.node + 1) \subseteq Kept(Top.graph, Top.node - 1, Top.node)
      /\ Kept(Top.graph, Top.node - 1, Top.node) \subseteq Alive(Top.graph, Top.node)
      /\ Kept(Top.graph, Top.node, Top.node + 1)
           \subseteq Kept(Top.graph, Top.node - 1, Top.node + 1) \union (Range(Node.outs) \ Placed)
      /\ Range(Node.outs) \subseteq Alive(Top.graph, Top.node)
      /\ Node.kind # "plain" => Range(Node.outs) \intersect Placed = {}
  BY <1>1, <1>2, WaitingAlive
<1>4. Kept(Top.graph, Top.node - 1, Top.node) \intersect Placed = {}
  BY DEF Kept
<1>5. Fresh(Top.graph, Top.node) = Range(Node.outs) \intersect Placed
  BY <1>1, SubgraphFacts DEF Fresh
<1>6. /\ Range(Node.ins) \subseteq Alive(Top.graph, Top.node)
      /\ Range(Node.ins) \union Range(Node.outs) \union Node.scratch \subseteq Touched(Node)
  BY <1>1 DEF Alive, Touched, UsedBy
<1>7. Node.ins \in Seq(STRING) /\ Node.outs \in Seq(STRING)
  BY <1>1 DEF Operators
<1>8. IsMemory(memory) /\ Below \subseteq memory.intact /\ Needed(Top) \subseteq memory.intact
  BY DEF DataInv
<1>9. Top.step = "eval" => Kept(Top.graph, Top.node - 1, Top.node) \subseteq memory.intact
  BY <1>8, NeededCases
<1>10. Top.step \in Calling => /\ Waiting(Top) \subseteq memory.intact
                               /\ status = "ok" => Range(Graph(Top.callee).outputs) \subseteq memory.intact
  BY <1>8, NeededCases
<1>11. /\ Kept(Top.graph, Top.node - 1, Top.node + 1) \subseteq Waiting(Top)
       /\ Top.step \in Looping => Range(Node.outs) \subseteq Waiting(Top)
  BY <1>1 DEF Waiting
<1>12. QED
  BY <1>2, <1>3, <1>4, <1>5, <1>6, <1>7, <1>8, <1>9, <1>10, <1>11

\* A copy into the outputs of a control-flow node leaves alone all that running it touches.
LEMMA CopyOut ==
  ASSUME InvokeInv, DataInv, NoOfflineVariables, Running, Top.step # "loop", Node.kind # "plain",
         NEW mem, NEW from \in Seq(STRING), Len(from) = Len(Node.outs),
         Range(from) \subseteq mem.intact \intersect Touched(Node),
         NEW K, K \subseteq mem.intact,
         K \subseteq Below \union Alive(Top.graph, Top.node) \union Touched(Node)
  PROVE  LET m == Copying(mem, from, Node.outs) IN
         /\ IsMemory(m) /\ m.lost = mem.lost
         /\ K \subseteq m.intact /\ Range(from) \subseteq m.intact /\ Range(Node.outs) \subseteq m.intact
<1>1. /\ Range(Node.outs) \subseteq Alive(Top.graph, Top.node) \intersect Touched(Node)
      /\ Range(Node.outs) \intersect Placed = {} /\ Node.outs \in Seq(STRING)
  BY KernelData
<1>2. ASSUME NEW w \in Range(Node.outs), NEW k \in K \union Range(from) \union Range(Node.outs)
      PROVE  ~MayShare(w, k)
  <2>1. w \in Alive(Top.graph, Top.node) /\ w \in Touched(Node) /\ w \notin Placed
    BY <1>1
  <2>2. CASE k \in Below
    BY <2>1, <2>2, WriteApart DEF DataInv
  <2>3. CASE k \in Alive(Top.graph, Top.node)
    BY <2>1, <2>3, WriteApart DEF DataInv
  <2>4. CASE k \in Touched(Node)
    BY <2>1, <2>4, WriteApart DEF DataInv
  <2>5. QED
    BY <1>1, <2>2, <2>3, <2>4
<1>3. QED
  BY <1>1, <1>2, CopyingFacts

\* A copy into a callee's inputs leaves alone what the node reads, writes and leaves for later.
LEMMA CopyIn ==
  ASSUME InvokeInv, DataInv, NoOfflineVariables, Running, Top.step # "loop",
         NEW c \in Range(Node.callees), NEW mem, NEW from \in Seq(STRING),
         Len(from) = Len(Graph(c).inputs),
         Range(from) \subseteq mem.intact \intersect Alive(Top.graph, Top.node),
         NEW K, K \subseteq mem.intact, K \subseteq Below \union Alive(Top.graph, Top.node)
  PROVE  LET m == Copying(mem, from, Graph(c).inputs) IN
         /\ IsMemory(m) /\ m.lost = mem.lost
         /\ K \subseteq m.intact /\ Range(from) \subseteq m.intact /\ Range(Graph(c).inputs) \subseteq m.intact
<1>1. /\ c \in DOMAIN model.graphs /\ Spanned(c) /\ Graph(c).inputs \in Seq(STRING) /\ model \in Models
      /\ Range(Graph(c).inputs) \subseteq Touched(Node) /\ Range(Graph(c).inputs) \intersect Placed = {}
  BY CalleeFacts, KernelFacts DEF DataInv
<1>2. ASSUME NEW w \in Range(Graph(c).inputs), NEW k \in K \union Range(from) \union Range(Graph(c).inputs)
      PROVE  ~MayShare(w, k)
  <2>1. w \in Touched(Node) /\ w \notin Placed
    BY <1>1
  <2>2. CASE k \in Below
    BY <2>1, <2>2, WriteApart DEF DataInv
  <2>3. CASE k \in Alive(Top.graph, Top.node)
    BY <2>1, <2>3, WriteApart DEF DataInv
  <2>4. CASE k \in Range(Graph(c).inputs)
    BY <1>1, <2>4, InputsApart
  <2>5. QED
    BY <2>2, <2>3, <2>4
<1>3. QED
  BY <1>1, <1>2, CopyingFacts

LEMMA PlainKeepsData ==
  ASSUME InvokeInv, ControlInv', DataInv, NoOfflineVariables, Running, UNCHANGED model,
         NEW result \in {"ok", "failed"}, EvalPlain(result)
  PROVE  DataInv'
<1> DEFINE ins == Range(Node.ins)
           outs == Range(Node.outs)
           W == outs \union Node.scratch \union (ins \intersect model.variables)
           K == Below \union ins \union Kept(Top.graph, Top.node - 1, Top.node) \union outs
           mem == Writing(memory, W)
           next == IF result = "ok" THEN "loop" ELSE "break"
<1>1. /\ Top.step = "eval" /\ Top.step # "loop" /\ KernelReturns(result)
      /\ memory' = Reading(mem, ins)
  <2>1. Top.step = "eval" /\ Top.step # "loop" /\ KernelReturns(result)
    BY DEF EvalPlain
  <2>2. Resolve(Node.ins) = Node.ins /\ Resolve(Node.outs) = Node.outs
    BY <2>1, KernelFacts DEF DataInv
  <2>3. QED
    BY <2>1, <2>2 DEF EvalPlain
<1>2. Turned(next)
  BY <1>1, KernelReturnKeepsControl DEF InvokeInv
<1>3. /\ model \in Models /\ Top.graph \in DOMAIN model.graphs /\ Top.node \in DOMAIN Graph(Top.graph).ops
      /\ Node = Graph(Top.graph).ops[Top.node]
  BY <1>1, KernelFacts DEF DataInv
<1>4. /\ ins \union outs \subseteq Alive(Top.graph, Top.node) \intersect Touched(Node)
      /\ Node.scratch \subseteq Touched(Node)
      /\ Fresh(Top.graph, Top.node) = outs \intersect Placed
      /\ Kept(Top.graph, Top.node - 1, Top.node) \subseteq Alive(Top.graph, Top.node) \ Placed
      /\ Kept(Top.graph, Top.node, Top.node + 1) \subseteq Kept(Top.graph, Top.node - 1, Top.node) \union outs
      /\ IsMemory(memory) /\ Below \subseteq memory.intact
  BY <1>1, KernelData
<1>5. /\ ins \subseteq memory.intact /\ Kept(Top.graph, Top.node - 1, Top.node) \subseteq memory.intact
      /\ ins \intersect Placed # {} => Fresh(Top.graph, Top.node) = {}
  BY <1>1, InputsIntact
<1>6. Node.scratch \intersect Placed = {} /\ model.variables \intersect Placed = {}
  BY <1>3, PlacedFacts, FlowAssumption DEF FlowAssumption, Placed
<1>7. \A a, b \in Fresh(Top.graph, Top.node) : ~MayShare(a, b)
  BY <1>3, PlacedFacts DEF MayShare
<1>8. ASSUME NEW w \in W, NEW k \in K PROVE ~MayShare(w, k)
  <2>1. w \in Touched(Node) /\ (w \in Placed => w \in Fresh(Top.graph, Top.node))
    BY <1>4, <1>6
  <2>2. CASE k \in Below
    BY <1>1, <2>1, <2>2, WriteApart DEF DataInv
  <2>3. CASE k \notin Below
    <3>1. k \in Alive(Top.graph, Top.node)
      BY <1>4, <2>3
    <3>2. CASE k \notin Placed \/ w \notin Placed
      BY <1>1, <2>1, <3>1, <3>2, WriteApart DEF DataInv
    <3>3. CASE k \in Placed /\ w \in Placed
      <4>1. w \in Fresh(Top.graph, Top.node)
        BY <2>1, <3>3
      <4>2. k \in outs
        BY <1>4, <1>5, <2>3, <3>3, <4>1
      <4>3. QED
        BY <1>4, <1>7, <3>3, <4>1, <4>2
    <3>4. QED
      BY <3>2, <3>3
  <2>4. QED
    BY <2>2, <2>3
<1>9. K \subseteq memory.intact \union W
  BY <1>4, <1>5
<1>10. ins \subseteq K /\ Below \subseteq K
       /\ Kept(Top.graph, Top.node, Top.node + 1) \union Fresh(Top.graph, Top.node) \subseteq K
  BY <1>4
<1> HIDE DEF W, K, ins, outs, next
<1>11. IsMemory(mem) /\ mem.lost = memory.lost /\ K \subseteq mem.intact
  BY <1>4, <1>8, <1>9, WritingFacts
<1> HIDE DEF mem
<1>12. IsMemory(memory)' /\ memory'.lost = memory.lost /\ K \subseteq memory'.intact
  <2>1. ins \subseteq mem.intact
    BY <1>10, <1>11
  <2>2. IsMemory(Reading(mem, ins)) /\ Reading(mem, ins).intact = mem.intact /\ Reading(mem, ins).lost = mem.lost
    BY <1>11, <2>1, ReadingFacts
  <2>3. QED
    BY <1>1, <1>11, <2>2 DEF IsMemory
<1>13. next \in {"loop", "break"}
  BY DEF next
<1>14. QED
  BY <1>1, <1>2, <1>10, <1>12, <1>13, TurnedKeepsData

\* The shapes that the Prepare functions and Eval check, read off the node on top.
LEMMA NodeShape ==
  ASSUME InvokeInv, DataInv, NoOfflineVariables, Running, Top.step # "loop"
  PROVE  /\ Node.kind = "IF" => /\ Node.ins # <<>> /\ Len(Node.ins) >= 1
                               /\ \A c \in Range(Node.callees) :
                                    /\ Len(Graph(c).inputs) = Len(Node.ins) - 1
                                    /\ Len(Graph(c).outputs) = Len(Node.outs)
         /\ Node.kind = "WHILE" => /\ Cond \in Range(Node.callees) /\ Body \in Range(Node.callees)
                                  /\ Len(Graph(Cond).inputs) = Len(Node.ins)
                                  /\ Len(Graph(Body).inputs) = Len(Node.ins)
                                  /\ Len(Node.outs) = Len(Node.ins)
                                  /\ Len(Graph(Body).outputs) = Len(Node.outs)
                                  /\ Len(Graph(Cond).outputs) >= 1
         /\ Node.kind = "CALL_ONCE" => /\ Node.callees[1] \in Range(Node.callees)
                                      /\ Node.outs = <<>>
                                      /\ Len(Graph(Node.callees[1]).inputs) = 0
<1>1. /\ model \in Models /\ Node \in Operators /\ Node = Graph(Top.graph).ops[Top.node]
      /\ Top.graph \in DOMAIN model.graphs /\ Top.node \in DOMAIN Graph(Top.graph).ops
      /\ TensorsFit(model, Node)
  BY KernelFacts DEF DataInv
<1>2. WellFormed(model, Node)
  BY <1>1, ModelAssumption DEF ModelAssumption, Graph
<1>3. Node.callees \in Seq(Nat) /\ Node.ins \in Seq(STRING)
  BY <1>1 DEF Operators
<1>4. CASE Node.kind = "IF"
  <2>1. Len(Node.callees) = 2
    BY <1>2, <1>4 DEF WellFormed
  <2>2. DOMAIN Node.callees = 1..2
    BY <1>3, <2>1
  <2>3. Len(Node.ins) >= 1 /\ Node.ins # <<>>
    BY SMTT(30), <1>1, <1>3, <1>4 DEF TensorsFit
  <2>4. ASSUME NEW i \in 1..2
        PROVE  /\ Len(Graph(Node.callees[i]).inputs) = Len(Node.ins) - 1
               /\ Len(Graph(Node.callees[i]).outputs) = Len(Node.outs)
    BY <1>1, <1>4 DEF TensorsFit, Graph
  <2>5. ASSUME NEW c \in Range(Node.callees)
        PROVE  Len(Graph(c).inputs) = Len(Node.ins) - 1 /\ Len(Graph(c).outputs) = Len(Node.outs)
    <3>1. PICK i \in 1..2 : c = Node.callees[i]
      BY <2>2 DEF Range
    <3>2. QED
      BY <2>4, <3>1
  <2>6. Node.kind # "WHILE" /\ Node.kind # "CALL_ONCE"
    BY <1>4
  <2>7. QED
    BY <2>3, <2>5, <2>6, Zenon
<1>5. CASE Node.kind = "WHILE"
  <2>1. Len(Node.callees) = 2
    BY <1>2, <1>5 DEF WellFormed
  <2>2. Cond \in Range(Node.callees) /\ Body \in Range(Node.callees)
    BY <1>3, <2>1 DEF Cond, Body, Range
  <2>3. QED
    BY <1>1, <1>5, <2>2 DEF TensorsFit, Graph, Cond, Body
<1>6. CASE Node.kind = "CALL_ONCE"
  <2>1. Len(Node.callees) = 1
    BY <1>2, <1>6 DEF WellFormed
  <2>2. Node.callees[1] \in Range(Node.callees)
    BY <1>3, <2>1 DEF Range
  <2>3. QED
    BY <1>1, <1>6, <2>2 DEF TensorsFit, Graph
<1>7. QED
  BY <1>4, <1>5, <1>6

LEMMA IfCallKeepsData ==
  ASSUME InvokeInv, ControlInv', DataInv, NoOfflineVariables, Running, UNCHANGED model,
         NEW branch, EvalIf(branch)
  PROVE  DataInv'
<1> DEFINE K == Below \union Kept(Top.graph, Top.node - 1, Top.node + 1)
           mem == Reading(memory, {Head(Node.ins)})
<1>1. /\ Top.step = "eval" /\ Top.step # "loop" /\ Node.kind = "IF" /\ branch \in Range(Node.callees)
      /\ CallSubgraph(branch, "branch", 0) /\ UNCHANGED status
  BY DEF EvalIf
<1>2. memory' = Copying(mem, Tail(Node.ins), Graph(branch).inputs)
  <2>1. Resolve(Node.ins) = Node.ins
    BY <1>1, KernelFacts DEF DataInv
  <2>2. QED
    BY <2>1 DEF EvalIf
<1>3. Called(branch, "branch")
  <2>1. branch \in DOMAIN model.graphs
    BY <1>1, CalleeFacts DEF DataInv
  <2>2. 0 \in 0..MaxIterations /\ "branch" \in Calling /\ "branch" \notin Looping
    BY InvokeAssumption DEF InvokeAssumption, Calling, Looping
  <2>3. QED
    BY <1>1, <2>1, <2>2, CallKeepsControl DEF InvokeInv
<1>4. /\ Node.ins \in Seq(STRING) /\ Range(Node.ins) \subseteq Alive(Top.graph, Top.node)
      /\ Kept(Top.graph, Top.node - 1, Top.node + 1) \subseteq Alive(Top.graph, Top.node)
      /\ K \subseteq memory.intact /\ IsMemory(memory)
  BY <1>1, KernelData
<1>5. Node.ins # <<>> /\ Len(Node.ins) >= 1 /\ Len(Graph(branch).inputs) = Len(Node.ins) - 1
  BY <1>1, NodeShape
<1>6. /\ Tail(Node.ins) \in Seq(STRING) /\ Len(Tail(Node.ins)) = Len(Node.ins) - 1
      /\ Range(Tail(Node.ins)) \subseteq Range(Node.ins) /\ Head(Node.ins) \in Range(Node.ins)
  <2>1. PICK q \in Seq(STRING) : q = Node.ins
    BY <1>4
  <2>5. Len(q) \in Nat \ {0} /\ DOMAIN q = 1..Len(q) /\ q # <<>>
    BY <1>5, <2>1
  <2>6. Tail(q) \in Seq(STRING) /\ Len(Tail(q)) = Len(q) - 1 /\ Head(q) = q[1]
    BY <2>5
  <2>7. \A i \in 1..Len(q) - 1 : Tail(q)[i] = q[i + 1]
    BY <2>5
  <2>2. /\ Tail(q) \in Seq(STRING) /\ Len(Tail(q)) = Len(q) - 1 /\ Head(q) = q[1] /\ 1 \in DOMAIN q
        /\ \A i \in 1..Len(q) - 1 : Tail(q)[i] = q[i + 1] /\ i + 1 \in DOMAIN q
    BY <2>5, <2>6, <2>7
  <2>3. Range(Tail(q)) \subseteq Range(q)
    BY <2>2 DEF Range
  <2>4. QED
    BY <2>1, <2>2, <2>3 DEF Range
<1>7. Range(Node.ins) \subseteq memory.intact
  BY <1>1, InputsIntact
<1>8. IsMemory(mem) /\ mem.intact = memory.intact /\ mem.lost = memory.lost
  BY <1>4, <1>6, <1>7, ReadingFacts
<1>9. K \subseteq Below \union Alive(Top.graph, Top.node)
  BY <1>4
<1> HIDE DEF mem, K
<1>10. /\ IsMemory(memory') /\ memory'.lost = mem.lost /\ K \subseteq memory'.intact
       /\ Range(Graph(branch).inputs) \subseteq memory'.intact
  <2>1. K \subseteq mem.intact /\ Range(Tail(Node.ins)) \subseteq mem.intact \intersect Alive(Top.graph, Top.node)
        /\ Len(Tail(Node.ins)) = Len(Graph(branch).inputs)
    BY <1>4, <1>5, <1>6, <1>7, <1>8
  <2>2. QED
    BY <1>1, <1>2, <1>6, <1>9, <2>1, CopyIn
<1>11. \A f : f.graph = Top.graph /\ f.node = Top.node /\ f.callee = branch /\ f.step = "branch"
              => CalleeFits(f)
  BY <1>1 DEF CalleeFits, NodeOf, Node, Looping
<1>12. IsMemory(memory)'
  BY <1>10 DEF IsMemory
<1>13. "branch" \in Calling /\ "branch" \notin Looping
  BY DEF Calling, Looping
<1>14. QED
  BY <1>1, <1>3, <1>8, <1>10, <1>11, <1>12, <1>13, CalledKeepsData DEF K

LEMMA IfReturnKeepsData ==
  ASSUME InvokeInv, ControlInv', DataInv, NoOfflineVariables, Running, UNCHANGED model, IfReturns
  PROVE  DataInv'
<1> DEFINE K == Below \union Kept(Top.graph, Top.node - 1, Top.node + 1)
<1>1. /\ Top.step = "branch" /\ Top.step # "loop" /\ Top.step \in Calling /\ status = "ok"
      /\ KernelReturns("ok")
  BY DEF IfReturns, Calling
<1>2. /\ CalleeFits(Top) /\ NodeOf(Top) = Node /\ Resolve(Node.outs) = Node.outs
  BY <1>1, KernelFacts DEF DataInv
<1>3. Node.kind = "IF" /\ Node.kind # "plain" /\ Top.callee \in Range(Node.callees)
  BY <1>1, <1>2 DEF CalleeFits
<1>4. memory' = Copying(memory, Graph(Top.callee).outputs, Node.outs)
  BY <1>2 DEF IfReturns
<1>5. Turned("loop")
  BY <1>1, KernelReturnKeepsControl DEF InvokeInv
<1>6. /\ K \subseteq memory.intact /\ K \subseteq Below \union Alive(Top.graph, Top.node)
      /\ Range(Graph(Top.callee).outputs) \subseteq memory.intact
      /\ Kept(Top.graph, Top.node, Top.node + 1) \union Fresh(Top.graph, Top.node) \subseteq K \union Range(Node.outs)
  BY <1>1, <1>3, KernelData
<1>7. /\ Graph(Top.callee).outputs \in Seq(STRING) /\ Range(Graph(Top.callee).outputs) \subseteq Touched(Node)
      /\ Len(Graph(Top.callee).outputs) = Len(Node.outs)
  BY <1>1, <1>3, CalleeFacts, NodeShape DEF DataInv
<1> HIDE DEF K
<1>8. IsMemory(memory') /\ memory'.lost = memory.lost /\ K \union Range(Node.outs) \subseteq memory'.intact
  BY <1>1, <1>3, <1>4, <1>6, <1>7, CopyOut
<1>9. IsMemory(memory)'
  BY <1>8 DEF IsMemory
<1>10. Below \subseteq memory'.intact
  BY <1>8 DEF K
<1>11. QED
  BY <1>1, <1>5, <1>6, <1>8, <1>9, <1>10, TurnedKeepsData

\* WHILE enters its condition with the inputs copied, and to its outputs too.
LEMMA WhileCallKeepsData ==
  ASSUME InvokeInv, ControlInv', DataInv, NoOfflineVariables, Running, UNCHANGED model, EvalWhile
  PROVE  DataInv'
<1> DEFINE K == Below \union Kept(Top.graph, Top.node - 1, Top.node + 1)
           mem == Copying(memory, Node.ins, Graph(Cond).inputs)
<1>1. /\ Top.step = "eval" /\ Top.step # "loop" /\ Node.kind = "WHILE" /\ Node.kind # "plain"
      /\ CallSubgraph(Cond, "cond", 0) /\ UNCHANGED status
  BY DEF EvalWhile
<1>2. memory' = Copying(mem, Node.ins, Node.outs)
  <2>1. Resolve(Node.ins) = Node.ins /\ Resolve(Node.outs) = Node.outs
    BY <1>1, KernelFacts DEF DataInv
  <2>2. QED
    BY <2>1 DEF EvalWhile
<1>3. /\ Cond \in Range(Node.callees) /\ Len(Graph(Cond).inputs) = Len(Node.ins)
      /\ Len(Node.outs) = Len(Node.ins)
  BY <1>1, NodeShape
<1>4. Cond \in DOMAIN model.graphs /\ Range(Graph(Cond).inputs) \subseteq Touched(Node)
  BY <1>1, <1>3, CalleeFacts DEF DataInv
<1>5. Called(Cond, "cond")
  <2>1. 0 \in 0..MaxIterations /\ "cond" \in Calling
    BY InvokeAssumption DEF InvokeAssumption, Calling
  <2>2. QED
    BY <1>1, <1>4, <2>1, CallKeepsControl DEF InvokeInv
<1>6. /\ Node.ins \in Seq(STRING) /\ Range(Node.ins) \subseteq Alive(Top.graph, Top.node)
      /\ Range(Node.ins) \subseteq Touched(Node)
      /\ K \subseteq Below \union Alive(Top.graph, Top.node) /\ K \subseteq memory.intact
  BY <1>1, KernelData
<1>7. Range(Node.ins) \subseteq memory.intact
  BY <1>1, InputsIntact
<1> HIDE DEF K
<1>8. /\ mem.lost = memory.lost /\ K \subseteq mem.intact /\ Range(Node.ins) \subseteq mem.intact
      /\ Range(Graph(Cond).inputs) \subseteq mem.intact
  BY <1>1, <1>3, <1>6, <1>7, CopyIn
<1> HIDE DEF mem
<1>9. PICK L : L = K \union Range(Graph(Cond).inputs)
  OBVIOUS
<1>10. /\ IsMemory(memory') /\ memory'.lost = mem.lost /\ L \subseteq memory'.intact
       /\ Range(Node.outs) \subseteq memory'.intact
  <2>1. /\ L \subseteq mem.intact /\ L \subseteq Below \union Alive(Top.graph, Top.node) \union Touched(Node)
        /\ Range(Node.ins) \subseteq mem.intact \intersect Touched(Node)
    BY <1>4, <1>6, <1>8, <1>9
  <2>2. QED
    BY <1>1, <1>2, <1>3, <1>6, <2>1, CopyOut
<1>11. \A f : f.graph = Top.graph /\ f.node = Top.node /\ f.callee = Cond /\ f.step = "cond"
              => CalleeFits(f)
  BY <1>1, <1>3 DEF CalleeFits, NodeOf, Node, Cond
<1>12. IsMemory(memory)' /\ "cond" \in Calling
  BY <1>10 DEF IsMemory, Calling
<1>13. Below \subseteq memory'.intact /\ Kept(Top.graph, Top.node - 1, Top.node + 1) \subseteq memory'.intact
       /\ Range(Graph(Cond).inputs) \subseteq memory'.intact
  BY <1>9, <1>10 DEF K
<1>14. QED
  BY <1>1, <1>3, <1>5, <1>8, <1>10, <1>11, <1>12, <1>13, CalledKeepsData

\* The condition said yes: the loop's values go from the outputs to the body.
LEMMA TurnKeepsData ==
  ASSUME InvokeInv, ControlInv', DataInv, NoOfflineVariables, Running, UNCHANGED model, WhileTurns
  PROVE  DataInv'
<1> DEFINE K == Below \union Kept(Top.graph, Top.node - 1, Top.node + 1) \union Range(Node.outs)
           mem == CondValue(memory)
<1>1. /\ Top.step = "cond" /\ Top.step # "loop" /\ Top.step \in Calling /\ Top.step \in Looping
      /\ status = "ok" /\ CallSubgraph(Body, "body", Top.turns + 1) /\ UNCHANGED status
      /\ Top.turns < MaxIterations
  BY DEF WhileTurns, Calling, Looping
<1>2. CalleeFits(Top) /\ NodeOf(Top) = Node /\ Resolve(Node.outs) = Node.outs /\ Top \in FrameRecord
  BY <1>1, KernelFacts DEF DataInv
<1>3. Node.kind = "WHILE" /\ Top.callee = Cond
  BY <1>1, <1>2 DEF CalleeFits, Cond
<1>4. memory' = Copying(mem, Node.outs, Graph(Body).inputs)
  BY <1>2 DEF WhileTurns
<1>5. /\ Cond \in Range(Node.callees) /\ Body \in Range(Node.callees)
      /\ Len(Graph(Body).inputs) = Len(Node.outs) /\ Len(Graph(Cond).outputs) >= 1
  BY <1>1, <1>3, NodeShape
<1>6. Body \in DOMAIN model.graphs /\ Graph(Cond).outputs \in Seq(STRING)
  BY <1>1, <1>5, CalleeFacts DEF DataInv
<1>7. Called(Body, "body")
  <2>1. Top.turns + 1 \in 0..MaxIterations /\ "body" \in Calling
    BY <1>1, <1>2, InvokeAssumption DEF InvokeAssumption, Calling, FrameRecord
  <2>2. QED
    BY <1>1, <1>3, <1>6, <2>1, CallKeepsControl DEF InvokeInv
<1>8. /\ Node.outs \in Seq(STRING) /\ Range(Node.outs) \subseteq Alive(Top.graph, Top.node)
      /\ K \subseteq Below \union Alive(Top.graph, Top.node) /\ K \subseteq memory.intact
      /\ IsMemory(memory) /\ Range(Graph(Cond).outputs) \subseteq memory.intact
  BY <1>1, <1>3, KernelData
<1>9. mem.intact = memory.intact /\ mem.lost = memory.lost
  <2>1. Head(Graph(Cond).outputs) \in Range(Graph(Cond).outputs)
    BY <1>5, <1>6 DEF Range
  <2>2. QED
    BY <1>8, <2>1, ReadingFacts DEF CondValue
<1>10. Range(Node.outs) \subseteq K
  OBVIOUS
<1> HIDE DEF K, mem
<1>11. /\ IsMemory(memory') /\ memory'.lost = mem.lost /\ K \subseteq memory'.intact
       /\ Range(Graph(Body).inputs) \subseteq memory'.intact
  <2>1. K \subseteq mem.intact /\ Range(Node.outs) \subseteq mem.intact \intersect Alive(Top.graph, Top.node)
    BY <1>8, <1>9, <1>10
  <2>2. QED
    BY <1>1, <1>4, <1>5, <1>8, <2>1, CopyIn
<1>12. \A f : f.graph = Top.graph /\ f.node = Top.node /\ f.callee = Body /\ f.step = "body"
              => CalleeFits(f)
  BY <1>3, <1>5 DEF CalleeFits, NodeOf, Node, Body
<1>13. IsMemory(memory)' /\ "body" \in Calling
  BY <1>11 DEF IsMemory, Calling
<1>14. Below \subseteq memory'.intact /\ Kept(Top.graph, Top.node - 1, Top.node + 1) \subseteq memory'.intact
  BY <1>11 DEF K
<1>15. QED
  BY <1>1, <1>5, <1>7, <1>9, <1>10, <1>11, <1>12, <1>13, <1>14, CalledKeepsData

\* The body's results become the loop's values, and the condition runs on them.
LEMMA BodyReturnKeepsData ==
  ASSUME InvokeInv, ControlInv', DataInv, NoOfflineVariables, Running, UNCHANGED model, BodyReturns
  PROVE  DataInv'
<1> DEFINE K == Below \union Kept(Top.graph, Top.node - 1, Top.node + 1)
           mem == Copying(memory, Graph(Body).outputs, Node.outs)
<1>1. /\ Top.step = "body" /\ Top.step # "loop" /\ Top.step \in Calling /\ Top.step \in Looping
      /\ status = "ok" /\ CallSubgraph(Cond, "cond", Top.turns) /\ UNCHANGED status
  BY DEF BodyReturns, Calling, Looping
<1>2. CalleeFits(Top) /\ NodeOf(Top) = Node /\ Resolve(Node.outs) = Node.outs /\ Top \in FrameRecord
  BY <1>1, KernelFacts DEF DataInv
<1>3. Node.kind = "WHILE" /\ Node.kind # "plain" /\ Top.callee = Body
  BY <1>1, <1>2 DEF CalleeFits, Body
<1>4. memory' = Copying(mem, Node.outs, Graph(Cond).inputs)
  BY <1>2 DEF BodyReturns
<1>5. /\ Cond \in Range(Node.callees) /\ Body \in Range(Node.callees)
      /\ Len(Graph(Cond).inputs) = Len(Node.outs) /\ Len(Graph(Body).outputs) = Len(Node.outs)
  BY <1>1, <1>3, NodeShape
<1>6. /\ Cond \in DOMAIN model.graphs /\ Graph(Body).outputs \in Seq(STRING)
      /\ Range(Graph(Body).outputs) \subseteq Touched(Node)
  BY <1>1, <1>5, CalleeFacts DEF DataInv
<1>7. Called(Cond, "cond")
  <2>1. Top.turns \in 0..MaxIterations /\ "cond" \in Calling
    BY <1>2 DEF Calling, FrameRecord
  <2>2. QED
    BY <1>1, <1>3, <1>6, <2>1, CallKeepsControl DEF InvokeInv
<1>8. /\ Node.outs \in Seq(STRING) /\ Range(Node.outs) \subseteq Alive(Top.graph, Top.node)
      /\ K \subseteq Below \union Alive(Top.graph, Top.node) /\ K \subseteq memory.intact
      /\ Range(Graph(Body).outputs) \subseteq memory.intact
  BY <1>1, <1>3, KernelData
<1> HIDE DEF K
<1>9. mem.lost = memory.lost /\ K \union Range(Node.outs) \subseteq mem.intact
  BY <1>1, <1>3, <1>5, <1>6, <1>8, CopyOut
<1> HIDE DEF mem
<1>10. PICK L : L = K \union Range(Node.outs)
  OBVIOUS
<1>11. /\ IsMemory(memory') /\ memory'.lost = mem.lost /\ L \subseteq memory'.intact
       /\ Range(Graph(Cond).inputs) \subseteq memory'.intact
  <2>1. /\ L \subseteq mem.intact /\ L \subseteq Below \union Alive(Top.graph, Top.node)
        /\ Range(Node.outs) \subseteq mem.intact \intersect Alive(Top.graph, Top.node)
    BY <1>8, <1>9, <1>10
  <2>2. QED
    BY <1>1, <1>4, <1>5, <1>8, <2>1, CopyIn
<1>12. \A f : f.graph = Top.graph /\ f.node = Top.node /\ f.callee = Cond /\ f.step = "cond"
              => CalleeFits(f)
  BY <1>3, <1>5 DEF CalleeFits, NodeOf, Node, Cond
<1>13. IsMemory(memory)' /\ "cond" \in Calling
  BY <1>11 DEF IsMemory, Calling
<1>14. Below \subseteq memory'.intact /\ Kept(Top.graph, Top.node - 1, Top.node + 1) \subseteq memory'.intact
       /\ Range(Node.outs) \subseteq memory'.intact
  BY <1>10, <1>11 DEF K
<1>15. QED
  BY <1>1, <1>5, <1>7, <1>9, <1>11, <1>12, <1>13, <1>14, CalledKeepsData

LEMMA WhileEndKeepsData ==
  ASSUME InvokeInv, ControlInv', DataInv, NoOfflineVariables, Running, UNCHANGED model, WhileEnds
  PROVE  DataInv'
<1>1. /\ Top.step = "cond" /\ Top.step # "loop" /\ Top.step \in Calling /\ Top.step \in Looping
      /\ status = "ok" /\ KernelReturns("ok") /\ memory' = CondValue(memory)
  BY DEF WhileEnds, Calling, Looping
<1>2. CalleeFits(Top) /\ NodeOf(Top) = Node
  BY <1>1, KernelFacts DEF DataInv
<1>3. Node.kind = "WHILE" /\ Node.kind # "plain" /\ Top.callee = Cond
  BY <1>1, <1>2 DEF CalleeFits, Cond
<1>4. Cond \in Range(Node.callees) /\ Len(Graph(Cond).outputs) >= 1
  BY <1>1, <1>3, NodeShape
<1>5. Graph(Cond).outputs \in Seq(STRING)
  BY <1>1, <1>4, CalleeFacts DEF DataInv
<1>6. Turned("loop")
  BY <1>1, KernelReturnKeepsControl DEF InvokeInv
<1>7. /\ Kept(Top.graph, Top.node, Top.node + 1) \union Fresh(Top.graph, Top.node) \subseteq memory.intact
      /\ IsMemory(memory) /\ Below \subseteq memory.intact
      /\ Range(Graph(Cond).outputs) \subseteq memory.intact
  BY <1>1, <1>3, KernelData
<1>8. IsMemory(memory') /\ memory'.intact = memory.intact /\ memory'.lost = memory.lost
  <2>1. Head(Graph(Cond).outputs) \in Range(Graph(Cond).outputs)
    BY <1>4, <1>5 DEF Range
  <2>2. QED
    BY <1>1, <1>7, <2>1, ReadingFacts DEF CondValue
<1>9. IsMemory(memory)'
  BY <1>8 DEF IsMemory
<1>10. QED
  BY <1>1, <1>6, <1>7, <1>8, <1>9, TurnedKeepsData

\* CALL_ONCE moves no data: its init subgraph has no inputs, and it has no outputs.
LEMMA OnceKeepsData ==
  ASSUME InvokeInv, ControlInv', DataInv, NoOfflineVariables, Running, UNCHANGED model,
         EvalCallOnce \/ CallOnceReturns
  PROVE  DataInv'
<1>1. /\ Top.step \in {"eval", "once"} /\ Top.step # "loop" /\ UNCHANGED memory
      /\ Top.step # "eval" => Top.step \in Calling
  BY DEF EvalCallOnce, CallOnceReturns, Calling
<1>2. Node.kind = "CALL_ONCE" /\ Node.kind # "plain"
  <2>1. Top.step = "once" => Node.kind = "CALL_ONCE"
    BY KernelFacts DEF DataInv, CalleeFits, Calling
  <2>2. QED
    BY <2>1 DEF EvalCallOnce, CallOnceReturns
<1>3. /\ Node.callees[1] \in Range(Node.callees) /\ Node.outs = <<>>
      /\ Len(Graph(Node.callees[1]).inputs) = 0
  BY <1>1, <1>2, NodeShape
<1>4. Range(Node.outs) = {}
  BY <1>3 DEF Range
<1>5. Node.callees[1] \in DOMAIN model.graphs /\ Range(Graph(Node.callees[1]).inputs) = {}
  <2>1. Node.callees[1] \in DOMAIN model.graphs /\ Graph(Node.callees[1]).inputs \in Seq(STRING)
    BY <1>1, <1>3, CalleeFacts DEF DataInv
  <2>2. QED
    BY <1>3, <2>1 DEF Range
<1>6. /\ Kept(Top.graph, Top.node - 1, Top.node + 1) \subseteq memory.intact
      /\ Kept(Top.graph, Top.node, Top.node + 1) \union Fresh(Top.graph, Top.node) \subseteq memory.intact
      /\ IsMemory(memory) /\ Below \subseteq memory.intact
  BY <1>1, <1>4, KernelData
<1>7. IsMemory(memory)'
  BY <1>1, <1>6 DEF IsMemory
<1>8. CASE KernelReturns("ok")
  <2>1. Turned("loop")
    BY <1>1, <1>8, KernelReturnKeepsControl DEF InvokeInv
  <2>2. QED
    BY <1>1, <1>6, <1>7, <2>1, TurnedKeepsData
<1>9. CASE CallSubgraph(Node.callees[1], "once", 0) /\ UNCHANGED status /\ Top.step = "eval"
  <2>1. Called(Node.callees[1], "once")
    <3>1. 0 \in 0..MaxIterations /\ "once" \in Calling /\ "once" \notin Looping
      BY InvokeAssumption DEF InvokeAssumption, Calling, Looping
    <3>2. QED
      BY <1>5, <1>9, <3>1, CallKeepsControl DEF InvokeInv
  <2>2. \A f : f.graph = Top.graph /\ f.node = Top.node /\ f.callee = Node.callees[1] /\ f.step = "once"
               => CalleeFits(f)
    BY <1>2, <1>3 DEF CalleeFits, NodeOf, Node, Looping
  <2>3. "once" \in Calling /\ "once" \notin Looping
    BY DEF Calling, Looping
  <2>4. QED
    BY <1>1, <1>3, <1>5, <1>6, <1>7, <2>1, <2>2, <2>3, CalledKeepsData
<1>10. QED
  BY <1>8, <1>9 DEF EvalCallOnce, CallOnceReturns

LEMMA FailureKeepsData ==
  ASSUME InvokeInv, ControlInv', DataInv, NoOfflineVariables, Running, UNCHANGED model, CalleeFailed
  PROVE  DataInv'
<1>1. /\ Top.step \in Calling /\ Top.step # "loop" /\ UNCHANGED memory /\ KernelReturns("failed")
  BY DEF CalleeFailed, Calling
<1>2. Turned("break")
  BY <1>1, KernelReturnKeepsControl DEF InvokeInv
<1>3. IsMemory(memory)' /\ Below \subseteq memory'.intact
  BY <1>1 DEF DataInv, IsMemory
<1>4. QED
  BY <1>1, <1>2, <1>3, TurnedKeepsData

-----------------------------------------------------------------------------
\* The application's calls.
LEMMA NothingBelow ==
  ASSUME ~Running
  PROVE  Below = Fixed
<1>1. DOMAIN frames = {}
  BY DEF Running
<1>2. QED
  BY <1>1 DEF Below, Lower

LEMMA InvokeKeepsData ==
  ASSUME InvokeInv, DataInv, NoOfflineVariables, UNCHANGED model, Invoke
  PROVE  DataInv'
<1> DEFINE I == Range(Graph(1).inputs)
<1>1. /\ Marked /\ ~Running /\ memory' = Writing(memory, I) /\ frames' = <<Frame(1)>>
      /\ Frame(1).graph = 1 /\ Frame(1).node = 0 /\ Frame(1).step = "loop"
  BY DEF Invoke, Frame
<1> HIDE DEF Frame
<1>2. /\ DOMAIN frames' = {1} /\ Len(frames') = 1 /\ Running' /\ Top' = frames'[1]
      /\ frames'[1].graph = 1 /\ frames'[1].node = 0 /\ frames'[1].step = "loop"
  BY <1>1 DEF Running, Top
<1>3. model \in Models /\ 1 \in DOMAIN model.graphs /\ 1 \in Reach(1) /\ Spanned(1)
  <2>1. model \in Models /\ 1 \in DOMAIN model.graphs
    BY ModelFacts DEF InvokeInv, ControlInv, ControlTypes
  <2>2. 1 \in Reach(1)
    BY <2>1, ReachSelf
  <2>3. QED
    BY <1>1, <2>1, <2>2, WalkedSpans DEF InvokeInv, MarkedSpans
<1>4. Fixed \subseteq memory.intact
  BY DEF DataInv, Below
<1>5. \A w \in I : \A k \in Fixed \union I : ~MayShare(w, k)
  BY <1>3, FixedApart, InputsApart
<1> HIDE DEF I
<1>6. PICK K : K = Fixed \union I
  OBVIOUS
<1>7. IsMemory(memory') /\ memory'.lost = memory.lost /\ K \subseteq memory'.intact
  <2>1. IsMemory(memory) /\ K \subseteq memory.intact \union I
    BY <1>4, <1>6 DEF DataInv
  <2>2. QED
    BY <1>1, <1>5, <1>6, <2>1, WritingFacts
<1>8. DataStack'
  <2>1. ASSUME NEW f, f = frames'[1] PROVE f.graph \in Reach(1) /\ f.step \notin Calling
    BY <1>2, <1>3, <2>1 DEF Calling
  <2>2. QED
    BY <1>2, <2>1, DataStays DEF DataStack
<1>9. Below' \subseteq memory'.intact
  <2>1. Lower' = {}
    BY <1>2 DEF Lower
  <2>2. QED
    BY <1>6, <1>7, <2>1, DataStays DEF Below
<1>10. Needed(Top)' \subseteq memory'.intact
  <2>1. PICK f : f = frames'[1]
    OBVIOUS
  <2>2. Needed(f)' = Kept(1, 0, 1) \union Fresh(1, 0)
    BY <1>2, <2>1, NeededCases
  <2>3. Kept(1, 0, 1) \union Fresh(1, 0) \subseteq I
    BY DEF Kept, Produced, Fresh, I
  <2>4. QED
    BY <1>2, <1>6, <1>7, <2>1, <2>2, <2>3
<1>11. IsMemory(memory)' /\ NothingLost' /\ OutputsDelivered'
  BY <1>2, <1>7 DEF IsMemory, DataInv, NothingLost, OutputsDelivered
<1>12. QED
  BY <1>8, <1>9, <1>10, <1>11 DEF DataInv

LEMMA ResetKeepsData ==
  ASSUME InvokeInv, DataInv, NoOfflineVariables, UNCHANGED model, Reset
  PROVE  DataInv'
<1>1. /\ ~Running /\ UNCHANGED <<frames, status, invokes>> /\ model \in Models
      /\ memory' = Writing(memory, model.variables)
  BY DEF Reset, InvokeInv, ControlInv, ControlTypes
<1>2. \A w \in model.variables : \A k \in Fixed \union memory.intact : ~MayShare(w, k)
  BY <1>1, FixedApart DEF Fixed
<1>3. PICK K : K = Fixed \union memory.intact
  OBVIOUS
<1>4. Fixed \subseteq memory.intact /\ IsMemory(memory)
  BY DEF DataInv, Below
<1>5. IsMemory(memory') /\ memory'.lost = memory.lost /\ K \subseteq memory'.intact
  BY <1>1, <1>2, <1>3, <1>4, WritingFacts
<1>6. ~Running' /\ Lower' = {} /\ DOMAIN frames' = {}
  BY <1>1 DEF Running, Lower
<1>7. Below' \subseteq memory'.intact
  BY <1>3, <1>5, <1>6, DataStays DEF Below
<1>8. OutputsDelivered'
  BY <1>1, <1>3, <1>5, DataStays DEF DataInv, OutputsDelivered, Running
<1>9. IsMemory(memory)' /\ NothingLost' /\ DataStack'
  BY <1>5, <1>6 DEF IsMemory, DataInv, NothingLost, DataStack
<1>10. QED
  BY <1>6, <1>7, <1>8, <1>9 DEF DataInv

LEMMA IdleKeepsData ==
  ASSUME DataInv, UNCHANGED <<model, frames, memory, status, invokes>>
  PROVE  DataInv'
<1>1. UNCHANGED model /\ UNCHANGED <<frames, memory, status, invokes>>
  OBVIOUS
<1>2. (Running' <=> Running) /\ Top' = Top /\ Lower' = Lower
  BY <1>1 DEF Running, Top, Lower
<1>3. Below' = Below
  BY <1>1, <1>2, DataStays DEF Below
<1>4. \A f : Needed(f)' = Needed(f)
  BY <1>1, DataStays DEF Needed
<1>5. DataStack'
  BY <1>1, DataStays DEF DataStack, DataInv
<1>6. Needed(Top)' = Needed(Top)
  <2>1. PICK f : f = Top
    OBVIOUS
  <2>2. QED
    BY <1>2, <1>4, <2>1
<1>7. IsMemory(memory)' /\ NothingLost' /\ OutputsDelivered'
  BY <1>1, <1>2, DataStays DEF DataInv, IsMemory, NothingLost, OutputsDelivered
<1>8. QED
  BY <1>1, <1>2, <1>3, <1>5, <1>6, <1>7 DEF DataInv

LEMMA InitData == ASSUME InvokeInit PROVE DataInv
<1>1. /\ frames = <<>> /\ invokes = 0
      /\ memory = [intact |-> model.constants \union model.variables, lost |-> {}]
  BY DEF InvokeInit
<1>2. ~Running /\ DOMAIN frames = {}
  BY <1>1 DEF Running
<1>3. Below \subseteq memory.intact
  BY <1>1, <1>2, NothingBelow DEF Fixed
<1>4. QED
  BY <1>1, <1>2, <1>3 DEF DataInv, IsMemory, NothingLost, OutputsDelivered, DataStack

-----------------------------------------------------------------------------
LEMMA ExecuteKeepsData ==
  ASSUME InvokeInv, InvokeInv', DataInv, NoOfflineVariables, Execute
  PROVE  DataInv'
<1>1. Running /\ UNCHANGED model /\ ControlInv'
  BY DEF Execute, lifetimeVars, InvokeInv
<1>2. CASE StartNode
  BY <1>1, <1>2, StartKeepsData
<1>3. CASE ReturnFromSubgraph
  BY <1>1, <1>3, ReturnKeepsData
<1>4. ASSUME NEW result \in {"ok", "failed"}, EvalPlain(result) PROVE DataInv'
  BY <1>1, <1>4, PlainKeepsData
<1>5. ASSUME NEW g \in DOMAIN model.graphs, EvalIf(g) PROVE DataInv'
  BY <1>1, <1>5, IfCallKeepsData
<1>6. CASE IfReturns
  BY <1>1, <1>6, IfReturnKeepsData
<1>7. CASE EvalWhile
  BY <1>1, <1>7, WhileCallKeepsData
<1>8. CASE WhileTurns
  BY <1>1, <1>8, TurnKeepsData
<1>9. CASE BodyReturns
  BY <1>1, <1>9, BodyReturnKeepsData
<1>10. CASE WhileEnds
  BY <1>1, <1>10, WhileEndKeepsData
<1>11. CASE EvalCallOnce \/ CallOnceReturns
  BY <1>1, <1>11, OnceKeepsData
<1>12. CASE CalleeFailed
  BY <1>1, <1>12, FailureKeepsData
<1>13. QED
  BY <1>2, <1>3, <1>4, <1>5, <1>6, <1>7, <1>8, <1>9, <1>10, <1>11, <1>12 DEF Execute

LEMMA NextKeepsData ==
  ASSUME InvokeInv, DataInv, NoOfflineVariables, [Next]_vars
  PROVE  DataInv'
<1>1. InvokeInv'
  BY NextKeepsOnce
<1>2. CASE Plan \/ UNCHANGED vars
  <2>1. UNCHANGED <<model, frames, memory, status, invokes>>
    BY <1>2 DEF Plan, MarkLifetimes, BeginOp, EnterSubgraph, EndOp, LeaveSubgraph, vars, lifetimeVars, invokeVars
  <2>2. QED
    BY <2>1, IdleKeepsData
<1>3. CASE Invoke /\ UNCHANGED lifetimeVars
  BY <1>3, InvokeKeepsData DEF lifetimeVars
<1>4. CASE Reset /\ UNCHANGED lifetimeVars
  BY <1>4, ResetKeepsData DEF lifetimeVars
<1>5. CASE Execute
  BY <1>1, <1>5, ExecuteKeepsData
<1>6. QED
  BY <1>2, <1>3, <1>4, <1>5 DEF Next, Application

\* No kernel, copy loop or condition reads a buffer whose bytes the plan has given to another:
\* through every nesting and sharing of subgraphs, every branch, any number of loop turns and of
\* invocations, and every failure half-way.
THEOREM NothingLostAlways == ASSUME NoOfflineVariables PROVE Spec => []NothingLost
<1>1. InvokeInit => InvokeInv /\ DataInv
  BY InitKeepsOnce, InitData
<1>2. InvokeInv /\ DataInv /\ [Next]_vars => (InvokeInv /\ DataInv)'
  BY NextKeepsOnce, NextKeepsData
<1>3. DataInv => NothingLost
  BY DEF DataInv
<1>4. QED
  BY <1>1, <1>2, <1>3, PTL DEF Spec

\* After an Invoke that succeeds the application finds every output as it was written.
THEOREM OutputsDeliveredAlways == ASSUME NoOfflineVariables PROVE Spec => []OutputsDelivered
<1>1. InvokeInit => InvokeInv /\ DataInv
  BY InitKeepsOnce, InitData
<1>2. InvokeInv /\ DataInv /\ [Next]_vars => (InvokeInv /\ DataInv)'
  BY NextKeepsOnce, NextKeepsData
<1>3. DataInv => OutputsDelivered
  BY DEF DataInv
<1>4. QED
  BY <1>1, <1>2, <1>3, PTL DEF Spec
=============================================================================
