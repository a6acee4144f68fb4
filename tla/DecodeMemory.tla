---------------------------- MODULE DecodeMemory ----------------------------
(***************************************************************************)
(* Compressed tensors: how compression/decode_insert.py puts DECODE        *)
(* operators into a subgraph, and where the Prepare of kernels/decode.cc   *)
(* places what they decode: in alternate memory the application has set    *)
(* aside, or, where that is full, in the plan like any other tensor.       *)
(* Subgraphs and operators are the records of AllocationLifetimes.         *)
(***************************************************************************)
EXTENDS MemoryHelpers, SequencesExt, FiniteSetsExt, TLC

Plain(ins, outs, scratch) ==
  [kind |-> "plain", ins |-> ins, outs |-> outs, callees |-> <<>>, scratch |-> scratch]

\* The name of what the DECODE before operator n makes of tensor w.
Decoded(w, n) == w \o "@" \o ToString(n)

Among(compressed, tensors) == SelectSeq(compressed, LAMBDA w : w \in Range(tensors))

Rewired(tensors, compressed, n) ==
  [i \in DOMAIN tensors |-> IF tensors[i] \in Range(compressed) THEN Decoded(tensors[i], n)
                            ELSE tensors[i]]

BuildDecode(infos, n) == Plain(infos, [i \in DOMAIN infos |-> Decoded(infos[i], n)], {})

\* insert_decode_operators on one subgraph: a DECODE of its own before each consumer, for all
\* the compressed tensors it reads, and one at the end for those among the outputs.
InsertDecodes(graph, compressed) ==
  LET end == Len(graph.ops) + 1
      Decodes(infos, n) == IF infos = <<>> THEN <<>> ELSE <<BuildDecode(infos, n)>>
      Consumer(n) == LET op == graph.ops[n] IN
        Decodes(Among(compressed, op.ins), n) \o <<[op EXCEPT !.ins = Rewired(@, compressed, n)]>>
  IN  [graph EXCEPT
        !.outputs = Rewired(@, compressed, end),
        !.ops = FlattenSeq([n \in DOMAIN @ |-> Consumer(n)])
                  \o Decodes(Among(compressed, graph.outputs), end)]

-----------------------------------------------------------------------------
\* What AllocateDecompressionMemory finds in region i: the aligned start, and the end of what
\* it takes, padding included, as an offset.
StartIn(region, allocated, alignment) == AlignPointerUp(region.address + allocated, alignment)

EndIn(region, allocated, bytes, alignment) ==
  StartIn(region, allocated, alignment) - region.address + bytes

\* One output of a DECODE in Prepare: the first region with room for it, or none.
AllocateDecompressionMemory(memory, regions, tensor, bytes, alignment) ==
  LET End(i) == EndIn(regions[i], memory.allocations[i], bytes, alignment)
      room == {i \in DOMAIN regions : End(i) <= regions[i].bytes}
      i == Min(room)
      start == StartIn(regions[i], memory.allocations[i], alignment)
  IN  IF room = {} THEN memory
      ELSE [allocations |-> [memory.allocations EXCEPT ![i] = End(i)],
            placed |-> memory.placed @@ (tensor :> start..(start + bytes - 1))]

\* Prepare of one DECODE: ResetDecompressionMemoryAllocations, then its outputs in order.
PrepareDecode(op, regions, sizes, alignment) ==
  FoldLeft(LAMBDA memory, i :
             AllocateDecompressionMemory(memory, regions, op.outs[i], sizes[op.ins[i]], alignment),
           [allocations |-> [i \in DOMAIN regions |-> 0], placed |-> [b \in {} |-> {}]],
           [i \in DOMAIN op.outs |-> i]).placed

\* The addresses of the tensors that PrepareSubgraphs places in alternate memory.
Alternates(graphs, compressed, regions, sizes, alignment) ==
  LET IsDecode(op) == op.outs # <<>> /\ op.ins # <<>> /\ Range(op.ins) \subseteq Range(compressed)
      decodes == UNION {{op \in Range(graphs[g].ops) : IsDecode(op)} : g \in DOMAIN graphs}
  IN  FoldSet(LAMBDA op, placed : placed @@ PrepareDecode(op, regions, sizes, alignment),
              [b \in {} |-> {}], decodes)
=============================================================================
