----------------------------- MODULE ModelFamily ----------------------------
(***************************************************************************)
(* Families of models to check.  The main subgraph runs a chain of three   *)
(* operators after a CALL_ONCE, each reading any earlier tensor; each is a *)
(* plain kernel with a scratch buffer and a variable tensor, an IF or a    *)
(* WHILE.  The subgraphs, from 2, are shared by all of them:               *)
(*   2 Double   a chain of two plain kernels, the first with scratch       *)
(*   3 Identity its output is its input, and it has no operator            *)
(*   4 Choose   a plain kernel, then an IF over Double and Identity        *)
(*   5 Test     a WHILE condition                                          *)
(*   6 Setup    what CALL_ONCE runs: a plain kernel without inputs         *)
(* With Loops, a seventh subgraph holds a WHILE over Test and Double.  In  *)
(* the decoding models, constants are compressed and read through DECODE.  *)
(***************************************************************************)
EXTENDS DecodeMemory

Control(kind, ins, outs, callees) ==
  [kind |-> kind, ins |-> ins, outs |-> outs, callees |-> callees, scratch |-> {}]
Subgraph(inputs, outputs, ops) == [inputs |-> inputs, outputs |-> outputs, ops |-> ops]

Double == Subgraph(<<"d0">>, <<"d2">>,
  <<Plain(<<"d0">>, <<"d1">>, {"dScratch"}), Plain(<<"d1">>, <<"d2">>, {})>>)
Identity == Subgraph(<<"e0">>, <<"e0">>, <<>>)
Choose == Subgraph(<<"c0">>, <<"c2">>,
  <<Plain(<<"c0">>, <<"c1">>, {}), Control("IF", <<"c1", "c0">>, <<"c2">>, <<2, 3>>)>>)
Test == Subgraph(<<"t0">>, <<"t1">>, <<Plain(<<"t0">>, <<"t1">>, {})>>)
Setup == Subgraph(<<>>, <<>>, <<Plain(<<>>, <<"s0">>, {"sScratch"})>>)
Loops == Subgraph(<<"l0">>, <<"l1">>, <<Control("WHILE", <<"l0">>, <<"l1">>, <<5, 2>>)>>)

Once == Control("CALL_ONCE", <<>>, <<>>, <<6>>)

\* The operators that may stand at one place of the chain.
Operator(a, out, scratch) ==
  {Plain(<<a, "v">>, <<out>>, scratch),
   Control("IF", <<"x", a>>, <<out>>, <<4, 2>>),
   Control("WHILE", <<a>>, <<out>>, <<5, 2>>),
   Control("WHILE", <<a>>, <<out>>, <<5, 4>>)}

Chains == {<<p, q, r>> :
  p \in Operator("y", "m1", {"m1Scratch"}),
  q \in UNION {Operator(a, "m2", {}) : a \in {"y", "m1"}},
  r \in UNION {Operator(a, "m3", {}) : a \in {"m1", "m2"}}}

ModelOf(main, graphs, offline) ==
  [graphs |-> <<main>> \o graphs, variables |-> {"v"}, constants |-> {}, offline |-> offline,
   alternate |-> [b \in {} |-> {}]]

\* What nothing reads is an output of the model.
Main(ops) ==
  LET read == UNION {Range(op.ins) : op \in Range(ops)}
      written == UNION {Range(op.outs) : op \in Range(ops)}
  IN  Subgraph(<<"x", "y">>, SetToSeq(written \ read), ops)
Library == <<Double, Identity, Choose, Test, Setup>>

\* Every subgraph is reached.
MCChainModels == {ModelOf(Main(<<Once>> \o chain), Library, {}) : chain \in Chains}

MCLoopModels == {
  ModelOf(Main(<<Once>> \o chain \o <<Control("WHILE", <<"m3">>, <<"m4">>, <<5, 7>>)>>),
          Library \o <<Loops>>, {}) :
    chain \in {<<Plain(<<"y", "v">>, <<"m3">>, {"m1Scratch"})>>,
               <<Control("IF", <<"x", "y">>, <<"m3">>, <<7, 4>>)>>}}

\* Compressed tensors: w1 and w2 of the main subgraph, both read by its first operator and w1
\* by others as well, as an output, and by a control-flow operator; dw by both operators of
\* Double, ew an output of Identity.
Compressed == <<"w1", "w2", "dw", "ew">>
CompressedSizes == [w1 |-> 5, w2 |-> 3, dw |-> 6, ew |-> 2]
Alignment == 4

DecodingChains == {<<p, q, r>> :
  p \in {Plain(<<"y", "w1", "w2">>, <<"m1">>, {"m1Scratch"})},
  q \in {Plain(<<"m1", "w1">>, <<"m2">>, {}),
         Control("IF", <<"x", "w1">>, <<"m2">>, <<4, 3>>),
         Control("WHILE", <<"w2">>, <<"m2">>, <<5, 2>>)},
  r \in {Plain(<<"m1", "m2", "w1">>, <<"m3">>, {}),
         Control("IF", <<"x", "m1">>, <<"m3">>, <<2, 3>>)}}

DecodingLibrary == <<
  Subgraph(<<"d0">>, <<"d2">>,
    <<Plain(<<"d0", "dw">>, <<"d1">>, {"dScratch"}), Plain(<<"d1", "dw">>, <<"d2">>, {})>>),
  Subgraph(<<"e0">>, <<"ew">>, <<>>), Choose, Test, Setup>>

\* The alternate regions of memory: none, one that is unaligned, two of which the first is small.
DecompressionRegions == {
  <<>>,
  <<[address |-> 3, bytes |-> 14]>>,
  <<[address |-> 1, bytes |-> 8], [address |-> 16, bytes |-> 6]>>}

MCDecodeModels ==
  LET main(chain, asOutput) ==
        [Main(chain) EXCEPT !.outputs = IF asOutput THEN @ \o <<"w2">> ELSE @]
      graphs(chain, asOutput) ==
        LET all == <<main(chain, asOutput)>> \o DecodingLibrary
        IN  [g \in DOMAIN all |-> InsertDecodes(all[g], Compressed)]
  IN  {[graphs |-> graphs(chain, asOutput), variables |-> {}, constants |-> Range(Compressed),
        offline |-> {},
        alternate |-> Alternates(graphs(chain, asOutput), Compressed, regions,
                                 CompressedSizes, Alignment)] :
         chain \in DecodingChains, asOutput \in BOOLEAN, regions \in DecompressionRegions}

\* Activations with offline offsets: beside planned ones, and two that the offline plan may
\* lay over each other.
MCOfflineModels == {
  ModelOf(Main(<<Plain(<<"y", "v">>, <<"m1">>, {}), Plain(<<"m1">>, <<"m2">>, {}),
                 Plain(<<"m2">>, <<"m3">>, {})>>), <<>>, offline) :
    offline \in {{"y"}, {"m1"}, {"m1", "m3"}}}

MCModels == MCChainModels \union MCLoopModels \union MCDecodeModels \union MCOfflineModels
=============================================================================
