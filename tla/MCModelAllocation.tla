------------------------- MODULE MCModelAllocation --------------------------
(***************************************************************************)
(* Two interpreters in a small arena: enough to allocate both models when  *)
(* kernels ask for little, and to run out at every step when they do not.  *)
(***************************************************************************)
EXTENDS ModelAllocation, TLC

CONSTANTS one, two

MCKernelSizes == {2}

\* Two operators and a small plan or none; a variable tensor with a persistent buffer.
Small == [operators |-> 2, variable |-> <<<<FALSE, TRUE, FALSE>>>>,
          offline |-> <<FALSE, FALSE, FALSE>>, plans |-> {0, 3}]

\* One operator and a large plan; the variable tensor has an offline offset.
Large == [operators |-> 1, variable |-> <<<<FALSE, TRUE, FALSE>>>>,
          offline |-> <<FALSE, TRUE, FALSE>>, plans |-> {14}]
MCModelOf == one :> Small @@ two :> Large

\* Two subgraphs of one tensor; the plan places the first one's tensor, and the second
\* one's is a variable that is left to the interpreter.
TwoSubgraphs == [operators |-> 1, variable |-> <<<<FALSE>>, <<TRUE>>>>,
                 offline |-> <<TRUE, FALSE>>, plans |-> {3}]
MCOfflineModelOf == one :> TwoSubgraphs
=============================================================================
