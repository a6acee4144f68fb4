------------------------ MODULE MCResourceVariables ------------------------
(***************************************************************************)
(* ResourceVariables for models of three subgraphs: a main one that reads  *)
(* two variables, an initialisation (for CALL_ONCE) that assigns some of   *)
(* them, and a loop body that is passed the id of one.  The two variables  *)
(* differ in name, in container, or not at all; containers may be null.  A *)
(* third variable may be one too many for the table.                       *)
(***************************************************************************)
EXTENDS ResourceVariables

Variables ==
  {<<container, name>> : container \in {"c", "d"}, name \in {"v", "w"}}
  \union {<<NullContainer, "v">>, <<NullContainer, "w">>}

Op(op, subgraph, v) ==
  [op |-> op, subgraph |-> subgraph, container |-> v[1], name |-> v[2], passed |-> FALSE,
   zeroPoint |-> IF v[2] = "v" THEN 1 ELSE 2]

Passed(op) == [op EXCEPT !.passed = TRUE]

Program(x, y, where, bodyAssigns, third) ==
  <<Op("var_handle", 0, x), Op("var_handle", 0, y)>>
    \o (IF where = "main" THEN <<Op("assign", 0, y)>> ELSE <<>>)
    \o <<Op("read", 0, x), Op("read", 0, y),
         Op("var_handle", 1, x), Op("assign", 1, x)>>
    \o (IF where = "init" THEN <<Op("var_handle", 1, y), Op("assign", 1, y)>> ELSE <<>>)
    \o <<Passed(Op("read", 2, y))>>
    \o (IF bodyAssigns THEN <<Passed(Op("assign", 2, y))>> ELSE <<>>)
    \o (IF third THEN <<Op("var_handle", 2, <<x[1], "u">>)>> ELSE <<>>)

MCPrograms ==
  {Program(v[1], v[2], where, bodyAssigns, third) :
     v \in {v \in Variables \X Variables : (v[1][1] = NullContainer) = (v[2][1] = NullContainer)},
     where \in {"main", "init"}, bodyAssigns \in BOOLEAN,
     third \in BOOLEAN}
=============================================================================
