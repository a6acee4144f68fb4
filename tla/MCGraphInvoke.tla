--------------------------- MODULE MCGraphInvoke ----------------------------
(***************************************************************************)
(* GraphInvoke on the models of ModelFamily.                               *)
(***************************************************************************)
EXTENDS GraphInvoke, ModelFamily
=============================================================================
