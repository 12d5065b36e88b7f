---------------------------- MODULE MCPrimitives ----------------------------
(***************************************************************************)
(* Three threads: Resetter and another one make two calls, the third one.  *)
(***************************************************************************)
EXTENDS Primitives

Third == CHOOSE t \in Threads \ {Resetter} : TRUE

TwoTwoOne == [t \in Threads |-> IF t = Third THEN 1 ELSE 2]
=============================================================================
