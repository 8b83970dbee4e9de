---------------------------- MODULE MCLogCollect ----------------------------
(***************************************************************************)
(* An instance of LogCollect alone: a log that grows between collections.  *)
(***************************************************************************)
EXTENDS LogCollect

OneNode == <<[name |-> "x", type |-> "xjst", index |-> 1]>>

PipesWritten == [l \in Logs |-> IF l[2] = "pipe" THEN 1 ELSE Missing]
=============================================================================
