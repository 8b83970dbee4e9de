-------------------------- MODULE MCServerAcquire --------------------------
(***************************************************************************)
(* An instance of ServerAcquire for TLC: four xjst nodes in groups of two, *)
(* a service without machines, one op chain and a machine with a remoteCmd. *)
(***************************************************************************)
EXTENDS ServerAcquire

Xjst == [type |-> "xjst", count |-> 4, funded |-> TRUE, custom |-> FALSE]
Op == [type |-> "op", count |-> 1, funded |-> TRUE, custom |-> FALSE]
Custom == [type |-> "generic", count |-> 1, funded |-> TRUE, custom |-> TRUE]
None == [type |-> "generic", count |-> 0, funded |-> TRUE, custom |-> FALSE]

GroupsChainAndOwn == <<Xjst, None, Op, Custom>>

At(type, ip) == [type |-> type, ip |-> ip]

\* No snapshot, one with machines to spare and one listed twice, and one with too few.
ImportedAndNone ==
    {<<>>,
     <<At("xjst", 1), At("xjst", 2), At("xjst", 3), At("xjst", 4), At("xjst", 5),
       At("op", 6), At("op", 7), At("op", 6), At("generic", 8)>>,
     <<At("op", 1), At("xjst", 2)>>}
=============================================================================
