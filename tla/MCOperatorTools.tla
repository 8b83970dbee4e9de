-------------------------- MODULE MCOperatorTools --------------------------
(***************************************************************************)
(* An instance of the operator's tools for TLC.  They are separate         *)
(* processes without common state, so `session' says which of them is run. *)
(***************************************************************************)
EXTENDS CrossTxConfig, LogCollect, Shutdown, ChainHealth, GenAccMonitor

VARIABLE session

toolVars == <<configVars, collectVars, shutdownVars, healthVars, monitorVars, session>>

ToolsTypeOK ==
    ConfigTypeOK /\ CollectTypeOK /\ ShutdownTypeOK /\ HealthTypeOK /\ MonitorTypeOK

ToolsInit ==
    /\ session \in {"config", "collect", "shutdown", "health", "monitor"}
    /\ ConfigInit /\ CollectInit /\ ShutdownInit /\ MonitorInit
    /\ HealthInit /\ (session # "health" => head = [c \in Checked |-> 0])

ConfigTool ==
    /\ session = "config"
    /\ UNCHANGED <<collectVars, shutdownVars, healthVars, monitorVars, session>>

ToolsNext ==
    \/ ConfigTool /\ ConfigNext
    \/ /\ session = "collect" /\ CollectNext
       /\ UNCHANGED <<configVars, shutdownVars, healthVars, monitorVars, session>>
    \/ /\ session = "shutdown" /\ ShutdownNext
       /\ UNCHANGED <<configVars, collectVars, healthVars, monitorVars, session>>
    \/ /\ session = "health" /\ HealthNext
       /\ UNCHANGED <<configVars, collectVars, shutdownVars, monitorVars, session>>
    \/ /\ session = "monitor" /\ MonitorNext
       /\ UNCHANGED <<configVars, collectVars, shutdownVars, healthVars, session>>

\* Fair as FairConfigSpec.
ToolsSpec == ToolsInit /\ [][ToolsNext]_toolVars /\ WF_toolVars(ConfigTool /\ FetchStep)
----------------------------------------------------------------------------
Listing(name, type, index) == [name |-> name, type |-> type, index |-> index, ip |-> TRUE]

NamesOfServers == {"a", "b", "x", "y", "g"}

\* Three chains, of which xjst has two nodes; and a fleet with a generic machine.
ThreeChainsOrGeneric ==
    {<<Listing("a", "op", 1), Listing("b", "cdk", 1), Listing("x", "xjst", 1),
       Listing("y", "xjst", 2)>>,
     <<Listing("a", "op", 1), Listing("g", "generic", 0)>>}

\* Of two nodes of a group one collects.
TwoOfAGroup ==
    <<[name |-> "x", type |-> "xjst", index |-> 1], [name |-> "y", type |-> "xjst", index |-> 2]>>

\* Only the pipe logs exist at first.
PipesWritten == [l \in Logs |-> IF l[2] = "pipe" THEN 1 ELSE Missing]

AllPipes == {l \in Logs : l[2] = "pipe"}

\* A machine listed twice and an entry without address.
ThreeMachines == <<"a", "", "b", "a", "c">>

HealthServer(name, type, primary, ip) ==
    [name |-> name, type |-> type, primary |-> primary, ip |-> ip]

\* Two of four are checked.
TwoChecked ==
    {HealthServer("a", "op", TRUE, TRUE), HealthServer("x", "xjst", TRUE, TRUE),
     HealthServer("y", "xjst", FALSE, TRUE), HealthServer("z", "cdk", TRUE, FALSE)}
=============================================================================
