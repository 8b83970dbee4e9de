----------------------------- MODULE ChainPlan -----------------------------
(***************************************************************************)
(* What the machines of a service are: chain IDs, XJST groups, and the L1  *)
(* vault of each, as fundAllL1Vaults and buildRemoteCommandForIndex derive *)
(* them from the position of a machine in its service, unless the service has a *)
(* remoteCmd of its own.                                                   *)
(***************************************************************************)
EXTENDS Integers, Sequences

CONSTANTS
    Services,   \* cfg.Services: a sequence of services
    GroupSize   \* machines of an XJST chain (4)

Types == {"op", "cdk", "xjst", "generic"}
\* custom: has a remoteCmd
Service == [type : Types, count : Nat, funded : BOOLEAN, custom : BOOLEAN]

\* ServiceConfig.CheckValid
ASSUME ServicesAssumption ==
    /\ GroupSize \in Nat \ {0}
    /\ Services \in Seq(Service)
    /\ \A s \in DOMAIN Services :
          Services[s].type = "xjst" => Services[s].count % GroupSize = 0

FirstChainID == 10000

\* resolveXjstGroupId, for 0-based positions; groups are numbered from 1.
GroupId(i) == i \div GroupSize + 1

\* resolveL2ChainID
L2ChainID(type, i) == IF type \in {"op", "cdk"} THEN FirstChainID + i ELSE 0

\* The index of the key of position i.
VaultIndex(type, i) == IF type = "xjst" THEN GroupId(i) ELSE L2ChainID(type, i)

\* resolveL1VaultPrivateKey: one key for each type and index (one random number per run).
VaultKey(type, index) == <<type, index>>

Positions(s) == 0..(Services[s].count - 1)

\* fundAllL1Vaults pays each chain once: an XJST group at its first position.
PaidPositions(s) ==
    {i \in Positions(s) : Services[s].type = "xjst" => i % GroupSize = 0}

\* Mutant of GroupIps: the group number is taken for a position.
GroupIpsSliding(ips, g) == SubSeq(ips, g, g + GroupSize - 1)

\* resolveXjstGroupIps
GroupIps(ips, g) == SubSeq(ips, (g - 1) * GroupSize + 1, (g - 1) * GroupSize + GroupSize)

NodeId(i) == (i % GroupSize) + 1

\* buildRemoteCommandForIndex has a command for position i of ips: the remoteCmd, or one of
\* the type, which a generic service has none of, and an XJST group outside ips.
HasCommand(s, ips, i) ==
    Services[s].custom \/
        /\ Services[s].type # "generic"
        /\ Services[s].type = "xjst" => GroupId(i) * GroupSize <= Len(ips)

\* buildRemoteCommandForIndex: what the script at position i of ips is told. A remoteCmd
\* is run as it is, whatever the type: it is told no vault, no number and no peers.
RemoteCommand(s, ips, i) ==
    IF Services[s].custom
    THEN [svc |-> s, ip |-> ips[i + 1], vault |-> <<>>, node |-> 0, peers |-> <<>>]
    ELSE [svc |-> s, ip |-> ips[i + 1],
          vault |-> VaultKey(Services[s].type,
                             IF Services[s].type = "xjst" THEN GroupId(i)
                             ELSE L2ChainID(Services[s].type, i)),
          node |-> NodeId(i),
          peers |-> IF Services[s].type = "xjst" THEN GroupIps(ips, GroupId(i)) ELSE <<>>]
============================================================================
