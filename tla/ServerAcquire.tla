--------------------------- MODULE ServerAcquire ---------------------------
(***************************************************************************)
(* Deployer.Run up to the scripts: fund the vaults, then for each service  *)
(* acquire machines that answer ssh, and plan their scripts.  A round      *)
(* launches as many instances as are missing, in batches (RunInstances,    *)
(* with other instance types when capacity is short; Name tags one by one),*)
(* waits for them, reads their IPs, records them, and probes them with     *)
(* BatchRunner; or it takes the next IPs of an imported snapshot.          *)
(* A machine's IP is its number.                                           *)
(***************************************************************************)
EXTENDS VaultFunding, BatchRunner

CONSTANTS
    BatchSize,      \* maxRunInstancesBatchSize (50)
    InstanceTypes,  \* length of svc.InstanceType
    MaxRound,       \* defaultSSHAcquireMaxRound (1; the code allows more)
    Snapshots       \* servers_create.json given: a sequence, or <<>> to launch

ASSUME AcquireAssumption ==
    /\ BatchSize \in Nat \ {0} /\ InstanceTypes \in Nat \ {0} /\ MaxRound \in Nat \ {0}
    /\ Snapshots \subseteq Seq([type : Types, ip : Nat])

VARIABLES
    snapshot,  \* d.importedSnapshot
    stage,     \* what Run is doing
    svc,       \* the next service to get its machines
    round,     \* acquireSSHReadyIPsWithProvider's round
    ordinal,   \* nextCreateOrdinal, or nextIdx + 1 of the snapshot pool
    fleet,     \* the instances launched: fleet[m] is what runs at IP m
    asked,     \* instance types tried for the batch at work
    batch,     \* instances of the batch at work that are not tagged yet
    ids,       \* allIDs: instances of the round
    ips,       \* their public IPs, in the order of the answer
    result,    \* result[i]: the probe of ips[i]
    ready,     \* readyIPs
    answered,  \* machines whose probe succeeded
    created,   \* machines in servers_create.json
    got,       \* got[s]: the machines service s was given
    plans      \* the scripts planned

acquiring == <<snapshot, stage, svc, round, ordinal, fleet, asked, batch, ids, ips, result,
               ready, answered, created, got, plans>>
vars == <<fundingVars, runner, acquiring>>

Target(s) == Services[s].count
Reuse == snapshot # <<>>
Need == Target(svc) - Len(ready)

Machine == [svc : DOMAIN Services, tag : Nat, public : BOOLEAN]

TypeOK ==
    /\ FundingTypeOK /\ RunnerTypeOK
    /\ snapshot \in Snapshots
    /\ stage \in {"fund", "next", "round", "launch", "tag", "wait", "record", "probe", "done",
                  "failed"}
    /\ svc \in 1..(Len(Services) + 1) /\ round \in 0..MaxRound /\ ordinal \in Nat \ {0}
    /\ fleet \in Seq(Machine) /\ asked \in 0..InstanceTypes
    /\ batch \in Seq(DOMAIN fleet) /\ ids \in Seq(DOMAIN fleet)
    /\ ips \in Seq(Nat) /\ ready \in Seq(Nat) /\ result \in Seq({"none", "ok", "fail"})
    /\ created \subseteq DOMAIN fleet /\ answered \subseteq Nat
    /\ got \in [DOMAIN Services -> Seq(Nat)]
    /\ \A p \in plans : p.svc \in DOMAIN Services
----------------------------------------------------------------------------
Fail == stage' = "failed"

FundingStep ==
    /\ stage = "fund" /\ Funding
    /\ UNCHANGED <<runner, acquiring>>

Funded ==
    /\ stage = "fund" /\ funding \in {"done", "failed"}
    /\ stage' = IF funding = "done" THEN "next" ELSE "failed"
    /\ UNCHANGED <<fundingVars, runner, snapshot, svc, round, ordinal, fleet, asked, batch, ids,
                   ips, result, ready, created, got, plans, answered>>

\* snapshotIPPoolForService: the IPs of the type, once each, in the order of the strings.
Pool(type) == SetToSeq({c.ip : c \in {d \in Range(snapshot) : d.type = type}})

\* Run takes the next service that wants machines.
NextService ==
    /\ stage = "next"
    /\ \/ svc > Len(Services) /\ stage' = "done" /\ UNCHANGED <<svc, round, ordinal, ready>>
       \/ /\ svc <= Len(Services) /\ Target(svc) = 0
          /\ svc' = svc + 1 /\ UNCHANGED <<stage, round, ordinal, ready>>
       \/ /\ svc <= Len(Services) /\ Target(svc) > 0
          /\ stage' = IF Reuse /\ Len(Pool(Services[svc].type)) < Target(svc)
                      THEN "failed" ELSE "round"
          /\ round' = 0 /\ ordinal' = 1 /\ ready' = <<>>
          /\ UNCHANGED svc
    /\ UNCHANGED <<fundingVars, runner, snapshot, fleet, asked, batch, ids, ips, result, created,
                   got, plans, answered>>

\* readyIPs[:target]
Given == SubSeq(ready, 1, Target(svc))

\* preRegisterStatuses: a script is planned where there is a command and its record is
\* saved; an error if one is not.
PreRegister ==
    \E planned \in SUBSET {i \in Positions(svc) : HasCommand(svc, Given, i)} :
        /\ plans' = plans \cup {RemoteCommand(svc, Given, i) : i \in planned}
        /\ stage' = IF planned = Positions(svc) THEN "next" ELSE "failed"

\* The rounds are over: enough machines, or none left to try.
EndRounds ==
    /\ stage = "round" /\ (Need <= 0 \/ round = MaxRound)
    /\ \/ Need > 0 /\ Fail /\ UNCHANGED <<svc, got, plans>>
       \/ /\ Need <= 0
          /\ got' = [got EXCEPT ![svc] = Given] /\ svc' = svc + 1
          /\ PreRegister
    /\ UNCHANGED <<fundingVars, runner, snapshot, round, ordinal, fleet, asked, batch, ids, ips,
                   result, ready, created, answered>>

Probe(machines) ==
    /\ ips' = machines
    /\ result' = [i \in DOMAIN machines |-> "none"]
    /\ Begin(Len(machines))
    /\ stage' = "probe"

\* Mutant of AfterTaking: a round takes the same machines again.
AfterTakingAgain == ordinal

\* nextIdx += need
AfterTaking == ordinal + Need

\* A round, of new instances or of machines of the snapshot.
StartRound ==
    /\ stage = "round" /\ Need > 0 /\ round < MaxRound
    /\ round' = round + 1
    /\ LET machines == Pool(Services[svc].type) IN
        \/ /\ ~Reuse
           /\ stage' = "launch" /\ ids' = <<>> /\ asked' = 0
           /\ UNCHANGED <<ordinal, ips, result, runner>>
        \/ /\ Reuse /\ ordinal - 1 + Need > Len(machines)
           /\ Fail /\ UNCHANGED <<ordinal, ids, asked, ips, result, runner>>
        \/ /\ Reuse /\ ordinal - 1 + Need <= Len(machines)
           /\ Probe(SubSeq(machines, ordinal, ordinal + Need - 1))
           /\ ordinal' = AfterTaking
           /\ UNCHANGED <<ids, asked>>
    /\ UNCHANGED <<fundingVars, snapshot, svc, fleet, batch, ready, created, got, plans, answered>>

BatchCount == LET remaining == Need - Len(ids)
              IN IF remaining > BatchSize THEN BatchSize ELSE remaining

\* Instances that run with any names so far and may have no public IP.
Launched(n) ==
    \E public \in [1..n -> BOOLEAN] :
        /\ fleet' = fleet \o [i \in 1..n |-> [svc |-> svc, tag |-> 0, public |-> public[i]]]
        /\ batch' = [i \in 1..n |-> Len(fleet) + i]

\* RunInstances answers.
RunInstances ==
    /\ stage = "launch"
    /\ Launched(BatchCount)
    /\ stage' = "tag"
    /\ UNCHANGED <<fundingVars, runner, snapshot, svc, round, ordinal, asked, ids, ips, result,
                   ready, created, got, plans, answered>>

\* No capacity: the next instance type, if there is one.
NoCapacity ==
    /\ stage = "launch"
    /\ asked' = asked + 1
    /\ IF asked' = InstanceTypes THEN Fail ELSE UNCHANGED stage
    /\ UNCHANGED <<fundingVars, runner, snapshot, svc, round, ordinal, fleet, batch, ids, ips,
                   result, ready, created, got, plans, answered>>

\* Any other error, or too few instances; some may run.
RunInstancesFails ==
    /\ stage = "launch" /\ Fail
    /\ \E n \in {0, 1} : Launched(n)
    /\ UNCHANGED <<fundingVars, runner, snapshot, svc, round, ordinal, asked, ids, ips, result,
                   ready, created, got, plans, answered>>

\* Mutant of NextTag: every round counts from 1.
NextTagInRound == Len(ids) + 1

\* The ordinal of the next Name tag: startOrdinal + len(allIDs) + i.
NextTag == ordinal + Len(ids)

\* tagInstancesSequentially; the last tag ends the batch, the last batch the launch.
TagInstance ==
    /\ stage = "tag"
    /\ fleet' = [fleet EXCEPT ![Head(batch)].tag = NextTag]
    /\ ids' = Append(ids, Head(batch)) /\ batch' = Tail(batch)
    /\ \/ batch' # <<>> /\ UNCHANGED <<stage, ordinal, asked>>
       \/ /\ batch' = <<>> /\ Len(ids') < Need
          /\ stage' = "launch" /\ asked' = 0 /\ UNCHANGED ordinal
       \/ /\ batch' = <<>> /\ Len(ids') >= Need
          /\ stage' = "wait" /\ ordinal' = ordinal + Len(ids') /\ UNCHANGED asked
    /\ UNCHANGED <<fundingVars, runner, snapshot, svc, round, ips, result, ready, created, got,
                   plans, answered>>

\* All attempts at a tag fail, though one may have been applied.
TagFails ==
    /\ stage = "tag" /\ Fail
    /\ fleet' \in {fleet, [fleet EXCEPT ![Head(batch)].tag = NextTag]}
    /\ UNCHANGED <<fundingVars, runner, snapshot, svc, round, ordinal, asked, batch, ids, ips,
                   result, ready, answered, created, got, plans>>

\* WaitUntilInstanceRunning or DescribeInstances fails, or no instance has an IP.
WaitFails ==
    /\ stage = "wait" /\ Fail
    /\ UNCHANGED <<fundingVars, runner, snapshot, svc, round, ordinal, fleet, asked, batch, ids,
                   ips, result, ready, answered, created, got, plans>>

\* getInstancePublicIPs: those that have one, in any order.
PublicIPs ==
    /\ stage = "wait"
    /\ LET public == {m \in Range(ids) : fleet[m].public}
       IN  public # {} /\ ips' \in SetToSeqs(public)
    /\ stage' = "record"
    /\ UNCHANGED <<fundingVars, runner, snapshot, svc, round, ordinal, fleet, asked, batch, ids,
                   result, ready, created, got, plans, answered>>

\* AddCreatedServers, then the probes.
RecordCreated ==
    /\ stage = "record"
    /\ created' = created \cup Range(ips)
    /\ Probe(ips)
    /\ UNCHANGED <<fundingVars, snapshot, svc, round, ordinal, fleet, asked, batch, ids, ready,
                   got, plans, answered>>

RecordFails ==
    /\ stage = "record" /\ Fail
    /\ UNCHANGED <<fundingVars, runner, snapshot, svc, round, ordinal, fleet, asked, batch, ids,
                   ips, result, ready, created, got, plans, answered>>

StartProbe(i) ==
    /\ stage = "probe" /\ StartTask(i)
    /\ UNCHANGED <<fundingVars, acquiring>>

\* waitSSHReadyWithRetry answers.
EndProbe(i) ==
    /\ stage = "probe" /\ EndTask(i)
    /\ \E r \in {"ok", "fail"} :
        /\ result' = [result EXCEPT ![i] = r]
        /\ answered' = IF r = "ok" THEN answered \cup {ips[i]} ELSE answered
    /\ UNCHANGED <<fundingVars, snapshot, stage, svc, round, ordinal, fleet, asked, batch, ids,
                   ips, ready, created, got, plans>>

NextProbes ==
    /\ stage = "probe" /\ NextBatch
    /\ UNCHANGED <<fundingVars, acquiring>>

\* waitAllSSHReady returns those that answered, or an error if a result was not recorded.
ProbesDone ==
    /\ stage = "probe" /\ AllDone
    /\ \/ Fail /\ UNCHANGED ready
       \/ /\ stage' = "round"
          /\ ready' = ready \o FlattenSeq([i \in DOMAIN ips |->
                                  IF result[i] = "ok" THEN <<ips[i]>> ELSE <<>>])
    /\ Begin(0)
    /\ ips' = <<>> /\ result' = <<>>
    /\ UNCHANGED <<fundingVars, snapshot, svc, round, ordinal, fleet, asked, batch, ids, created,
                   got, plans, answered>>
----------------------------------------------------------------------------
Init ==
    /\ FundingInit /\ RunnerInit
    /\ snapshot \in Snapshots
    /\ stage = "fund" /\ svc = 1 /\ round = 0 /\ ordinal = 1
    /\ fleet = <<>> /\ asked = 0 /\ batch = <<>> /\ ids = <<>> /\ ips = <<>> /\ result = <<>>
    /\ ready = <<>> /\ created = {} /\ plans = {} /\ answered = {}
    /\ got = [s \in DOMAIN Services |-> <<>>]

Launching ==
    \/ RunInstances \/ NoCapacity \/ RunInstancesFails \/ TagInstance \/ TagFails \/ WaitFails
    \/ PublicIPs \/ RecordCreated \/ RecordFails

Probing == NextProbes \/ ProbesDone \/ \E i \in DOMAIN task : StartProbe(i) \/ EndProbe(i)

Step ==
    \/ FundingStep \/ Funded \/ NextService \/ StartRound \/ EndRounds \/ Launching \/ Probing

\* Run has returned.
Returned == stage \in {"done", "failed"} /\ UNCHANGED vars

Next == Step \/ Returned

Spec == Init /\ [][Next]_vars

\* The client runs, its calls return, and L1 mines and answers.
FairSpec == Spec /\ WF_vars(Step)
----------------------------------------------------------------------------
(* Properties *)

\* No instance is launched and no machine taken before every transfer has been mined,
\* although one receipt only is awaited, and the vault that a script of a funded service
\* is told is one that was paid (a remoteCmd is told none).
VaultsFunded ==
    stage \notin {"fund", "failed"} =>
        /\ Range(Targets) \subseteq mined
        /\ \A p \in plans :
              Services[p.svc].funded /\ ~Services[p.svc].custom => p.vault \in mined

\* When Run goes on, every service has exactly the machines it wants, once each, all of
\* which have answered ssh, and shares none with a service of another type (nor with
\* any, if they were launched), provided the snapshot gives no IP two types.
EnoughMachines ==
    stage = "done" =>
        \A s \in DOMAIN Services :
            /\ Len(got[s]) = Target(s) /\ IsInjective(got[s]) /\ Range(got[s]) \subseteq answered
            /\ \A t \in DOMAIN Services \ {s} :
                  Range(got[s]) \cap Range(got[t]) # {} =>
                      Reuse /\ (Services[s].type = Services[t].type \/
                                \E c, d \in Range(snapshot) : c.ip = d.ip /\ c.type # d.type)

\* The instances of a service have different Name tags, through batches and rounds.
TagsUnique ==
    \A m, n \in DOMAIN fleet :
        fleet[m].tag # 0 /\ fleet[m].tag = fleet[n].tag /\ fleet[m].svc = fleet[n].svc => m = n

\* Where the client builds the commands (the service has no remoteCmd), however many of
\* them it gets to plan: the machines of an XJST group, and they only, are told the same
\* peers and the same vault, each finds itself at its node number and none has the number
\* of another; an op or cdk chain shares its vault with no other machine of the service.
PlansAgree ==
    \A p, q \in plans : p.svc = q.svc /\ ~Services[p.svc].custom =>
        /\ Services[p.svc].type = "xjst" =>
             /\ Len(p.peers) = GroupSize /\ p.peers[p.node] = p.ip
             /\ p.vault = q.vault <=> p.peers = q.peers
             /\ p.vault = q.vault /\ p.node = q.node => p = q
        /\ Services[p.svc].type \in {"op", "cdk"} /\ p.vault = q.vault => p = q

\* Run gets through, to its scripts or to an error.
AcquireReturns == <>(stage \in {"done", "failed"})
============================================================================
