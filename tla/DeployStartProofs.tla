-------------------------- MODULE DeployStartProofs --------------------------
(***************************************************************************)
(* What was saved is in the files and in the memory of the clients that    *)
(* hold the latest contents, no machine is twice in servers_create.json, a *)
(* deployment begins in directories that hold nothing of another, client   *)
(* logs are kept out of the archives, and what is archived of a deployment *)
(* can be found together, for any clients, machines, commands and          *)
(* deployments.                                                            *)
(***************************************************************************)
EXTENDS DeployStart, TLAPS

StoreTypes ==
    /\ up \in [Clients -> {"down", "starting", "up"}] /\ dep \in [Clients -> Nat]
    /\ mem \in [Clients -> [Files -> Contents]]
    /\ writing \in [Clients -> Files \cup {"none"}]
    /\ file \in [Files -> [state : {"absent", "torn", "whole"}, data : Contents]]
    /\ acked \in [Files -> SUBSET Keys]
    /\ stale \in [Clients -> SUBSET Files]
    /\ deployments \in Nat

\* Who writes a file holds its latest contents, and is the only one that does.
OneWriter(f) ==
    \A c \in Clients : writing[c] = f =>
        /\ f \notin stale[c] /\ file[f].state = "torn"
        /\ \A d \in Clients \ {c} : writing[d] # f /\ (up[d] = "up" => f \in stale[d])

Saved(f) ==
    /\ file[f].state = "whole" => acked[f] \subseteq KeysOf(file[f].data)
    /\ file[f].state = "absent" => acked[f] = {}
    /\ \A c \in Clients : up[c] = "up" /\ f \notin stale[c] => acked[f] \subseteq KeysOf(mem[c][f])

Distinct(contents) ==
    \A i, j \in DOMAIN contents : contents[i].key = contents[j].key => i = j

WritersUp == \A c \in Clients : writing[c] # "none" => up[c] = "up"

DistinctCreated ==
    /\ Distinct(file["created"].data)
    /\ \A c \in Clients : Distinct(mem[c]["created"])

StoreInv ==
    /\ StoreTypes /\ WritersUp /\ DistinctCreated
    /\ \A f \in Files \ clobbered : OneWriter(f) /\ Saved(f)
----------------------------------------------------------------------------
(* What the changes of the contents keep. *)

LEMMA NoneIsNoFile == "none" \notin Files
  BY DEF Files

LEMMA EmptyContents == <<>> \in Contents /\ KeysOf(<<>>) = {} /\ Distinct(<<>>)
  BY DEF Contents, KeysOf, Distinct

LEMMA KeysOfContents ==
    ASSUME NEW contents \in Contents
    PROVE  KeysOf(contents) \subseteq Keys
<1>1. \A i \in DOMAIN contents : contents[i] \in Entry
  BY DEF Contents
<1>2. \A e \in Entry : e.key \in Keys
  BY DEF Entry
<1> QED
  BY <1>1, <1>2 DEF KeysOf

LEMMA AppendGrows ==
    ASSUME NEW contents \in Contents, NEW e \in Entry
    PROVE  /\ Append(contents, e) \in Contents
           /\ KeysOf(contents) \subseteq KeysOf(Append(contents, e))
  BY DEF Contents, KeysOf

LEMMA UpsertGrows ==
    ASSUME NEW contents \in Contents, NEW e \in Entry
    PROVE  /\ Upsert(contents, e) \in Contents
           /\ KeysOf(contents) \subseteq KeysOf(Upsert(contents, e))
<1>1. CASE e.key \in KeysOf(contents)
  <2> DEFINE new == [i \in DOMAIN contents |-> IF contents[i].key = e.key THEN e ELSE contents[i]]
  <2>1. Upsert(contents, e) = new
    BY <1>1 DEF Upsert
  <2>2. new \in Contents
    BY DEF Contents
  <2>3. \A i \in DOMAIN contents : i \in DOMAIN new /\ new[i].key = contents[i].key
    OBVIOUS
  <2>4. KeysOf(contents) \subseteq KeysOf(new)
    BY <2>3 DEF KeysOf
  <2> QED
    BY <2>1, <2>2, <2>4
<1>2. CASE e.key \notin KeysOf(contents)
  BY <1>2, AppendGrows DEF Upsert
<1> QED
  BY <1>1, <1>2

LEMMA AddCreatedGrows ==
    ASSUME NEW contents \in Contents, NEW k \in Keys \cup {Blank}, NEW d \in Nat,
           Distinct(contents)
    PROVE  LET new == AddCreated(contents, k, d)
           IN  new \in Contents /\ KeysOf(contents) \subseteq KeysOf(new) /\ Distinct(new)
<1> DEFINE e == [key |-> k, dep |-> d, val |-> ""]
<1>1. CASE k = Blank \/ k \in KeysOf(contents)
  BY <1>1 DEF AddCreated
<1>2. CASE ~(k = Blank \/ k \in KeysOf(contents))
  <2>1. e \in Entry /\ e.key = k
    BY <1>2 DEF Entry
  <2>2. AddCreated(contents, k, d) = Append(contents, e)
    BY <1>2 DEF AddCreated
  <2>3. \A i \in DOMAIN contents : contents[i].key # k
    BY <1>2 DEF KeysOf
  <2>4. Distinct(Append(contents, e))
    <3> HIDE DEF e
    <3> QED
      BY <2>1, <2>3 DEF Contents, Distinct
  <2> QED
    BY <2>1, <2>2, <2>4, AppendGrows
<1> QED
  BY <1>1, <1>2

LEMMA DepOfIsNat ==
    ASSUME StoreTypes, NEW c \in Clients, NEW f \in Files, NEW k
    PROVE  DepOf(c, f, k) \in Nat
<1>1. CASE \E i \in DOMAIN mem[c][f] : mem[c][f][i].key = k
  <2>1. \E e \in Range(mem[c][f]) : e.key = k
    BY <1>1 DEF Range
  <2>2. Range(mem[c][f]) \subseteq Entry
    <3>1. mem[c][f] \in Seq(Entry)
      BY DEF StoreTypes, Contents
    <3> QED
      BY <3>1 DEF Range
  <2>3. (CHOOSE e \in Range(mem[c][f]) : e.key = k) \in Entry
    BY <2>1, <2>2
  <2>4. (CHOOSE e \in Range(mem[c][f]) : e.key = k).dep \in Nat
    BY <2>3 DEF Entry
  <2> QED
    BY <1>1, <2>4 DEF DepOf
<1>2. CASE ~(\E i \in DOMAIN mem[c][f] : mem[c][f][i].key = k)
  BY <1>2 DEF DepOf, StoreTypes
<1> QED
  BY <1>1, <1>2
----------------------------------------------------------------------------
(* The operations of the store. *)

LEMMA BeginSaveKeeps ==
    ASSUME StoreInv, NEW c \in Clients, NEW f \in Files, NEW contents \in Contents,
           KeysOf(mem[c][f]) \subseteq KeysOf(contents),
           f = "created" => Distinct(contents),
           BeginSave(c, f, contents), deployments' = deployments
    PROVE  StoreInv'
<1>1. /\ up[c] = "up" /\ writing[c] = "none"
      /\ up' = up /\ dep' = dep /\ acked' = acked
      /\ mem' = [mem EXCEPT ![c][f] = contents]
      /\ writing' = [writing EXCEPT ![c] = f]
      /\ file' = [file EXCEPT ![f] = Torn]
      /\ stale' = [d \in Clients |-> IF d # c /\ up[d] = "up" THEN stale[d] \cup {f} ELSE stale[d]]
      /\ clobbered' = IF f \in stale[c] THEN clobbered \cup {f} ELSE clobbered
  BY DEF BeginSave
<1>2. Torn \in [state : {"absent", "torn", "whole"}, data : Contents] /\ Torn.state = "torn"
      /\ Distinct(Torn.data)
  BY EmptyContents DEF Torn
<1>3. StoreTypes
  BY DEF StoreInv
<1>4. StoreTypes'
  <2>1. mem' \in [Clients -> [Files -> Contents]]
    BY <1>1, <1>3 DEF StoreTypes
  <2>2. stale' \in [Clients -> SUBSET Files]
    BY <1>1, <1>3 DEF StoreTypes
  <2>3. file' \in [Files -> [state : {"absent", "torn", "whole"}, data : Contents]]
    BY <1>1, <1>2, <1>3 DEF StoreTypes
  <2> QED
    BY <1>1, <1>3, <2>1, <2>2, <2>3 DEF StoreTypes
<1>5. WritersUp'
  BY <1>1, <1>3 DEF StoreInv, WritersUp, StoreTypes
<1>6. DistinctCreated'
  <2>1. Distinct(file'["created"].data)
    BY <1>1, <1>2, <1>3 DEF StoreInv, DistinctCreated, StoreTypes, Files
  <2>2. \A d \in Clients : Distinct(mem'[d]["created"])
    BY <1>1, <1>3 DEF StoreInv, DistinctCreated, StoreTypes, Files
  <2> QED
    BY <2>1, <2>2 DEF DistinctCreated
<1>7. ASSUME NEW g \in Files \ clobbered' PROVE OneWriter(g)' /\ Saved(g)'
  <2>0. g \in Files /\ g \notin clobbered /\ OneWriter(g) /\ Saved(g)
    BY <1>1, <1>7 DEF StoreInv
  <2>1. CASE g # f
    <3>1. /\ file'[g] = file[g] /\ \A d \in Clients : mem'[d][g] = mem[d][g]
          /\ \A d \in Clients : (writing'[d] = g <=> writing[d] = g)
          /\ \A d \in Clients : (g \in stale'[d] <=> g \in stale[d])
      BY <1>1, <1>3, <2>0, <2>1, NoneIsNoFile DEF StoreTypes
    <3> QED
      BY <1>1, <2>0, <3>1 DEF OneWriter, Saved
  <2>2. CASE g = f
    <3>1. f \notin stale[c]
      BY <1>1, <1>7, <2>2
    <3>2. ASSUME NEW d \in Clients \ {c} PROVE writing[d] # f
      BY <1>1, <2>0, <2>2, <3>1 DEF OneWriter
    <3>3. file'[f].state = "torn" /\ f \notin stale'[c] /\ mem'[c][f] = contents
      BY <1>1, <1>2, <1>3, <3>1 DEF StoreTypes
    <3>4. \A d \in Clients \ {c} : writing'[d] # f /\ (up'[d] = "up" => f \in stale'[d])
      BY <1>1, <1>3, <3>2 DEF StoreTypes
    <3>5. acked[f] \subseteq KeysOf(contents)
      BY <1>1, <2>0, <2>2, <3>1 DEF Saved
    <3> QED
      BY <1>1, <2>2, <3>3, <3>4, <3>5 DEF OneWriter, Saved
  <2> QED
    BY <2>1, <2>2
<1> QED
  BY <1>4, <1>5, <1>6, <1>7 DEF StoreInv

LEMMA EndSaveKeeps ==
    ASSUME StoreInv, NEW c \in Clients, EndSave(c), deployments' = deployments
    PROVE  StoreInv'
<1> DEFINE f == writing[c]
<1>1. StoreTypes /\ f \in Files /\ up[c] = "up"
  BY DEF EndSave, StoreInv, StoreTypes, WritersUp
<1>2. /\ up' = up /\ dep' = dep /\ mem' = mem /\ stale' = stale /\ clobbered' = clobbered
      /\ acked' = [acked EXCEPT ![f] = @ \cup KeysOf(mem[c][f])]
      /\ writing' = [writing EXCEPT ![c] = "none"]
  BY DEF EndSave
<1>3. PICK left \in {Whole(mem[c][f]), Torn} : file' = [file EXCEPT ![f] = left]
  BY DEF EndSave
<1>4. /\ left \in [state : {"absent", "torn", "whole"}, data : Contents]
      /\ left.state # "absent"
      /\ left.state = "whole" => left.data = mem[c][f]
  BY <1>1, EmptyContents DEF Whole, Torn, StoreTypes
<1> HIDE DEF f
<1>5. StoreTypes'
  <2>1. KeysOf(mem[c][f]) \subseteq Keys
    BY <1>1, KeysOfContents DEF StoreTypes
  <2> QED
    BY <1>1, <1>2, <1>3, <1>4, <2>1 DEF StoreTypes
<1>6. WritersUp'
  BY <1>1, <1>2 DEF StoreInv, WritersUp, StoreTypes
<1>7. DistinctCreated'
  <2>1. f = "created" => Distinct(left.data)
    BY <1>3, EmptyContents DEF StoreInv, DistinctCreated, Whole, Torn
  <2>2. Distinct(file'["created"].data)
    BY <1>1, <1>3, <2>1 DEF StoreInv, DistinctCreated, StoreTypes, Files
  <2> QED
    BY <1>2, <2>2 DEF StoreInv, DistinctCreated
<1>8. ASSUME NEW g \in Files \ clobbered' PROVE OneWriter(g)' /\ Saved(g)'
  <2>0. g \in Files /\ OneWriter(g) /\ Saved(g)
    BY <1>2, <1>8 DEF StoreInv
  <2>1. CASE g # f
    <3>1. /\ file'[g] = file[g] /\ acked'[g] = acked[g]
          /\ \A d \in Clients : (writing'[d] = g <=> writing[d] = g)
      BY <1>1, <1>2, <1>3, <2>0, <2>1, NoneIsNoFile DEF StoreTypes, f
    <3> QED
      BY <1>2, <2>0, <3>1 DEF OneWriter, Saved
  <2>2. CASE g = f
    <3>1. f \notin stale[c] /\ \A d \in Clients \ {c} :
              writing[d] # f /\ (up[d] = "up" => f \in stale[d])
      BY <2>0, <2>2 DEF OneWriter, f
    <3>2. \A d \in Clients : writing'[d] # f
      BY <1>1, <1>2, <3>1, NoneIsNoFile DEF StoreTypes
    <3>3. acked[f] \subseteq KeysOf(mem[c][f])
      BY <1>1, <2>0, <2>2, <3>1 DEF Saved
    <3>4. acked'[f] = KeysOf(mem[c][f]) /\ file'[f] = left
      BY <1>1, <1>2, <1>3, <3>3 DEF StoreTypes
    <3>5. OneWriter(g)'
      BY <2>2, <3>2 DEF OneWriter, f
    <3>6. \A d \in Clients : up'[d] = "up" /\ f \notin stale'[d] => d = c
      BY <1>2, <3>1
    <3>7. Saved(g)'
      BY <1>2, <1>4, <2>2, <3>4, <3>6 DEF Saved
    <3> QED
      BY <3>5, <3>7
  <2> QED
    BY <2>1, <2>2
<1> QED
  BY <1>5, <1>6, <1>7, <1>8 DEF StoreInv

\* A client stops writing, or stops: nothing else changes.
LEMMA StopWritingKeeps ==
    ASSUME StoreInv, NEW c \in Clients,
           writing' = [writing EXCEPT ![c] = "none"],
           \/ up' = up /\ mem' = mem /\ dep' = dep /\ stale' = stale
           \/ /\ up' = [up EXCEPT ![c] = "down"] /\ dep' = [dep EXCEPT ![c] = 0]
              /\ mem' = [mem EXCEPT ![c] = NoContents] /\ stale' = [stale EXCEPT ![c] = {}],
           UNCHANGED <<file, acked, clobbered, deployments>>
    PROVE  StoreInv'
<1>1. StoreTypes /\ NoContents \in [Files -> Contents] /\ Distinct(NoContents["created"])
  BY EmptyContents DEF StoreInv, NoContents, Files
<1>2. StoreTypes'
  <2>1. up' \in [Clients -> {"down", "starting", "up"}]
    BY <1>1 DEF StoreTypes
  <2>4. dep' \in [Clients -> Nat]
    <3>1. dep \in [Clients -> Nat] /\ (dep' = dep \/ dep' = [dep EXCEPT ![c] = 0])
      BY <1>1 DEF StoreTypes
    <3> QED
      BY <3>1
  <2>2. mem' \in [Clients -> [Files -> Contents]]
    BY <1>1 DEF StoreTypes
  <2>3. stale' \in [Clients -> SUBSET Files] /\ writing' \in [Clients -> Files \cup {"none"}]
    BY <1>1 DEF StoreTypes
  <2> QED
    BY <1>1, <2>1, <2>2, <2>3, <2>4 DEF StoreTypes
<1>3. /\ \A d \in Clients \ {c} : /\ up'[d] = up[d] /\ mem'[d] = mem[d] /\ stale'[d] = stale[d]
                                  /\ writing'[d] = writing[d]
      /\ writing'[c] = "none" /\ Distinct(mem'[c]["created"])
      /\ up'[c] = "up" => up[c] = "up" /\ mem'[c] = mem[c] /\ stale'[c] = stale[c]
  BY <1>1 DEF StoreInv, StoreTypes, DistinctCreated
<1>4. WritersUp'
  BY <1>3 DEF StoreInv, WritersUp
<1>5. DistinctCreated'
  BY <1>3 DEF StoreInv, DistinctCreated
<1>6. ASSUME NEW f \in Files \ clobbered' PROVE OneWriter(f)' /\ Saved(f)'
  <2>1. OneWriter(f) /\ Saved(f) /\ f # "none"
    BY <1>6, NoneIsNoFile DEF StoreInv
  <2>2. OneWriter(f)'
    BY <1>3, <2>1 DEF OneWriter
  <2>3. Saved(f)'
    BY <1>3, <2>1 DEF Saved
  <2> QED
    BY <2>2, <2>3
<1> QED
  BY <1>2, <1>4, <1>5, <1>6 DEF StoreInv

LEMMA OperationKeeps ==
    ASSUME StoreInv, NEW c \in Clients, Operation(c), deployments' = deployments
    PROVE  StoreInv'
<1>0. StoreTypes /\ \A f \in Files : mem[c][f] \in Contents
  BY DEF StoreInv, StoreTypes
<1>d. \A f \in Files, k \in Keys : DepOf(c, f, k) \in Nat
  BY <1>0, DepOfIsNat
<1>1. ASSUME NEW k \in Keys, AddServers(c, k) PROVE StoreInv'
  <2> DEFINE e == [key |-> k, dep |-> dep[c], val |-> ""]
  <2>1. e \in Entry
    BY <1>0 DEF Entry, StoreTypes
  <2>2. BeginSave(c, "servers", Append(mem[c]["servers"], e))
    BY <1>1 DEF AddServers
  <2> HIDE DEF e
  <2> QED
    BY <1>0, <2>1, <2>2, AppendGrows, BeginSaveKeeps DEF Files
<1>2. ASSUME NEW f \in {"ssh", "status"}, NEW e \in Entry,
             BeginSave(c, f, Upsert(mem[c][f], e))
      PROVE  StoreInv'
  BY <1>0, <1>2, UpsertGrows, BeginSaveKeeps DEF Files
<1>3. ASSUME NEW k \in Keys, NEW d \in Nat, NEW v \in {"pending", "running", "success", "fail"}
      PROVE  [key |-> k, dep |-> d, val |-> v] \in Entry
  BY DEF Entry
<1>4. ASSUME NEW k \in Keys, UpsertPlannedStatus(c, k) \/ InitStatus(c, k) PROVE StoreInv'
  BY <1>0, <1>2, <1>3, <1>4 DEF UpsertPlannedStatus, InitStatus, StoreTypes
<1>5. ASSUME NEW k \in Keys, NEW r \in {"success", "fail"}, UpdateSSHScriptStatus(c, k, r)
      PROVE  StoreInv'
  BY <1>d, <1>2, <1>3, <1>5 DEF UpdateSSHScriptStatus, Files
<1>6. ASSUME NEW k \in Keys, UpdateStatus(c, k, "success") PROVE StoreInv'
  BY <1>d, <1>2, <1>3, <1>6 DEF UpdateStatus, Files
<1>7. ASSUME NEW a \in Keys \cup {Blank}, NEW b \in Keys \cup {Blank}, AddCreatedServers(c, a, b)
      PROVE  StoreInv'
  <2>1. Distinct(mem[c]["created"]) /\ mem[c]["created"] \in Contents /\ dep[c] \in Nat
    BY <1>0 DEF StoreInv, DistinctCreated, StoreTypes, Files
  <2> DEFINE one == AddCreated(mem[c]["created"], a, dep[c])
             two == AddCreated(one, b, dep[c])
  <2>2. one \in Contents /\ KeysOf(mem[c]["created"]) \subseteq KeysOf(one) /\ Distinct(one)
    BY <2>1, AddCreatedGrows
  <2> HIDE DEF one
  <2>3. two \in Contents /\ KeysOf(one) \subseteq KeysOf(two) /\ Distinct(two)
    BY <2>1, <2>2, AddCreatedGrows
  <2>4. BeginSave(c, "created", two)
    BY <1>7 DEF AddCreatedServers, AddBatch, one
  <2> HIDE DEF two
  <2> QED
    BY <2>2, <2>3, <2>4, BeginSaveKeeps DEF Files
<1>8. CASE EndSave(c)
  BY <1>8, EndSaveKeeps
<1>9. CASE SaveFails(c)
  BY <1>9, StopWritingKeeps DEF SaveFails
<1> QED
  BY <1>1, <1>4, <1>5, <1>6, <1>7, <1>8, <1>9 DEF Operation

LEMMA NewDirectoryKeeps ==
    ASSUME StoreInv, NewDirectory, deployments' = deployments
    PROVE  StoreInv'
<1>1. Absent \in [state : {"absent", "torn", "whole"}, data : Contents]
      /\ Absent.state = "absent" /\ Distinct(Absent.data)
  BY EmptyContents DEF Absent
<1>2. StoreTypes'
  BY <1>1 DEF StoreInv, StoreTypes, NewDirectory
<1>3. WritersUp'
  BY DEF NewDirectory, WritersUp
<1>4. DistinctCreated'
  BY <1>1 DEF StoreInv, NewDirectory, DistinctCreated, Files
<1>5. ASSUME NEW f \in Files PROVE OneWriter(f)' /\ Saved(f)'
  BY <1>1, NoneIsNoFile DEF NewDirectory, OneWriter, Saved
<1> QED
  BY <1>2, <1>3, <1>4, <1>5 DEF StoreInv

LEMMA LoadKeeps ==
    ASSUME StoreInv, NEW c \in Clients, Load(c), deployments' = deployments
    PROVE  StoreInv'
<1> DEFINE read == [f \in Files |-> file[f].data]
<1>1. /\ StoreTypes /\ up[c] = "down" /\ writing[c] = "none"
      /\ up' = [up EXCEPT ![c] = "up"] /\ dep' = [dep EXCEPT ![c] = 0]
      /\ mem' = [mem EXCEPT ![c] = read] /\ stale' = [stale EXCEPT ![c] = {}]
      /\ UNCHANGED <<writing, file, acked, clobbered>>
  BY DEF StoreInv, WritersUp, StoreTypes, Load, Takes
<1>2. \A f \in Files : file[f].state \in {"absent", "whole"}
  BY <1>1 DEF Load, Parses, StoreTypes
<1>3. read \in [Files -> Contents] /\ Distinct(read["created"])
      /\ \A f \in Files : read[f] = file[f].data
  BY <1>1 DEF StoreInv, StoreTypes, DistinctCreated, Files
<1> HIDE DEF read
<1>4. StoreTypes'
  BY <1>1, <1>3 DEF StoreTypes
<1>5. WritersUp'
  BY <1>1 DEF StoreInv, StoreTypes, WritersUp
<1>6. DistinctCreated'
  BY <1>1, <1>3 DEF StoreInv, StoreTypes, DistinctCreated
<1>7. ASSUME NEW f \in Files \ clobbered' PROVE OneWriter(f)' /\ Saved(f)'
  <2>1. OneWriter(f) /\ Saved(f) /\ file[f].state \in {"absent", "whole"}
    BY <1>1, <1>2, <1>7 DEF StoreInv
  <2>2. \A d \in Clients : writing[d] # f
    BY <2>1 DEF OneWriter
  <2>3. acked[f] \subseteq KeysOf(file[f].data)
    BY <2>1 DEF Saved
  <2>4. OneWriter(f)'
    BY <1>1, <2>2 DEF OneWriter
  <2>5. Saved(f)'
    BY <1>1, <1>3, <1>7, <2>1, <2>3 DEF Saved, StoreTypes
  <2> QED
    BY <2>4, <2>5
<1> QED
  BY <1>4, <1>5, <1>6, <1>7 DEF StoreInv
----------------------------------------------------------------------------
(* The steps of the directories. *)

LEMMA StartDeployKeeps ==
    ASSUME StoreInv, NEW c \in Clients, StartDeploy(c)
    PROVE  StoreInv'
<1>1. /\ StoreTypes /\ up[c] = "down" /\ writing[c] = "none"
      /\ up' = [up EXCEPT ![c] = "starting"] /\ dep' = [dep EXCEPT ![c] = deployments + 1]
      /\ deployments' = deployments + 1
      /\ UNCHANGED <<mem, writing, file, acked, stale, clobbered>>
  BY DEF StoreInv, WritersUp, StoreTypes, StartDeploy, OpenClientLog
<1>2. StoreTypes'
  BY <1>1 DEF StoreTypes
<1>3. WritersUp' /\ DistinctCreated'
  BY <1>1 DEF StoreInv, StoreTypes, WritersUp, DistinctCreated
<1>4. ASSUME NEW f \in Files \ clobbered' PROVE OneWriter(f)' /\ Saved(f)'
  BY <1>1, <1>4 DEF StoreInv, StoreTypes, OneWriter, Saved
<1> QED
  BY <1>2, <1>3, <1>4 DEF StoreInv

LEMMA OpenKeeps ==
    ASSUME StoreInv, NEW c \in Clients, Open(c), up[c] # "up"
    PROVE  StoreInv'
<1>1. /\ StoreTypes /\ writing[c] = "none"
      /\ up' = [up EXCEPT ![c] = "up"] /\ mem' = [mem EXCEPT ![c] = NoContents]
      /\ stale' = [stale EXCEPT ![c] = {f \in Files : file[f] # Absent}]
      /\ UNCHANGED <<dep, writing, file, acked, clobbered, deployments>>
  BY DEF StoreInv, WritersUp, StoreTypes, Open, counts
<1>2. NoContents \in [Files -> Contents] /\ Distinct(NoContents["created"])
  BY EmptyContents DEF NoContents, Files
<1>3. StoreTypes'
  BY <1>1, <1>2 DEF StoreTypes
<1>4. WritersUp' /\ DistinctCreated'
  BY <1>1, <1>2 DEF StoreInv, StoreTypes, WritersUp, DistinctCreated
<1>5. ASSUME NEW f \in Files \ clobbered' PROVE OneWriter(f)' /\ Saved(f)'
  <2>1. OneWriter(f) /\ Saved(f)
    BY <1>1, <1>5 DEF StoreInv
  <2>2. f \notin stale'[c] => file[f].state = "absent"
    BY <1>1, <1>5 DEF StoreTypes, Absent
  <2>3. \E d \in Clients : writing[d] = f => f \in stale'[c]
    BY <2>1, <2>2 DEF OneWriter
  <2>4. OneWriter(f)'
    BY <1>1, <1>5, <2>1, <2>2, NoneIsNoFile DEF OneWriter, StoreTypes
  <2>5. Saved(f)'
    BY <1>1, <2>1, <2>2 DEF Saved, StoreTypes
  <2> QED
    BY <2>4, <2>5
<1> QED
  BY <1>3, <1>4, <1>5 DEF StoreInv
----------------------------------------------------------------------------
\* Who is in NewDeployer has no OutputManager yet.
StepInv ==
    /\ up \in [Clients -> {"down", "starting", "up"}]
    /\ step \in [Clients -> {"none", "resolve", "stash", "output", "logs", "restore", "open"}]
    /\ \A c \in Clients : step[c] # "none" => up[c] = "starting"

LEMMA StepInvStep == StepInv /\ [Next]_vars => StepInv'
<1> SUFFICES ASSUME StepInv, [Next]_vars PROVE StepInv'
  OBVIOUS
<1> USE DEF StepInv
<1>1. CASE StartBench \/ UNCHANGED vars
  BY <1>1 DEF StartBench, vars, store, starting
<1>2. ASSUME NEW c \in Clients, StartDeploy(c) PROVE StepInv'
  BY <1>2 DEF StartDeploy
<1>3. ASSUME NEW c \in Clients, StartLater(c) PROVE StepInv'
  BY <1>3 DEF StartLater, Load, starting
<1>4. ASSUME NEW c \in Clients,
             Resolve(c) \/ StashClientLogs(c) \/ RotateOutput(c) \/ RotateLogs(c)
                 \/ RestoreClientLogs(c)
      PROVE  StepInv'
  <2>1. up' = up
    BY <1>4 DEF Resolve, StashClientLogs, RotateOutput, RotateLogs, RestoreClientLogs,
                NewDirectory, store
  <2>2. step[c] # "none"
        /\ \E next \in {"stash", "output", "logs", "restore", "open"} :
              step' = [step EXCEPT ![c] = next]
    BY <1>4 DEF Resolve, StashClientLogs, RotateOutput, RotateLogs, RestoreClientLogs, At
  <2> QED
    BY <2>1, <2>2
<1>5. ASSUME NEW c \in Clients, Open(c) PROVE StepInv'
  BY <1>5 DEF Open, At
<1>6. ASSUME NEW c \in Clients, Stop(c) PROVE StepInv'
  BY <1>6 DEF Stop, Leave
<1>7. ASSUME NEW c \in Clients, WritePipeLog(c) \/ SaveStep(c) PROVE StepInv'
  <2>1. up' = up /\ step' = step
    BY <1>7 DEF WritePipeLog, SaveStep, Operation, AddServers, AddCreatedServers,
                UpsertPlannedStatus, InitStatus, UpdateStatus, UpdateSSHScriptStatus,
                BeginSave, EndSave, SaveFails, store, starting
  <2> QED
    BY <2>1
<1> QED
  BY <1>1, <1>2, <1>3, <1>4, <1>5, <1>6, <1>7 DEF Next

LEMMA StoreUntouched ==
    ASSUME StoreInv, UNCHANGED <<store, deployments>>
    PROVE  StoreInv'
  BY DEF store, StoreInv, StoreTypes, WritersUp, DistinctCreated, OneWriter, Saved

LEMMA StoreStep == StoreInv /\ StepInv /\ [Next]_vars => StoreInv'
<1> SUFFICES ASSUME StoreInv, StepInv, [Next]_vars PROVE StoreInv'
  OBVIOUS
<1>1. CASE StartBench \/ UNCHANGED vars
  BY <1>1, StoreUntouched DEF StartBench, vars, counts
<1>2. ASSUME NEW c \in Clients, StartDeploy(c) PROVE StoreInv'
  BY <1>2, StartDeployKeeps
<1>3. ASSUME NEW c \in Clients, StartLater(c) PROVE StoreInv'
  BY <1>3, LoadKeeps DEF StartLater
<1>4. ASSUME NEW c \in Clients,
             Resolve(c) \/ StashClientLogs(c) \/ RestoreClientLogs(c) \/ WritePipeLog(c)
      PROVE  StoreInv'
  BY <1>4, StoreUntouched DEF Resolve, StashClientLogs, RestoreClientLogs, WritePipeLog, counts
<1>5. ASSUME NEW c \in Clients, RotateOutput(c) \/ RotateLogs(c) PROVE StoreInv'
  <2>1. deployments' = deployments /\ (NewDirectory \/ UNCHANGED store)
    BY <1>5 DEF RotateOutput, RotateLogs, counts
  <2> QED
    BY <2>1, NewDirectoryKeeps, StoreUntouched
<1>6. ASSUME NEW c \in Clients, Open(c) PROVE StoreInv'
  BY <1>6, OpenKeeps DEF Open, At, StepInv
<1>7. ASSUME NEW c \in Clients, SaveStep(c) PROVE StoreInv'
  BY <1>7, OperationKeeps DEF SaveStep, counts
<1>8. ASSUME NEW c \in Clients, Stop(c) PROVE StoreInv'
  BY <1>8, StopWritingKeeps DEF Stop, Leave, Takes
<1> QED
  BY <1>1, <1>2, <1>3, <1>4, <1>5, <1>6, <1>7, <1>8 DEF Next

LEMMA StoreStart == Init => StoreInv /\ StepInv
<1> SUFFICES ASSUME Init PROVE StoreInv /\ StepInv
  OBVIOUS
<1>1. StoreInit /\ step = [c \in Clients |-> "none"] /\ deployments = 0
  BY DEF Init
<1>2. StoreTypes
  BY <1>1, EmptyContents DEF StoreInit, StoreTypes, NoContents, Absent
<1>3. WritersUp /\ DistinctCreated
  BY <1>1, EmptyContents DEF StoreInit, WritersUp, DistinctCreated, NoContents, Absent, Files
<1>4. ASSUME NEW f \in Files PROVE OneWriter(f) /\ Saved(f)
  BY <1>1, NoneIsNoFile DEF StoreInit, OneWriter, Saved, Absent
<1> QED
  BY <1>1, <1>2, <1>3, <1>4 DEF StoreInv, StepInv, StoreInit

LEMMA StoreAlways == Spec => []StoreInv
<1>1. StoreInv /\ StepInv /\ [Next]_vars => StoreInv' /\ StepInv'
  BY StoreStep, StepInvStep
<1> QED
  BY StoreStart, <1>1, PTL DEF Spec

\* What was saved without an error since the deployment began is in every file that can
\* be read and in the memory of every client that holds its latest contents, whichever
\* clients save, fail, die and load, unless one saved over what it had not seen
\* (OutputManager's save and load, NewDeployer's rotation).
THEOREM SavedAlwaysStays == Spec => []SavedStays
<1>1. StoreInv => SavedStays
  BY DEF StoreInv, SavedStays, Saved
<1> QED
  BY StoreAlways, <1>1, PTL

\* No machine is twice in servers_create.json, whatever services and clients add it
\* (AddCreatedServers).
THEOREM CreatedAlwaysOnce == Spec => []CreatedOnce
<1>1. StoreInv => CreatedOnce
  BY DEF StoreInv, DistinctCreated, Distinct, CreatedOnce
<1> QED
  BY StoreAlways, <1>1, PTL
----------------------------------------------------------------------------
(* The deployments of records. *)

SeqDeps(contents) == {contents[i].dep : i \in DOMAIN contents}

LEMMA DepsBySeq ==
    ASSUME NEW contents
    PROVE  DepsOf(contents) = UNION {SeqDeps(contents[f]) : f \in Files}
<1>1. \A d : d \in DepsOf(contents) <=> \E f \in Files : d \in SeqDeps(contents[f])
  BY DEF DepsOf, SeqDeps, Range
<1> QED
  BY <1>1

LEMMA DepsInFiles ==
    ASSUME NEW files
    PROVE  DepsIn(files) = UNION {SeqDeps(files[f].data) : f \in Files}
<1> DEFINE data == [f \in Files |-> files[f].data]
<1>1. DepsIn(files) = UNION {SeqDeps(data[f]) : f \in Files}
  BY DepsBySeq DEF DepsIn
<1>2. \A f \in Files : data[f] = files[f].data
  OBVIOUS
<1> QED
  BY <1>1, <1>2

LEMMA EmptyDeps == SeqDeps(<<>>) = {} /\ DepsOf(NoContents) = {}
<1>1. SeqDeps(<<>>) = {}
  BY DEF SeqDeps
<1>2. \A f \in Files : NoContents[f] = <<>>
  BY DEF NoContents
<1> QED
  BY <1>1, <1>2, DepsBySeq

LEMMA AppendDeps ==
    ASSUME NEW contents \in Contents, NEW e \in Entry
    PROVE  SeqDeps(Append(contents, e)) \subseteq SeqDeps(contents) \cup {e.dep}
  BY DEF Contents, SeqDeps

LEMMA UpsertDeps ==
    ASSUME NEW contents \in Contents, NEW e \in Entry
    PROVE  SeqDeps(Upsert(contents, e)) \subseteq SeqDeps(contents) \cup {e.dep}
<1>1. CASE e.key \in KeysOf(contents)
  <2> DEFINE new == [i \in DOMAIN contents |-> IF contents[i].key = e.key THEN e ELSE contents[i]]
  <2>1. Upsert(contents, e) = new
    BY <1>1 DEF Upsert
  <2>2. \A i \in DOMAIN contents : new[i] = e \/ new[i] = contents[i]
    OBVIOUS
  <2> QED
    BY <2>1, <2>2 DEF SeqDeps
<1>2. CASE e.key \notin KeysOf(contents)
  BY <1>2, AppendDeps DEF Upsert
<1> QED
  BY <1>1, <1>2

LEMMA AddCreatedDeps ==
    ASSUME NEW contents \in Contents, NEW k \in Keys \cup {Blank}, NEW d \in Nat
    PROVE  /\ AddCreated(contents, k, d) \in Contents
           /\ SeqDeps(AddCreated(contents, k, d)) \subseteq SeqDeps(contents) \cup {d}
<1> DEFINE e == [key |-> k, dep |-> d, val |-> ""]
<1>1. CASE k = Blank \/ k \in KeysOf(contents)
  BY <1>1 DEF AddCreated
<1>2. CASE ~(k = Blank \/ k \in KeysOf(contents))
  <2>1. e \in Entry /\ e.dep = d /\ AddCreated(contents, k, d) = Append(contents, e)
    BY <1>2 DEF Entry, AddCreated
  <2> HIDE DEF e
  <2> QED
    BY <2>1, AppendGrows, AppendDeps
<1> QED
  BY <1>1, <1>2

LEMMA DepOfKnown ==
    ASSUME StoreTypes, NEW c \in Clients, NEW f \in Files, NEW k
    PROVE  IF k \in KeysOf(mem[c][f]) THEN DepOf(c, f, k) \in SeqDeps(mem[c][f])
           ELSE DepOf(c, f, k) = dep[c]
<1>1. (\E i \in DOMAIN mem[c][f] : mem[c][f][i].key = k) <=> k \in KeysOf(mem[c][f])
  BY DEF KeysOf
<1>2. CASE \E i \in DOMAIN mem[c][f] : mem[c][f][i].key = k
  <2> DEFINE e == CHOOSE e \in Range(mem[c][f]) : e.key = k
  <2>1. \E x \in Range(mem[c][f]) : x.key = k
    BY <1>2 DEF Range
  <2>2. e \in Range(mem[c][f])
    BY <2>1
  <2>3. DepOf(c, f, k) = e.dep
    BY <1>2 DEF DepOf
  <2> HIDE DEF e
  <2> QED
    BY <1>1, <1>2, <2>2, <2>3 DEF Range, SeqDeps
<1>3. CASE ~(\E i \in DOMAIN mem[c][f] : mem[c][f][i].key = k)
  BY <1>1, <1>3 DEF DepOf
<1> QED
  BY <1>2, <1>3

----------------------------------------------------------------------------
(* What a save does to the deployments on record. *)

\* The deployment that c makes.
Own(c) == {dep[c]} \ {0}

LEMMA BeginSaveDeps ==
    ASSUME StoreTypes, NEW c \in Clients, NEW f \in Files, NEW contents \in Contents,
           SeqDeps(contents) \subseteq DepsOf(mem[c]) \cup Own(c),
           BeginSave(c, f, contents)
    PROVE  /\ \A e \in Clients \ {c} : mem'[e] = mem[e]
           /\ DepsOf(mem'[c]) \subseteq DepsOf(mem[c]) \cup Own(c)
           /\ DepsIn(file') \subseteq DepsIn(file)
           /\ \A g \in Files : file'[g] = Absent => file[g] = Absent /\ mem'[c][g] = mem[c][g]
           /\ \A e \in Clients : stale[e] \subseteq stale'[e]
           /\ stale'[c] = stale[c] /\ up[c] = "up" /\ up' = up /\ dep' = dep
<1>1. /\ up[c] = "up" /\ up' = up /\ dep' = dep
      /\ mem' = [mem EXCEPT ![c][f] = contents]
      /\ file' = [file EXCEPT ![f] = Torn]
      /\ stale' = [d \in Clients |-> IF d # c /\ up[d] = "up" THEN stale[d] \cup {f} ELSE stale[d]]
  BY DEF BeginSave
<1>2. /\ mem'[c][f] = contents /\ file'[f] = Torn
      /\ \A g \in Files \ {f} : mem'[c][g] = mem[c][g] /\ file'[g] = file[g]
      /\ \A e \in Clients \ {c} : mem'[e] = mem[e]
  BY <1>1 DEF StoreTypes
<1>3. DepsOf(mem'[c]) \subseteq DepsOf(mem[c]) \cup Own(c)
  BY <1>2, DepsBySeq
<1>4. SeqDeps(Torn.data) = {}
  BY EmptyDeps DEF Torn
<1>5. DepsIn(file') \subseteq DepsIn(file)
  BY <1>2, <1>4, DepsInFiles
<1>6. Torn # Absent
  BY DEF Torn, Absent
<1> QED
  BY <1>1, <1>2, <1>3, <1>5, <1>6

LEMMA EndSaveDeps ==
    ASSUME StoreTypes, WritersUp, NEW c \in Clients, EndSave(c)
    PROVE  /\ mem' = mem /\ stale' = stale /\ up[c] = "up" /\ up' = up /\ dep' = dep
           /\ DepsIn(file') \subseteq DepsIn(file) \cup DepsOf(mem[c])
           /\ \A g \in Files : file'[g] = Absent => file[g] = Absent
<1> DEFINE f == writing[c]
<1>1. f \in Files /\ up[c] = "up" /\ up' = up /\ dep' = dep /\ mem' = mem /\ stale' = stale
  BY DEF EndSave, StoreTypes, WritersUp
<1>2. PICK left \in {Whole(mem[c][f]), Torn} : file' = [file EXCEPT ![f] = left]
  BY DEF EndSave
<1>3. left # Absent /\ SeqDeps(left.data) \subseteq SeqDeps(mem[c][f])
  BY EmptyDeps DEF Whole, Torn, Absent
<1> HIDE DEF f
<1>4. file'[f] = left /\ \A g \in Files \ {f} : file'[g] = file[g]
  BY <1>1, <1>2 DEF StoreTypes
<1>5. DepsIn(file') \subseteq DepsIn(file) \cup DepsOf(mem[c])
  BY <1>1, <1>3, <1>4, DepsInFiles, DepsBySeq
<1> QED
  BY <1>1, <1>3, <1>4, <1>5

SaveEffect(c) ==
    /\ \A e \in Clients \ {c} : mem'[e] = mem[e]
    /\ DepsOf(mem'[c]) \subseteq DepsOf(mem[c]) \cup Own(c)
    /\ DepsIn(file') \subseteq DepsIn(file) \cup DepsOf(mem'[c])
    /\ \A g \in Files : file'[g] = Absent => file[g] = Absent /\ mem'[c][g] = mem[c][g]
    /\ \A e \in Clients : stale[e] \subseteq stale'[e]
    /\ stale'[c] = stale[c] /\ up[c] = "up" /\ up' = up /\ dep' = dep

LEMMA OperationDeps ==
    ASSUME StoreTypes, WritersUp, NEW c \in Clients, Operation(c)
    PROVE  SaveEffect(c)
<1>0. \A f \in Files : mem[c][f] \in Contents /\ SeqDeps(mem[c][f]) \subseteq DepsOf(mem[c])
  BY DepsBySeq DEF StoreTypes
<1>1. \A f \in Files, k \in Keys : DepOf(c, f, k) \in Nat
  BY DepOfIsNat
<1>2. ASSUME NEW k \in Keys, dep[c] # 0 \/ k \in KeysOf(mem[c]["status"])
      PROVE  DepOf(c, "status", k) \in DepsOf(mem[c]) \cup Own(c)
  BY <1>0, <1>2, DepOfKnown DEF Own, Files
<1>3. ASSUME NEW f \in Files, NEW contents \in Contents,
             SeqDeps(contents) \subseteq DepsOf(mem[c]) \cup Own(c), BeginSave(c, f, contents)
      PROVE  SaveEffect(c)
  BY <1>3, BeginSaveDeps DEF SaveEffect
<1>4. ASSUME NEW f \in {"ssh", "status"}, NEW e \in Entry, e.dep \in DepsOf(mem[c]) \cup Own(c),
             BeginSave(c, f, Upsert(mem[c][f], e))
      PROVE  SaveEffect(c)
  <2>1. f \in Files
    BY DEF Files
  <2>2. SeqDeps(Upsert(mem[c][f], e)) \subseteq DepsOf(mem[c]) \cup Own(c)
        /\ Upsert(mem[c][f], e) \in Contents
    BY <1>0, <1>4, <2>1, UpsertDeps, UpsertGrows
  <2> QED
    BY <1>3, <1>4, <2>1, <2>2
<1>5. ASSUME NEW k \in Keys, NEW d \in Nat, NEW v \in {"pending", "running", "success", "fail"}
      PROVE  [key |-> k, dep |-> d, val |-> v] \in Entry
             /\ [key |-> k, dep |-> d, val |-> v].dep = d
  BY DEF Entry
<1>6. dep[c] \in Nat /\ (dep[c] # 0 => dep[c] \in Own(c))
  BY DEF StoreTypes, Own
<1>7. ASSUME NEW k \in Keys, AddServers(c, k) PROVE SaveEffect(c)
  <2> DEFINE e == [key |-> k, dep |-> dep[c], val |-> ""]
  <2>1. e \in Entry /\ e.dep = dep[c] /\ dep[c] # 0
    BY <1>6, <1>7 DEF Entry, AddServers
  <2>2. BeginSave(c, "servers", Append(mem[c]["servers"], e))
    BY <1>7 DEF AddServers
  <2> HIDE DEF e
  <2>3. SeqDeps(Append(mem[c]["servers"], e)) \subseteq DepsOf(mem[c]) \cup Own(c)
        /\ Append(mem[c]["servers"], e) \in Contents
    BY <1>0, <1>6, <2>1, AppendDeps, AppendGrows DEF Files
  <2> QED
    BY <1>3, <2>2, <2>3 DEF Files
<1>8. ASSUME NEW k \in Keys, UpsertPlannedStatus(c, k) \/ InitStatus(c, k) PROVE SaveEffect(c)
  BY <1>4, <1>5, <1>6, <1>8 DEF UpsertPlannedStatus, InitStatus
<1>9. ASSUME NEW k \in Keys, NEW r \in {"success", "fail"}, UpdateSSHScriptStatus(c, k, r)
      PROVE  SaveEffect(c)
  <2>1. DepOf(c, "status", k) \in (DepsOf(mem[c]) \cup Own(c)) \cap Nat
    BY <1>1, <1>2, <1>9 DEF UpdateSSHScriptStatus, Files
  <2> QED
    BY <1>4, <1>5, <1>9, <2>1 DEF UpdateSSHScriptStatus
<1>10. ASSUME NEW k \in Keys, UpdateStatus(c, k, "success") PROVE SaveEffect(c)
  <2>1. DepOf(c, "status", k) \in (DepsOf(mem[c]) \cup Own(c)) \cap Nat
    BY <1>1, <1>2, <1>10 DEF UpdateStatus, Files
  <2> QED
    BY <1>4, <1>5, <1>10, <2>1 DEF UpdateStatus
<1>11. ASSUME NEW a \in Keys \cup {Blank}, NEW b \in Keys \cup {Blank}, AddCreatedServers(c, a, b)
       PROVE  SaveEffect(c)
  <2> DEFINE one == AddCreated(mem[c]["created"], a, dep[c])
             two == AddCreated(one, b, dep[c])
  <2>1. one \in Contents /\ SeqDeps(one) \subseteq SeqDeps(mem[c]["created"]) \cup {dep[c]}
    BY <1>0, <1>6, AddCreatedDeps DEF Files
  <2> HIDE DEF one
  <2>2. two \in Contents /\ SeqDeps(two) \subseteq SeqDeps(one) \cup {dep[c]}
    BY <1>6, <2>1, AddCreatedDeps
  <2>3. BeginSave(c, "created", two) /\ dep[c] # 0
    BY <1>11 DEF AddCreatedServers, AddBatch, one
  <2> HIDE DEF two
  <2>4. SeqDeps(two) \subseteq DepsOf(mem[c]) \cup Own(c)
    BY <1>0, <1>6, <2>1, <2>2, <2>3 DEF Files
  <2> QED
    BY <1>3, <2>2, <2>3, <2>4 DEF Files
<1>12. CASE EndSave(c)
  BY <1>12, EndSaveDeps DEF SaveEffect
<1>13. CASE SaveFails(c)
  BY <1>13 DEF SaveFails, SaveEffect, StoreTypes, WritersUp
<1> QED
  BY <1>7, <1>8, <1>9, <1>10, <1>11, <1>12, <1>13 DEF Operation
----------------------------------------------------------------------------
(* Types. *)

StartTypes ==
    /\ crossed \in [Clients -> BOOLEAN] /\ saves \in 0..MaxSaves /\ clobbered \subseteq Files
    /\ nested \in BOOLEAN /\ outDir \in BOOLEAN /\ logs \in Logs
    /\ \A a \in archives : a.kind \in {"logs", "output"} /\ a.ts \in Stamps
    /\ preserves \subseteq SUBSET Nat
    /\ stamp \in [Clients -> Stamps \cup {0}]
    /\ stashed \in [Clients -> SUBSET Nat]
    /\ commands \in 0..MaxCommands /\ opened \in 0..commands
    /\ deployments \in 0..MaxDeployments
    /\ cut \in BOOLEAN /\ late \subseteq Nat /\ strayed \subseteq Nat

LEMMA DepsAreNat ==
    ASSUME StoreTypes
    PROVE  DepsIn(file) \subseteq Nat /\ \A c \in Clients : DepsOf(mem[c]) \subseteq Nat
<1>1. ASSUME NEW contents \in Contents PROVE SeqDeps(contents) \subseteq Nat
  <2>1. \A i \in DOMAIN contents : contents[i] \in Entry
    BY DEF Contents
  <2>2. \A e \in Entry : e.dep \in Nat
    BY DEF Entry
  <2> QED
    BY <2>1, <2>2 DEF SeqDeps
<1>2. \A f \in Files : file[f].data \in Contents /\ \A c \in Clients : mem[c][f] \in Contents
  BY DEF StoreTypes
<1>3. \A f \in Files : SeqDeps(file[f].data) \subseteq Nat
  BY <1>1, <1>2
<1>4. \A c \in Clients, f \in Files : SeqDeps(mem[c][f]) \subseteq Nat
  BY <1>1, <1>2
<1>5. DepsIn(file) = UNION {SeqDeps(file[f].data) : f \in Files}
  BY DepsInFiles
<1>6. \A c \in Clients : DepsOf(mem[c]) = UNION {SeqDeps(mem[c][f]) : f \in Files}
  BY DepsBySeq
<1> QED
  BY <1>3, <1>4, <1>5, <1>6

LEMMA BeginSaveTypes ==
    ASSUME StartTypes, StoreTypes, NEW c \in Clients, NEW f \in Files, NEW contents,
           BeginSave(c, f, contents)
    PROVE  crossed' \in [Clients -> BOOLEAN] /\ saves' \in 0..MaxSaves /\ clobbered' \subseteq Files
<1>1. crossed' \in [Clients -> BOOLEAN]
  <2>1. crossed' = [d \in Clients |-> IF d = c THEN FALSE ELSE crossed[d] \/ writing[d] = f]
    BY DEF BeginSave
  <2>2. \A d \in Clients : crossed[d] \in BOOLEAN
    BY DEF StartTypes
  <2> QED
    BY <2>1, <2>2
<1>2. saves' \in 0..MaxSaves
  BY SavesAssumption DEF BeginSave, StartTypes
<1>3. clobbered' \subseteq Files
  BY DEF BeginSave, StartTypes
<1> QED
  BY <1>1, <1>2, <1>3

LEMMA OperationTypes ==
    ASSUME StartTypes, StoreTypes, NEW c \in Clients, Operation(c)
    PROVE  crossed' \in [Clients -> BOOLEAN] /\ saves' \in 0..MaxSaves /\ clobbered' \subseteq Files
<1>1. CASE \E f \in Files : \E contents : BeginSave(c, f, contents)
  BY <1>1, BeginSaveTypes
<1>2. CASE EndSave(c)
  <2>1. /\ saves' = saves /\ clobbered' = clobbered
        /\ crossed' = [d \in Clients |->
                          IF d = c THEN FALSE ELSE crossed[d] \/ writing[d] = writing[c]]
    BY <1>2 DEF EndSave
  <2>2. \A d \in Clients : crossed[d] \in BOOLEAN
    BY DEF StartTypes
  <2> QED
    BY <2>1, <2>2 DEF StartTypes
<1>3. CASE SaveFails(c)
  BY <1>3 DEF SaveFails, StartTypes
<1>4. ASSUME NEW k \in Keys,
             \/ AddServers(c, k) \/ UpsertPlannedStatus(c, k) \/ InitStatus(c, k)
             \/ UpdateStatus(c, k, "success")
             \/ \E result \in {"success", "fail"} : UpdateSSHScriptStatus(c, k, result)
      PROVE  \E f \in Files : \E contents : BeginSave(c, f, contents)
  BY <1>4 DEF AddServers, UpsertPlannedStatus, InitStatus, UpdateStatus, UpdateSSHScriptStatus,
              Files
<1>5. ASSUME NEW a \in Keys \cup {Blank}, NEW b \in Keys \cup {Blank}, AddCreatedServers(c, a, b)
      PROVE  \E f \in Files : \E contents : BeginSave(c, f, contents)
  BY <1>5 DEF AddCreatedServers, Files
<1> QED
  BY <1>1, <1>2, <1>3, <1>4, <1>5 DEF Operation

LEMMA StartTypesStep == StartTypes /\ StoreTypes /\ WritersUp /\ [Next]_vars => StartTypes'
<1> SUFFICES ASSUME StartTypes, StoreTypes, WritersUp, [Next]_vars PROVE StartTypes'
  OBVIOUS
<1>0. DepsIn(file) \subseteq Nat /\ \A c \in Clients : DepsOf(mem[c]) \subseteq Nat
  BY DepsAreNat
<1>a. NoLogs \in Logs /\ \A ts \in Stamps \cup {0} : [deps |-> DepsIn(file), ts |-> ts] \in Out
  BY <1>0 DEF NoLogs, Logs, Out
<1>1. CASE UNCHANGED vars
  BY <1>1 DEF StartTypes, vars, store, disk, starting, counts
<1>2. ASSUME OpenClientLog
      PROVE  /\ logs' \in Logs /\ commands' \in 0..MaxCommands /\ opened' \in 0..commands'
             /\ late' \subseteq Nat
  BY <1>2, StartAssumption DEF OpenClientLog, StartTypes, Logs
<1>3. CASE StartBench
  BY <1>2, <1>3 DEF StartBench, StartTypes, store, starting, Aside
<1>4. ASSUME NEW c \in Clients, StartDeploy(c) PROVE StartTypes'
  BY <1>2, <1>4, StartAssumption DEF StartDeploy, StartTypes
<1>5. ASSUME NEW c \in Clients, StartLater(c) PROVE StartTypes'
  BY <1>5, StartAssumption DEF StartLater, Load, StartTypes, disk, starting
<1>6. ASSUME NEW c \in Clients, Resolve(c) PROVE StartTypes'
  BY <1>6 DEF Resolve, StartTypes, store, disk, counts
<1>7. ASSUME NEW c \in Clients, StashClientLogs(c) PROVE StartTypes'
  BY <1>7 DEF StashClientLogs, StartTypes, store, counts, Logs
<1>n. ASSUME NewDirectory
      PROVE  crossed' \in [Clients -> BOOLEAN] /\ saves' = saves /\ clobbered' = {}
  BY <1>n DEF NewDirectory
<1>s. \A c \in Clients : StampsOfOutput(c) \subseteq Stamps /\ StampsOfLogs(c) \subseteq Stamps
  BY DEF StartTypes, StampsOfOutput, StampsOfLogs
<1>8. ASSUME NEW c \in Clients, RotateOutput(c) PROVE StartTypes'
  <2>1. UNCHANGED <<nested, preserves, stamp, stashed, counts>>
    BY <1>8 DEF RotateOutput
  <2>2. CASE ~OutRotatable /\ UNCHANGED <<outDir, store, logs, archives>>
    BY <2>1, <2>2 DEF StartTypes, store, counts
  <2>3. CASE OutRotatable
    <3>1. outDir' = FALSE /\ NewDirectory
      BY <1>8, <2>3 DEF RotateOutput
    <3>2. PICK ts \in StampsOfOutput(c) :
            LET old == [deps |-> DepsIn(file), ts |-> ts] IN
            \/ logs' = [logs EXCEPT !.outs = @ \cup {old}] /\ UNCHANGED archives
            \/ /\ archives' = archives \cup {[NoTree EXCEPT !.outs = {old}, !.ts = ts]}
               /\ UNCHANGED logs
      BY <1>8, <2>3 DEF RotateOutput
    <3>3. ts \in Stamps
      BY <3>2, <1>s
    <3>4. logs' \in Logs
      BY <1>a, <3>2, <3>3 DEF StartTypes, Logs
    <3>5. \A a \in archives' : a.kind \in {"logs", "output"} /\ a.ts \in Stamps
      BY <3>2, <3>3 DEF StartTypes, NoTree
    <3> QED
      BY <1>n, <2>1, <3>1, <3>4, <3>5 DEF StartTypes, counts
  <2> QED
    BY <1>8, <2>2, <2>3 DEF RotateOutput
<1>9. ASSUME NEW c \in Clients, RotateLogs(c) PROVE StartTypes'
  <2>1. UNCHANGED <<nested, preserves, stamp, stashed, counts>>
    BY <1>9 DEF RotateLogs
  <2>2. \/ outDir' = FALSE /\ NewDirectory
        \/ UNCHANGED <<outDir, store>>
    BY <1>9 DEF RotateLogs
  <2>3. outDir' \in BOOLEAN /\ crossed' \in [Clients -> BOOLEAN] /\ saves' \in 0..MaxSaves
        /\ clobbered' \subseteq Files
    BY <1>n, <2>2 DEF StartTypes, store
  <2>4. logs' \in Logs
    BY <1>9, <1>a DEF RotateLogs, StartTypes
  <2>5. \A a \in archives' : a.kind \in {"logs", "output"} /\ a.ts \in Stamps
    BY <1>9, <1>s DEF RotateLogs, StartTypes
  <2> QED
    BY <2>1, <2>3, <2>4, <2>5 DEF StartTypes, counts
<1>10. ASSUME NEW c \in Clients, RestoreClientLogs(c) PROVE StartTypes'
  <2>1. logs' \in Logs /\ preserves' \subseteq SUBSET Nat
    BY <1>10 DEF RestoreClientLogs, StartTypes, Logs
  <2>2. stashed' \in [Clients -> SUBSET Nat]
    BY <1>10 DEF RestoreClientLogs, StartTypes
  <2> QED
    BY <1>10, <2>1, <2>2 DEF RestoreClientLogs, StartTypes, store, counts
<1>11. ASSUME NEW c \in Clients, Open(c) PROVE StartTypes'
  BY <1>11 DEF Open, StartTypes, counts
<1>12. ASSUME NEW c \in Clients, NEW deps \in SUBSET Nat, Stray(c, deps)
       PROVE  strayed' \subseteq Nat
  BY <1>12 DEF Stray, StartTypes
<1>13. ASSUME NEW c \in Clients, WritePipeLog(c) PROVE StartTypes'
  <2>1. PICK e \in Range(mem[c]["status"]) : logs' = [logs EXCEPT !.pipes = @ \cup {e.dep}]
    BY <1>13 DEF WritePipeLog
  <2>2. e.dep \in Nat
    BY <1>0, <2>1 DEF DepsOf, Files
  <2>3. logs' \in Logs /\ logs'.pipes \subseteq Nat
    BY <2>1, <2>2 DEF StartTypes, Logs
  <2>4. strayed' \subseteq Nat
    BY <1>12, <1>13, <2>3 DEF WritePipeLog
  <2> QED
    BY <1>13, <2>3, <2>4 DEF WritePipeLog, StartTypes, store, starting
<1>14. ASSUME NEW c \in Clients, SaveStep(c) PROVE StartTypes'
  <2>1. crossed' \in [Clients -> BOOLEAN] /\ saves' \in 0..MaxSaves /\ clobbered' \subseteq Files
    BY <1>14, OperationTypes DEF SaveStep
  <2>2. DepsOf(mem'[c]) \subseteq Nat
    BY <1>0, <1>14, OperationDeps DEF SaveStep, SaveEffect, StoreTypes, Own
  <2>3. strayed' \subseteq Nat
    BY <1>12, <1>14, <2>2 DEF SaveStep
  <2> QED
    BY <1>14, <2>1, <2>3 DEF SaveStep, StartTypes, starting
<1>15. ASSUME NEW c \in Clients, Stop(c) PROVE StartTypes'
  BY <1>15 DEF Stop, Leave, Takes, StartTypes, disk
<1> QED
  BY <1>1, <1>3, <1>4, <1>5, <1>6, <1>7, <1>8, <1>9, <1>10, <1>11, <1>13, <1>14, <1>15 DEF Next
----------------------------------------------------------------------------
(* Who makes a deployment. *)

\* At most one client makes a deployment, and who has no OutputManager remembers nothing.
OneDeployer ==
    /\ \A c, d \in Clients : dep[c] # 0 /\ dep[d] # 0 => c = d
    /\ \A c \in Clients : /\ up[c] = "starting" => dep[c] # 0
                          /\ up[c] = "down" => dep[c] = 0
                          /\ dep[c] \in 0..deployments
                          /\ up[c] # "up" => mem[c] = NoContents

\* Whose records and logs are in archived directories.
OutDeps(outs) == UNION {o.deps : o \in outs}
ArchivedIn(a) == a.pipes \cup OutDeps(a.outs)
\* c holds contents of the output directory that is there: they are in use, with the
\* directory's own; Known are those of any directory or memory.
Current(c) == up[c] = "up" /\ ~(Files \subseteq stale[c])
InUse == DepsIn(file) \cup UNION {DepsOf(mem[c]) : c \in {e \in Clients : Current(e)}}
Making == UNION {Own(c) : c \in Clients}
Known == DepsIn(file) \cup (UNION {DepsOf(mem[c]) : c \in Clients}) \cup logs.pipes
         \cup OutDeps(logs.outs) \cup (UNION {ArchivedIn(a) : a \in archives})

\* What a step other than a rotation does.
Grows ==
    /\ InUse' \subseteq InUse \cup Making \cup strayed'
    /\ Known' \subseteq Known \cup UNION {Own(c) : c \in {e \in Clients : up[e] = "up"}}
    /\ logs'.pipes \subseteq logs.pipes \cup InUse \cup strayed'
    /\ logs'.outs = logs.outs /\ archives' = archives /\ strayed \subseteq strayed'

LEMMA OutDepsOf ==
    ASSUME NEW outs, NEW o PROVE OutDeps(outs \cup {o}) = OutDeps(outs) \cup o.deps
  BY DEF OutDeps

\* The files, and what a client that is new or gone remembers.
LEMMA QuietGrows ==
    ASSUME file' = file, archives' = archives, strayed' = strayed,
           logs'.pipes = logs.pipes, logs'.outs = logs.outs,
           \A c \in Clients :
               \/ mem'[c] = mem[c] /\ (Current(c)' => Current(c))
               \/ DepsOf(mem'[c]) \subseteq DepsIn(file)
    PROVE  Grows
<1>1. \A c \in Clients : Current(c)' => DepsOf(mem'[c]) \subseteq InUse
  BY DEF InUse
<1>2. InUse' \subseteq InUse
  BY <1>1 DEF InUse
<1>3. \A c \in Clients : DepsOf(mem'[c]) \subseteq Known
  BY DEF Known
<1>4. Known' \subseteq Known
  BY <1>3 DEF Known
<1> QED
  BY <1>2, <1>4 DEF Grows

LEMMA LogsFields ==
    ASSUME StartTypes, NEW S
    PROVE  /\ [logs EXCEPT !.client = S].pipes = logs.pipes
           /\ [logs EXCEPT !.client = S].outs = logs.outs
           /\ [logs EXCEPT !.client = S].client = S
           /\ [logs EXCEPT !.pipes = S].pipes = S
           /\ [logs EXCEPT !.pipes = S].outs = logs.outs
           /\ [logs EXCEPT !.pipes = S].client = logs.client
           /\ [logs EXCEPT !.outs = S].pipes = logs.pipes
           /\ [logs EXCEPT !.outs = S].outs = S
           /\ [logs EXCEPT !.outs = S].client = logs.client
  BY DEF StartTypes, Logs

LEMMA SaveGrows ==
    ASSUME StoreTypes, WritersUp, NEW c \in Clients, SaveStep(c)
    PROVE  Grows
<1>1. SaveEffect(c)
  BY OperationDeps DEF SaveStep
<1>2. strayed \subseteq strayed' /\ (Files \subseteq stale[c] => DepsOf(mem'[c]) \subseteq strayed')
  BY DEF SaveStep, Stray
<1>3. logs' = logs /\ archives' = archives
  BY DEF SaveStep
<1>4. DepsOf(mem'[c]) \subseteq InUse \cup Making \cup strayed'
  <2>1. CASE Files \subseteq stale[c]
    BY <1>2, <2>1
  <2>2. CASE ~(Files \subseteq stale[c])
    BY <1>1, <2>2 DEF SaveEffect, InUse, Current, Making
  <2> QED
    BY <2>1, <2>2
<1>5. \A e \in Clients \ {c} : Current(e)' => Current(e) /\ mem'[e] = mem[e]
  BY <1>1 DEF SaveEffect, Current
<1>6. DepsIn(file') \subseteq InUse \cup DepsOf(mem'[c])
  BY <1>1 DEF SaveEffect, InUse
<1>7. \A e \in Clients : Current(e)' => DepsOf(mem'[e]) \subseteq InUse \cup DepsOf(mem'[c])
  BY <1>5 DEF InUse
<1>8. InUse' \subseteq InUse \cup DepsOf(mem'[c])
  BY <1>6, <1>7 DEF InUse
<1> DEFINE Working == UNION {Own(e) : e \in {d \in Clients : up[d] = "up"}}
<1>9. Own(c) \subseteq Working
  BY <1>1 DEF SaveEffect
<1>10. \A e \in Clients : DepsOf(mem'[e]) \subseteq Known \cup Working
  BY <1>1, <1>9 DEF SaveEffect, Known
<1>11. DepsIn(file') \subseteq Known \cup Working
  BY <1>1, <1>10 DEF SaveEffect, Known
<1>12. Known' \subseteq Known \cup Working
  BY <1>3, <1>10, <1>11 DEF Known
<1> QED
  BY <1>2, <1>3, <1>4, <1>8, <1>12 DEF Grows

LEMMA PipeGrows ==
    ASSUME StartTypes, NEW c \in Clients, WritePipeLog(c)
    PROVE  Grows
<1>1. PICK e \in Range(mem[c]["status"]) : logs' = [logs EXCEPT !.pipes = @ \cup {e.dep}]
  BY DEF WritePipeLog
<1>2. /\ UNCHANGED <<store, archives>> /\ up[c] = "up" /\ strayed \subseteq strayed'
      /\ Files \subseteq stale[c] => logs'.pipes \ logs.pipes \subseteq strayed'
  BY DEF WritePipeLog, Stray
<1>3. logs'.pipes = logs.pipes \cup {e.dep} /\ logs'.outs = logs.outs
  BY <1>1, LogsFields
<1>4. e.dep \in DepsOf(mem[c])
  BY <1>1 DEF DepsOf, Files
<1>5. Files \subseteq stale[c] \/ e.dep \in InUse
  BY <1>2, <1>4 DEF InUse, Current
<1>6. InUse' = InUse
  BY <1>2 DEF InUse, Current, store
<1>7. Known' \subseteq Known
  <2>1. file' = file /\ mem' = mem /\ archives' = archives
    BY <1>2 DEF store
  <2>2. e.dep \in UNION {DepsOf(mem[d]) : d \in Clients}
    BY <1>4
  <2>3. /\ DepsIn(file') = DepsIn(file)
        /\ UNION {DepsOf(mem'[d]) : d \in Clients} = UNION {DepsOf(mem[d]) : d \in Clients}
        /\ UNION {ArchivedIn(a) : a \in archives'} = UNION {ArchivedIn(a) : a \in archives}
        /\ OutDeps(logs'.outs) = OutDeps(logs.outs)
    BY <1>3, <2>1
  <2> QED
    BY <1>3, <2>2, <2>3 DEF Known
<1> QED
  BY <1>2, <1>3, <1>5, <1>6, <1>7 DEF Grows

LEMMA GrowsStep ==
    ASSUME StoreTypes, StartTypes, WritersUp, StepInv, OneDeployer, [Next]_vars,
           ~(\E c \in Clients : RotateOutput(c) \/ RotateLogs(c))
    PROVE  Grows
<1>1. CASE UNCHANGED vars
  BY <1>1, QuietGrows DEF vars, store, disk, counts, Current
<1>2. CASE StartBench
  BY <1>2, LogsFields, QuietGrows DEF StartBench, OpenClientLog, store, Current
<1>3. ASSUME NEW c \in Clients, StartDeploy(c) PROVE Grows
  <2>1. \A d \in Clients : Current(d)' => Current(d)
    BY <1>3 DEF StartDeploy, Current, StoreTypes
  <2> QED
    BY <1>3, <2>1, LogsFields, QuietGrows DEF StartDeploy, OpenClientLog
<1>4. ASSUME NEW c \in Clients, StartLater(c) PROVE Grows
  <2>1. /\ \A d \in Clients \ {c} : mem'[d] = mem[d] /\ (Current(d)' => Current(d))
        /\ mem'[c] = [f \in Files |-> file[f].data]
    BY <1>4 DEF StartLater, Load, Takes, Current, StoreTypes
  <2>2. DepsOf(mem'[c]) = DepsIn(file)
    BY <2>1 DEF DepsIn
  <2> QED
    BY <1>4, <2>1, <2>2, QuietGrows DEF StartLater, Load, disk, counts
<1>5. ASSUME NEW c \in Clients, Resolve(c) \/ StashClientLogs(c) \/ RestoreClientLogs(c)
      PROVE  Grows
  <2>1. UNCHANGED <<store, archives, strayed>>
    BY <1>5 DEF Resolve, StashClientLogs, RestoreClientLogs, disk, counts
  <2>2. logs' = logs \/ \E S : logs' = [logs EXCEPT !.client = S]
    BY <1>5 DEF Resolve, StashClientLogs, RestoreClientLogs, disk
  <2>3. logs'.pipes = logs.pipes /\ logs'.outs = logs.outs
    <3>1. ASSUME NEW S, logs' = [logs EXCEPT !.client = S]
          PROVE  logs'.pipes = logs.pipes /\ logs'.outs = logs.outs
      BY <3>1, LogsFields
    <3> QED
      BY <2>2, <3>1
  <2> QED
    BY <2>1, <2>3, QuietGrows DEF store, Current
<1>6. ASSUME NEW c \in Clients, Open(c) \/ Stop(c) PROVE Grows
  <2>1. \A d \in Clients \ {c} : mem'[d] = mem[d] /\ (Current(d)' => Current(d))
    BY <1>6 DEF Open, Stop, Leave, Takes, Current, StoreTypes
  <2>2. mem'[c] = NoContents
    BY <1>6 DEF Open, Stop, Leave, Takes, StoreTypes
  <2> QED
    BY <1>6, <2>1, <2>2, EmptyDeps, QuietGrows DEF Open, Stop, Leave, disk, counts
<1> QED
  BY <1>1, <1>2, <1>3, <1>4, <1>5, <1>6, SaveGrows, PipeGrows DEF Next
----------------------------------------------------------------------------
LEMMA OneDeployerStep ==
    ASSUME StoreTypes, StartTypes, WritersUp, StepInv, OneDeployer, [Next]_vars
    PROVE  /\ OneDeployer'
           /\ \A c \in Clients : dep'[c] \in {dep[c], 0, deployments + 1}
<1> USE DEF OneDeployer
<1>1. CASE UNCHANGED <<up, dep, mem, deployments>>
  BY <1>1
<1>2. ASSUME NEW c \in Clients, StartDeploy(c)
      PROVE  OneDeployer' /\ \A d \in Clients : dep'[d] \in {dep[d], 0, deployments + 1}
  <2>1. /\ \A d \in Clients : dep[d] = 0
        /\ deployments' = deployments + 1 /\ dep' = [dep EXCEPT ![c] = deployments + 1]
        /\ up' = [up EXCEPT ![c] = "starting"] /\ mem' = mem /\ up[c] = "down"
    BY <1>2 DEF StartDeploy
  <2>2. deployments \in Nat
    BY DEF StoreTypes
  <2> QED
    BY <2>1, <2>2 DEF StoreTypes
<1>3. ASSUME NEW c \in Clients, dep'[c] \in {0, dep[c]},
             \A d \in Clients \ {c} : up'[d] = up[d] /\ dep'[d] = dep[d] /\ mem'[d] = mem[d],
             up'[c] = "starting" => dep'[c] # 0, up'[c] = "down" => dep'[c] = 0,
             up'[c] # "up" => mem'[c] = NoContents, deployments' = deployments
      PROVE  OneDeployer' /\ \A d \in Clients : dep'[d] \in {dep[d], 0, deployments + 1}
  <2>1. \A d \in Clients : dep'[d] \in {0, dep[d]}
    BY <1>3
  <2>2. \A d, e \in Clients : dep'[d] # 0 /\ dep'[e] # 0 => d = e
    BY <2>1
  <2>3. \A d \in Clients : dep'[d] \in 0..deployments'
    BY <1>3, <2>1 DEF StoreTypes
  <2>4. ASSUME NEW d \in Clients
        PROVE  /\ up'[d] = "starting" => dep'[d] # 0
               /\ up'[d] = "down" => dep'[d] = 0
               /\ dep'[d] \in 0..deployments'
               /\ up'[d] # "up" => mem'[d] = NoContents
    BY <1>3, <2>3
  <2>5. OneDeployer'
    BY <2>2, <2>4
  <2>6. \A d \in Clients : dep'[d] \in {dep[d], 0, deployments + 1}
    BY <2>1
  <2> QED
    BY <2>5, <2>6
<1>4. ASSUME NEW c \in Clients, StartLater(c) \/ Open(c)
      PROVE  OneDeployer' /\ \A d \in Clients : dep'[d] \in {dep[d], 0, deployments + 1}
  <2>1. /\ \A d \in Clients \ {c} : up'[d] = up[d] /\ dep'[d] = dep[d] /\ mem'[d] = mem[d]
        /\ up'[c] = "up" /\ deployments' = deployments
    BY <1>4 DEF StartLater, Load, Takes, Open, StoreTypes, counts
  <2>2. dep'[c] \in {0, dep[c]}
    BY <1>4 DEF StartLater, Load, Open, StoreTypes
  <2> QED
    BY <1>3, <2>1, <2>2
<1>5. ASSUME NEW c \in Clients, Stop(c)
      PROVE  OneDeployer' /\ \A d \in Clients : dep'[d] \in {dep[d], 0, deployments + 1}
  <2>1. /\ \A d \in Clients \ {c} : up'[d] = up[d] /\ dep'[d] = dep[d] /\ mem'[d] = mem[d]
        /\ up'[c] = "down" /\ dep'[c] = 0 /\ mem'[c] = NoContents /\ deployments' = deployments
    BY <1>5 DEF Stop, Leave, Takes, StoreTypes
  <2> QED
    BY <1>3, <2>1
<1>6. ASSUME NEW c \in Clients, SaveStep(c)
      PROVE  OneDeployer' /\ \A d \in Clients : dep'[d] \in {dep[d], 0, deployments + 1}
  BY <1>6, OperationDeps DEF SaveStep, SaveEffect, counts
<1>7. ASSUME NEW c \in Clients,
             \/ Resolve(c) \/ StashClientLogs(c) \/ RotateOutput(c) \/ RotateLogs(c)
             \/ RestoreClientLogs(c) \/ WritePipeLog(c)
      PROVE  UNCHANGED <<up, dep, mem, deployments>>
  BY <1>7 DEF Resolve, StashClientLogs, RotateOutput, RotateLogs, RestoreClientLogs, WritePipeLog,
              NewDirectory, store, counts
<1>8. StartBench \/ UNCHANGED vars => UNCHANGED <<up, dep, mem, deployments>>
  BY DEF StartBench, vars, store, counts
<1> QED
  BY <1>1, <1>2, <1>4, <1>5, <1>6, <1>7, <1>8 DEF Next

\* Past the rotation of the output directory, and of the log directory.
PastOutput(c) == dep[c] # 0 /\ (step[c] \in {"logs", "restore", "open"} \/ up[c] = "up")
PastLogs(c) == dep[c] # 0 /\ (step[c] \in {"restore", "open"} \/ up[c] = "up")

LEMMA PhaseStep ==
    ASSUME StoreTypes, StartTypes, WritersUp, StepInv, [Next]_vars,
           ~(\E c \in Clients : RotateOutput(c) \/ RotateLogs(c)), NEW c \in Clients
    PROVE  /\ PastOutput(c)' => PastOutput(c) /\ dep'[c] = dep[c]
           /\ PastLogs(c)' => PastLogs(c)
           /\ step'[c] = "logs" => step[c] = "logs" /\ stamp'[c] = stamp[c]
           /\ step[c] = "logs" => cut' \/ (step'[c] = "logs" /\ stamp'[c] = stamp[c])
           /\ cut => cut'
<1> USE DEF PastOutput, PastLogs, StepInv
<1> DEFINE Claim == /\ PastOutput(c)' => PastOutput(c) /\ dep'[c] = dep[c]
                    /\ PastLogs(c)' => PastLogs(c)
                    /\ step'[c] = "logs" => step[c] = "logs" /\ stamp'[c] = stamp[c]
                    /\ step[c] = "logs" => cut' \/ (step'[c] = "logs" /\ stamp'[c] = stamp[c])
                    /\ cut => cut'
<1>1. CASE UNCHANGED <<up, dep, step, stamp, cut>>
  BY <1>1
<1>2. ASSUME NEW d \in Clients, StartDeploy(d) PROVE Claim
  BY <1>2 DEF StartDeploy, StoreTypes
<1>3. ASSUME NEW d \in Clients, StartLater(d) PROVE Claim
  BY <1>3 DEF StartLater, Load, StoreTypes, starting
<1>4. ASSUME NEW d \in Clients, Resolve(d) PROVE Claim
  <2>1. UNCHANGED <<up, dep, cut>> /\ step[d] = "resolve" /\ step' = [step EXCEPT ![d] = "stash"]
        /\ \E ts : stamp' = [stamp EXCEPT ![d] = ts]
    BY <1>4 DEF Resolve, At, store, counts
  <2>2. c # d => step'[c] = step[c]
    BY <2>1
  <2> QED
    BY <2>1, <2>2 DEF StoreTypes
<1>5. ASSUME NEW d \in Clients, StashClientLogs(d) \/ RestoreClientLogs(d) PROVE Claim
  <2>1. UNCHANGED <<up, dep, cut, stamp>>
        /\ \/ step[d] = "stash" /\ step' = [step EXCEPT ![d] = "output"]
           \/ step[d] = "restore" /\ step' = [step EXCEPT ![d] = "open"]
    BY <1>5 DEF StashClientLogs, RestoreClientLogs, At, store, counts
  <2> QED
    BY <2>1
<1>6. ASSUME NEW d \in Clients, Open(d) PROVE Claim
  BY <1>6 DEF Open, At, counts
<1>7. ASSUME NEW d \in Clients, Stop(d) PROVE Claim
  BY <1>7 DEF Stop, Leave, StoreTypes, StartTypes
<1>8. ASSUME NEW d \in Clients, WritePipeLog(d) \/ SaveStep(d)
      PROVE  UNCHANGED <<up, dep, step, stamp, cut>>
  BY <1>8, OperationDeps DEF WritePipeLog, SaveStep, SaveEffect, store, starting
<1>9. StartBench \/ UNCHANGED vars => UNCHANGED <<up, dep, step, stamp, cut>>
  BY DEF StartBench, vars, store, starting, counts
<1> QED
  BY <1>1, <1>2, <1>3, <1>4, <1>5, <1>6, <1>7, <1>8, <1>9 DEF Next
----------------------------------------------------------------------------
(* The steps that keep the invariants. *)

\* Deployments on record have begun, and are not the one whose NewDeployer runs.
KnownInv ==
    \A d \in Known : d \in 1..deployments /\ \A c \in Clients : up[c] = "starting" => d # dep[c]

\* A client that holds contents of the directory that is there has their file there.
FilesInv ==
    /\ ~outDir => \A f \in Files : file[f] = Absent
    /\ \A c \in Clients, f \in Files : Current(c) /\ mem[c][f] # <<>> => file[f] # Absent

\* Once the old output directory is away nothing in use is of another deployment, and once
\* the old log directory is, no log is.
FreshInv ==
    \A c \in Clients :
        /\ PastOutput(c) => InUse \subseteq {dep[c]} \cup strayed
        /\ PastLogs(c) => logs.pipes \subseteq {dep[c]} \cup strayed

\* What is archived is not in use any more, nor of the deployment that runs.
Apart == \A a \in archives : ArchivedIn(a) \cap (InUse \cup Making) \subseteq strayed

\* What the step of every other part rests on.
Basic == StoreTypes /\ StartTypes /\ WritersUp /\ StepInv /\ OneDeployer /\ KnownInv /\ FilesInv

LEMMA NothingInUse ==
    ASSUME FilesInv, \A f \in Files : file[f] = Absent
    PROVE  DepsIn(file) = {} /\ InUse = {}
<1>1. DepsIn(file) = {}
  <2>1. \A f \in Files : SeqDeps(file[f].data) = {}
    BY EmptyDeps DEF Absent
  <2> QED
    BY <2>1, DepsInFiles
<1>2. ASSUME NEW c \in Clients, Current(c) PROVE DepsOf(mem[c]) = {}
  <2>1. \A f \in Files : mem[c][f] = <<>>
    BY <1>2 DEF FilesInv
  <2> QED
    BY <2>1, EmptyDeps, DepsBySeq
<1> QED
  BY <1>1, <1>2 DEF InUse

LEMMA NewDirectoryEmpty ==
    ASSUME StoreTypes, NewDirectory
    PROVE  /\ DepsIn(file') = {} /\ InUse' = {} /\ \A f \in Files : file'[f] = Absent
           /\ \A c \in Clients : ~Current(c)'
           /\ up' = up /\ dep' = dep /\ mem' = mem
<1>1. /\ file' = [f \in Files |-> Absent] /\ up' = up /\ dep' = dep /\ mem' = mem
      /\ stale' = [c \in Clients |-> IF up[c] = "up" THEN Files ELSE stale[c]]
  BY DEF NewDirectory
<1>2. \A f \in Files : file'[f] = Absent /\ SeqDeps(file'[f].data) = {}
  BY <1>1, EmptyDeps DEF Absent
<1>3. DepsIn(file') = {}
  BY <1>2, DepsInFiles
<1>4. \A c \in Clients : ~Current(c)'
  BY <1>1 DEF Current
<1> QED
  BY <1>1, <1>2, <1>3, <1>4 DEF InUse

\* What a rotation of the output directory does.
LEMMA RotateOutputEffect ==
    ASSUME Basic, NEW c \in Clients, RotateOutput(c)
    PROVE  /\ step[c] = "output" /\ step' = [step EXCEPT ![c] = "logs"] /\ up[c] = "starting"
           /\ UNCHANGED <<up, dep, mem, deployments, opened, cut, late, strayed, nested, stamp, preserves,
                          stashed>>
           /\ InUse' = {} /\ DepsIn(file') = {} /\ logs'.pipes = logs.pipes /\ logs'.client = logs.client
           /\ \/ logs' = logs /\ archives' = archives
              \/ /\ nested /\ archives' = archives
                 /\ OutDeps(logs'.outs) = OutDeps(logs.outs) \cup DepsIn(file)
              \/ /\ ~nested /\ logs' = logs
                 /\ \E b : /\ archives' = archives \cup {b} /\ b.ts \in StampsOfOutput(c)
                           /\ b.pipes = {} /\ b.client = {} /\ OutDeps(b.outs) = DepsIn(file)
<1>1. /\ step[c] = "output" /\ step' = [step EXCEPT ![c] = "logs"] /\ up[c] = "starting"
      /\ UNCHANGED <<deployments, opened, cut, late, strayed, nested, stamp, preserves, stashed>>
  BY DEF RotateOutput, At, counts, Basic, StepInv
<1>2. CASE OutRotatable
  <2>1. NewDirectory
    BY <1>2 DEF RotateOutput
  <2>2. PICK ts \in StampsOfOutput(c) :
            LET old == [deps |-> DepsIn(file), ts |-> ts] IN
            \/ nested /\ logs' = [logs EXCEPT !.outs = @ \cup {old}] /\ UNCHANGED archives
            \/ /\ ~nested
               /\ archives' = archives \cup {[NoTree EXCEPT !.outs = {old}, !.ts = ts]}
               /\ UNCHANGED logs
    BY <1>2 DEF RotateOutput
  <2> DEFINE old == [deps |-> DepsIn(file), ts |-> ts]
  <2>3. old.deps = DepsIn(file)
    OBVIOUS
  <2>4. CASE nested
    <3>1. logs' = [logs EXCEPT !.outs = @ \cup {old}] /\ archives' = archives
      BY <2>2, <2>4
    <3>2. logs'.pipes = logs.pipes /\ logs'.client = logs.client /\ logs'.outs = logs.outs \cup {old}
      BY <3>1, LogsFields DEF Basic
    <3>3. OutDeps(logs'.outs) = OutDeps(logs.outs) \cup DepsIn(file)
      <4> HIDE DEF old
      <4>1. OutDeps(logs.outs \cup {old}) = OutDeps(logs.outs) \cup old.deps
        BY OutDepsOf
      <4> QED
        BY <2>3, <3>2, <4>1
    <3> QED
      BY <1>1, <2>1, <2>4, <3>1, <3>2, <3>3, NewDirectoryEmpty DEF Basic
  <2>5. CASE ~nested
    <3> DEFINE b == [NoTree EXCEPT !.outs = {old}, !.ts = ts]
    <3>1. archives' = archives \cup {b} /\ logs' = logs
      BY <2>2, <2>5
    <3>2. b.pipes = {} /\ b.client = {} /\ b.outs = {old} /\ b.ts = ts
      BY DEF NoTree
    <3>3. OutDeps({old}) = old.deps
      BY DEF OutDeps
    <3> HIDE DEF old, b
    <3>4. OutDeps(b.outs) = DepsIn(file)
      BY <2>3, <3>2, <3>3
    <3> QED
      BY <1>1, <2>1, <2>2, <2>5, <3>1, <3>2, <3>4, NewDirectoryEmpty DEF Basic
  <2> QED
    BY <2>4, <2>5
<1>3. CASE ~OutRotatable
  <2>1. UNCHANGED <<store, logs, archives>>
    BY <1>3 DEF RotateOutput
  <2>2. \A f \in Files : file[f] = Absent
    BY <1>3 DEF OutRotatable, Basic, FilesInv
  <2>3. DepsIn(file) = {} /\ InUse = {}
    BY <2>2, NothingInUse DEF Basic
  <2>4. InUse' = InUse /\ up' = up /\ dep' = dep /\ mem' = mem /\ file' = file
    BY <2>1 DEF store, InUse, Current
  <2> QED
    BY <1>1, <2>1, <2>3, <2>4
<1> QED
  BY <1>2, <1>3

\* What a rotation of the log directory does.
LEMMA RotateLogsEffect ==
    ASSUME Basic, NEW c \in Clients, RotateLogs(c)
    PROVE  /\ step[c] = "logs" /\ step' = [step EXCEPT ![c] = "restore"] /\ up[c] = "starting"
           /\ UNCHANGED <<up, dep, mem, deployments, opened, cut, late, strayed, nested, stamp, preserves,
                          stashed>>
           /\ InUse' \subseteq InUse /\ DepsIn(file') \subseteq DepsIn(file) /\ logs' = NoLogs
           /\ \/ archives' = archives /\ logs.client = {}
              \/ \E b : /\ archives' = archives \cup {b} /\ b.ts \in StampsOfLogs(c)
                        /\ b.pipes = logs.pipes /\ b.client = logs.client
                        /\ \/ OutDeps(b.outs) = OutDeps(logs.outs) /\ (~nested => b.outs = logs.outs)
                           \/ /\ nested /\ InUse' = {}
                              /\ OutDeps(b.outs) = OutDeps(logs.outs) \cup DepsIn(file)
<1>1. /\ step[c] = "logs" /\ step' = [step EXCEPT ![c] = "restore"] /\ up[c] = "starting"
      /\ UNCHANGED <<deployments, opened, cut, late, strayed, nested, stamp, preserves, stashed>>
  BY DEF RotateLogs, At, counts, Basic, StepInv
<1>2. NewDirectory \/ UNCHANGED store
  BY DEF RotateLogs
<1>3. /\ up' = up /\ dep' = dep /\ mem' = mem /\ InUse' \subseteq InUse
      /\ DepsIn(file') \subseteq DepsIn(file)
  <2>1. CASE NewDirectory
    BY <2>1, NewDirectoryEmpty DEF Basic
  <2>2. CASE UNCHANGED store
    BY <2>2 DEF store, InUse, Current
  <2> QED
    BY <1>2, <2>1, <2>2
<1>4. CASE LogsRotatable
  <2> DEFINE more == IF nested /\ outDir THEN {[deps |-> DepsIn(file), ts |-> 0]} ELSE {}
             outs == logs.outs \cup more
  <2>1. PICK ts \in StampsOfLogs(c) : /\ logs' = NoLogs
            /\ archives' = archives \cup
               {[kind |-> "logs", pipes |-> logs.pipes, client |-> logs.client, ts |-> ts,
                 outs |-> outs]}
    BY <1>4 DEF RotateLogs
  <2> DEFINE b == [kind |-> "logs", pipes |-> logs.pipes, client |-> logs.client, ts |-> ts,
                   outs |-> outs]
  <2>0. /\ archives' = archives \cup {b} /\ b.pipes = logs.pipes /\ b.client = logs.client
        /\ b.ts \in StampsOfLogs(c) /\ b.outs = outs
    BY <2>1
  <2> HIDE DEF b
  <2>2. CASE nested /\ outDir
    <3>1. OutDeps(outs) = OutDeps(logs.outs) \cup [deps |-> DepsIn(file), ts |-> 0].deps
      BY <2>2, OutDepsOf
    <3>2. NewDirectory
      BY <1>4, <2>2 DEF RotateLogs
    <3>3. InUse' = {}
      BY <3>2, NewDirectoryEmpty DEF Basic
    <3> HIDE DEF outs
    <3> QED
      BY <1>1, <1>3, <2>0, <2>1, <2>2, <3>1, <3>3
  <2>3. CASE ~(nested /\ outDir)
    <3>1. outs = logs.outs
      BY <2>3
    <3> HIDE DEF outs
    <3> QED
      BY <1>1, <1>3, <2>0, <2>1, <3>1
  <2> QED
    BY <2>2, <2>3
<1>5. CASE ~LogsRotatable
  <2>1. archives' = archives /\ logs' = logs /\ logs = NoLogs
    BY <1>5 DEF RotateLogs, LogsRotatable
  <2>2. logs.client = {}
    BY <2>1 DEF NoLogs
  <2> QED
    BY <1>1, <1>3, <2>1, <2>2
<1> QED
  BY <1>4, <1>5
----------------------------------------------------------------------------
Rotation == \E c \in Clients : RotateOutput(c) \/ RotateLogs(c)

\* A rotation puts at most one archive more, with what was in the directories.
LEMMA RotationMoves ==
    ASSUME Basic, Rotation
    PROVE  /\ UNCHANGED <<up, dep, mem, deployments, cut, late, strayed, nested, stamp>>
           /\ InUse' \subseteq InUse /\ DepsIn(file') \subseteq DepsIn(file)
           /\ logs'.pipes \subseteq logs.pipes
           /\ OutDeps(logs'.outs) \subseteq OutDeps(logs.outs) \cup DepsIn(file)
           /\ \A a \in archives' : a \in archives \/
                 ArchivedIn(a) \subseteq DepsIn(file) \cup logs.pipes \cup OutDeps(logs.outs)
<1>1. ASSUME NEW c \in Clients, RotateOutput(c)
      PROVE  \A a \in archives' : a \in archives \/
                 ArchivedIn(a) \subseteq DepsIn(file) \cup logs.pipes \cup OutDeps(logs.outs)
  BY <1>1, RotateOutputEffect DEF ArchivedIn
<1>2. ASSUME NEW c \in Clients, RotateLogs(c)
      PROVE  \A a \in archives' : a \in archives \/
                 ArchivedIn(a) \subseteq DepsIn(file) \cup logs.pipes \cup OutDeps(logs.outs)
  BY <1>2, RotateLogsEffect DEF ArchivedIn
<1>3. NoLogs.pipes = {} /\ OutDeps(NoLogs.outs) = {}
  BY DEF NoLogs, OutDeps
<1>4. ASSUME NEW c \in Clients, RotateOutput(c)
      PROVE  /\ UNCHANGED <<up, dep, mem, deployments, cut, late, strayed, nested, stamp>>
             /\ InUse' \subseteq InUse /\ DepsIn(file') \subseteq DepsIn(file)
             /\ logs'.pipes \subseteq logs.pipes
             /\ OutDeps(logs'.outs) \subseteq OutDeps(logs.outs) \cup DepsIn(file)
  BY <1>4, RotateOutputEffect
<1>5. ASSUME NEW c \in Clients, RotateLogs(c)
      PROVE  /\ UNCHANGED <<up, dep, mem, deployments, cut, late, strayed, nested, stamp>>
             /\ InUse' \subseteq InUse /\ DepsIn(file') \subseteq DepsIn(file)
             /\ logs'.pipes \subseteq logs.pipes
             /\ OutDeps(logs'.outs) \subseteq OutDeps(logs.outs) \cup DepsIn(file)
  BY <1>3, <1>5, RotateLogsEffect
<1> QED
  BY <1>1, <1>2, <1>4, <1>5 DEF Rotation

LEMMA KnownStep ==
    ASSUME Basic, [Next]_vars
    PROVE  KnownInv'
<1> DEFINE Working == UNION {Own(c) : c \in {e \in Clients : up[e] = "up"}}
<1>1. Known' \subseteq Known \cup Working
  <2>1. CASE Rotation
    <3>1. \A a \in archives' : ArchivedIn(a) \subseteq Known
      BY <2>1, RotationMoves DEF Known
    <3>2. /\ DepsIn(file') \subseteq Known /\ logs'.pipes \subseteq Known
          /\ OutDeps(logs'.outs) \subseteq Known
      BY <2>1, RotationMoves DEF Known
    <3>3. UNION {DepsOf(mem'[c]) : c \in Clients} = UNION {DepsOf(mem[c]) : c \in Clients}
      BY <2>1, RotationMoves
    <3>4. UNION {DepsOf(mem'[c]) : c \in Clients} \subseteq Known
      BY <3>3 DEF Known
    <3>5. UNION {ArchivedIn(a) : a \in archives'} \subseteq Known
      BY <3>1
    <3> QED
      BY <3>2, <3>4, <3>5 DEF Known
  <2>2. CASE ~Rotation
    BY <2>2, GrowsStep DEF Basic, Rotation, Grows
  <2> QED
    BY <2>1, <2>2
<1>2. ASSUME NEW d \in Known'
      PROVE  d \in 1..deployments /\ \A c \in Clients : up[c] = "starting" => d # dep[c]
  <2>1. CASE d \in Known
    BY <2>1 DEF Basic, KnownInv
  <2>2. CASE d \notin Known
    <3>1. PICK c \in Clients : up[c] = "up" /\ d \in Own(c)
      BY <1>1, <1>2, <2>2
    <3>2. d = dep[c] /\ d # 0
      BY <3>1 DEF Own
    <3>3. d \in 1..deployments
      BY <3>2 DEF Basic, OneDeployer, StoreTypes
    <3>4. \A e \in Clients : up[e] = "starting" => d # dep[e]
      BY <3>1, <3>2 DEF Basic, OneDeployer
    <3> QED
      BY <3>3, <3>4
  <2> QED
    BY <2>1, <2>2
<1>3. deployments \in Nat /\ deployments' \in Nat /\ deployments <= deployments'
      /\ \A c \in Clients : up'[c] = "starting" =>
            \/ up[c] = "starting" /\ dep'[c] = dep[c]
            \/ dep'[c] = deployments + 1
  <2>0. deployments \in Nat
    BY DEF Basic, StoreTypes
  <2>1. CASE UNCHANGED <<up, dep, deployments>>
    BY <2>0, <2>1
  <2>2. ASSUME NEW c \in Clients, StartDeploy(c)
        PROVE  deployments' = deployments + 1
               /\ \A e \in Clients : up'[e] = "starting" =>
                     \/ up[e] = "starting" /\ dep'[e] = dep[e]
                     \/ dep'[e] = deployments + 1
    BY <2>2 DEF StartDeploy, Basic, StoreTypes
  <2>3. ASSUME NEW c \in Clients, StartLater(c) \/ Open(c) \/ Stop(c)
        PROVE  deployments' = deployments
               /\ \A e \in Clients : up'[e] = "starting" => up[e] = "starting" /\ dep'[e] = dep[e]
    BY <2>3 DEF StartLater, Load, Open, Stop, Leave, Basic, StoreTypes, counts
  <2>4. ASSUME NEW c \in Clients,
               \/ Resolve(c) \/ StashClientLogs(c) \/ RestoreClientLogs(c) \/ WritePipeLog(c)
               \/ SaveStep(c)
        PROVE  UNCHANGED <<up, dep, deployments>>
    BY <2>4, OperationDeps DEF Resolve, StashClientLogs, RestoreClientLogs, WritePipeLog, SaveStep,
                SaveEffect, store, counts, Basic
  <2>5. Rotation => UNCHANGED <<up, dep, deployments>>
    BY RotationMoves
  <2>6. StartBench \/ UNCHANGED vars => UNCHANGED <<up, dep, deployments>>
    BY DEF StartBench, vars, store, counts
  <2> QED
    BY <2>0, <2>1, <2>2, <2>3, <2>4, <2>5, <2>6 DEF Next, Rotation
<1>4. ASSUME NEW d \in Known'
      PROVE  d \in 1..deployments' /\ \A c \in Clients : up'[c] = "starting" => d # dep'[c]
  <2>1. d \in 1..deployments /\ \A c \in Clients : up[c] = "starting" => d # dep[c]
    BY <1>2
  <2> QED
    BY <1>3, <2>1
<1> QED
  BY <1>4 DEF KnownInv
----------------------------------------------------------------------------
LEMMA FilesStep ==
    ASSUME Basic, [Next]_vars
    PROVE  FilesInv'
<1>1. (~outDir)' => \A f \in Files : file'[f] = Absent
  <2>1. ASSUME outDir' = outDir, file' = file
        PROVE  (~outDir)' => \A f \in Files : file'[f] = Absent
    BY <2>1 DEF Basic, FilesInv
  <2>2. ASSUME NEW c \in Clients, RotateOutput(c) \/ RotateLogs(c)
        PROVE  (~outDir)' => \A f \in Files : file'[f] = Absent
    <3>1. (outDir' = outDir /\ file' = file) \/ NewDirectory
      BY <2>2 DEF RotateOutput, RotateLogs, store
    <3> QED
      BY <2>1, <3>1, NewDirectoryEmpty DEF Basic
  <2>3. ASSUME NEW c \in Clients,
               \/ StartDeploy(c) \/ StartLater(c) \/ Resolve(c) \/ StashClientLogs(c)
               \/ RestoreClientLogs(c) \/ WritePipeLog(c) \/ Stop(c)
        PROVE  outDir' = outDir /\ file' = file
    BY <2>3 DEF StartDeploy, StartLater, Load, Resolve, StashClientLogs, RestoreClientLogs,
                WritePipeLog, Stop, Leave, store, disk
  <2>4. ASSUME NEW c \in Clients, SaveStep(c) \/ Open(c)
        PROVE  outDir' = TRUE
    BY <2>4 DEF SaveStep, Open
  <2>5. StartBench \/ UNCHANGED vars => outDir' = outDir /\ file' = file
    BY DEF StartBench, vars, store, disk
  <2> QED
    BY <2>1, <2>2, <2>3, <2>4, <2>5 DEF Next
<1>2. \A c \in Clients, f \in Files : Current(c)' /\ mem'[c][f] # <<>> => file'[f] # Absent
  <2> DEFINE Claim(c) == \A f \in Files : Current(c)' /\ mem'[c][f] # <<>> => file'[f] # Absent
  <2>1. ASSUME NEW c \in Clients, mem'[c] = mem[c], Current(c)' => Current(c),
               \A f \in Files : file'[f] = Absent => file[f] = Absent
        PROVE  Claim(c)
    BY <2>1 DEF Basic, FilesInv
  <2>2. ASSUME NEW c \in Clients, RotateOutput(c) \/ RotateLogs(c), NEW d \in Clients
        PROVE  Claim(d)
    <3>1. NewDirectory \/ UNCHANGED store
      BY <2>2 DEF RotateOutput, RotateLogs
    <3> QED
      BY <2>1, <3>1, NewDirectoryEmpty DEF store, Current, Basic
  <2>3. ASSUME NEW c \in Clients, StartDeploy(c), NEW d \in Clients PROVE Claim(d)
    BY <2>1, <2>3 DEF StartDeploy, Current, Basic, StoreTypes
  <2>4. ASSUME NEW c \in Clients, StartLater(c), NEW d \in Clients PROVE Claim(d)
    <3>1. file' = file
      BY <2>4 DEF StartLater, Load
    <3>2. CASE d # c
      <4>1. mem'[d] = mem[d] /\ (Current(d)' => Current(d))
        BY <2>4, <3>2 DEF StartLater, Load, Takes, Current, Basic, StoreTypes
      <4> QED
        BY <2>1, <3>1, <4>1
    <3>3. CASE d = c
      <4>1. \A f \in Files : mem'[d][f] = file[f].data
        BY <2>4, <3>3 DEF StartLater, Load, Takes, Basic, StoreTypes
      <4> QED
        BY <3>1, <4>1 DEF Absent
    <3> QED
      BY <3>2, <3>3
  <2>5. ASSUME NEW c \in Clients, Open(c) \/ Stop(c), NEW d \in Clients PROVE Claim(d)
    <3>1. CASE d # c
      <4>1. mem'[d] = mem[d] /\ (Current(d)' => Current(d)) /\ file' = file
        BY <2>5, <3>1 DEF Open, Stop, Leave, Takes, Current, Basic, StoreTypes
      <4> QED
        BY <2>1, <4>1
    <3>2. CASE d = c
      <4>1. mem'[d] = NoContents
        BY <2>5, <3>2 DEF Open, Stop, Leave, Takes, Basic, StoreTypes
      <4> QED
        BY <4>1 DEF NoContents
    <3> QED
      BY <3>1, <3>2
  <2>6. ASSUME NEW c \in Clients, SaveStep(c), NEW d \in Clients PROVE Claim(d)
    <3>1. SaveEffect(c)
      BY <2>6, OperationDeps DEF SaveStep, Basic
    <3>2. Current(d)' => Current(d)
      BY <3>1 DEF SaveEffect, Current
    <3>3. \A f \in Files : file'[f] = Absent => file[f] = Absent /\ mem'[d][f] = mem[d][f]
      BY <3>1 DEF SaveEffect
    <3> QED
      BY <3>2, <3>3 DEF Basic, FilesInv
  <2>7. ASSUME NEW c \in Clients,
               \/ Resolve(c) \/ StashClientLogs(c) \/ RestoreClientLogs(c) \/ WritePipeLog(c)
        PROVE  UNCHANGED store
    BY <2>7 DEF Resolve, StashClientLogs, RestoreClientLogs, WritePipeLog
  <2>8. StartBench \/ UNCHANGED vars => UNCHANGED store
    BY DEF StartBench, vars
  <2>9. ASSUME UNCHANGED store, NEW d \in Clients PROVE Claim(d)
    BY <2>1, <2>9 DEF store, Current
  <2> QED
    BY <2>2, <2>3, <2>4, <2>5, <2>6, <2>7, <2>8, <2>9 DEF Next
<1> QED
  BY <1>1, <1>2 DEF FilesInv

LEMMA MakingIsOne ==
    ASSUME OneDeployer, NEW c \in Clients, dep[c] # 0
    PROVE  Making = {dep[c]}
<1>1. Own(c) = {dep[c]} /\ \A d \in Clients \ {c} : Own(d) = {}
  BY DEF OneDeployer, Own
<1> QED
  BY <1>1 DEF Making

LEMMA FreshStep ==
    ASSUME Basic, FreshInv, [Next]_vars
    PROVE  FreshInv'
<1>1. CASE ~Rotation
  <2>1. Grows
    BY <1>1, GrowsStep DEF Basic, Rotation
  <2>2. ASSUME NEW c \in Clients, PastOutput(c)'
        PROVE  /\ PastOutput(c) /\ dep'[c] = dep[c] /\ Making = {dep[c]}
               /\ PastLogs(c)' => PastLogs(c)
    <3>1. PastOutput(c) /\ dep'[c] = dep[c] /\ (PastLogs(c)' => PastLogs(c))
      BY <1>1, <2>2, PhaseStep DEF Basic, Rotation
    <3>2. dep[c] # 0
      BY <3>1 DEF PastOutput
    <3> QED
      BY <3>1, <3>2, MakingIsOne DEF Basic
  <2>3. ASSUME NEW c \in Clients, PastOutput(c)'
        PROVE  InUse' \subseteq {dep'[c]} \cup strayed'
    BY <2>1, <2>2, <2>3 DEF FreshInv, Grows
  <2>4. ASSUME NEW c \in Clients, PastLogs(c)'
        PROVE  logs'.pipes \subseteq {dep'[c]} \cup strayed'
    <3>1. PastOutput(c)'
      BY <2>4 DEF PastLogs, PastOutput
    <3> QED
      BY <2>1, <2>2, <2>4, <3>1 DEF FreshInv, Grows
  <2> QED
    BY <2>3, <2>4 DEF FreshInv
<1>2. ASSUME NEW c \in Clients, RotateOutput(c) PROVE FreshInv'
  <2>1. InUse' = {} /\ \A d \in Clients : ~PastLogs(d)'
    <3>1. /\ InUse' = {} /\ up' = up /\ dep' = dep /\ step' = [step EXCEPT ![c] = "logs"]
          /\ up[c] = "starting"
      BY <1>2, RotateOutputEffect
    <3>2. dep[c] # 0 /\ \A d \in Clients \ {c} : dep[d] = 0
      BY <3>1 DEF Basic, OneDeployer
    <3> QED
      BY <3>1, <3>2 DEF PastLogs, Basic, StepInv
  <2> QED
    BY <2>1 DEF FreshInv
<1>3. ASSUME NEW c \in Clients, RotateLogs(c) PROVE FreshInv'
  <2>1. /\ InUse' \subseteq InUse /\ up' = up /\ dep' = dep /\ step' = [step EXCEPT ![c] = "restore"]
        /\ up[c] = "starting" /\ logs' = NoLogs /\ strayed' = strayed /\ step[c] = "logs"
    BY <1>3, RotateLogsEffect
  <2>2. \A d \in Clients : PastOutput(d)' => PastOutput(d)
    BY <2>1 DEF PastOutput, Basic, StepInv
  <2>3. logs'.pipes = {}
    BY <2>1 DEF NoLogs
  <2> QED
    BY <2>1, <2>2, <2>3 DEF FreshInv
<1> QED
  BY <1>1, <1>2, <1>3 DEF Rotation

LEMMA ApartStep ==
    ASSUME Basic, FreshInv, Apart, [Next]_vars
    PROVE  Apart'
<1>1. Making' \subseteq Making \cup {deployments + 1}
  <2>1. \A c \in Clients : dep'[c] \in {dep[c], 0, deployments + 1}
    BY OneDeployerStep DEF Basic
  <2> QED
    BY <2>1 DEF Making, Own
<1>2. deployments + 1 \notin Known
  BY DEF Basic, KnownInv, StoreTypes
<1>3. \A a \in archives : ArchivedIn(a) \subseteq Known
  BY DEF Known
<1>4. CASE ~Rotation
  <2>1. Grows
    BY <1>4, GrowsStep DEF Basic, Rotation
  <2> QED
    BY <1>1, <1>2, <1>3, <2>1 DEF Apart, Grows
<1>5. ASSUME NEW c \in Clients, RotateOutput(c) \/ RotateLogs(c),
             NEW a \in archives', a \in archives
      PROVE  ArchivedIn(a) \cap (InUse' \cup Making') \subseteq strayed'
  BY <1>1, <1>2, <1>3, <1>5, RotationMoves DEF Apart, Rotation
<1>6. ASSUME NEW c \in Clients, up[c] = "starting", up' = up, dep' = dep
      PROVE  Making' \cap Known = {}
  <2>1. Making' = {dep[c]}
    <3>1. Making' = Making
      BY <1>6 DEF Making, Own
    <3> QED
      BY <1>6, <3>1, MakingIsOne DEF Basic, OneDeployer
  <2> QED
    BY <1>6, <2>1 DEF Basic, KnownInv
<1>7. ASSUME NEW c \in Clients, RotateOutput(c), NEW a \in archives', a \notin archives
      PROVE  ArchivedIn(a) \cap (InUse' \cup Making') \subseteq strayed'
  <2>1. InUse' = {} /\ up[c] = "starting" /\ up' = up /\ dep' = dep
        /\ ArchivedIn(a) \subseteq DepsIn(file)
    BY <1>7, RotateOutputEffect DEF ArchivedIn
  <2>2. DepsIn(file) \subseteq Known
    BY DEF Known
  <2> QED
    BY <1>6, <2>1, <2>2
<1>8. ASSUME NEW c \in Clients, RotateLogs(c), NEW a \in archives', a \notin archives
      PROVE  ArchivedIn(a) \cap (InUse' \cup Making') \subseteq strayed'
  <2>1. InUse' \subseteq InUse /\ up[c] = "starting" /\ up' = up /\ dep' = dep /\ step[c] = "logs"
        /\ strayed' = strayed
        /\ ArchivedIn(a) \subseteq DepsIn(file) \cup logs.pipes \cup OutDeps(logs.outs)
    BY <1>8, RotateLogsEffect DEF ArchivedIn
  <2>2. DepsIn(file) \cup logs.pipes \cup OutDeps(logs.outs) \subseteq Known
    BY DEF Known
  <2>3. dep[c] # 0 /\ InUse \subseteq {dep[c]} \cup strayed /\ dep[c] \notin Known
    BY <2>1 DEF Basic, OneDeployer, KnownInv, FreshInv, PastOutput
  <2> QED
    BY <1>6, <2>1, <2>2, <2>3
<1> QED
  BY <1>4, <1>5, <1>7, <1>8 DEF Apart, Rotation
----------------------------------------------------------------------------
\* With the output directory in the log directory, a deployment is in one archive or in
\* the log directory, not in two of them.
NestedInv == nested =>
    \A a \in archives :
        /\ ArchivedIn(a) \cap (logs.pipes \cup OutDeps(logs.outs)) \subseteq strayed
        /\ \A b \in archives \ {a} : ArchivedIn(a) \cap ArchivedIn(b) \subseteq strayed

LEMMA FlagsStep ==
    ASSUME [Next]_vars, ~Rotation
    PROVE  nested' = nested /\ (cut => cut')
<1>1. nested' = nested
  BY DEF Next, Rotation, vars, StartBench, StartDeploy, StartLater, Resolve, StashClientLogs,
     RestoreClientLogs, Open, WritePipeLog, SaveStep, Stop
<1>2. cut => cut'
  BY DEF Next, Rotation, vars, counts, StartBench, StartDeploy, StartLater, Resolve,
     StashClientLogs, RestoreClientLogs, Open, WritePipeLog, SaveStep, Stop
<1> QED
  BY <1>1, <1>2

LEMMA NestedStep ==
    ASSUME Basic, Apart, NestedInv, [Next]_vars
    PROVE  NestedInv'
<1> DEFINE Held == logs.pipes \cup OutDeps(logs.outs)
<1>0. DepsIn(file) \subseteq InUse
  BY DEF InUse
<1>1. CASE ~Rotation
  <2>1. Grows
    BY <1>1, GrowsStep DEF Basic, Rotation
  <2>2. nested' = nested
    BY <1>1, FlagsStep
  <2>3. Held' \subseteq Held \cup InUse \cup strayed'
    BY <2>1 DEF Grows
  <2>4. ASSUME NEW a \in archives, nested PROVE ArchivedIn(a) \cap Held' \subseteq strayed'
    BY <2>1, <2>3, <2>4 DEF Grows, Apart, NestedInv
  <2> QED
    BY <2>1, <2>2, <2>4 DEF NestedInv, Grows
<1>2. ASSUME NEW c \in Clients, RotateOutput(c) PROVE NestedInv'
  <2>1. /\ nested' = nested /\ strayed' = strayed /\ logs'.pipes = logs.pipes
        /\ nested => archives' = archives
        /\ nested => OutDeps(logs'.outs) \subseteq OutDeps(logs.outs) \cup DepsIn(file)
    BY <1>2, RotateOutputEffect
  <2> QED
    BY <1>0, <2>1 DEF NestedInv, Apart
<1>3. ASSUME NEW c \in Clients, RotateLogs(c) PROVE NestedInv'
  <2>1. Held' = {}
    BY <1>3, RotateLogsEffect DEF NoLogs, OutDeps
  <2>2. nested' = nested /\ strayed' = strayed
    BY <1>3, RotateLogsEffect
  <2>3. CASE archives' = archives
    BY <2>1, <2>2, <2>3 DEF NestedInv
  <2>4. ASSUME NEW b, archives' = archives \cup {b},
               ArchivedIn(b) \subseteq Held \cup DepsIn(file)
        PROVE  NestedInv'
    <3>1. ASSUME nested, NEW a \in archives PROVE ArchivedIn(a) \cap ArchivedIn(b) \subseteq strayed
      BY <1>0, <2>4, <3>1 DEF NestedInv, Apart
    <3>2. ASSUME nested, NEW a \in archives', NEW d \in archives' \ {a}
          PROVE  ArchivedIn(a) \cap ArchivedIn(d) \subseteq strayed
      <4>1. CASE a \in archives /\ d \in archives
        BY <3>2, <4>1 DEF NestedInv
      <4>2. CASE a \in archives /\ d = b
        BY <3>1, <3>2, <4>2
      <4>3. CASE a = b /\ d \in archives
        BY <3>1, <3>2, <4>3
      <4> QED
        BY <2>4, <3>2, <4>1, <4>2, <4>3
    <3> QED
      BY <2>1, <2>2, <3>2 DEF NestedInv
  <2>5. archives' = archives \/ \E b : /\ archives' = archives \cup {b}
                                       /\ ArchivedIn(b) \subseteq Held \cup DepsIn(file)
    BY <1>3, RotateLogsEffect DEF ArchivedIn
  <2> QED
    BY <2>3, <2>4, <2>5
<1> QED
  BY <1>1, <1>2, <1>3 DEF Rotation

LEMMA PipeKeepsClient ==
    ASSUME StartTypes, NEW c \in Clients, WritePipeLog(c)
    PROVE  logs'.client = logs.client
<1>1. PICK e \in Range(mem[c]["status"]) : logs' = [logs EXCEPT !.pipes = @ \cup {e.dep}]
  BY DEF WritePipeLog
<1> QED
  BY <1>1, LogsFields

\* A NewDeployer that has a log has a time stamp to archive under.
StampInv ==
    \A c \in Clients :
        /\ step[c] = "resolve" => logs.client # {}
        /\ step[c] \in {"stash", "output", "logs"} => stamp[c] \in Stamps

LEMMA StampStep ==
    ASSUME Basic, StampInv, [Next]_vars
    PROVE  StampInv'
<1> USE DEF StampInv, Basic
<1>1. CASE UNCHANGED <<step, stamp>> /\ logs.client \subseteq logs'.client
  BY <1>1
<1>c. OpenClientLog => logs'.client # {} /\ logs.client \subseteq logs'.client
  BY LogsFields DEF OpenClientLog
<1>3. ASSUME NEW c \in Clients, StartDeploy(c) PROVE StampInv'
  BY <1>3, <1>c DEF StartDeploy, StepInv
<1>4. StartBench => UNCHANGED <<step, stamp>> /\ logs.client \subseteq logs'.client
  BY <1>c DEF StartBench, starting
<1>5. ASSUME NEW c \in Clients, StartLater(c)
      PROVE  UNCHANGED <<step, stamp>> /\ logs.client \subseteq logs'.client
  BY <1>5 DEF StartLater, starting, disk
<1>6. ASSUME NEW c \in Clients, Resolve(c) PROVE StampInv'
  <2>1. LogsRotatable
    BY <1>6 DEF Resolve, At, LogsRotatable, NoLogs
  <2>2. /\ step' = [step EXCEPT ![c] = "stash"] /\ logs' = logs
        /\ \E ts \in Stamps : stamp' = [stamp EXCEPT ![c] = ts]
    BY <1>6, <2>1 DEF Resolve, At, disk
  <2> QED
    BY <2>2 DEF StepInv, StartTypes
<1>d. \A c, d \in Clients : step[c] # "none" /\ step[d] # "none" => c = d
  BY DEF StepInv, OneDeployer
<1>7. ASSUME NEW c \in Clients,
             \/ StashClientLogs(c) \/ RotateOutput(c) \/ RotateLogs(c) \/ RestoreClientLogs(c)
             \/ Open(c)
      PROVE  StampInv'
  <2>1. /\ step[c] # "none"
        /\ \/ step'[c] \in {"restore", "open", "none"}
           \/ /\ step[c] \in {"stash", "output"} /\ step'[c] \in {"output", "logs"}
              /\ stamp' = stamp
        /\ \A d \in Clients \ {c} : step'[d] = step[d]
    BY <1>7 DEF StashClientLogs, RotateOutput, RotateLogs, RestoreClientLogs, Open, At, StepInv
  <2>2. \A d \in Clients \ {c} : step'[d] = "none"
    BY <1>d, <2>1
  <2> QED
    BY <2>1, <2>2
<1>8. ASSUME NEW c \in Clients, Stop(c) PROVE StampInv'
  BY <1>8 DEF Stop, StepInv, StartTypes, disk
<1>9. ASSUME NEW c \in Clients, WritePipeLog(c) \/ SaveStep(c)
      PROVE  UNCHANGED <<step, stamp>> /\ logs.client \subseteq logs'.client
  BY <1>9, PipeKeepsClient DEF WritePipeLog, SaveStep, starting
<1>10. UNCHANGED vars => UNCHANGED <<step, stamp>> /\ logs.client \subseteq logs'.client
  BY DEF vars, starting, disk
<1> QED
  BY <1>1, <1>3, <1>4, <1>5, <1>6, <1>7, <1>8, <1>9, <1>10 DEF Next

\* While the client logs are moved aside, only later ones are in the log directory, and the
\* NewDeployer knows where the others are.
AsideInv ==
    \A c \in Clients : step[c] \in {"output", "logs", "restore"} =>
        /\ logs.client \subseteq late
        /\ stashed[c] = {} \/ stashed[c] \in preserves
        /\ late = {} /\ ~cut => stashed[c] = 1..opened

\* Where client logs are.
Kept(here, aside, archived) == here \cup (UNION aside) \cup (UNION {a.client : a \in archived})

LEMMA KeptStashed ==
    ASSUME NEW here, NEW aside, NEW archived
    PROVE  Kept({}, aside \cup ({here} \ {{}}), archived) = Kept(here, aside, archived)
<1>1. UNION (aside \cup ({here} \ {{}})) = here \cup (UNION aside)
  OBVIOUS
<1> QED
  BY <1>1 DEF Kept

LEMMA KeptArchived ==
    ASSUME NEW here, NEW aside, NEW archived, NEW a
    PROVE  /\ a.client = {} => Kept(here, aside, archived \cup {a}) = Kept(here, aside, archived)
           /\ a.client = here => Kept({}, aside, archived \cup {a}) = Kept(here, aside, archived)
<1> DEFINE before == UNION {b.client : b \in archived}
           after == UNION {b.client : b \in archived \cup {a}}
<1>1. after = before \cup a.client
  OBVIOUS
<1>2. /\ Kept(here, aside, archived \cup {a}) = here \cup (UNION aside) \cup after
      /\ Kept({}, aside, archived \cup {a}) = {} \cup (UNION aside) \cup after
      /\ Kept(here, aside, archived) = here \cup (UNION aside) \cup before
  BY DEF Kept
<1> HIDE DEF before, after
<1>3. CASE a.client = {}
  <2>1. after = before
    BY <1>1, <1>3
  <2>2. Kept(here, aside, archived \cup {a}) = Kept(here, aside, archived)
    BY <1>2, <2>1
  <2>3. here = {} => Kept({}, aside, archived \cup {a}) = Kept(here, aside, archived)
    BY <2>2
  <2> QED
    BY <1>3, <2>2, <2>3
<1>4. CASE a.client = here
  <2>0. after = before \cup here
    BY <1>1, <1>4
  <2>1. {} \cup (UNION aside) \cup after = here \cup (UNION aside) \cup before
    BY <2>0
  <2>2. Kept({}, aside, archived \cup {a}) = Kept(here, aside, archived)
    BY <1>2, <2>1
  <2>3. here = {} => Kept(here, aside, archived \cup {a}) = Kept(here, aside, archived)
    BY <2>2
  <2> QED
    BY <1>4, <2>2, <2>3
<1> QED
  BY <1>3, <1>4

LEMMA KeptBack ==
    ASSUME NEW aside, NEW archived, NEW back \in aside
    PROVE  Kept(back, aside \ {back}, archived) = Kept({}, aside, archived)
<1>1. back \cup UNION (aside \ {back}) = UNION aside
  OBVIOUS
<1> QED
  BY <1>1 DEF Kept

\* The parts of ClientLogsStay.
NoneLost == Kept(logs.client, preserves, archives) = 1..opened
OnlyLateArchived == \A a \in archives : a.client \subseteq late
AllHere == late = {} /\ ~cut /\ ~Aside => logs.client = 1..opened

LEMMA ClientLogsStayParts == ClientLogsStay <=> NoneLost /\ OnlyLateArchived /\ AllHere
BY DEF ClientLogsStay, NoneLost, Kept, OnlyLateArchived, AllHere

\* A new client log is the next one.
LEMMA OpenStep ==
    ASSUME StartTypes, OpenClientLog
    PROVE  /\ logs'.client = logs.client \cup {opened'} /\ 1..opened' = (1..opened) \cup {opened'}
           /\ late' = IF Aside THEN late \cup {opened'} ELSE late
<1>1. opened \in Nat /\ opened' = opened + 1
  BY DEF OpenClientLog, StartTypes
<1>2. 1..opened' = (1..opened) \cup {opened'}
  BY <1>1
<1> QED
  BY <1>2, LogsFields DEF OpenClientLog

LEMMA NoneLostStep ==
    ASSUME Basic, AsideInv, NoneLost, [Next]_vars
    PROVE  NoneLost'
<1> USE DEF NoneLost
<1>0. StartTypes
  BY DEF Basic
<1>1. ASSUME UNCHANGED <<preserves, archives, opened>>, logs'.client = logs.client
      PROVE  NoneLost'
  BY <1>1
<1>2. ASSUME OpenClientLog, UNCHANGED <<preserves, archives>> PROVE NoneLost'
  <2>1. logs'.client = logs.client \cup {opened'} /\ 1..opened' = (1..opened) \cup {opened'}
    BY <1>0, <1>2, OpenStep
  <2>2. Kept(logs.client \cup {opened'}, preserves, archives)
            = Kept(logs.client, preserves, archives) \cup {opened'}
    BY DEF Kept
  <2> QED
    BY <1>2, <2>1, <2>2
<1>3. ASSUME NEW c \in Clients, StartDeploy(c) PROVE NoneLost'
  BY <1>2, <1>3 DEF StartDeploy
<1>5. StartBench => NoneLost'
  BY <1>2 DEF StartBench
<1>4. ASSUME NEW c \in Clients,
             \/ StartLater(c) \/ WritePipeLog(c) \/ SaveStep(c) \/ Resolve(c) \/ Open(c) \/ Stop(c)
      PROVE  UNCHANGED <<preserves, archives, opened>> /\ logs'.client = logs.client
  <2>1. WritePipeLog(c) => logs'.client = logs.client
    BY <1>0, PipeKeepsClient
  <2> QED
    BY <1>4, <2>1 DEF StartLater, WritePipeLog, SaveStep, Resolve, Open, Stop, disk, counts
<1>6. ASSUME NEW c \in Clients, StashClientLogs(c) PROVE NoneLost'
  <2>1. /\ archives' = archives /\ opened' = opened /\ logs'.client = {}
        /\ preserves' = preserves \cup ({logs.client} \ {{}})
    BY <1>0, <1>6, LogsFields DEF StashClientLogs, counts
  <2>2. Kept({}, preserves \cup ({logs.client} \ {{}}), archives)
            = Kept(logs.client, preserves, archives)
    BY KeptStashed
  <2> QED
    BY <2>1, <2>2
<1>7. ASSUME NEW c \in Clients, RotateOutput(c) PROVE NoneLost'
  <2>1. /\ UNCHANGED <<preserves, opened>> /\ logs'.client = logs.client
        /\ archives' = archives \/ \E b : archives' = archives \cup {b} /\ b.client = {}
    BY <1>7, RotateOutputEffect
  <2>2. ASSUME NEW b, b.client = {}
        PROVE  Kept(logs.client, preserves, archives \cup {b}) = Kept(logs.client, preserves, archives)
    BY <2>2, KeptArchived
  <2> QED
    BY <2>1, <2>2
<1>8. ASSUME NEW c \in Clients, RotateLogs(c) PROVE NoneLost'
  <2>1. /\ UNCHANGED <<preserves, opened>> /\ logs' = NoLogs
        /\ \/ archives' = archives /\ logs.client = {}
           \/ \E b : archives' = archives \cup {b} /\ b.client = logs.client
    BY <1>8, RotateLogsEffect
  <2>2. logs'.client = {}
    BY <2>1 DEF NoLogs
  <2>3. ASSUME NEW b, b.client = logs.client
        PROVE  Kept({}, preserves, archives \cup {b}) = Kept(logs.client, preserves, archives)
    BY <2>3, KeptArchived
  <2> QED
    BY <2>1, <2>2, <2>3
<1>9. ASSUME NEW c \in Clients, RestoreClientLogs(c) PROVE NoneLost'
  <2>1. archives' = archives /\ opened' = opened /\ step[c] = "restore"
    BY <1>9 DEF RestoreClientLogs, At, counts
  <2>2. CASE stashed[c] # {} /\ logs.client = {}
    <3>1. logs'.client = stashed[c] /\ preserves' = preserves \ {stashed[c]}
      BY <1>0, <1>9, <2>2, LogsFields DEF RestoreClientLogs
    <3>2. stashed[c] \in preserves
      BY <2>1, <2>2 DEF AsideInv
    <3>3. Kept(stashed[c], preserves \ {stashed[c]}, archives) = Kept({}, preserves, archives)
      BY <3>2, KeptBack
    <3> QED
      BY <2>1, <2>2, <3>1, <3>3
  <2>3. CASE ~(stashed[c] # {} /\ logs.client = {})
    BY <1>9, <2>1, <2>3 DEF RestoreClientLogs
  <2> QED
    BY <2>2, <2>3
<1>12. UNCHANGED vars => UNCHANGED <<preserves, archives, opened>> /\ logs'.client = logs.client
  BY DEF vars, disk, counts
<1> HIDE DEF NoneLost
<1> QED
  BY <1>1, <1>3, <1>4, <1>5, <1>6, <1>7, <1>8, <1>9, <1>12 DEF Next

LEMMA AsideStep ==
    ASSUME Basic, AsideInv, OnlyLateArchived, AllHere, [Next]_vars
    PROVE  AsideInv' /\ OnlyLateArchived' /\ AllHere'
<1> USE DEF AsideInv, OnlyLateArchived, AllHere, Aside, Basic
<1>d. \A c, d \in Clients : step[c] # "none" /\ step[d] # "none" => c = d
  BY DEF StepInv, OneDeployer
<1> DEFINE Goal == AsideInv' /\ OnlyLateArchived' /\ AllHere'
<1>1. ASSUME UNCHANGED <<step, stashed, preserves, archives, opened, cut, late>>,
             logs'.client = logs.client
      PROVE  Goal
  BY <1>1
<1>o. OpenClientLog => /\ logs'.client = logs.client \cup {opened'}
                       /\ 1..opened' = (1..opened) \cup {opened'}
                       /\ late' = IF Aside THEN late \cup {opened'} ELSE late
  BY OpenStep
<1>2. ASSUME NEW c \in Clients, StartDeploy(c) PROVE Goal
  <2>1. /\ UNCHANGED <<stashed, preserves, archives, cut>> /\ OpenClientLog
        /\ step' = [step EXCEPT ![c] = "resolve"] /\ \A d \in Clients : step[d] = "none"
    BY <1>2 DEF StartDeploy, StepInv, OneDeployer
  <2>2. ~Aside /\ ~Aside'
    BY <2>1 DEF StepInv
  <2> QED
    BY <1>o, <2>1, <2>2
<1>3. ASSUME StartBench PROVE Goal
  <2>1. UNCHANGED <<step, stashed, preserves, archives, cut>> /\ OpenClientLog
    BY <1>3 DEF StartBench, starting
  <2>2. CASE Aside
    <3>1. late' = late \cup {opened'} /\ logs'.client = logs.client \cup {opened'}
      BY <1>o, <2>1, <2>2
    <3>2. Aside'
      BY <2>1, <2>2
    <3> QED
      BY <2>1, <3>1, <3>2
  <2>3. CASE ~Aside
    <3>1. late' = late /\ ~Aside'
      BY <1>o, <2>1, <2>3
    <3> QED
      BY <1>o, <2>1, <2>3, <3>1
  <2> QED
    BY <2>2, <2>3
<1>4. ASSUME NEW c \in Clients, StartLater(c) \/ WritePipeLog(c) \/ SaveStep(c)
      PROVE  /\ UNCHANGED <<step, stashed, preserves, archives, opened, cut, late>>
             /\ logs'.client = logs.client
  BY <1>4, PipeKeepsClient DEF StartLater, WritePipeLog, SaveStep, starting, disk
<1>5. ASSUME NEW c \in Clients, Resolve(c) PROVE Goal
  <2>1. /\ UNCHANGED <<stashed, preserves, archives, opened, cut, late, logs>>
        /\ step[c] = "resolve" /\ step' = [step EXCEPT ![c] = "stash"]
    BY <1>5 DEF Resolve, At, disk, counts
  <2> QED
    BY <2>1 DEF StepInv
<1>6. ASSUME NEW c \in Clients, StashClientLogs(c) PROVE Goal
  <2>1. /\ UNCHANGED <<archives, opened, cut, late>> /\ step[c] = "stash"
        /\ step' = [step EXCEPT ![c] = "output"]
        /\ stashed'[c] = logs.client /\ preserves' = preserves \cup ({logs.client} \ {{}})
        /\ logs'.client = {}
    BY <1>6, LogsFields DEF StashClientLogs, At, counts, StartTypes
  <2>2. ~Aside /\ Aside' /\ \A d \in Clients \ {c} : step'[d] = "none"
    BY <1>d, <2>1 DEF StepInv
  <2> QED
    BY <2>1, <2>2
<1>7. ASSUME NEW c \in Clients, RotateOutput(c) PROVE Goal
  <2>1. /\ UNCHANGED <<preserves, stashed, opened, cut, late>> /\ logs'.client = logs.client
        /\ step[c] = "output" /\ step' = [step EXCEPT ![c] = "logs"]
        /\ \A a \in archives' : a \in archives \/ a.client = {}
    BY <1>7, RotateOutputEffect
  <2>2. Aside /\ Aside'
    BY <2>1 DEF StepInv
  <2> QED
    BY <2>1, <2>2 DEF StepInv
<1>8. ASSUME NEW c \in Clients, RotateLogs(c) PROVE Goal
  <2>1. /\ UNCHANGED <<preserves, stashed, opened, cut, late>> /\ logs' = NoLogs
        /\ step[c] = "logs" /\ step' = [step EXCEPT ![c] = "restore"]
        /\ \A a \in archives' : a \in archives \/ a.client = logs.client
    BY <1>8, RotateLogsEffect
  <2>2. logs'.client = {}
    BY <2>1 DEF NoLogs
  <2>3. Aside /\ Aside'
    BY <2>1 DEF StepInv
  <2> QED
    BY <2>1, <2>2, <2>3 DEF StepInv
<1>9. ASSUME NEW c \in Clients, RestoreClientLogs(c) PROVE Goal
  <2>1. /\ UNCHANGED <<archives, opened, cut, late>> /\ step[c] = "restore"
        /\ step' = [step EXCEPT ![c] = "open"]
    BY <1>9 DEF RestoreClientLogs, At, counts
  <2>2. ~Aside' /\ Aside
    BY <1>d, <2>1 DEF StepInv
  <2>3. ASSUME late = {}, ~cut PROVE logs'.client = 1..opened
    <3>1. logs.client = {} /\ stashed[c] = 1..opened
      BY <2>1, <2>3
    <3>2. logs'.client = stashed[c]
      BY <1>9, <3>1, LogsFields DEF RestoreClientLogs
    <3> QED
      BY <3>1, <3>2
  <2> QED
    BY <2>1, <2>2, <2>3
<1>10. ASSUME NEW c \in Clients, Open(c) PROVE Goal
  <2>1. /\ UNCHANGED <<logs, archives, preserves, stashed, opened, cut, late>>
        /\ step[c] = "open" /\ step' = [step EXCEPT ![c] = "none"]
    BY <1>10 DEF Open, At, counts
  <2> QED
    BY <2>1 DEF StepInv
<1>11. ASSUME NEW c \in Clients, Stop(c) PROVE Goal
  <2>1. /\ UNCHANGED <<logs, archives, preserves, opened, late>>
        /\ cut' = (cut \/ step[c] \in {"output", "logs", "restore"})
        /\ step' = [step EXCEPT ![c] = "none"] /\ stashed' = [stashed EXCEPT ![c] = {}]
    BY <1>11 DEF Stop, disk
  <2> QED
    BY <2>1 DEF StepInv, StartTypes
<1>12. UNCHANGED vars => /\ UNCHANGED <<step, stashed, preserves, archives, opened, cut, late>>
                         /\ logs'.client = logs.client
  BY DEF vars, starting, disk, counts
<1> HIDE DEF AsideInv, OnlyLateArchived, AllHere, Basic
<1> QED
  BY <1>1, <1>2, <1>3, <1>4, <1>5, <1>6, <1>7, <1>8, <1>9, <1>10, <1>11, <1>12 DEF Next
----------------------------------------------------------------------------
\* With directories beside each other, the logs of an archived deployment are archived under
\* its stamp or about to be.
BesideInv == ~nested =>
    /\ logs.outs = {}
    /\ \A a \in archives :
          \/ logs.pipes \cap OutDeps(a.outs) \subseteq strayed
          \/ cut \/ \E c \in Clients : step[c] = "logs" /\ a.ts = stamp[c]

LEMMA BesideStep ==
    ASSUME Basic, StampInv, Apart, BesideInv, [Next]_vars
    PROVE  BesideInv'
<1>0. DepsIn(file) \subseteq InUse /\ \A a : OutDeps(a.outs) \subseteq ArchivedIn(a)
  BY DEF InUse, ArchivedIn
<1>1. CASE ~Rotation
  <2>1. Grows
    BY <1>1, GrowsStep DEF Basic, Rotation
  <2>2. nested' = nested
    BY <1>1, FlagsStep
  <2>3. ASSUME NEW a \in archives, ~nested
        PROVE  \/ logs'.pipes \cap OutDeps(a.outs) \subseteq strayed'
               \/ cut' \/ \E c \in Clients : step'[c] = "logs" /\ a.ts = stamp'[c]
    <3>1. CASE logs.pipes \cap OutDeps(a.outs) \subseteq strayed
      <4>1. ArchivedIn(a) \cap InUse \subseteq strayed
        BY DEF Apart
      <4> QED
        BY <1>0, <2>1, <3>1, <4>1 DEF Grows
    <3>2. ASSUME NEW c \in Clients, cut \/ (step[c] = "logs" /\ a.ts = stamp[c])
          PROVE  cut' \/ (step'[c] = "logs" /\ a.ts = stamp'[c])
      <4>1. /\ step[c] = "logs" => cut' \/ (step'[c] = "logs" /\ stamp'[c] = stamp[c])
            /\ cut => cut'
        BY <1>1, PhaseStep DEF Basic, Rotation
      <4> QED
        BY <3>2, <4>1
    <3>3. CASE cut
      <4>1. cut'
        BY <1>1, <3>3, FlagsStep
      <4> QED
        BY <4>1
    <3> QED
      BY <2>3, <3>1, <3>2, <3>3 DEF BesideInv
  <2> QED
    BY <2>1, <2>2, <2>3 DEF BesideInv, Grows
<1>s. \A c \in Clients : step[c] \in {"output", "logs"} =>
          stamp[c] \in Stamps /\ StampsOfOutput(c) = {stamp[c]}
  BY StartAssumption DEF StampInv, StampsOfOutput
<1>o. \A c, d \in Clients : step[c] # "none" /\ step[d] # "none" => c = d
  BY DEF Basic, StepInv, OneDeployer
<1>2. ASSUME NEW c \in Clients, RotateOutput(c), ~nested PROVE BesideInv'
  <2>1. /\ step[c] = "output" /\ step' = [step EXCEPT ![c] = "logs"] /\ stamp' = stamp
        /\ logs' = logs /\ strayed' = strayed /\ cut' = cut /\ nested' = nested
        /\ \A a \in archives' : a \in archives \/ a.ts \in StampsOfOutput(c)
    BY <1>2, RotateOutputEffect
  <2>2. \A d \in Clients : step[d] # "logs"
    BY <1>o, <2>1
  <2>3. step'[c] = "logs"
    BY <2>1 DEF Basic, StepInv
  <2>4. ASSUME NEW a \in archives'
        PROVE  \/ logs'.pipes \cap OutDeps(a.outs) \subseteq strayed'
               \/ cut' \/ \E d \in Clients : step'[d] = "logs" /\ a.ts = stamp'[d]
    <3>1. CASE a \in archives
      BY <1>2, <2>1, <2>2, <3>1 DEF BesideInv
    <3>2. CASE a \notin archives
      BY <1>s, <2>1, <2>3, <3>2
    <3> QED
      BY <3>1, <3>2
  <2> QED
    BY <1>2, <2>1, <2>4 DEF BesideInv
<1>3. ASSUME NEW c \in Clients, RotateLogs(c) PROVE BesideInv'
  <2>1. logs' = NoLogs
    BY <1>3, RotateLogsEffect
  <2> QED
    BY <2>1 DEF BesideInv, NoLogs
<1>4. ASSUME NEW c \in Clients, RotateOutput(c), nested PROVE nested'
  BY <1>4, RotateOutputEffect
<1> QED
  BY <1>1, <1>2, <1>3, <1>4 DEF Rotation, BesideInv

LEMMA PairedStep ==
    ASSUME Basic, StampInv, Apart, NestedInv, NestedInv', BesideInv, ArchivePaired, [Next]_vars
    PROVE  ArchivePaired'
<1>0. /\ DepsIn(file) \subseteq InUse
      /\ \A a : OutDeps(a.outs) \subseteq ArchivedIn(a) /\ a.pipes \subseteq ArchivedIn(a)
      /\ \A a : OutDeps(a.outs) = UNION {o.deps : o \in a.outs}
  BY DEF InUse, ArchivedIn, OutDeps
<1>1. CASE nested'
  <2>1. \A a, b \in archives' : a # b => ArchivedIn(a) \cap ArchivedIn(b) \subseteq strayed'
    BY <1>1 DEF NestedInv
  <2> QED
    BY <1>0, <1>1, <2>1 DEF ArchivePaired
<1>2. CASE ~nested' /\ ~Rotation
  <2>1. Grows
    BY <1>2, GrowsStep DEF Basic, Rotation
  <2>2. nested' = nested /\ (cut => cut')
    BY <1>2, FlagsStep
  <2> QED
    BY <1>2, <2>1, <2>2 DEF ArchivePaired, Grows
<1>s. \A c \in Clients : step[c] \in {"output", "logs"} =>
          stamp[c] \in Stamps /\ StampsOfOutput(c) = {stamp[c]} /\ StampsOfLogs(c) = {stamp[c]}
  BY StartAssumption DEF StampInv, StampsOfOutput, StampsOfLogs
<1>o. \A c, d \in Clients : step[c] # "none" /\ step[d] # "none" => c = d
  BY DEF Basic, StepInv, OneDeployer
<1>3. ASSUME NEW c \in Clients, RotateOutput(c), ~nested PROVE ArchivePaired'
  <2>1. nested' = nested /\ cut' = cut /\ strayed' = strayed
    BY <1>3, RotateOutputEffect
  <2>2. CASE archives' = archives
    BY <2>1, <2>2 DEF ArchivePaired
  <2>3. ASSUME NEW n, archives' = archives \cup {n}, n.pipes = {}, OutDeps(n.outs) = DepsIn(file)
        PROVE  ArchivePaired'
    <3>1. \A b \in archives : b.pipes \cap OutDeps(n.outs) \subseteq strayed
      BY <1>0, <2>3 DEF Apart
    <3> QED
      BY <1>0, <1>3, <2>1, <2>3, <3>1 DEF ArchivePaired
  <2> QED
    BY <1>3, <2>2, <2>3, RotateOutputEffect
<1>4. ASSUME NEW c \in Clients, RotateLogs(c), ~nested PROVE ArchivePaired'
  <2>1. nested' = nested /\ cut' = cut /\ strayed' = strayed /\ step[c] = "logs"
    BY <1>4, RotateLogsEffect
  <2>2. CASE archives' = archives
    BY <2>1, <2>2 DEF ArchivePaired
  <2>3. ASSUME NEW n, archives' = archives \cup {n}, n.pipes = logs.pipes, n.outs = logs.outs,
               n.ts \in StampsOfLogs(c)
        PROVE  ArchivePaired'
    <3>1. n.outs = {} /\ n.ts = stamp[c]
      BY <1>4, <1>s, <2>1, <2>3 DEF BesideInv
    <3>2. ASSUME NEW a \in archives, NEW d \in logs.pipes \cap OutDeps(a.outs)
          PROVE  cut \/ a.ts = n.ts \/ d \in strayed
      BY <1>4, <1>o, <2>1, <3>1, <3>2 DEF BesideInv
    <3>3. ASSUME NEW a \in archives', NEW b \in archives', NEW d \in b.pipes \cap OutDeps(a.outs)
          PROVE  cut \/ a.ts = b.ts \/ d \in strayed
      <4>1. a \in archives
        BY <2>3, <3>1, <3>3 DEF OutDeps
      <4>2. CASE b \in archives
        BY <1>0, <1>4, <3>3, <4>1, <4>2 DEF ArchivePaired
      <4>3. CASE b = n
        BY <2>3, <3>2, <3>3, <4>1, <4>3
      <4> QED
        BY <2>3, <4>2, <4>3
    <3> QED
      BY <1>0, <1>4, <2>1, <3>3 DEF ArchivePaired
  <2> QED
    BY <1>4, <2>2, <2>3, RotateLogsEffect
<1>5. Rotation => nested' = nested
  BY RotationMoves
<1> QED
  BY <1>1, <1>2, <1>3, <1>4, <1>5 DEF Rotation
----------------------------------------------------------------------------
(* The inductive invariant. *)

StartInv ==
    /\ StoreInv /\ StepInv /\ StartTypes /\ OneDeployer /\ KnownInv /\ FilesInv
    /\ FreshInv /\ Apart /\ NestedInv /\ BesideInv /\ ArchivePaired
    /\ StampInv /\ AsideInv /\ ClientLogsStay

LEMMA StartInvStep == StartInv /\ [Next]_vars => StartInv'
<1> SUFFICES ASSUME StartInv, [Next]_vars PROVE StartInv'
  OBVIOUS
<1>1. Basic
  BY DEF StartInv, Basic, StoreInv
<1>2. StoreInv' /\ StepInv'
  BY StoreStep, StepInvStep DEF StartInv
<1>3. StartTypes' /\ OneDeployer'
  BY <1>1, StartTypesStep, OneDeployerStep DEF Basic
<1>4. KnownInv' /\ FilesInv' /\ FreshInv' /\ Apart'
  BY <1>1, KnownStep, FilesStep, FreshStep, ApartStep DEF StartInv
<1>5. NestedInv' /\ BesideInv' /\ StampInv' /\ AsideInv' /\ ClientLogsStay'
  <2>1. NestedInv' /\ BesideInv' /\ StampInv'
    BY <1>1, NestedStep, BesideStep, StampStep DEF StartInv
  <2>2. NoneLost /\ OnlyLateArchived /\ AllHere
    BY ClientLogsStayParts DEF StartInv
  <2>3. NoneLost' /\ AsideInv' /\ OnlyLateArchived' /\ AllHere'
    BY <1>1, <2>2, NoneLostStep, AsideStep DEF StartInv
  <2>4. ClientLogsStay'
    BY <2>3, ClientLogsStayParts, PTL
  <2> QED
    BY <2>1, <2>3, <2>4
<1>6. ArchivePaired'
  BY <1>1, <1>5, PairedStep DEF StartInv
<1> QED
  BY <1>2, <1>3, <1>4, <1>5, <1>6 DEF StartInv

LEMMA StartInvInit == Init => StartInv
<1> SUFFICES ASSUME Init PROVE StartInv
  OBVIOUS
<1>1. StoreInv /\ StepInv
  BY StoreStart
<1>2. /\ \A c \in Clients : up[c] = "down" /\ dep[c] = 0 /\ mem[c] = NoContents /\ step[c] = "none"
      /\ \A f \in Files : file[f] = Absent
      /\ logs = NoLogs /\ archives = {} /\ deployments = 0
  BY DEF Init, StoreInit
<1>3. StartTypes
  <2>1. NoLogs \in Logs
    BY DEF NoLogs, Logs
  <2>2. 0 \in 0..MaxSaves /\ 0 \in 0..MaxCommands /\ 0 \in 0..MaxDeployments /\ 0 \in 0..0
    BY StartAssumption, SavesAssumption
  <2>3. crossed \in [Clients -> BOOLEAN] /\ stamp \in [Clients -> Stamps \cup {0}]
        /\ stashed \in [Clients -> SUBSET Nat]
    BY DEF Init, StoreInit
  <2> QED
    BY <2>1, <2>2, <2>3 DEF Init, StoreInit, StartTypes
<1>4. OneDeployer
  BY <1>2 DEF OneDeployer
<1>5. FilesInv
  BY <1>2 DEF FilesInv, Current
<1>6. DepsIn(file) = {} /\ InUse = {}
  BY <1>2, <1>5, NothingInUse
<1>7. logs.pipes = {} /\ logs.outs = {} /\ OutDeps(logs.outs) = {}
  BY <1>2 DEF NoLogs, OutDeps
<1>8. Known = {}
  BY <1>2, <1>6, <1>7, EmptyDeps DEF Known
<1>9. KnownInv
  BY <1>8 DEF KnownInv
<1>10. FreshInv /\ Apart
  BY <1>2 DEF FreshInv, Apart, PastOutput, PastLogs
<1>11. NestedInv /\ BesideInv /\ ArchivePaired
  BY <1>2, <1>7 DEF NestedInv, BesideInv, ArchivePaired
<1>12. StampInv /\ AsideInv /\ ClientLogsStay
  <2>1. logs.client = {} /\ preserves = {} /\ archives = {} /\ opened = 0
    BY DEF Init, NoLogs
  <2>2. 1..opened = {}
    BY <2>1
  <2> QED
    BY <1>2, <2>1, <2>2 DEF StampInv, AsideInv, ClientLogsStay
<1> QED
  BY <1>1, <1>3, <1>4, <1>5, <1>9, <1>10, <1>11, <1>12 DEF StartInv

LEMMA StartInvAlways == Spec => []StartInv
  BY StartInvInit, StartInvStep, PTL DEF Spec

\* Every variable keeps its type, the bounds on commands, deployments and saves included.
THEOREM StartTypeOK == Spec => []TypeOK
<1>1. StartInv => TypeOK
  BY DEF StartInv, StoreInv, StoreTypes, StartTypes, StepInv, TypeOK, StoreTypeOK
<1> QED
  BY StartInvAlways, <1>1, PTL

\* Past NewDeployer, a deployment's output and log directories hold its own records and
\* logs only, whenever earlier commands were killed and whatever other commands save beside
\* it, but for what a client that had read the old directories writes into the new ones
\* (NewDeployer, rotateExistingDirWithTimestamp).
THEOREM DeploymentAlwaysFresh == Spec => []FreshDeployment
<1>1. StartInv => FreshDeployment
  BY DEF StartInv, FreshInv, FreshDeployment, PastOutput, PastLogs, InUse
<1> QED
  BY StartInvAlways, <1>1, PTL

\* No client log is lost, only those opened while NewDeployer had the others aside are ever
\* archived, and when no NewDeployer runs logs/client holds them all, unless one was stopped
\* half-way or a log was opened while the others were aside (stashClientLogsDir,
\* restoreClientLogsDir, withClientCommandTee).
THEOREM ClientLogsAlwaysStay == Spec => []ClientLogsStay
<1>1. StartInv => ClientLogsStay
  BY DEF StartInv
<1> QED
  BY StartInvAlways, <1>1, PTL

\* The archived records and the archived logs of a deployment are in one tree, or under one
\* time stamp unless a NewDeployer was stopped between the two (archiveTS), but for what a
\* client that had read the old directories has written since.
THEOREM ArchivesAlwaysPaired == Spec => []ArchivePaired
<1>1. StartInv => ArchivePaired
  BY DEF StartInv
<1> QED
  BY StartInvAlways, <1>1, PTL
==============================================================================
