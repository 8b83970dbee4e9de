---------------------------- MODULE OutputStore ----------------------------
(***************************************************************************)
(* OutputManager: the four files of the output directory (servers.json,    *)
(* servers_create.json, ssh_scripts.json, script_status.json).  A client   *)
(* keeps their contents in memory and rewrites a whole file in place after *)
(* every change, under a lock of its own process: another client that runs *)
(* beside it writes from its own memory.  A client may be killed, and a    *)
(* write may fail, in the middle of a file.                                *)
(***************************************************************************)
EXTENDS Integers, SequencesExt

CONSTANTS
    Clients,   \* processes of the tool
    Keys,      \* machines of a service: compositeKey
    Blank,     \* a created server without IP or service type
    MaxSaves   \* bound: saves of all clients

ASSUME ClientsAssumption == IsFiniteSet(Clients)
ASSUME KeysAssumption == IsFiniteSet(Keys) /\ Blank \notin Keys
ASSUME SavesAssumption == MaxSaves \in Nat

VARIABLES
    up,      \* up[c]: "down", "starting" (NewDeployer) or "up" (has an OutputManager)
    dep,     \* dep[c]: the deployment c makes, 0 if it works on what it loaded
    mem,     \* mem[c][f]: the contents in c's memory
    writing, \* writing[c]: the file c is writing, or "none": the lock is held
    crossed, \* crossed[c]: did another client write that file meanwhile?
    file,    \* file[f]: what the output directory holds
    saves,   \* saves begun
    acked,   \* acked[f]: the keys whose save in this deployment succeeded
    stale,   \* stale[c]: files that another client changed after c read them
    clobbered \* files that a client has saved with stale contents

store == <<up, dep, mem, writing, crossed, file, saves, acked, stale, clobbered>>

Files == {"servers", "created", "ssh", "status"}

\* A record, with the deployment that made it.
Entry == [key : Keys, dep : Nat, val : {"", "fail", "success", "pending", "running"}]
Contents == Seq(Entry)
Whole(contents) == [state |-> "whole", data |-> contents]
Absent == [state |-> "absent", data |-> <<>>]
\* Truncated and not yet written, or with the end of a longer file.
Torn == [state |-> "torn", data |-> <<>>]

NoContents == [f \in Files |-> <<>>]
KeysOf(contents) == {contents[i].key : i \in DOMAIN contents}

StoreTypeOK ==
    /\ up \in [Clients -> {"down", "starting", "up"}] /\ dep \in [Clients -> Nat]
    /\ mem \in [Clients -> [Files -> Contents]]
    /\ writing \in [Clients -> Files \cup {"none"}] /\ crossed \in [Clients -> BOOLEAN]
    /\ file \in [Files -> [state : {"absent", "torn", "whole"}, data : Contents]]
    /\ saves \in 0..MaxSaves
    /\ acked \in [Files -> SUBSET Keys]
    /\ stale \in [Clients -> SUBSET Files] /\ clobbered \subseteq Files
----------------------------------------------------------------------------
\* A change in memory and the truncation of its file.
BeginSave(c, f, contents) ==
    /\ up[c] = "up" /\ writing[c] = "none" /\ saves < MaxSaves
    /\ saves' = saves + 1
    /\ mem' = [mem EXCEPT ![c][f] = contents]
    /\ writing' = [writing EXCEPT ![c] = f]
    /\ file' = [file EXCEPT ![f] = Torn]
    /\ crossed' = [d \in Clients |-> IF d = c THEN FALSE ELSE crossed[d] \/ writing[d] = f]
    /\ stale' = [d \in Clients |-> IF d # c /\ up[d] = "up" THEN stale[d] \cup {f} ELSE stale[d]]
    /\ clobbered' = IF f \in stale[c] THEN clobbered \cup {f} ELSE clobbered
    /\ UNCHANGED <<up, dep, acked>>

\* The contents arrive; over another client's, the end of those may remain.
EndSave(c) ==
    /\ writing[c] # "none"
    /\ LET f == writing[c] IN
        /\ \E left \in {Whole(mem[c][f])} \cup (IF crossed[c] THEN {Torn} ELSE {}) :
              file' = [file EXCEPT ![f] = left]
        /\ acked' = [acked EXCEPT ![f] = @ \cup KeysOf(mem[c][f])]
        /\ crossed' = [d \in Clients |-> IF d = c THEN FALSE ELSE crossed[d] \/ writing[d] = f]
    /\ writing' = [writing EXCEPT ![c] = "none"]
    /\ UNCHANGED <<up, dep, mem, saves, stale, clobbered>>

\* The write fails in the middle: the caller gets an error, memory keeps the change.
SaveFails(c) ==
    /\ writing[c] # "none"
    /\ writing' = [writing EXCEPT ![c] = "none"]
    /\ crossed' = [crossed EXCEPT ![c] = FALSE]
    /\ UNCHANGED <<up, dep, mem, file, saves, acked, stale, clobbered>>

Upsert(contents, entry) ==
    IF entry.key \in KeysOf(contents)
    THEN [i \in DOMAIN contents |-> IF contents[i].key = entry.key THEN entry ELSE contents[i]]
    ELSE Append(contents, entry)

\* A record that is there stays of the deployment that made it.
DepOf(c, f, k) ==
    IF \E i \in DOMAIN mem[c][f] : mem[c][f][i].key = k
    THEN (CHOOSE e \in Range(mem[c][f]) : e.key = k).dep
    ELSE dep[c]

AddServers(c, k) ==
    /\ dep[c] # 0
    /\ BeginSave(c, "servers", Append(mem[c]["servers"], [key |-> k, dep |-> dep[c], val |-> ""]))

\* Mutant of AddCreated: blank ones are kept.
AddCreatedBlank(contents, k, d) ==
    IF k \in KeysOf(contents) THEN contents
    ELSE Append(contents, [key |-> k, dep |-> d, val |-> ""])

AddCreated(contents, k, d) ==
    IF k = Blank \/ k \in KeysOf(contents) THEN contents
    ELSE Append(contents, [key |-> k, dep |-> d, val |-> ""])

\* A batch of up to two machines: one may be blank, or twice the same.
AddBatch(contents, a, b, d) == AddCreated(AddCreated(contents, a, d), b, d)

\* A service's machines; another service of the type may name the same ones.
AddCreatedServers(c, a, b) ==
    /\ dep[c] # 0
    /\ BeginSave(c, "created", AddBatch(mem[c]["created"], a, b, dep[c]))

UpdateSSHScriptStatus(c, k, result) ==
    /\ dep[c] # 0 \/ k \in KeysOf(mem[c]["status"])
    /\ BeginSave(c, "ssh",
           Upsert(mem[c]["ssh"], [key |-> k, dep |-> DepOf(c, "status", k), val |-> result]))

UpsertPlannedStatus(c, k) ==
    /\ dep[c] # 0
    /\ BeginSave(c, "status",
           Upsert(mem[c]["status"], [key |-> k, dep |-> dep[c], val |-> "pending"]))

InitStatus(c, k) ==
    /\ dep[c] # 0
    /\ BeginSave(c, "status",
           Upsert(mem[c]["status"], [key |-> k, dep |-> dep[c], val |-> "running"]))

\* Of a record that is there.
UpdateStatus(c, k, status) ==
    /\ k \in KeysOf(mem[c]["status"])
    /\ BeginSave(c, "status",
           Upsert(mem[c]["status"], [key |-> k, dep |-> DepOf(c, "status", k), val |-> status]))
----------------------------------------------------------------------------
\* Mutant of Parses: a file that does not parse counts as empty.
ParsesAnything(f) == TRUE

\* A file that does not parse is an error; one that is absent is empty.
Parses(f) == file[f].state # "torn"

\* The memory and flags of a client that begins with contents.
Takes(c, contents) ==
    /\ mem' = [mem EXCEPT ![c] = contents]
    /\ stale' = [stale EXCEPT ![c] = {}]

\* LoadOutputManager of a later command, or of the deployment's own list of failures.
Load(c) ==
    /\ up[c] = "down" /\ \A f \in Files : Parses(f)
    /\ up' = [up EXCEPT ![c] = "up"] /\ dep' = [dep EXCEPT ![c] = 0]
    /\ Takes(c, [f \in Files |-> file[f].data])
    /\ UNCHANGED <<writing, crossed, file, saves, acked, clobbered>>

\* The directory is renamed away: what clients hold of it is stale.
NewDirectory ==
    /\ file' = [f \in Files |-> Absent]
    /\ writing' = [c \in Clients |-> "none"] /\ crossed' = [c \in Clients |-> FALSE]
    /\ acked' = [f \in Files |-> {}]
    /\ stale' = [c \in Clients |-> IF up[c] = "up" THEN Files ELSE stale[c]]
    /\ clobbered' = {}
    /\ UNCHANGED <<up, dep, mem, saves>>

\* The process ends or is killed.
Leave(c) ==
    /\ up[c] # "down"
    /\ up' = [up EXCEPT ![c] = "down"] /\ dep' = [dep EXCEPT ![c] = 0]
    /\ Takes(c, NoContents)
    /\ writing' = [writing EXCEPT ![c] = "none"]
    /\ crossed' = [crossed EXCEPT ![c] = FALSE]
    /\ UNCHANGED <<file, saves, acked, clobbered>>

StoreInit ==
    /\ up = [c \in Clients |-> "down"] /\ dep = [c \in Clients |-> 0]
    /\ mem = [c \in Clients |-> NoContents]
    /\ writing = [c \in Clients |-> "none"] /\ crossed = [c \in Clients |-> FALSE]
    /\ file = [f \in Files |-> Absent]
    /\ saves = 0 /\ acked = [f \in Files |-> {}]
    /\ stale = [c \in Clients |-> {}] /\ clobbered = {}

Operation(c) ==
    \/ \E k \in Keys :
        \/ AddServers(c, k) \/ UpsertPlannedStatus(c, k)
        \/ \E result \in {"success", "fail"} : UpdateSSHScriptStatus(c, k, result)
        \/ InitStatus(c, k) \/ UpdateStatus(c, k, "success")
    \/ \E a, b \in Keys \cup {Blank} : AddCreatedServers(c, a, b)
    \/ EndSave(c) \/ SaveFails(c)
----------------------------------------------------------------------------
(* Properties *)

\* What was saved without an error since the deployment began is in every file that can be
\* read, and known to every client that runs, through failed writes, kills and reloads,
\* unless a client saved what another had changed after it read it.
SavedStays ==
    \A f \in Files \ clobbered :
        /\ file[f].state = "whole" => acked[f] \subseteq KeysOf(file[f].data)
        /\ \A c \in Clients : up[c] = "up" /\ f \notin stale[c] =>
               acked[f] \subseteq KeysOf(mem[c][f])

\* No machine is twice in servers_create.json, however services and clients repeat it.
CreatedOnce == \A i, j \in DOMAIN file["created"].data :
    file["created"].data[i].key = file["created"].data[j].key => i = j
============================================================================
