---------------------------- MODULE DeployStart ----------------------------
(***************************************************************************)
(* How a deployment takes over the log and output directories: the command *)
(* opens its log in <logDir>/client, then NewDeployer moves that directory *)
(* aside, archives the old output and log directories under one time       *)
(* stamp, creates new ones, and brings the client logs back.  It may fail  *)
(* or be killed between any two steps, and other commands (a bench with a  *)
(* client log, a sync or restore without) may run meanwhile.               *)
(***************************************************************************)
EXTENDS OutputStore

CONSTANTS
    MaxCommands,    \* bound: commands started
    MaxDeployments, \* bound: deployments started
    Stamps          \* modification times, to the second

ASSUME StartAssumption ==
    MaxCommands \in Nat /\ MaxDeployments \in Nat
    /\ Stamps # {} /\ Stamps \subseteq Nat \ {0}

VARIABLES
    nested,      \* is the output directory <logDir>/output, the default?
    outDir,      \* does the output directory exist?
    logs,        \* what is in the log directory
    archives,    \* the archived directories
    preserves,   \* the client directories moved aside: <logDir>-client-preserve-<ts>
    step,        \* step[c]: where NewDeployer of c is
    stamp,       \* stamp[c]: archiveTS, or 0 if it is empty
    stashed,     \* stashed[c]: the preserve directory's client logs, or {}
    commands,    \* commands started
    opened,      \* client logs opened: their names are 1..opened
    deployments, \* deployments started
    cut,         \* was a NewDeployer stopped while it moved directories?
    late,        \* client logs that were opened while the others were aside
    strayed      \* deployments of which a client has written a log or records that it had
                 \* read before its directory was moved (or every file in it changed)

disk == <<outDir, logs, archives, preserves>>
starting == <<step, stamp, stashed>>
counts == <<commands, opened, deployments, cut, late, strayed>>
vars == <<store, nested, disk, starting, counts>>

NoLogs == [client |-> {}, pipes |-> {}, outs |-> {}]
NoTree == [kind |-> "output", outs |-> {}, pipes |-> {}, client |-> {}, ts |-> 0]
Out == [deps : SUBSET Nat, ts : Stamps \cup {0}]
Logs == [client : SUBSET Nat, pipes : SUBSET Nat, outs : SUBSET Out]

TypeOK ==
    /\ StoreTypeOK
    /\ nested \in BOOLEAN /\ outDir \in BOOLEAN /\ logs \in Logs
    /\ \A a \in archives : a.kind \in {"logs", "output"} /\ a.ts \in Stamps
    /\ preserves \subseteq SUBSET Nat
    /\ step \in [Clients -> {"none", "resolve", "stash", "output", "logs", "restore", "open"}]
    /\ stamp \in [Clients -> Stamps \cup {0}]
    /\ stashed \in [Clients -> SUBSET Nat]
    /\ commands \in 0..MaxCommands /\ opened \in 0..commands
    /\ deployments \in 0..MaxDeployments
    /\ cut \in BOOLEAN /\ late \subseteq Nat /\ strayed \subseteq Nat
----------------------------------------------------------------------------
\* dirInfoIfRotatable: the directory exists and is not empty.
OutRotatable == outDir /\ \E f \in Files : file[f] # Absent
LogsRotatable == logs # NoLogs \/ (nested /\ outDir)

\* The deployments whose records a memory holds, and the output directory.
DepsOf(contents) == {e.dep : e \in UNION {Range(contents[f]) : f \in Files}}
DepsIn(files) == DepsOf([f \in Files |-> files[f].data])

\* A NewDeployer is between stashing and restoring.
Aside == \E c \in Clients : step[c] \in {"output", "logs", "restore"}

\* withClientCommandTee: the command's log is created, with its directory.
OpenClientLog ==
    /\ commands < MaxCommands
    /\ commands' = commands + 1 /\ opened' = opened + 1
    /\ logs' = [logs EXCEPT !.client = @ \cup {opened'}]
    /\ late' = IF Aside THEN late \cup {opened'} ELSE late

\* The `deploy' command, up to NewDeployer.  Two deployments at once into the same
\* directories are left out.
StartDeploy(c) ==
    /\ up[c] = "down" /\ deployments < MaxDeployments
    /\ \A d \in Clients : dep[d] = 0
    /\ deployments' = deployments + 1
    /\ OpenClientLog
    /\ up' = [up EXCEPT ![c] = "starting"]
    /\ dep' = [dep EXCEPT ![c] = deployments + 1]
    /\ step' = [step EXCEPT ![c] = "resolve"]
    /\ UNCHANGED <<mem, writing, crossed, file, saves, acked, stale, clobbered, nested,
                   outDir, archives, preserves, stamp, stashed, cut, strayed>>

\* `bench-cross-tx' beside it: only its client log matters here.
StartBench ==
    /\ OpenClientLog
    /\ UNCHANGED <<store, nested, outDir, archives, preserves, starting, deployments, cut,
                   strayed>>

\* `sync' and `deploy-restore'.
StartLater(c) ==
    /\ commands < MaxCommands /\ commands' = commands + 1
    /\ Load(c)
    /\ UNCHANGED <<nested, disk, starting, opened, deployments, cut, late, strayed>>

At(c, here, next) == step[c] = here /\ step' = [step EXCEPT ![c] = next]

\* resolveDeployArchiveTimestamp: the records' time, else the directory's, else none.
Resolve(c) ==
    /\ At(c, "resolve", "stash")
    /\ \E ts \in (IF OutRotatable \/ LogsRotatable THEN Stamps ELSE {0}) :
          stamp' = [stamp EXCEPT ![c] = ts]
    /\ UNCHANGED <<store, nested, disk, stashed, counts>>

\* stashClientLogsDir, under a name that is free.
StashClientLogs(c) ==
    /\ At(c, "stash", "output")
    /\ logs' = [logs EXCEPT !.client = {}]
    /\ stashed' = [stashed EXCEPT ![c] = logs.client]
    /\ preserves' = preserves \cup ({logs.client} \ {{}})
    /\ UNCHANGED <<store, nested, outDir, archives, stamp, counts>>

\* rotateExistingDirWithTimestamp: archiveTS, or the directory's own time without one.
StampsOfOutput(c) == IF stamp[c] # 0 THEN {stamp[c]} ELSE Stamps

\* Mutant of StampsOfLogs: the log directory's own time.
StampsOfLogsAnew(c) == Stamps

StampsOfLogs(c) == StampsOfOutput(c)

\* Mutant of RotateOutput: the old output directory stays.
RotateNoOutput(c) ==
    /\ At(c, "output", "logs")
    /\ UNCHANGED <<store, nested, disk, stamp, stashed, counts>>

\* rotateExistingDirWithTimestamp of the output directory: clients that hold its contents
\* do not notice, and a write that has begun ends in the archive.
RotateOutput(c) ==
    /\ At(c, "output", "logs")
    /\ \/ /\ OutRotatable
          /\ outDir' = FALSE /\ NewDirectory
          /\ \E ts \in StampsOfOutput(c) :
                LET old == [deps |-> DepsIn(file), ts |-> ts] IN
                \/ /\ nested
                   /\ logs' = [logs EXCEPT !.outs = @ \cup {old}] /\ UNCHANGED archives
                \/ /\ ~nested
                   /\ archives' = archives \cup {[NoTree EXCEPT !.outs = {old}, !.ts = ts]}
                   /\ UNCHANGED logs
       \/ ~OutRotatable /\ UNCHANGED <<outDir, store, logs, archives>>
    /\ UNCHANGED <<nested, preserves, stamp, stashed, counts>>

\* The log directory, with an output directory that lies in it.
RotateLogs(c) ==
    /\ At(c, "logs", "restore")
    /\ \/ /\ LogsRotatable
          /\ \E ts \in StampsOfLogs(c) :
                archives' = archives \cup
                   {[kind |-> "logs", pipes |-> logs.pipes, client |-> logs.client, ts |-> ts,
                     outs |-> logs.outs \cup
                        (IF nested /\ outDir THEN {[deps |-> DepsIn(file), ts |-> 0]} ELSE {})]}
          /\ logs' = NoLogs
          /\ \/ nested /\ outDir' = FALSE /\ NewDirectory
             \/ ~nested /\ UNCHANGED <<outDir, store>>
       \/ ~LogsRotatable /\ UNCHANGED <<archives, logs, outDir, store>>
    /\ UNCHANGED <<nested, preserves, stamp, stashed, counts>>

\* Mutant of RestoreClientLogs: what cannot be put back is cleaned up.
RestoreAndClean(c) ==
    /\ At(c, "restore", "open")
    /\ logs' = IF logs.client = {} THEN [logs EXCEPT !.client = stashed[c]] ELSE logs
    /\ preserves' = preserves \ {stashed[c]}
    /\ stashed' = [stashed EXCEPT ![c] = {}]
    /\ UNCHANGED <<store, nested, outDir, archives, stamp, counts>>

\* restoreClientLogsDir: not over a directory that is there again.
RestoreClientLogs(c) ==
    /\ At(c, "restore", "open")
    /\ IF stashed[c] # {} /\ logs.client = {}
       THEN /\ logs' = [logs EXCEPT !.client = stashed[c]]
            /\ preserves' = preserves \ {stashed[c]}
       ELSE UNCHANGED <<logs, preserves>>
    /\ stashed' = [stashed EXCEPT ![c] = {}]
    /\ UNCHANGED <<store, nested, outDir, archives, stamp, counts>>

\* The output directory is created, and NewOutputManager starts with nothing, whatever
\* another client has put there since.
Open(c) ==
    /\ At(c, "open", "none")
    /\ outDir' = TRUE
    /\ up' = [up EXCEPT ![c] = "up"]
    /\ mem' = [mem EXCEPT ![c] = NoContents]
    /\ stale' = [stale EXCEPT ![c] = {f \in Files : file[f] # Absent}]
    /\ stamp' = [stamp EXCEPT ![c] = 0]
    /\ UNCHANGED <<dep, writing, crossed, file, saves, acked, clobbered, nested, logs,
                   archives, preserves, stashed, counts>>

\* What c writes of these deployments may be in a directory of another.
Stray(c, deps) == strayed' = IF Files \subseteq stale[c] THEN strayed \cup deps ELSE strayed

\* Sync.Run appends to the log of a machine on record.
WritePipeLog(c) ==
    /\ up[c] = "up"
    /\ \E e \in Range(mem[c]["status"]) : logs' = [logs EXCEPT !.pipes = @ \cup {e.dep}]
    /\ Stray(c, logs'.pipes \ logs.pipes)
    /\ UNCHANGED <<store, nested, outDir, archives, preserves, starting, commands, opened,
                   deployments, cut, late>>

\* A command ends, fails or is killed.
Stop(c) ==
    /\ Leave(c)
    /\ cut' = (cut \/ step[c] \in {"output", "logs", "restore"})
    /\ step' = [step EXCEPT ![c] = "none"]
    /\ stamp' = [stamp EXCEPT ![c] = 0]
    /\ stashed' = [stashed EXCEPT ![c] = {}]
    /\ UNCHANGED <<nested, disk, commands, opened, deployments, late, strayed>>

SaveStep(c) ==
    /\ Operation(c)
    /\ outDir' = TRUE
    /\ Stray(c, DepsOf(mem'[c]))
    /\ UNCHANGED <<nested, logs, archives, preserves, starting, commands, opened, deployments,
                   cut, late>>
----------------------------------------------------------------------------
Init ==
    /\ StoreInit
    /\ nested \in BOOLEAN /\ outDir = FALSE
    /\ logs = NoLogs /\ archives = {} /\ preserves = {}
    /\ step = [c \in Clients |-> "none"] /\ stamp = [c \in Clients |-> 0]
    /\ stashed = [c \in Clients |-> {}]
    /\ commands = 0 /\ opened = 0 /\ deployments = 0 /\ cut = FALSE /\ late = {} /\ strayed = {}

Next ==
    \/ StartBench
    \/ \E c \in Clients :
        \/ StartDeploy(c) \/ StartLater(c)
        \/ Resolve(c) \/ StashClientLogs(c) \/ RotateOutput(c) \/ RotateLogs(c)
        \/ RestoreClientLogs(c) \/ Open(c)
        \/ WritePipeLog(c) \/ SaveStep(c) \/ Stop(c)

Spec == Init /\ [][Next]_vars
----------------------------------------------------------------------------
(* Properties *)

\* A deployment that is past NewDeployer works in directories that hold no other
\* deployment's records or logs but those that a client has brought which had read them
\* before they were moved.
FreshDeployment ==
    \A c \in Clients : up[c] = "up" /\ dep[c] # 0 =>
        DepsIn(file) \cup logs.pipes \subseteq {dep[c]} \cup strayed

\* No client log is lost, wherever NewDeployer is stopped and whatever opens a log meanwhile;
\* with a deployment's logs are archived only those that were opened while the others were
\* aside; and when no NewDeployer runs, logs/client holds every one, unless a NewDeployer was
\* stopped half-way or a log was opened while the others were aside.
ClientLogsStay ==
    /\ logs.client \cup (UNION preserves) \cup (UNION {a.client : a \in archives}) = 1..opened
    /\ \A a \in archives : a.client \subseteq late
    /\ late = {} /\ ~cut /\ ~Aside => logs.client = 1..opened

\* The records and the logs of one deployment can be found together: in one tree if the
\* output directory is nested, else under one time stamp unless a NewDeployer was stopped
\* between the two.
ArchivePaired ==
    \A a, b \in archives :
        \A d \in b.pipes \cap UNION {o.deps : o \in a.outs} :
            (IF nested THEN a = b ELSE cut \/ a.ts = b.ts) \/ d \in strayed
============================================================================
