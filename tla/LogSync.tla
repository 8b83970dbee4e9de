------------------------------ MODULE LogSync ------------------------------
(***************************************************************************)
(* Sync.Run of internal/deploy/sync.go: one goroutine per monitored script *)
(* record fetches the remote log in increments, checks the remote process  *)
(* and writes the record's status; all goroutines share a pool of SSH      *)
(* tokens.  The scripts on the hosts and the network are the environment.  *)
(* The client may be killed, or finish, and `sync' be started again.       *)
(***************************************************************************)
EXTENDS LogVerdict, Integers, FiniteSets

CONSTANTS
    Nodes,             \* script records: one per key ip|serviceType
    MaxTokens,         \* capacity of sshSem
    FetchFailLimit,    \* consecutive fetch failures that end monitoring (10)
    NoGrowthLimit,     \* syncNoGrowthTerminalCheckRounds (6)
    MaxRuns,           \* bound: how often Sync.Run is started
    Scenarios          \* what a script may do, what its host may hold, what may fail

\* cdk: is the record's service CDK?  out: the chunks its script writes; hangs:
\* the script never exits; fresh: the remote log is this script's (FALSE: it died
\* before its redirection, and the log of the script before it is still there);
\* stale: what the local log already holds; status, pid: the record Sync.Run
\* finds (pid: PID > 0 and LogPath set); faults: what may fail, at any time - an
\* ssh call of a log fetch, that of a process check, an append to the local log.
ScenarioType ==
    [cdk : BOOLEAN, out : Logs, hangs : BOOLEAN, fresh : BOOLEAN, stale : Logs,
     status : Statuses, pid : BOOLEAN, faults : SUBSET {"fetch", "check", "disk"}]

ASSUME NodesAssumption == IsFiniteSet(Nodes)
ASSUME LimitsAssumption ==
    /\ MaxTokens \in Nat \ {0}
    /\ FetchFailLimit \in Nat \ {0}
    /\ NoGrowthLimit \in Nat \ {0}
    /\ MaxRuns \in Nat \ {0}
ASSUME ScenariosAssumption == \A s \in Scenarios : s \in ScenarioType

VARIABLES
    scn,       \* scn[n]: the scenario of n's host, fixed
    written,   \* written[n]: chunks of scn[n].out now in the remote log
    alive,     \* alive[n]: is the process of the recorded PID running?
    got,       \* got[n]: remote chunk positions appended to the local log
    rec,       \* rec[n]: status and LogSize in script_status.json
    snap,      \* snap[n]: status in the snapshot this Sync.Run works from
    pc,        \* pc[n]: where n's goroutine is
    offset,    \* offset[n]: bytes synchronised, a local of the goroutine
    size,      \* size[n]: result of wc -c, until tail has answered
    delta,     \* delta[n]: positions in logData
    fails,     \* fails[n]: consecutiveLogFetchFailures
    noGrowth,  \* noGrowth[n]: noGrowthRounds, counted up to NoGrowthLimit
    sem,       \* tokens taken from sshSem
    first,     \* is `first', the error Sync.Run returns, set?
    runs       \* Sync.Run invocations so far

host == <<scn, written, alive>>
files == <<got, rec>>
local == <<snap, offset, size, delta, fails, noGrowth>>
vars == <<host, files, local, pc, sem, first, runs>>

Waiting == {"fetch", "check", "final"}
Holding == {"size", "tail", "ps", "fsize", "ftail"}
PCs == {"off", "judge"} \cup Waiting \cup Holding

TypeOK ==
    /\ scn \in [Nodes -> Scenarios]
    /\ written \in [Nodes -> Nat]
    /\ alive \in [Nodes -> BOOLEAN]
    /\ got \in [Nodes -> Seq(Nat)]
    /\ rec \in [Nodes -> [status : Statuses, logSize : Nat]]
    /\ snap \in [Nodes -> Statuses]
    /\ pc \in [Nodes -> PCs]
    /\ offset \in [Nodes -> Nat]
    /\ size \in [Nodes -> Nat]
    /\ delta \in [Nodes -> Seq(Nat)]
    /\ fails \in [Nodes -> 0..(FetchFailLimit - 1)]
    /\ noGrowth \in [Nodes -> 0..NoGrowthLimit]
    /\ sem \in Nat
    /\ first \in BOOLEAN
    /\ runs \in 1..MaxRuns
----------------------------------------------------------------------------
IsCdk(n) == scn[n].cdk

MayFail(n, operation) == operation \in scn[n].faults

\* The chunks at the given positions of n's remote log.
TextAt(n, positions) ==
    [i \in 1..Len(positions) |-> scn[n].out[positions[i]]]

RemoteText(n) == SubSeq(scn[n].out, 1, written[n])
LocalText(n) == scn[n].stale \o TextAt(n, got[n])

\* The positions `tail -c +(from+1)' prints when the log is `to' long.
Positions(from, to) == [i \in 1..(to - from) |-> from + i]

\* The guard at the head of Sync.Run's loop over the snapshot.
Monitored(n, status) == ShouldMonitorSyncStatus(status) /\ scn[n].pid

StartPc(n, status) == IF Monitored(n, status) THEN "fetch" ELSE "off"
----------------------------------------------------------------------------
Init ==
    /\ scn \in [Nodes -> Scenarios]
    /\ written = [n \in Nodes |-> IF scn[n].fresh THEN 0 ELSE Len(scn[n].out)]
    /\ alive = [n \in Nodes |-> scn[n].fresh]
    /\ got = [n \in Nodes |-> <<>>]
    /\ rec = [n \in Nodes |-> [status |-> scn[n].status, logSize |-> 0]]
    /\ snap = [n \in Nodes |-> scn[n].status]
    /\ pc = [n \in Nodes |-> StartPc(n, scn[n].status)]
    /\ offset = [n \in Nodes |-> 0]
    /\ size = [n \in Nodes |-> 0]
    /\ delta = [n \in Nodes |-> <<>>]
    /\ fails = [n \in Nodes |-> 0]
    /\ noGrowth = [n \in Nodes |-> 0]
    /\ sem = 0
    /\ first = FALSE
    /\ runs = 1

\* The client is killed or has returned, and `sync' is run (ResumeSync): the
\* goroutines' locals are gone, the local logs and script_status.json are not.
Resume ==
    /\ runs < MaxRuns
    /\ runs' = runs + 1
    /\ snap' = [n \in Nodes |-> rec[n].status]
    /\ pc' = [n \in Nodes |-> StartPc(n, rec[n].status)]
    /\ offset' = [n \in Nodes |-> rec[n].logSize]
    /\ size' = [n \in Nodes |-> 0]
    /\ delta' = [n \in Nodes |-> <<>>]
    /\ fails' = [n \in Nodes |-> 0]
    /\ noGrowth' = [n \in Nodes |-> 0]
    /\ sem' = 0
    /\ first' = FALSE
    /\ UNCHANGED <<host, files>>
----------------------------------------------------------------------------
\* The script's host.

ScriptWrite(n) ==
    /\ alive[n] /\ written[n] < Len(scn[n].out)
    /\ written' = [written EXCEPT ![n] = @ + 1]
    /\ UNCHANGED <<scn, alive, files, local, pc, sem, first, runs>>

ScriptExit(n) ==
    /\ alive[n] /\ ~scn[n].hangs /\ written[n] = Len(scn[n].out)
    /\ alive' = [alive EXCEPT ![n] = FALSE]
    /\ UNCHANGED <<scn, written, files, local, pc, sem, first, runs>>
----------------------------------------------------------------------------
Goto(n, label) == pc' = [pc EXCEPT ![n] = label]

\* withSSHToken: block for a token, hold it for all ssh calls of the operation.
Acquire(n, from, to) ==
    /\ pc[n] = from /\ sem < MaxTokens
    /\ sem' = sem + 1
    /\ Goto(n, to)
    /\ UNCHANGED <<host, files, local, first, runs>>

\* Mutants of Release: returned by the callee and by the defer; never returned.
ReleaseTwice == sem' = sem - 2
ReleaseNever == sem' = sem

Release == sem' = sem - 1

\* Mutant of SetStatus: the size of the remote log is saved, fetched or not.
SetStatusUnfetched(n, status) ==
    rec' = [rec EXCEPT ![n] = [status |-> status, logSize |-> written[n]]]

\* UpdateStatus as a goroutine calls it: the status, and LogSize := offset.
SetStatus(n, status) ==
    rec' = [rec EXCEPT ![n] = [status |-> status, logSize |-> offset[n]]]

\* Mutant of Report: the last verdict decides.
ReportLast(n, status) ==
    SetStatus(n, status) /\ first' = (status = "failed") /\ Goto(n, "off")

\* A verdict: write the record, keep the first failure, leave the goroutine.
Report(n, status) ==
    /\ SetStatus(n, status)
    /\ first' = (first \/ status = "failed")
    /\ Goto(n, "off")

\* appendToFile; the caller logs a write error and goes on.
AppendLocal(n, positions) ==
    \/ got' = [got EXCEPT ![n] = @ \o positions]
    \/ MayFail(n, "disk") /\ got' = got

StartFetch(n) == Acquire(n, "fetch", "size")
StartCheck(n) == Acquire(n, "check", "ps")
StartFinal(n) == Acquire(n, "final", "fsize")

\* Mutant of GiveUp: the limit is off by one.
GiveUpEarly(n) == fails[n] + 2 >= FetchFailLimit

GiveUp(n) == fails[n] + 1 >= FetchFailLimit

\* Either ssh call of the round's fetch fails: retry, or give up at the limit.
FetchFailed(n) ==
    /\ pc[n] \in {"size", "tail"} /\ MayFail(n, "fetch")
    /\ Release
    /\ IF GiveUp(n)
       THEN Report(n, "failed") /\ UNCHANGED fails
       ELSE /\ fails' = [fails EXCEPT ![n] = @ + 1]
            /\ Goto(n, "fetch")
            /\ UNCHANGED <<rec, first>>
    /\ size' = [size EXCEPT ![n] = 0]
    /\ UNCHANGED <<host, got, snap, offset, delta, noGrowth, runs>>

\* Mutant of MoreSilence: a round without data resets the counter.
MoreSilence0(rounds) == 0

MoreSilence(rounds) == IF rounds < NoGrowthLimit THEN rounds + 1 ELSE rounds

\* wc -c answers and the log has not grown: the fetch returns no data.
SizeUnchanged(n) ==
    /\ pc[n] = "size" /\ written[n] <= offset[n]
    /\ Release
    /\ delta' = [delta EXCEPT ![n] = <<>>]
    /\ fails' = [fails EXCEPT ![n] = 0]
    /\ noGrowth' = [noGrowth EXCEPT ![n] = MoreSilence(@)]
    /\ Goto(n, "check")
    /\ UNCHANGED <<host, files, snap, offset, size, first, runs>>

\* wc -c answers and there is more to fetch; from now on the size is a stale one.
SizeGrown(n, from, to) ==
    /\ pc[n] = from /\ written[n] > offset[n]
    /\ size' = [size EXCEPT ![n] = written[n]]
    /\ Goto(n, to)
    /\ UNCHANGED <<host, files, snap, offset, delta, fails, noGrowth, sem, first, runs>>

\* tail answers with everything from offset on; offset becomes the older size.
TailDone(n) ==
    /\ pc[n] = "tail"
    /\ Release
    /\ delta' = [delta EXCEPT ![n] = Positions(offset[n], written[n])]
    /\ AppendLocal(n, Positions(offset[n], written[n]))
    /\ offset' = [offset EXCEPT ![n] = size[n]]
    /\ size' = [size EXCEPT ![n] = 0]
    /\ fails' = [fails EXCEPT ![n] = 0]
    /\ noGrowth' = [noGrowth EXCEPT ![n] = 0]
    /\ Goto(n, "check")
    /\ UNCHANGED <<host, rec, snap, first, runs>>
----------------------------------------------------------------------------
\* checkRemoteProcess answers `running'.  Only if the log has been silent for
\* NoGrowthLimit rounds is the local log asked for a verdict.
CheckRunning(n) ==
    LET verdict == DetectTerminalStatus(LocalText(n), IsCdk(n)) IN
    /\ pc[n] = "ps" /\ alive[n]
    /\ Release
    /\ UNCHANGED <<host, got, local, runs>>
    /\ \/ /\ noGrowth[n] >= NoGrowthLimit /\ verdict # "undecided"
          /\ Report(n, verdict)
       \/ /\ noGrowth[n] < NoGrowthLimit \/ verdict = "undecided"
          /\ SetStatus(n, "running")
          /\ Goto(n, "fetch")
          /\ UNCHANGED first

\* ... or `gone'; a failed ssh call is taken for that, too.
CheckGone(n) ==
    /\ pc[n] = "ps" /\ (~alive[n] \/ MayFail(n, "check"))
    /\ Release
    /\ Goto(n, "final")
    /\ UNCHANGED <<host, files, local, first, runs>>

\* The last fetch brings nothing: no growth, or an ssh call failed.
FinalEmpty(n) ==
    /\ \/ pc[n] = "fsize" /\ written[n] <= offset[n]
       \/ pc[n] \in {"fsize", "ftail"} /\ MayFail(n, "fetch")
    /\ Release
    /\ size' = [size EXCEPT ![n] = 0]
    /\ Goto(n, "judge")
    /\ UNCHANGED <<host, files, snap, offset, delta, fails, noGrowth, first, runs>>

FinalTail(n) ==
    /\ pc[n] = "ftail"
    /\ Release
    /\ delta' = [delta EXCEPT ![n] = @ \o Positions(offset[n], written[n])]
    /\ AppendLocal(n, Positions(offset[n], written[n]))
    /\ offset' = [offset EXCEPT ![n] = size[n]]
    /\ size' = [size EXCEPT ![n] = 0]
    /\ Goto(n, "judge")
    /\ UNCHANGED <<host, rec, snap, fails, noGrowth, first, runs>>

\* Mutant of JudgedText: no fallback to the local log.
JudgedFetched(n) == TextAt(n, delta[n])

\* Judge by the round's data, or by the local log when the round had none.
JudgedText(n) ==
    IF delta[n] = <<>> THEN LocalText(n) ELSE TextAt(n, delta[n])

Judge(n) ==
    /\ pc[n] = "judge"
    /\ Report(n, DeriveStatusForCompletedProcess(JudgedText(n), snap[n], IsCdk(n)))
    /\ UNCHANGED <<host, got, local, sem, runs>>
----------------------------------------------------------------------------
SizeKnown(n) == SizeGrown(n, "size", "tail") \/ SizeGrown(n, "fsize", "ftail")

Proceed(n) ==
    \/ FetchFailed(n) \/ SizeUnchanged(n) \/ SizeKnown(n) \/ TailDone(n)
    \/ CheckRunning(n) \/ CheckGone(n) \/ FinalEmpty(n) \/ FinalTail(n)
    \/ Judge(n)

Blocked(n) == StartFetch(n) \/ StartCheck(n) \/ StartFinal(n)

Next ==
    \/ Resume
    \/ \E n \in Nodes : ScriptWrite(n) \/ ScriptExit(n) \/ Blocked(n) \/ Proceed(n)

Spec == Init /\ [][Next]_vars

\* A script that does not hang runs on; a goroutine's ssh calls return; senders
\* blocked on a Go channel are served in order, so none waits for ever.
Fairness ==
    \A n \in Nodes :
        /\ WF_vars(ScriptWrite(n)) /\ WF_vars(ScriptExit(n))
        /\ WF_vars(Proceed(n)) /\ SF_vars(Blocked(n))

FairSpec == Spec /\ Fairness
============================================================================
