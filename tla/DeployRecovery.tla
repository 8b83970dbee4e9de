--------------------------- MODULE DeployRecovery ---------------------------
(***************************************************************************)
(* The life of one deployment: Deployer.Run launches a script on every     *)
(* machine, service by service, Sync.Run watches the scripts, and          *)
(* RunWithRestoreRetryWithOptions restarts the failed ones; later the      *)
(* operator may call `sync' and `deploy-restore'.  The client may be       *)
(* killed anywhere, also while it rewrites script_status.json in place;    *)
(* what survives is that file, if it is whole, and the scripts on the      *)
(* hosts.  Sync.Run's verdicts are those of LogSync: too early when calls  *)
(* are lost, and misled by what earlier scripts left in the logs.  Failed  *)
(* writes of script_status.json are left out, and one client runs at once. *)
(***************************************************************************)
EXTENDS LogVerdict, Integers, FiniteSets

CONSTANTS
    Nodes,         \* one script record each; every node has its own IP
    Services,      \* a sequence of disjoint sets of nodes: cfg.Services
    Cdk,           \* the nodes of CDK services
    RetryLimit,    \* deployRestoreMaxRetries (3)
    MaxCommands,   \* bound: commands the operator runs after the deployment
    Environments   \* sets of things that may happen, one of which is given

ASSUME PlanAssumption ==
    /\ Services \in Seq(SUBSET Nodes) /\ Services # <<>>
    /\ \A n \in Nodes : \E i \in DOMAIN Services : n \in Services[i]
    /\ \A i, j \in DOMAIN Services : i # j => Services[i] \cap Services[j] = {}
    /\ Cdk \subseteq Nodes /\ IsFiniteSet(Nodes)
ASSUME BoundsAssumption == RetryLimit \in Nat \ {0} /\ MaxCommands \in Nat
\* crash: the client is killed; setup: a step before a script's start fails;
\* answer: ssh or its output is lost after the start; jitter: calls of Sync.Run are
\* lost (LogSync); byip: the operator names IPs in `deploy-restore'.
Events == {"crash", "setup", "answer", "jitter", "byip"}
ASSUME EnvironmentsAssumption == Environments \subseteq SUBSET Events

VARIABLES
    env,        \* what may happen, fixed
    mem,        \* mem[n]: OutputManager.statuses in the running client
    disk,       \* disk[n]: the record in script_status.json, once it is whole
    writing,    \* is that file truncated and not yet whole again?
    cmd,        \* the command running, or "none"
    phase,      \* what it is doing
    svc,        \* the service Deployer.Run is at
    retry,      \* restore attempts of RunWithRestoreRetryWithOptions so far
    step,       \* step[n]: where the command is with n
    errs,       \* has an error been collected since the phase began?
    outcome,    \* what the last command returned
    commands,   \* operator commands so far
    cur,        \* cur[n]: the script the record's PID names
    fresh,      \* fresh[n]: a script started and not recorded yet
    orphans,    \* orphans[n]: live scripts no record knows
    left        \* left[n]: what other scripts of n than cur[n] have put, at most, into the
                \* local log or the shared remote one: a success marker, a failure
                \* marker, or output at any time from a script still running

records == <<mem, disk, writing>>
client == <<cmd, phase, svc, retry, step, errs, outcome, commands>>
scripts == <<cur, fresh, orphans, left>>
vars == <<env, records, client, scripts>>

\* pid: is PID > 0?
Record == [status : Statuses \cup {"absent"}, pid : BOOLEAN]
Absent == [status |-> "absent", pid |-> FALSE]
Pending == [status |-> "pending", pid |-> FALSE]

\* A live script has no marker in its log; "good": its last line is the success marker.
Scripts == {"none", "live", "good", "bad"}
Leavings == {"ok", "bad", "noise"}

TypeOK ==
    /\ mem \in [Nodes -> Record] /\ disk \in [Nodes -> Record] /\ writing \in BOOLEAN
    /\ env \in Environments
    /\ cmd \in {"none", "deploy", "restore", "sync"}
    /\ phase \in {"idle", "plan", "launch", "sync", "list"}
    /\ svc \in DOMAIN Services
    /\ retry \in 0..RetryLimit
    /\ step \in [Nodes -> {"off", "todo", "started", "watch", "doubt"}]
    /\ errs \in BOOLEAN
    /\ outcome \in {"none", "nil", "error"}
    /\ commands \in 0..MaxCommands
    /\ cur \in [Nodes -> Scripts] /\ fresh \in [Nodes -> Scripts]
    /\ orphans \in [Nodes -> Nat] /\ left \in [Nodes -> SUBSET Leavings]
----------------------------------------------------------------------------
Possible(event) == event \in env

\* UpdateStatus, saveStatusesLocked: under the mutex, change the record in memory and
\* write the whole file; os.WriteFile truncates it first, which only a kill can show.
Save(n, record) ==
    /\ ~writing /\ writing' = Possible("crash")
    /\ mem' = [mem EXCEPT ![n] = record]
    /\ disk' = mem'

\* ... the new contents are there, and the mutex is free.
Written ==
    /\ writing /\ cmd # "none"
    /\ writing' = FALSE
    /\ UNCHANGED <<env, mem, disk, client, scripts>>

\* One step of the running command for n, in its phase.
At(n, during, at) == phase = during /\ step[n] = at
Now(n, next) == step' = [step EXCEPT ![n] = next]
Idle == ~writing /\ \A n \in Nodes : step[n] = "off"

Restoring == cmd = "restore" \/ retry > 0

Return(error) ==
    /\ cmd' = "none" /\ phase' = "idle"
    /\ outcome' = IF error THEN "error" ELSE "nil"

\* Sync.Run: watch what the records say is running or undecided, and has a PID.
BeginSync(recs) ==
    /\ phase' = "sync" /\ errs' = FALSE
    /\ step' = [n \in Nodes |->
           IF ~(ShouldMonitorSyncStatus(recs[n].status) /\ recs[n].pid) THEN "off"
           ELSE IF recs[n].status = "unknown" THEN "doubt" ELSE "watch"]

\* Mutant of RestoreCandidates: whatever has not succeeded is restarted.
AllUnfinished(recs, ips) ==
    {n \in Nodes : recs[n].status \notin {"absent", "success"} /\ (ips = {} \/ n \in ips)}

\* filterRestoreCommandCandidates, on the records of the IPs named.  A record
\* always has its command, and without IPs only failed and pending ones count.
RestoreCandidates(recs, ips) ==
    {n \in Nodes : /\ recs[n].status # "absent"
                   /\ IF ips # {} THEN n \in ips
                                  ELSE recs[n].status \in {"failed", "pending"}}

\* Restore: load the file, restart the candidates, or only synchronise.
BeginRestore(ips) ==
    LET candidates == RestoreCandidates(disk, ips) IN
    /\ mem' = disk
    /\ IF candidates = {}
       THEN BeginSync(disk)
       ELSE /\ phase' = "launch" /\ errs' = FALSE
            /\ step' = [n \in Nodes |-> IF n \in candidates THEN "todo" ELSE "off"]

\* runService, first half: preRegisterStatuses for the machines of service i.
BeginService(i) ==
    /\ phase' = "plan" /\ errs' = FALSE
    /\ step' = [n \in Nodes |-> IF n \in Services[i] THEN "todo" ELSE "off"]

\* Deployment starts with an empty output directory (NewDeployer rotated it).
Init ==
    /\ mem = [n \in Nodes |-> Absent] /\ disk = mem /\ writing = FALSE
    /\ env \in Environments
    /\ cmd = "deploy" /\ phase = "plan" /\ svc = 1 /\ retry = 0
    /\ step = [n \in Nodes |-> IF n \in Services[1] THEN "todo" ELSE "off"]
    /\ errs = FALSE /\ outcome = "none" /\ commands = 0
    /\ cur = [n \in Nodes |-> "none"] /\ fresh = cur
    /\ orphans = [n \in Nodes |-> 0] /\ left = [n \in Nodes |-> {}]
----------------------------------------------------------------------------
\* Mutant of PreRegister: the plan is kept in memory only.
PreRegisterInMemory(n) ==
    /\ At(n, "plan", "todo") /\ Now(n, "off")
    /\ mem' = [mem EXCEPT ![n] = Pending]
    /\ UNCHANGED <<env, disk, writing, cmd, phase, svc, retry, errs, outcome, commands, scripts>>

\* UpsertPlannedStatus, one goroutine per machine.
PreRegister(n) ==
    /\ At(n, "plan", "todo") /\ Now(n, "off")
    /\ Save(n, Pending)
    /\ UNCHANGED <<env, cmd, phase, svc, retry, errs, outcome, commands, scripts>>

\* No command can be built for n: the others are planned, the service fails.
PlanFailed(n) ==
    /\ Possible("setup") /\ At(n, "plan", "todo") /\ Now(n, "off")
    /\ errs' = TRUE
    /\ UNCHANGED <<env, records, cmd, phase, svc, retry, outcome, commands, scripts>>

\* The vaults are not funded, or too few machines are reachable by ssh.
ServiceFailed ==
    /\ Possible("setup") /\ phase = "plan" /\ ~errs
    /\ \A n \in Services[svc] : step[n] = "todo"
    /\ phase' = "list" /\ errs' = TRUE
    /\ step' = [n \in Nodes |-> "off"]
    /\ UNCHANGED <<env, records, cmd, svc, retry, outcome, commands, scripts>>

PlanDone ==
    /\ phase = "plan" /\ Idle
    /\ UNCHANGED <<env, records, cmd, svc, retry, errs, outcome, commands, scripts>>
    /\ \/ errs /\ phase' = "list" /\ UNCHANGED step
       \/ /\ ~errs /\ phase' = "launch"
          /\ step' = [n \in Nodes |-> IF n \in Services[svc] THEN "todo" ELSE "off"]

\* The machine is not found, not tagged, not reachable, or ssh fails before the
\* script has started.
LaunchFailed(n) ==
    /\ Possible("setup") /\ At(n, "launch", "todo") /\ Now(n, "off")
    /\ errs' = TRUE
    /\ UNCHANGED <<env, records, cmd, phase, svc, retry, outcome, commands, scripts>>

\* The ssh call starts the script on the host ...
ScriptStarts(n) ==
    /\ At(n, "launch", "todo") /\ Now(n, "started")
    /\ fresh' = [fresh EXCEPT ![n] = "live"]
    /\ UNCHANGED <<env, records, cmd, phase, svc, retry, errs, outcome, commands, cur, orphans,
                   left>>

\* Live scripts lost from sight when the record of n takes up, or drops, one.
Strays(script) == IF script = "live" THEN 1 ELSE 0

\* What such a script may have written: a restart truncates the remote log, but not
\* the local one, and a live script goes on writing to the same remote log.
LeftBy(script) ==
    CASE script = "live" -> {"noise"}
      [] script = "good" -> {"ok"}
      [] script = "bad" -> {"bad"}
      [] script = "none" -> {}

Forget(n) ==
    /\ fresh' = [fresh EXCEPT ![n] = "none"]
    /\ orphans' = [orphans EXCEPT ![n] = @ + Strays(fresh[n])]
    /\ left' = [left EXCEPT ![n] = @ \cup LeftBy(fresh[n])]
    /\ UNCHANGED cur

TakeUp(n) ==
    /\ cur' = [cur EXCEPT ![n] = fresh[n]]
    /\ fresh' = [fresh EXCEPT ![n] = "none"]
    /\ orphans' = [orphans EXCEPT ![n] = @ + Strays(cur[n])]
    /\ left' = [left EXCEPT ![n] = @ \cup LeftBy(cur[n])]

\* Mutants of Started: the status is not reset; a success is not taken back.
StartedKeeping(n, hasPid) == [mem[n] EXCEPT !.pid = hasPid]
StartedUnlessDone(n, hasPid) ==
    [status |-> IF mem[n].status = "success" THEN "success" ELSE "running", pid |-> hasPid]

\* InitStatus, and the update in Restorer.runForStatus.
Started(n, hasPid) == [status |-> "running", pid |-> hasPid]

\* ... its PID comes back, and the record is written.
RecordStarted(n) ==
    /\ At(n, "launch", "started") /\ Now(n, "off")
    /\ Save(n, Started(n, TRUE))
    /\ TakeUp(n)
    /\ UNCHANGED <<env, cmd, phase, svc, retry, errs, outcome, commands>>

\* ssh fails after all, or (deploy) no PID can be parsed: an error, no record.
AnswerLost(n) ==
    /\ Possible("answer") /\ At(n, "launch", "started") /\ Now(n, "off")
    /\ errs' = TRUE
    /\ Forget(n)
    /\ UNCHANGED <<env, records, cmd, phase, svc, retry, outcome, commands>>

\* runForStatus logs that no PID can be parsed, and records PID 0.
RestoreWithoutPid(n) ==
    /\ Possible("answer") /\ Restoring /\ At(n, "launch", "started") /\ Now(n, "off")
    /\ Save(n, Started(n, FALSE))
    /\ cur' = [cur EXCEPT ![n] = "none"] /\ fresh' = [fresh EXCEPT ![n] = "none"]
    /\ orphans' = [orphans EXCEPT ![n] = @ + Strays(cur[n]) + Strays(fresh[n])]
    /\ left' = [left EXCEPT ![n] = @ \cup LeftBy(cur[n]) \cup LeftBy(fresh[n])]
    /\ UNCHANGED <<env, cmd, phase, svc, retry, errs, outcome, commands>>

\* With errors Deployer.Run and Restorer.Run return before any synchronisation.
LaunchesDone ==
    /\ phase = "launch" /\ Idle
    /\ UNCHANGED <<env, records, retry, commands, scripts>>
    /\ \/ /\ errs /\ cmd = "deploy"
          /\ phase' = "list" /\ UNCHANGED <<cmd, svc, step, errs, outcome>>
       \/ /\ errs /\ cmd # "deploy"
          /\ Return(TRUE) /\ UNCHANGED <<svc, step, errs>>
       \/ /\ ~errs /\ ~Restoring /\ svc < Len(Services)
          /\ svc' = svc + 1 /\ BeginService(svc') /\ UNCHANGED <<cmd, outcome>>
       \/ /\ ~errs /\ (Restoring \/ svc = Len(Services))
          /\ BeginSync(mem) /\ UNCHANGED <<cmd, svc, outcome>>
----------------------------------------------------------------------------
\* A poll that finds the script alive; the record is written in any case.
StillRunning(n) ==
    /\ phase = "sync" /\ step[n] # "off" /\ cur[n] = "live"
    /\ Save(n, [mem[n] EXCEPT !.status = "running"])
    /\ UNCHANGED <<env, client, scripts>>

\* What Sync.Run may find in the logs: a success marker of the script itself, or one
\* that is not its own - in the local log, which decides when the remote one brings
\* nothing new, for a live script too, or in the remote log of scripts that overlap.
ShowsSuccess(n) == cur[n] = "good" \/ "ok" \in left[n]

\* A failure marker left there; it counts for CDK only, and before success.
ShowsOldFailure(n) == n \in Cdk /\ "bad" \in left[n]

\* The end of the log is not judged, or is not the script's: calls are lost, or a
\* script beside it writes after its last line.
EndHidden(n) == Possible("jitter") \/ (cur[n] = "good" /\ "noise" \in left[n])

\* The verdicts Sync.Run may reach (LogSync's CheckRunning, FetchFailed and Judge): a
\* CDK script that ended badly may have left no mark; found unknown, it is failed for that.
Verdicts(n) ==
    {verdict \in {"success", "failed", "unknown"} :
        CASE verdict = "success" -> ShowsSuccess(n)
          [] verdict = "failed" -> cur[n] = "bad" \/ ShowsOldFailure(n) \/ EndHidden(n)
          [] verdict = "unknown" ->
               n \in Cdk /\ step[n] = "watch" /\ (cur[n] = "bad" \/ EndHidden(n))}

Judge(n) ==
    /\ phase = "sync" /\ step[n] # "off" /\ Now(n, "off")
    /\ \E verdict \in Verdicts(n) :
         /\ Save(n, [mem[n] EXCEPT !.status = verdict])
         /\ errs' = (errs \/ verdict = "failed")
    /\ UNCHANGED <<env, cmd, phase, svc, retry, outcome, commands, scripts>>

SyncDone ==
    /\ phase = "sync" /\ Idle
    /\ UNCHANGED <<env, records, svc, retry, step, errs, commands, scripts>>
    /\ IF cmd = "deploy" THEN phase' = "list" /\ UNCHANGED <<cmd, outcome>>
                         ELSE Return(errs)
----------------------------------------------------------------------------
\* Mutant of FailedOnDisk: whatever has not succeeded or been planned.
FailedOrOpen == {n \in Nodes : disk[n].status \in {"failed", "running", "unknown"}}

\* listFailedIPsFromOutput, from the file.
FailedOnDisk == {n \in Nodes : disk[n].status = "failed"}

\* Mutants of RetryAgain: one attempt too many; the attempts are not counted.
RetryOnceMore ==
    /\ phase = "list" /\ FailedOnDisk # {} /\ retry <= RetryLimit
    /\ retry' = retry + 1
    /\ BeginRestore(FailedOnDisk)
    /\ UNCHANGED <<env, disk, writing, cmd, svc, outcome, commands, scripts>>

RetryForever ==
    /\ phase = "list" /\ FailedOnDisk # {}
    /\ retry' = 1
    /\ BeginRestore(FailedOnDisk)
    /\ UNCHANGED <<env, disk, writing, cmd, svc, outcome, commands, scripts>>

\* RunWithRestoreRetryWithOptions: restart the failed records, and again, at
\* most RetryLimit times; what Restore returns is only logged.
RetryAgain ==
    /\ phase = "list" /\ FailedOnDisk # {} /\ retry < RetryLimit
    /\ retry' = retry + 1
    /\ BeginRestore(FailedOnDisk)
    /\ UNCHANGED <<env, disk, writing, cmd, svc, outcome, commands, scripts>>

\* Mutant of RetryDone: without failed records, success.
RetryDoneNil ==
    /\ phase = "list"
    /\ FailedOnDisk = {} \/ retry = RetryLimit
    /\ Return(FailedOnDisk # {})
    /\ UNCHANGED <<env, records, svc, retry, step, errs, commands, scripts>>

\* The error of the deployment itself is returned only if nothing was retried.
RetryDone ==
    /\ phase = "list"
    /\ FailedOnDisk = {} \/ retry = RetryLimit
    /\ Return(FailedOnDisk # {} \/ (retry = 0 /\ errs))
    /\ UNCHANGED <<env, records, svc, retry, step, errs, commands, scripts>>

Recorded == {n \in Nodes : disk[n].status # "absent"}

\* The operator runs a command; it reads the file first, or gives up there.
Command(name) ==
    /\ cmd = "none" /\ commands < MaxCommands
    /\ commands' = commands + 1 /\ retry' = 0
    /\ cmd' = name

SyncCommand ==
    /\ Command("sync") /\ ~writing
    /\ mem' = disk
    /\ BeginSync(disk)
    /\ UNCHANGED <<env, disk, writing, svc, outcome, scripts>>

\* `deploy-restore', for all records or for the IPs named.
RestoreCommand(ips) ==
    /\ Command("restore") /\ ~writing
    /\ Recorded # {} /\ ips \subseteq Recorded /\ (ips = {} \/ Possible("byip"))
    /\ BeginRestore(ips)
    /\ UNCHANGED <<env, disk, writing, svc, outcome, scripts>>

\* The file is not there or not whole, or does not have all the IPs named: an error.
CommandRefused ==
    /\ Command("none")
    /\ Recorded # Nodes \/ writing
    /\ outcome' = "error"
    /\ UNCHANGED <<env, records, phase, svc, step, errs, scripts>>

\* The client is killed.  A script it had just started goes on unrecorded, and the file
\* it was writing stays as it is.
Crash ==
    /\ Possible("crash") /\ cmd # "none"
    /\ cmd' = "none" /\ phase' = "idle" /\ retry' = 0 /\ errs' = FALSE
    /\ step' = [n \in Nodes |-> "off"]
    /\ outcome' = "none"
    /\ fresh' = [n \in Nodes |-> "none"]
    /\ orphans' = [n \in Nodes |-> orphans[n] + Strays(fresh[n])]
    /\ left' = [n \in Nodes |-> left[n] \cup LeftBy(fresh[n])]
    /\ mem' = disk
    /\ UNCHANGED <<env, disk, writing, svc, commands, cur>>
----------------------------------------------------------------------------
\* A script on a host ends, well or badly.
ScriptEnds(n) ==
    /\ UNCHANGED <<env, records, client>>
    /\ \/ /\ cur[n] = "live"
          /\ \E end \in {"good", "bad"} : cur' = [cur EXCEPT ![n] = end]
          /\ UNCHANGED <<fresh, orphans, left>>
       \/ /\ fresh[n] = "live"
          /\ \E end \in {"good", "bad"} : fresh' = [fresh EXCEPT ![n] = end]
          /\ UNCHANGED <<cur, orphans, left>>
       \/ /\ orphans[n] > 0
          /\ orphans' = [orphans EXCEPT ![n] = @ - 1]
          /\ \E end \in {"good", "bad"} : left' = [left EXCEPT ![n] = @ \cup LeftBy(end)]
          /\ UNCHANGED <<cur, fresh>>

NodeStep(n) ==
    \/ PreRegister(n) \/ PlanFailed(n) \/ LaunchFailed(n) \/ ScriptStarts(n) \/ RecordStarted(n)
    \/ AnswerLost(n) \/ RestoreWithoutPid(n) \/ StillRunning(n) \/ Judge(n)

PhaseStep ==
    \/ ServiceFailed \/ PlanDone \/ LaunchesDone \/ SyncDone \/ RetryAgain \/ RetryDone
    \/ Written

Operator == SyncCommand \/ CommandRefused \/ \E ips \in SUBSET Nodes : RestoreCommand(ips)

Next ==
    \/ PhaseStep \/ Operator \/ Crash
    \/ \E n \in Nodes : NodeStep(n) \/ ScriptEnds(n)

Spec == Init /\ [][Next]_vars

\* ssh calls and writes return and goroutines are scheduled; every script ends.
Fairness ==
    /\ WF_vars(PhaseStep)
    /\ \A n \in Nodes : WF_vars(NodeStep(n)) /\ WF_vars(ScriptEnds(n))

FairSpec == Spec /\ Fairness
=============================================================================
