---------------------- MODULE DeployRecoveryProperties ----------------------
(***************************************************************************)
(* What is true of DeployRecovery, and what the repository says that is    *)
(* not.                                                                    *)
(***************************************************************************)
EXTENDS DeployRecovery

\* Live scripts on the host of n.
Live(n) == Strays(cur[n]) + Strays(fresh[n]) + orphans[n]

Returns(error) == cmd # "none" /\ cmd' = "none" /\ outcome' = error

Starts(n) == fresh[n] = "none" /\ fresh'[n] = "live"
----------------------------------------------------------------------------
\* A client was killed while it rewrote script_status.json: no command can read it.
Torn == writing /\ cmd = "none"

\* Whatever is started is on file before (runService: preRegisterStatuses, then
\* runCommandsOnInstances): under any fault, a client killed at any point but inside a
\* rewrite of the file (which loses all records: Torn) leaves no live script that a
\* later `deploy-restore' would not find.
WriteAhead == ~Torn => \A n \in Nodes : Live(n) > 0 => disk[n].status # "absent"

\* The failure marker of an earlier attempt of n misleads no verdict on a later one.
Untangled(n) == n \notin Cdk \/ "bad" \notin left[n]

\* A success on file has a PID and was earned on the host: by the script of that PID, or
\* by another one there whose marker is in a log (sync.go:183, 250).  If only steps before
\* a start fail, it is the script's own, unless an earlier CDK attempt has left its mark.
SuccessEarned ==
    \A n \in Nodes : disk[n].status = "success" =>
        /\ disk[n].pid
        /\ cur[n] = "good" \/ "ok" \in left[n]
        /\ env \subseteq {"setup"} /\ Untangled(n) => cur[n] = "good"

\* Unless the client is killed or an answer lost, a pending record's command has not
\* been started (README.md:235), except while the call that starts it is under way.
PendingNotStarted ==
    ~Possible("crash") /\ ~Possible("answer")
    => \A n \in Nodes :
           disk[n].status = "pending" /\ step[n] # "started" => Live(n) = 0

\* If nothing fails but steps before a script's start, the retry loop and any later
\* `sync' and `deploy-restore' never start a script on a host where one runs, unless it
\* is a CDK script that was taken for failed by the marker of an earlier attempt.
NoDoubleScript ==
    env \subseteq {"setup"} => \A n \in Nodes : Untangled(n) => Live(n) <= 1

\* The automatic retry restarts failed scripts only: none that has succeeded, is
\* running (left so by an attempt that another host's launch failed), is undecided
\* or was never started.
OnlyFailedRetried ==
    [][\A n \in Nodes :
          Starts(n) /\ cmd = "deploy" /\ retry > 0 => disk[n].status = "failed"]_vars

Settled(n) ==
    \/ disk[n].status = "success"
    \/ n \in Cdk /\ disk[n].status = "unknown"

\* If the deployment returns without error, every script of every service has
\* succeeded or (CDK) is left to a person, however launches failed and were retried
\* on the way.  The same holds of what is on file for `deploy-restore' without IPs.
NilMeansSettled ==
    [][Returns("nil") /\ ~Possible("answer")
       => CASE cmd = "deploy" -> \A n \in Nodes : Settled(n)
            [] cmd = "restore" /\ ~Possible("byip") -> \A n \in Recorded : Settled(n)
            [] OTHER -> TRUE]_vars

\* The deployment always comes to an end, at most RetryLimit attempts later,
\* provided every script does.
DeployReturns == (cmd = "deploy") ~> (cmd = "none")
----------------------------------------------------------------------------
(* Statements of the repository that the code does not keep. *)

\* README.md:238: a record becomes running when its PID is known.
RunningHasPid == \A n \in Nodes : disk[n].status = "running" => disk[n].pid

\* deploy.go:212: a deployment that succeeds after retries reports that all chains
\* have succeeded.
RetriedMeansAllSucceeded ==
    [][Returns("nil") /\ cmd = "deploy" /\ retry > 0
       => \A n \in Nodes : disk[n].status = "success"]_vars
============================================================================
