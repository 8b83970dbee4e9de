------------------------- MODULE LogSyncProperties -------------------------
(***************************************************************************)
(* What is true of LogSync, and what its comments say that is not.         *)
(***************************************************************************)
EXTENDS LogSync

Done == \A n \in Nodes : pc[n] = "off"

Holders == {n \in Nodes : pc[n] \in Holding}

Watched(n) == Monitored(n, snap[n])

ChunksOf(log) == {log[i] : i \in DOMAIN log}

MarkerIn(log) == "ok" \in Visible(log)

Held(n) == {got[n][i] : i \in DOMAIN got[n]}
----------------------------------------------------------------------------
\* Every token taken is held by one goroutine in an ssh operation, and never are
\* more in use than sshSem has: no path of the goroutine keeps or returns one twice.
TokensConserved == sem = Cardinality(Holders) /\ sem <= MaxTokens

\* Whatever fetches overlapped, and however often the client was killed between
\* appending and saving, no line before the goroutine's offset or the persisted
\* LogSize is missing from the local log, provided appending to it works: a later
\* fetch never skips one.
NothingSkipped ==
    \A n \in Nodes :
        ~MayFail(n, "disk") => 1..offset[n] \cup 1..rec[n].logSize \subseteq Held(n)

\* Once every goroutine has returned, Sync.Run returns an error exactly if it
\* left a record it watched as failed.
ErrorReported ==
    Done => (first <=> \E n \in Nodes : Watched(n) /\ rec[n].status = "failed")

\* While process checks work, a record becomes failed, unknown or success while
\* its script is alive only after a full run of fetch failures, or if the local log decides it.
AliveNotJudged ==
    [][\A n \in Nodes :
          /\ rec'[n].status # rec[n].status /\ rec'[n].status # "running"
          /\ alive[n] /\ ~MayFail(n, "check")
          => \/ fails[n] + 1 = FetchFailLimit /\ rec'[n].status = "failed"
             \/ rec'[n].status = DetectTerminalStatus(LocalText(n), IsCdk(n))]_vars

\* Where logs consist of whole lines, success is only ever written for a script whose
\* remote log shows the marker, or whose local log did before it ran.
SuccessHonest ==
    [][\A n \in Nodes :
          /\ rec'[n].status = "success" /\ rec[n].status # "success"
          /\ "plus" \notin ChunksOf(scn[n].out)
          => MarkerIn(RemoteText(n)) \/ MarkerIn(scn[n].stale)]_vars

\* With a reliable network and disk, a script whose log ends with the marker (and, for
\* CDK, quotes no failure) is never recorded as failed or unknown, however its output and
\* its exit fall between fetches, checks and restarts of the client.  What an earlier
\* attempt left in the local log must be whole lines and, for CDK, no failure either.
FinishedWell(n) ==
    LET log == scn[n].out
        before == scn[n].stale IN
    /\ scn[n].faults = {} /\ scn[n].fresh /\ log # <<>> /\ log[Len(log)] = "ok"
    /\ Survives(log, Len(log)) /\ (before # <<>> => before[Len(before)] # "plus")
    /\ IsCdk(n) => "bad" \notin ChunksOf(before) \cup ChunksOf(log)

FinishedNotFailed ==
    \A n \in Nodes :
        FinishedWell(n) /\ rec[n].status \in {"failed", "unknown"}
        => rec[n].status = scn[n].status

FailureQuoted(n) == "bad" \in ChunksOf(RemoteText(n)) \cup ChunksOf(scn[n].stale)

\* Each record moves as StatusLifecycle says: by the README's status table and the rule
\* for a second look that only sync.go:263 and sync_test.go:136 have.  In particular no
\* CDK script is failed at first sight unless a log quotes a failure or the fetches of
\* its log have failed to the limit, and none that was unknown stays so.
Lifecycle == INSTANCE StatusLifecycle WITH
    cdk <- [n \in Nodes |-> scn[n].cdk],
    status <- [n \in Nodes |-> rec[n].status],
    doubted <- [n \in Nodes |-> snap[n] = "unknown"],
    quoted <- [n \in Nodes |-> FailureQuoted(n)],
    lost <- [n \in Nodes |-> fails[n] + 1 = FetchFailLimit]

FollowsLifecycle == Lifecycle!Spec
----------------------------------------------------------------------------
\* The last Sync.Run started returns: no goroutine waits for a token for ever, neither
\* lost ssh calls nor a silent log keep one going, and a script that hangs after writing
\* its marker is given its verdict by the silent-log rule, provided appending that marker
\* to the local log works.  (Scripts that hang without a marker are watched for ever, and
\* are not in the run's scenarios.)
SyncReturns == (\A n \in Nodes : scn[n].hangs => ~MayFail(n, "disk")) => <>[]Done
----------------------------------------------------------------------------
(* Statements of the repository that the code does not keep. *)

JudgedFailed(n) == rec'[n].status = "failed" /\ rec[n].status # "failed"

\* sync.go:99: only a run of failures at the limit makes the network's trouble a
\* verdict.  So a script is failed at the limit, or because its log says so, or
\* because it is gone without having written the marker.
JitterTolerated ==
    [][\A n \in Nodes :
          JudgedFailed(n)
          => \/ fails[n] + 1 = FetchFailLimit
             \/ IsCdk(n) /\ "bad" \in Visible(RemoteText(n))
             \/ ~alive[n] /\ ~MarkerIn(RemoteText(n))]_vars

\* README.md:243-249: a CDK script that has ended and whose log has neither marker is
\* unknown, and for a person to look at; it is failed only for a failure in its log, or
\* at the limit of fetch failures.
UnknownLeftToAPerson ==
    [][\A n \in Nodes :
          JudgedFailed(n) /\ IsCdk(n) => fails[n] + 1 = FetchFailLimit \/ FailureQuoted(n)]_vars

\* sync.go:353: each fetch pulls only what is new, so no line is fetched twice.
NoLineTwice ==
    \A n \in Nodes : \A i, j \in DOMAIN got[n] : got[n][i] = got[n][j] => i = j

\* sync.go:101: the silent-log rule is for a log that has ended, so a live script
\* is judged by it only when its own log shows a verdict.
SilentLogMeansEnded ==
    [][\A n \in Nodes :
          rec'[n].status = "success" /\ rec[n].status # "success" /\ alive[n]
          => MarkerIn(RemoteText(n))]_vars
============================================================================
