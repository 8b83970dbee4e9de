----------------------------- MODULE MCLogSync -----------------------------
(* Instances of LogSync for TLC: the scripts and hosts of each run. *)
EXTENDS LogSyncProperties

CONSTANTS n1, n2

Fresh(isCdk, log) ==
    [cdk |-> isCdk, out |-> log, hangs |-> FALSE, fresh |-> TRUE,
     stale |-> <<>>, status |-> "running", pid |-> TRUE, faults |-> {}]

Hung(isCdk, log) == [Fresh(isCdk, log) EXCEPT !.hangs = TRUE]

\* The script died before its redirection: the remote log is an older one.
Stillborn(isCdk, log) == [Fresh(isCdk, log) EXCEPT !.fresh = FALSE]

\* A restored record: the local log still holds the previous attempt.
Restored(isCdk, log, before) == [Fresh(isCdk, log) EXCEPT !.stale = before]

\* A record Sync.Run does not watch, or cannot.
Unwatched(found, hasPid) ==
    [Fresh(FALSE, <<"ok">>) EXCEPT !.status = found, !.pid = hasPid]

With(scenarios, faults) == {[s EXCEPT !.faults = faults] : s \in scenarios}

\* Logs of every kind of ending, whole lines only.
Endings == {<<"out", "trace", "ok">>, <<"out", "bad">>, <<"ok", "out">>, <<"trace">>}

Various ==
    {Fresh(c, log) : c \in BOOLEAN, log \in Endings}
        \cup {Hung(c, <<"ok", "out">>) : c \in BOOLEAN}
        \cup {Stillborn(FALSE, <<"out">>), Restored(TRUE, <<"ok">>, <<"bad">>)}
        \cup {Unwatched("pending", FALSE), Unwatched("running", FALSE)}

\* Scripts that finish well, at several paces.
Finishing ==
    {Fresh(c, log) : c \in BOOLEAN,
        log \in {<<"ok">>, <<"out", "ok">>, <<"out", "trace", "ok">>, <<"out", "out", "ok">>}}
    \cup {Hung(FALSE, <<"out", "ok">>), Restored(TRUE, <<"plus", "out", "ok">>, <<"out">>)}

Every ==
    With(Various, {"fetch", "check", "disk"}) \cup With(Various, {"fetch"})
        \cup With(Finishing, {})

\* Small hosts, for several goroutines: they end, or hang after the marker.
Crowd ==
    With({Fresh(FALSE, <<"ok">>), Fresh(TRUE, <<>>)}, {"fetch", "check"})
        \cup With({Hung(FALSE, <<"ok">>), Unwatched("failed", TRUE)}, {"fetch"})

\* One host watched, through restarts of the client; or several, by one Sync.Run.
Beside == [Stillborn(FALSE, <<>>) EXCEPT !.status = "success"]
All == Every \cup Crowd \cup {Beside}
Crowded == scn \in [Nodes -> Crowd]

MCInit == Init /\ (Crowded \/ (scn[n1] \in Every /\ scn[n2] = Beside))
MCNext == Next /\ (Crowded => runs' = runs)
MCSpec == MCInit /\ [][MCNext]_vars /\ Fairness

\* For the statements that fail.
Short == {Fresh(FALSE, <<"out", "ok">>)}
Markless == {Fresh(TRUE, <<"out">>)}
Unchecked == With(Short, {"check"})
Rerun == {Restored(FALSE, <<"out", "ok">>, <<"ok">>)}
============================================================================
