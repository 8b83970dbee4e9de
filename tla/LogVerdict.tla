---------------------------- MODULE LogVerdict ----------------------------
(***************************************************************************)
(* How internal/deploy/sync.go reads a deployment script's log.            *)
(*                                                                         *)
(* A log is a sequence of chunks.  A chunk is what one write of the script *)
(* leaves in the file, and only what the judging code tells apart is kept: *)
(*   "ok"    a line with the success marker                                *)
(*   "bad"   a line with the failure marker of cdk_pipe.sh's trap          *)
(*   "trace" a whole `set -x' line that happens to quote the marker        *)
(*   "plus"  the head of a `set -x' line; the next chunk completes it      *)
(*   "out"   any other line                                                *)
(* Every definition is pure; LogSync uses them for its verdicts.           *)
(***************************************************************************)
EXTENDS Naturals, Sequences

Chunks == {"ok", "bad", "trace", "plus", "out"}

Logs == Seq(Chunks)

Statuses == {"pending", "running", "success", "failed", "unknown"}

Terminal == {"success", "failed"}

\* stripXTraceLines: a trace line is dropped to its end, wherever the data starts.
Survives(log, i) ==
    /\ log[i] \notin {"trace", "plus"}
    /\ i > 1 => log[i - 1] # "plus"

Visible(log) == {log[i] : i \in {j \in 1..Len(log) : Survives(log, j)}}

\* Mutant of DetectTerminalStatus: the log is searched with its trace lines.
DetectUnstripped(log, isCdk) ==
    LET text == {log[i] : i \in DOMAIN log} IN
    CASE isCdk /\ "bad" \in text -> "failed"
      [] ~(isCdk /\ "bad" \in text) /\ text \cap {"ok", "trace"} # {} -> "success"
      [] OTHER -> "undecided"

(* detectTerminalStatusFromLog: the failure marker counts for CDK only, and wins. *)
DetectTerminalStatus(log, isCdk) ==
    CASE isCdk /\ "bad" \in Visible(log) -> "failed"
      [] ~(isCdk /\ "bad" \in Visible(log)) /\ "ok" \in Visible(log) -> "success"
      [] OTHER -> "undecided"

\* deriveStatusFromLog: a CDK log without markers is left to a person.
DeriveStatusFromLog(log, isCdk) ==
    LET decided == DetectTerminalStatus(log, isCdk)
        fallback == IF isCdk THEN "unknown" ELSE "failed"
    IN  IF decided # "undecided" THEN decided ELSE fallback

\* deriveStatusFromUnknownLog: the second time round, no marker means failed.
DeriveStatusFromUnknownLog(log, isCdk) ==
    LET decided == DetectTerminalStatus(log, isCdk)
    IN  IF decided # "undecided" THEN decided ELSE "failed"

\* Mutant of DeriveStatusForCompletedProcess: the snapshot's status is ignored.
DeriveStatusAlike(log, snapStatus, isCdk) == DeriveStatusFromLog(log, isCdk)

\* deriveStatusForCompletedProcess: the rule depends on the status in the snapshot.
DeriveStatusForCompletedProcess(log, snapStatus, isCdk) ==
    IF snapStatus = "unknown"
    THEN DeriveStatusFromUnknownLog(log, isCdk)
    ELSE DeriveStatusFromLog(log, isCdk)

ShouldMonitorSyncStatus(status) == status \in {"running", "unknown"}
============================================================================
