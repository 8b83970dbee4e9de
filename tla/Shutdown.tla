------------------------------ MODULE Shutdown ------------------------------
(***************************************************************************)
(* `shutdown': one ssh call per address of servers.json, run by the batch  *)
(* runner.  The machine that obeys closes the connection, so that success  *)
(* may look like a failure; a machine that refuses the connection before   *)
(* the command reached it may look the same.                               *)
(***************************************************************************)
EXTENDS BatchRunner, SequencesExt

CONSTANTS
    Listed,    \* servers.json: the address of each entry
    NoAddress  \* an entry without one

ASSUME ListedAssumption == IsFiniteSet(ToSet(Listed))

VARIABLES
    calling,  \* "idle", "calling" or "ended"
    told,     \* machines that got the command
    refused,  \* machines that closed the connection before it
    errs,     \* machines of the errors collected
    ended     \* what Shutdown returned: "none", "nil" or "error"

shutdownVars == <<runner, calling, told, refused, errs, ended>>

Machines == ToSet(Listed) \ {NoAddress}

\* collectUniqueServerIPs, in some order.
Ips == SetToSeq(Machines)

ShutdownTypeOK ==
    /\ RunnerTypeOK
    /\ calling \in {"idle", "calling", "ended"} /\ ended \in {"none", "nil", "error"}
    /\ told \subseteq Machines /\ refused \subseteq Machines /\ errs \subseteq Machines

ShutdownInit ==
    /\ RunnerInit
    /\ calling = "idle" /\ told = {} /\ refused = {} /\ errs = {} /\ ended = "none"

\* The file cannot be read or names no machine, or there is no sshUser.
ShutdownRefused ==
    /\ calling = "idle" /\ calling' = "ended" /\ ended' = "error"
    /\ UNCHANGED <<runner, told, refused, errs>>

StartShutdown ==
    /\ calling = "idle" /\ Ips # <<>>
    /\ calling' = "calling" /\ Begin(Len(Ips))
    /\ UNCHANGED <<told, refused, errs, ended>>

Call(i) == calling = "calling" /\ StartTask(i) /\ UNCHANGED <<calling, told, refused, errs, ended>>

\* Mutant of ExpectedDisconnect: every error with some output is a disconnect.
AnyOutput(answer) == answer \in {"closed", "lost"}

\* isExpectedShutdownDisconnect: "closed by remote host", "connection to .. closed".
ExpectedDisconnect(answer) == answer = "closed"

\* The call of machine i returns: without an error, closed by the host, or lost.
Returns(i, reached, answer) ==
    /\ calling = "calling" /\ EndTask(i)
    /\ answer = "ok" => reached
    /\ told' = IF reached THEN told \cup {Ips[i]} ELSE told
    /\ refused' = IF answer = "closed" /\ ~reached THEN refused \cup {Ips[i]} ELSE refused
    /\ errs' = IF answer = "ok" \/ ExpectedDisconnect(answer) THEN errs ELSE errs \cup {Ips[i]}
    /\ UNCHANGED <<calling, ended>>

NextMachines == calling = "calling" /\ NextBatch /\ UNCHANGED <<calling, told, refused, errs, ended>>

ShutdownDone ==
    /\ calling = "calling" /\ AllDone /\ calling' = "ended"
    /\ ended' = IF errs = {} THEN "nil" ELSE "error"
    /\ UNCHANGED <<runner, told, refused, errs>>

ShutdownNext ==
    \/ ShutdownRefused \/ StartShutdown \/ NextMachines \/ ShutdownDone
    \/ \E i \in DOMAIN task :
        Call(i) \/ \E reached \in BOOLEAN, answer \in {"ok", "closed", "lost"} :
                        Returns(i, reached, answer)

ShutdownSpec == ShutdownInit /\ [][ShutdownNext]_shutdownVars
----------------------------------------------------------------------------
(* Properties *)

\* A shutdown that returned nil has told every machine of the file, whatever the batches,
\* repeated entries and lost answers; only one that closed the connection at once is
\* taken for told although it is not.
NilMeansTold == ended = "nil" => Machines \subseteq told \cup refused
=============================================================================
