-------------------------- MODULE StatusLifecycle --------------------------
(***************************************************************************)
(* How a record's status may move while `sync' watches it: the README's    *)
(* status table of script_status.json (success and failed are final, a CDK *)
(* script fails when its log quotes a failure or cannot be fetched, and    *)
(* with neither marker it is unknown, for a person to look at), and one    *)
(* rule more, which the table does not have.  FailOnSecondLook is in a     *)
(* comment of sync.go (before its last UpdateStatus) and in sync_test.go   *)
(* only, and takes back the README's `for a person': a record that the     *)
(* synchronisation finds unknown is not left unknown by it.                *)
(***************************************************************************)
CONSTANTS Nodes

VARIABLES
    cdk,       \* cdk[n]: is the record's service CDK? fixed
    status,    \* status[n]: the persisted status
    doubted,   \* doubted[n]: was it unknown when this synchronisation started?
    quoted,    \* quoted[n]: does a log of n, remote or local, quote a failure?
    lost       \* lost[n]: is one lost fetch of n's log more the limit?

\* The others are inputs, which may change at any time.
lifecycleVars == <<cdk, status, doubted>>

AllStatuses == {"pending", "running", "success", "failed", "unknown"}

Watched(n) == status[n] \in {"running", "unknown"}

Init ==
    /\ cdk \in [Nodes -> BOOLEAN]
    /\ status \in [Nodes -> AllStatuses]
    /\ doubted = [n \in Nodes |-> status[n] = "unknown"]

StartSync ==
    /\ doubted' = [n \in Nodes |-> status[n] = "unknown"]
    /\ UNCHANGED <<cdk, status>>

Becomes(n, next) ==
    /\ Watched(n)
    /\ status' = [status EXCEPT ![n] = next]
    /\ UNCHANGED <<cdk, doubted>>

StillRunning(n) == Becomes(n, "running")

Succeed(n) == Becomes(n, "success")

Fail(n) == (lost[n] \/ quoted[n] \/ ~cdk[n]) /\ Becomes(n, "failed")

LeaveToAPerson(n) == cdk[n] /\ ~doubted[n] /\ Becomes(n, "unknown")

\* Not in the README.
FailOnSecondLook(n) == cdk[n] /\ doubted[n] /\ Becomes(n, "failed")

Next ==
    \/ StartSync
    \/ \E n \in Nodes :
        StillRunning(n) \/ Succeed(n) \/ Fail(n) \/ LeaveToAPerson(n) \/ FailOnSecondLook(n)

Spec == Init /\ [][Next]_lifecycleVars
============================================================================
