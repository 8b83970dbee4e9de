----------------------------- MODULE ChainHealth -----------------------------
(***************************************************************************)
(* `rpc-status': every chain of servers.json is asked at the same time for *)
(* its newest block; op and cdk chains first for the address of their RPC. *)
(* A row is OK or SLOW by the age of that block when it arrives, DOWN if a *)
(* call fails or runs out of its time.  The table is shown when all rows   *)
(* are there.  Chains produce blocks meanwhile and time passes.            *)
(***************************************************************************)
EXTENDS Integers, FiniteSets

CONSTANTS
    Servers,        \* servers.json: a set of records
    StaleAfter,     \* --stale-after
    RpcTimeout,     \* rpcTimeout, of both calls of a probe together
    SummaryTimeout, \* summaryFetchTimeout
    CheckedFrom,    \* the time when `rpc-status' is run
    MaxTime         \* bound: the time

Server == [name : STRING, type : {"op", "cdk", "xjst", "generic"}, primary : BOOLEAN, ip : BOOLEAN]

ASSUME ServersAssumption == IsFiniteSet(Servers) /\ \A s \in Servers : s \in Server
ASSUME TimesAssumption ==
    /\ StaleAfter \in Nat /\ RpcTimeout \in Nat /\ SummaryTimeout \in Nat
    /\ CheckedFrom \in Nat /\ MaxTime \in Nat
ASSUME MaxTimeAssumption == CheckedFrom <= MaxTime

\* pickStatusTargets; primary: the last part of the name is 1.
Checked == {s \in Servers : s.ip /\ (s.type \in {"op", "cdk"} \/ (s.type = "xjst" /\ s.primary))}

VARIABLES
    now,     \* the time
    head,    \* head[c]: time of the newest block of chain c
    asking,  \* asking[c]: the call being made, "wait" before, "done" after
    since,   \* since[c]: when the time of the call began
    before,  \* before[c]: the newest block when the probe began
    seen,    \* seen[c]: time of the block whose number was received
    row,     \* row[c]: the result, "none" before
    shown    \* has the table been printed, or an error returned?

healthVars == <<now, head, asking, since, before, seen, row, shown>>

HealthTypeOK ==
    /\ now \in 0..MaxTime
    /\ head \in [Checked -> 0..MaxTime] /\ since \in [Checked -> 0..MaxTime]
    /\ before \in [Checked -> 0..MaxTime] /\ seen \in [Checked -> 0..MaxTime]
    /\ asking \in [Checked -> {"wait", "summary", "number", "block", "done"}]
    /\ row \in [Checked -> {"none", "OK", "SLOW", "DOWN"}]
    /\ shown \in BOOLEAN

HealthInit ==
    /\ now = CheckedFrom /\ head \in [Checked -> 0..CheckedFrom]
    /\ asking = [c \in Checked |-> "wait"]
    /\ since = [c \in Checked |-> 0] /\ before = [c \in Checked |-> 0]
    /\ seen = [c \in Checked |-> 0]
    /\ row = [c \in Checked |-> "none"] /\ shown = FALSE

Waiting == \A c \in Checked : asking[c] = "wait"

\* Check starts a goroutine for every chain.
StartCheck ==
    /\ Waiting /\ ~shown /\ Checked # {}
    /\ asking' = [c \in Checked |-> IF c.type = "xjst" THEN "number" ELSE "summary"]
    /\ since' = [c \in Checked |-> now] /\ before' = head
    /\ UNCHANGED <<now, head, seen, row, shown>>

\* The file cannot be read or has nothing to check.
CheckRefused ==
    /\ Waiting /\ ~shown /\ shown' = TRUE
    /\ UNCHANGED <<now, head, asking, since, before, seen, row>>

\* Mutant of TimeAllowed: each call of a probe has the time of both.
TimeAllowedEach(c) == IF asking[c] = "summary" THEN SummaryTimeout ELSE 2 * RpcTimeout

TimeAllowed(c) == IF asking[c] = "summary" THEN SummaryTimeout ELSE RpcTimeout

InTime(c) == now - since[c] <= TimeAllowed(c)

\* A call fails, its answer cannot be parsed, or its context is done.
Down(c) ==
    /\ asking[c] \in {"summary", "number", "block"}
    /\ asking' = [asking EXCEPT ![c] = "done"] /\ row' = [row EXCEPT ![c] = "DOWN"]
    /\ UNCHANGED <<now, head, since, before, seen, shown>>

\* resolveL2RPCURL has the address; the probe has a context of its own.
SummaryFetched(c) ==
    /\ asking[c] = "summary" /\ InTime(c)
    /\ asking' = [asking EXCEPT ![c] = "number"]
    /\ since' = [since EXCEPT ![c] = now] /\ before' = [before EXCEPT ![c] = head[c]]
    /\ UNCHANGED <<now, head, seen, row, shown>>

NumberReceived(c) ==
    /\ asking[c] = "number" /\ InTime(c)
    /\ asking' = [asking EXCEPT ![c] = "block"] /\ seen' = [seen EXCEPT ![c] = head[c]]
    /\ UNCHANGED <<now, head, since, before, row, shown>>

StatusByAge(age) == IF age > StaleAfter THEN "SLOW" ELSE "OK"

BlockReceived(c) ==
    /\ asking[c] = "block" /\ InTime(c)
    /\ asking' = [asking EXCEPT ![c] = "done"]
    /\ row' = [row EXCEPT ![c] = StatusByAge(now - seen[c])]
    /\ UNCHANGED <<now, head, since, before, seen, shown>>

\* wg.Wait() returns and the table is printed.
ShowTable ==
    /\ ~shown /\ \A c \in Checked : asking[c] = "done"
    /\ shown' = TRUE
    /\ UNCHANGED <<now, head, asking, since, before, seen, row>>

Produce(c) ==
    /\ head[c] < now /\ head' = [head EXCEPT ![c] = now]
    /\ UNCHANGED <<now, asking, since, before, seen, row, shown>>

\* Time passes, but no context outlives its deadline and the client does not idle.
Tick ==
    /\ now < MaxTime /\ ~Waiting /\ \E c \in Checked : asking[c] # "done"
    /\ \A c \in Checked : asking[c] # "done" => now - since[c] < TimeAllowed(c)
    /\ now' = now + 1
    /\ UNCHANGED <<head, asking, since, before, seen, row, shown>>

HealthNext ==
    \/ StartCheck \/ CheckRefused \/ ShowTable \/ Tick
    \/ \E c \in Checked :
        Down(c) \/ SummaryFetched(c) \/ NumberReceived(c) \/ BlockReceived(c) \/ Produce(c)

HealthSpec == HealthInit /\ [][HealthNext]_healthVars
----------------------------------------------------------------------------
(* Properties *)

\* A chain is called SLOW only if it had been without a block for that long, but for the
\* time the probe may take, when its probe began: a block that arrives late does not
\* make its chain slow.
SlowIsLate ==
    \A c \in Checked :
        row[c] = "SLOW" => since[c] - before[c] > StaleAfter - RpcTimeout

\* The table is complete within the time of one summary and one probe, whichever chains
\* do not answer.
CheckInTime ==
    shown \/ Waiting \/ now - CheckedFrom <= SummaryTimeout + RpcTimeout
=============================================================================
