---------------------------- MODULE GenAccMonitor ----------------------------
(***************************************************************************)
(* `monitor-gen-accounts': each round asks every chain's console service   *)
(* concurrently how many accounts it has generated, adds up the answers    *)
(* and replaces the report through a temporary file.  The monitor may be   *)
(* interrupted, killed, or fail to write; a round whose context is done    *)
(* still writes its report.                                                *)
(***************************************************************************)
EXTENDS Integers, FiniteSets, Functions

CONSTANTS
    Nodes,       \* pickMonitorTargets(servers): chains with an address
    NoReport,    \* the report before it is first written
    MaxAccounts, \* bound: accounts of one node
    MaxRounds    \* bound: rounds

ASSUME NodesAssumption == IsFiniteSet(Nodes)
ASSUME MonitorBoundsAssumption == MaxAccounts \in Nat /\ MaxRounds \in Nat

\* What a round writes, and the absence of a report is none of these.
ReportOf(n, counts) ==
    [round |-> n, items |-> counts, total |-> FoldFunctionOnSet(+, 0, counts, Nodes)]

ASSUME NoReportAssumption ==
    \A n \in 1..MaxRounds, counts \in [Nodes -> 0..MaxAccounts] : ReportOf(n, counts) # NoReport

VARIABLES
    accounts,    \* accounts[n]: what node n has generated
    doing,       \* "idle", "asking", "temp", "writing", "renaming", "waiting" or "ended"
    round,       \* rounds begun
    items,       \* items[n]: the answer of node n, 0 if none or an error
    answered,    \* nodes whose goroutine has returned
    interrupted, \* is ctx done?
    temp,        \* the temporary file: NoReport if none or incomplete
    report       \* the report on disk

monitorVars == <<accounts, doing, round, items, answered, interrupted, temp, report>>

Reports == [round : 1..MaxRounds, items : [Nodes -> 0..MaxAccounts], total : Nat]

MonitorTypeOK ==
    /\ accounts \in [Nodes -> 0..MaxAccounts] /\ items \in [Nodes -> 0..MaxAccounts]
    /\ doing \in {"idle", "asking", "temp", "writing", "renaming", "waiting", "ended"}
    /\ round \in 0..MaxRounds
    /\ answered \subseteq Nodes /\ interrupted \in BOOLEAN
    /\ temp = NoReport \/ temp \in Reports
    /\ report = NoReport \/ report \in Reports

MonitorInit ==
    /\ accounts = [n \in Nodes |-> 0]
    /\ doing = "idle" /\ round = 0 /\ interrupted = FALSE
    /\ items = [n \in Nodes |-> 0] /\ answered = {}
    /\ temp = NoReport /\ report = NoReport

\* Run, and each tick: select may take the tick although ctx is done.
BeginRound ==
    /\ doing \in {"idle", "waiting"} /\ round < MaxRounds
    /\ doing' = "asking" /\ round' = round + 1
    /\ items' = [n \in Nodes |-> 0] /\ answered' = {}
    /\ UNCHANGED <<accounts, interrupted, temp, report>>

\* GetGenAccSummary answers or fails; after the interrupt it fails, or has answered.
Answer(n) ==
    /\ doing = "asking" /\ n \notin answered
    /\ answered' = answered \cup {n}
    /\ \E count \in {0, accounts[n]} : items' = [items EXCEPT ![n] = count]
    /\ UNCHANGED <<accounts, doing, round, interrupted, temp, report>>

\* The loop after wg.Wait(): nodes without a summary count nothing.
Merged == FoldFunctionOnSet(+, 0, items, Nodes)

Round == [round |-> round, items |-> items, total |-> Merged]

\* Mutant of WriteTemp: the report itself is truncated and written.
WriteInPlace ==
    /\ doing = "temp" /\ doing' = "writing"
    /\ report' = NoReport
    /\ UNCHANGED <<accounts, round, items, answered, interrupted, temp>>

\* os.CreateTemp, in the directory of the report.
WriteTemp ==
    /\ doing = "temp" /\ doing' = "writing"
    /\ temp' = NoReport
    /\ UNCHANGED <<accounts, round, items, answered, interrupted, report>>

AllAnswered ==
    /\ doing = "asking" /\ answered = Nodes /\ doing' = "temp"
    /\ UNCHANGED <<accounts, round, items, answered, interrupted, temp, report>>

CloseTemp ==
    /\ doing = "writing" /\ doing' = "renaming"
    /\ temp' = Round
    /\ UNCHANGED <<accounts, round, items, answered, interrupted, report>>

ReplaceReport ==
    /\ doing = "renaming" /\ doing' = "waiting"
    /\ report' = temp /\ temp' = NoReport
    /\ UNCHANGED <<accounts, round, items, answered, interrupted>>

\* A step of writeJSONFileAtomic fails: Run returns, the temporary file is removed.
WriteFails ==
    /\ doing \in {"temp", "writing", "renaming"} /\ doing' = "ended"
    /\ temp' = NoReport
    /\ UNCHANGED <<accounts, round, items, answered, interrupted, report>>

Interrupt ==
    /\ ~interrupted /\ doing # "ended" /\ interrupted' = TRUE
    /\ UNCHANGED <<accounts, doing, round, items, answered, temp, report>>

Stop ==
    /\ interrupted /\ doing = "waiting" /\ doing' = "ended"
    /\ UNCHANGED <<accounts, round, items, answered, interrupted, temp, report>>

\* The process is killed: its temporary file stays.
KillMonitor ==
    /\ doing # "ended" /\ doing' = "ended"
    /\ UNCHANGED <<accounts, round, items, answered, interrupted, temp, report>>

Generate(n) ==
    /\ accounts[n] < MaxAccounts
    /\ accounts' = [accounts EXCEPT ![n] = @ + 1]
    /\ UNCHANGED <<doing, round, items, answered, interrupted, temp, report>>

MonitorNext ==
    \/ BeginRound \/ AllAnswered \/ WriteTemp \/ CloseTemp \/ ReplaceReport
    \/ WriteFails \/ Interrupt \/ Stop \/ KillMonitor
    \/ \E n \in Nodes : Answer(n) \/ Generate(n)

MonitorSpec == MonitorInit /\ [][MonitorNext]_monitorVars
----------------------------------------------------------------------------
(* Properties *)

Reader == INSTANCE ReportFile WITH shown <- report

\* Whoever reads the report, whenever the monitor is killed, interrupted or fails, sees
\* whole rounds that add up, later ones later.
FollowsReportFile == Reader!Spec
=============================================================================
