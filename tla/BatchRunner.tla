---------------------------- MODULE BatchRunner ----------------------------
(***************************************************************************)
(* runWithBatchLimit: tasks run in batches of at most `Limit', each task   *)
(* in a goroutine of its own; a batch begins when all of the last are done.*)
(***************************************************************************)
EXTENDS Integers, Sequences, FiniteSets

CONSTANT Limit  \* sshMaxConcurrency; 0 is no limit

ASSUME LimitAssumption == Limit \in Nat

VARIABLES
    task,   \* task[i]: "todo", "running" or "done"
    low     \* tasks before the current batch

runner == <<task, low>>

RunnerTypeOK == task \in Seq({"todo", "running", "done"}) /\ low \in Nat

\* Mutant of Width: one too many.
WidthOneMore == IF Limit = 0 THEN Len(task) ELSE Limit + 1

Width == IF Limit = 0 THEN Len(task) ELSE Limit

InBatch(i) == low < i /\ i <= low + Width

RunnerInit == task = <<>> /\ low = 0

Begin(n) ==
    /\ task' = [i \in 1..n |-> "todo"]
    /\ low' = 0

StartTask(i) ==
    /\ i \in DOMAIN task /\ InBatch(i) /\ task[i] = "todo"
    /\ task' = [task EXCEPT ![i] = "running"]
    /\ UNCHANGED low

EndTask(i) ==
    /\ i \in DOMAIN task /\ task[i] = "running"
    /\ task' = [task EXCEPT ![i] = "done"]
    /\ UNCHANGED low

\* wg.Wait() returns.
NextBatch ==
    /\ low + Width < Len(task)
    /\ \A i \in DOMAIN task : InBatch(i) => task[i] = "done"
    /\ low' = low + Width
    /\ UNCHANGED task

AllDone == \A i \in DOMAIN task : task[i] = "done"

RunnerNext ==
    \/ NextBatch
    \/ \E n \in Nat : AllDone /\ Begin(n)
    \/ \E i \in DOMAIN task : StartTask(i) \/ EndTask(i)

RunnerSpec == RunnerInit /\ [][RunnerNext]_runner
----------------------------------------------------------------------------
(* Properties *)

Running == {i \in DOMAIN task : task[i] = "running"}

\* No more tasks run at once than the limit allows.
AtMostLimit == Limit # 0 => Cardinality(Running) <= Limit

\* A task that has begun has all tasks of earlier batches behind it.
BatchesInOrder ==
    \A i, j \in DOMAIN task : task[j] # "todo" /\ i + Width <= j => task[i] = "done"
============================================================================
