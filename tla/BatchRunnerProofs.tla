------------------------- MODULE BatchRunnerProofs -------------------------
(***************************************************************************)
(* Theorems about the batch runner for every limit and every number of     *)
(* tasks.                                                                  *)
(***************************************************************************)
EXTENDS BatchRunner, FiniteSetTheorems, SequenceTheorems, TLAPS

----------------------------------------------------------------------------
(* The runner: the tasks fall into three parts by the current batch. *)

EarlierDone == \A i \in DOMAIN task : i <= low => task[i] = "done"
LaterTodo == \A i \in DOMAIN task : low + Width < i => task[i] = "todo"
BatchInv == RunnerTypeOK /\ EarlierDone /\ LaterTodo

LEMMA WidthType == RunnerTypeOK => Width \in Nat
BY LimitAssumption DEF RunnerTypeOK, Width

LEMMA BeginKeeps ==
    ASSUME NEW n \in Nat, Begin(n)
    PROVE  BatchInv'
<1>1. task' \in Seq({"todo", "running", "done"}) /\ DOMAIN task' = 1..n /\ low' = 0
  BY SeqDef DEF Begin
<1>2. \A i \in DOMAIN task' : task'[i] = "todo" /\ ~(i <= low')
  BY <1>1 DEF Begin
<1> QED
  BY <1>1, <1>2 DEF BatchInv, RunnerTypeOK, EarlierDone, LaterTodo

\* A task of the current batch takes another state, or starts or ends.
LEMMA TaskKeeps ==
    ASSUME BatchInv, NEW i \in DOMAIN task, low < i, i <= low + Width,
           NEW s \in {"running", "done"}, task' = [task EXCEPT ![i] = s], UNCHANGED low
    PROVE  BatchInv'
<1>1. task' \in Seq({"todo", "running", "done"}) /\ DOMAIN task' = DOMAIN task
      /\ Len(task') = Len(task)
  BY DEF BatchInv, RunnerTypeOK
<1>2. Width' = Width /\ Width \in Nat /\ i \in Nat /\ low \in Nat
  BY <1>1, WidthType DEF Width, BatchInv, RunnerTypeOK
<1>3. \A j \in DOMAIN task : j # i => task'[j] = task[j]
  OBVIOUS
<1>4. EarlierDone'
  BY <1>1, <1>2, <1>3 DEF BatchInv, EarlierDone
<1>5. LaterTodo'
  BY <1>1, <1>2, <1>3 DEF BatchInv, LaterTodo
<1> QED
  BY <1>1, <1>4, <1>5 DEF BatchInv, RunnerTypeOK

LEMMA RunnerStep == BatchInv /\ [RunnerNext]_runner => BatchInv'
<1> SUFFICES ASSUME BatchInv, [RunnerNext]_runner PROVE BatchInv'
  OBVIOUS
<1>0. DOMAIN task \subseteq Nat /\ low \in Nat /\ Width \in Nat
  BY WidthType DEF BatchInv, RunnerTypeOK
<1>1. CASE NextBatch
  <2>1. EarlierDone'
    BY <1>0, <1>1 DEF NextBatch, InBatch, BatchInv, EarlierDone
  <2>2. LaterTodo'
    <3>1. Width' = Width
      BY <1>1 DEF NextBatch, Width
    <3> QED
      BY <1>0, <1>1, <3>1 DEF NextBatch, BatchInv, LaterTodo
  <2> QED
    BY <1>0, <1>1, <2>1, <2>2 DEF NextBatch, BatchInv, RunnerTypeOK
<1>2. ASSUME NEW n \in Nat, AllDone /\ Begin(n) PROVE BatchInv'
  BY <1>2, BeginKeeps
<1>3. ASSUME NEW i \in DOMAIN task, StartTask(i) PROVE BatchInv'
  BY <1>3, TaskKeeps DEF StartTask, InBatch
<1>4. ASSUME NEW i \in DOMAIN task, EndTask(i) PROVE BatchInv'
  <2>1. low < i /\ i <= low + Width
    BY <1>0, <1>4 DEF EndTask, BatchInv, EarlierDone, LaterTodo
  <2> QED
    BY <1>4, <2>1, TaskKeeps DEF EndTask
<1>5. CASE UNCHANGED runner
  BY <1>5 DEF runner, BatchInv, RunnerTypeOK, EarlierDone, LaterTodo, Width
<1> QED
  BY <1>1, <1>2, <1>3, <1>4, <1>5 DEF RunnerNext

LEMMA RunnerStart == RunnerInit => BatchInv
BY DEF RunnerInit, BatchInv, RunnerTypeOK, EarlierDone, LaterTodo

\* The partition at every time.
LEMMA AlwaysPartitioned == RunnerSpec => []BatchInv
<1>1. RunnerInit => BatchInv
  BY RunnerStart
<1>2. BatchInv /\ [RunnerNext]_runner => BatchInv'
  BY RunnerStep
<1> QED
  BY <1>1, <1>2, PTL DEF RunnerSpec

LEMMA RunningFitsBatch == BatchInv => AtMostLimit
<1> SUFFICES ASSUME BatchInv, Limit # 0 PROVE Cardinality(Running) <= Limit
  BY DEF AtMostLimit
<1>1. low \in Nat /\ Width = Limit /\ Limit \in Nat \ {0} /\ DOMAIN task \subseteq Nat
  BY LimitAssumption DEF BatchInv, RunnerTypeOK, Width
<1>2. Running \subseteq (low + 1)..(low + Limit)
  BY <1>1 DEF Running, BatchInv, EarlierDone, LaterTodo
<1>3. IsFiniteSet((low + 1)..(low + Limit)) /\ Cardinality((low + 1)..(low + Limit)) = Limit
  <2>1. low + 1 \in Int /\ low + Limit \in Int /\ ~(low + 1 > low + Limit)
        /\ (low + Limit) - (low + 1) + 1 = Limit
    BY <1>1
  <2> QED
    BY <2>1, FS_Interval
<1> QED
  BY <1>2, <1>3, FS_Subset

LEMMA EarlierBatchesDone == BatchInv => BatchesInOrder
<1> SUFFICES ASSUME BatchInv, NEW i \in DOMAIN task, NEW j \in DOMAIN task,
                    task[j] # "todo", i + Width <= j
             PROVE  task[i] = "done"
  BY DEF BatchesInOrder
<1>1. low \in Nat /\ Width \in Nat /\ i \in Nat /\ j \in Nat
  BY WidthType DEF BatchInv, RunnerTypeOK
<1> QED
  BY <1>1 DEF BatchInv, EarlierDone, LaterTodo

\* Whatever sshMaxConcurrency is and however many tasks there are, no more run at once.
THEOREM NeverMoreThanLimit == RunnerSpec => []AtMostLimit
BY AlwaysPartitioned, RunningFitsBatch, PTL

\* wg.Wait() is a barrier: no batch begins before all earlier ones are done.
THEOREM BatchesAlwaysInOrder == RunnerSpec => []BatchesInOrder
BY AlwaysPartitioned, EarlierBatchesDone, PTL
=============================================================================
