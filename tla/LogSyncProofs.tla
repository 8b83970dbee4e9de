--------------------------- MODULE LogSyncProofs ---------------------------
(***************************************************************************)
(* Theorems about LogSync for every set of records, every scenario and     *)
(* every value of the limits.                                              *)
(***************************************************************************)
EXTENDS LogSyncProperties, FiniteSetTheorems, SequenceTheorems, TLAPS

----------------------------------------------------------------------------
(* Operators. *)

\* What tail prints is a sequence of naturals, whichever way the sizes lie.
LEMMA PositionsType ==
    ASSUME NEW from \in Nat, NEW to \in Nat
    PROVE  Positions(from, to) \in Seq(Nat)
<1>1. CASE from <= to
  <2>1. to - from \in Nat
    BY <1>1
  <2>2. Positions(from, to) \in [1..(to - from) -> Nat]
    BY DEF Positions
  <2> QED
    BY <2>1, <2>2
<1>2. CASE to < from
  <2>1. 1..(to - from) = {} /\ 1..0 = {}
    BY <1>2
  <2>2. Positions(from, to) \in [1..0 -> Nat]
    BY <2>1 DEF Positions
  <2> QED
    BY <2>2
<1> QED
  BY <1>1, <1>2

\* Every judgement is a status, and the silent-log rule's is a final one.
LEMMA VerdictType ==
    ASSUME NEW log, NEW status, NEW isCdk \in BOOLEAN
    PROVE  /\ DetectTerminalStatus(log, isCdk) \in Terminal \cup {"undecided"}
           /\ DeriveStatusForCompletedProcess(log, status, isCdk)
                \in {"success", "failed", "unknown"}
           /\ DeriveStatusForCompletedProcess(log, status, isCdk) = "unknown"
                => isCdk /\ status # "unknown"
BY DEF DetectTerminalStatus, DeriveStatusForCompletedProcess, DeriveStatusFromLog,
       DeriveStatusFromUnknownLog, Terminal
----------------------------------------------------------------------------
(* Types and tokens: each needs the other, so they are proved together. *)

IInv == TypeOK /\ TokensConserved

LEMMA HoldersFinite == IsFiniteSet(Holders) /\ Cardinality(Holders) \in Nat
BY NodesAssumption, FS_Subset, FS_CardinalityType DEF Holders

LEMMA HoldersFinitePrimed == IsFiniteSet(Holders')
BY NodesAssumption, FS_Subset DEF Holders

\* The holders of a state change as the program counter of one goroutine does.
LEMMA HoldersAdd ==
    ASSUME TypeOK, TokensConserved, sem < MaxTokens, NEW n \in Nodes,
           pc[n] \notin Holding, NEW label \in Holding, Goto(n, label), sem' = sem + 1
    PROVE  TokensConserved' /\ sem' \in Nat
<1>1. Holders' = Holders \cup {n} /\ n \notin Holders
  BY DEF Holders, Goto, TypeOK
<1>2. Cardinality(Holders') = Cardinality(Holders) + 1
  BY <1>1, HoldersFinite, FS_AddElement
<1> QED
  BY <1>2, LimitsAssumption DEF TokensConserved, TypeOK

LEMMA HoldersRemove ==
    ASSUME TypeOK, TokensConserved, NEW n \in Nodes, pc[n] \in Holding,
           NEW label \in PCs \ Holding, Goto(n, label), Release
    PROVE  TokensConserved' /\ sem' \in Nat
<1>1. Holders' = Holders \ {n} /\ n \in Holders
  BY DEF Holders, Goto, TypeOK
<1>2. Cardinality(Holders') = Cardinality(Holders) - 1
  BY <1>1, HoldersFinite, FS_RemoveElement
<1>3. Cardinality(Holders') \in Nat
  BY HoldersFinitePrimed, FS_CardinalityType
<1> QED
  BY <1>2, <1>3, LimitsAssumption DEF TokensConserved, TypeOK, Release

LEMMA HoldersKeep ==
    ASSUME TokensConserved, Holders' = Holders, UNCHANGED sem
    PROVE  TokensConserved'
BY DEF TokensConserved

LEMMA InitIInv == Init => IInv
<1> SUFFICES ASSUME Init PROVE IInv
  OBVIOUS
<1>1. \A n \in Nodes : scn[n] \in ScenarioType
  BY ScenariosAssumption DEF Init
<1>2. \A n \in Nodes : Len(scn[n].out) \in Nat /\ scn[n].status \in Statuses
  BY <1>1 DEF ScenarioType, Logs
<1>5. <<>> \in Seq(Nat)
  OBVIOUS
<1>6. pc \in [Nodes -> PCs]
  BY DEF Init, StartPc, PCs, Waiting
<1>7. rec \in [Nodes -> [status : Statuses, logSize : Nat]] /\ snap \in [Nodes -> Statuses]
  BY <1>2 DEF Init
<1>8. written \in [Nodes -> Nat] /\ alive \in [Nodes -> BOOLEAN]
  <2>1. alive \in [Nodes -> BOOLEAN]
    BY <1>1 DEF Init, ScenarioType
  <2> QED
    BY <1>2, <2>1 DEF Init
<1>9. fails \in [Nodes -> 0..(FetchFailLimit - 1)] /\ noGrowth \in [Nodes -> 0..NoGrowthLimit]
  BY LimitsAssumption DEF Init
<1>10. runs \in 1..MaxRuns /\ sem \in Nat /\ first \in BOOLEAN
  <2>1. runs = 1 /\ sem = 0 /\ first = FALSE
    BY DEF Init
  <2>2. first \in BOOLEAN
    BY <2>1, Zenon
  <2>3. runs \in 1..MaxRuns
    BY <2>1, LimitsAssumption
  <2> QED
    BY <2>1, <2>2, <2>3
<1>11. /\ got \in [Nodes -> Seq(Nat)] /\ delta \in [Nodes -> Seq(Nat)]
       /\ offset \in [Nodes -> Nat] /\ size \in [Nodes -> Nat]
       /\ scn \in [Nodes -> Scenarios]
  BY <1>5 DEF Init
<1>12. TypeOK
  BY <1>6, <1>7, <1>8, <1>9, <1>10, <1>11 DEF TypeOK
<1>3. Holders = {}
  BY DEF Init, Holders, StartPc, Holding
<1>4. TokensConserved
  BY <1>3, FS_EmptySet, LimitsAssumption DEF Init, TokensConserved
<1> QED
  BY <1>12, <1>4 DEF IInv


LEMMA GotoType ==
    ASSUME TypeOK, NEW n \in Nodes, NEW label \in PCs, Goto(n, label)
    PROVE  pc' \in [Nodes -> PCs] /\ pc'[n] = label
BY DEF TypeOK, Goto

LEMMA ReportType ==
    ASSUME TypeOK, NEW n \in Nodes, NEW status \in Statuses, Report(n, status)
    PROVE  /\ rec' \in [Nodes -> [status : Statuses, logSize : Nat]]
           /\ first' \in BOOLEAN
           /\ pc' \in [Nodes -> PCs]
           /\ Goto(n, "off")
<1>1. rec' \in [Nodes -> [status : Statuses, logSize : Nat]]
  BY DEF TypeOK, Report, SetStatus
<1>2. first' \in BOOLEAN
  BY Zenon DEF Report
<1>3. Goto(n, "off") /\ "off" \in PCs
  BY DEF Report, PCs
<1> QED
  BY <1>1, <1>2, <1>3, GotoType

LEMMA AppendType ==
    ASSUME TypeOK, NEW n \in Nodes, NEW positions \in Seq(Nat), AppendLocal(n, positions)
    PROVE  got' \in [Nodes -> Seq(Nat)]
<1>1. got[n] \o positions \in Seq(Nat)
  BY DEF TypeOK
<1> QED
  BY <1>1 DEF TypeOK, AppendLocal

\* Environment steps and restarts.
LEMMA ResumeStep ==
    ASSUME IInv, Resume
    PROVE  IInv'
<1>1. pc' \in [Nodes -> PCs]
  BY DEF Resume, StartPc, PCs, Waiting
<1>2. snap' \in [Nodes -> Statuses] /\ offset' \in [Nodes -> Nat]
  BY DEF IInv, TypeOK, Resume
<1>3. fails' \in [Nodes -> 0..(FetchFailLimit - 1)] /\ noGrowth' \in [Nodes -> 0..NoGrowthLimit]
  BY LimitsAssumption DEF Resume
<1>4. /\ size' \in [Nodes -> Nat] /\ delta' \in [Nodes -> Seq(Nat)] /\ sem' \in Nat
      /\ runs' \in 1..MaxRuns
  <2>1. <<>> \in Seq(Nat)
    OBVIOUS
  <2> QED
    BY <2>1, LimitsAssumption DEF IInv, TypeOK, Resume
<1>5. first' \in BOOLEAN
  BY Zenon DEF Resume
<1>6. TypeOK'
  BY <1>1, <1>2, <1>3, <1>4, <1>5 DEF IInv, TypeOK, Resume, host, files
<1>7. Holders' = {}
  BY <1>1 DEF Resume, Holders, StartPc, Holding
<1>8. TokensConserved'
  BY <1>7, FS_EmptySet, LimitsAssumption DEF Resume, TokensConserved
<1> QED
  BY <1>6, <1>8 DEF IInv

LEMMA ScriptStep ==
    ASSUME IInv, NEW n \in Nodes, ScriptWrite(n) \/ ScriptExit(n)
    PROVE  IInv'
<1>1. TypeOK'
  <2>1. CASE ScriptWrite(n)
    <3>1. written' \in [Nodes -> Nat]
      BY <2>1 DEF IInv, TypeOK, ScriptWrite
    <3> QED
      BY <2>1, <3>1 DEF IInv, TypeOK, ScriptWrite, files, local
  <2>2. CASE ScriptExit(n)
    BY <2>2 DEF IInv, TypeOK, ScriptExit, files, local
  <2> QED
    BY <2>1, <2>2
<1>2. Holders' = Holders /\ UNCHANGED sem
  BY DEF ScriptWrite, ScriptExit, Holders
<1> QED
  BY <1>1, <1>2, HoldersKeep DEF IInv

\* A goroutine takes a token.
LEMMA AcquireStep ==
    ASSUME IInv, NEW n \in Nodes, NEW from \in Waiting, NEW to \in Holding,
           Acquire(n, from, to)
    PROVE  IInv'
<1>1. TokensConserved' /\ sem' \in Nat
  BY HoldersAdd DEF IInv, Acquire, Waiting, Holding
<1>2. pc' \in [Nodes -> PCs]
  BY GotoType DEF IInv, Acquire, PCs
<1>3. TypeOK'
  BY <1>1, <1>2 DEF IInv, TypeOK, Acquire, host, files, local
<1> QED
  BY <1>1, <1>3 DEF IInv

\* The steps of a goroutine that holds a token or judges.
LEMMA FetchFailedStep ==
    ASSUME IInv, NEW n \in Nodes, FetchFailed(n)
    PROVE  IInv'
<1> USE DEF IInv
<1>1. pc[n] \in Holding
  BY DEF FetchFailed, Holding
<1>2. size' \in [Nodes -> Nat]
  BY DEF FetchFailed, TypeOK
<1>3. CASE GiveUp(n)
  <2>1. Report(n, "failed") /\ UNCHANGED fails
    BY <1>3 DEF FetchFailed
  <2>2. TokensConserved' /\ sem' \in Nat
    BY <1>1, <2>1, HoldersRemove DEF FetchFailed, Report, PCs, Holding
  <2>3. TypeOK'
    BY <1>2, <2>1, <2>2, ReportType DEF FetchFailed, TypeOK, host, Statuses
  <2> QED
    BY <2>2, <2>3
<1>4. CASE ~GiveUp(n)
  <2>1. /\ fails' = [fails EXCEPT ![n] = @ + 1] /\ Goto(n, "fetch")
        /\ UNCHANGED <<rec, first>>
    BY <1>4 DEF FetchFailed
  <2>2. fails' \in [Nodes -> 0..(FetchFailLimit - 1)]
    BY <1>4, <2>1, LimitsAssumption DEF TypeOK, GiveUp
  <2>3. TokensConserved' /\ sem' \in Nat
    BY <1>1, <2>1, HoldersRemove DEF FetchFailed, PCs, Waiting, Holding
  <2>4. pc' \in [Nodes -> PCs]
    BY <2>1, GotoType DEF PCs, Waiting
  <2>5. TypeOK'
    BY <1>2, <2>1, <2>2, <2>3, <2>4 DEF FetchFailed, TypeOK, host
  <2> QED
    BY <2>3, <2>5
<1> QED
  BY <1>3, <1>4

LEMMA SizeUnchangedStep ==
    ASSUME IInv, NEW n \in Nodes, SizeUnchanged(n)
    PROVE  IInv'
<1> USE DEF IInv
<1>1. TokensConserved' /\ sem' \in Nat
  BY HoldersRemove DEF SizeUnchanged, PCs, Waiting, Holding
<1>2. pc' \in [Nodes -> PCs]
  BY GotoType DEF SizeUnchanged, PCs, Waiting
<1>3. delta' \in [Nodes -> Seq(Nat)]
  BY DEF SizeUnchanged, TypeOK
<1>4. fails' \in [Nodes -> 0..(FetchFailLimit - 1)]
  BY LimitsAssumption DEF SizeUnchanged, TypeOK
<1>5. noGrowth' \in [Nodes -> 0..NoGrowthLimit]
  BY LimitsAssumption DEF SizeUnchanged, MoreSilence, TypeOK
<1>6. TypeOK'
  BY <1>1, <1>2, <1>3, <1>4, <1>5 DEF SizeUnchanged, TypeOK, host, files
<1> QED
  BY <1>1, <1>6

LEMMA SizeKnownStep ==
    ASSUME IInv, NEW n \in Nodes, SizeKnown(n)
    PROVE  IInv'
<1> USE DEF IInv
<1>1. PICK from \in Holding, to \in Holding : SizeGrown(n, from, to)
  BY DEF SizeKnown, Holding
<1>2. pc' \in [Nodes -> PCs]
  BY <1>1, GotoType DEF SizeGrown, PCs
<1>3. size' \in [Nodes -> Nat]
  BY <1>1 DEF SizeGrown, TypeOK
<1>4. TypeOK'
  BY <1>1, <1>2, <1>3 DEF SizeGrown, TypeOK, host, files
<1>5. Holders' = Holders /\ UNCHANGED sem
  BY <1>1 DEF SizeGrown, Goto, Holders, TypeOK
<1> QED
  BY <1>4, <1>5, HoldersKeep

LEMMA TailDoneStep ==
    ASSUME IInv, NEW n \in Nodes, TailDone(n)
    PROVE  IInv'
<1> USE DEF IInv
<1>1. TokensConserved' /\ sem' \in Nat
  BY HoldersRemove DEF TailDone, PCs, Waiting, Holding
<1>2. pc' \in [Nodes -> PCs]
  BY GotoType DEF TailDone, PCs, Waiting
<1>3. Positions(offset[n], written[n]) \in Seq(Nat)
  BY PositionsType DEF TypeOK
<1>4. got' \in [Nodes -> Seq(Nat)] /\ delta' \in [Nodes -> Seq(Nat)]
  BY <1>3, AppendType DEF TailDone, TypeOK
<1>5. fails' \in [Nodes -> 0..(FetchFailLimit - 1)] /\ noGrowth' \in [Nodes -> 0..NoGrowthLimit]
  BY LimitsAssumption DEF TailDone, TypeOK
<1>6. offset' \in [Nodes -> Nat] /\ size' \in [Nodes -> Nat]
  BY DEF TailDone, TypeOK
<1>7. TypeOK'
  BY <1>1, <1>2, <1>4, <1>5, <1>6 DEF TailDone, TypeOK, host
<1> QED
  BY <1>1, <1>7

LEMMA CheckRunningStep ==
    ASSUME IInv, NEW n \in Nodes, CheckRunning(n)
    PROVE  IInv'
<1> USE DEF IInv
<1> DEFINE verdict == DetectTerminalStatus(LocalText(n), IsCdk(n))
<1>1. CASE verdict # "undecided" /\ Report(n, verdict)
  <2>1. verdict \in Statuses
    <3>1. IsCdk(n) \in BOOLEAN
      BY ScenariosAssumption DEF TypeOK, IsCdk, ScenarioType
    <3> QED
      BY <1>1, <3>1, VerdictType DEF Terminal, Statuses
  <2>2. TokensConserved' /\ sem' \in Nat
    BY <1>1, HoldersRemove DEF CheckRunning, Report, PCs, Holding
  <2>3. TypeOK'
    BY <1>1, <2>1, <2>2, ReportType DEF CheckRunning, TypeOK, host, local
  <2> QED
    BY <2>2, <2>3
<1>2. CASE SetStatus(n, "running") /\ Goto(n, "fetch") /\ UNCHANGED first
  <2>1. TokensConserved' /\ sem' \in Nat
    BY <1>2, HoldersRemove DEF CheckRunning, PCs, Waiting, Holding
  <2>2. pc' \in [Nodes -> PCs]
    BY <1>2, GotoType DEF PCs, Waiting
  <2>3. rec' \in [Nodes -> [status : Statuses, logSize : Nat]]
    BY <1>2 DEF SetStatus, TypeOK, Statuses
  <2>4. TypeOK'
    BY <1>2, <2>1, <2>2, <2>3 DEF CheckRunning, TypeOK, host, local
  <2> QED
    BY <2>1, <2>4
<1> QED
  BY <1>1, <1>2 DEF CheckRunning

LEMMA CheckGoneStep ==
    ASSUME IInv, NEW n \in Nodes, CheckGone(n)
    PROVE  IInv'
<1> USE DEF IInv
<1>1. TokensConserved' /\ sem' \in Nat
  BY HoldersRemove DEF CheckGone, PCs, Waiting, Holding
<1>2. pc' \in [Nodes -> PCs]
  BY GotoType DEF CheckGone, PCs, Waiting
<1>3. TypeOK'
  BY <1>1, <1>2 DEF CheckGone, TypeOK, host, files, local
<1> QED
  BY <1>1, <1>3

LEMMA FinalEmptyStep ==
    ASSUME IInv, NEW n \in Nodes, FinalEmpty(n)
    PROVE  IInv'
<1> USE DEF IInv
<1>1. TokensConserved' /\ sem' \in Nat
  BY HoldersRemove DEF FinalEmpty, PCs, Holding
<1>2. pc' \in [Nodes -> PCs] /\ size' \in [Nodes -> Nat]
  BY GotoType DEF FinalEmpty, PCs, TypeOK
<1>3. TypeOK'
  BY <1>1, <1>2 DEF FinalEmpty, TypeOK, host, files
<1> QED
  BY <1>1, <1>3

LEMMA FinalTailStep ==
    ASSUME IInv, NEW n \in Nodes, FinalTail(n)
    PROVE  IInv'
<1> USE DEF IInv
<1>1. TokensConserved' /\ sem' \in Nat
  BY HoldersRemove DEF FinalTail, PCs, Holding
<1>2. pc' \in [Nodes -> PCs]
  BY GotoType DEF FinalTail, PCs
<1>3. Positions(offset[n], written[n]) \in Seq(Nat)
  BY PositionsType DEF TypeOK
<1>4. got' \in [Nodes -> Seq(Nat)]
  BY <1>3, AppendType DEF FinalTail
<1>5. delta' \in [Nodes -> Seq(Nat)]
  <2>1. delta[n] \o Positions(offset[n], written[n]) \in Seq(Nat)
    BY <1>3 DEF TypeOK
  <2> QED
    BY <2>1 DEF FinalTail, TypeOK
<1>6. offset' \in [Nodes -> Nat] /\ size' \in [Nodes -> Nat]
  BY DEF FinalTail, TypeOK
<1>7. TypeOK'
  BY <1>1, <1>2, <1>4, <1>5, <1>6 DEF FinalTail, TypeOK, host
<1> QED
  BY <1>1, <1>7

LEMMA JudgeStep ==
    ASSUME IInv, NEW n \in Nodes, Judge(n)
    PROVE  IInv'
<1> USE DEF IInv
<1> DEFINE verdict == DeriveStatusForCompletedProcess(JudgedText(n), snap[n], IsCdk(n))
<1>1. verdict \in Statuses
  <2>1. IsCdk(n) \in BOOLEAN
    BY ScenariosAssumption DEF TypeOK, IsCdk, ScenarioType
  <2> QED
    BY <2>1, VerdictType DEF Statuses
<1>2. Report(n, verdict)
  BY DEF Judge
<1>3. Holders' = Holders /\ UNCHANGED sem
  BY <1>2 DEF Judge, Report, Goto, Holders, Holding, TypeOK
<1>4. TypeOK'
  BY <1>1, <1>2, ReportType DEF Judge, TypeOK, host, local
<1> QED
  BY <1>3, <1>4, HoldersKeep

LEMMA NextIInv == IInv /\ [Next]_vars => IInv'
<1> SUFFICES ASSUME IInv, [Next]_vars PROVE IInv'
  OBVIOUS
<1>1. CASE Resume
  BY <1>1, ResumeStep
<1>2. ASSUME NEW n \in Nodes, ScriptWrite(n) \/ ScriptExit(n) PROVE IInv'
  BY <1>2, ScriptStep
<1>3. ASSUME NEW n \in Nodes, Blocked(n) PROVE IInv'
  BY <1>3, AcquireStep DEF Blocked, StartFetch, StartCheck, StartFinal, Waiting, Holding
<1>4. ASSUME NEW n \in Nodes, Proceed(n) PROVE IInv'
  BY <1>4, FetchFailedStep, SizeUnchangedStep, SizeKnownStep, TailDoneStep,
     CheckRunningStep, CheckGoneStep, FinalEmptyStep, FinalTailStep, JudgeStep
     DEF Proceed
<1>5. CASE UNCHANGED vars
  <2>1. TypeOK'
    BY <1>5 DEF IInv, TypeOK, vars, host, files, local
  <2>2. Holders' = Holders /\ UNCHANGED sem
    BY <1>5 DEF Holders, vars
  <2> QED
    BY <2>1, <2>2, HoldersKeep DEF IInv
<1> QED
  BY <1>1, <1>2, <1>3, <1>4, <1>5 DEF Next

LEMMA AlwaysIInv == Spec => []IInv
BY InitIInv, NextIInv, PTL DEF Spec

\* Every variable keeps its type: no counter leaves its bounds, every persisted
\* status is one of the five of ScriptStatus.Status.
THEOREM TypeCorrect == Spec => []TypeOK
<1>1. IInv => TypeOK
  BY DEF IInv
<1> QED
  BY AlwaysIInv, <1>1, PTL

\* Every path through Sync.Run's goroutine returns the token it took, and returns
\* it once; so there are never more ssh operations than sshMaxConcurrency.
THEOREM TokensAlwaysConserved == Spec => []TokensConserved
<1>1. IInv => TokensConserved
  BY DEF IInv
<1> QED
  BY AlwaysIInv, <1>1, PTL
----------------------------------------------------------------------------
(* The goroutines' verdicts and the error Sync.Run returns. *)

\* A goroutine that is still there works on a record that is still open, and the
\* error is set exactly by the goroutines that left with a failure.
Open(n) == Watched(n) /\ ShouldMonitorSyncStatus(rec[n].status)

FailedHere(n) == Watched(n) /\ pc[n] = "off" /\ rec[n].status = "failed"

VerdictInv ==
    /\ \A n \in Nodes : pc[n] # "off" => Open(n)
    /\ first <=> \E n \in Nodes : FailedHere(n)

LEMMA InitVerdictInv == Init => VerdictInv
<1> SUFFICES ASSUME Init PROVE VerdictInv
  OBVIOUS
<1>1. \A n \in Nodes : Open(n) <=> pc[n] = "fetch"
  BY DEF Init, Open, Watched, Monitored, StartPc
<1>2. \A n \in Nodes : pc[n] # "off" => Open(n)
  BY <1>1 DEF Init, StartPc
<1>3. \A n \in Nodes : ~FailedHere(n)
  BY DEF Init, FailedHere, Watched, Monitored, StartPc
<1>4. ~first
  BY DEF Init
<1> QED
  BY <1>2, <1>3, <1>4 DEF VerdictInv

\* Neither the snapshot nor whether a record is watched changes while Sync.Run runs.
LEMMA WatchedKept ==
    ASSUME UNCHANGED <<scn, snap>>, NEW n \in Nodes
    PROVE  Watched(n)' = Watched(n)
BY DEF Watched, Monitored

LEMMA VerdictReport ==
    ASSUME TypeOK, VerdictInv, NEW n \in Nodes, NEW status \in Statuses,
           pc[n] # "off", Report(n, status), UNCHANGED <<scn, snap>>
    PROVE  VerdictInv'
<1>1. \A m \in Nodes \ {n} : pc'[m] = pc[m] /\ rec'[m] = rec[m]
  BY DEF TypeOK, Report, SetStatus, Goto
<1>2. pc'[n] = "off" /\ rec'[n].status = status
  BY DEF TypeOK, Report, SetStatus, Goto
<1>3. Watched(n)' /\ ~FailedHere(n)
  BY WatchedKept DEF VerdictInv, Open, FailedHere
<1>4. \A m \in Nodes \ {n} : FailedHere(m)' = FailedHere(m) /\ Open(m)' = Open(m)
  BY <1>1, WatchedKept DEF FailedHere, Open
<1>5. FailedHere(n)' <=> status = "failed"
  BY <1>2, <1>3 DEF FailedHere
<1>6. first' <=> \E m \in Nodes : FailedHere(m)'
  BY <1>3, <1>4, <1>5 DEF Report, VerdictInv
<1>7. \A m \in Nodes : pc'[m] # "off" => Open(m)'
  BY <1>1, <1>2, <1>4 DEF VerdictInv
<1> QED
  BY <1>6, <1>7 DEF VerdictInv

LEMMA VerdictStay ==
    ASSUME TypeOK, VerdictInv, NEW n \in Nodes, NEW label, label # "off",
           pc[n] # "off", Goto(n, label), UNCHANGED <<scn, snap, first>>,
           rec' = rec \/ SetStatus(n, "running")
    PROVE  VerdictInv'
<1>1. \A m \in Nodes \ {n} : pc'[m] = pc[m] /\ rec'[m] = rec[m]
  BY DEF TypeOK, SetStatus, Goto
<1>2. pc'[n] = label /\ (rec'[n] = rec[n] \/ rec'[n].status = "running")
  BY DEF TypeOK, SetStatus, Goto
<1>3. \A m \in Nodes \ {n} : FailedHere(m)' = FailedHere(m) /\ Open(m)' = Open(m)
  BY <1>1, WatchedKept DEF FailedHere, Open
<1>4. ~FailedHere(n) /\ ~FailedHere(n)' /\ Open(n)'
  BY <1>2, WatchedKept DEF FailedHere, VerdictInv, Open, ShouldMonitorSyncStatus
<1>5. \A m \in Nodes : FailedHere(m)' <=> FailedHere(m)
  BY <1>3, <1>4
<1>6. \A m \in Nodes : pc'[m] # "off" => Open(m)'
  BY <1>1, <1>3, <1>4 DEF VerdictInv
<1> QED
  BY <1>5, <1>6 DEF VerdictInv

LEMMA VerdictSame ==
    ASSUME VerdictInv, UNCHANGED <<scn, snap, first, rec, pc>>
    PROVE  VerdictInv'
BY DEF VerdictInv, Open, FailedHere, Watched, Monitored

\* What a step of a goroutine is, seen from the outside: it goes on, or it reports.
Stays(n) ==
    /\ \E label \in PCs \ {"off"} : Goto(n, label)
    /\ UNCHANGED first
    /\ rec' = rec \/ SetStatus(n, "running")

Reports(n) ==
    \E status \in {"success", "failed", "unknown"} :
        /\ Report(n, status)
        /\ status = "unknown" => IsCdk(n) /\ snap[n] # "unknown"

LEMMA GoroutineStep ==
    ASSUME TypeOK, NEW n \in Nodes, Blocked(n) \/ Proceed(n)
    PROVE  /\ pc[n] # "off" /\ UNCHANGED <<scn, snap>>
           /\ Stays(n) \/ Reports(n)
<1>0. IsCdk(n) \in BOOLEAN
  BY ScenariosAssumption DEF TypeOK, IsCdk, ScenarioType
<1>1. CASE Blocked(n)
  BY <1>1 DEF Blocked, StartFetch, StartCheck, StartFinal, Acquire, Stays, PCs, Holding,
     host, files, local
<1>2. CASE FetchFailed(n)
  BY <1>2 DEF FetchFailed, Stays, Reports, PCs, Waiting, host
<1>3. CASE SizeUnchanged(n)
  BY <1>3 DEF SizeUnchanged, Stays, PCs, Waiting, host, files
<1>4. CASE SizeKnown(n)
  BY <1>4 DEF SizeKnown, SizeGrown, Stays, PCs, Holding, host, files
<1>5. CASE TailDone(n)
  BY <1>5 DEF TailDone, Stays, PCs, Waiting, host
<1>6. CASE CheckRunning(n)
  <2> DEFINE verdict == DetectTerminalStatus(LocalText(n), IsCdk(n))
  <2>1. pc[n] # "off" /\ UNCHANGED <<scn, snap>>
    BY <1>6 DEF CheckRunning, host, local
  <2>2. CASE verdict # "undecided" /\ Report(n, verdict)
    <3>1. verdict \in {"success", "failed"}
      BY <1>0, <2>2, VerdictType DEF Terminal
    <3> QED
      BY <2>1, <2>2, <3>1 DEF Reports
  <2>3. CASE SetStatus(n, "running") /\ Goto(n, "fetch") /\ UNCHANGED first
    BY <2>1, <2>3 DEF Stays, PCs, Waiting
  <2> QED
    BY <1>6, <2>2, <2>3 DEF CheckRunning
<1>7. CASE CheckGone(n)
  BY <1>7 DEF CheckGone, Stays, PCs, Waiting, host, files, local
<1>8. CASE FinalEmpty(n)
  BY <1>8 DEF FinalEmpty, Stays, PCs, host, files
<1>9. CASE FinalTail(n)
  BY <1>9 DEF FinalTail, Stays, PCs, host
<1>10. CASE Judge(n)
  <2> DEFINE verdict == DeriveStatusForCompletedProcess(JudgedText(n), snap[n], IsCdk(n))
  <2>1. /\ verdict \in {"success", "failed", "unknown"}
        /\ verdict = "unknown" => IsCdk(n) /\ snap[n] # "unknown"
    BY <1>0, VerdictType
  <2>2. Report(n, verdict) /\ pc[n] # "off" /\ UNCHANGED <<scn, snap>>
    BY <1>10 DEF Judge, host, local
  <2>3. Reports(n)
    BY <2>1, <2>2 DEF Reports
  <2> QED
    BY <2>2, <2>3
<1> QED
  BY <1>1, <1>2, <1>3, <1>4, <1>5, <1>6, <1>7, <1>8, <1>9, <1>10 DEF Proceed

LEMMA NextVerdictInv == TypeOK /\ VerdictInv /\ [Next]_vars => VerdictInv'
<1> SUFFICES ASSUME TypeOK, VerdictInv, [Next]_vars PROVE VerdictInv'
  OBVIOUS
<1>1. CASE Resume
  BY <1>1 DEF Resume, VerdictInv, Open, FailedHere, Watched, Monitored, StartPc, host, files
<1>2. ASSUME NEW n \in Nodes, ScriptWrite(n) \/ ScriptExit(n) PROVE VerdictInv'
  BY <1>2, VerdictSame DEF ScriptWrite, ScriptExit, files, local
<1>3. ASSUME NEW n \in Nodes, Blocked(n) \/ Proceed(n) PROVE VerdictInv'
  <2>1. pc[n] # "off" /\ UNCHANGED <<scn, snap>> /\ (Stays(n) \/ Reports(n))
    BY <1>3, GoroutineStep
  <2>2. CASE Stays(n)
    BY <2>1, <2>2, VerdictStay DEF Stays
  <2>3. CASE Reports(n)
    BY <2>1, <2>3, VerdictReport DEF Reports, Statuses
  <2> QED
    BY <2>1, <2>2, <2>3
<1>4. CASE UNCHANGED vars
  BY <1>4, VerdictSame DEF vars, host, files, local
<1> QED
  BY <1>1, <1>2, <1>3, <1>4 DEF Next

LEMMA AlwaysVerdictInv == Spec => []VerdictInv
BY InitVerdictInv, NextVerdictInv, TypeCorrect, PTL DEF Spec

\* Sync.Run returns an error if and only if it left a watched record as failed.
THEOREM ErrorAlwaysReported == Spec => []ErrorReported
<1>1. VerdictInv => ErrorReported
  BY DEF VerdictInv, FailedHere, ErrorReported, Done
<1> QED
  BY AlwaysVerdictInv, <1>1, PTL
----------------------------------------------------------------------------
(* Completeness of the local log. *)

\* The offset and the saved LogSize never pass what has been fetched, because the
\* size a fetch ends with was read before its data.
NodeComplete(n) ==
    /\ offset[n] <= written[n] /\ rec[n].logSize <= written[n]
    /\ pc[n] \in {"tail", "ftail"} => size[n] <= written[n]
    /\ 1..offset[n] \subseteq Held(n)
    /\ 1..rec[n].logSize \subseteq Held(n)

CompleteInv == \A n \in Nodes : ~MayFail(n, "disk") => NodeComplete(n)

LEMMA InitComplete == Init => CompleteInv
<1> SUFFICES ASSUME Init, NEW n \in Nodes PROVE NodeComplete(n)
  BY DEF CompleteInv
<1>1. offset[n] = 0 /\ rec[n].logSize = 0 /\ pc[n] \in {"fetch", "off"} /\ got[n] = <<>>
  BY DEF Init, StartPc
<1>2. written[n] \in Nat
  BY InitIInv DEF IInv, TypeOK
<1> QED
  BY <1>1, <1>2 DEF NodeComplete

\* Appending what tail printed adds exactly the positions it printed.
LEMMA HeldAppend ==
    ASSUME TypeOK, NEW n \in Nodes,
           got' = [got EXCEPT ![n] = @ \o Positions(offset[n], written[n])]
    PROVE  /\ Held(n) \cup (offset[n] + 1)..written[n] \subseteq Held(n)'
           /\ \A m \in Nodes \ {n} : Held(m)' = Held(m)
<1> DEFINE old == got[n]
           new == Positions(offset[n], written[n])
<1>1. old \in Seq(Nat) /\ new \in Seq(Nat)
  BY PositionsType DEF TypeOK
<1>2. got'[n] = old \o new
  BY DEF TypeOK
<1>3. ASSUME NEW i \in DOMAIN old PROVE old[i] \in Held(n)'
  <2>1. i \in DOMAIN got'[n] /\ got'[n][i] = old[i]
    BY <1>1, <1>2, <1>3
  <2> QED
    BY <2>1 DEF Held
<1>4. ASSUME NEW p \in (offset[n] + 1)..written[n] PROVE p \in Held(n)'
  <2>1. offset[n] \in Nat /\ written[n] \in Nat
    BY DEF TypeOK
  <2> DEFINE k == p - offset[n]
  <2>2. k \in 1..(written[n] - offset[n]) /\ new[k] = p
    BY <2>1 DEF Positions
  <2>3. DOMAIN new = 1..(written[n] - offset[n])
    BY DEF Positions
  <2>4. k \in 1..Len(new)
    <3>1. DOMAIN new = 1..Len(new)
      BY <1>1, LenProperties
    <3> QED
      BY <2>2, <2>3, <3>1
  <2>5. Len(old) + k \in DOMAIN (old \o new) /\ (old \o new)[Len(old) + k] = new[k]
    <3> HIDE DEF old, new, k
    <3>1. Len(old) \in Nat /\ Len(new) \in Nat
      BY <1>1, LenProperties
    <3>2. Len(old) + k \in (Len(old) + 1)..(Len(old) + Len(new)) /\ k = (Len(old) + k) - Len(old)
      BY <2>4, <3>1
    <3>3. /\ Len(old \o new) = Len(old) + Len(new) /\ old \o new \in Seq(Nat)
          /\ (old \o new)[Len(old) + k] = new[k]
      BY <1>1, <3>1, <3>2, ConcatProperties
    <3> QED
      BY <3>1, <3>2, <3>3, LenProperties
  <2> QED
    BY <1>2, <2>2, <2>5 DEF Held
<1>5. \A m \in Nodes \ {n} : got'[m] = got[m]
  BY DEF TypeOK
<1> QED
  BY <1>3, <1>4, <1>5 DEF Held

\* The fetches: data up to now is appended, the offset becomes the older size.
LEMMA AppendComplete ==
    ASSUME TypeOK, CompleteInv, NEW n \in Nodes,
           pc[n] \in {"tail", "ftail"}, NEW label \in {"check", "judge"}, Goto(n, label),
           AppendLocal(n, Positions(offset[n], written[n])),
           offset' = [offset EXCEPT ![n] = size[n]],
           UNCHANGED <<scn, written, rec>>,
           size' = [size EXCEPT ![n] = 0]
    PROVE  CompleteInv'
<1>0. \A m \in Nodes \ {n} : Held(m)' = Held(m)
  <2>1. \A m \in Nodes \ {n} : got'[m] = got[m]
    BY DEF AppendLocal, TypeOK
  <2> QED
    BY <2>1 DEF Held
<1>1. ASSUME ~MayFail(n, "disk")
      PROVE  got' = [got EXCEPT ![n] = @ \o Positions(offset[n], written[n])]
  BY <1>1 DEF AppendLocal
<1>2. ASSUME ~MayFail(n, "disk") PROVE NodeComplete(n)'
  <2>1. /\ offset'[n] = size[n] /\ size[n] <= written[n] /\ size[n] \in Nat
        /\ written[n] \in Nat /\ offset[n] \in Nat
    BY <1>2 DEF CompleteInv, NodeComplete, TypeOK
  <2>2. 1..size[n] \subseteq 1..offset[n] \cup (offset[n] + 1)..written[n]
    BY <2>1
  <2>3. 1..offset'[n] \subseteq Held(n)' /\ 1..rec'[n].logSize \subseteq Held(n)'
    BY <1>1, <1>2, <2>1, <2>2, HeldAppend DEF CompleteInv, NodeComplete
  <2>4. pc'[n] \notin {"tail", "ftail"}
    BY GotoType DEF Goto, TypeOK
  <2> QED
    BY <1>2, <2>1, <2>3, <2>4 DEF CompleteInv, NodeComplete
<1>3. ASSUME NEW m \in Nodes \ {n}, ~MayFail(m, "disk") PROVE NodeComplete(m)'
  <2>1. offset'[m] = offset[m] /\ pc'[m] = pc[m] /\ size'[m] = size[m]
    BY DEF TypeOK, Goto
  <2> QED
    BY <1>0, <1>3, <2>1 DEF CompleteInv, NodeComplete
<1> QED
  BY <1>2, <1>3 DEF CompleteInv, MayFail

\* All other steps of a goroutine: the saved size is at most the offset.
LEMMA QuietComplete ==
    ASSUME TypeOK, CompleteInv, NEW n \in Nodes, NEW label, Goto(n, label),
           UNCHANGED <<scn, written, got, offset>>,
           rec' = rec \/ \E status : SetStatus(n, status),
           \A m \in Nodes \ {n} : size'[m] = size[m],
           label \in {"tail", "ftail"} => size'[n] = written[n]
    PROVE  CompleteInv'
<1>1. ASSUME NEW m \in Nodes, ~MayFail(m, "disk") PROVE NodeComplete(m)'
  <2>1. written[m] \in Nat /\ Held(m)' = Held(m)
    BY DEF TypeOK, Held
  <2>2. rec'[m].logSize \in {rec[m].logSize, offset[m]}
    <3>1. CASE \E status : SetStatus(n, status)
      BY <3>1 DEF TypeOK, SetStatus
    <3> QED
      BY <3>1
  <2>3. pc'[m] \in {"tail", "ftail"} => size'[m] <= written[m]
    BY <1>1, <2>1 DEF TypeOK, Goto, CompleteInv, NodeComplete
  <2> QED
    BY <1>1, <2>1, <2>2, <2>3 DEF CompleteInv, NodeComplete
<1> QED
  BY <1>1 DEF CompleteInv, MayFail

LEMMA GoroutineComplete ==
    ASSUME TypeOK, CompleteInv, NEW n \in Nodes, Blocked(n) \/ Proceed(n)
    PROVE  CompleteInv'
<1>1. CASE TailDone(n)
  BY <1>1, AppendComplete DEF TailDone, host
<1>2. CASE FinalTail(n)
  BY <1>2, AppendComplete DEF FinalTail, host
<1>3. CASE Blocked(n)
  BY <1>3, QuietComplete
     DEF Blocked, StartFetch, StartCheck, StartFinal, Acquire, host, files, local
<1>4. CASE FetchFailed(n)
  <2>1. UNCHANGED <<scn, written, got, offset>> /\ size' = [size EXCEPT ![n] = 0]
    BY <1>4 DEF FetchFailed, host
  <2>2. PICK label \in {"off", "fetch"} :
          Goto(n, label) /\ (rec' = rec \/ \E status : SetStatus(n, status))
    BY <1>4 DEF FetchFailed, Report
  <2> QED
    BY <2>1, <2>2, QuietComplete DEF TypeOK
<1>5. CASE SizeUnchanged(n)
  BY <1>5, QuietComplete DEF SizeUnchanged, host, files
<1>6. CASE SizeKnown(n)
  <2>1. PICK label \in {"tail", "ftail"} : \E from \in Holding : SizeGrown(n, from, label)
    BY <1>6 DEF SizeKnown, Holding
  <2>2. /\ Goto(n, label) /\ UNCHANGED <<scn, written, got, offset, rec>>
        /\ size' = [size EXCEPT ![n] = written[n]]
    BY <2>1 DEF SizeGrown, host, files
  <2> QED
    BY <2>2, QuietComplete DEF TypeOK
<1>7. CASE CheckRunning(n)
  <2>1. UNCHANGED <<scn, written, got, offset, size>>
    BY <1>7 DEF CheckRunning, host, local
  <2>2. PICK label \in {"off", "fetch"} :
          Goto(n, label) /\ \E status : SetStatus(n, status)
    BY <1>7 DEF CheckRunning, Report
  <2> QED
    BY <2>1, <2>2, QuietComplete
<1>8. CASE CheckGone(n)
  BY <1>8, QuietComplete DEF CheckGone, host, files, local
<1>9. CASE FinalEmpty(n)
  <2>1. /\ Goto(n, "judge") /\ UNCHANGED <<scn, written, got, offset, rec>>
        /\ size' = [size EXCEPT ![n] = 0]
    BY <1>9 DEF FinalEmpty, host, files
  <2> QED
    BY <2>1, QuietComplete DEF TypeOK
<1>10. CASE Judge(n)
  BY <1>10, QuietComplete DEF Judge, Report, host, local
<1> QED
  BY <1>1, <1>2, <1>3, <1>4, <1>5, <1>6, <1>7, <1>8, <1>9, <1>10 DEF Proceed

LEMMA NextComplete == TypeOK /\ CompleteInv /\ [Next]_vars => CompleteInv'
<1> SUFFICES ASSUME TypeOK, CompleteInv, [Next]_vars PROVE CompleteInv'
  OBVIOUS
<1>1. CASE Resume
  <2> SUFFICES ASSUME NEW n \in Nodes, ~MayFail(n, "disk") PROVE NodeComplete(n)'
    BY <1>1 DEF CompleteInv, MayFail, Resume, host
  <2>1. /\ offset'[n] = rec[n].logSize /\ pc'[n] \in {"fetch", "off"}
        /\ UNCHANGED <<written, got, rec>>
    BY <1>1 DEF Resume, StartPc, host, files
  <2> QED
    BY <2>1 DEF CompleteInv, NodeComplete, Held
<1>2. ASSUME NEW n \in Nodes, ScriptWrite(n) \/ ScriptExit(n) PROVE CompleteInv'
  <2> SUFFICES ASSUME NEW m \in Nodes, ~MayFail(m, "disk") PROVE NodeComplete(m)'
    BY <1>2 DEF CompleteInv, MayFail, ScriptWrite, ScriptExit
  <2>0. UNCHANGED <<got, rec, offset, size, pc>>
    BY <1>2 DEF ScriptWrite, ScriptExit, files, local
  <2>1. written'[m] >= written[m] /\ written'[m] \in Nat /\ written[m] \in Nat
    <3>1. written[m] \in Nat
      BY DEF TypeOK
    <3>2. written'[m] \in {written[m], written[m] + 1}
      BY <1>2 DEF ScriptWrite, ScriptExit, TypeOK
    <3> QED
      BY <3>1, <3>2
  <2>2. /\ offset[m] \in Nat /\ size[m] \in Nat /\ rec[m].logSize \in Nat
    BY DEF TypeOK
  <2> QED
    BY <2>0, <2>1, <2>2 DEF CompleteInv, NodeComplete, Held
<1>3. ASSUME NEW n \in Nodes, Blocked(n) \/ Proceed(n) PROVE CompleteInv'
  BY <1>3, GoroutineComplete
<1>4. CASE UNCHANGED vars
  BY <1>4 DEF CompleteInv, NodeComplete, MayFail, Held, vars, host, files, local
<1> QED
  BY <1>1, <1>2, <1>3, <1>4 DEF Next

\* Where writing the local log works, no remote line before the goroutine's
\* offset or the saved LogSize is missing from it, across kills and restarts.
THEOREM NothingEverSkipped == Spec => []NothingSkipped
<1>1. CompleteInv => NothingSkipped
  BY DEF CompleteInv, NodeComplete, NothingSkipped
<1> QED
  BY InitComplete, NextComplete, TypeCorrect, <1>1, PTL DEF Spec
----------------------------------------------------------------------------
(* Verdicts: what the judged text shows. *)

\* What is known of every scenario.
LEMMA ScenarioOf ==
    ASSUME TypeOK, NEW n \in Nodes
    PROVE  /\ scn[n] \in ScenarioType
           /\ scn[n].out \in Logs /\ Len(scn[n].out) \in Nat
           /\ DOMAIN scn[n].out = 1..Len(scn[n].out)
           /\ scn[n].stale \in Logs /\ IsCdk(n) \in BOOLEAN
<1>1. scn[n] \in ScenarioType
  BY ScenariosAssumption DEF TypeOK
<1> QED
  BY <1>1 DEF ScenarioType, Logs, IsCdk

\* Positions of the remote log.
Places(n, p) == \A i \in 1..Len(p) : p[i] \in 1..Len(scn[n].out)

LEMMA Shift ==
    ASSUME NEW a \in Nat, NEW b \in Nat
    PROVE  /\ \A i \in 1..b : a + i \in (a + 1)..(a + b) /\ a + i \in 1..(a + b) /\ (a + i) - a = i
           /\ \A j \in 1..(a + b) : j \in 1..a \/ (j - a \in 1..b /\ j = a + (j - a))
OBVIOUS

\* What a concatenation consists of.
Joined(q, a, b) ==
    /\ Len(q) = Len(a) + Len(b) /\ Len(a) \in Nat /\ Len(b) \in Nat
    /\ \A i \in 1..Len(a) : i \in 1..Len(q) /\ q[i] = a[i]
    /\ \A i \in 1..Len(b) : Len(a) + i \in 1..Len(q) /\ q[Len(a) + i] = b[i]
    /\ \A j \in 1..Len(q) : j \in 1..Len(a) \/ \E i \in 1..Len(b) : j = Len(a) + i

LEMMA JoinedBy ==
    ASSUME NEW S, NEW a \in Seq(S), NEW b \in Seq(S), NEW q, q = a \o b
    PROVE  q \in Seq(S) /\ Joined(q, a, b)
<1>1. /\ q \in Seq(S) /\ Len(q) = Len(a) + Len(b) /\ Len(a) \in Nat /\ Len(b) \in Nat
      /\ \A i \in 1..Len(a) + Len(b) : q[i] = IF i <= Len(a) THEN a[i] ELSE b[i - Len(a)]
  <2>1. /\ a \o b \in Seq(S) /\ Len(a \o b) = Len(a) + Len(b)
        /\ \A i \in 1..Len(a) + Len(b) :
              (a \o b)[i] = IF i <= Len(a) THEN a[i] ELSE b[i - Len(a)]
    BY ConcatProperties
  <2> QED
    BY <2>1
<1>2. /\ \A i \in 1..Len(b) : Len(a) + i \in (Len(a) + 1)..(Len(a) + Len(b))
                             /\ Len(a) + i \in 1..(Len(a) + Len(b))
                             /\ (Len(a) + i) - Len(a) = i
      /\ \A j \in 1..(Len(a) + Len(b)) :
            j \in 1..Len(a) \/ (j - Len(a) \in 1..Len(b) /\ j = Len(a) + (j - Len(a)))
  BY <1>1, Shift
<1>3. ASSUME NEW i \in 1..Len(a) PROVE i \in 1..Len(q) /\ q[i] = a[i]
  BY <1>1
<1>4. ASSUME NEW i \in 1..Len(b) PROVE Len(a) + i \in 1..Len(q) /\ q[Len(a) + i] = b[i]
  <2>1. PICK j : j = Len(a) + i
    OBVIOUS
  <2>2. j \in (Len(a) + 1)..(Len(a) + Len(b)) /\ j \in 1..(Len(a) + Len(b)) /\ j - Len(a) = i
    BY <1>2, <2>1
  <2>3. q[j] = b[j - Len(a)]
    BY <1>1, <2>2
  <2> QED
    BY <1>1, <2>1, <2>2, <2>3
<1>5. ASSUME NEW j \in 1..Len(q), j \notin 1..Len(a)
      PROVE  \E i \in 1..Len(b) : j = Len(a) + i
  BY <1>1, <1>2, <1>5
<1> QED
  BY <1>1, <1>3, <1>4, <1>5 DEF Joined

\* A text that is judged: the local log before the script, and places of the remote log.
Shows(text, n, before, p) ==
    /\ Len(text) = Len(before) + Len(p) /\ Len(before) \in Nat /\ Len(p) \in Nat
    /\ \A i \in 1..Len(before) : text[i] = before[i]
    /\ \A i \in 1..Len(p) :
          Len(before) + i \in 1..Len(text) /\ text[Len(before) + i] = scn[n].out[p[i]]
    /\ \A j \in 1..Len(text) :
          j \in 1..Len(before) \/ \E i \in 1..Len(p) : j = Len(before) + i

LEMMA TextOf ==
    ASSUME TypeOK, NEW n \in Nodes, NEW before \in Logs, NEW p \in Seq(Nat), Places(n, p),
           NEW text, text = before \o TextAt(n, p)
    PROVE  Shows(text, n, before, p)
<1>1. TextAt(n, p) \in Logs /\ Len(TextAt(n, p)) = Len(p) /\ Len(p) \in Nat
      /\ \A i \in 1..Len(p) : TextAt(n, p)[i] = scn[n].out[p[i]]
  <2>1. \A i \in 1..Len(p) : scn[n].out[p[i]] \in Chunks
    BY ScenarioOf DEF Places, Logs
  <2> QED
    BY <2>1, SeqDef DEF TextAt, Logs
<1> HIDE DEF TextAt
<1>2. before \in Seq(Chunks) /\ TextAt(n, p) \in Seq(Chunks)
  BY <1>1 DEF Logs
<1>3. Joined(text, before, TextAt(n, p))
  BY <1>2, JoinedBy
<1> QED
  BY <1>1, <1>3 DEF Shows, Joined

\* A marker in a text of whole lines is in one of its parts.
LEMMA MarkerFrom ==
    ASSUME TypeOK, NEW n \in Nodes, NEW before \in Logs, NEW p \in Seq(Nat),
           NEW to \in 0..Len(scn[n].out), \A i \in 1..Len(p) : p[i] \in 1..to,
           "plus" \notin ChunksOf(scn[n].out), MarkerIn(before \o TextAt(n, p))
    PROVE  MarkerIn(before) \/ MarkerIn(SubSeq(scn[n].out, 1, to))
<1> DEFINE log == scn[n].out
           seen == SubSeq(log, 1, to)
<1>1. log \in Logs /\ Len(log) \in Nat /\ to \in Nat /\ to <= Len(log)
  BY ScenarioOf
<1>2. Places(n, p)
  BY <1>1 DEF Places
<1>3. PICK text : text = before \o TextAt(n, p)
  OBVIOUS
<1>4. Shows(text, n, before, p)
  BY <1>2, <1>3, TextOf
<1>5. PICK j \in 1..Len(text) : text[j] = "ok" /\ Survives(text, j)
  BY <1>3 DEF MarkerIn, Visible
<1>6. CASE j \in 1..Len(before)
  <2>1. j \in Nat /\ (j > 1 => j - 1 \in 1..Len(before))
    BY <1>4, <1>6 DEF Shows
  <2>2. before[j] = "ok" /\ Survives(before, j)
    BY <1>4, <1>5, <1>6, <2>1 DEF Survives, Shows
  <2> QED
    BY <1>6, <2>2 DEF MarkerIn, Visible
<1>7. CASE \E i \in 1..Len(p) : j = Len(before) + i
  <2>1. PICK i \in 1..Len(p) : j = Len(before) + i
    BY <1>7
  <2>2. PICK k \in 1..to : k = p[i] /\ log[k] = "ok"
    <3>1. text[Len(before) + i] = log[p[i]]
      BY <1>4 DEF Shows
    <3>2. p[i] \in 1..to
      OBVIOUS
    <3> QED
      BY <1>5, <2>1, <3>1, <3>2
  <2>3. seen \in Logs /\ Len(seen) = to /\ \A x \in 1..to : seen[x] = log[x]
    BY <1>1 DEF Logs
  <2>4. k > 1 => k - 1 \in 1..to /\ log[k - 1] # "plus"
    BY <1>1 DEF ChunksOf, Logs
  <2>5. seen[k] = "ok" /\ Survives(seen, k)
    BY <2>2, <2>3, <2>4 DEF Survives
  <2> QED
    BY <2>2, <2>3, <2>5 DEF MarkerIn, Visible
<1> QED
  BY <1>4, <1>5, <1>6, <1>7 DEF Shows

\* The last chunk is preceded by the one before it, or by itself, wherever fetches
\* overlapped.
Linked(n, p) ==
    \A i \in 2..Len(p) :
        p[i] = Len(scn[n].out) => p[i - 1] \in {Len(scn[n].out) - 1, Len(scn[n].out)}

\* A text with the last chunk of a script that finished well is a success, and one
\* without it is not a failure.
LEMMA FinishedVerdict ==
    ASSUME TypeOK, NEW n \in Nodes, FinishedWell(n), NEW p \in Seq(Nat), Places(n, p),
           Linked(n, p), NEW before \in {<<>>, scn[n].stale}
    PROVE  /\ DetectTerminalStatus(before \o TextAt(n, p), IsCdk(n)) # "failed"
           /\ (\E i \in 1..Len(p) : p[i] = Len(scn[n].out)) =>
                 DetectTerminalStatus(before \o TextAt(n, p), IsCdk(n)) = "success"
<1> DEFINE log == scn[n].out
           last == Len(log)
<1>1. /\ log \in Logs /\ last \in Nat /\ DOMAIN log = 1..last
      /\ before \in Logs /\ IsCdk(n) \in BOOLEAN
  <2>1. <<>> \in Logs
    BY DEF Logs
  <2> QED
    BY <2>1, ScenarioOf
<1>2. /\ log # <<>> /\ log[last] = "ok" /\ Survives(log, last)
      /\ before # <<>> => before[Len(before)] # "plus"
      /\ IsCdk(n) => "bad" \notin ChunksOf(before) \cup ChunksOf(log)
  BY DEF FinishedWell, ChunksOf
<1>3. PICK text : text = before \o TextAt(n, p)
  OBVIOUS
<1>4. Shows(text, n, before, p)
  BY <1>1, <1>3, TextOf
<1>5. IsCdk(n) => "bad" \notin Visible(text)
  <2> SUFFICES ASSUME IsCdk(n), NEW j \in 1..Len(text) PROVE text[j] # "bad"
    BY DEF Visible
  <2>1. CASE j \in 1..Len(before)
    BY <1>1, <1>2, <1>4, <2>1 DEF ChunksOf, Logs, Shows
  <2>2. CASE \E i \in 1..Len(p) : j = Len(before) + i
    <3>1. PICK i \in 1..Len(p) : j = Len(before) + i
      BY <2>2
    <3>2. p[i] \in DOMAIN log /\ text[j] = log[p[i]]
      BY <1>1, <1>4, <3>1 DEF Places, Shows
    <3> QED
      BY <1>2, <3>2 DEF ChunksOf
  <2> QED
    BY <1>4, <2>1, <2>2 DEF Shows
<1>6. DetectTerminalStatus(text, IsCdk(n)) # "failed"
  BY <1>5 DEF DetectTerminalStatus
<1>7. ASSUME NEW i \in 1..Len(p), p[i] = last
      PROVE  DetectTerminalStatus(text, IsCdk(n)) = "success"
  <2>1. PICK j \in 1..Len(text) : j = Len(before) + i
    BY <1>4 DEF Shows
  <2>2. text[j] = "ok" /\ j \in Nat
    BY <1>2, <1>4, <1>7, <2>1 DEF Shows
  <2>3. ASSUME j > 1 PROVE text[j - 1] # "plus"
    <3>1. CASE i = 1
      <4>1. j - 1 = Len(before) /\ Len(before) \in 1..Len(before) /\ before # <<>>
        BY <1>1, <1>4, <2>1, <2>3, <3>1 DEF Shows
      <4> QED
        BY <1>2, <1>4, <4>1 DEF Shows
    <3>2. CASE i # 1
      <4>1. PICK k \in 1..Len(p) : k = i - 1 /\ j - 1 = Len(before) + k /\ i \in 2..Len(p)
        BY <1>4, <2>1, <3>2 DEF Shows
      <4>2. p[k] \in {last - 1, last} /\ p[k] \in 1..last
        BY <1>7, <4>1 DEF Linked, Places
      <4>3. text[j - 1] = log[p[k]]
        BY <1>4, <4>1 DEF Shows
      <4>4. CASE p[k] = last
        BY <1>2, <4>3, <4>4
      <4>5. CASE p[k] = last - 1
        <5>1. last > 1
          BY <1>1, <4>2, <4>5
        <5> QED
          BY <1>2, <4>3, <4>5, <5>1 DEF Survives
      <4> QED
        BY <4>2, <4>4, <4>5
    <3> QED
      BY <3>1, <3>2
  <2>4. "ok" \in Visible(text)
    BY <2>2, <2>3 DEF Visible, Survives
  <2> QED
    BY <1>5, <2>4 DEF DetectTerminalStatus
<1> QED
  BY <1>3, <1>6, <1>7
----------------------------------------------------------------------------
(* Verdicts: what has been fetched. *)

LEMMA PositionsAt ==
    ASSUME NEW from \in Nat, NEW to \in Nat
    PROVE  /\ Positions(from, to) \in Seq(Nat)
           /\ \A i \in 1..Len(Positions(from, to)) :
                 Positions(from, to)[i] = from + i /\ from + i \in 1..to
           /\ from < to => Len(Positions(from, to)) = to - from
<1>1. Positions(from, to) \in Seq(Nat)
  BY PositionsType
<1>2. DOMAIN Positions(from, to) = 1..(to - from)
  BY DEF Positions
<1>3. DOMAIN Positions(from, to) = 1..Len(Positions(from, to))
      /\ Len(Positions(from, to)) \in Nat
  BY <1>1, LenProperties
<1>4. \A i \in 1..(to - from) : Positions(from, to)[i] = from + i /\ from + i \in 1..to
  BY DEF Positions
<1>5. from < to => Len(Positions(from, to)) = to - from
  <2> SUFFICES ASSUME from < to PROVE Len(Positions(from, to)) = to - from
    OBVIOUS
  <2>1. PICK k \in Nat : k = to - from
    OBVIOUS
  <2>2. 1..k = 1..Len(Positions(from, to))
    BY <1>2, <1>3, <2>1
  <2> HIDE DEF Positions
  <2> QED
    BY <1>3, <2>1, <2>2
<1> QED
  BY <1>1, <1>2, <1>3, <1>4, <1>5

LEMMA FetchPlaces ==
    ASSUME NEW p \in Seq(Nat), NEW from \in Nat, NEW to \in Nat,
           \A i \in 1..Len(p) : p[i] \in 1..to, NEW q, q = p \o Positions(from, to)
    PROVE  q \in Seq(Nat) /\ \A i \in 1..Len(q) : q[i] \in 1..to
<1>1. /\ Positions(from, to) \in Seq(Nat)
      /\ \A i \in 1..Len(Positions(from, to)) : Positions(from, to)[i] \in 1..to
  BY PositionsAt
<1>2. q \in Seq(Nat) /\ Joined(q, p, Positions(from, to))
  BY <1>1, JoinedBy
<1> QED
  BY <1>1, <1>2 DEF Joined

\* No fetch begins behind what the one before it brought: so the last chunk follows the
\* one before it, or itself.
Reaches(p, to) == p # <<>> => to <= p[Len(p)]

EndsAt(n, q, to) == q \in Seq(Nat) /\ Linked(n, q) /\ q # <<>> /\ q[Len(q)] = to

FetchAfter(n, p, from, to) ==
    /\ p \in Seq(Nat) /\ Places(n, p) /\ Linked(n, p) /\ Reaches(p, from)
    /\ from \in Nat /\ to \in Nat /\ from < to
    /\ Len(scn[n].out) \in Nat /\ to <= Len(scn[n].out)

LEMMA FetchLinks ==
    ASSUME NEW n \in Nodes, NEW p, NEW from, NEW to, FetchAfter(n, p, from, to),
           NEW q, q = p \o Positions(from, to)
    PROVE  EndsAt(n, q, to)
<1> USE DEF FetchAfter
<1> DEFINE last == Len(scn[n].out)
           new == Positions(from, to)
<1>1. /\ new \in Seq(Nat) /\ Len(new) = to - from /\ Len(new) \in Nat \ {0}
      /\ \A i \in 1..Len(new) : new[i] = from + i /\ from + i \in 1..to
  <2>1. /\ new \in Seq(Nat) /\ Len(new) = to - from
        /\ \A i \in 1..Len(new) : new[i] = from + i /\ from + i \in 1..to
    BY PositionsAt
  <2> HIDE DEF new
  <2>2. to - from \in Nat \ {0}
    OBVIOUS
  <2> QED
    BY <2>1, <2>2
<1>2. q \in Seq(Nat) /\ Joined(q, p, new)
  BY <1>1, JoinedBy
<1> HIDE DEF new
<1>3. Len(p) \in Nat /\ Len(q) \in Nat /\ Len(q) = Len(p) + Len(new) /\ (Len(p) = 0 <=> p = <<>>)
  <2>1. Len(p) = 0 <=> p = <<>>
    BY EmptySeq
  <2> QED
    BY <1>2, <2>1 DEF Joined
<1>4. q # <<>> /\ q[Len(q)] = to
  <2>1. Len(new) \in 1..Len(new)
    BY <1>1
  <2>2. q[Len(p) + Len(new)] = new[Len(new)]
    BY <1>2, <2>1 DEF Joined
  <2>3. new[Len(new)] = to
    BY <1>1, <2>1
  <2>4. q # <<>>
    BY <1>1, <1>2, <1>3, EmptySeq
  <2> QED
    BY <1>3, <2>2, <2>3, <2>4
<1>5. ASSUME NEW j \in 2..Len(q), q[j] = last PROVE q[j - 1] \in {last - 1, last}
  <2>1. CASE j \in 1..Len(p)
    <3>1. j - 1 \in 1..Len(p) /\ j \in 2..Len(p)
      BY <1>3, <1>5, <2>1
    <3>2. q[j] = p[j] /\ q[j - 1] = p[j - 1]
      BY <1>2, <2>1, <3>1 DEF Joined
    <3> QED
      BY <1>5, <3>1, <3>2 DEF Linked
  <2>2. CASE j \notin 1..Len(p)
    <3>1. PICK i \in 1..Len(new) : j = Len(p) + i
      BY <1>2, <1>3, <2>2 DEF Joined
    <3>2. from + i = last
      BY <1>1, <1>2, <1>5, <3>1 DEF Joined
    <3>3. CASE i = 1
      <4>1. p # <<>> /\ j - 1 = Len(p) /\ Len(p) \in 1..Len(p)
        BY <1>3, <3>1, <3>3
      <4>2. q[j - 1] = p[Len(p)] /\ from <= p[Len(p)] /\ p[Len(p)] \in 1..last
        BY <1>2, <4>1 DEF Joined, Reaches, Places
      <4>3. from = last - 1
        BY <3>2, <3>3
      <4>4. \A k \in 1..last : last - 1 <= k => k \in {last - 1, last}
        OBVIOUS
      <4> QED
        BY <4>2, <4>3, <4>4
    <3>4. CASE i # 1
      <4>1. PICK k \in 1..Len(new) : k = i - 1 /\ j - 1 = Len(p) + k /\ from + k = last - 1
        BY <1>1, <1>3, <3>1, <3>2, <3>4
      <4>2. q[j - 1] = from + k
        BY <1>1, <1>2, <4>1 DEF Joined
      <4> QED
        BY <4>1, <4>2
    <3> QED
      BY <3>3, <3>4
  <2> QED
    BY <2>1, <2>2
<1> QED
  BY <1>2, <1>4, <1>5 DEF Linked, EndsAt
----------------------------------------------------------------------------
(* Verdicts: when they fall. *)

\* A goroutine of one record leaves the others' records, logs and hosts alone.
Untouched(m) ==
    /\ written'[m] = written[m] /\ alive'[m] = alive[m] /\ got'[m] = got[m]
    /\ rec'[m] = rec[m] /\ pc'[m] = pc[m] /\ offset'[m] = offset[m]
    /\ size'[m] = size[m] /\ delta'[m] = delta[m]

LEMMA OthersUntouched ==
    ASSUME TypeOK, NEW n \in Nodes,
           ScriptWrite(n) \/ ScriptExit(n) \/ Blocked(n) \/ Proceed(n)
    PROVE  scn' = scn /\ \A m \in Nodes \ {n} : Untouched(m)
<1>1. CASE ScriptWrite(n)
  BY <1>1 DEF ScriptWrite, Untouched, TypeOK, files, local
<1>2. CASE ScriptExit(n)
  BY <1>2 DEF ScriptExit, Untouched, TypeOK, files, local
<1>3. CASE Blocked(n)
  BY <1>3 DEF Blocked, StartFetch, StartCheck, StartFinal, Acquire, Goto, Untouched, TypeOK,
     host, files, local
<1>4. CASE FetchFailed(n)
  <2>1. /\ scn' = scn /\ written' = written /\ alive' = alive /\ got' = got
        /\ offset' = offset /\ delta' = delta /\ size' = [size EXCEPT ![n] = 0]
    BY <1>4 DEF FetchFailed, host
  <2>2. (\E label : Goto(n, label)) /\ (rec' = rec \/ SetStatus(n, "failed"))
    BY <1>4 DEF FetchFailed, Report
  <2> QED
    BY <2>1, <2>2 DEF Goto, SetStatus, Untouched, TypeOK
<1>5. CASE SizeUnchanged(n)
  BY <1>5 DEF SizeUnchanged, Goto, Untouched, TypeOK, host, files
<1>6. CASE SizeKnown(n)
  BY <1>6 DEF SizeKnown, SizeGrown, Goto, Untouched, TypeOK, host, files
<1>7. CASE TailDone(n)
  BY <1>7 DEF TailDone, AppendLocal, Goto, Untouched, TypeOK, host
<1>8. CASE CheckRunning(n)
  <2>1. /\ scn' = scn /\ written' = written /\ alive' = alive /\ got' = got
        /\ offset' = offset /\ delta' = delta /\ size' = size
    BY <1>8 DEF CheckRunning, host, local
  <2>2. (\E label : Goto(n, label)) /\ \E status : SetStatus(n, status)
    BY <1>8 DEF CheckRunning, Report
  <2> QED
    BY <2>1, <2>2 DEF Goto, SetStatus, Untouched, TypeOK
<1>9. CASE CheckGone(n)
  BY <1>9 DEF CheckGone, Goto, Untouched, TypeOK, host, files, local
<1>10. CASE FinalEmpty(n)
  BY <1>10 DEF FinalEmpty, Goto, Untouched, TypeOK, host, files
<1>11. CASE FinalTail(n)
  BY <1>11 DEF FinalTail, AppendLocal, Goto, Untouched, TypeOK, host
<1>12. CASE Judge(n)
  BY <1>12 DEF Judge, Report, SetStatus, Goto, Untouched, TypeOK, host, local
<1> QED
  BY <1>1, <1>2, <1>3, <1>4, <1>5, <1>6, <1>7, <1>8, <1>9, <1>10, <1>11, <1>12 DEF Proceed

\* The round in which a goroutine has found its script gone.
Late == {"final", "fsize", "ftail", "judge"}

WithinLog(p, to) == \A i \in 1..Len(p) : p[i] \in 1..to

\* What has been fetched was written, and while process checks work a script is only
\* taken for gone when it is.
Fetched(n) ==
    /\ written[n] <= Len(scn[n].out)
    /\ WithinLog(got[n], written[n]) /\ WithinLog(delta[n], written[n])
    /\ pc[n] \in Late /\ ~MayFail(n, "check") => ~alive[n]

FetchInv == \A n \in Nodes : Fetched(n)

LEMMA InitFetch == Init => FetchInv
<1> SUFFICES ASSUME Init, NEW n \in Nodes PROVE Fetched(n)
  BY DEF FetchInv
<1>1. TypeOK
  BY InitIInv DEF IInv
<1>2. Len(scn[n].out) \in Nat
  BY <1>1, ScenarioOf
<1>3. written[n] <= Len(scn[n].out)
  BY <1>2 DEF Init
<1>4. WithinLog(<<>>, written[n])
  BY DEF WithinLog
<1>5. pc[n] \notin Late
  BY DEF Init, StartPc, Late
<1> QED
  BY <1>3, <1>4, <1>5 DEF Init, Fetched

\* The two fetches bring positions of the log only.
LEMMA AppendWithin ==
    ASSUME TypeOK, NEW n \in Nodes, Fetched(n),
           AppendLocal(n, Positions(offset[n], written[n]))
    PROVE  /\ WithinLog(got'[n], written[n])
           /\ WithinLog(Positions(offset[n], written[n]), written[n])
           /\ WithinLog(delta[n] \o Positions(offset[n], written[n]), written[n])
<1>1. /\ got[n] \in Seq(Nat) /\ delta[n] \in Seq(Nat) /\ offset[n] \in Nat /\ written[n] \in Nat
  BY DEF TypeOK
<1> DEFINE new == Positions(offset[n], written[n])
<1>2. WithinLog(new, written[n])
  BY <1>1, PositionsAt DEF WithinLog
<1>3. PICK q : q = got[n] \o new
  OBVIOUS
<1>4. PICK r : r = delta[n] \o new
  OBVIOUS
<1>5. WithinLog(q, written[n])
  <2>1. \A i \in 1..Len(got[n]) : got[n][i] \in 1..written[n]
    BY DEF Fetched, WithinLog
  <2>2. q \in Seq(Nat) /\ \A i \in 1..Len(q) : q[i] \in 1..written[n]
    BY <1>1, <1>3, <2>1, FetchPlaces
  <2> QED
    BY <2>2 DEF WithinLog
<1>6. WithinLog(r, written[n])
  <2>1. \A i \in 1..Len(delta[n]) : delta[n][i] \in 1..written[n]
    BY DEF Fetched, WithinLog
  <2>2. r \in Seq(Nat) /\ \A i \in 1..Len(r) : r[i] \in 1..written[n]
    BY <1>1, <1>4, <2>1, FetchPlaces
  <2> QED
    BY <2>2 DEF WithinLog
<1> HIDE DEF new
<1>7. got'[n] \in {got[n], q}
  BY <1>3 DEF AppendLocal, TypeOK, new
<1> QED
  BY <1>2, <1>4, <1>5, <1>6, <1>7 DEF Fetched, new

LEMMA GoroutineFetch ==
    ASSUME TypeOK, NEW n \in Nodes, Fetched(n), Blocked(n) \/ Proceed(n)
    PROVE  Fetched(n)'
<1>1. UNCHANGED <<scn, written, alive>>
  BY DEF Blocked, StartFetch, StartCheck, StartFinal, Acquire, Proceed, FetchFailed,
     SizeUnchanged, SizeKnown, SizeGrown, TailDone, CheckRunning, CheckGone, FinalEmpty,
     FinalTail, Judge, host
<1>2. SUFFICES /\ WithinLog(got'[n], written[n]) /\ WithinLog(delta'[n], written[n])
               /\ pc'[n] \in Late => pc[n] \in Late \/ ~alive[n] \/ MayFail(n, "check")
  BY <1>1, <1>2 DEF Fetched, MayFail
<1>3. CASE TailDone(n)
  <2>1. pc'[n] = "check" /\ delta'[n] = Positions(offset[n], written[n])
    BY <1>3 DEF TailDone, Goto, TypeOK
  <2>2. AppendLocal(n, Positions(offset[n], written[n]))
    BY <1>3 DEF TailDone
  <2> QED
    BY <2>1, <2>2, AppendWithin DEF Late
<1>4. CASE FinalTail(n)
  <2>1. pc[n] = "ftail" /\ delta'[n] = delta[n] \o Positions(offset[n], written[n])
    BY <1>4 DEF FinalTail, TypeOK
  <2>2. AppendLocal(n, Positions(offset[n], written[n]))
    BY <1>4 DEF FinalTail
  <2> QED
    BY <2>1, <2>2, AppendWithin DEF Late
<1>5. CASE SizeUnchanged(n)
  <2>1. pc'[n] = "check" /\ delta'[n] = <<>> /\ got' = got
    BY <1>5 DEF SizeUnchanged, Goto, TypeOK, files
  <2>2. WithinLog(<<>>, written[n])
    BY DEF WithinLog
  <2> QED
    BY <2>1, <2>2 DEF Late, Fetched
<1>6. CASE Blocked(n) \/ FetchFailed(n) \/ SizeKnown(n) \/ CheckRunning(n) \/ CheckGone(n)
           \/ FinalEmpty(n) \/ Judge(n)
  <2>1. got' = got /\ delta' = delta
    BY <1>6 DEF Blocked, StartFetch, StartCheck, StartFinal, Acquire, FetchFailed, SizeKnown,
       SizeGrown, CheckRunning, CheckGone, FinalEmpty, Judge, files, local
  <2>2. pc'[n] \in Late => pc[n] \in Late \/ ~alive[n] \/ MayFail(n, "check")
    <3>1. CASE Blocked(n)
      BY <3>1 DEF Blocked, StartFetch, StartCheck, StartFinal, Acquire, Goto, TypeOK, Late
    <3>2. CASE FetchFailed(n)
      <4>1. \E label \in {"off", "fetch"} : Goto(n, label)
        BY <3>2 DEF FetchFailed, Report
      <4> QED
        BY <4>1 DEF Goto, TypeOK, Late
    <3>3. CASE SizeKnown(n)
      BY <3>3 DEF SizeKnown, SizeGrown, Goto, TypeOK, Late
    <3>4. CASE CheckRunning(n)
      <4>1. \E label \in {"off", "fetch"} : Goto(n, label)
        BY <3>4 DEF CheckRunning, Report
      <4> QED
        BY <4>1 DEF Goto, TypeOK, Late
    <3>5. CASE CheckGone(n)
      BY <3>5 DEF CheckGone
    <3>6. CASE FinalEmpty(n) \/ Judge(n)
      BY <3>6 DEF FinalEmpty, Judge, Late
    <3> QED
      BY <1>6, <3>1, <3>2, <3>3, <3>4, <3>5, <3>6
  <2> QED
    BY <2>1, <2>2 DEF Fetched
<1> QED
  BY <1>3, <1>4, <1>5, <1>6 DEF Proceed

LEMMA NextFetch == TypeOK /\ FetchInv /\ [Next]_vars => FetchInv'
<1> SUFFICES ASSUME TypeOK, FetchInv, [Next]_vars PROVE FetchInv'
  OBVIOUS
<1>1. CASE Resume
  <2> SUFFICES ASSUME NEW n \in Nodes PROVE Fetched(n)'
    BY DEF FetchInv
  <2>1. /\ UNCHANGED <<scn, written, alive, got>> /\ delta'[n] = <<>> /\ pc'[n] \in {"fetch", "off"}
    BY <1>1 DEF Resume, StartPc, host, files
  <2>2. WithinLog(<<>>, written[n])
    BY DEF WithinLog
  <2> QED
    BY <2>1, <2>2 DEF FetchInv, Fetched, Late
<1>2. ASSUME NEW n \in Nodes, ScriptWrite(n) \/ ScriptExit(n) \/ Blocked(n) \/ Proceed(n)
      PROVE  FetchInv'
  <2>1. ASSUME NEW m \in Nodes \ {n} PROVE Fetched(m)'
    <3>1. scn' = scn /\ Untouched(m)
      BY <1>2, OthersUntouched
    <3> QED
      BY <3>1 DEF FetchInv, Fetched, MayFail, Untouched
  <2>2. Fetched(n)'
    <3>1. CASE ScriptWrite(n)
      <4>1. /\ UNCHANGED <<scn, alive, got, delta, pc>> /\ written'[n] = written[n] + 1
            /\ written[n] < Len(scn[n].out) /\ written[n] \in Nat
        BY <3>1 DEF ScriptWrite, TypeOK, files, local
      <4>2. Len(scn[n].out) \in Nat
        BY ScenarioOf
      <4>3. 1..written[n] \subseteq 1..written'[n] /\ written'[n] <= Len(scn[n].out)
        BY <4>1, <4>2
      <4> QED
        BY <4>1, <4>3 DEF FetchInv, Fetched, WithinLog, MayFail
    <3>2. CASE ScriptExit(n)
      <4>1. UNCHANGED <<scn, written, got, delta, pc>> /\ ~alive'[n]
        BY <3>2 DEF ScriptExit, TypeOK, files, local
      <4> QED
        BY <4>1 DEF FetchInv, Fetched
    <3>3. CASE Blocked(n) \/ Proceed(n)
      BY <3>3, GoroutineFetch DEF FetchInv
    <3> QED
      BY <1>2, <3>1, <3>2, <3>3
  <2> QED
    BY <2>1, <2>2 DEF FetchInv
<1>3. CASE UNCHANGED vars
  BY <1>3 DEF FetchInv, Fetched, MayFail, vars, host, files, local
<1> QED
  BY <1>1, <1>2, <1>3 DEF Next

LEMMA AlwaysFetch == Spec => []FetchInv
BY InitFetch, NextFetch, TypeCorrect, PTL DEF Spec

\* The three steps that change a record's status, and what each makes of it.
JudgedBy(n) ==
    \/ FetchFailed(n) /\ fails[n] + 1 = FetchFailLimit /\ rec'[n].status = "failed"
    \/ CheckRunning(n)
       /\ rec'[n].status \in {"running", DetectTerminalStatus(LocalText(n), IsCdk(n))}
    \/ Judge(n)
       /\ rec'[n].status
            = DeriveStatusForCompletedProcess(JudgedText(n), snap[n], IsCdk(n))

LEMMA VerdictsAre ==
    ASSUME TypeOK, [Next]_vars, NEW n \in Nodes, rec'[n].status # rec[n].status
    PROVE  JudgedBy(n)
<1>0. ASSUME NEW status, SetStatus(n, status) PROVE rec'[n].status = status
  BY <1>0 DEF SetStatus, TypeOK
<1>1. ~Resume /\ ~UNCHANGED vars
  BY DEF Resume, vars, files
<1>2. PICK m \in Nodes : ScriptWrite(m) \/ ScriptExit(m) \/ Blocked(m) \/ Proceed(m)
  BY <1>1 DEF Next
<1>3. m = n
  BY <1>2, OthersUntouched DEF Untouched
<1>4. ~ScriptWrite(n) /\ ~ScriptExit(n) /\ ~Blocked(n)
  BY DEF ScriptWrite, ScriptExit, Blocked, StartFetch, StartCheck, StartFinal, Acquire, files
<1>5. ~SizeUnchanged(n) /\ ~SizeKnown(n) /\ ~TailDone(n) /\ ~CheckGone(n) /\ ~FinalEmpty(n)
      /\ ~FinalTail(n)
  BY DEF SizeUnchanged, SizeKnown, SizeGrown, TailDone, CheckGone, FinalEmpty, FinalTail, files
<1>6. CASE FetchFailed(n)
  <2>1. GiveUp(n) /\ Report(n, "failed")
    BY <1>6 DEF FetchFailed
  <2>2. SetStatus(n, "failed")
    BY <2>1 DEF Report
  <2>3. fails[n] + 1 = FetchFailLimit
    <3>1. fails[n] \in 0..(FetchFailLimit - 1) /\ fails[n] + 1 >= FetchFailLimit
      BY <2>1 DEF GiveUp, TypeOK
    <3> QED
      BY <3>1, LimitsAssumption
  <2> QED
    BY <1>0, <1>6, <2>2, <2>3 DEF JudgedBy
<1>7. CASE CheckRunning(n)
  <2>1. SetStatus(n, "running") \/ SetStatus(n, DetectTerminalStatus(LocalText(n), IsCdk(n)))
    BY <1>7 DEF CheckRunning, Report
  <2> QED
    BY <1>0, <1>7, <2>1 DEF JudgedBy
<1>8. CASE Judge(n)
  <2>1. SetStatus(n, DeriveStatusForCompletedProcess(JudgedText(n), snap[n], IsCdk(n)))
    BY <1>8 DEF Judge, Report
  <2> QED
    BY <1>0, <1>8, <2>1 DEF JudgedBy
<1> QED
  BY <1>2, <1>3, <1>4, <1>5, <1>6, <1>7, <1>8 DEF Proceed

\* The texts that are judged.
LEMMA JudgedTexts ==
    ASSUME TypeOK, NEW n \in Nodes
    PROVE  /\ LocalText(n) = scn[n].stale \o TextAt(n, got[n])
           /\ \/ delta[n] = <<>> /\ JudgedText(n) = scn[n].stale \o TextAt(n, got[n])
              \/ delta[n] # <<>> /\ JudgedText(n) = <<>> \o TextAt(n, delta[n])
           /\ <<>> \in Logs
<1>1. <<>> \in Logs
  BY DEF Logs
<1>2. \A i \in 1..Len(delta[n]) : delta[n][i] \in Nat
  BY DEF TypeOK
<1>3. TextAt(n, delta[n]) = <<>> \o TextAt(n, delta[n])
  <2>1. Len(delta[n]) \in Nat
    BY DEF TypeOK
  <2>2. TextAt(n, delta[n]) \in [1..Len(delta[n]) -> {scn[n].out[i] : i \in Nat}]
    BY <1>2 DEF TextAt
  <2>3. TextAt(n, delta[n]) \in Seq({scn[n].out[i] : i \in Nat})
    BY <2>1, <2>2, SeqDef
  <2> QED
    BY <2>3, ConcatEmptySeq
<1> QED
  BY <1>1, <1>3 DEF JudgedText, LocalText

\* A success is read off the marker.
LEMMA SuccessShown ==
    ASSUME NEW log, NEW status, NEW isCdk \in BOOLEAN
    PROVE  /\ DetectTerminalStatus(log, isCdk) = "success" => MarkerIn(log)
           /\ DeriveStatusForCompletedProcess(log, status, isCdk) = "success" => MarkerIn(log)
BY DEF DetectTerminalStatus, DeriveStatusForCompletedProcess, DeriveStatusFromLog,
       DeriveStatusFromUnknownLog, MarkerIn

HonestStep ==
    \A n \in Nodes :
        /\ rec'[n].status = "success" /\ rec[n].status # "success"
        /\ "plus" \notin ChunksOf(scn[n].out)
        => MarkerIn(RemoteText(n)) \/ MarkerIn(scn[n].stale)

\* In logs of whole lines success is only ever read off a marker that the script, or
\* the attempt before it, really wrote - wherever fetches overlapped or were lost.
THEOREM SuccessAlwaysHonest == Spec => SuccessHonest
<1>1. TypeOK /\ FetchInv /\ [Next]_vars => HonestStep
  <2> SUFFICES ASSUME TypeOK, FetchInv, [Next]_vars, NEW n \in Nodes,
                      rec'[n].status = "success", rec[n].status # "success",
                      "plus" \notin ChunksOf(scn[n].out)
               PROVE  MarkerIn(RemoteText(n)) \/ MarkerIn(scn[n].stale)
    BY DEF HonestStep
  <2>1. IsCdk(n) \in BOOLEAN /\ scn[n].stale \in Logs /\ <<>> \in Logs
    BY ScenarioOf, JudgedTexts
  <2>2. MarkerIn(LocalText(n)) \/ MarkerIn(JudgedText(n))
    <3>1. JudgedBy(n)
      BY VerdictsAre
    <3> QED
      BY <2>1, <3>1, SuccessShown DEF JudgedBy
  <2>3. ASSUME NEW before \in {<<>>, scn[n].stale}, NEW p \in {got[n], delta[n]},
               MarkerIn(before \o TextAt(n, p))
        PROVE  MarkerIn(before) \/ MarkerIn(RemoteText(n))
    <3>1. p \in Seq(Nat) /\ before \in Logs
      BY <2>1 DEF TypeOK
    <3>2. written[n] \in 0..Len(scn[n].out)
      BY ScenarioOf DEF TypeOK, FetchInv, Fetched
    <3>3. \A i \in 1..Len(p) : p[i] \in 1..written[n]
      BY DEF FetchInv, Fetched, WithinLog
    <3>4. MarkerIn(before) \/ MarkerIn(SubSeq(scn[n].out, 1, written[n]))
      BY <2>3, <3>1, <3>2, <3>3, MarkerFrom
    <3> QED
      BY <3>4 DEF RemoteText
  <2>4. ~MarkerIn(<<>>)
    BY DEF MarkerIn, Visible
  <2>5. CASE MarkerIn(scn[n].stale \o TextAt(n, got[n]))
    BY <2>3, <2>5
  <2>6. CASE MarkerIn(<<>> \o TextAt(n, delta[n]))
    BY <2>3, <2>4, <2>6
  <2> QED
    BY <2>2, <2>5, <2>6, JudgedTexts
<1>2. UNCHANGED vars => HonestStep
  BY DEF vars, files, HonestStep
<1>3. Spec => [][HonestStep]_vars
  BY <1>1, TypeCorrect, AlwaysFetch, PTL DEF Spec
<1> QED
  BY <1>3 DEF SuccessHonest, HonestStep

PatientStep ==
    \A n \in Nodes :
        /\ rec'[n].status # rec[n].status /\ rec'[n].status # "running"
        /\ alive[n] /\ ~MayFail(n, "check")
        => \/ fails[n] + 1 = FetchFailLimit /\ rec'[n].status = "failed"
           \/ rec'[n].status = DetectTerminalStatus(LocalText(n), IsCdk(n))

\* While its process checks work, a live script gets no verdict but after a full run of
\* fetch failures, or from the local log.
THEOREM AliveNeverJudged == Spec => AliveNotJudged
<1>1. TypeOK /\ FetchInv /\ [Next]_vars => PatientStep
  <2> SUFFICES ASSUME TypeOK, FetchInv, [Next]_vars, NEW n \in Nodes,
                      rec'[n].status # rec[n].status, rec'[n].status # "running",
                      alive[n], ~MayFail(n, "check")
               PROVE  \/ fails[n] + 1 = FetchFailLimit /\ rec'[n].status = "failed"
                      \/ rec'[n].status = DetectTerminalStatus(LocalText(n), IsCdk(n))
    BY DEF PatientStep
  <2>1. JudgedBy(n)
    BY VerdictsAre
  <2>2. ~Judge(n)
    BY DEF Judge, FetchInv, Fetched, Late
  <2> QED
    BY <2>1, <2>2 DEF JudgedBy
<1>2. Spec => [][PatientStep]_vars
  BY <1>1, TypeCorrect, AlwaysFetch, PTL DEF Spec
<1> QED
  BY <1>2 DEF AliveNotJudged, PatientStep

\* A failure marker in a judged text is in one of its parts.
LEMMA FailureFrom ==
    ASSUME TypeOK, FetchInv, NEW n \in Nodes, NEW before \in {<<>>, scn[n].stale},
           NEW p \in {got[n], delta[n]}, "bad" \in Visible(before \o TextAt(n, p))
    PROVE  FailureQuoted(n)
<1> DEFINE text == before \o TextAt(n, p)
<1>1. p \in Seq(Nat) /\ before \in Logs
  BY ScenarioOf, JudgedTexts DEF TypeOK
<1>2. written[n] \in 0..Len(scn[n].out) /\ scn[n].out \in Logs
  BY ScenarioOf DEF TypeOK, FetchInv, Fetched
<1>3. \A i \in 1..Len(p) : p[i] \in 1..written[n]
  BY DEF FetchInv, Fetched, WithinLog
<1>4. Places(n, p)
  BY <1>2, <1>3 DEF Places
<1>5. Shows(text, n, before, p)
  BY <1>1, <1>4, TextOf
<1>6. PICK j \in 1..Len(text) : text[j] = "bad"
  BY DEF Visible
<1> HIDE DEF text
<1>7. CASE j \in 1..Len(before)
  <2>1. before[j] = "bad" /\ before = scn[n].stale
    BY <1>5, <1>6, <1>7 DEF Shows
  <2>2. j \in DOMAIN scn[n].stale
    BY <1>1, <1>7, <2>1 DEF Logs
  <2> QED
    BY <2>1, <2>2 DEF FailureQuoted, ChunksOf
<1>8. CASE j \notin 1..Len(before)
  <2>1. PICK i \in 1..Len(p) : j = Len(before) + i
    BY <1>5, <1>8 DEF Shows
  <2>2. scn[n].out[p[i]] = "bad" /\ p[i] \in 1..written[n]
    BY <1>3, <1>5, <1>6, <2>1 DEF Shows
  <2>3. p[i] \in DOMAIN RemoteText(n) /\ RemoteText(n)[p[i]] = "bad"
    BY <1>2, <2>2 DEF RemoteText, Logs
  <2> QED
    BY <2>3 DEF FailureQuoted, ChunksOf
<1> QED
  BY <1>7, <1>8

\* A CDK script that was not unknown is failed for a failure in a log, or at the limit.
LEMMA FailureShown ==
    ASSUME TypeOK, FetchInv, [Next]_vars, NEW n \in Nodes, rec[n].status # "failed",
           rec'[n].status = "failed", IsCdk(n), snap[n] # "unknown"
    PROVE  fails[n] + 1 = FetchFailLimit \/ FailureQuoted(n)
<1>1. JudgedBy(n)
  BY VerdictsAre
<1>2. CASE FetchFailed(n) /\ fails[n] + 1 = FetchFailLimit
  BY <1>2
<1>3. CASE DetectTerminalStatus(LocalText(n), IsCdk(n)) = "failed"
  <2>1. "bad" \in Visible(scn[n].stale \o TextAt(n, got[n]))
    BY <1>3, JudgedTexts DEF DetectTerminalStatus
  <2> QED
    BY <2>1, FailureFrom
<1>4. CASE DeriveStatusForCompletedProcess(JudgedText(n), snap[n], IsCdk(n)) = "failed"
  <2>1. "bad" \in Visible(JudgedText(n))
    BY <1>4 DEF DeriveStatusForCompletedProcess, DeriveStatusFromLog, DetectTerminalStatus
  <2>2. \/ "bad" \in Visible(scn[n].stale \o TextAt(n, got[n]))
        \/ "bad" \in Visible(<<>> \o TextAt(n, delta[n]))
    BY <2>1, JudgedTexts
  <2> QED
    BY <2>2, FailureFrom
<1> QED
  BY <1>1, <1>2, <1>3, <1>4 DEF JudgedBy

\* LogSync implements StatusLifecycle, the README's status table with the rule of the
\* second look: goroutines only move records that are running or unknown, a CDK script
\* is failed at first sight only for a failure in a log or at the limit of lost fetches,
\* and only a CDK record not found unknown becomes unknown.
THEOREM LifecycleImplemented == Spec => FollowsLifecycle
<1>1. Init => Lifecycle!Init
  <2> SUFFICES ASSUME Init PROVE Lifecycle!Init
    OBVIOUS
  <2>1. \A n \in Nodes : scn[n].cdk \in BOOLEAN /\ scn[n].status \in Statuses
    BY ScenariosAssumption DEF Init, ScenarioType
  <2> QED
    BY <2>1 DEF Init, Lifecycle!Init, Lifecycle!AllStatuses, Statuses
<1>2. TypeOK /\ VerdictInv /\ FetchInv /\ [Next]_vars
      => [Lifecycle!Next]_(Lifecycle!lifecycleVars)
  <2> SUFFICES ASSUME TypeOK, VerdictInv, FetchInv, [Next]_vars
               PROVE  Lifecycle!Next \/ UNCHANGED Lifecycle!lifecycleVars
    OBVIOUS
  <2>1. CASE Resume
    BY <2>1 DEF Resume, host, files, Lifecycle!Next, Lifecycle!StartSync
  <2>2. ASSUME NEW n \in Nodes, ScriptWrite(n) \/ ScriptExit(n)
        PROVE  UNCHANGED Lifecycle!lifecycleVars
    BY <2>2 DEF ScriptWrite, ScriptExit, files, local, Lifecycle!lifecycleVars
  <2>3. ASSUME NEW n \in Nodes, Blocked(n) \/ Proceed(n)
        PROVE  Lifecycle!Next \/ UNCHANGED Lifecycle!lifecycleVars
    <3>1. pc[n] # "off" /\ UNCHANGED <<scn, snap>> /\ (Stays(n) \/ Reports(n))
      BY <2>3, GoroutineStep
    <3>2. Lifecycle!Watched(n) /\ rec[n].status # "failed"
      BY <3>1 DEF VerdictInv, Open, ShouldMonitorSyncStatus, Lifecycle!Watched
    <3>3. ASSUME NEW status, SetStatus(n, status)
          PROVE  /\ Lifecycle!Becomes(n, status)
                 /\ rec'[n].status = status
      <4>1. /\ rec'[n].status = status
            /\ [m \in Nodes |-> rec'[m].status]
                 = [[m \in Nodes |-> rec[m].status] EXCEPT ![n] = status]
        BY <3>3 DEF TypeOK, SetStatus
      <4> QED
        BY <3>1, <3>2, <4>1 DEF Lifecycle!Becomes
    <3>4. CASE Stays(n)
      <4>1. CASE rec' = rec
        BY <3>1, <4>1 DEF Lifecycle!lifecycleVars
      <4>2. CASE SetStatus(n, "running")
        BY <3>3, <4>2 DEF Lifecycle!StillRunning, Lifecycle!Next
      <4> QED
        BY <3>4, <4>1, <4>2 DEF Stays
    <3>5. CASE Reports(n)
      <4>1. PICK status \in {"success", "failed", "unknown"} :
              /\ SetStatus(n, status)
              /\ status = "unknown" => IsCdk(n) /\ snap[n] # "unknown"
        BY <3>5 DEF Reports, Report
      <4>2. Lifecycle!Becomes(n, status) /\ rec'[n].status = status
        BY <3>3, <4>1
      <4> HIDE DEF Lifecycle!Becomes
      <4>3. CASE status = "unknown"
        <5>1. Lifecycle!LeaveToAPerson(n)
          BY <4>1, <4>2, <4>3 DEF Lifecycle!LeaveToAPerson, IsCdk
        <5> QED
          BY <5>1 DEF Lifecycle!Next
      <4>4. CASE status = "success"
        BY <4>2, <4>4 DEF Lifecycle!Succeed, Lifecycle!Next
      <4>5. CASE status = "failed" /\ IsCdk(n) /\ snap[n] = "unknown"
        <5>1. Lifecycle!FailOnSecondLook(n)
          BY <4>2, <4>5 DEF Lifecycle!FailOnSecondLook, IsCdk
        <5> QED
          BY <5>1 DEF Lifecycle!Next
      <4>6. CASE status = "failed" /\ (~IsCdk(n) \/ snap[n] # "unknown")
        <5>1. ~IsCdk(n) \/ fails[n] + 1 = FetchFailLimit \/ FailureQuoted(n)
          BY <3>2, <4>2, <4>6, FailureShown
        <5> HIDE DEF FailureQuoted
        <5>2. Lifecycle!Fail(n)
          BY <4>2, <4>6, <5>1 DEF Lifecycle!Fail, IsCdk
        <5> QED
          BY <5>2 DEF Lifecycle!Next
      <4> QED
        BY <4>3, <4>4, <4>5, <4>6
    <3> QED
      BY <3>1, <3>4, <3>5
  <2>4. CASE UNCHANGED vars
    BY <2>4 DEF vars, host, files, local, Lifecycle!lifecycleVars
  <2> QED
    BY <2>1, <2>2, <2>3, <2>4 DEF Next
<1> QED
  BY <1>1, <1>2, TypeCorrect, AlwaysVerdictInv, AlwaysFetch, PTL
     DEF Spec, FollowsLifecycle, Lifecycle!Spec
----------------------------------------------------------------------------
(* Scripts that finish well. *)

\* When such a script is judged, its whole log has been fetched: the goroutine saw it
\* gone before it asked for the size of the log, and no fetch begins behind the one
\* before it, so that no overlap tears the last line from the one in front of it.
NodeFinish(n) ==
    /\ ~alive[n] => written[n] = Len(scn[n].out)
    /\ pc[n] \in {"tail", "ftail"} => offset[n] < size[n]
    /\ pc[n] = "ftail" => size[n] = Len(scn[n].out)
    /\ pc[n] = "judge" => offset[n] = Len(scn[n].out)
    /\ Reaches(got[n], offset[n]) /\ Reaches(got[n], rec[n].logSize)
    /\ Reaches(delta[n], offset[n])
    /\ Linked(n, got[n]) /\ Linked(n, delta[n])
    /\ rec[n].status \in {"failed", "unknown"} => rec[n].status = scn[n].status

FinishInv == \A n \in Nodes : FinishedWell(n) => NodeFinish(n)

LEMMA FinishedFacts ==
    ASSUME TypeOK, NEW n \in Nodes, FinishedWell(n)
    PROVE  /\ scn[n].fresh /\ scn[n].faults = {}
           /\ ~MayFail(n, "fetch") /\ ~MayFail(n, "check") /\ ~MayFail(n, "disk")
           /\ Len(scn[n].out) \in Nat \ {0}
<1>1. scn[n].fresh /\ scn[n].faults = {} /\ scn[n].out # <<>>
  BY DEF FinishedWell
<1>2. scn[n].out \in Logs /\ Len(scn[n].out) \in Nat
  BY ScenarioOf
<1>3. Len(scn[n].out) # 0
  BY <1>1, <1>2, EmptySeq DEF Logs
<1> QED
  BY <1>1, <1>2, <1>3 DEF MayFail

LEMMA NothingReaches ==
    ASSUME NEW n, NEW to
    PROVE  Reaches(<<>>, to) /\ Linked(n, <<>>)
BY DEF Reaches, Linked

LEMMA InitFinish == Init => FinishInv
<1> SUFFICES ASSUME Init, NEW n \in Nodes, FinishedWell(n) PROVE NodeFinish(n)
  BY DEF FinishInv
<1>1. TypeOK
  BY InitIInv DEF IInv
<1>2. scn[n].fresh
  BY <1>1, FinishedFacts
<1>3. /\ alive[n] = scn[n].fresh /\ pc[n] \in {"fetch", "off"} /\ got[n] = <<>>
      /\ delta[n] = <<>> /\ rec[n].status = scn[n].status
  BY DEF Init, StartPc
<1> QED
  BY <1>2, <1>3, NothingReaches DEF NodeFinish

LEMMA FetchedPlaces ==
    ASSUME TypeOK, FetchInv, NEW n \in Nodes
    PROVE  Places(n, got[n]) /\ Places(n, delta[n]) /\ Places(n, <<>>)
<1>1. 1..written[n] \subseteq 1..Len(scn[n].out)
  <2>1. written[n] \in Nat /\ Len(scn[n].out) \in Nat /\ written[n] <= Len(scn[n].out)
    BY ScenarioOf DEF TypeOK, FetchInv, Fetched
  <2> QED
    BY <2>1
<1>2. WithinLog(got[n], written[n]) /\ WithinLog(delta[n], written[n])
  BY DEF FetchInv, Fetched
<1> QED
  BY <1>1, <1>2 DEF WithinLog, Places

\* A verdict on such a script is never against it.
LEMMA FinishedStatus ==
    ASSUME TypeOK, FetchInv, CompleteInv, [Next]_vars, NEW n \in Nodes, FinishedWell(n),
           NodeFinish(n), rec'[n].status \in {"failed", "unknown"}
    PROVE  rec'[n].status = scn[n].status
<1> DEFINE last == Len(scn[n].out)
<1>1. CASE rec'[n].status = rec[n].status
  BY <1>1 DEF NodeFinish
<1>2. CASE rec'[n].status # rec[n].status
  <2>1. JudgedBy(n)
    BY <1>2, VerdictsAre
  <2>2. ~FetchFailed(n) /\ last \in Nat \ {0}
    BY FinishedFacts DEF FetchFailed
  <2>3. IsCdk(n) \in BOOLEAN /\ got[n] \in Seq(Nat) /\ delta[n] \in Seq(Nat)
    BY ScenarioOf DEF TypeOK
  <2>4. Places(n, got[n]) /\ Places(n, delta[n])
    BY FetchedPlaces
  <2>5. Linked(n, got[n]) /\ Linked(n, delta[n])
    BY DEF NodeFinish
  <2>6. DetectTerminalStatus(LocalText(n), IsCdk(n)) # "failed"
    BY <2>3, <2>4, <2>5, FinishedVerdict, JudgedTexts
  <2>7. ~CheckRunning(n)
    <3> SUFFICES ASSUME CheckRunning(n) PROVE FALSE
      OBVIOUS
    <3>1. DetectTerminalStatus(LocalText(n), IsCdk(n)) \in {"success", "undecided"}
      BY <2>3, <2>6, VerdictType DEF Terminal
    <3>2. pc[n] = "ps" /\ ~Judge(n)
      BY DEF CheckRunning, Judge
    <3> QED
      BY <2>1, <2>2, <3>1, <3>2 DEF JudgedBy
  <2>8. ASSUME Judge(n) PROVE FALSE
    <3>1. pc[n] = "judge" /\ offset[n] = last
      BY <2>8 DEF Judge, NodeFinish
    <3>2. DetectTerminalStatus(JudgedText(n), IsCdk(n)) = "success"
      <4>1. CASE delta[n] = <<>>
        <5>1. \E i \in 1..Len(got[n]) : got[n][i] = last
          <6>1. last \in Held(n)
            BY <2>2, <3>1, FinishedFacts DEF CompleteInv, NodeComplete
          <6>2. DOMAIN got[n] = 1..Len(got[n])
            BY <2>3
          <6> QED
            BY <6>1, <6>2 DEF Held
        <5>2. DetectTerminalStatus(scn[n].stale \o TextAt(n, got[n]), IsCdk(n)) = "success"
          BY <2>3, <2>4, <2>5, <5>1, FinishedVerdict
        <5> QED
          BY <4>1, <5>2, JudgedTexts
      <4>2. CASE delta[n] # <<>>
        <5>1. Len(delta[n]) \in 1..Len(delta[n])
          BY <2>3, <4>2, EmptySeq
        <5>2. delta[n][Len(delta[n])] = last
          BY <2>2, <2>4, <3>1, <4>2, <5>1 DEF NodeFinish, Reaches, Places
        <5>3. DetectTerminalStatus(<<>> \o TextAt(n, delta[n]), IsCdk(n)) = "success"
          BY <2>3, <2>4, <2>5, <5>1, <5>2, FinishedVerdict
        <5> QED
          BY <4>2, <5>3, JudgedTexts
      <4> QED
        BY <4>1, <4>2
    <3>3. rec'[n].status = DeriveStatusForCompletedProcess(JudgedText(n), snap[n], IsCdk(n))
      BY <2>2, <2>7, <2>1 DEF JudgedBy
    <3> QED
      BY <3>2, <3>3 DEF DeriveStatusForCompletedProcess, DeriveStatusFromLog,
         DeriveStatusFromUnknownLog
  <2> QED
    BY <2>1, <2>2, <2>7, <2>8 DEF JudgedBy
<1> QED
  BY <1>1, <1>2

\* What a fetch appends to the local log and to the round's data.
LEMMA FinishedAppend ==
    ASSUME TypeOK, FetchInv, CompleteInv, NEW n \in Nodes, FinishedWell(n), NodeFinish(n),
           pc[n] \in {"tail", "ftail"}, NEW p \in {<<>>, got[n], delta[n]},
           NEW q, q = p \o Positions(offset[n], written[n])
    PROVE  Linked(n, q) /\ Reaches(q, size[n]) /\ Reaches(q, rec[n].logSize)
<1>1. /\ offset[n] \in Nat /\ size[n] \in Nat /\ written[n] \in Nat /\ rec[n].logSize \in Nat
      /\ got[n] \in Seq(Nat) /\ delta[n] \in Seq(Nat) /\ <<>> \in Seq(Nat)
  BY DEF TypeOK
<1>2. Len(scn[n].out) \in Nat /\ written[n] <= Len(scn[n].out)
  BY ScenarioOf DEF FetchInv, Fetched
<1>3. offset[n] < size[n] /\ size[n] <= written[n] /\ rec[n].logSize <= written[n]
  BY FinishedFacts DEF NodeFinish, CompleteInv, NodeComplete
<1>4. p \in Seq(Nat) /\ Linked(n, p) /\ Reaches(p, offset[n])
  BY <1>1, NothingReaches DEF NodeFinish
<1>5. Places(n, p)
  BY FetchedPlaces
<1>6. offset[n] < written[n]
  BY <1>1, <1>3
<1>7. q \in Seq(Nat) /\ Linked(n, q) /\ q # <<>> /\ q[Len(q)] = written[n]
  <2>1. FetchAfter(n, p, offset[n], written[n])
    BY <1>1, <1>2, <1>4, <1>5, <1>6 DEF FetchAfter
  <2>2. EndsAt(n, q, written[n])
    BY <2>1, FetchLinks, Zenon
  <2> QED
    BY <2>2 DEF EndsAt
<1> QED
  BY <1>1, <1>3, <1>7 DEF Reaches

LEMMA GoroutineFinish ==
    ASSUME TypeOK, FetchInv, CompleteInv, NEW n \in Nodes, Blocked(n) \/ Proceed(n),
           FinishedWell(n), NodeFinish(n)
    PROVE  NodeFinish(n)'
<1> DEFINE last == Len(scn[n].out)
<1>1. UNCHANGED <<scn, written, alive>>
  BY DEF Blocked, StartFetch, StartCheck, StartFinal, Acquire, Proceed, FetchFailed,
     SizeUnchanged, SizeKnown, SizeGrown, TailDone, CheckRunning, CheckGone, FinalEmpty,
     FinalTail, Judge, host
<1>2. rec'[n].status \in {"failed", "unknown"} => rec'[n].status = scn[n].status
  BY FinishedStatus DEF Next
<1>3. /\ ~MayFail(n, "fetch") /\ ~MayFail(n, "check") /\ ~MayFail(n, "disk")
      /\ last \in Nat \ {0}
  BY FinishedFacts
<1>4. /\ offset[n] \in Nat /\ size[n] \in Nat /\ written[n] \in Nat
  BY DEF TypeOK
<1>5. ASSUME NEW p \in Seq(Nat), Linked(n, p) PROVE Linked(n, p)'
  BY <1>1, <1>5 DEF Linked
<1>6. CASE TailDone(n) \/ FinalTail(n)
  <2>1. /\ pc'[n] \in {"check", "judge"} /\ (pc'[n] = "judge" => pc[n] = "ftail")
        /\ pc[n] \in {"tail", "ftail"} /\ offset'[n] = size[n] /\ rec' = rec
    BY <1>6 DEF TailDone, FinalTail, Goto, TypeOK
  <2> DEFINE new == Positions(offset[n], written[n])
  <2>2. /\ got'[n] = got[n] \o new
        /\ delta'[n] \in {new, delta[n] \o new}
    <3>1. got' = [got EXCEPT ![n] = @ \o new] /\ \/ delta' = [delta EXCEPT ![n] = new]
                                                  \/ delta' = [delta EXCEPT ![n] = @ \o new]
      BY <1>3, <1>6 DEF TailDone, FinalTail, AppendLocal
    <3> QED
      BY <3>1 DEF TypeOK
  <2>3. new = <<>> \o new
    BY <1>4, PositionsType, ConcatEmptySeq
  <2> HIDE DEF new
  <2>4. PICK a : a = got[n] \o new
    OBVIOUS
  <2>5. PICK b : b = delta[n] \o new
    OBVIOUS
  <2>6. Linked(n, a) /\ Reaches(a, size[n]) /\ Reaches(a, rec[n].logSize)
    BY <2>1, <2>4, FinishedAppend DEF new
  <2>7. Linked(n, b) /\ Reaches(b, size[n])
    BY <2>1, <2>5, FinishedAppend DEF new
  <2>8. Linked(n, new) /\ Reaches(new, size[n])
    BY <2>1, <2>3, FinishedAppend DEF new
  <2>9. /\ Linked(n, got'[n]) /\ Reaches(got'[n], offset'[n]) /\ Reaches(got'[n], rec'[n].logSize)
        /\ Linked(n, delta'[n]) /\ Reaches(delta'[n], offset'[n])
    BY <2>1, <2>2, <2>4, <2>5, <2>6, <2>7, <2>8
  <2>10. Linked(n, got[n])' /\ Linked(n, delta[n])'
    BY <1>1, <2>9 DEF Linked
  <2>11. pc'[n] = "judge" => offset'[n] = last
    BY <2>1 DEF NodeFinish
  <2> QED
    BY <1>1, <1>2, <2>1, <2>9, <2>10, <2>11 DEF NodeFinish, Reaches
<1>7. CASE ~(TailDone(n) \/ FinalTail(n))
  <2>1. got' = got /\ offset' = offset /\ delta'[n] \in {<<>>, delta[n]}
    BY <1>3, <1>7 DEF Proceed, Blocked, StartFetch, StartCheck, StartFinal, Acquire,
       FetchFailed, SizeUnchanged, SizeKnown, SizeGrown, CheckRunning, CheckGone,
       FinalEmpty, Judge, files, local, TypeOK
  <2>2. rec'[n].logSize \in {rec[n].logSize, offset[n]}
    <3>1. rec' = rec \/ \E status : SetStatus(n, status)
      BY <1>3, <1>7 DEF Proceed, Blocked, StartFetch, StartCheck, StartFinal, Acquire,
         FetchFailed, SizeUnchanged, SizeKnown, SizeGrown, CheckRunning, CheckGone,
         FinalEmpty, Judge, Report, files
    <3> QED
      BY <3>1 DEF SetStatus, TypeOK
  <2>3. /\ pc'[n] \in {"tail", "ftail"} => offset[n] < size'[n]
        /\ pc'[n] = "ftail" => size'[n] = last
        /\ pc'[n] = "judge" => offset[n] = last
    <3>1. CASE SizeKnown(n)
      <4>1. /\ \/ pc[n] = "size" /\ pc'[n] = "tail"
               \/ pc[n] = "fsize" /\ pc'[n] = "ftail"
            /\ offset[n] < written[n] /\ size'[n] = written[n]
        <5>1. CASE SizeGrown(n, "size", "tail")
          <6>1. pc[n] = "size" /\ pc'[n] = "tail" /\ size'[n] = written[n]
            BY <5>1 DEF SizeGrown, Goto, TypeOK
          <6>2. offset[n] < written[n]
            BY <1>4, <5>1 DEF SizeGrown
          <6> QED
            BY <6>1, <6>2
        <5>2. CASE SizeGrown(n, "fsize", "ftail")
          BY <1>4, <5>2 DEF SizeGrown, Goto, TypeOK
        <5> QED
          BY <3>1, <5>1, <5>2 DEF SizeKnown
      <4>2. pc[n] = "fsize" => written[n] = last
        BY <1>3 DEF FetchInv, Fetched, Late, NodeFinish
      <4> QED
        BY <4>1, <4>2
    <3>2. CASE FinalEmpty(n)
      <4>1. pc'[n] = "judge" /\ pc[n] = "fsize" /\ written[n] <= offset[n]
        BY <1>3, <3>2 DEF FinalEmpty, Goto, TypeOK
      <4>2. written[n] = last
        BY <1>3, <4>1 DEF FetchInv, Fetched, Late, NodeFinish
      <4>3. offset[n] <= written[n]
        BY <1>3 DEF CompleteInv, NodeComplete
      <4> QED
        BY <1>4, <4>1, <4>2, <4>3
    <3>3. CASE ~SizeKnown(n) /\ ~FinalEmpty(n)
      <4>1. \E label \in {"size", "ps", "fsize", "fetch", "check", "final", "off"} : Goto(n, label)
        BY <1>3, <1>7, <3>3 DEF Proceed, Blocked, StartFetch, StartCheck, StartFinal, Acquire,
           FetchFailed, SizeUnchanged, CheckRunning, CheckGone, Judge, Report
      <4> QED
        BY <4>1 DEF Goto, TypeOK
    <3> QED
      BY <3>1, <3>2, <3>3
  <2>4. Linked(n, got[n])' /\ Linked(n, delta[n])'
    <3>1. Linked(n, got[n]) /\ Linked(n, delta'[n])
      BY <2>1, NothingReaches DEF NodeFinish
    <3> QED
      BY <1>1, <2>1, <3>1 DEF Linked
  <2>5. Reaches(delta'[n], offset'[n]) /\ Reaches(got'[n], offset'[n])
        /\ Reaches(got'[n], rec'[n].logSize)
    BY <2>1, <2>2, NothingReaches DEF NodeFinish
  <2> QED
    BY <1>1, <1>2, <2>1, <2>3, <2>4, <2>5 DEF NodeFinish, Reaches
<1> QED
  BY <1>6, <1>7

LEMMA NextFinish ==
    TypeOK /\ FetchInv /\ CompleteInv /\ FinishInv /\ [Next]_vars => FinishInv'
<1> SUFFICES ASSUME TypeOK, FetchInv, CompleteInv, FinishInv, [Next]_vars PROVE FinishInv'
  OBVIOUS
<1>1. scn' = scn
  <2>1. CASE Resume
    BY <2>1 DEF Resume, host
  <2>2. CASE UNCHANGED vars
    BY <2>2 DEF vars, host
  <2> QED
    BY <2>1, <2>2, OthersUntouched DEF Next
<1> SUFFICES ASSUME NEW n \in Nodes, FinishedWell(n), NodeFinish(n) PROVE NodeFinish(n)'
  BY <1>1 DEF FinishInv, FinishedWell, IsCdk
<1>2. CASE Resume
  <2>1. /\ UNCHANGED <<written, alive, got, rec>> /\ delta'[n] = <<>>
        /\ pc'[n] \in {"fetch", "off"} /\ offset'[n] = rec[n].logSize
    BY <1>2 DEF Resume, StartPc, host, files
  <2>2. Reaches(<<>>, offset'[n])
    BY NothingReaches
  <2>3. Linked(n, got[n])' /\ Linked(n, delta[n])'
    BY <1>1, <2>1 DEF NodeFinish, Linked
  <2> QED
    BY <1>1, <2>1, <2>2, <2>3 DEF NodeFinish, Reaches
<1>3. ASSUME NEW m \in Nodes,
             ScriptWrite(m) \/ ScriptExit(m) \/ Blocked(m) \/ Proceed(m)
      PROVE  NodeFinish(n)'
  <2>1. CASE m # n
    <3>1. Untouched(n)
      BY <1>3, <2>1, OthersUntouched
    <3> QED
      BY <1>1, <3>1 DEF NodeFinish, Linked, Reaches, Untouched
  <2>2. CASE m = n /\ (ScriptWrite(m) \/ ScriptExit(m))
    <3>1. /\ UNCHANGED <<got, rec, offset, size, delta, pc>>
          /\ ~alive'[n] => written'[n] = Len(scn[n].out)
      BY <2>2 DEF ScriptWrite, ScriptExit, files, local, TypeOK
    <3> QED
      BY <1>1, <3>1 DEF NodeFinish, Linked, Reaches
  <2>3. CASE m = n /\ (Blocked(m) \/ Proceed(m))
    BY <2>3, GoroutineFinish
  <2> QED
    BY <1>3, <2>1, <2>2, <2>3
<1>4. CASE UNCHANGED vars
  BY <1>1, <1>4 DEF NodeFinish, Linked, Reaches, vars, host, files, local
<1> QED
  BY <1>2, <1>3, <1>4 DEF Next

\* With a reliable network and disk, no script that finished well is ever recorded as
\* failed or unknown, wherever its output and exit fall between the fetches, the checks
\* and the restarts of the client.
THEOREM FinishedNeverFailed == Spec => []FinishedNotFailed
<1>1. FinishInv => FinishedNotFailed
  BY DEF FinishInv, NodeFinish, FinishedNotFailed
<1> QED
  BY InitFinish, NextFinish, TypeCorrect, InitFetch, NextFetch, InitComplete, NextComplete,
     <1>1, PTL DEF Spec
=============================================================================
