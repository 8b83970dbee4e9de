------------------------ MODULE OperatorToolsProofs ------------------------
(***************************************************************************)
(* Theorems about the operator's tools, for all values of their constants: *)
(* the health check for every servers.json and all time limits; the        *)
(* monitor of the account generation, whose report implements ReportFile;  *)
(* the shutdown of any list of machines; the collection of the logs of any *)
(* nodes; and the types of all of them, in whatever session.               *)
(***************************************************************************)
EXTENDS MCOperatorTools, BatchRunnerProofs, CrossTxConfigProofs

----------------------------------------------------------------------------
(* ChainHealth. *)

Calls == {"wait", "summary", "number", "block", "done"}

HealthTypes ==
    /\ now \in Nat /\ now >= CheckedFrom
    /\ head \in [Checked -> Nat] /\ since \in [Checked -> Nat]
    /\ before \in [Checked -> Nat] /\ seen \in [Checked -> Nat]
    /\ asking \in [Checked -> Calls]
    /\ row \in [Checked -> {"none", "OK", "SLOW", "DOWN"}]

\* No call outlives its time, which begins when the check or the address's answer does.
CallInTime(c) ==
    /\ asking[c] = "summary" => since[c] = CheckedFrom /\ now <= since[c] + SummaryTimeout
    /\ asking[c] \in {"number", "block"} =>
         since[c] <= CheckedFrom + SummaryTimeout /\ now <= since[c] + RpcTimeout

\* The block whose number was received is no older than the newest when the probe began.
NoOlderBlock(c) ==
    /\ asking[c] \in {"number", "block"} => before[c] <= head[c]
    /\ asking[c] = "block" => before[c] <= seen[c]

Verdict(c) == row[c] = "SLOW" => since[c] - before[c] > StaleAfter - RpcTimeout

ChainInv(c) ==
    /\ CallInTime(c) /\ NoOlderBlock(c) /\ Verdict(c)
    /\ asking[c] # "done" => row[c] = "none"
    /\ asking[c] = "wait" => Waiting

HealthInv ==
    /\ HealthTypes
    /\ \A c \in Checked : ChainInv(c)
    /\ IF Waiting THEN now = CheckedFrom
       ELSE now <= CheckedFrom + SummaryTimeout + RpcTimeout

LEMMA HealthStart == HealthInit => HealthInv
<1> SUFFICES ASSUME HealthInit PROVE HealthInv
  OBVIOUS
<1>1. HealthTypes
  BY TimesAssumption DEF HealthInit, HealthTypes, Calls
<1>2. Waiting /\ now = CheckedFrom
  BY DEF HealthInit, Waiting
<1>3. ASSUME NEW c \in Checked PROVE ChainInv(c)
  BY <1>2 DEF HealthInit, ChainInv, CallInTime, NoOlderBlock, Verdict
<1> QED
  BY <1>1, <1>2, <1>3 DEF HealthInv

\* What a call of one chain changes: that chain only, and the clock stands still.
LEMMA CallKeeps ==
    ASSUME HealthInv, NEW c \in Checked, ~Waiting, HealthTypes', asking'[c] # "wait",
           \A d \in Checked \ {c} :
              UNCHANGED <<asking[d], since[d], before[d], seen[d], row[d]>>,
           UNCHANGED <<now, head>>, CallInTime(c)', NoOlderBlock(c)', Verdict(c)',
           asking'[c] # "done" => row'[c] = "none"
    PROVE  HealthInv'
<1>1. ~Waiting'
  BY DEF Waiting, HealthTypes
<1>2. ASSUME NEW d \in Checked, d # c PROVE ChainInv(d)'
  <2>1. UNCHANGED <<asking[d], since[d], before[d], seen[d], row[d]>> /\ ChainInv(d)
    BY <1>2 DEF HealthInv
  <2> QED
    BY <2>1, <1>1 DEF ChainInv, CallInTime, NoOlderBlock, Verdict
<1>3. ChainInv(c)'
  BY DEF ChainInv
<1> QED
  BY <1>1, <1>2, <1>3 DEF HealthInv

LEMMA StartCheckKeeps == HealthInv /\ StartCheck => HealthInv'
<1> SUFFICES ASSUME HealthInv, StartCheck PROVE HealthInv'
  OBVIOUS
<1>1. now = CheckedFrom /\ now' = now
  BY DEF HealthInv, StartCheck
<1>2. HealthTypes'
  BY DEF HealthInv, HealthTypes, StartCheck, Calls
<1>3. \A c \in Checked : asking'[c] \in {"number", "summary"} /\ since'[c] = now /\ before'[c] = head[c]
  BY DEF StartCheck, HealthInv, HealthTypes
<1>4. ~Waiting'
  BY <1>3 DEF StartCheck, Waiting
<1>5. ASSUME NEW c \in Checked PROVE ChainInv(c)'
  <2>1. row'[c] = "none" /\ head'[c] = head[c] /\ head[c] \in Nat
    BY DEF StartCheck, Waiting, HealthInv, HealthTypes, ChainInv
  <2> QED
    BY <1>1, <1>3, <2>1, TimesAssumption DEF ChainInv, CallInTime, NoOlderBlock, Verdict
<1> QED
  BY <1>1, <1>2, <1>4, <1>5, TimesAssumption DEF HealthInv

\* A verdict by the age of the block, within the time of the probe.
LEMMA SlowVerdict ==
    ASSUME HealthInv, NEW c \in Checked, asking[c] = "block",
           StatusByAge(now - seen[c]) = "SLOW"
    PROVE  since[c] - before[c] > StaleAfter - RpcTimeout
<1>1. now - seen[c] > StaleAfter
  BY DEF StatusByAge
<1>2. now <= since[c] + RpcTimeout /\ before[c] <= seen[c]
  BY DEF HealthInv, ChainInv, CallInTime, NoOlderBlock
<1>3. now \in Nat /\ seen[c] \in Nat /\ since[c] \in Nat /\ before[c] \in Nat
  BY DEF HealthInv, HealthTypes
<1> QED
  BY <1>1, <1>2, <1>3, TimesAssumption

LEMMA HealthStep == HealthInv /\ [HealthNext]_healthVars => HealthInv'
<1> SUFFICES ASSUME HealthInv, [HealthNext]_healthVars PROVE HealthInv'
  OBVIOUS
<1>0. HealthTypes /\ \A c \in Checked : ChainInv(c)
  BY DEF HealthInv
<1>1. CASE StartCheck
  BY <1>1, StartCheckKeeps
<1>2. CASE CheckRefused \/ ShowTable
  BY <1>2 DEF CheckRefused, ShowTable, HealthInv, HealthTypes, ChainInv, CallInTime,
              NoOlderBlock, Verdict, Waiting
<1>3. CASE Tick
  <2>0. ~Waiting /\ asking' = asking /\ now' = now + 1
    BY <1>3 DEF Tick
  <2>1. HealthTypes' /\ ~Waiting /\ ~Waiting' /\ now' = now + 1
    <3>1. ~Waiting'
      BY <2>0 DEF Waiting
    <3>2. HealthTypes'
      BY <1>0, <1>3, TimesAssumption DEF Tick, HealthTypes
    <3> QED
      BY <2>0, <3>1, <3>2
  <2>2. ASSUME NEW c \in Checked PROVE ChainInv(c)'
    BY <1>0, <1>3, <2>1, TimesAssumption
    DEF Tick, HealthTypes, TimeAllowed, ChainInv, CallInTime, NoOlderBlock, Verdict, Calls
  <2>3. now' <= CheckedFrom + SummaryTimeout + RpcTimeout
    <3>1. PICK c \in Checked : asking[c] # "done"
      BY <1>3 DEF Tick
    <3>2. asking[c] \in {"summary", "number", "block"} /\ now < since[c] + TimeAllowed(c)
      BY <1>0, <1>3, <3>1, TimesAssumption
      DEF Tick, HealthTypes, ChainInv, Calls, TimeAllowed
    <3> QED
      BY <1>0, <2>1, <3>2, TimesAssumption DEF HealthTypes, ChainInv, CallInTime, TimeAllowed
  <2> QED
    BY <2>1, <2>2, <2>3 DEF HealthInv
<1>4. ASSUME NEW c \in Checked, Down(c) PROVE HealthInv'
  <2>1. HealthTypes' /\ ~Waiting /\ asking'[c] = "done" /\ row'[c] = "DOWN"
    BY <1>0, <1>4 DEF Down, HealthTypes, Waiting, Calls
  <2> QED
    BY <1>0, <1>4, <2>1, CallKeeps
    DEF Down, HealthTypes, CallInTime, NoOlderBlock, Verdict
<1>5. ASSUME NEW c \in Checked, SummaryFetched(c) PROVE HealthInv'
  <2>1. /\ HealthTypes' /\ ~Waiting /\ asking'[c] = "number" /\ since'[c] = now
        /\ before'[c] = head[c] /\ row'[c] = row[c] /\ row[c] = "none"
    BY <1>0, <1>5 DEF SummaryFetched, HealthTypes, Waiting, Calls, ChainInv
  <2>2. now <= CheckedFrom + SummaryTimeout
    BY <1>0, <1>5 DEF SummaryFetched, ChainInv, CallInTime
  <2>3. CallInTime(c)' /\ NoOlderBlock(c)' /\ Verdict(c)'
    BY <1>0, <1>5, <2>1, <2>2, TimesAssumption
    DEF SummaryFetched, HealthTypes, CallInTime, NoOlderBlock, Verdict
  <2> QED
    BY <1>0, <1>5, <2>1, <2>3, CallKeeps DEF SummaryFetched, HealthTypes
<1>6. ASSUME NEW c \in Checked, NumberReceived(c) PROVE HealthInv'
  <2>1. /\ HealthTypes' /\ ~Waiting /\ asking'[c] = "block" /\ seen'[c] = head[c]
        /\ row'[c] = row[c] /\ row[c] = "none"
    BY <1>0, <1>6 DEF NumberReceived, HealthTypes, Waiting, Calls, ChainInv
  <2>2. CallInTime(c)' /\ NoOlderBlock(c)' /\ Verdict(c)'
    BY <1>0, <1>6, <2>1
    DEF NumberReceived, HealthTypes, ChainInv, CallInTime, NoOlderBlock, Verdict
  <2> QED
    BY <1>0, <1>6, <2>1, <2>2, CallKeeps DEF NumberReceived, HealthTypes
<1>7. ASSUME NEW c \in Checked, BlockReceived(c) PROVE HealthInv'
  <2>1. /\ HealthTypes' /\ ~Waiting /\ asking'[c] = "done"
        /\ row'[c] = StatusByAge(now - seen[c]) /\ UNCHANGED <<since, before>>
    BY <1>0, <1>7 DEF BlockReceived, HealthTypes, Waiting, Calls, StatusByAge
  <2>2. Verdict(c)'
    BY <1>7, <2>1, SlowVerdict DEF BlockReceived, Verdict
  <2>3. CallInTime(c)' /\ NoOlderBlock(c)'
    BY <2>1 DEF CallInTime, NoOlderBlock
  <2> QED
    BY <1>0, <1>7, <2>1, <2>2, <2>3, CallKeeps DEF BlockReceived, HealthTypes
<1>8. ASSUME NEW c \in Checked, Produce(c) PROVE HealthInv'
  <2>1. /\ HealthTypes' /\ \A d \in Checked : head[d] <= head'[d]
        /\ UNCHANGED <<now, asking, since, before, seen, row, Waiting>>
    BY <1>0, <1>8 DEF Produce, HealthTypes, Waiting
  <2>2. ASSUME NEW d \in Checked PROVE ChainInv(d)'
    BY <1>0, <2>1 DEF HealthTypes, ChainInv, CallInTime, NoOlderBlock, Verdict
  <2> QED
    BY <2>1, <2>2 DEF HealthInv
<1>9. CASE UNCHANGED healthVars
  BY <1>9 DEF healthVars, HealthInv, HealthTypes, ChainInv, CallInTime, NoOlderBlock,
              Verdict, Waiting
<1> QED
  BY <1>1, <1>2, <1>3, <1>4, <1>5, <1>6, <1>7, <1>8, <1>9 DEF HealthNext

LEMMA AlwaysHealthInv == HealthSpec => []HealthInv
<1>1. HealthInit => HealthInv
  BY HealthStart
<1>2. HealthInv /\ [HealthNext]_healthVars => HealthInv'
  BY HealthStep
<1> QED
  BY <1>1, <1>2, PTL DEF HealthSpec

\* A chain is called SLOW only if its newest block was that old when its probe began, but
\* for the time of a probe, for any --stale-after and however calls and blocks interleave.
THEOREM SlowAlwaysLate == HealthSpec => []SlowIsLate
<1>1. HealthInv => SlowIsLate
  BY DEF HealthInv, ChainInv, Verdict, SlowIsLate
<1> QED
  BY <1>1, AlwaysHealthInv, PTL

\* The table is there after one summary's and one probe's time, for any number of chains.
THEOREM CheckAlwaysInTime == HealthSpec => []CheckInTime
<1>1. HealthInv => CheckInTime
  BY TimesAssumption DEF HealthInv, HealthTypes, CheckInTime
<1> QED
  BY <1>1, AlwaysHealthInv, PTL
----------------------------------------------------------------------------
(* GenAccMonitor. *)

MonitorTypes ==
    /\ accounts \in [Nodes -> 0..MaxAccounts] /\ items \in [Nodes -> 0..MaxAccounts]
    /\ doing \in {"idle", "asking", "temp", "writing", "renaming", "waiting", "ended"}
    /\ round \in 0..MaxRounds
    /\ doing \notin {"idle", "ended"} => round > 0

Busy == {"asking", "temp", "writing", "renaming"}

\* The report is of an earlier round while one is made, and the file to replace it is
\* the whole round.
OneRoundAhead ==
    /\ report # NoReport => report.round \in Nat /\ report.round <= round
    /\ report # NoReport /\ doing \in Busy => report.round < round
    /\ doing = "renaming" => temp = ReportOf(round, items)

MonitorInv == MonitorTypes /\ OneRoundAhead

LEMMA MonitorStart == MonitorInit => MonitorInv
BY MonitorBoundsAssumption DEF MonitorInit, MonitorInv, MonitorTypes, OneRoundAhead, Busy

\* What a round writes is a report and adds up.
LEMMA RoundIsReport ==
    ASSUME MonitorTypes, round > 0
    PROVE  /\ Round = ReportOf(round, items) /\ ReportOf(round, items) # NoReport
           /\ ReportOf(round, items).round = round
           /\ ReportOf(round, items).total = Reader!Total(ReportOf(round, items).items)
<1>1. round \in 1..MaxRounds /\ items \in [Nodes -> 0..MaxAccounts]
  BY MonitorBoundsAssumption DEF MonitorTypes
<1>2. ReportOf(round, items) # NoReport
  BY <1>1, NoReportAssumption
<1>3. Round = ReportOf(round, items)
  BY DEF Round, Merged, ReportOf
<1>4. /\ ReportOf(round, items).round = round
      /\ ReportOf(round, items).total = Reader!Total(ReportOf(round, items).items)
  BY DEF ReportOf, Reader!Total, FoldFunctionOnSet, MapThenFoldSet,
         Reader!FoldFunctionOnSet, Reader!MapThenFoldSet
<1> QED
  BY <1>2, <1>3, <1>4

LEMMA MonitorStep == MonitorInv /\ [MonitorNext]_monitorVars => MonitorInv'
<1> SUFFICES ASSUME MonitorInv, [MonitorNext]_monitorVars PROVE MonitorInv'
  OBVIOUS
<1> USE MonitorBoundsAssumption DEF MonitorInv, MonitorTypes, OneRoundAhead, Busy
<1>1. CASE BeginRound
  BY <1>1 DEF BeginRound
<1>2. ASSUME NEW n \in Nodes, Answer(n) PROVE MonitorInv'
  BY <1>2 DEF Answer
<1>3. CASE AllAnswered
  BY <1>3 DEF AllAnswered
<1>4. CASE WriteTemp
  BY <1>4 DEF WriteTemp
<1>5. CASE CloseTemp
  BY <1>5, RoundIsReport DEF CloseTemp
<1>6. CASE ReplaceReport
  BY <1>6, RoundIsReport DEF ReplaceReport
<1>7. CASE WriteFails
  BY <1>7 DEF WriteFails
<1>8. CASE Interrupt \/ Stop \/ KillMonitor
  BY <1>8 DEF Interrupt, Stop, KillMonitor
<1>9. ASSUME NEW n \in Nodes, Generate(n) PROVE MonitorInv'
  BY <1>9 DEF Generate
<1>10. CASE UNCHANGED monitorVars
  BY <1>10 DEF monitorVars
<1> QED
  BY <1>1, <1>2, <1>3, <1>4, <1>5, <1>6, <1>7, <1>8, <1>9, <1>10 DEF MonitorNext

\* Only the replacement of the report changes what a reader sees, to a later whole round.
LEMMA StepIsPublish ==
    MonitorInv /\ [MonitorNext]_monitorVars => [Reader!Publish]_report
<1> SUFFICES ASSUME MonitorInv, [MonitorNext]_monitorVars, report' # report
             PROVE  Reader!Publish
  OBVIOUS
<1>1. ReplaceReport
  BY DEF MonitorNext, BeginRound, Answer, AllAnswered, WriteTemp, CloseTemp, WriteFails,
         Interrupt, Stop, KillMonitor, Generate, monitorVars
<1>2. report' = ReportOf(round, items) /\ MonitorTypes /\ round > 0 /\ round \in Nat
      /\ (report # NoReport => report.round \in Nat /\ report.round < round)
  BY <1>1, MonitorBoundsAssumption
  DEF ReplaceReport, MonitorInv, MonitorTypes, OneRoundAhead, Busy
<1>3. report' # NoReport /\ report'.round = round /\ report'.total = Reader!Total(report'.items)
  BY <1>2, RoundIsReport
<1> QED
  BY <1>2, <1>3 DEF Reader!Publish

\* Whoever reads the report sees nothing or a whole round that adds up, later ones later,
\* wherever the monitor is killed, interrupted or fails.
THEOREM ReportFileImplemented == MonitorSpec => FollowsReportFile
<1>1. MonitorInit => MonitorInv /\ Reader!Init
  BY MonitorStart DEF MonitorInit, Reader!Init
<1>2. MonitorInv /\ [MonitorNext]_monitorVars => MonitorInv'
  BY MonitorStep
<1> QED
  BY <1>1, <1>2, StepIsPublish, PTL DEF MonitorSpec, FollowsReportFile, Reader!Spec
----------------------------------------------------------------------------
(* Shutdown: its calls are tasks of the runner, and those done have been counted. *)

CallsCounted ==
    /\ calling \in {"idle", "calling", "ended"} /\ ended \in {"none", "nil", "error"}
    /\ calling = "idle" => task = <<>>
    /\ calling # "ended" => ended = "none"
    /\ ended = "nil" => AllDone /\ errs = {}
    /\ calling = "calling" \/ ended = "nil" =>
         /\ Len(task) = Len(Ips)
         /\ \A i \in DOMAIN task : task[i] = "done" => Ips[i] \in told \cup refused \cup errs

ShutdownInv == BatchInv /\ CallsCounted

\* The addresses without repetition: every one of them, once.
LEMMA EveryMachineHasPlace ==
    /\ Ips \in Seq(Machines)
    /\ \A m \in Machines : \E i \in 1..Len(Ips) : Ips[i] = m
<1>1. IsFiniteSet(Machines)
  BY ListedAssumption, FS_Subset DEF Machines
<1>2. Ips \in Seq(Machines) /\ Range(Ips) = Machines
  BY <1>1, SetAsSequence DEF Ips
<1> QED
  BY <1>2 DEF Range

LEMMA ShutdownStart == ShutdownInit => ShutdownInv
BY RunnerStart DEF ShutdownInit, ShutdownInv, CallsCounted, RunnerInit

\* Every step of a shutdown is one of the runner or leaves it alone.
LEMMA CallsAreTasks ==
    ShutdownInv /\ [ShutdownNext]_shutdownVars => [RunnerNext]_runner
<1> SUFFICES ASSUME ShutdownInv, [ShutdownNext]_shutdownVars PROVE [RunnerNext]_runner
  OBVIOUS
<1>1. CASE ShutdownRefused
  BY <1>1 DEF ShutdownRefused
<1>2. CASE StartShutdown
  <2>1. AllDone
    BY <1>2 DEF StartShutdown, ShutdownInv, CallsCounted, AllDone
  <2>2. Len(Ips) \in Nat
    BY EveryMachineHasPlace
  <2> QED
    BY <1>2, <2>1, <2>2 DEF StartShutdown, RunnerNext
<1>3. CASE NextMachines
  BY <1>3 DEF NextMachines, RunnerNext
<1>4. CASE ShutdownDone
  BY <1>4 DEF ShutdownDone
<1>5. ASSUME NEW i \in DOMAIN task, Call(i) PROVE RunnerNext
  BY <1>5 DEF Call, RunnerNext
<1>6. ASSUME NEW i \in DOMAIN task, NEW reached \in BOOLEAN,
             NEW reply \in {"ok", "closed", "lost"}, Returns(i, reached, reply)
      PROVE  RunnerNext
  BY <1>6 DEF Returns, RunnerNext
<1>7. CASE UNCHANGED shutdownVars
  BY <1>7 DEF shutdownVars
<1> QED
  BY <1>1, <1>2, <1>3, <1>4, <1>5, <1>6, <1>7 DEF ShutdownNext

LEMMA ShutdownStep == ShutdownInv /\ [ShutdownNext]_shutdownVars => ShutdownInv'
<1> SUFFICES ASSUME ShutdownInv, [ShutdownNext]_shutdownVars PROVE ShutdownInv'
  OBVIOUS
<1> SUFFICES CallsCounted'
  BY CallsAreTasks, RunnerStep DEF ShutdownInv
<1>1. CASE ShutdownRefused
  BY <1>1 DEF ShutdownRefused, ShutdownInv, CallsCounted, runner
<1>2. CASE StartShutdown
  <2>1. Len(Ips) \in Nat
    BY EveryMachineHasPlace
  <2>2. DOMAIN task' = 1..Len(Ips) /\ task' \in Seq({"todo"}) /\ Len(task') = Len(Ips)
        /\ \A i \in DOMAIN task' : task'[i] = "todo"
    BY <1>2, <2>1, SeqDef DEF StartShutdown, Begin
  <2> QED
    BY <1>2, <2>2 DEF StartShutdown, ShutdownInv, CallsCounted
<1>3. CASE NextMachines
  BY <1>3 DEF NextMachines, NextBatch, ShutdownInv, CallsCounted, AllDone
<1>4. CASE ShutdownDone
  BY <1>4 DEF ShutdownDone, ShutdownInv, CallsCounted, runner, AllDone
<1>5. ASSUME NEW i \in DOMAIN task, Call(i) PROVE CallsCounted'
  BY <1>5 DEF Call, StartTask, ShutdownInv, CallsCounted, BatchInv, RunnerTypeOK
<1>6. ASSUME NEW i \in DOMAIN task, NEW reached \in BOOLEAN,
             NEW reply \in {"ok", "closed", "lost"}, Returns(i, reached, reply)
      PROVE  CallsCounted'
  <2>1. Ips[i] \in told' \cup refused' \cup errs'
    BY <1>6 DEF Returns, ExpectedDisconnect
  <2>2. told \cup refused \cup errs \subseteq told' \cup refused' \cup errs'
    BY <1>6 DEF Returns
  <2>3. Len(task') = Len(task) /\ DOMAIN task' = DOMAIN task
        /\ \A j \in DOMAIN task : j # i => task'[j] = task[j]
    BY <1>6 DEF Returns, EndTask, ShutdownInv, BatchInv, RunnerTypeOK
  <2> QED
    BY <1>6, <2>1, <2>2, <2>3 DEF Returns, ShutdownInv, CallsCounted
<1>7. CASE UNCHANGED shutdownVars
  BY <1>7 DEF shutdownVars, runner, ShutdownInv, CallsCounted, AllDone
<1> QED
  BY <1>1, <1>2, <1>3, <1>4, <1>5, <1>6, <1>7 DEF ShutdownNext

LEMMA AlwaysCounted == ShutdownSpec => []ShutdownInv
<1>1. ShutdownInit => ShutdownInv
  BY ShutdownStart
<1>2. ShutdownInv /\ [ShutdownNext]_shutdownVars => ShutdownInv'
  BY ShutdownStep
<1> QED
  BY <1>1, <1>2, PTL DEF ShutdownSpec

\* A shutdown uses the runner as it promises to be used, so that it never has more calls
\* open than the limit.
THEOREM ShutdownUsesRunner == ShutdownSpec => RunnerSpec /\ []AtMostLimit
<1>1. ShutdownInit => RunnerInit
  BY DEF ShutdownInit
<1>2. ShutdownSpec => RunnerSpec
  BY <1>1, AlwaysCounted, CallsAreTasks, PTL DEF ShutdownSpec, RunnerSpec
<1> QED
  BY <1>2, NeverMoreThanLimit, PTL

\* nil is returned only if every machine of servers.json got the command, or closed the
\* connection as one that did.
THEOREM NilAlwaysMeansTold == ShutdownSpec => []NilMeansTold
<1>1. ShutdownInv => NilMeansTold
  <2> SUFFICES ASSUME ShutdownInv, ended = "nil", NEW m \in Machines
               PROVE  m \in told \cup refused
    BY DEF NilMeansTold
  <2>1. PICK i \in 1..Len(Ips) : Ips[i] = m
    BY EveryMachineHasPlace
  <2>2. DOMAIN task = 1..Len(Ips)
    BY DEF ShutdownInv, CallsCounted, BatchInv, RunnerTypeOK
  <2> QED
    BY <2>1, <2>2 DEF ShutdownInv, CallsCounted, AllDone
<1> QED
  BY <1>1, AlwaysCounted, PTL
----------------------------------------------------------------------------
(* The collection of the logs. *)

LEMMA TargetsType ==
    /\ Targets \in Seq(STRING \X {"pipe", "kurtosis", "runtime"} \X {0}) /\ Len(Targets) \in Nat
    /\ DOMAIN Targets = 1..Len(Targets)
    /\ \A i \in 1..Len(Targets) : Targets[i] \in Logs
<1> DEFINE S == STRING \X {"pipe", "kurtosis", "runtime"} \X {0}
           ss == [i \in DOMAIN StatusRecords |-> LogsOf(StatusRecords[i])]
<1>1. ASSUME NEW i \in DOMAIN StatusRecords PROVE LogsOf(StatusRecords[i]) \in Seq(S)
  <2>1. PICK node : node = StatusRecords[i]
    OBVIOUS
  <2>2. node \in [name : STRING, type : {"op", "cdk", "xjst", "generic"}, index : Nat]
    <3> DEFINE R == [name : STRING, type : {"op", "cdk", "xjst", "generic"}, index : Nat]
    <3>1. StatusRecords \in Seq(R)
      BY StatusRecordsAssumption
    <3> HIDE DEF R
    <3>2. i \in 1..Len(StatusRecords)
      BY <3>1, LenProperties
    <3>3. StatusRecords[i] \in R
      BY <3>1, <3>2, ElementOfSeq
    <3> QED
      BY <2>1, <3>3 DEF R
  <2>3. FilesOf(node) \in Seq({"pipe", "kurtosis", "runtime"})
    <3>1. /\ <<"pipe", "kurtosis", "runtime">> \in Seq({"pipe", "kurtosis", "runtime"})
          /\ <<"pipe", "runtime">> \in Seq({"pipe", "kurtosis", "runtime"})
          /\ <<"pipe">> \in Seq({"pipe", "kurtosis", "runtime"})
      <4>1. <<"pipe", "kurtosis", "runtime">> \in Seq({"pipe", "kurtosis", "runtime"})
        OBVIOUS
      <4>2. <<"pipe", "runtime">> \in Seq({"pipe", "kurtosis", "runtime"})
        OBVIOUS
      <4>3. <<"pipe">> \in Seq({"pipe", "kurtosis", "runtime"})
        OBVIOUS
      <4> QED
        BY <4>1, <4>2, <4>3
    <3>2. node.type \in {"op", "cdk", "xjst", "generic"}
      BY <2>2
    <3>3. FilesOf(node) \in {<<"pipe", "kurtosis", "runtime">>, <<"pipe", "runtime">>, <<"pipe">>}
      BY <3>2 DEF FilesOf
    <3> QED
      BY <3>1, <3>3
  <2>4. /\ DOMAIN FilesOf(node) = 1..Len(FilesOf(node)) /\ Len(FilesOf(node)) \in Nat
        /\ \A j \in 1..Len(FilesOf(node)) : FilesOf(node)[j] \in {"pipe", "kurtosis", "runtime"}
    BY <2>3, LenProperties
  <2>5. [j \in DOMAIN FilesOf(node) |-> <<node.name, FilesOf(node)[j], 0>>]
          \in [1..Len(FilesOf(node)) -> S]
    BY <2>2, <2>4
  <2>6. [j \in DOMAIN FilesOf(node) |-> <<node.name, FilesOf(node)[j], 0>>] \in Seq(S)
    BY <2>4, <2>5, SeqDef
  <2>7. <<>> \in Seq(S)
    OBVIOUS
  <2> QED
    BY <2>1, <2>6, <2>7 DEF LogsOf
<1>2. Len(StatusRecords) \in Nat /\ DOMAIN StatusRecords = 1..Len(StatusRecords)
  BY StatusRecordsAssumption
<1>3. ss \in [1..Len(StatusRecords) -> Seq(S)]
  BY <1>1, <1>2
<1> HIDE DEF S
<1>4. Seq(Seq(S)) = UNION {[1..m -> Seq(S)] : m \in Nat}
  BY SeqDef
<1>5. ss \in Seq(Seq(S))
  BY <1>2, <1>3, <1>4
<1> HIDE DEF ss
<1>6. FlattenSeq(ss) \in Seq(S)
  BY <1>5, FlattenType
<1>7. Targets = FlattenSeq(ss)
  BY DEF Targets, ss
<1>8. Targets \in Seq(S) /\ Len(Targets) \in Nat /\ DOMAIN Targets = 1..Len(Targets)
  BY <1>6, <1>7, LenProperties
<1> QED
  BY <1>8 DEF Logs, S

Packed == {"rsync", "clean", "rename"}
Packing == {"gzip"} \cup Packed
Working == {"probe"} \cup Packing

\* Where a collection is.
Placed ==
    /\ stage \in {"idle", "dir", "list", "manifest", "open"} \cup Working
    /\ next \in 1..(Len(Targets) + 1) /\ newest \in 0..BenchLogs
    /\ stage = "dir" => next <= Len(Targets)
    /\ stage \in Working => next <= Len(Targets) \/ newest # 0
    /\ stage \in {"list", "manifest", "open"} => next = Len(Targets) + 1

\* A log that no restart has emptied only grows: what is counted is not more than what is
\* packed, nor is this less than what the manifest's collection kept.
Grown ==
    /\ stage = "gzip" => remote[Log] # Missing
    /\ stage \in Packing /\ Log \notin sinceCount => lines <= remote[Log]
    /\ stage \in Packed /\ Log \notin sinceCount => lines <= packed /\ packed <= remote[Log]
    /\ stage \in Packed /\ Log \in Kept(manifest.entries) \ sinceListed =>
         local[Log] <= packed /\ packed <= remote[Log]

Honest(listed, emptied) ==
    \A l \in Kept(listed) \ emptied : listed[l].lines <= local[l] /\ local[l] <= remote[l]

\* What the manifest says of the log being collected holds for a file of so many lines.
HonestWith(n) ==
    Log \in Kept(manifest.entries) \ sinceListed =>
        manifest.entries[Log].lines <= n /\ n <= remote[Log]

Temporaries ==
    CASE stage = "rsync" -> {Temporary("host")}
      [] stage = "clean" -> {Temporary("host"), Temporary("local")}
      [] stage = "rename" -> {Temporary("local")}
      [] OTHER -> {}

\* As long as nothing failed, all logs so far have entries and nothing is left behind.
Faultless ==
    /\ \A i \in 1..Len(Targets) : i < next => Targets[i] \in DOMAIN collected
    /\ \A l \in DOMAIN collected : collected[l].skipped # "failed"
    /\ (stage = "clean" => copied) => left = Temporaries

CollectInv ==
    /\ CollectTypeOK /\ Placed /\ Grown
    /\ Honest(collected, sinceCount) /\ Honest(manifest.entries, sinceListed)
    /\ IF stage = "idle" THEN next = 1 /\ collected = NoEntries ELSE collectResult = "none"
    /\ stage # "idle" /\ ~failed => Faultless
    /\ NilMeansCollected

LEMMA AmountsType ==
    ASSUME CollectTypeOK
    PROVE  /\ MaxLines \in Nat /\ BenchLogs \in Nat /\ MaxCollections \in Nat
           /\ \A l \in Logs : /\ remote[l] \in Int /\ remote[l] <= MaxLines
                              /\ local[l] \in Int /\ local[l] <= MaxLines
           /\ lines \in Nat /\ packed \in Nat
BY CollectBoundsAssumption DEF CollectTypeOK, Missing

LEMMA NoEntriesType ==
    /\ IsEntries(NoEntries) /\ Kept(NoEntries) = {} /\ NoManifest.readable = FALSE
    /\ NoManifest.entries = NoEntries
    /\ \A l \in DOMAIN NoEntries : FALSE
BY DEF NoEntries, NoManifest, IsEntries, Kept

LEMMA CollectStart == CollectInit => CollectInv
<1> SUFFICES ASSUME CollectInit PROVE CollectInv
  OBVIOUS
<1>1. /\ remote = FirstLines /\ stage = "idle" /\ next = 1 /\ newest = 0 /\ lines = 0
      /\ packed = 0 /\ copied = FALSE /\ collected = NoEntries /\ failed = FALSE /\ left = {}
      /\ local = [l \in Logs |-> Missing] /\ manifest = NoManifest /\ collections = 0
      /\ collectResult = "none" /\ csv = {} /\ sinceCount = {} /\ sinceListed = {}
      /\ changes = 0
  BY DEF CollectInit
<1>2. copied \in BOOLEAN /\ failed \in BOOLEAN /\ manifest.readable \in BOOLEAN
  BY <1>1, NoEntriesType, Zenon
<1>3. CollectTypeOK
  BY <1>1, <1>2, FirstLinesAssumption, CollectBoundsAssumption, TargetsType, NoEntriesType
     DEF CollectTypeOK, Missing
<1>4. Placed
  BY <1>1, TargetsType, CollectBoundsAssumption DEF Placed, Working, Packing, Packed
<1>5. Grown
  BY <1>1 DEF Grown, Packing, Packed
<1>6. Honest(collected, sinceCount) /\ Honest(manifest.entries, sinceListed)
  BY <1>1, NoEntriesType DEF Honest
<1> QED
  BY <1>1, <1>3, <1>4, <1>5, <1>6 DEF CollectInv, NilMeansCollected

LEMMA LogType ==
    ASSUME CollectInv, stage \in Working
    PROVE  Log \in Logs
<1>1. CASE next <= Len(Targets)
  <2>1. next \in 1..Len(Targets)
    BY <1>1, TargetsType DEF CollectInv, Placed
  <2> QED
    BY <1>1, <2>1, TargetsType DEF Log
<1>2. CASE ~(next <= Len(Targets))
  <2>1. newest \in 1..BenchLogs
    BY <1>2, CollectBoundsAssumption DEF CollectInv, Placed
  <2> QED
    BY <1>2, <2>1 DEF Log, Logs, BenchTargets
<1> QED
  BY <1>1, <1>2

\* The stage after a target.
LEMMA StageType ==
    ASSUME NEW i \in 1..(Len(Targets) + 1)
    PROVE  /\ StageAt(i) \in {"list", "probe", "dir"}
           /\ StageAt(i) = "list" => i = Len(Targets) + 1
           /\ StageAt(i) # "list" => i <= Len(Targets)
<1>1. Len(Targets) \in Nat
  BY TargetsType
<1>2. CASE i > Len(Targets)
  <2>1. StageAt(i) = "list" /\ i = Len(Targets) + 1
    BY <1>1, <1>2 DEF StageAt
  <2> QED
    BY <2>1
<1>3. CASE ~(i > Len(Targets))
  <2>1. StageAt(i) \in {"probe", "dir"} /\ i <= Len(Targets)
    BY <1>1, <1>3 DEF StageAt
  <2> QED
    BY <2>1
<1> QED
  BY <1>2, <1>3

\* A log has its entry, and the collection goes on behind it.
LEMMA EnterKeeps ==
    ASSUME CollectInv, stage \in Working, NEW skipped \in {"no", "missing", "failed"},
           NEW n \in 0..MaxLines, Enter(skipped, n),
           local' \in [Logs -> Missing..MaxLines],
           \A l \in Logs : l # Log => local'[l] = local[l],
           skipped = "no" /\ Log \notin sinceCount =>
               n <= local'[Log] /\ local'[Log] <= remote[Log],
           HonestWith(local'[Log]),
           failed' \in BOOLEAN, failed => failed', skipped = "failed" => failed',
           ~failed' => left' = {}, left' \subseteq {"host", "local"} \X Logs,
           UNCHANGED <<remote, newest, manifest, endings, restarts>>
    PROVE  CollectInv'
<1>0. Log \in Logs /\ Len(Targets) \in Nat
  BY LogType, TargetsType
<1>00. UNCHANGED <<sinceCount, sinceListed, changes>>
  BY DEF restarts
<1>1. /\ lines' = 0 /\ packed' = 0 /\ copied' = FALSE /\ GoOn
      /\ collected' = [l \in DOMAIN collected \cup {Log} |->
                          IF l = Log THEN [lines |-> n, skipped |-> skipped] ELSE collected[l]]
  BY DEF Enter
<1>2. /\ next' \in 1..(Len(Targets) + 1) /\ stage' \in {"list", "probe", "dir", "manifest"}
      /\ stage' \in {"list", "manifest"} => next' = Len(Targets) + 1
      /\ stage' \in {"probe", "dir"} => next' <= Len(Targets)
      /\ next' \in {next, next + 1} /\ (next' = next => next = Len(Targets) + 1)
  <2>1. CASE next > Len(Targets)
    <3>1. stage' = "manifest" /\ next' = next /\ next = Len(Targets) + 1
      BY <1>0, <1>1, <2>1 DEF GoOn, CollectInv, Placed
    <3> QED
      BY <1>0, <3>1 DEF CollectInv, Placed
  <2>2. CASE ~(next > Len(Targets))
    <3>1. next' = next + 1 /\ stage' = StageAt(next + 1) /\ next + 1 \in 1..(Len(Targets) + 1)
      BY <1>0, <1>1, <2>2 DEF GoOn, CollectInv, Placed
    <3> QED
      BY <1>0, <3>1, StageType DEF CollectInv, Placed
  <2> QED
    BY <2>1, <2>2
<1>3. Placed'
  BY <1>2 DEF CollectInv, Placed, Working, Packing, Packed
<1>4. IsEntries(collected)'
  <2>1. [lines |-> n, skipped |-> skipped] \in Entry
    BY DEF Entry
  <2> QED
    BY <1>0, <1>1, <2>1 DEF CollectInv, CollectTypeOK, IsEntries
<1>5. copied' \in BOOLEAN /\ lines' \in 0..MaxLines /\ packed' \in 0..MaxLines
  <2>1. copied' \in BOOLEAN
    BY <1>1, Zenon
  <2> QED
    BY <1>1, <2>1, CollectBoundsAssumption
<1>6. CollectTypeOK'
  <2>1. stage' \in {"idle", "dir", "probe", "gzip", "rsync", "clean", "rename", "list",
                    "manifest", "open"}
    BY <1>2
  <2> QED
    BY <1>00, <1>2, <1>4, <1>5, <2>1 DEF CollectInv, CollectTypeOK, endings, IsEntries
<1>7. Grown'
  BY <1>2 DEF Grown, Packing, Packed
<1>8. Honest(collected, sinceCount)'
  <2> SUFFICES ASSUME NEW l \in DOMAIN collected', collected'[l].skipped = "no",
                      l \notin sinceCount
               PROVE  collected'[l].lines <= local'[l] /\ local'[l] <= remote[l]
    BY <1>00 DEF Honest, Kept
  <2>1. CASE l = Log
    BY <1>1, <2>1
  <2>2. CASE l # Log
    <3>1. l \in DOMAIN collected /\ collected'[l] = collected[l] /\ l \in Logs
      BY <1>1, <2>2 DEF CollectInv, CollectTypeOK, IsEntries
    <3>2. collected[l].lines <= local[l] /\ local[l] <= remote[l]
      BY <3>1 DEF CollectInv, Honest, Kept
    <3> QED
      BY <2>2, <3>1, <3>2
  <2> QED
    BY <2>1, <2>2
<1>9. Honest(manifest.entries, sinceListed)'
  <2> SUFFICES ASSUME NEW l \in Kept(manifest.entries) \ sinceListed
               PROVE  manifest.entries[l].lines <= local'[l] /\ local'[l] <= remote[l]
    BY <1>00 DEF Honest
  <2>1. CASE l = Log
    BY <2>1 DEF HonestWith
  <2>2. CASE l # Log
    <3>1. l \in Logs
      BY DEF CollectInv, CollectTypeOK, IsEntries, Kept
    <3>2. manifest.entries[l].lines <= local[l] /\ local[l] <= remote[l]
      BY DEF CollectInv, Honest
    <3> QED
      BY <2>2, <3>1, <3>2
  <2> QED
    BY <2>1, <2>2
<1>10. ~failed' => Faultless'
  <2> SUFFICES ASSUME ~failed' PROVE Faultless'
    OBVIOUS
  <2>1. Faultless /\ skipped # "failed"
    BY DEF CollectInv, Working, Packing, Packed
  <2>2. ASSUME NEW i \in 1..Len(Targets), i < next' PROVE Targets[i] \in DOMAIN collected'
    <3>1. CASE i < next
      BY <1>1, <2>1, <3>1 DEF Faultless
    <3>2. CASE ~(i < next)
      <4>1. i = next /\ next <= Len(Targets)
        BY <1>0, <1>2, <2>2, <3>2 DEF CollectInv, Placed
      <4>2. Log = Targets[i]
        BY <4>1 DEF Log
      <4> QED
        BY <1>1, <4>2
    <3> QED
      BY <3>1, <3>2
  <2>3. \A l \in DOMAIN collected' : collected'[l].skipped # "failed"
    BY <1>1, <2>1 DEF Faultless
  <2>4. stage' # "clean" /\ Temporaries' = {}
    BY <1>2 DEF Temporaries
  <2> QED
    BY <2>2, <2>3, <2>4 DEF Faultless
<1>11. stage' # "idle" /\ collectResult' = "none"
  BY <1>2 DEF CollectInv, Working, Packing, Packed, endings
<1> QED
  BY <1>3, <1>6, <1>7, <1>8, <1>9, <1>10, <1>11 DEF CollectInv, NilMeansCollected

LEMMA GoesOn ==
    ASSUME CollectInv, stage \in Working, stage' \in Packed \cup {"gzip"},
           UNCHANGED <<remote, next, newest, collected, local, manifest, endings, restarts>>,
           lines' \in 0..MaxLines, packed' \in 0..MaxLines, copied' \in BOOLEAN,
           failed' \in BOOLEAN, failed => failed', left' \subseteq {"host", "local"} \X Logs,
           stage' = "gzip" => remote[Log] # Missing,
           Log \notin sinceCount => lines' <= remote[Log],
           stage' \in Packed /\ Log \notin sinceCount =>
               lines' <= packed' /\ packed' <= remote[Log],
           stage' \in Packed /\ Log \in Kept(manifest.entries) \ sinceListed =>
               local[Log] <= packed' /\ packed' <= remote[Log],
           ~failed' => ((stage' = "clean" => copied') => left' = Temporaries')
    PROVE  CollectInv'
<1>0. Log' = Log /\ Log \in Logs
  BY LogType DEF Log
<1>1. CollectTypeOK'
  <2>1. stage' \in {"idle", "dir", "probe", "gzip", "rsync", "clean", "rename", "list",
                    "manifest", "open"}
    BY DEF Packed
  <2> QED
    BY <2>1 DEF CollectInv, CollectTypeOK, endings, restarts, IsEntries
<1>2. Placed'
  BY DEF CollectInv, Placed, Working, Packing, Packed
<1>3. Grown'
  BY <1>0 DEF CollectInv, Grown, Packing, restarts
<1>4. Honest(collected, sinceCount)' /\ Honest(manifest.entries, sinceListed)'
  BY DEF CollectInv, Honest, restarts
<1>5. stage # "idle" /\ stage' # "idle" /\ collectResult' = "none"
  BY DEF CollectInv, Working, Packing, Packed, endings
<1>6. ~failed' => Faultless'
  BY <1>5 DEF CollectInv, Faultless
<1> QED
  BY <1>1, <1>2, <1>3, <1>4, <1>5, <1>6 DEF CollectInv, NilMeansCollected

LEMMA ProbeKeeps == ASSUME CollectInv, Probe PROVE CollectInv'
<1>0. stage = "probe" /\ stage \in Working /\ Log \in Logs
  BY LogType DEF Probe, Working
<1>00. local \in [Logs -> Missing..MaxLines] /\ HonestWith(local[Log])
  BY DEF CollectInv, CollectTypeOK, Honest, HonestWith
<1>01. /\ UNCHANGED <<remote, newest, stored, endings, restarts>> /\ failed \in BOOLEAN
       /\ left \subseteq {"host", "local"} \X Logs /\ MaxLines \in Nat
  BY CollectBoundsAssumption DEF Probe, CollectInv, CollectTypeOK
<1>02. ~failed => left = {}
  <2>1. Temporaries = {}
    BY <1>0 DEF Temporaries
  <2> QED
    BY <1>0, <2>1 DEF CollectInv, Faultless
<1>1. CASE /\ remote[Log] # Missing
           /\ lines' = remote[Log] /\ stage' = "gzip"
           /\ UNCHANGED <<next, packed, copied, tally>>
  <2>1. lines' \in 0..MaxLines /\ lines' <= remote[Log]
    BY <1>0, <1>01, <1>1 DEF CollectInv, CollectTypeOK, Missing
  <2>2. Temporaries' = {} /\ stage' \notin Packed
    BY <1>1 DEF Temporaries, Packed
  <2>3. /\ packed' \in 0..MaxLines /\ copied' \in BOOLEAN /\ failed' \in BOOLEAN
        /\ failed' = failed /\ left' = left /\ stage' \in Packed \cup {"gzip"}
        /\ UNCHANGED <<remote, next, newest, collected, local, manifest, endings, restarts>>
    BY <1>01, <1>1 DEF CollectInv, CollectTypeOK, tally, stored
  <2> QED
    BY <1>0, <1>01, <1>02, <1>1, <2>1, <2>2, <2>3, GoesOn
<1>2. CASE remote[Log] = Missing /\ Enter("missing", 0) /\ UNCHANGED failed
  <2>1. UNCHANGED <<remote, newest, manifest, endings, restarts, left, local>> /\ failed' = failed
    BY <1>01, <1>2 DEF stored
  <2> QED
    BY <1>0, <1>00, <1>01, <1>02, <1>2, <2>1, EnterKeeps
<1>3. CASE Skip(0)
  <2>1. UNCHANGED <<remote, newest, manifest, endings, restarts, left, local>> /\ failed' = TRUE
        /\ Enter("failed", 0)
    BY <1>01, <1>3 DEF stored, Skip
  <2> QED
    BY <1>0, <1>00, <1>01, <2>1, EnterKeeps
<1> QED
  BY <1>1, <1>2, <1>3 DEF Probe

\* What the steps that pack a log share.
LEMMA Packs ==
    ASSUME CollectInv, stage \in Packing
    PROVE  /\ stage \in Working /\ Log \in Logs /\ MaxLines \in Nat
           /\ local \in [Logs -> Missing..MaxLines]
           /\ HonestWith(local[Log]) /\ failed \in BOOLEAN /\ copied \in BOOLEAN
           /\ left \subseteq {"host", "local"} \X Logs
           /\ \A where \in {"host", "local"} : Temporary(where) \in {"host", "local"} \X Logs
           /\ lines \in 0..MaxLines /\ packed \in 0..MaxLines /\ remote[Log] \in Int
           /\ remote[Log] <= MaxLines /\ (Log \notin sinceCount => lines <= remote[Log])
           /\ stage \in Packed /\ Log \notin sinceCount =>
                lines <= packed /\ packed <= remote[Log]
           /\ stage \in Packed /\ Log \in Kept(manifest.entries) \ sinceListed =>
                local[Log] <= packed /\ packed <= remote[Log]
           /\ Log \in Kept(manifest.entries) \ sinceListed => local[Log] <= remote[Log]
<1>1. stage \in Working
  BY DEF Working
<1>2. Log \in Logs
  BY <1>1, LogType
<1>3. CollectTypeOK /\ Grown
  BY DEF CollectInv
<1>4. \A where \in {"host", "local"} : Temporary(where) \in {"host", "local"} \X Logs
  BY <1>2 DEF Temporary
<1>5. remote[Log] \in Int /\ remote[Log] <= MaxLines
  BY <1>2, <1>3, AmountsType
<1>6. /\ local \in [Logs -> Missing..MaxLines] /\ HonestWith(local[Log])
      /\ Log \in Kept(manifest.entries) \ sinceListed => local[Log] <= remote[Log]
  BY <1>3 DEF CollectInv, CollectTypeOK, Honest, HonestWith
<1> QED
  BY <1>1, <1>2, <1>3, <1>4, <1>5, <1>6, CollectBoundsAssumption DEF CollectTypeOK, Grown

LEMMA GzipKeeps == ASSUME CollectInv, Gzip PROVE CollectInv'
<1>0. /\ stage = "gzip" /\ stage \in Packing
      /\ UNCHANGED <<remote, newest, local, manifest, endings, restarts>>
  BY DEF Gzip, Packing
<1>1. ~failed => left = {}
  <2>1. Temporaries = {}
    BY <1>0 DEF Temporaries
  <2> QED
    BY <1>0, <2>1 DEF CollectInv, Faultless
<1>2. CASE /\ packed' = remote[Log] /\ stage' = "rsync"
           /\ left' = left \cup {Temporary("host")}
           /\ UNCHANGED <<next, lines, copied, tally>>
  <2>0. stage' # "gzip"
    BY <1>2
  <2>1. Log' = Log /\ Temporaries' = {Temporary("host")} /\ stage' \in Packed
        /\ stage' \in Packed \cup {"gzip"} /\ failed' = failed /\ collected' = collected
    BY <1>0, <1>2 DEF Temporaries, Packed, Log, tally, Temporary
  <2>2. /\ packed' \in 0..MaxLines /\ packed' <= remote[Log]
        /\ Log \notin sinceCount => lines' <= packed'
        /\ Log \in Kept(manifest.entries) \ sinceListed => local[Log] <= packed'
    <3>1. lines' = lines /\ packed' = remote[Log] /\ remote[Log] \in Int
      BY <1>0, <1>2, Packs
    <3>2. remote[Log] \in 0..MaxLines
      <4>1. Log \in Logs
        BY <1>0, Packs
      <4>2. remote[Log] # Missing /\ remote[Log] \in Missing..MaxLines
        BY <1>0, <4>1 DEF CollectInv, CollectTypeOK, Grown
      <4> QED
        BY <4>2, CollectBoundsAssumption DEF Missing
    <3> QED
      BY <1>0, <3>1, <3>2, Packs
  <2>3. left' \subseteq {"host", "local"} \X Logs /\ (~failed => left' = Temporaries')
    BY <1>0, <1>1, <1>2, <2>1, Packs
  <2> QED
    BY <1>0, <1>2, <2>0, <2>1, <2>2, <2>3, Packs, GoesOn
<1>3. CASE Skip(lines) /\ left' \in {left, left \cup {Temporary("host")}}
  <2>1. failed' = TRUE /\ Enter("failed", lines)
    BY <1>3 DEF Skip
  <2>2. left' \subseteq {"host", "local"} \X Logs
    BY <1>0, <1>3, Packs
  <2> QED
    BY <1>0, <2>1, <2>2, Packs, EnterKeeps
<1> QED
  BY <1>2, <1>3 DEF Gzip

LEMMA RsyncKeeps == ASSUME CollectInv, Rsync PROVE CollectInv'
<1>0. /\ stage = "rsync" /\ stage \in Packing /\ stage \in Packed /\ stage' = "clean"
      /\ UNCHANGED <<remote, next, newest, lines, packed, tally, local, manifest, endings,
                  restarts>>
      /\ left' \in {left, left \cup {Temporary("local")}} /\ copied' \in BOOLEAN
      /\ copied' => left' = left \cup {Temporary("local")}
  BY DEF Rsync, Packing, Packed
<1>1. ~failed => left = {Temporary("host")}
  <2>1. Temporaries = {Temporary("host")}
    BY <1>0 DEF Temporaries
  <2> QED
    BY <1>0, <2>1 DEF CollectInv, Faultless
<1>2. Log' = Log /\ Temporaries' = {Temporary("host"), Temporary("local")} /\ stage' \in Packed
      /\ stage' \in Packed \cup {"gzip"} /\ failed' = failed /\ collected' = collected
  BY <1>0 DEF Temporaries, Packed, Log, tally, Temporary
<1>3. left' \subseteq {"host", "local"} \X Logs /\ (~failed /\ copied' => left' = Temporaries')
  BY <1>0, <1>1, <1>2, Packs
<1> QED
  BY <1>0, <1>2, <1>3, Packs, GoesOn

LEMMA CleanUpKeeps == ASSUME CollectInv, CleanUp PROVE CollectInv'
<1>0. /\ stage = "clean" /\ stage \in Packing /\ stage \in Packed
      /\ UNCHANGED <<remote, newest, local, manifest, endings, restarts>>
  BY DEF CleanUp, Packing, Packed
<1>1. ~failed /\ copied => left = {Temporary("host"), Temporary("local")}
  <2>1. Temporaries = {Temporary("host"), Temporary("local")}
    BY <1>0 DEF Temporaries
  <2> QED
    BY <1>0, <2>1 DEF CollectInv, Faultless
<1>2. /\ left' \in {left, left \ {Temporary("host")}} /\ failed' \in BOOLEAN
      /\ ~failed' => left' = left \ {Temporary("host")} /\ ~failed /\ copied
      /\ failed => failed' 
  BY <1>0, Packs DEF CleanUp
<1>3. left' \subseteq {"host", "local"} \X Logs
  BY <1>0, <1>2, Packs
<1>4. CASE copied /\ stage' = "rename" /\ UNCHANGED <<next, parcel, collected>>
  <2>1. /\ lines' = lines /\ packed' = packed /\ copied' = copied /\ next' = next
        /\ collected' = collected
    BY <1>4 DEF parcel
  <2>2. Log' = Log /\ Temporaries' = {Temporary("local")} /\ stage' \in Packed
        /\ stage' \in Packed \cup {"gzip"} /\ stage' # "gzip"
    BY <1>0, <1>4, <2>1 DEF Temporaries, Packed, Log, Temporary
  <2>3. ~failed' => left' = Temporaries'
    <3>1. Temporary("host") # Temporary("local")
      BY DEF Temporary
    <3> QED
      BY <1>1, <1>2, <2>2, <3>1
  <2> QED
    BY <1>0, <1>2, <1>3, <2>1, <2>2, <2>3, Packs, GoesOn
<1>5. CASE ~copied /\ Enter("failed", lines)
  <2>1. failed' = TRUE
    BY <1>2, <1>5
  <2> QED
    BY <1>0, <1>3, <1>5, <2>1, Packs, EnterKeeps
<1> QED
  BY <1>4, <1>5 DEF CleanUp

LEMMA RenameKeeps == ASSUME CollectInv, Rename PROVE CollectInv'
<1>0. /\ stage = "rename" /\ stage \in Packing /\ stage \in Packed
      /\ UNCHANGED <<remote, newest, manifest, endings, restarts>>
  BY DEF Rename, Packing, Packed
<1>1. ~failed => left = {Temporary("local")}
  <2>1. Temporaries = {Temporary("local")}
    BY <1>0 DEF Temporaries
  <2> QED
    BY <1>0, <2>1 DEF CollectInv, Faultless
<1>2. ASSUME Replace
      PROVE  /\ local' \in [Logs -> Missing..MaxLines] /\ HonestWith(local'[Log])
             /\ \A l \in Logs : l # Log => local'[l] = local[l]
             /\ Log \notin sinceCount => lines <= local'[Log] /\ local'[Log] <= remote[Log]
             /\ left' \subseteq {"host", "local"} \X Logs /\ (~failed => left' = {})
  <2>1. local' = [local EXCEPT ![Log] = packed] /\ left' = left \ {Temporary("local")}
    BY <1>2 DEF Replace
  <2>2. packed \in Missing..MaxLines
    BY <1>0, Packs DEF Missing
  <2>3. local' \in [Logs -> Missing..MaxLines]
    BY <1>0, <2>1, <2>2, Packs
  <2>4. local'[Log] = packed /\ \A l \in Logs : l # Log => local'[l] = local[l]
    BY <1>0, <2>1, Packs
  <2>5. HonestWith(packed)
    <3> SUFFICES ASSUME Log \in Kept(manifest.entries) \ sinceListed
                 PROVE  manifest.entries[Log].lines <= packed /\ packed <= remote[Log]
      BY DEF HonestWith
    <3>1. /\ manifest.entries[Log].lines \in Int /\ local[Log] \in Int /\ packed \in Int
          /\ manifest.entries[Log].lines <= local[Log]
      BY <1>0, Packs, AmountsType
         DEF CollectInv, CollectTypeOK, IsEntries, Entry, Kept, Honest
    <3>2. local[Log] <= packed /\ packed <= remote[Log]
      BY <1>0, Packs
    <3> QED
      BY <3>1, <3>2
  <2> QED
    BY <1>0, <1>1, <2>1, <2>3, <2>4, <2>5, Packs
<1>3. CASE Replace /\ Enter("no", lines) /\ UNCHANGED failed
  BY <1>0, <1>2, <1>3, Packs, EnterKeeps
<1>4. CASE Replace /\ Skip(lines)
  <2>1. failed' = TRUE /\ Enter("failed", lines)
    BY <1>4 DEF Skip
  <2> QED
    BY <1>0, <1>2, <1>4, <2>1, Packs, EnterKeeps
<1>5. CASE Skip(lines) /\ UNCHANGED <<left, local>>
  <2>1. failed' = TRUE /\ Enter("failed", lines)
    BY <1>5 DEF Skip
  <2> QED
    BY <1>0, <1>5, <2>1, Packs, EnterKeeps
<1> QED
  BY <1>3, <1>4, <1>5 DEF Rename

\* The next target of another host, or the end.
LEMMA NextHost ==
    ASSUME NEW n \in 1..(Len(Targets) + 1), NEW host
    PROVE  Min({i \in n..(Len(Targets) + 1) : i > Len(Targets) \/ Targets[i][1] # host})
               \in 1..(Len(Targets) + 1)
<1> DEFINE T == {i \in n..(Len(Targets) + 1) : i > Len(Targets) \/ Targets[i][1] # host}
<1>1. T \in SUBSET Nat /\ T \subseteq 1..(Len(Targets) + 1) /\ Len(Targets) + 1 \in T
  BY TargetsType
<1> HIDE DEF T
<1>2. \E m \in T : \A k \in T : m <= k
  BY <1>1, LeastNat
<1>3. Min(T) \in T
  BY <1>2 DEF Min
<1> QED
  BY <1>1, <1>3 DEF T

LEMMA MakeDirectoryKeeps == ASSUME CollectInv, MakeDirectory PROVE CollectInv'
<1>0. /\ stage = "dir" /\ next \in 1..Len(Targets) /\ Len(Targets) \in Nat
      /\ UNCHANGED <<remote, newest, parcel, collected, stored, endings, restarts>>
      /\ failed \in BOOLEAN
  BY TargetsType DEF MakeDirectory, CollectInv, Placed, CollectTypeOK
<1>1. /\ stage' \in {"list", "probe", "dir"} /\ next' \in 1..(Len(Targets) + 1)
      /\ stage' = "list" => next' = Len(Targets) + 1
      /\ stage' # "list" => next' <= Len(Targets)
      /\ failed' \in BOOLEAN /\ (failed' \/ UNCHANGED <<next, failed>>)
  <2>1. CASE stage' = "probe" /\ UNCHANGED <<next, failed>>
    BY <1>0, <2>1
  <2>2. CASE /\ failed' = TRUE
             /\ next' = Min({i \in next..(Len(Targets) + 1) :
                               i > Len(Targets) \/ Targets[i][1] # Log[1]})
             /\ stage' = StageAt(next')
    <3>0. next \in 1..(Len(Targets) + 1)
      BY <1>0
    <3>1. next' \in 1..(Len(Targets) + 1)
      BY <2>2, <3>0, NextHost, Zenon
    <3>2. PICK i \in 1..(Len(Targets) + 1) : i = next'
      BY <3>1
    <3> QED
      BY <2>2, <3>2, StageType
  <2> QED
    BY <2>1, <2>2 DEF MakeDirectory
<1>2. /\ UNCHANGED <<remote, newest, collected, lines, packed, copied, left, local, manifest>>
      /\ UNCHANGED <<endings, sinceCount, sinceListed, changes>>
  BY <1>0 DEF parcel, stored, restarts
<1>3. CollectTypeOK'
  BY <1>1, <1>2 DEF CollectInv, CollectTypeOK, endings, IsEntries
<1>4. Placed'
  BY <1>1, <1>2 DEF CollectInv, Placed, Working, Packing, Packed
<1>5. Grown'
  BY <1>1, <1>2 DEF CollectInv, Grown, Packing, Packed
<1>6. Honest(collected, sinceCount)' /\ Honest(manifest.entries, sinceListed)'
  BY <1>2 DEF CollectInv, Honest
<1>7. ~failed' => Faultless'
  <2>1. Temporaries = {} /\ Temporaries' = {}
    BY <1>0, <1>1 DEF Temporaries
  <2> QED
    BY <1>0, <1>1, <1>2, <2>1 DEF CollectInv, Faultless
<1>8. stage' # "idle" /\ collectResult' = "none"
  BY <1>0, <1>1 DEF CollectInv, endings
<1> QED
  BY <1>3, <1>4, <1>5, <1>6, <1>7, <1>8 DEF CollectInv, NilMeansCollected

\* There is a newest log.
LEMMA NewestLog ==
    ASSUME NEW there \in SUBSET (1..BenchLogs), there # {}
    PROVE  (CHOOSE n \in there : \A o \in there : o <= n) \in there
<1>0. BenchLogs \in Nat
  BY CollectBoundsAssumption
<1> DEFINE T == {k \in 0..BenchLogs : BenchLogs - k \in there}
<1>1. T \in SUBSET Nat
  OBVIOUS
<1>2. T # {}
  <2>1. PICK n \in there : TRUE
    OBVIOUS
  <2>2. BenchLogs - n \in 0..BenchLogs /\ BenchLogs - (BenchLogs - n) = n
    BY <1>0, <2>1
  <2> QED
    BY <2>1, <2>2
<1>3. PICK m \in T : \A k \in T : m <= k
  BY <1>1, <1>2, LeastNat
<1>4. BenchLogs - m \in there
  OBVIOUS
<1>5. ASSUME NEW o \in there PROVE o <= BenchLogs - m
  <2>1. BenchLogs - o \in 0..BenchLogs /\ BenchLogs - (BenchLogs - o) = o
    BY <1>0
  <2>2. BenchLogs - o \in T
    BY <2>1
  <2> QED
    BY <1>0, <1>3, <2>2
<1> QED
  BY <1>4, <1>5

LEMMA ListBenchLogsKeeps == ASSUME CollectInv, ListBenchLogs PROVE CollectInv'
<1> DEFINE there == {n \in 1..BenchLogs : remote[<<BenchHost, "bench", n>>] # Missing}
<1>0. /\ stage = "list" /\ next = Len(Targets) + 1 /\ failed \in BOOLEAN
      /\ UNCHANGED <<remote, next, parcel, collected, stored, endings, restarts>>
  BY DEF ListBenchLogs, CollectInv, Placed, CollectTypeOK
<1>1. /\ stage' \in {"manifest", "probe"} /\ newest' \in 0..BenchLogs
      /\ stage' = "probe" => newest' # 0
      /\ failed' \in BOOLEAN /\ (failed' \/ UNCHANGED failed)
  <2>1. CASE BenchLogs > 0 /\ failed' = TRUE /\ stage' = "manifest" /\ UNCHANGED newest
    BY <2>1 DEF CollectInv, Placed
  <2>2. CASE there = {} /\ stage' = "manifest" /\ UNCHANGED <<newest, failed>>
    BY <1>0, <2>2 DEF CollectInv, Placed
  <2>3. CASE /\ there # {} /\ newest' = CHOOSE n \in there : \A o \in there : o <= n
             /\ stage' = "probe" /\ UNCHANGED failed
    <3>1. newest' \in there
      BY <2>3, NewestLog
    <3>2. newest' \in 1..BenchLogs
      BY <3>1
    <3>3. stage' = "probe" /\ failed' = failed
      BY <2>3
    <3> HIDE DEF there
    <3>4. newest' # 0 /\ newest' \in 0..BenchLogs
      BY <3>2, CollectBoundsAssumption
    <3> QED
      BY <1>0, <3>3, <3>4
  <2> QED
    BY <2>1, <2>2, <2>3 DEF ListBenchLogs
<1>2. /\ UNCHANGED <<remote, next, collected, lines, packed, copied, left, local, manifest>>
      /\ UNCHANGED <<endings, sinceCount, sinceListed, changes>>
  BY <1>0 DEF parcel, stored, restarts
<1>3. CollectTypeOK'
  BY <1>1, <1>2 DEF CollectInv, CollectTypeOK, endings, IsEntries
<1>4. Placed'
  BY <1>0, <1>1, <1>2 DEF CollectInv, Placed, Working, Packing, Packed
<1>5. Grown'
  BY <1>1, <1>2 DEF CollectInv, Grown, Packing, Packed
<1>6. Honest(collected, sinceCount)' /\ Honest(manifest.entries, sinceListed)'
  BY <1>2 DEF CollectInv, Honest
<1>7. ~failed' => Faultless'
  <2>1. Temporaries = {} /\ Temporaries' = {}
    BY <1>0, <1>1 DEF Temporaries
  <2> QED
    BY <1>0, <1>1, <1>2, <2>1 DEF CollectInv, Faultless
<1>8. stage' # "idle" /\ collectResult' = "none"
  BY <1>0, <1>1 DEF CollectInv, endings
<1> QED
  BY <1>3, <1>4, <1>5, <1>6, <1>7, <1>8 DEF CollectInv, NilMeansCollected

LEMMA StartCollectKeeps == ASSUME CollectInv, StartCollect PROVE CollectInv'
<1>0. /\ stage = "idle" /\ collections < MaxCollections /\ collections' = collections + 1
      /\ csv' = {} /\ UNCHANGED <<remote, next, newest, parcel, tally, local, manifest>>
      /\ UNCHANGED restarts
      /\ next = 1 /\ collected = NoEntries
  BY DEF StartCollect, CollectInv
<1>1. /\ UNCHANGED <<remote, next, newest, lines, packed, copied, collected, failed, local>>
      /\ UNCHANGED <<manifest, sinceCount, sinceListed, changes>>
  BY <1>0 DEF parcel, tally, restarts
<1>2. /\ stage' \in {"idle", "list", "probe", "dir"} /\ left' \subseteq {"host", "local"} \X Logs
      /\ stage' = "list" => next' = Len(Targets) + 1
      /\ stage' \in {"probe", "dir"} => next' <= Len(Targets)
      /\ collectResult' \in {"none", "error"}
      /\ stage' # "idle" => collectResult' = "none" /\ left' = {}
  <2>1. 1 \in 1..(Len(Targets) + 1) /\ next' = 1
    BY <1>0, <1>1, TargetsType
  <2>2. /\ StageAt(1) \in {"list", "probe", "dir"}
        /\ StageAt(1) = "list" => 1 = Len(Targets) + 1
        /\ StageAt(1) # "list" => 1 <= Len(Targets)
    BY <2>1, StageType
  <2>3. CASE stage' = StageAt(1) /\ left' = {} /\ collectResult' = "none"
    BY <2>1, <2>2, <2>3
  <2>4. CASE collectResult' = "error" /\ UNCHANGED <<stage, left>>
    BY <1>0, <2>4 DEF CollectInv, CollectTypeOK
  <2> QED
    BY <2>3, <2>4 DEF StartCollect
<1>3. CollectTypeOK'
  <2>1. collections' \in 0..MaxCollections
    BY <1>0, CollectBoundsAssumption DEF CollectInv, CollectTypeOK
  <2> QED
    BY <1>0, <1>1, <1>2, <2>1 DEF CollectInv, CollectTypeOK, IsEntries
<1>4. Placed'
  BY <1>1, <1>2 DEF CollectInv, Placed, Working, Packing, Packed
<1>5. Grown'
  BY <1>1, <1>2 DEF CollectInv, Grown, Packing, Packed
<1>6. Honest(collected, sinceCount)' /\ Honest(manifest.entries, sinceListed)'
  BY <1>1 DEF CollectInv, Honest
<1>7. stage' # "idle" => Faultless'
  <2> SUFFICES ASSUME stage' # "idle" PROVE Faultless'
    OBVIOUS
  <2>1. Temporaries' = {} /\ left' = {}
    BY <1>2 DEF Temporaries
  <2>2. \A i \in 1..Len(Targets) : ~(i < next')
    BY <1>0, <1>1, TargetsType
  <2>3. \A l \in DOMAIN collected' : FALSE
    BY <1>0, <1>1, NoEntriesType
  <2> QED
    BY <2>1, <2>2, <2>3 DEF Faultless
<1> QED
  BY <1>0, <1>1, <1>2, <1>3, <1>4, <1>5, <1>6, <1>7 DEF CollectInv, NilMeansCollected

\* A collection that ends, in whatever way.
LEMMA EndKeeps ==
    ASSUME CollectInv, stage' = "idle", ForgetLocals, UNCHANGED <<remote, left, local>>,
           UNCHANGED <<collections, csv, changes>>, sinceListed' \subseteq Logs,
           collectResult' \in {"none", "nil", "error"},
           manifest'.readable \in BOOLEAN, IsEntries(manifest'.entries),
           Honest(manifest.entries, sinceListed)', NilMeansCollected'
    PROVE  CollectInv'
<1>1. /\ next' = 1 /\ newest' = 0 /\ lines' = 0 /\ packed' = 0 /\ copied' = FALSE
      /\ collected' = NoEntries /\ failed' = FALSE /\ sinceCount' = {}
  BY DEF ForgetLocals
<1>2. copied' \in BOOLEAN /\ failed' \in BOOLEAN
  BY <1>1, Zenon
<1>3. CollectTypeOK'
  <2>1. /\ IsEntries(collected') /\ next' \in 1..(Len(Targets) + 1) /\ newest' \in 0..BenchLogs
        /\ lines' \in 0..MaxLines /\ packed' \in 0..MaxLines
    BY <1>1, NoEntriesType, TargetsType, CollectBoundsAssumption
  <2>2. sinceCount' \subseteq Logs
    BY <1>1
  <2> QED
    BY <1>1, <1>2, <2>1, <2>2 DEF CollectInv, CollectTypeOK, IsEntries
<1>4. Placed'
  BY <1>1, TargetsType, CollectBoundsAssumption DEF Placed, Working, Packing, Packed
<1>5. Grown'
  BY DEF CollectInv, Grown, Packing, Packed
<1>6. Honest(collected, sinceCount)'
  BY <1>1, NoEntriesType DEF Honest
<1> QED
  BY <1>1, <1>3, <1>4, <1>5, <1>6 DEF CollectInv

LEMMA OpenManifestKeeps == ASSUME CollectInv, OpenManifest PROVE CollectInv'
<1>0. /\ stage = "manifest" /\ UNCHANGED <<remote, left, local, collections, csv, changes>>
      /\ collectResult = "none" /\ sinceListed' \in {sinceListed, {}}
      /\ manifest' = manifest => sinceListed' = sinceListed
  BY DEF OpenManifest, CollectInv
<1>1. /\ manifest' \in {manifest, NoManifest} /\ manifest'.readable \in BOOLEAN
      /\ IsEntries(manifest'.entries) /\ Honest(manifest.entries, sinceListed)'
      /\ sinceListed' \subseteq Logs
  <2>0. sinceListed' \subseteq Logs
    BY <1>0 DEF CollectInv, CollectTypeOK
  <2>1. manifest' \in {manifest, NoManifest}
    BY DEF OpenManifest
  <2>2. CASE manifest' = manifest
    BY <1>0, <2>0, <2>2 DEF CollectInv, CollectTypeOK, Honest
  <2>3. CASE manifest' = NoManifest
    <3>1. manifest'.entries = NoEntries
      BY <2>3, NoEntriesType
    <3>2. manifest'.readable \in BOOLEAN
      BY <2>3, NoEntriesType, Zenon
    <3>3. Honest(manifest.entries, sinceListed)'
      BY <3>1, NoEntriesType DEF Honest
    <3> QED
      BY <2>0, <2>1, <3>1, <3>2, <3>3, NoEntriesType
  <2> QED
    BY <2>1, <2>2, <2>3
<1>2. CASE /\ stage' = "open" /\ manifest' = NoManifest
           /\ UNCHANGED <<next, newest, parcel, tally, collectResult, sinceCount>>
  <2>1. /\ UNCHANGED <<remote, next, newest, lines, packed, copied, collected, failed>>
        /\ UNCHANGED <<left, local, collections, collectResult, csv, sinceCount, changes>>
    BY <1>0, <1>2 DEF parcel, tally
  <2>2. CollectTypeOK'
    BY <1>1, <1>2, <2>1 DEF CollectInv, CollectTypeOK, IsEntries
  <2>3. Placed'
    BY <1>0, <1>2, <2>1 DEF CollectInv, Placed, Working, Packing, Packed
  <2>4. Grown'
    BY <1>2, <2>1 DEF CollectInv, Grown, Packing, Packed
  <2>5. Honest(collected, sinceCount)'
    BY <2>1 DEF CollectInv, Honest
  <2>6. ~failed' => Faultless'
    <3>1. Temporaries = {} /\ Temporaries' = {}
      BY <1>0, <1>2 DEF Temporaries
    <3> QED
      BY <1>0, <1>2, <2>1, <3>1 DEF CollectInv, Faultless
  <2> QED
    BY <1>0, <1>1, <1>2, <2>1, <2>2, <2>3, <2>4, <2>5, <2>6 DEF CollectInv, NilMeansCollected
<1>3. CASE /\ stage' = "idle" /\ collectResult' = "error" /\ ForgetLocals
           /\ manifest' \in {manifest, NoManifest}
  BY <1>0, <1>1, <1>3, EndKeeps DEF NilMeansCollected
<1> QED
  BY <1>2, <1>3 DEF OpenManifest

LEMMA WriteManifestKeeps == ASSUME CollectInv, WriteManifest PROVE CollectInv'
<1>0. /\ stage = "open" /\ stage' = "idle" /\ ForgetLocals
      /\ manifest' = [readable |-> TRUE, entries |-> collected]
      /\ collectResult' = IF failed THEN "error" ELSE "nil"
      /\ UNCHANGED <<remote, left, local, collections, csv, changes>>
      /\ sinceListed' = sinceCount \cap Kept(collected)
  BY DEF WriteManifest
<1>1. manifest'.entries = collected
  BY <1>0
<1>2. manifest'.readable = TRUE
  BY <1>0
<1>3. manifest'.readable \in BOOLEAN
  BY <1>2, Zenon
<1>4. IsEntries(manifest'.entries) /\ sinceListed' \subseteq Logs
  BY <1>0, <1>1 DEF CollectInv, CollectTypeOK
<1>5. Honest(manifest.entries, sinceListed)'
  BY <1>0, <1>1 DEF CollectInv, Honest
<1>6. NilMeansCollected'
  <2> SUFFICES ASSUME collectResult' = "nil"
               PROVE  /\ \A i \in 1..Len(Targets) : Targets[i] \in DOMAIN collected
                      /\ \A l \in DOMAIN collected : collected[l].skipped # "failed"
                      /\ left' = {}
    BY <1>1, TargetsType DEF NilMeansCollected
  <2>1. ~failed /\ Temporaries = {} /\ next = Len(Targets) + 1
    BY <1>0 DEF Temporaries, CollectInv, Placed
  <2>2. Faultless
    BY <1>0, <2>1 DEF CollectInv
  <2> QED
    BY <1>0, <2>1, <2>2, TargetsType DEF Faultless
<1>7. collectResult' \in {"none", "nil", "error"}
  BY <1>0
<1> QED
  BY <1>0, <1>3, <1>4, <1>5, <1>6, <1>7, EndKeeps

LEMMA KillCollectKeeps == ASSUME CollectInv, KillCollect PROVE CollectInv'
<1>1. /\ stage' = "idle" /\ ForgetLocals /\ UNCHANGED <<remote, left, local, manifest>>
      /\ UNCHANGED <<collections, csv, collectResult, sinceListed, changes>>
      /\ collectResult = "none"
  BY DEF KillCollect, CollectInv, stored, endings
<1>2. /\ manifest'.readable \in BOOLEAN /\ IsEntries(manifest'.entries)
      /\ Honest(manifest.entries, sinceListed)' /\ NilMeansCollected'
      /\ sinceListed' \subseteq Logs
  BY <1>1 DEF CollectInv, CollectTypeOK, Honest, NilMeansCollected
<1> QED
  BY <1>1, <1>2, EndKeeps

LEMMA GrowLogKeeps == ASSUME CollectInv, NEW l \in Logs, GrowLog(l) PROVE CollectInv'
<1>0. /\ remote[l] < MaxLines /\ remote' = [remote EXCEPT ![l] = @ + 1]
      /\ changes < MaxChanges /\ changes' = changes + 1
      /\ UNCHANGED <<position, parcel, tally, stored, endings, sinceCount, sinceListed>>
  BY DEF GrowLog
<1>1. /\ UNCHANGED <<stage, next, newest, lines, packed, copied, collected, failed>>
      /\ UNCHANGED <<left, local, manifest, collections, collectResult, csv>>
      /\ UNCHANGED <<sinceCount, sinceListed>>
  BY <1>0 DEF position, parcel, tally, stored, endings
<1>2. remote' \in [Logs -> Missing..MaxLines] /\ \A k \in Logs : remote[k] <= remote'[k]
  <2>1. remote[l] + 1 \in Missing..MaxLines /\ remote \in [Logs -> Missing..MaxLines]
    BY <1>0, CollectBoundsAssumption DEF CollectInv, CollectTypeOK, Missing
  <2>2. remote' \in [Logs -> Missing..MaxLines]
    BY <1>0, <2>1
  <2>3. ASSUME NEW k \in Logs PROVE remote[k] <= remote'[k]
    BY <1>0, <2>1, AmountsType DEF CollectInv
  <2> QED
    BY <2>2, <2>3
<1>3. CollectTypeOK'
  <2>1. changes' \in 0..MaxChanges
    BY <1>0, CollectBoundsAssumption DEF CollectInv, CollectTypeOK
  <2> QED
    BY <1>1, <1>2, <2>1 DEF CollectInv, CollectTypeOK, IsEntries
<1>4. Log' = Log /\ Temporaries' = Temporaries
  BY <1>1 DEF Log, Temporaries, Temporary
<1>5. Placed'
  BY <1>1 DEF CollectInv, Placed
<1>6. Grown'
  <2>1. CASE stage \in Packing
    <3> DEFINE old == remote[Log]
               new == remote'[Log]
    <3>0. Grown /\ Log \in Logs
      BY <2>1, LogType DEF CollectInv, Working
    <3>1. lines \in Int /\ packed \in Int /\ old \in Int
      BY <3>0, AmountsType DEF CollectInv
    <3>2. new \in Int /\ old <= new
      BY <1>2, <3>0 DEF Missing
    <3>3. (lines <= old => lines <= new) /\ (packed <= old => packed <= new)
      <4> HIDE DEF old, new
      <4> QED
        BY <3>1, <3>2
    <3>4. old # Missing => new # Missing
      <4>1. old \in Missing..MaxLines
        BY <3>0 DEF CollectInv, CollectTypeOK
      <4> HIDE DEF old, new
      <4> QED
        BY <3>1, <3>2, <4>1, CollectBoundsAssumption DEF Missing
    <3>5. stage = "gzip" => new # Missing
      BY <3>0, <3>4 DEF Grown
    <3>6. Log \notin sinceCount => lines <= new
      BY <2>1, <3>0, <3>3 DEF Grown
    <3>7. stage \in Packed =>
            /\ Log \notin sinceCount => lines <= packed /\ packed <= new
            /\ Log \in Kept(manifest.entries) \ sinceListed =>
                 local[Log] <= packed /\ packed <= new
      BY <3>0, <3>3 DEF Grown
    <3> QED
      BY <1>1, <1>4, <3>5, <3>6, <3>7 DEF Grown
  <2>2. CASE stage \notin Packing
    BY <1>1, <2>2 DEF Grown, Packing
  <2> QED
    BY <2>1, <2>2
<1>7. Honest(collected, sinceCount)' /\ Honest(manifest.entries, sinceListed)'
  <2>1. \A k \in Logs : /\ local[k] \in Int /\ remote[k] \in Int /\ remote'[k] \in Int
                         /\ remote[k] <= remote'[k]
    BY <1>2, AmountsType DEF CollectInv, CollectTypeOK, Missing
  <2>2. Kept(collected) \subseteq Logs /\ Kept(manifest.entries) \subseteq Logs
    BY DEF CollectInv, CollectTypeOK, IsEntries, Kept
  <2> QED
    BY <1>1, <2>1, <2>2 DEF CollectInv, Honest
<1>8. Faultless => Faultless'
  BY <1>1, <1>4 DEF Faultless
<1> QED
  BY <1>1, <1>3, <1>5, <1>6, <1>7, <1>8 DEF CollectInv, NilMeansCollected

\* Nothing is said any more of the lines of a log that has been emptied.
LEMMA RestartScriptKeeps ==
    ASSUME CollectInv, NEW l \in Logs, RestartScript(l) PROVE CollectInv'
<1>0. /\ remote' = [remote EXCEPT ![l] = 0]
      /\ changes < MaxChanges /\ changes' = changes + 1
      /\ sinceCount' = sinceCount \cup ({l} \cap CountedLogs)
      /\ sinceListed' = sinceListed \cup ({l} \cap Kept(manifest.entries))
      /\ UNCHANGED <<position, parcel, tally, stored, endings>>
  BY DEF RestartScript
<1>00. Kept(collected) \subseteq CountedLogs /\ (stage \in Packing => Log \in CountedLogs)
  BY DEF CountedLogs, Packing, Packed
<1>1. /\ UNCHANGED <<stage, next, newest, lines, packed, copied, collected, failed>>
      /\ UNCHANGED <<left, local, manifest, collections, collectResult, csv>>
  BY <1>0 DEF position, parcel, tally, stored, endings
<1>2. /\ remote' \in [Logs -> Missing..MaxLines]
      /\ \A k \in Logs : k # l => remote'[k] = remote[k]
  <2>1. 0 \in Missing..MaxLines /\ remote \in [Logs -> Missing..MaxLines]
    BY CollectBoundsAssumption DEF CollectInv, CollectTypeOK, Missing
  <2> QED
    BY <1>0, <2>1
<1>3. CollectTypeOK'
  <2>1. changes' \in 0..MaxChanges
    BY <1>0, CollectBoundsAssumption DEF CollectInv, CollectTypeOK
  <2>2. sinceCount' \subseteq Logs /\ sinceListed' \subseteq Logs
    BY <1>0 DEF CollectInv, CollectTypeOK
  <2> QED
    BY <1>1, <1>2, <2>1, <2>2 DEF CollectInv, CollectTypeOK, IsEntries
<1>4. Log' = Log /\ Temporaries' = Temporaries
  BY <1>1 DEF Log, Temporaries, Temporary
<1>5. Placed'
  BY <1>1 DEF CollectInv, Placed
<1>6. Grown'
  <2>0. Missing # 0 /\ (stage = "gzip" => stage \in Packing)
    BY DEF Missing, Packing
  <2>1. CASE stage \in Packing /\ Log = l
    <3>0. remote'[Log] # Missing
      BY <1>0, <2>0, <2>1, LogType DEF CollectInv, CollectTypeOK
    <3>1. l \in sinceCount'
      BY <1>0, <1>00, <2>1
    <3>2. Log \notin Kept(manifest.entries) \ sinceListed'
      BY <1>0, <2>1
    <3> QED
      BY <1>1, <1>4, <2>1, <3>0, <3>1, <3>2 DEF Grown
  <2>2. CASE stage \in Packing /\ Log # l
    <3>1. Log \in Logs /\ remote'[Log] = remote[Log]
      BY <1>2, <2>2, LogType DEF Working
    <3>2. sinceCount \subseteq sinceCount' /\ sinceListed \subseteq sinceListed'
      BY <1>0
    <3> QED
      BY <1>1, <1>4, <2>0, <2>2, <3>1, <3>2 DEF CollectInv, Grown
  <2>3. CASE stage \notin Packing
    BY <1>1, <2>3 DEF Grown, Packing
  <2> QED
    BY <2>1, <2>2, <2>3
<1>7. Honest(collected, sinceCount)' /\ Honest(manifest.entries, sinceListed)'
  <2>1. Kept(collected) \subseteq Logs /\ Kept(manifest.entries) \subseteq Logs
    BY DEF CollectInv, CollectTypeOK, IsEntries, Kept
  <2>2. ASSUME NEW k \in Kept(collected) \ sinceCount'
        PROVE  collected[k].lines <= local[k] /\ local[k] <= remote'[k]
    <3>1. k # l /\ k \notin sinceCount
      BY <1>0, <1>00, <2>2
    <3> QED
      BY <1>2, <2>1, <2>2, <3>1 DEF CollectInv, Honest
  <2>3. ASSUME NEW k \in Kept(manifest.entries) \ sinceListed'
        PROVE  manifest.entries[k].lines <= local[k] /\ local[k] <= remote'[k]
    <3>1. k # l /\ k \notin sinceListed
      BY <1>0, <2>3
    <3> QED
      BY <1>2, <2>1, <2>3, <3>1 DEF CollectInv, Honest
  <2> QED
    BY <1>1, <2>2, <2>3 DEF Honest
<1>8. Faultless => Faultless'
  BY <1>1, <1>4 DEF Faultless
<1> QED
  BY <1>1, <1>3, <1>5, <1>6, <1>7, <1>8 DEF CollectInv, NilMeansCollected

LEMMA StatsLogsKeeps == ASSUME CollectInv, StatsLogs PROVE CollectInv'
<1>0. /\ csv' = {[log |-> l, lines |-> RowLines(l), held |-> local[l]] :
                     l \in {k \in Logs : local[k] # Missing}}
      /\ UNCHANGED <<remote, position, parcel, tally, stored, collections, collectResult>>
      /\ UNCHANGED restarts
  BY DEF StatsLogs
<1>1. /\ UNCHANGED <<stage, next, newest, lines, packed, copied, collected, failed>>
      /\ UNCHANGED <<remote, left, local, manifest, collections, collectResult>>
      /\ UNCHANGED <<sinceCount, sinceListed, changes>>
  BY <1>0 DEF position, parcel, tally, stored, restarts
<1>2. ASSUME NEW l \in Logs, local[l] # Missing
      PROVE  RowLines(l) \in 0..MaxLines /\ local[l] \in 0..MaxLines
  <2>1. local[l] \in 0..MaxLines
    BY <1>2, CollectBoundsAssumption DEF CollectInv, CollectTypeOK, Missing
  <2>2. l \in DOMAIN manifest.entries => manifest.entries[l].lines \in 0..MaxLines
    BY DEF CollectInv, CollectTypeOK, IsEntries, Entry
  <2> QED
    BY <2>1, <2>2 DEF RowLines
<1>3. csv' \subseteq [log : Logs, lines : 0..MaxLines, held : 0..MaxLines]
  BY <1>0, <1>2
<1>4. CollectTypeOK'
  BY <1>1, <1>3 DEF CollectInv, CollectTypeOK, IsEntries
<1>5. Log' = Log /\ Temporaries' = Temporaries
  BY <1>1 DEF Log, Temporaries, Temporary
<1>6. Placed' /\ Grown'
  BY <1>1, <1>5 DEF CollectInv, Placed, Grown
<1>7. Honest(collected, sinceCount)' /\ Honest(manifest.entries, sinceListed)'
  BY <1>1 DEF CollectInv, Honest
<1>8. Faultless => Faultless'
  BY <1>1, <1>5 DEF Faultless
<1> QED
  BY <1>1, <1>4, <1>6, <1>7, <1>8 DEF CollectInv, NilMeansCollected

LEMMA CollectStepKeeps == CollectInv /\ [CollectNext]_collectVars => CollectInv'
<1> SUFFICES ASSUME CollectInv, [CollectNext]_collectVars PROVE CollectInv'
  OBVIOUS
<1>1. CASE StartCollect
  BY <1>1, StartCollectKeeps
<1>2. CASE MakeDirectory
  BY <1>2, MakeDirectoryKeeps
<1>3. CASE ListBenchLogs
  BY <1>3, ListBenchLogsKeeps
<1>4. CASE Probe
  BY <1>4, ProbeKeeps
<1>5. CASE Gzip
  BY <1>5, GzipKeeps
<1>6. CASE Rsync
  BY <1>6, RsyncKeeps
<1>7. CASE CleanUp
  BY <1>7, CleanUpKeeps
<1>8. CASE Rename
  BY <1>8, RenameKeeps
<1>9. CASE OpenManifest
  BY <1>9, OpenManifestKeeps
<1>10. CASE WriteManifest
  BY <1>10, WriteManifestKeeps
<1>11. CASE KillCollect
  BY <1>11, KillCollectKeeps
<1>12. CASE StatsLogs
  BY <1>12, StatsLogsKeeps
<1>13. CASE \E l \in Logs : GrowLog(l)
  BY <1>13, GrowLogKeeps
<1>14. CASE \E l \in Logs : RestartScript(l)
  BY <1>14, RestartScriptKeeps
<1>15. CASE UNCHANGED collectVars
  <2>1. /\ UNCHANGED <<stage, next, newest, lines, packed, copied, collected, failed>>
        /\ UNCHANGED <<remote, left, local, manifest, collections, collectResult, csv>>
        /\ UNCHANGED <<sinceCount, sinceListed, changes>>
    BY <1>15 DEF collectVars, position, parcel, tally, stored, endings, restarts
  <2>2. Log' = Log /\ Temporaries' = Temporaries
    BY <2>1 DEF Log, Temporaries, Temporary
  <2>3. CollectTypeOK' /\ Placed' /\ Grown'
    BY <2>1, <2>2 DEF CollectInv, CollectTypeOK, Placed, Grown, IsEntries
  <2>4. Honest(collected, sinceCount)' /\ Honest(manifest.entries, sinceListed)' /\ (Faultless => Faultless')
    BY <2>1, <2>2 DEF CollectInv, Honest, Faultless
  <2> QED
    BY <2>1, <2>3, <2>4 DEF CollectInv, NilMeansCollected
<1> QED
  BY <1>1, <1>2, <1>3, <1>4, <1>5, <1>6, <1>7, <1>8, <1>9, <1>10, <1>11, <1>12, <1>13, <1>14,
     <1>15 DEF CollectNext, CollectStep

LEMMA CollectAlways == CollectSpec => []CollectInv
BY CollectStart, CollectStepKeeps, PTL DEF CollectSpec

\* Type correctness of the collection (src/internal/deploy/logs.go).
THEOREM CollectTypeCorrect == CollectSpec => []CollectTypeOK
<1>1. CollectInv => CollectTypeOK
  BY DEF CollectInv
<1> QED
  BY <1>1, CollectAlways, PTL

\* Whatever collections fail or are killed, before their manifest or after, an entry not
\* marked as skipped has its file, with at least the lines it says, unless a restart has
\* emptied the log since these were counted: until then a log only grows, so a later
\* collection that replaced the file packed at least as much.
THEOREM ManifestAlwaysHonest == CollectSpec => []ManifestHonest
<1>1. CollectInv => ManifestHonest
  BY DEF CollectInv, CollectTypeOK, IsEntries, Honest, ManifestHonest, Kept, Entry, Missing
<1> QED
  BY <1>1, CollectAlways, PTL

\* A collection that returned nil has an entry for every log, skipped only where there
\* was none, and left no temporary file anywhere: each error path of collectLogs
\* reaches allErrs, and each of the others removes what the step before it created.
THEOREM NilAlwaysMeansCollected == CollectSpec => []NilMeansCollected
<1>1. CollectInv => NilMeansCollected
  BY DEF CollectInv
<1> QED
  BY <1>1, CollectAlways, PTL
----------------------------------------------------------------------------
(* The types of the other tools, and of all of them. *)

LEMMA HealthTyped == HealthSpec => []HealthTypeOK
<1>1. HealthInit => HealthTypeOK
  <2> SUFFICES ASSUME HealthInit PROVE HealthTypeOK
    OBVIOUS
  <2>1. shown = FALSE
    BY DEF HealthInit
  <2>2. shown \in BOOLEAN
    BY <2>1, Zenon
  <2> QED
    BY <2>2, TimesAssumption, MaxTimeAssumption DEF HealthInit, HealthTypeOK
<1>2. HealthTypeOK /\ [HealthNext]_healthVars => HealthTypeOK'
  <2> SUFFICES ASSUME HealthTypeOK, [HealthNext]_healthVars PROVE HealthTypeOK'
    OBVIOUS
  <2>1. CASE StartCheck
    BY <2>1 DEF StartCheck, HealthTypeOK
  <2>2. CASE CheckRefused \/ ShowTable
    <3>1. shown' = TRUE /\ UNCHANGED <<now, head, asking, since, before, seen, row>>
      BY <2>2 DEF CheckRefused, ShowTable
    <3>2. shown' \in BOOLEAN
      BY <3>1, Zenon
    <3> QED
      BY <3>1, <3>2 DEF HealthTypeOK
  <2>3. CASE Tick
    BY <2>3, TimesAssumption DEF Tick, HealthTypeOK
  <2>4. ASSUME NEW c \in Checked, Down(c) PROVE HealthTypeOK'
    BY <2>4 DEF Down, HealthTypeOK
  <2>5. ASSUME NEW c \in Checked, SummaryFetched(c) PROVE HealthTypeOK'
    BY <2>5 DEF SummaryFetched, HealthTypeOK
  <2>6. ASSUME NEW c \in Checked, NumberReceived(c) PROVE HealthTypeOK'
    BY <2>6 DEF NumberReceived, HealthTypeOK
  <2>7. ASSUME NEW c \in Checked, BlockReceived(c) PROVE HealthTypeOK'
    BY <2>7 DEF BlockReceived, StatusByAge, HealthTypeOK
  <2>8. ASSUME NEW c \in Checked, Produce(c) PROVE HealthTypeOK'
    BY <2>8 DEF Produce, HealthTypeOK
  <2>9. CASE UNCHANGED healthVars
    BY <2>9 DEF healthVars, HealthTypeOK
  <2> QED
    BY <2>1, <2>2, <2>3, <2>4, <2>5, <2>6, <2>7, <2>8, <2>9 DEF HealthNext
<1> QED
  BY <1>1, <1>2, PTL DEF HealthSpec

MachinesCounted == ShutdownInv /\ ShutdownTypeOK

LEMMA ShutdownTyped == ShutdownSpec => []ShutdownTypeOK
<1>1. ShutdownInit => MachinesCounted
  BY ShutdownStart DEF ShutdownInit, MachinesCounted, ShutdownTypeOK, ShutdownInv, BatchInv
<1>2. MachinesCounted /\ [ShutdownNext]_shutdownVars => MachinesCounted'
  <2> SUFFICES ASSUME MachinesCounted, [ShutdownNext]_shutdownVars PROVE MachinesCounted'
    OBVIOUS
  <2>1. ShutdownInv'
    BY ShutdownStep DEF MachinesCounted
  <2>2. (told \subseteq Machines /\ refused \subseteq Machines /\ errs \subseteq Machines)'
    <3>1. UNCHANGED <<told, refused, errs>> \/ \E i \in DOMAIN task, reached \in BOOLEAN,
             reply \in {"ok", "closed", "lost"} : Returns(i, reached, reply)
      BY DEF ShutdownNext, ShutdownRefused, StartShutdown, Call, NextMachines, ShutdownDone,
             shutdownVars
    <3>2. ASSUME NEW i \in DOMAIN task, NEW reached \in BOOLEAN,
                 NEW reply \in {"ok", "closed", "lost"}, Returns(i, reached, reply)
          PROVE  (told \subseteq Machines /\ refused \subseteq Machines /\ errs \subseteq Machines)'
      <4>1. Ips[i] \in Machines
        <5>1. i \in 1..Len(Ips)
          BY <3>2 DEF Returns, MachinesCounted, ShutdownInv, CallsCounted, BatchInv, RunnerTypeOK
        <5> QED
          BY <5>1, EveryMachineHasPlace
      <4> QED
        BY <3>2, <4>1 DEF Returns, MachinesCounted, ShutdownTypeOK
    <3> QED
      BY <3>1, <3>2 DEF MachinesCounted, ShutdownTypeOK
  <2> QED
    BY <2>1, <2>2 DEF MachinesCounted, ShutdownTypeOK, ShutdownInv, CallsCounted, BatchInv
<1>3. MachinesCounted => ShutdownTypeOK
  BY DEF MachinesCounted
<1> QED
  BY <1>1, <1>2, <1>3, PTL DEF ShutdownSpec

ReportsTyped == MonitorInv /\ MonitorTypeOK

LEMMA MonitorTyped == MonitorSpec => []MonitorTypeOK
<1>1. MonitorInit => ReportsTyped
  <2> SUFFICES ASSUME MonitorInit PROVE ReportsTyped
    OBVIOUS
  <2>1. interrupted = FALSE
    BY DEF MonitorInit
  <2>2. interrupted \in BOOLEAN
    BY <2>1, Zenon
  <2> QED
    BY <2>2, MonitorStart DEF MonitorInit, ReportsTyped, MonitorTypeOK, MonitorInv, MonitorTypes
<1>2. ReportsTyped /\ [MonitorNext]_monitorVars => ReportsTyped'
  <2> SUFFICES ASSUME ReportsTyped, [MonitorNext]_monitorVars PROVE ReportsTyped'
    OBVIOUS
  <2>1. MonitorInv' /\ MonitorTypes' /\ MonitorTypeOK
    BY MonitorStep DEF ReportsTyped, MonitorInv
  <2>2. CASE Interrupt
    <3>1. interrupted' = TRUE /\ UNCHANGED <<answered, temp, report>>
      BY <2>2 DEF Interrupt
    <3>2. interrupted' \in BOOLEAN
      BY <3>1, Zenon
    <3> QED
      BY <2>1, <3>1, <3>2 DEF ReportsTyped, MonitorTypes, MonitorTypeOK
  <2>3. CASE CloseTemp
    <3>1. /\ temp' = ReportOf(round, items) /\ round \in 1..MaxRounds
          /\ items \in [Nodes -> 0..MaxAccounts]
      BY <2>3, RoundIsReport, MonitorBoundsAssumption
      DEF CloseTemp, ReportsTyped, MonitorInv, MonitorTypes
    <3>2. FoldFunctionOnSet(+, 0, items, Nodes) \in Nat
      <4>1. \A n \in Nodes : items[n] \in Nat
        BY <3>1, MonitorBoundsAssumption
      <4> QED
        BY <4>1, NodesAssumption, SumType
    <3>3. ReportOf(round, items) \in Reports
      BY <3>1, <3>2 DEF ReportOf, Reports
    <3> QED
      BY <2>1, <2>3, <3>1, <3>3 DEF CloseTemp, ReportsTyped, MonitorTypes, MonitorTypeOK
  <2>4. CASE ~Interrupt /\ ~CloseTemp
    <3>1. /\ answered' \subseteq Nodes /\ interrupted' = interrupted
          /\ temp' \in {temp, NoReport} /\ report' \in {report, temp}
      BY <2>1, <2>4 DEF MonitorTypeOK, MonitorNext, BeginRound, AllAnswered, WriteTemp,
         ReplaceReport, WriteFails, Stop, KillMonitor, Answer, Generate, monitorVars
    <3> QED
      BY <2>1, <3>1 DEF ReportsTyped, MonitorTypes, MonitorTypeOK
  <2> QED
    BY <2>2, <2>3, <2>4
<1>3. ReportsTyped => MonitorTypeOK
  BY DEF ReportsTyped
<1> QED
  BY <1>1, <1>2, <1>3, PTL DEF MonitorSpec

\* Whichever tool is run, the others do not take a step.
LEMMA EachToolAlone ==
    ToolsSpec => ConfigSpec /\ CollectSpec /\ ShutdownSpec /\ HealthSpec /\ MonitorSpec
<1>1. ToolsInit => ConfigInit /\ CollectInit /\ ShutdownInit /\ HealthInit /\ MonitorInit
  BY DEF ToolsInit
<1>2. [ToolsNext]_toolVars =>
        /\ [ConfigNext]_configVars /\ [CollectNext]_collectVars /\ [ShutdownNext]_shutdownVars
        /\ [HealthNext]_healthVars /\ [MonitorNext]_monitorVars
  BY DEF ToolsNext, ConfigTool, toolVars
<1> QED
  BY <1>1, <1>2, PTL DEF ToolsSpec, ConfigSpec, CollectSpec, ShutdownSpec, HealthSpec, MonitorSpec

\* The values of every variable of the five tools, in whatever session: the jobs, the
\* logs and the report keep the form in which the next command reads them.
THEOREM ToolsTypeCorrect == ToolsSpec => []ToolsTypeOK
<1>1. ConfigTypeOK /\ CollectTypeOK /\ ShutdownTypeOK /\ HealthTypeOK /\ MonitorTypeOK
        => ToolsTypeOK
  BY DEF ToolsTypeOK
<1> QED
  BY <1>1, EachToolAlone, ConfigTypeCorrect, CollectTypeCorrect, ShutdownTyped, HealthTyped,
     MonitorTyped, PTL
=============================================================================
