------------------------ MODULE DeployRecoveryProofs ------------------------
(***************************************************************************)
(* Theorems about DeployRecovery for every plan of services, every number  *)
(* of machines, retries and operator commands, and every environment.      *)
(***************************************************************************)
EXTENDS DeployRecoveryProperties, TLAPS

----------------------------------------------------------------------------
(* Types. *)

LEMMA RecordTypes ==
    /\ Absent \in Record /\ Pending \in Record
    /\ \A n : \A hasPid \in BOOLEAN : Started(n, hasPid) \in Record
    /\ \A r \in Record, status \in Statuses : [r EXCEPT !.status = status] \in Record
BY DEF Absent, Pending, Started, Record, Statuses

LEMMA SaveType ==
    ASSUME TypeOK, NEW n \in Nodes, NEW record \in Record, Save(n, record)
    PROVE  /\ mem' \in [Nodes -> Record] /\ disk' \in [Nodes -> Record]
           /\ writing' \in BOOLEAN
<1>1. writing' \in BOOLEAN
  BY DEF Save, Possible
<1> QED
  BY <1>1 DEF TypeOK, Save

LEMMA NowType ==
    ASSUME TypeOK, NEW n \in Nodes, NEW next \in {"off", "started"}, Now(n, next)
    PROVE  step' \in [Nodes -> {"off", "todo", "started", "watch", "doubt"}]
BY DEF TypeOK, Now

LEMMA LeftByType ==
    \A script \in Scripts : LeftBy(script) \subseteq Leavings
BY DEF LeftBy, Leavings, Scripts

LEMMA ScriptTypes ==
    ASSUME TypeOK, NEW n \in Nodes, Forget(n) \/ TakeUp(n)
    PROVE  /\ cur' \in [Nodes -> Scripts] /\ fresh' \in [Nodes -> Scripts]
           /\ orphans' \in [Nodes -> Nat] /\ left' \in [Nodes -> SUBSET Leavings]
<1>1. LeftBy(cur[n]) \subseteq Leavings /\ LeftBy(fresh[n]) \subseteq Leavings
  BY LeftByType DEF TypeOK
<1>2. left' \in [Nodes -> SUBSET Leavings]
  BY <1>1 DEF TypeOK, Forget, TakeUp
<1> QED
  BY <1>2 DEF TypeOK, Forget, TakeUp, Strays, Scripts

LEMMA BeginSyncType ==
    ASSUME NEW recs, BeginSync(recs)
    PROVE  /\ phase' = "sync" /\ errs' \in BOOLEAN
           /\ step' \in [Nodes -> {"off", "todo", "started", "watch", "doubt"}]
<1>1. errs' \in BOOLEAN
  BY Zenon DEF BeginSync
<1> QED
  BY <1>1 DEF BeginSync

LEMMA BeginRestoreType ==
    ASSUME TypeOK, NEW ips, BeginRestore(ips)
    PROVE  /\ mem' \in [Nodes -> Record]
           /\ phase' \in {"sync", "launch"} /\ errs' \in BOOLEAN
           /\ step' \in [Nodes -> {"off", "todo", "started", "watch", "doubt"}]
<1>1. errs' \in BOOLEAN
  BY Zenon DEF BeginRestore, BeginSync
<1> QED
  BY <1>1 DEF TypeOK, BeginRestore, BeginSync

LEMMA InitType == Init => TypeOK
<1> SUFFICES ASSUME Init PROVE TypeOK
  OBVIOUS
<1>1. 1 \in DOMAIN Services
  BY PlanAssumption
<1>2. mem \in [Nodes -> Record] /\ disk \in [Nodes -> Record]
  BY RecordTypes DEF Init
<1>3. errs \in BOOLEAN
  BY Zenon DEF Init
<1>4. retry \in 0..RetryLimit /\ commands \in 0..MaxCommands
  BY BoundsAssumption DEF Init
<1> QED
  BY <1>1, <1>2, <1>3, <1>4 DEF Init, TypeOK, Scripts

LEMMA NextType == TypeOK /\ [Next]_vars => TypeOK'
<1> SUFFICES ASSUME TypeOK, [Next]_vars PROVE TypeOK'
  OBVIOUS
<1> USE BoundsAssumption
<1>1. ASSUME NEW n \in Nodes, PreRegister(n) PROVE TypeOK'
  BY <1>1, RecordTypes, SaveType, NowType DEF PreRegister, scripts, TypeOK
<1>2. ASSUME NEW n \in Nodes, PlanFailed(n) PROVE TypeOK'
  BY <1>2, NowType DEF PlanFailed, records, scripts, TypeOK
<1>3. ASSUME NEW n \in Nodes, LaunchFailed(n) PROVE TypeOK'
  BY <1>3, NowType DEF LaunchFailed, records, scripts, TypeOK
<1>4. ASSUME NEW n \in Nodes, ScriptStarts(n) PROVE TypeOK'
  BY <1>4, NowType DEF ScriptStarts, records, scripts, TypeOK, Scripts
<1>5. ASSUME NEW n \in Nodes, RecordStarted(n) PROVE TypeOK'
  <2>1. Started(n, TRUE) \in Record
    BY RecordTypes
  <2> QED
    BY <1>5, <2>1, SaveType, NowType, ScriptTypes DEF RecordStarted, TypeOK
<1>6. ASSUME NEW n \in Nodes, AnswerLost(n) PROVE TypeOK'
  BY <1>6, NowType, ScriptTypes DEF AnswerLost, records, TypeOK
<1>7. ASSUME NEW n \in Nodes, RestoreWithoutPid(n) PROVE TypeOK'
  <2>1. Started(n, FALSE) \in Record
    BY RecordTypes
  <2>2. /\ cur' \in [Nodes -> Scripts] /\ fresh' \in [Nodes -> Scripts]
        /\ orphans' \in [Nodes -> Nat]
    BY <1>7 DEF RestoreWithoutPid, TypeOK, Strays, Scripts
  <2>3. LeftBy(cur[n]) \subseteq Leavings /\ LeftBy(fresh[n]) \subseteq Leavings
    BY LeftByType DEF TypeOK
  <2>4. left' \in [Nodes -> SUBSET Leavings]
    BY <1>7, <2>3 DEF RestoreWithoutPid, TypeOK
  <2> QED
    BY <1>7, <2>1, <2>2, <2>4, SaveType, NowType DEF RestoreWithoutPid, TypeOK
<1>8. ASSUME NEW n \in Nodes, StillRunning(n) PROVE TypeOK'
  <2>1. "running" \in Statuses /\ mem[n] \in Record
    BY DEF Statuses, TypeOK
  <2> QED
    BY <1>8, <2>1, RecordTypes, SaveType DEF StillRunning, client, scripts, TypeOK
<1>9. ASSUME NEW n \in Nodes, Judge(n) PROVE TypeOK'
  <2>1. PICK verdict \in Verdicts(n) :
          Save(n, [mem[n] EXCEPT !.status = verdict]) /\ errs' = (errs \/ verdict = "failed")
    BY <1>9 DEF Judge
  <2>2. verdict \in Statuses /\ mem[n] \in Record
    BY DEF Statuses, TypeOK, Verdicts
  <2>3. errs' \in BOOLEAN
    BY <2>1, Zenon
  <2> QED
    BY <1>9, <2>1, <2>2, <2>3, RecordTypes, SaveType, NowType DEF Judge, scripts, TypeOK
<1>10. ASSUME NEW n \in Nodes, ScriptEnds(n) PROVE TypeOK'
  <2>1. \A end \in {"good", "bad"} : LeftBy(end) \subseteq Leavings /\ end \in Scripts
    BY LeftByType DEF Scripts
  <2>2. left' \in [Nodes -> SUBSET Leavings]
    BY <1>10, <2>1 DEF ScriptEnds, TypeOK
  <2> QED
    BY <1>10, <2>1, <2>2 DEF ScriptEnds, records, client, TypeOK
<1>11. CASE ServiceFailed
  BY <1>11 DEF ServiceFailed, records, scripts, TypeOK
<1>12. CASE PlanDone
  BY <1>12 DEF PlanDone, records, scripts, TypeOK
<1>13. CASE LaunchesDone
  <2>1. CASE errs /\ cmd = "deploy" /\ phase' = "list" /\ UNCHANGED <<cmd, svc, step, errs, outcome>>
    BY <1>13, <2>1 DEF LaunchesDone, records, scripts, TypeOK
  <2>2. CASE Return(TRUE) /\ UNCHANGED <<svc, step, errs>>
    BY <1>13, <2>2 DEF LaunchesDone, Return, records, scripts, TypeOK
  <2>3. CASE svc < Len(Services) /\ svc' = svc + 1 /\ BeginService(svc') /\ UNCHANGED <<cmd, outcome>>
    <3>1. svc' \in DOMAIN Services
      BY <2>3, PlanAssumption DEF TypeOK
    <3> QED
      BY <1>13, <2>3, <3>1 DEF LaunchesDone, BeginService, records, scripts, TypeOK
  <2>4. CASE BeginSync(mem) /\ UNCHANGED <<cmd, svc, outcome>>
    BY <1>13, <2>4, BeginSyncType DEF LaunchesDone, records, scripts, TypeOK
  <2> QED
    BY <1>13, <2>1, <2>2, <2>3, <2>4 DEF LaunchesDone
<1>14. CASE SyncDone
  BY <1>14 DEF SyncDone, Return, records, scripts, TypeOK
<1>15. CASE RetryAgain
  BY <1>15, BeginRestoreType DEF RetryAgain, scripts, TypeOK
<1>16. CASE RetryDone
  BY <1>16 DEF RetryDone, Return, records, scripts, TypeOK
<1>17. CASE SyncCommand
  BY <1>17, BeginSyncType DEF SyncCommand, Command, scripts, TypeOK
<1>18. CASE CommandRefused
  BY <1>18 DEF CommandRefused, Command, records, scripts, TypeOK
<1>19. ASSUME NEW ips \in SUBSET Nodes, RestoreCommand(ips) PROVE TypeOK'
  BY <1>19, BeginRestoreType DEF RestoreCommand, Command, scripts, TypeOK
<1>20. CASE Crash
  <2>1. errs' \in BOOLEAN
    BY <1>20, Zenon DEF Crash
  <2>2. orphans' \in [Nodes -> Nat] /\ fresh' \in [Nodes -> Scripts]
    BY <1>20 DEF Crash, Strays, TypeOK, Scripts
  <2>3. left' \in [Nodes -> SUBSET Leavings]
    <3>1. \A n \in Nodes : left[n] \cup LeftBy(fresh[n]) \subseteq Leavings
      BY LeftByType DEF TypeOK
    <3> QED
      BY <1>20, <3>1 DEF Crash
  <2> QED
    BY <1>20, <2>1, <2>2, <2>3 DEF Crash, TypeOK
<1>21. CASE UNCHANGED vars
  BY <1>21 DEF vars, records, client, scripts, TypeOK
<1>22. CASE Written
  <2>1. writing' \in BOOLEAN
    BY <1>22, Zenon DEF Written
  <2> QED
    BY <1>22, <2>1 DEF Written, client, scripts, TypeOK
<1> QED
  BY <1>1, <1>2, <1>3, <1>4, <1>5, <1>6, <1>7, <1>8, <1>9, <1>10, <1>11, <1>12, <1>13, <1>14,
     <1>15, <1>16, <1>17, <1>18, <1>19, <1>20, <1>21, <1>22
     DEF Next, NodeStep, PhaseStep, Operator

\* Every reachable state is well typed: in particular the retry loop counts at most
\* RetryLimit attempts, and Deployer.Run never leaves the plan of services.
THEOREM TypeCorrect == Spec => []TypeOK
<1> QED
  BY InitType, NextType, PTL DEF Spec
----------------------------------------------------------------------------
(* Records and steps: what the command has written agrees with how far it is. *)

\* The client's memory and its file are the same whenever no update is under way.
Steady == mem = disk

Phases ==
    /\ phase = "plan" => cmd = "deploy" /\ retry = 0
    /\ phase = "launch" => cmd \in {"deploy", "restore"}
    /\ phase = "list" => cmd = "deploy"

\* While Deployer.Run is at a service, nothing is recorded of the later ones.
PlansAhead ==
    ~Restoring /\ phase \in {"plan", "launch"}
    => \A i \in DOMAIN Services : i > svc => \A n \in Services[i] : disk[n].status = "absent"

PlanSteps ==
    phase = "plan" => \A n \in Nodes :
        /\ step[n] \in {"off", "todo"}
        /\ step[n] = "todo" => n \in Services[svc] /\ disk[n].status = "absent"
        /\ step[n] = "off" /\ n \in Services[svc] /\ ~errs => disk[n].status = "pending"

\* What is being launched is on file, and with which status.
LaunchSteps ==
    phase = "launch" => \A n \in Nodes : step[n] # "off" =>
        /\ disk[n].status # "absent"
        /\ ~Restoring => disk[n].status = "pending"
        /\ cmd = "deploy" /\ retry > 0 => disk[n].status = "failed"
        /\ ~Possible("byip") => disk[n].status \in {"pending", "failed"}

\* Only scripts with a PID are watched.
SyncSteps == phase = "sync" => \A n \in Nodes : step[n] # "off" => disk[n].pid

FreshSteps ==
    \A n \in Nodes : fresh[n] # "none" => phase = "launch" /\ step[n] = "started"

StepInv ==
    /\ Steady /\ Phases /\ PlansAhead /\ PlanSteps
    /\ LaunchSteps /\ SyncSteps /\ FreshSteps

\* An update changes one record, in memory and on file alike.
LEMMA SaveOne ==
    ASSUME TypeOK, Steady, NEW n \in Nodes, NEW record, Save(n, record)
    PROVE  /\ Steady' /\ disk'[n] = record
           /\ \A m \in Nodes : m # n => disk'[m] = disk[m]
BY DEF TypeOK, Steady, Save

LEMMA NowOne ==
    ASSUME TypeOK, NEW n \in Nodes, NEW next, Now(n, next)
    PROVE  step'[n] = next /\ \A m \in Nodes : m # n => step'[m] = step[m]
BY DEF TypeOK, Now

LEMMA BeginSyncSteps ==
    ASSUME BeginSync(disk)
    PROVE  phase' = "sync" /\ \A n \in Nodes : step'[n] # "off" => disk[n].pid
BY DEF BeginSync

\* A restore launches what is on file; without IPs only what failed or is planned.
LEMMA BeginRestoreSteps ==
    ASSUME NEW ips, BeginRestore(ips)
    PROVE  /\ mem' = disk /\ phase' \in {"sync", "launch"}
           /\ phase' = "sync" => \A n \in Nodes : step'[n] # "off" => disk[n].pid
           /\ phase' = "launch" => \A n \in Nodes : step'[n] # "off" =>
                /\ disk[n].status # "absent"
                /\ ips # {} => n \in ips
                /\ ips = {} => disk[n].status \in {"failed", "pending"}
BY BeginSyncSteps DEF BeginRestore, RestoreCandidates, BeginSync

LEMMA ServiceFacts ==
    /\ Len(Services) \in Nat /\ DOMAIN Services = 1..Len(Services)
    /\ \A i \in DOMAIN Services : Services[i] \subseteq Nodes
    /\ \A i, j \in DOMAIN Services, n \in Nodes :
          n \in Services[i] /\ n \in Services[j] => i = j
<1>1. \A i, j \in DOMAIN Services : i # j => Services[i] \cap Services[j] = {}
  BY PlanAssumption
<1> QED
  BY <1>1, PlanAssumption

\* Nothing becomes planned ahead while no record of a later service is touched.
LEMMA AheadKept ==
    ASSUME PlansAhead, ~Restoring, phase \in {"plan", "launch"}, UNCHANGED svc,
           NEW n \in Nodes, \A m \in Nodes : m # n => disk'[m] = disk[m],
           \A i \in DOMAIN Services : i > svc => n \notin Services[i]
    PROVE  PlansAhead'
<1> SUFFICES ASSUME NEW i \in DOMAIN Services, i > svc, NEW m \in Services[i]
             PROVE  disk'[m].status = "absent"
  BY DEF PlansAhead
<1>1. m \in Nodes /\ m # n
  BY ServiceFacts
<1> QED
  BY <1>1 DEF PlansAhead

LEMMA InitStepInv == Init => StepInv
BY PlanAssumption DEF Init, StepInv, Steady, Phases, PlansAhead, PlanSteps, LaunchSteps,
                      SyncSteps, FreshSteps, Absent, Restoring

LEMMA NextStepInv == TypeOK /\ StepInv /\ [Next]_vars => StepInv'
<1> SUFFICES ASSUME TypeOK, StepInv, [Next]_vars PROVE StepInv'
  OBVIOUS
<1> USE DEF StepInv, Phases, PlanSteps, LaunchSteps, SyncSteps, FreshSteps, Restoring, Possible
<1>1. ASSUME NEW n \in Nodes, PreRegister(n) PROVE StepInv'
  <2>1. Steady' /\ disk'[n] = Pending /\ \A m \in Nodes : m # n => disk'[m] = disk[m]
    BY <1>1, SaveOne DEF PreRegister
  <2>2. step'[n] = "off" /\ \A m \in Nodes : m # n => step'[m] = step[m]
    BY <1>1, NowOne DEF PreRegister
  <2>3. phase = "plan" /\ n \in Services[svc]
    BY <1>1 DEF PreRegister, At
  <2>4. \A i \in DOMAIN Services : i > svc => n \notin Services[i]
    BY <2>3, ServiceFacts DEF TypeOK
  <2>5. PlansAhead'
    BY <1>1, <2>1, <2>3, <2>4, AheadKept, BoundsAssumption DEF PreRegister, TypeOK
  <2> QED
    BY <1>1, <2>1, <2>2, <2>3, <2>5 DEF PreRegister, scripts, Pending
<1>2. ASSUME NEW n \in Nodes, PlanFailed(n) PROVE StepInv'
  BY <1>2, NowOne DEF PlanFailed, At, records, scripts, Steady, PlansAhead
<1>3. ASSUME NEW n \in Nodes, LaunchFailed(n) PROVE StepInv'
  BY <1>3, NowOne DEF LaunchFailed, At, records, scripts, Steady, PlansAhead
<1>4. ASSUME NEW n \in Nodes, ScriptStarts(n) PROVE StepInv'
  BY <1>4, NowOne DEF ScriptStarts, At, records, scripts, Steady, PlansAhead, TypeOK
<1>5. ASSUME NEW n \in Nodes, NEW hasPid \in BOOLEAN, At(n, "launch", "started"),
             Now(n, "off"), Save(n, Started(n, hasPid)), fresh' = [fresh EXCEPT ![n] = "none"],
             UNCHANGED <<env, cmd, phase, svc, retry, errs>>
      PROVE  StepInv'
  <2>1. Steady' /\ \A m \in Nodes : m # n => disk'[m] = disk[m]
    BY <1>5, SaveOne
  <2>2. step'[n] = "off" /\ \A m \in Nodes : m # n => step'[m] = step[m]
    BY <1>5, NowOne
  <2>3. PlansAhead'
    <3>1. phase = "launch" /\ disk[n].status # "absent"
      BY <1>5 DEF At
    <3>2. CASE Restoring
      BY <1>5, <3>2 DEF PlansAhead
    <3>3. CASE ~Restoring
      <4>1. \A i \in DOMAIN Services : i > svc => n \notin Services[i]
        BY <3>1, <3>3 DEF PlansAhead
      <4> QED
        BY <1>5, <2>1, <3>1, <3>3, <4>1, AheadKept
    <3> QED
      BY <3>2, <3>3
  <2> QED
    BY <1>5, <2>1, <2>2, <2>3 DEF At, TypeOK
<1>6. ASSUME NEW n \in Nodes, AnswerLost(n) PROVE StepInv'
  BY <1>6, NowOne DEF AnswerLost, Forget, At, records, Steady, PlansAhead, TypeOK
<1>7. ASSUME NEW n \in Nodes, NEW status, phase = "sync",
             Save(n, [mem[n] EXCEPT !.status = status]),
             step' = step \/ Now(n, "off"),
             UNCHANGED <<env, cmd, phase, svc, retry, scripts>>
      PROVE  StepInv'
  <2>1. /\ Steady' /\ disk'[n].pid = disk[n].pid
        /\ \A m \in Nodes : m # n => disk'[m] = disk[m]
    BY <1>7, SaveOne DEF Steady, TypeOK, Record
  <2>2. \A m \in Nodes : step'[m] # "off" => step[m] # "off"
    BY <1>7, NowOne
  <2> QED
    BY <1>7, <2>1, <2>2 DEF scripts, PlansAhead
<1>8. ASSUME NEW n \in Nodes, ScriptEnds(n) PROVE StepInv'
  BY <1>8 DEF ScriptEnds, records, client, Steady, PlansAhead, TypeOK
<1>9. CASE ServiceFailed
  BY <1>9 DEF ServiceFailed, records, scripts, Steady, PlansAhead
<1>10. CASE PlanDone
  BY <1>10 DEF PlanDone, Idle, records, scripts, Steady, PlansAhead, TypeOK
<1>11. CASE LaunchesDone
  <2>1. \A n \in Nodes : fresh[n] = "none" /\ fresh'[n] = "none"
    BY <1>11 DEF LaunchesDone, Idle, scripts
  <2>2. CASE /\ ~Restoring /\ svc < Len(Services)
              /\ svc' = svc + 1 /\ BeginService(svc') /\ UNCHANGED <<cmd, outcome>>
    <3>3. /\ svc' \in DOMAIN Services /\ svc' > svc
          /\ \A i \in DOMAIN Services : i > svc' => i > svc
      BY <2>2, ServiceFacts DEF TypeOK
    <3>1. PlanSteps'
      <4>1. \A n \in Services[svc'] : disk[n].status = "absent"
        BY <1>11, <2>2, <3>3 DEF LaunchesDone, PlansAhead
      <4> QED
        BY <1>11, <2>2, <4>1 DEF LaunchesDone, BeginService, records
    <3>2. PlansAhead'
      BY <1>11, <2>2, <3>3 DEF LaunchesDone, BeginService, PlansAhead, records
    <3> QED
      BY <1>11, <2>1, <2>2, <3>1, <3>2 DEF LaunchesDone, BeginService, records, Steady, TypeOK
  <2>3. CASE BeginSync(mem) /\ UNCHANGED <<cmd, svc, outcome>>
    BY <1>11, <2>1, <2>3, BeginSyncSteps DEF LaunchesDone, PlansAhead, records, Steady
  <2>4. CASE phase' \in {"list", "idle"} /\ (phase' = "list" => cmd' = "deploy")
    BY <1>11, <2>1, <2>4 DEF LaunchesDone, PlansAhead, records, Steady
  <2> QED
    BY <1>11, <2>2, <2>3, <2>4 DEF LaunchesDone, Return
<1>12. CASE SyncDone
  BY <1>12 DEF SyncDone, Return, records, scripts, Steady, PlansAhead
<1>13. CASE RetryAgain
  <2>1. /\ mem' = disk /\ phase' \in {"sync", "launch"}
        /\ phase' = "sync" => \A n \in Nodes : step'[n] # "off" => disk[n].pid
        /\ phase' = "launch" => \A n \in Nodes : step'[n] # "off" => disk[n].status = "failed"
    BY <1>13, BeginRestoreSteps DEF RetryAgain, FailedOnDisk
  <2>2. UNCHANGED <<env, disk, cmd, svc, fresh>> /\ phase = "list" /\ retry' > 0
    BY <1>13, BoundsAssumption DEF RetryAgain, scripts, TypeOK
  <2> QED
    BY <2>1, <2>2 DEF Steady, PlansAhead
<1>14. CASE RetryDone
  BY <1>14 DEF RetryDone, Return, records, scripts, Steady, PlansAhead
<1>15. CASE SyncCommand
  BY <1>15, BeginSyncSteps DEF SyncCommand, Command, scripts, Steady, PlansAhead
<1>16. CASE CommandRefused
  BY <1>16 DEF CommandRefused, Command, records, scripts, Steady, PlansAhead
<1>17. ASSUME NEW ips \in SUBSET Nodes, RestoreCommand(ips) PROVE StepInv'
  BY <1>17, BeginRestoreSteps DEF RestoreCommand, Command, scripts, Steady, PlansAhead, TypeOK
<1>18. CASE Crash
  BY <1>18 DEF Crash, Steady, PlansAhead
<1>19. CASE UNCHANGED vars
  BY <1>19 DEF vars, records, client, scripts, Steady, PlansAhead
<1>20. ASSUME NEW n \in Nodes, NodeStep(n) PROVE StepInv'
  <2>1. ASSUME RecordStarted(n) PROVE StepInv'
    BY <1>5, <2>1 DEF RecordStarted, TakeUp
  <2>2. ASSUME RestoreWithoutPid(n) PROVE StepInv'
    BY <1>5, <2>2 DEF RestoreWithoutPid
  <2>3. ASSUME StillRunning(n) PROVE StepInv'
    BY <1>7, <2>3 DEF StillRunning, client
  <2>4. ASSUME Judge(n) PROVE StepInv'
    BY <1>7, <2>4 DEF Judge
  <2> QED
    BY <1>1, <1>2, <1>3, <1>4, <1>6, <1>20, <2>1, <2>2, <2>3, <2>4 DEF NodeStep
<1>21. CASE Written
  BY <1>21 DEF Written, client, scripts, Steady, PlansAhead
<1> QED
  BY <1>8, <1>9, <1>10, <1>11, <1>12, <1>13, <1>14, <1>15, <1>16, <1>17, <1>18, <1>19, <1>20,
     <1>21
     DEF Next, PhaseStep, Operator
----------------------------------------------------------------------------
(* Scripts: what is on file agrees with what runs on the hosts. *)

\* Where no answer is lost and no client killed, no script of an absent or pending
\* record has been started, but one just starting.
Unstarted ==
    ~Possible("crash") /\ ~Possible("answer")
    => \A n \in Nodes :
          disk[n].status \in {"absent", "pending"} => cur[n] = "none" /\ orphans[n] = 0

\* What is started is on file, or in the contents being written to it.
OnFile == \A n \in Nodes : Live(n) > 0 => disk[n].status # "absent"

\* A success has a PID, and a marker on the host that earned it.
Earned ==
    \A n \in Nodes : disk[n].status = "success" =>
        disk[n].pid /\ (cur[n] = "good" \/ "ok" \in left[n])

\* Where nothing fails but steps before a start, and no CDK script finds the mark of an
\* earlier attempt, no script is lost from sight, other scripts have left nothing but
\* failure markers, and failed means that the script ended badly.
Calmly ==
    env \subseteq {"setup"}
    => \A n \in Nodes : Untangled(n) =>
          orphans[n] = 0 /\ left[n] \subseteq {"bad"} /\ (disk[n].status = "failed" => cur[n] = "bad")

ScriptInv == OnFile /\ Earned /\ Unstarted /\ Calmly

IInv == TypeOK /\ StepInv /\ ScriptInv

\* The actions that touch the file or the scripts.
LEMMA Touches ==
    ASSUME [Next]_vars
    PROVE  \/ UNCHANGED <<env, disk, scripts>>
           \/ Crash
           \/ \E n \in Nodes :
                \/ PreRegister(n) \/ ScriptStarts(n) \/ RecordStarted(n) \/ AnswerLost(n)
                \/ RestoreWithoutPid(n) \/ StillRunning(n) \/ Judge(n) \/ ScriptEnds(n)
<1>1. CASE PhaseStep
  BY <1>1 DEF PhaseStep, ServiceFailed, PlanDone, LaunchesDone, SyncDone, RetryAgain,
              RetryDone, Written, records
<1>2. CASE Operator
  BY <1>2 DEF Operator, SyncCommand, CommandRefused, RestoreCommand, records
<1>3. ASSUME NEW n \in Nodes, PlanFailed(n) \/ LaunchFailed(n)
      PROVE  UNCHANGED <<env, disk, scripts>>
  BY <1>3 DEF PlanFailed, LaunchFailed, records
<1>4. CASE UNCHANGED vars
  BY <1>4 DEF vars, records
<1> QED
  BY <1>1, <1>2, <1>3, <1>4 DEF Next, NodeStep

LEMMA InitScriptInv == Init => ScriptInv
BY DEF Init, ScriptInv, OnFile, Earned, Unstarted, Calmly, Live, Strays, Absent

\* The end of a script leaves the others alone, and none more.
LEMMA EndsLess ==
    ASSUME TypeOK, NEW n \in Nodes, ScriptEnds(n)
    PROVE  \A m \in Nodes :
             /\ Live(m)' > 0 => Live(m) > 0
             /\ orphans[m] = 0 => orphans'[m] = 0 /\ left'[m] = left[m]
             /\ cur[m] # "live" => cur'[m] = cur[m]
             /\ left[m] \subseteq left'[m]
<1> TAKE m \in Nodes
<1>1. orphans[m] \in Nat /\ orphans[n] \in Nat
  BY DEF TypeOK
<1>2. CASE cur[n] = "live" /\ UNCHANGED <<fresh, orphans, left>> /\ \E end \in {"good", "bad"} :
             cur' = [cur EXCEPT ![n] = end]
  BY <1>1, <1>2 DEF Live, Strays, TypeOK
<1>3. CASE fresh[n] = "live" /\ UNCHANGED <<cur, orphans, left>> /\ \E end \in {"good", "bad"} :
             fresh' = [fresh EXCEPT ![n] = end]
  BY <1>1, <1>3 DEF Live, Strays, TypeOK
<1>4. CASE /\ orphans[n] > 0 /\ orphans' = [orphans EXCEPT ![n] = @ - 1] /\ UNCHANGED <<cur, fresh>>
           /\ \E end \in {"good", "bad"} : left' = [left EXCEPT ![n] = @ \cup LeftBy(end)]
  BY <1>1, <1>4 DEF Live, Strays, TypeOK
<1> QED
  BY <1>2, <1>3, <1>4 DEF ScriptEnds

\* The marks that scripts leave stay.
LEMMA LeftStays ==
    ASSUME TypeOK, [Next]_vars
    PROVE  \A n \in Nodes : left[n] \subseteq left'[n] /\ (Untangled(n)' => Untangled(n))
<1>1. \A n \in Nodes : left[n] \subseteq left'[n]
  <2>1. CASE UNCHANGED <<env, disk, scripts>>
    BY <2>1 DEF scripts
  <2>2. CASE Crash
    BY <2>2 DEF Crash
  <2>3. ASSUME NEW n \in Nodes, \/ PreRegister(n) \/ ScriptStarts(n) \/ StillRunning(n) \/ Judge(n)
        PROVE  left' = left
    BY <2>3 DEF PreRegister, ScriptStarts, StillRunning, Judge, scripts
  <2>4. ASSUME NEW n \in Nodes, RecordStarted(n) \/ AnswerLost(n) \/ RestoreWithoutPid(n)
        PROVE  \A m \in Nodes : left[m] \subseteq left'[m]
    <3>1. CASE RecordStarted(n)
      BY <3>1 DEF RecordStarted, TakeUp, TypeOK
    <3>2. CASE AnswerLost(n)
      BY <3>2 DEF AnswerLost, Forget, TypeOK
    <3>3. CASE RestoreWithoutPid(n)
      BY <3>3 DEF RestoreWithoutPid, TypeOK
    <3> QED
      BY <2>4, <3>1, <3>2, <3>3
  <2>5. ASSUME NEW n \in Nodes, ScriptEnds(n) PROVE \A m \in Nodes : left[m] \subseteq left'[m]
    BY <2>5, EndsLess
  <2> QED
    BY <2>1, <2>2, <2>3, <2>4, <2>5, Touches
<1> QED
  BY <1>1 DEF Untangled

LEMMA NextScriptInv == IInv /\ [Next]_vars => ScriptInv'
<1> SUFFICES ASSUME IInv, [Next]_vars PROVE ScriptInv'
  OBVIOUS
<1> USE DEF IInv, ScriptInv, OnFile, Earned, Unstarted, Calmly, Live, Possible
<1>0. \A n \in Nodes : left[n] \subseteq left'[n] /\ (Untangled(n)' => Untangled(n))
  BY LeftStays
<1>1. CASE UNCHANGED <<env, disk, scripts>>
  BY <1>0, <1>1 DEF scripts
<1>2. CASE Crash
  BY <1>0, <1>2 DEF Crash, Strays, TypeOK
<1>3. ASSUME NEW n \in Nodes, PreRegister(n) PROVE ScriptInv'
  <2>1. disk'[n] = Pending /\ \A m \in Nodes : m # n => disk'[m] = disk[m]
    BY <1>3, SaveOne DEF PreRegister, StepInv
  <2>2. disk[n].status = "absent"
    BY <1>3 DEF PreRegister, At, StepInv, PlanSteps
  <2> QED
    BY <1>0, <1>3, <2>1, <2>2 DEF PreRegister, scripts, Pending
<1>4. ASSUME NEW n \in Nodes, ScriptStarts(n) PROVE ScriptInv'
  <2>1. disk[n].status # "absent"
    BY <1>4 DEF ScriptStarts, At, StepInv, LaunchSteps
  <2> QED
    BY <1>0, <1>4, <2>1 DEF ScriptStarts, records, TypeOK
<1>5. ASSUME NEW n \in Nodes, RecordStarted(n) PROVE ScriptInv'
  <2>1. disk'[n].status = "running" /\ \A m \in Nodes : m # n => disk'[m] = disk[m]
    BY <1>5, SaveOne DEF RecordStarted, Started, StepInv
  <2>2. /\ \A m \in Nodes : m # n => /\ cur'[m] = cur[m] /\ fresh'[m] = fresh[m]
                                     /\ orphans'[m] = orphans[m] /\ left'[m] = left[m]
        /\ orphans'[n] = orphans[n] + Strays(cur[n])
        /\ left'[n] = left[n] \cup LeftBy(cur[n])
    BY <1>5 DEF RecordStarted, TakeUp, TypeOK
  <2>3. OnFile' /\ Earned' /\ Unstarted'
    BY <1>5, <2>1, <2>2 DEF RecordStarted
  <2>4. env \subseteq {"setup"} => disk[n].status \in {"pending", "failed"}
    BY <1>5 DEF RecordStarted, At, StepInv, LaunchSteps
  <2>5. env \subseteq {"setup"} /\ Untangled(n)' => orphans'[n] = 0 /\ left'[n] \subseteq {"bad"}
    <3>1. env \subseteq {"setup"} /\ Untangled(n)' => cur[n] \in {"none", "bad"}
      BY <1>0, <2>4
    <3> QED
      BY <1>0, <2>2, <3>1 DEF Strays, LeftBy
  <2>6. Calmly'
    <3>1. env' = env
      BY <1>5 DEF RecordStarted
    <3>2. \A m \in Nodes : m # n /\ Untangled(m)' => Untangled(m)
      BY <1>0
    <3> QED
      BY <2>1, <2>2, <2>5, <3>1, <3>2
  <2> QED
    BY <2>3, <2>6
<1>6. ASSUME NEW n \in Nodes, AnswerLost(n) PROVE ScriptInv'
  <2>1. Unstarted' /\ Calmly'
    BY <1>6 DEF AnswerLost
  <2>2. UNCHANGED <<disk, cur>>
    BY <1>6 DEF AnswerLost, Forget, records
  <2>3. \A m \in Nodes : Live(m)' > 0 => Live(m) > 0
    BY <1>6 DEF AnswerLost, Forget, Strays, TypeOK
  <2> QED
    BY <1>0, <2>1, <2>2, <2>3
<1>7. ASSUME NEW n \in Nodes, RestoreWithoutPid(n) PROVE ScriptInv'
  <2>1. disk'[n].status = "running" /\ \A m \in Nodes : m # n => disk'[m] = disk[m]
    BY <1>7, SaveOne DEF RestoreWithoutPid, Started, StepInv
  <2>2. \A m \in Nodes : m # n => /\ cur'[m] = cur[m] /\ fresh'[m] = fresh[m]
                                  /\ orphans'[m] = orphans[m] /\ left'[m] = left[m]
    BY <1>7 DEF RestoreWithoutPid, TypeOK
  <2> QED
    BY <1>7, <2>1, <2>2 DEF RestoreWithoutPid
<1>8. ASSUME NEW n \in Nodes, StillRunning(n) PROVE ScriptInv'
  <2>1. disk'[n].status = "running" /\ \A m \in Nodes : m # n => disk'[m] = disk[m]
    BY <1>8, SaveOne DEF StillRunning, StepInv, TypeOK, Record
  <2> QED
    BY <1>0, <1>8, <2>1 DEF StillRunning, scripts
<1>9. ASSUME NEW n \in Nodes, Judge(n) PROVE ScriptInv'
  <2>1. PICK verdict \in Verdicts(n) : Save(n, [mem[n] EXCEPT !.status = verdict])
    BY <1>9 DEF Judge
  <2>2. /\ disk'[n] = [mem[n] EXCEPT !.status = verdict]
        /\ \A m \in Nodes : m # n => disk'[m] = disk[m]
    BY <2>1, SaveOne DEF StepInv
  <2>3. mem[n] \in Record /\ mem[n] = disk[n]
    BY DEF StepInv, Steady, TypeOK
  <2>4. disk'[n].status = verdict /\ disk'[n].pid = disk[n].pid
    BY <2>2, <2>3 DEF Record
  <2>5. disk[n].pid
    BY <1>9 DEF Judge, StepInv, SyncSteps
  <2>6. /\ verdict \in {"success", "failed", "unknown"}
        /\ verdict = "success" => cur[n] = "good" \/ "ok" \in left[n]
        /\ verdict = "failed" /\ ~Possible("jitter") /\ Untangled(n) /\ left[n] \subseteq {"bad"}
           => cur[n] = "bad"
    BY DEF Verdicts, ShowsSuccess, ShowsOldFailure, EndHidden, Untangled
  <2>7. UNCHANGED <<env, cur, fresh, orphans, left>>
    BY <1>9 DEF Judge, scripts
  <2>8. disk'[n].status \notin {"absent", "pending"}
    BY <2>4, <2>6
  <2>9. OnFile'
    BY <2>2, <2>7, <2>8
  <2>10. Earned'
    <3>1. disk'[n].status = "success" => disk'[n].pid /\ (cur'[n] = "good" \/ "ok" \in left'[n])
      BY <2>4, <2>5, <2>6, <2>7
    <3> QED
      BY <2>2, <2>7, <3>1
  <2>11. Unstarted'
    BY <2>2, <2>7, <2>8
  <2>12. env \subseteq {"setup"} /\ Untangled(n) /\ disk'[n].status = "failed" => cur[n] = "bad"
    BY <2>4, <2>6
  <2>13. Calmly'
    BY <1>0, <2>2, <2>7, <2>12
  <2> QED
    BY <2>9, <2>10, <2>11, <2>13
<1>10. ASSUME NEW n \in Nodes, ScriptEnds(n) PROVE ScriptInv'
  <2>1. UNCHANGED <<env, disk>>
    BY <1>10 DEF ScriptEnds, records
  <2>2. OnFile'
    BY <1>10, <2>1, EndsLess
  <2>3. Earned' /\ Unstarted'
    BY <1>0, <1>10, <2>1, EndsLess
  <2>4. Calmly'
    BY <1>0, <1>10, <2>1, EndsLess
  <2> QED
    BY <2>2, <2>3, <2>4
<1> QED
  BY <1>1, <1>2, <1>3, <1>4, <1>5, <1>6, <1>7, <1>8, <1>9, <1>10, Touches

LEMMA Invariance == Spec => []IInv
<1>1. Init => IInv
  BY InitType, InitStepInv, InitScriptInv DEF IInv
<1>2. IInv /\ [Next]_vars => IInv'
  BY NextType, NextStepInv, NextScriptInv DEF IInv
<1> QED
  BY <1>1, <1>2, PTL DEF Spec
----------------------------------------------------------------------------
(* The theorems. *)

\* Whatever runs on a host is on file, wherever the client is killed but inside a
\* rewrite of the file, and whatever is lost: runService writes the plan before it
\* starts anything.
THEOREM AlwaysWrittenAhead == Spec => []WriteAhead
<1>1. IInv => WriteAhead
  BY DEF IInv, ScriptInv, OnFile, WriteAhead
<1> QED
  BY <1>1, Invariance, PTL

\* A success on file has a PID and a marker that earned it; where only steps before a
\* start fail, it is the marker of the script the PID names.
THEOREM SuccessAlwaysEarned == Spec => []SuccessEarned
<1>1. IInv => SuccessEarned
  BY DEF IInv, ScriptInv, Earned, Calmly, SuccessEarned
<1> QED
  BY <1>1, Invariance, PTL

\* Unless answers are lost or the client is killed, pending means not started.
THEOREM PendingNeverStarted == Spec => []PendingNotStarted
<1>1. IInv => PendingNotStarted
  BY DEF IInv, ScriptInv, StepInv, FreshSteps, Unstarted, PendingNotStarted, Live, Strays
<1> QED
  BY <1>1, Invariance, PTL

\* When only steps before a start fail, no retry, `sync' or `deploy-restore' puts
\* a second live script on a host, unless an earlier CDK attempt's mark misleads it.
THEOREM NeverDoubleScript == Spec => []NoDoubleScript
<1>1. ASSUME IInv, env \subseteq {"setup"}, NEW n \in Nodes, Untangled(n) PROVE Live(n) <= 1
  <2>1. orphans[n] = 0
    BY <1>1 DEF IInv, ScriptInv, Calmly
  <2>2. fresh[n] = "live" => disk[n].status \in {"pending", "failed"}
    BY <1>1 DEF IInv, StepInv, FreshSteps, LaunchSteps, Possible
  <2>3. fresh[n] = "live" => cur[n] # "live"
    BY <1>1, <2>2 DEF IInv, ScriptInv, Calmly, Unstarted, Possible
  <2> QED
    BY <2>1, <2>3 DEF Live, Strays
<1>2. IInv => NoDoubleScript
  BY <1>1 DEF NoDoubleScript
<1> QED
  BY <1>2, Invariance, PTL

\* The retry loop starts nothing but failed scripts.
THEOREM OnlyFailedEverRetried == Spec => OnlyFailedRetried
<1>1. ASSUME IInv, [Next]_vars, NEW n \in Nodes, Starts(n), cmd = "deploy", retry > 0
      PROVE  disk[n].status = "failed"
  <2>1. PICK m \in Nodes : ScriptStarts(m) \/ RecordStarted(m) \/ RestoreWithoutPid(m)
                              \/ AnswerLost(m) \/ ScriptEnds(m)
    BY <1>1, Touches
       DEF Starts, scripts, Crash, PreRegister, StillRunning, Judge
  <2>2. ScriptStarts(n)
    BY <1>1, <2>1 DEF Starts, ScriptStarts, RecordStarted, RestoreWithoutPid, AnswerLost,
                      ScriptEnds, Forget, TakeUp, IInv, TypeOK
  <2> QED
    BY <1>1, <2>2 DEF ScriptStarts, At, IInv, StepInv, LaunchSteps
<1>2. IInv /\ [Next]_vars
      => [\A n \in Nodes :
            Starts(n) /\ cmd = "deploy" /\ retry > 0 => disk[n].status = "failed"]_vars
  BY <1>1
<1> QED
  BY <1>2, Invariance, PTL DEF Spec, OnlyFailedRetried
----------------------------------------------------------------------------
(* What DeployRecovery returns, in every environment without lost answers: nil means that *)
(* all is settled.                                                                        *)

Open == {"absent", "pending"}

HasPid == \A n \in Nodes : disk[n].status \in {"running", "unknown"} => disk[n].pid

\* The first round: services before svc are launched, and nothing has failed yet.
FirstRound ==
    cmd = "deploy" /\ retry = 0 /\ phase \in {"plan", "launch"} =>
        /\ FailedOnDisk = {}
        /\ \A i \in DOMAIN Services : i < svc =>
             \A n \in Services[i] : disk[n].status \notin Open
        /\ phase = "launch" /\ ~errs =>
             \A n \in Services[svc] : step[n] = "off" => disk[n].status \notin Open

\* Whatever is synchronised or retried has been launched, in every service.
AllLaunched ==
    /\ cmd = "deploy" /\ (retry > 0 \/ phase = "sync")
       => \A n \in Nodes : disk[n].status \notin Open
    /\ phase = "list" /\ FailedOnDisk # {} => \A n \in Nodes : disk[n].status \notin Open

\* A restart that was not made leaves its record failed.
StillFailed ==
    cmd = "deploy" /\ retry > 0 /\ phase = "launch" /\ errs
    => \E n \in Nodes : step[n] = "off" /\ disk[n].status = "failed"

Judged ==
    phase = "sync" /\ cmd = "deploy"
    => \A n \in Nodes : step[n] = "off" => disk[n].status \in {"success", "failed", "unknown"}

ListHonest ==
    phase = "list" => \/ retry = 0 /\ errs
                      \/ FailedOnDisk # {}
                      \/ \A n \in Nodes : disk[n].status \in {"success", "unknown"}

\* The same for `deploy-restore' without IPs.
RestoreHonest ==
    cmd = "restore" /\ ~Possible("byip") /\ ~errs => \A n \in Nodes : step[n] = "off" =>
        /\ phase = "launch" => disk[n].status \notin {"failed", "pending"}
        /\ phase = "sync" => disk[n].status \in {"absent", "success", "unknown"}

DoubtIsCdk == \A n \in Nodes : disk[n].status = "unknown" => n \in Cdk

SettleInv ==
    /\ DoubtIsCdk
    /\ ~Possible("answer") =>
         /\ HasPid /\ FirstRound /\ AllLaunched /\ StillFailed
         /\ Judged /\ ListHonest /\ RestoreHonest

ResultInv == IInv /\ SettleInv

LEMMA InitSettle == Init => SettleInv
<1> SUFFICES ASSUME Init PROVE SettleInv
  OBVIOUS
<1>1. /\ \A n \in Nodes : disk[n].status = "absent"
      /\ svc = 1 /\ retry = 0 /\ phase = "plan" /\ cmd = "deploy"
  BY DEF Init, Absent
<1>2. DoubtIsCdk /\ HasPid /\ AllLaunched /\ StillFailed /\ Judged /\ ListHonest /\ RestoreHonest
  BY <1>1 DEF DoubtIsCdk, HasPid, AllLaunched, StillFailed, Judged, ListHonest, RestoreHonest
<1>3. FirstRound
  BY <1>1, ServiceFacts DEF FirstRound, FailedOnDisk
<1> QED
  BY <1>2, <1>3 DEF SettleInv

LEMMA StatusType ==
    ASSUME TypeOK
    PROVE  /\ retry \in Nat /\ svc \in Nat
           /\ \A n \in Nodes : disk[n].status \in Statuses \cup {"absent"}
BY ServiceFacts, BoundsAssumption DEF TypeOK, Record

\* What is not watched is settled one way or the other, if PIDs are known.
LEMMA Unwatched ==
    ASSUME HasPid, BeginSync(disk), NEW n \in Nodes, step'[n] = "off"
    PROVE  disk[n].status \notin {"running", "unknown"}
BY DEF HasPid, BeginSync, ShouldMonitorSyncStatus

\* What a goroutine's step for n leaves of the other nodes.
LEMMA Others ==
    ASSUME TypeOK, Steady, NEW n \in Nodes, NEW record, Save(n, record), Now(n, "off")
    PROVE  /\ disk'[n] = record /\ step'[n] = "off"
           /\ \A m \in Nodes : m # n => disk'[m] = disk[m] /\ step'[m] = step[m]
BY SaveOne, NowOne

LEMMA NextSettle == ResultInv /\ [Next]_vars => SettleInv'
<1> SUFFICES ASSUME TypeOK, StepInv, SettleInv, [Next]_vars PROVE SettleInv'
  BY DEF ResultInv, IInv
<1> USE DEF SettleInv, DoubtIsCdk, HasPid, FirstRound, AllLaunched, StillFailed, Judged,
            ListHonest, RestoreHonest, FailedOnDisk, Open, Possible
<1>1. ASSUME NEW n \in Nodes, PreRegister(n) PROVE SettleInv'
  <2>1. /\ disk'[n] = Pending /\ step'[n] = "off"
        /\ \A m \in Nodes : m # n => disk'[m] = disk[m] /\ step'[m] = step[m]
    BY <1>1, Others DEF PreRegister, StepInv
  <2>2. phase = "plan" /\ cmd = "deploy" /\ retry = 0 /\ n \in Services[svc]
    BY <1>1 DEF PreRegister, At, StepInv, Phases, PlanSteps
  <2>3. \A i \in DOMAIN Services : i < svc => n \notin Services[i] /\ Services[i] \subseteq Nodes
    BY <2>2, ServiceFacts DEF TypeOK
  <2> QED
    BY <1>1, <2>1, <2>2, <2>3 DEF PreRegister, Pending
<1>2. ASSUME NEW n \in Nodes, PlanFailed(n) PROVE SettleInv'
  BY <1>2 DEF PlanFailed, At, records, StepInv, Phases
<1>3. ASSUME NEW n \in Nodes, LaunchFailed(n) PROVE SettleInv'
  <2>1. step'[n] = "off" /\ errs' /\ phase = "launch" /\ step[n] # "off"
    BY <1>3, NowOne DEF LaunchFailed, At
  <2>2. cmd = "deploy" /\ retry > 0 => disk[n].status = "failed"
    BY <2>1 DEF StepInv, LaunchSteps
  <2> QED
    BY <1>3, <2>1, <2>2 DEF LaunchFailed, records
<1>4. ASSUME NEW n \in Nodes, ScriptStarts(n) PROVE SettleInv'
  <2>1. \A m \in Nodes : step'[m] = "off" <=> step[m] = "off"
    BY <1>4, NowOne DEF ScriptStarts, At
  <2> QED
    BY <1>4, <2>1, ServiceFacts DEF ScriptStarts, records, TypeOK
<1>5. ASSUME NEW n \in Nodes, RecordStarted(n) PROVE SettleInv'
  <2>1. /\ disk'[n] = Started(n, TRUE) /\ step'[n] = "off"
        /\ \A m \in Nodes : m # n => disk'[m] = disk[m] /\ step'[m] = step[m]
    BY <1>5, Others DEF RecordStarted, StepInv
  <2>2. disk'[n].status = "running" /\ disk'[n].pid
    BY <2>1 DEF Started
  <2>3. phase = "launch" /\ step[n] = "started"
    BY <1>5 DEF RecordStarted, At
  <2>4. UNCHANGED <<env, cmd, phase, svc, retry, errs>>
    BY <1>5 DEF RecordStarted
  <2>5. DoubtIsCdk'
    BY <2>1, <2>2
  <2>6. HasPid => HasPid'
    BY <2>1, <2>2
  <2>7. AllLaunched => AllLaunched'
    BY <2>1, <2>2, <2>3, <2>4
  <2>8. FirstRound => FirstRound'
    <3>1. FailedOnDisk = {} => FailedOnDisk' = {}
      BY <2>1, <2>2
    <3>2. \A m \in Nodes : disk[m].status \notin Open => disk'[m].status \notin Open
      BY <2>1, <2>2
    <3>3. /\ svc \in DOMAIN Services
          /\ \A i \in DOMAIN Services : \A m \in Services[i] : m \in Nodes
      BY ServiceFacts DEF TypeOK
    <3>4. \A m \in Nodes : step'[m] = "off" => m = n \/ step[m] = "off"
      BY <2>1
    <3> HIDE DEF FailedOnDisk, Open
    <3>5. disk'[n].status \notin Open
      BY <2>2 DEF Open
    <3> QED
      BY <2>4, <3>1, <3>2, <3>3, <3>4, <3>5
  <2>9. (StillFailed => StillFailed') /\ Judged' /\ ListHonest'
    BY <2>1, <2>2, <2>3, <2>4
  <2>10. RestoreHonest => RestoreHonest'
    BY <2>1, <2>2, <2>3, <2>4
  <2> QED
    BY <2>4, <2>5, <2>6, <2>7, <2>8, <2>9, <2>10
<1>6. ASSUME NEW n \in Nodes, AnswerLost(n) PROVE SettleInv'
  BY <1>6 DEF AnswerLost, records
<1>7. ASSUME NEW n \in Nodes, RestoreWithoutPid(n) PROVE SettleInv'
  <2>1. disk'[n].status = "running" /\ \A m \in Nodes : m # n => disk'[m] = disk[m]
    BY <1>7, SaveOne DEF RestoreWithoutPid, StepInv, Started
  <2> QED
    BY <1>7, <2>1 DEF RestoreWithoutPid
<1>8. ASSUME NEW n \in Nodes, StillRunning(n) PROVE SettleInv'
  <2>1. /\ disk'[n] = [mem[n] EXCEPT !.status = "running"]
        /\ \A m \in Nodes : m # n => disk'[m] = disk[m]
    BY <1>8, SaveOne DEF StillRunning, StepInv
  <2>2. mem[n] \in Record /\ mem[n] = disk[n] /\ phase = "sync" /\ step[n] # "off" /\ disk[n].pid
    BY <1>8 DEF StillRunning, StepInv, Steady, TypeOK, SyncSteps
  <2>3. disk'[n].status = "running" /\ disk'[n].pid
    BY <2>1, <2>2 DEF Record
  <2> QED
    BY <1>8, <2>1, <2>2, <2>3 DEF StillRunning, client
<1>9. ASSUME NEW n \in Nodes, Judge(n) PROVE SettleInv'
  <2>1. PICK verdict \in Verdicts(n) :
          Save(n, [mem[n] EXCEPT !.status = verdict]) /\ errs' = (errs \/ verdict = "failed")
    BY <1>9 DEF Judge
  <2>2. /\ disk'[n] = [mem[n] EXCEPT !.status = verdict] /\ step'[n] = "off"
        /\ \A m \in Nodes : m # n => disk'[m] = disk[m] /\ step'[m] = step[m]
    BY <1>9, <2>1, Others DEF Judge, StepInv
  <2>3. mem[n] \in Record /\ mem[n] = disk[n] /\ phase = "sync" /\ disk[n].pid
    BY <1>9 DEF Judge, StepInv, Steady, TypeOK, SyncSteps
  <2>4. disk'[n].status = verdict /\ disk'[n].pid
    BY <2>2, <2>3 DEF Record
  <2>5. verdict \in {"success", "failed", "unknown"} /\ (verdict = "unknown" => n \in Cdk)
    BY DEF Verdicts
  <2>6. ~errs' => ~errs /\ verdict # "failed"
    BY <2>1
  <2> QED
    BY <1>9, <2>2, <2>3, <2>4, <2>5, <2>6 DEF Judge
<1>10. ASSUME NEW n \in Nodes, ScriptEnds(n) PROVE SettleInv'
  BY <1>10 DEF ScriptEnds, records, client
<1>11. CASE ServiceFailed
  BY <1>11 DEF ServiceFailed, records, StepInv, Phases
<1>12. CASE PlanDone
  BY <1>12, ServiceFacts DEF PlanDone, records, StepInv, Phases, TypeOK
<1>13. CASE LaunchesDone
  <2> USE <1>13 DEF LaunchesDone, records
  <2>1. CASE errs /\ cmd = "deploy" /\ phase' = "list" /\ UNCHANGED <<cmd, svc, step, errs, outcome>>
    BY <2>1, StatusType
  <2>2. CASE errs /\ cmd # "deploy" /\ Return(TRUE) /\ UNCHANGED <<svc, step, errs>>
    BY <2>2 DEF Return
  <2>3. CASE /\ ~errs /\ ~Restoring /\ svc < Len(Services)
             /\ svc' = svc + 1 /\ BeginService(svc') /\ UNCHANGED <<cmd, outcome>>
    <3>1. cmd = "deploy" /\ retry = 0 /\ phase = "launch" /\ \A n \in Nodes : step[n] = "off"
      BY <2>3, StatusType DEF Restoring, Idle, StepInv, Phases
    <3>2. phase' = "plan" /\ errs' = FALSE /\ UNCHANGED <<env, disk, retry, cmd>>
      BY <2>3 DEF BeginService
    <3>3. \A i \in DOMAIN Services : i < svc' => i < svc \/ i = svc
      BY <2>3, StatusType, ServiceFacts
    <3>4. FirstRound => FirstRound'
      BY <2>3, <3>1, <3>2, <3>3, ServiceFacts DEF TypeOK
    <3> QED
      BY <3>1, <3>2, <3>4
  <2>4. CASE /\ ~errs /\ (Restoring \/ svc = Len(Services))
             /\ BeginSync(mem) /\ UNCHANGED <<cmd, svc, outcome>>
    <3>1. /\ phase' = "sync" /\ errs' = FALSE /\ UNCHANGED <<env, disk, retry, cmd>>
          /\ mem = disk /\ phase = "launch" /\ \A n \in Nodes : step[n] = "off"
      BY <2>4 DEF BeginSync, Idle, StepInv, Steady
    <3>2. ASSUME ~Possible("answer"), cmd = "deploy", NEW n \in Nodes
          PROVE  disk[n].status \notin Open
      <4>1. CASE retry > 0
        BY <3>1, <3>2, <4>1
      <4>2. CASE retry = 0 /\ svc = Len(Services)
        <5>1. PICK i \in DOMAIN Services : n \in Services[i]
          BY PlanAssumption
        <5>2. i < svc \/ i = svc
          BY <4>2, ServiceFacts
        <5> QED
          BY <2>4, <3>1, <3>2, <4>2, <5>1, <5>2
      <4> QED
        BY <2>4, <3>2, <4>1, <4>2, StatusType DEF Restoring
    <3>3. ASSUME ~Possible("answer"), NEW n \in Nodes, step'[n] = "off"
          PROVE  disk[n].status \notin {"running", "unknown"}
      BY <2>4, <3>1, <3>3, Unwatched
    <3>4. ~Possible("answer") => AllLaunched' /\ Judged'
      BY <3>1, <3>2, <3>3, StatusType DEF Statuses
    <3>5. ~Possible("answer") => RestoreHonest'
      BY <2>4, <3>1, <3>3, StatusType DEF Statuses
    <3> QED
      BY <3>1, <3>4, <3>5
  <2> QED
    BY <2>1, <2>2, <2>3, <2>4
<1>14. CASE SyncDone
  BY <1>14 DEF SyncDone, Return, Idle, records
<1>15. CASE RetryAgain
  <2>1. FailedOnDisk # {} /\ RestoreCandidates(disk, FailedOnDisk) = FailedOnDisk
    BY <1>15 DEF RetryAgain, RestoreCandidates
  <2>2. phase' = "launch" /\ errs' = FALSE /\ UNCHANGED <<env, disk, cmd>>
    BY <1>15, <2>1 DEF RetryAgain, BeginRestore
  <2>3. phase = "list" /\ cmd = "deploy" /\ retry' > 0 /\ retry' # 0
    BY <1>15, StatusType DEF RetryAgain, StepInv, Phases
  <2> QED
    BY <2>1, <2>2, <2>3
<1>16. CASE RetryDone
  BY <1>16 DEF RetryDone, Return, records
<1>17. CASE SyncCommand
  BY <1>17 DEF SyncCommand, Command, BeginSync, StepInv, Phases
<1>18. CASE CommandRefused
  BY <1>18 DEF CommandRefused, Command, records, StepInv, Phases
<1>19. ASSUME NEW ips \in SUBSET Nodes, RestoreCommand(ips) PROVE SettleInv'
  <2>1. cmd' = "restore" /\ UNCHANGED <<env, disk>> /\ phase' \in {"launch", "sync"}
    BY <1>19 DEF RestoreCommand, Command, BeginRestore, BeginSync
  <2>2. ASSUME ~Possible("answer"), ~Possible("byip"), NEW n \in Nodes, step'[n] = "off"
        PROVE  /\ disk[n].status \notin {"failed", "pending"}
               /\ phase' = "sync" => disk[n].status \notin {"running", "unknown"}
    <3>1. ips = {}
      BY <1>19, <2>2 DEF RestoreCommand
    <3>2. CASE RestoreCandidates(disk, ips) = {}
      <4>1. BeginSync(disk)
        BY <1>19, <3>2 DEF RestoreCommand, BeginRestore
      <4> QED
        BY <2>2, <3>1, <3>2, <4>1, Unwatched DEF RestoreCandidates
    <3>3. CASE RestoreCandidates(disk, ips) # {}
      <4>1. phase' = "launch" /\ n \notin RestoreCandidates(disk, ips)
        BY <1>19, <2>2, <3>3 DEF RestoreCommand, BeginRestore
      <4> QED
        BY <3>1, <4>1 DEF RestoreCandidates
    <3> QED
      BY <3>2, <3>3
  <2> QED
    BY <2>1, <2>2, StatusType DEF Statuses
<1>20. CASE Crash
  BY <1>20 DEF Crash
<1>21. CASE UNCHANGED vars
  BY <1>21 DEF vars, records, client
<1>22. CASE Written
  BY <1>22 DEF Written, client
<1> QED
  BY <1>1, <1>2, <1>3, <1>4, <1>5, <1>6, <1>7, <1>8, <1>9, <1>10, <1>11, <1>12, <1>13, <1>14,
     <1>15, <1>16, <1>17, <1>18, <1>19, <1>20, <1>21, <1>22
     DEF Next, NodeStep, PhaseStep, Operator

\* Where no answer is lost, a deployment that returns without error has every script
\* of every service settled, and a `deploy-restore' without IPs every script on file,
\* through failed launches, wrong verdicts, retries and kills.
THEOREM NilAlwaysMeansSettled == Spec => NilMeansSettled
<1>1. Init => ResultInv
  BY InitType, InitStepInv, InitScriptInv, InitSettle DEF ResultInv, IInv
<1>2. ResultInv /\ [Next]_vars => ResultInv'
  BY NextType, NextStepInv, NextScriptInv, NextSettle DEF ResultInv, IInv
<1>3. ASSUME ResultInv, [Next]_vars, Returns("nil"), ~Possible("answer")
      PROVE  CASE cmd = "deploy" -> \A n \in Nodes : Settled(n)
               [] cmd = "restore" /\ ~Possible("byip") -> \A n \in Recorded : Settled(n)
               [] OTHER -> TRUE
  <2> USE DEF Returns, ResultInv, IInv, SettleInv
  <2>1. \/ SyncDone /\ cmd # "deploy" /\ ~errs
        \/ RetryDone /\ FailedOnDisk = {} /\ ~(retry = 0 /\ errs)
    <3>1. CASE Operator
      BY <1>3, <3>1 DEF Operator, SyncCommand, CommandRefused, RestoreCommand, Command
    <3>2. CASE PhaseStep
      BY <1>3, <3>2 DEF PhaseStep, ServiceFailed, PlanDone, LaunchesDone, SyncDone,
                        RetryAgain, RetryDone, Written, Return, client
    <3>3. CASE Crash
      BY <1>3, <3>3 DEF Crash
    <3>4. ASSUME NEW n \in Nodes, NodeStep(n) \/ ScriptEnds(n) PROVE FALSE
      BY <1>3, <3>4 DEF NodeStep, PreRegister, PlanFailed, LaunchFailed, ScriptStarts,
           RecordStarted, AnswerLost, RestoreWithoutPid, StillRunning, Judge, ScriptEnds, client
    <3> QED
      BY <1>3, <3>1, <3>2, <3>3, <3>4 DEF Next, vars, client
  <2>2. CASE SyncDone /\ cmd # "deploy" /\ ~errs
    BY <1>3, <2>2 DEF SyncDone, Idle, RestoreHonest, Recorded, Settled, DoubtIsCdk
  <2>3. CASE RetryDone /\ FailedOnDisk = {} /\ ~(retry = 0 /\ errs)
    BY <1>3, <2>3 DEF RetryDone, ListHonest, Settled, DoubtIsCdk, StepInv, Phases
  <2> QED
    BY <2>1, <2>2, <2>3
<1>4. ResultInv /\ [Next]_vars
      => [Returns("nil") /\ ~Possible("answer")
          => CASE cmd = "deploy" -> \A n \in Nodes : Settled(n)
               [] cmd = "restore" /\ ~Possible("byip") -> \A n \in Recorded : Settled(n)
               [] OTHER -> TRUE]_vars
  BY <1>3
<1> QED
  BY <1>1, <1>2, <1>4, PTL DEF Spec, NilMeansSettled
============================================================================
