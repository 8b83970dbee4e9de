# Verification of ydyl-deploy-client

The client creates machines, starts one deployment script on each over ssh,
follows the scripts' logs until every one has a verdict, and restarts the ones
that failed. Nothing but the client's memory, `script_status.json`, the local logs
and the processes on the hosts carries the state of a deployment, every remote
step is an ssh call that may be lost, and the client may be killed at any moment
and run again. The models are about that.

File and line references are to the repository; line numbers for every
definition are in `PROJECT.json` (`map`).

## The system

| Component | Source | State | Operations | What is hard | What makes it correct |
|---|---|---|---|---|---|
| Log and status synchronisation | `internal/deploy/sync.go` `Sync.Run`, `ResumeSync` | per script: offset, counters, record; shared: ssh tokens, first error | fetch, check, final fetch, judge | the log grows between two calls; calls are lost; the client dies between two writes; tokens are shared | no line lost, no wrong verdict, every failure returned, every token given back |
| Verdict rules | `sync.go` 429-604 | none | `deriveStatus...`, `stripXTraceLines` | which part of the log is read, by which rule | follows the README's status table, but for one CDK rule |
| Restore | `restore.go` | records, errors | choose candidates, restart, record, synchronise | some restarts fail; a PID is lost | restarts what has to be, and only that |
| Deployment and retry | `deploy.go` `Run...`, `runService`, `runCommandsOnInstances`, `preRegisterStatuses` | phase, service, errors, attempts | plan, launch, synchronise, retry | a failure anywhere skips what comes after; a crash leaves started scripts | write-ahead of the plan, no script twice, an honest result |
| Output store | `output.go` | four JSON files and their contents in memory | `UpsertPlannedStatus`, `InitStatus`, `UpdateStatus`, `LoadOutputManager` | rewritten in place; two client processes | the file never loses a record |
| ssh acquisition, snapshot pool | `deploy.go` 336-555, `snapshot_import.go` | machines found | rounds of creation and waiting | partial rounds, machines used twice | exactly the machines asked for, each once |
| EC2 launcher | `ec2_run_instances.go` | instances, ordinals | batches, tags, fallback | a batch succeeds in part | every instance is recorded |
| Batch runner | `deploy.go` `runWithBatchLimit` | running tasks | batches with a barrier | limit, last batch | each task once, never more than the limit at a time |
| Vault funding | `deploy.go` 1051-1138 | transfers | send, wait for the receipt, retry | the receipt is lost | each vault funded |
| Archive rotation | `deploy.go` 78-105, 1228-1361 | directories | stash, rotate, put back | crash between the steps | no log lost |
| Log collection | `logs.go` | manifest, files | count, compress, copy, clean up, rename | every step may fail, a restart empties a log | the manifest tells the truth |
| Shutdown | `shutdown.go` | errors | one call per machine | the answer to a success is an error | no machine forgotten |
| Chain health | `internal/chainhealth` | results | concurrent checks | order of results | the result of each chain |
| Cross-transaction configuration | `internal/crosstxconfig` | chain information, jobs | concurrent fetch with retry, generate, split | first error and cancellation; uneven division | every job once, chunks differ by one |
| Account generation monitor | `internal/genaccmonitor` | progress file | round, atomic replace | killed or read in the middle | a reader sees a whole file |
| bench, tps, node setup, ssh utilities, key derivation, console SDK, commands, configuration | see `PROJECT.json` | none of their own | command lines, HTTP, parsing | - | - |

How they interact: `cmd/deploy.go` calls `RunWithRestoreRetryWithOptions`, which
calls `Deployer.Run` (funding, then per service acquisition, planning and
launching, then `Sync.Run` once for everything), then lists the failed records from
the *file* and calls `Restore` for them, up to three times. `Restore` loads the
file into a new `OutputManager`, restarts the candidates and calls `Sync.Run`;
`cmd/sync.go` calls only the latter. Everything meets in `OutputManager`, whose
mutex covers each update together with rewriting its file.

## Modules

| Module | What it is |
|---|---|
| `LogVerdict` | the verdict rules, as pure operators on a log |
| `LogSync` | `Sync.Run` with its goroutines, the scripts, the network and restarts of the client |
| `StatusLifecycle` | abstract specification: how a record's status may move, by the README's table and by one rule more that only `sync.go` and its test state |
| `LogSyncProperties`, `LogSyncProofs` | the properties of `LogSync`, true and claimed; theorems |
| `DeployRecovery` | planning, launching, synchronising, retrying, restoring, crashing |
| `DeployRecoveryProperties` | its properties, true and claimed |
| `DeployRecoveryProofs` | theorems: what is on file and runs on the hosts; what an error-free result means |
| `OutputStore` | `OutputManager`: four files, several clients, torn and mixed writes |
| `DeployStart` | `NewDeployer`'s take-over of the directories, around `OutputStore` |
| `DeployStartProofs` | theorems about the records, the directories and the archives |
| `ChainPlan` | chain IDs, XJST groups and vaults of the machines of a service |
| `VaultFunding` | `fundAllL1Vaults`, on `ChainPlan` |
| `BatchRunner` | `runWithBatchLimit`, used by the next two |
| `ServerAcquire` | `Deployer.Run` from the funding to the scripts: EC2, tags, probes, snapshots |
| `ServerAcquireProofs` | theorems about the vaults, the machines, their tags and what the scripts are told |
| `Shutdown` | the `shutdown` command |
| `BatchRunnerProofs` | theorems about the batch runner |
| `CrossTxConfig`, `CrossTxConfigProofs` | `gen-cross-tx-config` and the benches that read its files; theorems |
| `LogCollect` | `collect-logs` and `stats-logs` |
| `ChainHealth` | `rpc-status`, with the time |
| `GenAccMonitor` | `monitor-gen-accounts` |
| `ReportFile` | abstract specification: what a reader of the monitor's report may count on |
| `OperatorToolsProofs` | theorems about `LogCollect`, `Shutdown`, `ChainHealth`, `GenAccMonitor`, and all tools together |
| `SequenceLemmas` | lemmas about data: induction, `FlattenSeq`, sequences without repetition, sums |
| `MC*`, `*.cfg` | instances for TLC |

Who extends whom: `DeployStart` extends `OutputStore`; `ServerAcquire` extends
`VaultFunding` (and that `ChainPlan`) and `BatchRunner`; `Shutdown` extends
`BatchRunner`; `MCOperatorTools` extends the five operator tools.

A definition whose comment begins with "Mutant of" is a wrong version of the one
after it; it is used by nothing and shows, put in its place, that a property can fail.

### LogVerdict and LogSync

A log is a sequence of *chunks*, what one write of the script leaves, and a byte
offset is a number of chunks. A chunk is only the kind of its line: the success
marker (`ok`), the failure marker (`bad`), a trace line quoting the marker
(`trace`), the first part of a trace line (`plus`, completed by the next chunk), or
anything else (`out`). What a fetch brings is a range of positions, so "skipped" and
"twice" can be told.

Each goroutine of `Sync.Run` has a program counter. `fetch`, `check` and `final` wait
for a token (`withSSHToken`); `size`, `tail`, `ps`, `fsize` and `ftail` hold one
while an ssh call is out; `judge` needs none. A call's answer is one action: it
contains everything the code does until the next wait, including the update of the
record. `fetchRemoteLogDelta` is two calls, and the script may write between them.

- `Resume` is the client killed, or finished, and `sync` run: the locals are gone;
  the record and the local log stay. It is also how cancelling the context looks
  from outside: `deploy`, `sync` and `deploy-restore` never cancel theirs during
  `Sync.Run`.
- A *scenario* is what the host of a script holds and will do: its output, whether
  it hangs, whether it lived to open its log, what an earlier attempt left in the
  local log, the record found, and `faults`: which operations may fail there (the
  ssh calls of a fetch, that of a process check, an append to the local log), each
  time they are made. `scn` is chosen at the start and fixed.

The counter `noGrowthRounds` is capped at its limit, where the code only compares it.
The tail of the local log is taken to be all of it (256 KiB in the code), and each
ssh call answers or fails (no call hangs for ever).

### StatusLifecycle

A record's status as the README's table (`README.md:231-249`) describes it: `success`
and `failed` are final; a script that is not CDK fails for whatever is no success; a CDK
script fails when a log of it quotes a failure or its log cannot be fetched any more
(`Fail`), and with neither marker it is left to a person as `unknown`
(`LeaveToAPerson`). One step is *not* in that table, and takes its "for a person" back:
`FailOnSecondLook`, by which the next `sync` fails a CDK record that it finds `unknown`
and still has no marker for. Only the comment at `sync.go:263` and `sync_test.go:136` have
it; `sync_unknown` shows the disagreement. `LogSync` implements this with `status <-
rec[n].status`, `doubted <- (snap[n] = "unknown")`, and, as inputs, what the logs quote
(`quoted`) and whether one fetch more that is lost is the limit (`lost`).

### DeployRecovery

One record and one machine per node; `Services` is the list of services. `phase` is
where the running command is: `plan` (`preRegisterStatuses`), `launch`
(`runCommandsOnInstances` or `Restorer.Run`), `sync` (`Sync.Run`), `list` (the retry
loop). Within a phase the goroutines of the nodes interleave; `step[n]` says how far
each is. A launch is three steps - the call is made, the script starts, the answer
is recorded - with a failure or the death of the client possible before each.

`mem` is the record in memory, `disk` the one in `script_status.json`. A save is two
steps, because `os.WriteFile` truncates the file before it writes (`output.go:386`):
`Save` truncates and sets `writing`, `Written` completes. A client killed in between
leaves a file that no command can read (`Torn` in the properties); everything on the
hosts is then unknown to any later command. Nobody reads the file while `writing` but
after a kill, so the two steps are told apart only where `crash` is possible.

`cur`, `fresh` and `orphans` are the truth on the hosts: the script the record's PID
names, the one just started, and the ones nothing names any more. `left[n]` is what
scripts of `n` other than `cur[n]` have put, at most, into the local log, which a restart
neither empties nor renames, or into the remote log that overlapping scripts share: a
success marker, a failure marker, or output at any moment (`noise`).

`env` is the set of things that may happen: the client killed (`crash`), a step before a
script's start failing (`setup`), the answer to a start lost (`answer`), calls of
`Sync.Run` lost (`jitter`), IPs named in `deploy-restore` (`byip`). It is one of
`Environments`, chosen at the start and fixed, so that a property can be stated for the
environments it holds in.

`Sync.Run` is one verdict per watched record here, of those that `LogSync` shows to be
possible (`Verdicts`). A success is earned by the script itself or by a marker an earlier
one left (`sync.go:182-213`, `250-260`), which decides for a live script too. A failure is
that of a script that ended badly, or of a CDK script, live or not, for which an earlier
attempt left a failure marker; and of any script when calls are lost or another one writes
after its last line. So a CDK restart may be failed by its predecessor's marker without any
call lost, and started a second time beside the first. `runWithBatchLimit`'s limit is left
out, which allows more interleavings than the code has. Left out here: writes of the file
that return an error and a second client process (they are in `OutputStore`), and the
record's `Reason`.

### OutputStore and DeployStart

Every client process has its own memory of the four files (`mem`) and its own mutex:
`writing[c]` is the file it is rewriting. A save is two steps. `BeginSave` changes the
memory and truncates the file, `EndSave` writes it, `SaveFails` or the death of the
client leaves it torn; if another client has truncated or written the same file
meanwhile (`crossed`), the contents may be mixed, which counts as torn as well. A file
that does not parse is an error for whoever loads it. A record is its key, the
deployment that made it and its status; `acked` remembers what was saved without an
error. Two ghosts say where several clients lose records by design, as nothing locks the
directory: `stale[c]`, the files changed by another after `c` read them, and `clobbered`,
the files a client saved with stale contents.

`DeployStart` is around it: `withClientCommandTee` creates the client's log, then
`NewDeployer` takes five steps - time stamp, stashing the client logs, rotation of the
output directory, rotation of the log directory, putting the client logs back - before it
creates its own directory. `step[c]` is where it is. Between the steps the process may
end, a bench may open its client log, and a client that was started on the old directory
may go on writing files and pipe logs: it writes by path, into the new directory. An
archive is a record of what was moved and under which stamp; times are members of
`Stamps` (to the second, hence equal ones). `nested` is the default layout, with the
output directory inside the log directory. Two deployments at once into the same
directories are left out.

### ChainPlan, VaultFunding, BatchRunner and ServerAcquire

`ChainPlan` has the index arithmetic of `fundAllL1Vaults` and
`buildRemoteCommandForIndex`: which vault is paid, which vault, peers and node number
each script is told. A service with a `remoteCmd` (`custom`) runs that instead, whatever
its type, and is told none of them (`deploy.go:965`); a generic service without one and a
group outside the machines have no command (`HasCommand`). The positions of a service are
planned concurrently: each that has a command may or may not get onto file, and planning
fails if any is missing (`PreRegister`). `VaultFunding` sends the transfers in order, each
attempt of which may fail before or after it went out; L1 mines the pool in order; only the
last transfer's receipt is awaited. `BatchRunner` is a batch of goroutines with its
barrier.

`ServerAcquire` composes them into `Deployer.Run`: `stage` is what it is doing,
for service `svc` in round `round`. A round launches instances batch by batch
(`RunInstances`, the fallback to the next instance type in `NoCapacity`), tags each, waits
for the public IPs (some may have none; in any order), records them in
`servers_create.json` and probes them with `BatchRunner`; or it takes the next machines
of an imported snapshot. An instance's number stands for its address. `fleet` is the
truth: all instances that run, their service and tag.

### CrossTxConfig

`worker[c]` is the goroutine of chain `c` in `fetchInfosConcurrentlyWithRetry`, `inbox`
the channel, `cancelled` its context. The collector receives one answer at a time; the
first error cancels. Then the jobs are split (`Chunk`) and written file by file, each
truncated first. A bench runs beside it and reads at different moments, between
any of which a generation may rewrite any file: the copy it is given (`ReadConfig`), then
`all.json`, to compare them (`ReadAll`, both in `ValidateConfigMatchesAllJobs`,
`benchcompose.go:57-66`), then, once `docker compose up --build` has started it, each
service its own part (`ReadJobs`, `crosstxbench.go:31-41`). It may also run without the
comparison, and end at any time. `bench.overtaken` remembers the parts rewritten
between the comparison and their service's read: what such a service sends is of another
generation, and nothing in the code prevents it. The mnemonic of a generation is its
number.

### LogCollect

`stage` is the step of the collection for target `next`; each may fail as in
`collectRemoteLogFile`, with the entry the code then makes. Logs are numbers of lines
that grow at any time; and a restore or a retry that starts a script again empties its log,
`nohup .. > <the same file>` (`exec_helpers.go:34`), at any time too (`RestartScript`, for
the logs in `Restarts`). `sinceCount` and `sinceListed` remember which logs were emptied
after the running collection, or the one that wrote the manifest, counted their lines.
`left` is what the collection has created and not removed, `local` and `manifest` what it
leaves for the statistics.

### Shutdown, ChainHealth, GenAccMonitor and ReportFile

`Shutdown` runs its ssh calls with `BatchRunner`; an answer is `ok`, `closed` (what
`isExpectedShutdownDisconnect` recognises) or `lost`, and independently the host may
have got the command. `ChainHealth` has a clock: a context ends its call at its deadline,
chains produce blocks whenever they like, and `before` remembers the newest block when a
probe began. `GenAccMonitor` has the answers of a round, its interrupt, the temporary file
and the rename. It implements `ReportFile`, with `shown <- report`.

## Runs

Deadlock is checked in `acquire` only, where the end of `Run` is a step of its own;
elsewhere the commands end.

| Run | Shows | Bounds |
|---|---|---|
| `sync_verdicts` | nothing is skipped; a script that finished well is not failed, a live one not judged early, a success has its marker; the status lifecycle is implemented; tokens are conserved; the first error is kept; `Sync.Run` returns, also for a script that hangs after its marker | 1 script of 38 scenarios (14 kinds with every fault or lost fetches only, 10 that finish without faults), the client killed twice; or 2 scripts of 4 scenarios each; 1 token, both limits 2, fair |
| `deploy_faults` | the eight properties of `DeployRecoveryProperties` that hold | 2 services of one script (one CDK), 2 retries, 1 command of the operator, 5 environments, fair |
| `client_files` | what was saved stays; a new deployment starts in fresh directories; no client log is lost, and all are in `logs/client` again when `NewDeployer` is done; the two archives of a deployment belong together | 2 clients, 1 machine, 2 saves, 4 commands of which 3 deployments, 2 time stamps, both layouts |
| `acquire` | all vaults are paid before anything starts; each service gets its machines, once each; unique tags; the scripts' arguments agree; no batch over its limit; `Run` gets through | 4 XJST nodes in groups of 2, a service without machines, an OP chain and a generic machine with a `remoteCmd`; 2 rounds, batches of 3, 2 instance types, 3 attempts, at most 2 probes at once; launched, from a snapshot with machines to spare, and from one with too few; fair |
| `operator_tools` | the properties of the five operator tools; the monitor implements `ReportFile` | one tool at a time (`session`), see below |

The bounds of `operator_tools`: four listed servers that are three chains, or a fleet with
a generic machine, 2 attempts, 2 or 3 parts for 2 bench services, 2 generations; a group
of two nodes and a bench log, 2 collections, and a log grows or is emptied (pipe logs) twice in all; three machines, one listed twice,
and an entry without address; two chains to check within 3 units of time; two nodes, two
accounts each, two rounds.

The environments of `deploy_faults` are: `setup` alone (for `NoDoubleScript` and the
last part of `SuccessEarned`); `setup` with `jitter` (for `PendingNotStarted`); `crash`
with `setup`, where a save can be torn; `crash` with `answer`; and `answer` with
`byip`. `NilMeansSettled` excludes lost answers, because a script started without a
known PID escapes it. Within an environment, each event may happen every time it can, or
never. Other combinations are covered by the theorems only.

Why the bounds are enough. In `LogSync` scripts share nothing but tokens and the
error returned, so one script shows everything about logs and verdicts, and two with
one token show a full pool with one waiting. Logs of up to three chunks put the
marker, what precedes it and what follows it into any combination of fetches. The
limits 2 (instead of 10 failures and 6 silent rounds) let a counter be below,
reset and at its limit; the violations below use the real limits. Two restarts let
one fall between any two writes of the run after the other. In `DeployRecovery` two
nodes are enough for one to fail where the other succeeds, here in the next service,
whose planning the first's failure prevents; two nodes in one service reach the same
phases. Two retries, instead of three, are enough for a restart of a restart, beside what
the first attempt left in the log; one command of the operator for a restart or a
synchronisation of what the deployment left, by a client that knows nothing but the file.

In `client_files`, losing a record or a log takes two clients and one machine, since
records of different machines are independent but for the file they share (two names of
one machine, or a blank one, are in every batch); four commands, three of them
deployments, are a deployment, one beside it and two after it, the last of which can tear
apart what the one before archived; two saves let one be in progress in each of two
clients, or in one with the other's completed before.

In `acquire` groups of two put a group boundary and a batch boundary at different places;
the second round has fewer machines to find than the first, and a batch limit of 3 makes a
full and a partial batch. In `operator_tools`, three chains over two and three parts are
the uneven and the even division; two generations let an older one be mixed with a newer,
before the comparison of a bench or after it;
a third machine needs a second batch.

Fairness. In `LogSync`: a script that does not hang runs on, ssh calls return (weak
fairness), and a goroutine waiting for a token is served (strong fairness: a Go channel
queues its senders). Nothing is assumed of failures, so they may also never happen
or always happen. In `DeployRecovery`: the client's goroutines proceed (weak
fairness on the phase and on each node's step) and scripts end; nothing is assumed of
crashes and of the operator. The code has no limit for a silent script without
marker, so if one hangs, `Sync.Run` does not return: that is an assumption, not a
result.

In `acquire`: the client runs, its calls return, and L1 mines (weak fairness of the
step as a whole: each action counts towards a limit, so `Run` cannot be kept busy for
ever). In `operator_tools`: the goroutines of the fetch run and their requests end, which
the HTTP client's timeout of 30 s makes them do. Nothing is assumed of the operator, of
kills or of time outs.

### Where the repository says otherwise

Each of these runs checks one statement of the repository and finds it violated.

| Run | Statement | What happens |
|---|---|---|
| `sync_jitter` | `sync.go:99`: only a run of failures at the limit counts | one lost process check fails a live script |
| `sync_twice` | `sync.go:353`: only what is new is fetched | lines written between `wc` and `tail` are fetched twice |
| `sync_stale` | `sync.go:101`: the silent-log rule is for a log that has ended | an earlier attempt's marker decides for a live script |
| `sync_unknown` | `README.md:248-249`: a CDK script without either marker is `unknown`, for a person to look at | the next `sync` fails it, and a `deploy-restore` would restart it |
| `deploy_nopid` | `README.md:238`: running has a PID | a restart without PID is recorded running and never watched |
| `deploy_chains` | `deploy.go:212`: all chains have succeeded | a CDK record is unknown |
| `stats_rows` | `README.md:164`: the statistics count the lines of the local logs | a log grew, its copy failed, and the manifest's count is taken for the older file |

The models contain more behaviours that differ from what one would expect, and have
no run of their own: one lost final fetch fails a script that succeeded
(`sync.go:236`); output after the marker, fetched alone, decides (`sync.go:250`); a
fetch that starts inside an echoed command makes its marker count (`sync.go:585`); what
a failed append should have written is never fetched again (`sync.go:154`); a pending
record may have a live script when the answer to its start was lost
(`deploy.go:652`, which is why `PendingNotStarted` excludes that); a client killed while
it rewrites `script_status.json` loses every record (`Torn`); a CDK script is failed, and
started again beside itself, for the marker of an earlier attempt (`Untangled`); a
generation between the comparison of a bench and its services' reads gives these jobs that
were not compared (`bench.overtaken`); and a script started again between the count and
the compression of its log, or before a collection that is killed, leaves the manifest an
entry of more lines than its file has (`sinceListed`).

## Proofs

`LogSyncProofs` proves, for every number of scripts and tokens, every set of
scenarios and every limit (assumptions: `NodesAssumption`, `LimitsAssumption`,
`ScenariosAssumption`):

- `TypeCorrect`: `Spec => []TypeOK`. `TypeOK` is inductive, with the facts about
  `Positions` and `TextAt` as lemmas.
- `TokensAlwaysConserved`: `sem` is the number of goroutines in `Holding` and at most
  `MaxTokens`. Inductive beside `TypeOK`; the lemmas say how the set of holders, and its
  cardinality, change when one goroutine moves. `TypeOK` only says that `sem` is a
  natural number because of this invariant: `Release` needs a holder.
- `ErrorAlwaysReported`: strengthened to "`first` is set exactly if a watched script's
  goroutine has ended with a failed record", with "a record that is watched and not yet
  judged is not failed".
- `LifecycleImplemented`: initial states map to initial states and each step to a
  step of `StatusLifecycle` or a stutter. It needs that a goroutine still at work has a
  record that is `running` or `unknown`, that a CDK record not found `unknown` is failed
  only for a failure in a log or at the limit of lost fetches, and that only one found
  `unknown` is failed by the rule that the README does not have.
- `NothingEverSkipped`: for every host whose appends work, whatever else fails.
  Strengthened with: the saved `logSize` and the `offset` never exceed what is held,
  and between size and tail the recorded size never exceeds what is written.
- `SuccessAlwaysHonest` and `AliveNeverJudged`: a lemma says which records a step can
  change and by which rule (`JudgedBy`); the invariant `FetchInv` says that all that was
  fetched had been written, and that a goroutine in its last fetch, where checks work, has
  seen its process gone. A marker in the text judged is then one in the log, or in what was
  there before.
- `FinishedNeverFailed`: needs all of those and `FinishInv`, for the scripts the property is
  about. When such a script is judged its whole log has been fetched (`offset` is its
  length, because the goroutine saw the process gone before it asked for the size), and no
  fetch began behind the one before it, so that its last line stands where the rules look
  for it, whatever was fetched twice.

`DeployRecoveryProofs` proves all the safety properties of
`deploy_faults`, for every plan of services over any number of machines, every number
of retries and commands, and every set of environments (`PlanAssumption`,
`BoundsAssumption`, `EnvironmentsAssumption`). The inductive invariant has four
layers, each of which needs those before it.

- `TypeCorrect`: `TypeOK` is inductive.
- `StepInv`, what the command has written agrees with how far it is: memory and file
  are equal; while a service is planned or launched nothing of the later ones is on
  file (this is where the services must be disjoint); what is being launched is on
  file, as pending in the first round, as failed in a retry; only records with a PID
  are watched. `OnlyFailedEverRetried` follows from it.
- `ScriptInv`, the file agrees with the hosts. What lives on a host is in the contents of
  the file, or in those being written to it (`OnFile`), hence `AlwaysWrittenAhead`: only a
  client killed inside a rewrite (`Torn`) leaves scripts that nothing names. Every success
  has a PID and a marker that earned it (`Earned`, `SuccessAlwaysEarned`). Where no answer
  is lost and no client killed, the script of a pending record has not been started
  (`Unstarted`, `PendingNeverStarted`). Where nothing fails but steps before a start, other
  scripts of a machine have left nothing but failure markers, and the script of a failed
  record has ended, for all but CDK machines with such a marker (`Calmly`,
  `NeverDoubleScript`).
- `SettleInv`, for `NilAlwaysMeansSettled`: as long as the first round goes on nothing
  is failed and the services before the present one are launched; a retry that could
  not be made leaves its record failed, so that the loop cannot take it for settled;
  what `Sync.Run` does not watch, or no longer, has a verdict. `errs` alone would not
  do: the retry loop ignores it, and only the records still failed tell.

`DeployStartProofs` proves all the properties of `client_files`, and `CreatedAlwaysOnce`,
for any clients, machines, saves, commands, deployments and time stamps.

- The records (`StoreInv`): a client that writes is up; for every file that is not
  clobbered, the client writing it is the only one and holds its latest contents, the file
  is torn while it does, and every other client that is up is stale (`OneWriter`); what was
  saved is in the readable file and in every memory that is not stale (`Saved`); and no
  contents of `servers_create.json` repeat a machine, in memory or on file. `OneWriter` is
  needed because a save is two steps: without it, the end of one client's save could
  overwrite another's. `StepInv` says that who is in `NewDeployer` has no output manager
  yet.
- The directories: one client at most makes a deployment (`OneDeployer`). `InUse` is whose
  records are in the files or in the memory of a client that read the files that are
  there. Once the output directory is rotated only the new deployment's are, and once the
  log directory is, only its logs (`FreshInv`, from which `DeploymentAlwaysFresh`); what is
  archived is in use no more (`Apart`). All up to `strayed`, what a client of the old
  directories writes into the new ones.
- `ArchivesAlwaysPaired` differs by layout: with the output directory inside the log
  directory, no deployment is in two archives (`NestedInv`); with the two beside each
  other, a `NewDeployer` between its rotations still has the stamp of the first
  (`BesideInv`), which it needs in order to rotate the second under it.
- `ClientLogsAlwaysStay`: every client log ever opened is in `logs/client`, aside, or in an
  archive (`NoneLost`); only those opened while the others were aside are archived; and
  `logs/client` has all of them when no `NewDeployer` runs, unless one was stopped half-way
  or a log was opened meanwhile. Between stash and restoring the log directory has none but
  the later logs, and the `NewDeployer` knows where the others are (`AsideInv`).

`BatchRunnerProofs` proves, for any number of tasks and any limit, that no more run than
the limit allows (all before the batch are done and all behind it not begun, so that the
running ones lie in an interval of `Width` positions) and that batches are in order.

`ServerAcquireProofs` proves the safety properties of `acquire` for any services, snapshot,
group size, batch sizes, rounds and attempts. Each step is one of the batch runner or leaves
it alone (`ProbesUseRunner`), so its theorem holds of the probes. `AcquireInv` is:

- `FundingInv`: what the receipt awaited stands behind. Every transfer before the present
  one is mined or in the pool, and while the receipt is awaited the transfer it is of is
  the last one and each of the others is mined or stands before it in the pool; L1 mines
  in order, so one receipt is enough.
- `StageInv`, `ReadyInv`, `LaunchInv`, `ProbeInv`: the machines that have answered, those
  launched, those of the present batch and those to be probed are without repetition and
  apart from one another, and are among those taken for the service at work; what is
  launched never exceeds the `Need`. `GotInv`, from which `AlwaysEnoughMachines`, is what
  this leaves for the services before.
- `TagInv`: every tag given is below the next ordinal, which the machines of the present
  batch get in order.
- `PlanInv`: what a script was told is `RemoteCommand` of its position, with the machines
  of its service. `PlansAlwaysAgree` is then about `ChainPlan` alone: two positions have
  the same vault exactly if the division by the group size agrees, and a group whose
  service has a whole number of them has all its members. A service with a `remoteCmd` is
  left out of it, as its scripts are told nothing.

`CrossTxConfigProofs` proves `NeverPartialInfos` and `CauseAlwaysGenuine` from one
invariant, for any chains and attempts: what waits in the channel was sent by a worker of
this fetch, and what a worker has sent waits, is in `infos`, or an error has been kept
(`Delivered`); nothing is cancelled before the time is over or an error was received
(`CancelledLater`); and workers exist only while `pc` is `fetch`. `ValidatedAlwaysWhole` has
an invariant of its own: which files a generation that publishes has written already, and
that the copy is older than it until the end. Hence a copy that a bench has read and that
equals `all.json` means that every numbered file is of that generation when the comparison
is made (`Comparing`); from then on the file of a service that has yet to read is the part
compared, or has been overtaken (`Untouched`). `EachJobAlwaysSentOnce` follows from it with
`CutsFollow`: `ChunkStart` and `ChunkSize` cut any number of jobs into any number of
parts that follow one another, from the first job to the last, and the pieces of a sequence
between such cuts give the sequence when they are put together (`FlattenPieces`).

`OperatorToolsProofs` has the other tools, for all values of their constants.

- `LogCollect`: `CollectInv` says, of every log that no restart has emptied since its lines
  were counted, that an entry not skipped has at most the lines of the local copy, and this
  at most those of the log (`Honest`), and that between counting and renaming the copy, the
  compressed file and the log are in this order (`Grown`): until it is emptied a log only
  grows, which is why a later collection that replaces a file and dies before its manifest
  leaves the older manifest true (`ManifestAlwaysHonest`). As long as `allErrs` is empty,
  every target so far has an entry, none is a failure, and what is left are the temporary
  files of the present step (`Faultless`, from which `NilAlwaysMeansCollected`).
- `Shutdown` implements the batch runner, step by step; `NilAlwaysMeansTold`, for any list
  of machines, follows from "a call that is done has told its machine, was closed, or has
  left an error" (`CallsCounted`).
- `ChainHealth`: `SlowAlwaysLate` and `CheckAlwaysInTime` for any servers and time limits:
  each call that is out is within its time, no block received is older than the newest when
  its probe began.
- `GenAccMonitor` implements `ReportFile`: a temporary file that is about to be renamed is
  whole and of the present round, which is later than the report's.
- `ToolsTypeCorrect`: the types of all of them. A session of `operator_tools` is a
  behaviour of the specification of each tool (`EachToolAlone`), so that every theorem
  about one of them holds of what that run checks.

`SequenceLemmas` has what these share. The library's induction theorems take an operator as
a parameter, which the provers cannot instantiate, so induction is used as "a set of
naturals that is not empty has a least element" (`LeastNat`, `UpTo`). With it the
recursive functions behind `FlattenSeq` and `FoldFunctionOnSet` are shown to exist, and
what they return to be a concatenation, without repetition if nothing is repeated, and a
sum of naturals.

All invariants and action properties of the passing runs, and both refinements, are
therefore proved as well as checked. Only model-checked: liveness (`SyncReturns`,
`DeployReturns`, `AcquireReturns`, `FetchReturns`), which the prover does not reach; and the
seven violations. `CreatedOnce`, `BatchesInOrder` and `CheckInTime` are the other way round:
proved for every instance, so that no run checks them. The bounds (`MaxSaves`,
`MaxCommands`, `MaxTime`, ..) are constants of any value in the theorems. The assumptions
are: types and finiteness of the constants; limits on attempts and batches that are not
zero, and at least one service, chain group size, stamp and number of parts, where the code
has one; that services share no machine and each machine is of one, and that a service of
XJST chains has whole groups, which the configuration check requires; that the mark for a
missing report is no report (`NoReportAssumption`) and that the clock's bound is not before
its start (`MaxTimeAssumption`).

## Not modelled

- Node setup (`setup-cfxnode`): one sequence of ssh and copy commands that stops at the
  first error and shares no state with the rest.
- Key derivation and the wallet: cryptography. Which index a key has is in `ChainPlan`.
- `cfx-tps`, the compose files and the console service's HTTP client: one process or one
  request each, with no state of their own.
- Flags, formatting, tables, the CSV layout, `known_hosts`, and the copying of output to
  the client log.
- Two deployments at the same time into the same directories: nothing in the code keeps
  them apart, and nothing of what the models state would hold.
- The rows `stats-logs` makes of plain local logs, and logs with lines of more than 1 MiB.

Some statements of the README are not about behaviour and have no run: the defaults of
`gen-cross-tx-config`'s counts (1000, 10, 100000 there; 500, 100, 300 in the code); that
`servers.json` is its direct input, although it refuses `generic` machines, which a
deployment supports; and that `--rpc-timeout` is for one call, while one context covers
both calls of a probe (which is why `SlowIsLate` has the margin it has).
