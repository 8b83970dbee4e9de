--------------------------- MODULE CrossTxConfig ---------------------------
(***************************************************************************)
(* `gen-cross-tx-config' and the benches that use its files.  A generation *)
(* picks the chains of servers.json, asks every chain's console service    *)
(* concurrently with retries, and writes jobs/all.json, jobs/1.json ..     *)
(* jobs/<parts>.json and last the copy 7s_jobs.gen.json, each file in      *)
(* place.  `bench-cross-tx --config <copy>' reads the copy, then all.json,  *)
(* and if they are equal starts services that read the numbered files one  *)
(* by one, while a generation may be writing.                              *)
(* A generation may be killed, or fail to write, anywhere.                 *)
(***************************************************************************)
EXTENDS Integers, SequencesExt

CONSTANTS
    Names,         \* names of servers
    Fleets,        \* contents of servers.json: sequences of servers
    Attempts,      \* fetchRetryAttempts (3)
    PartNumbers,   \* values of --part-number
    BenchServices, \* multijob-1 .. multijob-<n> of the compose file (8)
    MaxGenerations \* bound: generations started

ChainTypes == {"op", "cdk", "xjst"}

\* index: parseServerNameIndex's result, 0 if the name is empty or does not parse
ListedServer == [name : Names, type : ChainTypes \cup {"generic", ""}, index : Nat, ip : BOOLEAN]

ASSUME FleetsAssumption == IsFiniteSet(Names) /\ Fleets \subseteq Seq(ListedServer)
ASSUME NumbersAssumption ==
    /\ Attempts \in Nat \ {0} /\ MaxGenerations \in Nat /\ BenchServices \in Nat
    /\ PartNumbers # {} /\ PartNumbers \subseteq Nat \ {0}

VARIABLES
    pc,         \* "idle", "fetch" (fetchInfosConcurrentlyWithRetry) or "publish"
    generation, \* number of generations started: each has its own mnemonic
    entries,    \* the chains picked: chainKeys
    worker,     \* worker[c]: "check" (before an attempt), "call" or "sent"
    tries,      \* tries[c]: attempts that failed
    answer,     \* answer[c]: what worker c has sent
    inbox,      \* the channel: chains whose answers wait to be received
    cancelled,  \* is fetchCtx done?
    timedOut,   \* has the 60 s of the command passed?
    firstErr,   \* firstErr of the collector, "nil" if none
    infos,      \* the chains whose information was received
    plan,       \* what is being published
    at,         \* the file being written, an index into Path
    open,       \* is it truncated and not yet written?
    file,       \* file[p]: what file p holds
    outcome,    \* what the last generation returned
    bench       \* the bench: what it and its services have read

workers == <<worker, tries, answer, inbox, cancelled, timedOut, firstErr>>
fetching == <<entries, infos, workers>>
publishing == <<plan, at, open, file>>
configVars == <<pc, generation, fetching, publishing, outcome, bench>>

All == 0
Copy == -1
Paths == {Copy, All} \cup UNION {1..n : n \in PartNumbers \cup {BenchServices}}

\* The jobs of one generation, one per source chain; parts is not in the file.
Content == [gen : Nat, jobs : Seq(Names), parts : Nat]
\* What no reader can parse: a file that is missing or truncated.
Unreadable == [gen |-> 0, jobs |-> <<>>, parts |-> 0]
Readable(content) == content.gen # 0

BenchRun ==
    [stage : {"none", "compare", "start"},
     checked : BOOLEAN,                          \* were config and all.json equal?
     config : Content, all : Content,            \* what the comparison read
     due : SUBSET (1..BenchServices),            \* services that have not read yet
     overtaken : SUBSET (1..BenchServices),      \* those whose file was written before they read
     chunk : [1..BenchServices -> Content]]      \* what the others read

NoBench ==
    [stage |-> "none", checked |-> FALSE, config |-> Unreadable, all |-> Unreadable, due |-> {},
     overtaken |-> {}, chunk |-> [k \in 1..BenchServices |-> Unreadable]]

ConfigTypeOK ==
    /\ pc \in {"idle", "fetch", "publish"} /\ generation \in 0..MaxGenerations
    /\ entries \subseteq Names /\ infos \subseteq Names
    /\ worker \in [Names -> {"check", "call", "sent"}]
    /\ tries \in [Names -> 0..Attempts]
    /\ answer \in [Names -> {"none", "ok", "failed", "cancelled"}]
    /\ inbox \in Seq(Names)
    /\ cancelled \in BOOLEAN /\ timedOut \in BOOLEAN
    /\ firstErr \in {"nil", "failed", "cancelled"}
    /\ plan \in Content /\ at \in Nat /\ open \in BOOLEAN
    /\ file \in [Paths -> Content]
    /\ outcome \in {"none", "nil", "error"}
    /\ bench \in BenchRun
----------------------------------------------------------------------------
Participates(s) == s.type \in {"op", "cdk"} \/ (s.type = "xjst" /\ s.index = 1)

Rejected(s) ==
    \/ s.type \notin ChainTypes \cup {""}
    \/ s.type \in ChainTypes /\ s.index = 0
    \/ Participates(s) /\ ~s.ip

Picked(fleet) == {i \in DOMAIN fleet : Participates(fleet[i])}
PickedNames(fleet) == {fleet[i].name : i \in Picked(fleet)}

\* PickChainEntries returns no error, and there are two chains to connect.
Accepted(fleet) ==
    /\ \A i \in DOMAIN fleet : ~Rejected(fleet[i])
    /\ \A i, j \in Picked(fleet) : fleet[i].name = fleet[j].name => i = j
    /\ \E a, b \in PickedNames(fleet) : a # b

StartGenerate ==
    /\ pc = "idle" /\ generation < MaxGenerations
    /\ generation' = generation + 1
    /\ \E fleet \in Fleets :
        \/ /\ ~Accepted(fleet)
           /\ outcome' = "error"
           /\ UNCHANGED <<pc, fetching>>
        \/ /\ Accepted(fleet)
           /\ pc' = "fetch" /\ outcome' = "none"
           /\ entries' = PickedNames(fleet) /\ infos' = {}
           /\ UNCHANGED workers
    /\ UNCHANGED <<publishing, bench>>

\* The goroutines, the channel and the variables of a fetch that has ended are gone.
ForgetWorkers ==
    /\ worker' = [c \in Names |-> "check"]
    /\ tries' = [c \in Names |-> 0]
    /\ answer' = [c \in Names |-> "none"]
    /\ inbox' = <<>>
    /\ cancelled' = FALSE /\ timedOut' = FALSE /\ firstErr' = "nil"

ForgetFetch == entries' = {} /\ infos' = {} /\ ForgetWorkers

\* The generation has returned.
Return(result) ==
    /\ pc' = "idle" /\ outcome' = result
    /\ ForgetFetch
    /\ plan' = Unreadable /\ at' = 0 /\ open' = FALSE
----------------------------------------------------------------------------
Send(c, result) ==
    /\ answer' = [answer EXCEPT ![c] = result]
    /\ worker' = [worker EXCEPT ![c] = "sent"]
    /\ inbox' = Append(inbox, c)

\* fetchWithRetry, before an attempt.
CheckContext(c) ==
    /\ pc = "fetch" /\ c \in entries /\ worker[c] = "check"
    /\ \/ cancelled /\ Send(c, "cancelled")
       \/ ~cancelled /\ worker' = [worker EXCEPT ![c] = "call"] /\ UNCHANGED <<answer, inbox>>
    /\ UNCHANGED <<pc, generation, entries, tries, cancelled, timedOut, firstErr, infos,
                   publishing, outcome, bench>>

\* SDKFetcher.Fetch answers or fails; a cancelled call fails or has just answered.
Fetched(c) ==
    /\ pc = "fetch" /\ c \in entries /\ worker[c] = "call"
    /\ Send(c, "ok")
    /\ UNCHANGED <<pc, generation, entries, tries, cancelled, timedOut, firstErr, infos,
                   publishing, outcome, bench>>

\* Mutant of FetchFails: a failed attempt is not counted.
FetchFailsUncounted(c) ==
    /\ pc = "fetch" /\ c \in entries /\ worker[c] = "call"
    /\ worker' = [worker EXCEPT ![c] = "check"]
    /\ UNCHANGED <<pc, generation, entries, tries, answer, inbox, cancelled, timedOut, firstErr,
                   infos, publishing, outcome, bench>>

\* Mutant of FetchFails: one attempt too many.
FetchFailsOnceMore(c) ==
    /\ pc = "fetch" /\ c \in entries /\ worker[c] = "call"
    /\ tries' = [tries EXCEPT ![c] = @ + 1]
    /\ \/ tries'[c] > Attempts /\ Send(c, "failed")
       \/ tries'[c] <= Attempts
          /\ worker' = [worker EXCEPT ![c] = "check"] /\ UNCHANGED <<answer, inbox>>
    /\ UNCHANGED <<pc, generation, entries, cancelled, timedOut, firstErr, infos,
                   publishing, outcome, bench>>

\* Mutant of FetchFails: any failed attempt cancels all other fetches.
FetchFailsCancelling(c) ==
    /\ pc = "fetch" /\ c \in entries /\ worker[c] = "call"
    /\ tries' = [tries EXCEPT ![c] = @ + 1]
    /\ cancelled' = TRUE
    /\ \/ tries'[c] = Attempts /\ Send(c, "failed")
       \/ tries'[c] < Attempts
          /\ worker' = [worker EXCEPT ![c] = "check"] /\ UNCHANGED <<answer, inbox>>
    /\ UNCHANGED <<pc, generation, entries, timedOut, firstErr, infos, publishing, outcome, bench>>

FetchFails(c) ==
    /\ pc = "fetch" /\ c \in entries /\ worker[c] = "call"
    /\ tries' = [tries EXCEPT ![c] = @ + 1]
    /\ \/ tries'[c] = Attempts /\ Send(c, "failed")
       \/ tries'[c] < Attempts
          /\ worker' = [worker EXCEPT ![c] = "check"] /\ UNCHANGED <<answer, inbox>>
    /\ UNCHANGED <<pc, generation, entries, cancelled, timedOut, firstErr, infos,
                   publishing, outcome, bench>>

TimeOut ==
    /\ pc = "fetch" /\ ~timedOut
    /\ timedOut' = TRUE /\ cancelled' = TRUE
    /\ UNCHANGED <<pc, generation, entries, worker, tries, answer, inbox, firstErr, infos,
                   publishing, outcome, bench>>

\* The collector takes the next answer; the first error cancels the rest.
Receive ==
    /\ pc = "fetch" /\ inbox # <<>>
    /\ LET c == Head(inbox) IN
        \/ /\ answer[c] = "ok"
           /\ infos' = infos \cup {c} /\ UNCHANGED <<firstErr, cancelled>>
        \/ /\ answer[c] # "ok" /\ firstErr = "nil"
           /\ firstErr' = answer[c] /\ cancelled' = TRUE /\ UNCHANGED infos
        \/ /\ answer[c] # "ok" /\ firstErr # "nil"
           /\ UNCHANGED <<firstErr, cancelled, infos>>
    /\ inbox' = Tail(inbox)
    /\ UNCHANGED <<pc, generation, entries, worker, tries, answer, timedOut,
                   publishing, outcome, bench>>
----------------------------------------------------------------------------
\* Mutant of Closed: the channel is closed without waiting for the workers.
ClosedEarly == inbox = <<>>

\* The channel is closed when all workers have sent, and drained.
Closed == inbox = <<>> /\ \A c \in entries : worker[c] = "sent"

\* GenerateJobs: one job per source, in the order of the names.
JobsOf(chains) == SetToSeq(chains)

Collected ==
    /\ pc = "fetch" /\ Closed
    /\ \/ firstErr # "nil" /\ Return("error")
       \/ /\ firstErr = "nil"
          /\ pc' = "publish" /\ at' = 0 /\ open' = FALSE
          /\ \E parts \in PartNumbers :
                plan' = [gen |-> generation, jobs |-> JobsOf(entries), parts |-> parts]
          /\ ForgetWorkers
          /\ UNCHANGED <<entries, infos, outcome>>
    /\ UNCHANGED <<generation, file, bench>>

\* Mutant of ChunkSize: the remainder is forgotten.
ChunkSizeRounded(jobs, parts, k) == Len(jobs) \div parts

\* splitJobsEvenly: the first Len(jobs) % parts chunks have one job more.
ChunkSize(jobs, parts, k) ==
    (Len(jobs) \div parts) + (IF k <= Len(jobs) % parts THEN 1 ELSE 0)

ChunkStart(jobs, parts, k) ==
    (k - 1) * (Len(jobs) \div parts)
      + (IF k - 1 <= Len(jobs) % parts THEN k - 1 ELSE Len(jobs) % parts)

Chunk(content, k) ==
    LET start == ChunkStart(content.jobs, content.parts, k)
    IN [content EXCEPT !.jobs =
            SubSeq(content.jobs, start + 1, start + ChunkSize(content.jobs, content.parts, k))]

\* Mutant of Path: all.json is written after the numbered files.
PathAllLast(i) ==
    CASE i < plan.parts -> i + 1 [] i = plan.parts -> All [] i > plan.parts -> Copy

\* The order of the writes: all.json, the numbered files, the copy.
Path(i) == IF i <= plan.parts THEN i ELSE Copy

\* copyGeneratedJobsConfig reads all.json again.
Written(p) ==
    CASE p = All -> plan [] p = Copy -> file[All] [] p \notin {All, Copy} -> Chunk(plan, p)

\* os.WriteFile truncates first.
Truncate ==
    /\ pc = "publish" /\ ~open
    /\ open' = TRUE
    /\ file' = [file EXCEPT ![Path(at)] = Unreadable]
    /\ bench' = [bench EXCEPT !.overtaken = @ \cup (bench.due \cap {Path(at)})]
    /\ UNCHANGED <<pc, generation, fetching, plan, at, outcome>>

Write ==
    /\ pc = "publish" /\ open
    /\ file' = [file EXCEPT ![Path(at)] = Written(Path(at))]
    /\ \/ /\ at <= plan.parts /\ at' = at + 1 /\ open' = FALSE
          /\ UNCHANGED <<pc, fetching, plan, outcome>>
       \/ at > plan.parts /\ Return("nil")
    /\ UNCHANGED <<generation, bench>>

\* The command is killed, or a write fails and it returns.
Abort ==
    /\ pc # "idle" /\ Return("error")
    /\ UNCHANGED <<generation, file, bench>>

----------------------------------------------------------------------------
\* docker compose up --build, after a comparison: the services have yet to read.
Started ==
    [NoBench EXCEPT !.stage = "start", !.checked = TRUE, !.all = bench.config,
                    !.due = 1..BenchServices]

\* ValidateConfigMatchesAllJobs reads --config, the copy. Without --config nothing is
\* compared, and what the services read is not followed.
ReadConfig ==
    /\ bench.stage = "none"
    /\ \/ Readable(file[Copy])
          /\ bench' = [bench EXCEPT !.stage = "compare", !.config = file[Copy]]
       \/ bench' = [bench EXCEPT !.stage = "start"]
    /\ UNCHANGED <<pc, generation, fetching, publishing, outcome>>

\* JSONFilesEqual: the second file can be read and equals the first.
SameJobs(config, all) == Readable(all) /\ all = config

\* It reads all.json, and either the services are started or the bench returns an error.
ReadAll ==
    /\ bench.stage = "compare"
    /\ bench' = IF SameJobs(bench.config, file[All]) THEN Started ELSE NoBench
    /\ UNCHANGED <<pc, generation, fetching, publishing, outcome>>

\* Service multijob-<k> reads its file.
ReadJobs(k) ==
    /\ bench.stage = "start" /\ k \in bench.due
    /\ bench' = [bench EXCEPT !.chunk[k] = file[k], !.due = @ \ {k}]
    /\ UNCHANGED <<pc, generation, fetching, publishing, outcome>>

\* docker compose ends, or is killed.
BenchEnds ==
    /\ bench.stage # "none" /\ bench' = NoBench
    /\ UNCHANGED <<pc, generation, fetching, publishing, outcome>>
----------------------------------------------------------------------------
ConfigInit ==
    /\ pc = "idle" /\ generation = 0 /\ outcome = "none"
    /\ entries = {} /\ infos = {} /\ inbox = <<>>
    /\ worker = [c \in Names |-> "check"]
    /\ tries = [c \in Names |-> 0]
    /\ answer = [c \in Names |-> "none"]
    /\ cancelled = FALSE /\ timedOut = FALSE /\ firstErr = "nil"
    /\ plan = Unreadable /\ at = 0 /\ open = FALSE
    /\ file = [p \in Paths |-> Unreadable]
    /\ bench = NoBench

FetchStep ==
    \/ Receive \/ Collected
    \/ \E c \in Names : CheckContext(c) \/ Fetched(c) \/ FetchFails(c)

BenchStep == ReadConfig \/ ReadAll \/ BenchEnds \/ \E k \in 1..BenchServices : ReadJobs(k)

ConfigNext ==
    \/ StartGenerate \/ FetchStep \/ TimeOut \/ Truncate \/ Write \/ Abort
    \/ BenchStep

ConfigSpec == ConfigInit /\ [][ConfigNext]_configVars

\* The goroutines run and every request ends (the client has a timeout of 30 s).
FairConfigSpec == ConfigSpec /\ WF_configVars(FetchStep)
----------------------------------------------------------------------------
(* Properties *)

\* Jobs are made only when the information of every chain picked was received: a nil
\* entry of the map would be dereferenced.
NoPartialInfos == pc = "publish" => infos = entries

\* The error returned is a chain's own failure, never the cancellation that failure
\* caused in another fetch, unless the command's time was over.
GenuineCause == firstErr = "cancelled" => timedOut

\* A bench whose config was equal to all.json gives each service that has read its part
\* of that generation, complete, although each file is written by itself, the two files
\* are compared one after the other, and the services read while a generation writes:
\* all.json is written first and the copy last. Only a service whose own file is
\* rewritten after the comparison and before it reads may get anything else.
ValidatedIsWhole ==
    bench.checked =>
        \A k \in (1..bench.all.parts) \cap (1..BenchServices) :
            k \notin bench.due \cup bench.overtaken => bench.chunk[k] = Chunk(bench.all, k)

\* With as many parts as services (the default), such a bench sends every job of all.json
\* exactly once when all its services have read, unless one of their files was rewritten
\* between the comparison and its service's read.
EachJobSentOnce ==
    bench.checked /\ bench.due \cup bench.overtaken = {} /\ bench.all.parts = BenchServices =>
        FlattenSeq([k \in 1..BenchServices |-> bench.chunk[k].jobs]) = bench.all.jobs

\* Fetching ends, whatever fails.
FetchReturns == pc = "fetch" ~> pc # "fetch"
============================================================================
