------------------------ MODULE CrossTxConfigProofs ------------------------
(***************************************************************************)
(* Theorems about CrossTxConfig for any chains, number of attempts, parts  *)
(* and generations.                                                        *)
(***************************************************************************)
EXTENDS CrossTxConfig, SequenceLemmas

----------------------------------------------------------------------------
(* Fetching: where the answer of each worker is. *)

FetchTyped ==
    /\ pc \in {"idle", "fetch", "publish"} /\ entries \subseteq Names /\ infos \subseteq entries
    /\ worker \in [Names -> {"check", "call", "sent"}]
    /\ answer \in [Names -> {"none", "ok", "failed", "cancelled"}]
    /\ inbox \in Seq(Names)
    /\ firstErr \in {"nil", "failed", "cancelled"}

Waits(c) == \E i \in 1..Len(inbox) : inbox[i] = c

\* What waits was sent, and what was sent waits or has been received.
Delivered ==
    /\ \A i \in 1..Len(inbox) :
          inbox[i] \in entries /\ worker[inbox[i]] = "sent" /\ answer[inbox[i]] # "none"
    /\ \A c \in entries : worker[c] = "sent" => Waits(c) \/ c \in infos \/ firstErr # "nil"

Stopped == timedOut \/ firstErr # "nil"

\* Nothing is cancelled before the time is over or an error was received.
CancelledLater ==
    /\ cancelled => Stopped
    /\ \A c \in Names : answer[c] = "cancelled" => Stopped
    /\ GenuineCause

NoWorkers == worker = [c \in Names |-> "check"] /\ inbox = <<>>

FetchInv ==
    /\ FetchTyped /\ Delivered /\ CancelledLater /\ NoPartialInfos
    /\ pc # "fetch" => NoWorkers

LEMMA FetchStart == ConfigInit => FetchInv
<1> SUFFICES ASSUME ConfigInit PROVE FetchInv
  OBVIOUS
<1>1. FetchTyped /\ NoWorkers /\ NoPartialInfos
  BY DEF ConfigInit, FetchTyped, NoWorkers, NoPartialInfos
<1>2. Delivered
  BY DEF ConfigInit, Delivered
<1>3. CancelledLater
  BY DEF ConfigInit, CancelledLater, GenuineCause, Stopped
<1> QED
  BY <1>1, <1>2, <1>3 DEF FetchInv

\* Without workers nothing is sent or waits.
LEMMA NoneDelivered == NoWorkers /\ entries \subseteq Names => Delivered
BY DEF NoWorkers, Delivered

\* The state after a generation returned or went on to publish.
LEMMA ForgetKeeps ==
    ASSUME ForgetWorkers, pc' \in {"idle", "publish"}, entries' \subseteq Names,
           infos' \subseteq entries', pc' = "publish" => infos' = entries'
    PROVE  FetchInv'
<1>1. FetchTyped'
  BY DEF ForgetWorkers, FetchTyped
<1>2. NoWorkers'
  BY DEF ForgetWorkers, NoWorkers
<1>3. Delivered'
  BY <1>2 DEF NoWorkers, Delivered
<1>4. CancelledLater'
  BY DEF ForgetWorkers, CancelledLater, GenuineCause, Stopped
<1> QED
  BY <1>1, <1>2, <1>3, <1>4 DEF FetchInv, NoPartialInfos

\* A worker sends its answer: it waits, behind those that wait already.
LEMMA SendKeeps ==
    ASSUME FetchInv, pc = "fetch", NEW c \in entries, worker[c] # "sent",
           NEW r \in {"ok", "failed", "cancelled"}, Send(c, r), r = "cancelled" => cancelled,
           UNCHANGED <<pc, entries, infos, cancelled, timedOut, firstErr>>
    PROVE  FetchInv'
<1>1. c \in Names /\ inbox \in Seq(Names)
  BY DEF FetchInv, FetchTyped
<1>2. /\ inbox' \in Seq(Names) /\ Len(inbox') = Len(inbox) + 1 /\ Len(inbox) \in Nat
      /\ inbox'[Len(inbox) + 1] = c
      /\ \A i \in 1..Len(inbox) : inbox'[i] = inbox[i]
  BY <1>1, AppendProperties DEF Send
<1>3. FetchTyped'
  BY <1>1, <1>2 DEF FetchInv, FetchTyped, Send
<1>4. /\ \A d \in Names : d # c => worker'[d] = worker[d] /\ answer'[d] = answer[d]
      /\ worker'[c] = "sent" /\ answer'[c] = r
  BY <1>1 DEF FetchInv, FetchTyped, Send
<1>5. ASSUME NEW i \in 1..Len(inbox')
      PROVE  inbox'[i] \in entries' /\ worker'[inbox'[i]] = "sent" /\ answer'[inbox'[i]] # "none"
  <2>1. CASE i = Len(inbox) + 1
    BY <1>2, <1>4, <2>1
  <2>2. CASE i \in 1..Len(inbox)
    <3>1. inbox[i] \in entries /\ worker[inbox[i]] = "sent" /\ answer[inbox[i]] # "none"
      BY <1>1, <2>2 DEF FetchInv, Delivered
    <3> QED
      BY <1>2, <1>4, <2>2, <3>1 DEF FetchInv, FetchTyped
  <2> QED
    BY <1>2, <2>1, <2>2
<1>6. ASSUME NEW d \in entries, worker'[d] = "sent"
      PROVE  Waits(d)' \/ d \in infos \/ firstErr # "nil"
  <2>1. CASE d = c
    BY <1>2, <2>1 DEF Waits
  <2>2. CASE d # c
    <3>1. Waits(d) \/ d \in infos \/ firstErr # "nil"
      BY <1>4, <1>6, <2>2 DEF FetchInv, FetchTyped, Delivered
    <3> QED
      BY <1>2, <3>1 DEF Waits
  <2> QED
    BY <2>1, <2>2
<1>7. Delivered'
  BY <1>5, <1>6 DEF Delivered
<1>8. CancelledLater'
  BY <1>4 DEF FetchInv, CancelledLater, GenuineCause, Stopped
<1> QED
  BY <1>3, <1>7, <1>8 DEF FetchInv, NoPartialInfos

\* A worker begins an attempt, or goes back to before one.
LEMMA AttemptKeeps ==
    ASSUME FetchInv, pc = "fetch", NEW c \in entries, worker[c] # "sent",
           NEW s \in {"check", "call"}, worker' = [worker EXCEPT ![c] = s],
           UNCHANGED <<pc, entries, infos, answer, inbox, cancelled, timedOut, firstErr>>
    PROVE  FetchInv'
<1>1. FetchTyped'
  BY DEF FetchInv, FetchTyped
<1>2. \A d \in Names : worker'[d] = "sent" <=> worker[d] = "sent"
  BY DEF FetchInv, FetchTyped
<1>3. \A i \in 1..Len(inbox) : inbox[i] \in Names
  BY DEF FetchInv, FetchTyped
<1>4. Delivered'
  BY <1>2, <1>3 DEF FetchInv, FetchTyped, Delivered, Waits
<1>5. CancelledLater'
  BY DEF FetchInv, CancelledLater, GenuineCause, Stopped
<1> QED
  BY <1>1, <1>4, <1>5 DEF FetchInv, NoPartialInfos

\* The collector takes an answer: it is among the chains' information, or there is an error.
LEMMA ReceiveKeeps == FetchInv /\ Receive => FetchInv'
<1> SUFFICES ASSUME FetchInv, Receive PROVE FetchInv'
  OBVIOUS
<1> DEFINE c == Head(inbox)
<1>1. /\ inbox \in Seq(Names) /\ Len(inbox) \in Nat \ {0} /\ c = inbox[1] /\ c \in Names
      /\ inbox' \in Seq(Names) /\ Len(inbox') = Len(inbox) - 1
      /\ \A i \in 1..Len(inbox') : inbox'[i] = inbox[i + 1]
  BY HeadTailProperties DEF Receive, FetchInv, FetchTyped
<1>2. worker[c] = "sent" /\ answer[c] \in {"ok", "failed", "cancelled"}
  <2>1. worker[inbox[1]] = "sent" /\ answer[inbox[1]] # "none"
    BY <1>1 DEF FetchInv, Delivered
  <2> QED
    BY <1>1, <2>1 DEF FetchInv, FetchTyped
<1>3. UNCHANGED <<pc, entries, worker, answer, timedOut>>
  BY DEF Receive
<1>4. \/ c \in infos' /\ infos' = infos \cup {c} /\ UNCHANGED <<firstErr, cancelled>>
      \/ firstErr = "nil" /\ firstErr' = answer[c] /\ answer[c] # "ok" /\ UNCHANGED infos
      \/ firstErr # "nil" /\ UNCHANGED <<firstErr, cancelled, infos>>
  BY <1>2 DEF Receive
<1>5. infos' \subseteq entries'
  <2>1. c \in entries
    BY <1>1 DEF FetchInv, Delivered
  <2> QED
    BY <1>3, <1>4, <2>1 DEF FetchInv, FetchTyped
<1>6. FetchTyped'
  BY <1>1, <1>2, <1>3, <1>4, <1>5 DEF FetchInv, FetchTyped
<1>7. \A i \in 1..Len(inbox') :
         inbox'[i] \in entries' /\ worker'[inbox'[i]] = "sent" /\ answer'[inbox'[i]] # "none"
  BY <1>1, <1>3 DEF FetchInv, Delivered
<1>8. ASSUME NEW d \in entries, worker[d] = "sent"
      PROVE  Waits(d)' \/ d \in infos' \/ firstErr' # "nil"
  <2>1. CASE d \in infos \/ firstErr # "nil"
    BY <1>2, <1>4, <2>1
  <2>2. CASE d = c
    BY <1>2, <1>4, <2>2
  <2>3. CASE Waits(d) /\ d # c
    <3>1. PICK i \in 1..Len(inbox) : inbox[i] = d
      BY <2>3 DEF Waits
    <3>2. i # 1 /\ i - 1 \in 1..Len(inbox') /\ inbox'[i - 1] = d
      BY <1>1, <2>3, <3>1
    <3> QED
      BY <3>2 DEF Waits
  <2> QED
    BY <1>8, <2>1, <2>2, <2>3 DEF FetchInv, Delivered
<1>9. Delivered'
  BY <1>3, <1>7, <1>8 DEF Delivered
<1>10. CancelledLater'
  <2>1. CASE firstErr = "nil" /\ firstErr' = answer[c] /\ answer[c] # "ok"
    <3>1. firstErr' # "nil" /\ (answer[c] = "cancelled" => timedOut)
      BY <1>1, <1>2, <2>1 DEF FetchInv, CancelledLater, Stopped
    <3> QED
      BY <1>3, <2>1, <3>1 DEF CancelledLater, GenuineCause, Stopped
  <2>2. CASE UNCHANGED <<firstErr, cancelled>>
    BY <1>3, <2>2 DEF FetchInv, CancelledLater, GenuineCause, Stopped
  <2> QED
    BY <1>4, <2>1, <2>2
<1> QED
  BY <1>3, <1>6, <1>9, <1>10 DEF FetchInv, NoPartialInfos, Receive

\* All workers have sent and nothing waits: all that was asked for has been received.
LEMMA AllReceived ==
    ASSUME FetchInv, Closed, firstErr = "nil"
    PROVE  infos = entries
<1>1. \A c \in entries : ~Waits(c)
  BY DEF Closed, Waits
<1> QED
  BY <1>1 DEF Closed, FetchInv, FetchTyped, Delivered

LEMMA FetchInvStep == FetchInv /\ [ConfigNext]_configVars => FetchInv'
<1> SUFFICES ASSUME FetchInv, [ConfigNext]_configVars PROVE FetchInv'
  OBVIOUS
<1> USE DEF fetching, workers
<1>1. CASE StartGenerate
  <2>1. CASE UNCHANGED <<pc, fetching>>
    BY <2>1 DEF FetchInv, FetchTyped, Delivered, Waits, CancelledLater, GenuineCause, Stopped,
                NoPartialInfos, NoWorkers
  <2>2. CASE UNCHANGED workers /\ pc' = "fetch" /\ entries' \subseteq Names /\ infos' = {}
    <3>1. NoWorkers /\ NoWorkers'
      BY <1>1, <2>2 DEF StartGenerate, FetchInv, NoWorkers
    <3>2. Delivered'
      BY <2>2, <3>1 DEF NoWorkers, Delivered
    <3> QED
      BY <2>2, <3>1, <3>2 DEF FetchInv, FetchTyped, CancelledLater, GenuineCause, Stopped,
                              NoPartialInfos
  <2>3. ASSUME NEW fleet \in Fleets PROVE PickedNames(fleet) \subseteq Names
    <3>1. fleet \in Seq(ListedServer)
      BY FleetsAssumption
    <3>2. \A i \in DOMAIN fleet : fleet[i] \in ListedServer
      BY <3>1
    <3>3. \A s \in ListedServer : s.name \in Names
      BY DEF ListedServer
    <3> QED
      BY <3>2, <3>3 DEF PickedNames, Picked
  <2> QED
    BY <1>1, <2>1, <2>2, <2>3 DEF StartGenerate
<1>2. ASSUME NEW c \in Names, CheckContext(c) PROVE FetchInv'
  BY <1>2, SendKeeps, AttemptKeeps DEF CheckContext
<1>3. ASSUME NEW c \in Names, Fetched(c) PROVE FetchInv'
  BY <1>3, SendKeeps DEF Fetched
<1>4. ASSUME NEW c \in Names, FetchFails(c) PROVE FetchInv'
  BY <1>4, SendKeeps, AttemptKeeps DEF FetchFails
<1>5. CASE TimeOut
  BY <1>5 DEF TimeOut, FetchInv, FetchTyped, Delivered, Waits, CancelledLater, GenuineCause,
              Stopped, NoPartialInfos
<1>6. CASE Receive
  BY <1>6, ReceiveKeeps
<1>7. CASE Collected
  <2>1. CASE Return("error")
    BY <2>1, ForgetKeeps DEF Return, ForgetFetch
  <2>2. CASE firstErr = "nil" /\ pc' = "publish" /\ ForgetWorkers /\ UNCHANGED <<entries, infos>>
    <3>1. infos = entries
      BY <1>7, <2>2, AllReceived DEF Collected
    <3> QED
      BY <2>2, <3>1, ForgetKeeps DEF FetchInv, FetchTyped
  <2> QED
    BY <1>7, <2>1, <2>2 DEF Collected
<1>8. CASE Truncate \/ BenchStep
  <2>1. UNCHANGED <<pc, fetching>>
    BY <1>8 DEF Truncate, BenchStep, ReadConfig, ReadAll, ReadJobs, BenchEnds
  <2> QED
    BY <2>1 DEF FetchInv, FetchTyped, Delivered, Waits, CancelledLater,
                GenuineCause, Stopped, NoPartialInfos, NoWorkers
<1>9. CASE Write
  <2>1. CASE Return("nil")
    BY <2>1, ForgetKeeps DEF Return, ForgetFetch
  <2>2. CASE UNCHANGED <<pc, fetching>>
    BY <2>2 DEF FetchInv, FetchTyped, Delivered, Waits, CancelledLater,
                GenuineCause, Stopped, NoPartialInfos, NoWorkers
  <2> QED
    BY <1>9, <2>1, <2>2 DEF Write
<1>10. CASE Abort
  BY <1>10, ForgetKeeps DEF Abort, Return, ForgetFetch
<1>11. CASE UNCHANGED configVars
  BY <1>11 DEF configVars, FetchInv, FetchTyped, Delivered, Waits, CancelledLater,
               GenuineCause, Stopped, NoPartialInfos, NoWorkers
<1> QED
  BY <1>1, <1>2, <1>3, <1>4, <1>5, <1>6, <1>7, <1>8, <1>9, <1>10, <1>11
  DEF ConfigNext, FetchStep

LEMMA AlwaysFetchInv == ConfigSpec => []FetchInv
<1>1. ConfigInit => FetchInv
  BY FetchStart
<1>2. FetchInv /\ [ConfigNext]_configVars => FetchInv'
  BY FetchInvStep
<1> QED
  BY <1>1, <1>2, PTL DEF ConfigSpec

\* However the answers, failures, retries and the cancellation interleave, jobs are made
\* from the information of every chain picked.
THEOREM NeverPartialInfos == ConfigSpec => []NoPartialInfos
<1>1. FetchInv => NoPartialInfos
  BY DEF FetchInv
<1> QED
  BY <1>1, AlwaysFetchInv, PTL

\* The error that is kept is never the cancellation it caused elsewhere.
THEOREM CauseAlwaysGenuine == ConfigSpec => []GenuineCause
<1>1. FetchInv => GenuineCause
  BY DEF FetchInv, CancelledLater
<1> QED
  BY <1>1, AlwaysFetchInv, PTL
----------------------------------------------------------------------------
(* Publishing: how the files of a generation come about. *)

\* A generation writes jobs of its own, and the copy is older until the end.
Publishing ==
    /\ pc = "publish" =>
         /\ plan = [gen |-> generation, jobs |-> plan.jobs, parts |-> plan.parts]
         /\ plan.parts \in PartNumbers /\ at \in 0..(plan.parts + 1)
         /\ at > 0 => file[All] = plan
         /\ at = 0 /\ open => file[All] = Unreadable
         /\ at = plan.parts + 1 /\ open => file[Copy] = Unreadable
         /\ \A k \in 1..(at - 1) : file[k] = Chunk(plan, k)

Whole(all) == \A k \in 1..all.parts : file[k] = Chunk(all, k)

PublishInv ==
    /\ generation \in Nat /\ DOMAIN file = Paths
    /\ file[Copy].gen \in 0..generation
    /\ pc # "idle" => file[Copy].gen < generation
    /\ Publishing
    /\ Readable(file[Copy]) /\ file[Copy] = file[All] => Whole(file[All])

LEMMA AllAndCopy == All \in Paths /\ Copy \in Paths /\ All # Copy
BY DEF All, Copy, Paths

LEMMA PublishStart == ConfigInit => PublishInv
BY AllAndCopy
   DEF ConfigInit, PublishInv, Publishing, Unreadable, Readable

\* Nothing is written, and the generation that runs is none or the newest.
LEMMA FilesKept ==
    ASSUME PublishInv, UNCHANGED file, generation' \in Nat,
           generation' >= generation,
           \/ pc' = "idle"
           \/ pc' = "fetch" /\ (pc = "fetch" \/ generation' > generation)
    PROVE  PublishInv'
BY DEF PublishInv, Publishing, Whole

LEMMA PublishBegins ==
    ASSUME PublishInv, Collected, pc' = "publish"
    PROVE  PublishInv'
<1>1. PICK parts \in PartNumbers :
         plan' = [gen |-> generation, jobs |-> JobsOf(entries), parts |-> parts]
  BY DEF Collected, Return
<1>2. at' = 0 /\ open' = FALSE /\ UNCHANGED <<generation, file>> /\ pc # "idle"
  BY DEF Collected, Return
<1>3. parts \in Nat
  BY NumbersAssumption
<1>4. plan' = [gen |-> generation', jobs |-> plan'.jobs, parts |-> plan'.parts]
      /\ plan'.parts = parts
  BY <1>1, <1>2
<1>5. Publishing'
  BY <1>2, <1>3, <1>4 DEF Publishing
<1> QED
  BY <1>2, <1>5 DEF PublishInv, Whole

\* The file at work is one of the generation's.
LEMMA PathType ==
    ASSUME PublishInv, pc = "publish"
    PROVE  /\ plan.parts \in Nat \ {0} /\ at \in 0..(plan.parts + 1) /\ Path(at) \in Paths
           /\ at = 0 <=> Path(at) = All
           /\ at = plan.parts + 1 <=> Path(at) = Copy
           /\ at \in 1..plan.parts => Path(at) = at
<1>1. plan.parts \in PartNumbers /\ plan.parts \in Nat \ {0} /\ at \in 0..(plan.parts + 1)
  BY NumbersAssumption DEF PublishInv, Publishing
<1>2. \A k \in 1..plan.parts : k \in Paths
  BY <1>1 DEF Paths
<1> QED
  BY <1>1, <1>2, AllAndCopy DEF Path, All, Copy

\* While a generation publishes, the copy is unreadable or of an older one.
LEMMA CopyIsOlder ==
    ASSUME PublishInv, pc = "publish"
    PROVE  file[Copy] # plan
<1>1. plan.gen = generation
  BY DEF PublishInv, Publishing
<1> QED
  BY <1>1 DEF PublishInv

LEMMA TruncateKeeps == PublishInv /\ Truncate => PublishInv'
<1> SUFFICES ASSUME PublishInv, Truncate PROVE PublishInv'
  OBVIOUS
<1>1. /\ pc = "publish" /\ ~open /\ open' = TRUE
      /\ file' = [file EXCEPT ![Path(at)] = Unreadable]
      /\ UNCHANGED <<pc, generation, plan, at>>
  BY DEF Truncate
<1>2. /\ DOMAIN file' = Paths /\ file'[Path(at)] = Unreadable
      /\ \A p \in Paths : p # Path(at) => file'[p] = file[p]
  BY <1>1, PathType DEF PublishInv
<1>3. file'[Copy].gen \in 0..generation /\ file'[Copy].gen < generation
  BY <1>1, <1>2, AllAndCopy DEF PublishInv, Unreadable
<1>4. \A k \in 1..(at - 1) : file'[k] = file[k]
  <2> SUFFICES ASSUME NEW k \in 1..(at - 1) PROVE file'[k] = file[k]
    OBVIOUS
  <2>1. k \in 1..plan.parts /\ k # at /\ k \in Paths /\ k # All /\ k # Copy
    BY <1>1, PathType DEF Paths, PublishInv, Publishing, All, Copy
  <2> QED
    BY <1>1, <1>2, <2>1, PathType
<1>5. Publishing'
  <2>1. plan' = [gen |-> generation', jobs |-> plan'.jobs, parts |-> plan'.parts]
        /\ plan'.parts \in PartNumbers /\ at' \in 0..(plan'.parts + 1)
    BY <1>1 DEF PublishInv, Publishing
  <2>2. at' > 0 => file'[All] = plan'
    BY <1>1, <1>2, PathType, AllAndCopy DEF PublishInv, Publishing
  <2>3. at' = 0 => file'[All] = Unreadable
    BY <1>1, <1>2, PathType
  <2>4. at' = plan'.parts + 1 => file'[Copy] = Unreadable
    BY <1>1, <1>2, PathType
  <2>5. \A k \in 1..(at' - 1) : file'[k] = Chunk(plan', k)
    BY <1>1, <1>4 DEF PublishInv, Publishing
  <2> QED
    BY <2>1, <2>2, <2>3, <2>4, <2>5 DEF Publishing
<1>6. ~(Readable(file'[Copy]) /\ file'[Copy] = file'[All])
  <2>1. CASE at = 0
    BY <1>1, <1>2, <2>1, PathType DEF Readable, Unreadable
  <2>2. CASE at # 0
    <3>1. at > 0 /\ file'[All] = plan /\ plan.gen = generation
      BY <1>1, <1>2, <2>2, PathType, AllAndCopy DEF PublishInv, Publishing
    <3> QED
      BY <1>3, <3>1 DEF PublishInv
  <2> QED
    BY <2>1, <2>2
<1> QED
  BY <1>1, <1>2, <1>3, <1>5, <1>6 DEF PublishInv

LEMMA WriteKeeps == PublishInv /\ Write => PublishInv'
<1> SUFFICES ASSUME PublishInv, Write PROVE PublishInv'
  OBVIOUS
<1>1. /\ pc = "publish" /\ open /\ file' = [file EXCEPT ![Path(at)] = Written(Path(at))]
      /\ UNCHANGED generation
  BY DEF Write
<1>2. /\ DOMAIN file' = Paths /\ file'[Path(at)] = Written(Path(at))
      /\ \A p \in Paths : p # Path(at) => file'[p] = file[p]
  BY <1>1, PathType DEF PublishInv
<1>3. \A k \in 1..(at - 1) : file'[k] = Chunk(plan, k)
  <2> SUFFICES ASSUME NEW k \in 1..(at - 1) PROVE file'[k] = file[k]
    BY <1>1 DEF PublishInv, Publishing
  <2>1. k \in 1..plan.parts /\ k # at /\ k \in Paths /\ k # All /\ k # Copy
    BY <1>1, PathType DEF Paths, PublishInv, Publishing, All, Copy
  <2> QED
    BY <1>1, <1>2, <2>1, PathType
<1>4. CASE at <= plan.parts
  <2>1. /\ at' = at + 1 /\ open' = FALSE /\ UNCHANGED <<pc, plan>> /\ file'[Copy] = file[Copy]
    BY <1>1, <1>2, <1>4, PathType, AllAndCopy DEF Write
  <2>2. file'[All] = plan
    <3>1. CASE at = 0
      BY <1>1, <1>2, <3>1, PathType DEF Written
    <3>2. CASE at # 0
      BY <1>1, <1>2, <3>2, PathType, AllAndCopy DEF PublishInv, Publishing
    <3> QED
      BY <3>1, <3>2
  <2>3. \A k \in 1..at : file'[k] = Chunk(plan, k)
    <3>1. at # 0 => file'[at] = Chunk(plan, at)
      BY <1>1, <1>2, <1>4, PathType, AllAndCopy DEF Written
    <3> QED
      BY <1>1, <1>3, <3>1, PathType
  <2>4. Publishing'
    <3>1. at \in 0..plan.parts /\ plan.parts \in Nat
      BY <1>1, <1>4, PathType
    <3>2. plan' = [gen |-> generation', jobs |-> plan'.jobs, parts |-> plan'.parts]
          /\ plan'.parts \in PartNumbers /\ at' \in 0..(plan'.parts + 1) /\ at' - 1 = at
      BY <1>1, <2>1, <3>1 DEF PublishInv, Publishing
    <3>3. \A k \in 1..(at' - 1) : file'[k] = Chunk(plan', k)
      BY <2>1, <2>3, <3>2
    <3> QED
      BY <2>1, <2>2, <3>1, <3>2, <3>3 DEF Publishing
  <2>5. file'[Copy] # file'[All]
    BY <1>1, <2>1, <2>2, CopyIsOlder
  <2> QED
    BY <1>1, <1>2, <2>1, <2>4, <2>5 DEF PublishInv
<1>5. CASE at > plan.parts
  <2>1. at = plan.parts + 1 /\ Path(at) = Copy /\ plan.parts \in Nat
    BY <1>1, <1>5, PathType
  <2>2. file'[All] = plan /\ file'[Copy] = plan
    BY <1>1, <1>2, <2>1, AllAndCopy DEF PublishInv, Publishing, Written
  <2>3. pc' = "idle"
    BY <1>5, <2>1 DEF Write, Return
  <2>4. Whole(file[All])'
    <3>1. at - 1 = plan.parts
      BY <2>1
    <3> QED
      BY <1>3, <2>2, <3>1 DEF Whole
  <2>5. plan.gen = generation
    BY <1>1 DEF PublishInv, Publishing
  <2> QED
    BY <1>1, <1>2, <2>2, <2>3, <2>4, <2>5 DEF PublishInv, Publishing
<1> QED
  BY <1>1, <1>4, <1>5, PathType

LEMMA PublishStep == PublishInv /\ [ConfigNext]_configVars => PublishInv'
<1> SUFFICES ASSUME PublishInv, [ConfigNext]_configVars PROVE PublishInv'
  OBVIOUS
<1> USE DEF publishing
<1>0. generation \in Nat
  BY DEF PublishInv
<1>1. CASE StartGenerate
  <2>1. pc = "idle" /\ pc' \in {"idle", "fetch"} /\ generation' = generation + 1
        /\ UNCHANGED file
    BY <1>1 DEF StartGenerate
  <2> QED
    BY <1>0, <2>1, FilesKept
<1>2. ASSUME NEW c \in Names, CheckContext(c) \/ Fetched(c) \/ FetchFails(c) PROVE PublishInv'
  BY <1>0, <1>2, FilesKept DEF CheckContext, Fetched, FetchFails
<1>3. CASE TimeOut \/ Receive
  BY <1>0, <1>3, FilesKept DEF TimeOut, Receive
<1>4. CASE Collected
  <2>1. CASE pc' = "idle"
    BY <1>0, <1>4, <2>1, FilesKept DEF Collected
  <2>2. CASE pc' = "publish"
    BY <1>4, <2>2, PublishBegins
  <2> QED
    BY <1>4, <2>1, <2>2 DEF Collected, Return
<1>5. CASE Truncate
  BY <1>5, TruncateKeeps
<1>6. CASE Write
  BY <1>6, WriteKeeps
<1>7. CASE Abort
  BY <1>0, <1>7, FilesKept DEF Abort, Return
<1>8. CASE BenchStep
  <2>1. UNCHANGED <<pc, generation, plan, at, open, file>>
    BY <1>8 DEF BenchStep, ReadConfig, ReadAll, ReadJobs, BenchEnds
  <2> QED
    BY <2>1 DEF PublishInv, Publishing, Whole
<1>9. CASE UNCHANGED configVars
  BY <1>9 DEF configVars, PublishInv, Publishing, Whole
<1> QED
  BY <1>1, <1>2, <1>3, <1>4, <1>5, <1>6, <1>7, <1>8, <1>9 DEF ConfigNext, FetchStep
----------------------------------------------------------------------------
(* The numbered files. *)

\* A natural number divided with remainder.
LEMMA DivMod ==
    ASSUME NEW n \in Nat, NEW d \in Nat \ {0}
    PROVE  /\ n \div d \in Nat /\ n % d \in 0..(d - 1) /\ n = d * (n \div d) + (n % d)
OBVIOUS

LEMMA OneMore ==
    ASSUME NEW k \in Int, NEW q \in Int
    PROVE  (k - 1) * q + q = k * q
OBVIOUS

\* Where the k-th of the parts ends: the first of them have one job more.
CutAt(jobs, parts, k) ==
    k * (Len(jobs) \div parts)
      + (IF k <= (Len(jobs) % parts) THEN k ELSE (Len(jobs) % parts))

\* The parts follow one another, from the first job to the last.
LEMMA CutsFollow ==
    ASSUME NEW jobs \in Seq(Names), NEW parts \in Nat \ {0}
    PROVE  /\ \A k \in 0..parts : CutAt(jobs, parts, k) \in 0..Len(jobs)
           /\ \A k \in 1..parts :
                /\ CutAt(jobs, parts, k - 1) <= CutAt(jobs, parts, k)
                /\ ChunkStart(jobs, parts, k) = CutAt(jobs, parts, k - 1)
                /\ ChunkStart(jobs, parts, k) + ChunkSize(jobs, parts, k)
                     = CutAt(jobs, parts, k)
           /\ CutAt(jobs, parts, 0) = 0 /\ CutAt(jobs, parts, parts) = Len(jobs)
<1>0. Len(jobs) \in Nat
  BY LenProperties
<1>1. PICK q \in Nat : q = Len(jobs) \div parts
  BY <1>0, DivMod
<1>2. PICK r \in 0..(parts - 1) : r = Len(jobs) % parts
  BY <1>0, DivMod
<1>3. Len(jobs) = parts * q + r
  BY <1>0, <1>1, <1>2, DivMod
<1> DEFINE Extra(k) == IF k <= r THEN k ELSE r
<1>4. \A k : CutAt(jobs, parts, k) = k * q + Extra(k)
  BY <1>1, <1>2 DEF CutAt
<1>5. CutAt(jobs, parts, 0) = 0 /\ CutAt(jobs, parts, parts) = Len(jobs)
  BY <1>1, <1>2, <1>3, <1>4
<1>6. ASSUME NEW k \in 1..parts
      PROVE  /\ ChunkStart(jobs, parts, k) = (k - 1) * q + Extra(k - 1)
             /\ ChunkSize(jobs, parts, k) = q + (IF k <= r THEN 1 ELSE 0)
  BY <1>1, <1>2 DEF ChunkStart, ChunkSize
<1>7. ASSUME NEW k \in 1..parts
      PROVE  /\ CutAt(jobs, parts, k - 1) <= CutAt(jobs, parts, k)
             /\ ChunkStart(jobs, parts, k) = CutAt(jobs, parts, k - 1)
             /\ ChunkStart(jobs, parts, k) + ChunkSize(jobs, parts, k)
                  = CutAt(jobs, parts, k)
  <2>1. PICK a \in Int : a = (k - 1) * q
    OBVIOUS
  <2>2. k * q = a + q
    BY <2>1, OneMore
  <2>3. Extra(k) = Extra(k - 1) + (IF k <= r THEN 1 ELSE 0) /\ Extra(k - 1) \in Int
    BY <1>2
  <2>4. CutAt(jobs, parts, k) = a + q + Extra(k) /\ CutAt(jobs, parts, k - 1) = a + Extra(k - 1)
    BY <1>4, <2>1, <2>2
  <2>5. /\ ChunkStart(jobs, parts, k) = a + Extra(k - 1)
        /\ ChunkSize(jobs, parts, k) = q + (IF k <= r THEN 1 ELSE 0)
    BY <1>6, <2>1
  <2>6. PICK e \in Int : e = Extra(k - 1)
    BY <2>3
  <2>7. PICK x \in {0, 1} : x = IF k <= r THEN 1 ELSE 0
    OBVIOUS
  <2> HIDE DEF Extra
  <2> QED
    BY <2>3, <2>4, <2>5, <2>6, <2>7
<1>8. ASSUME NEW k \in 0..parts PROVE CutAt(jobs, parts, k) \in 0..Len(jobs)
  <2>1. k * q \in Nat /\ k * q <= parts * q
    OBVIOUS
  <2>2. Extra(k) \in 0..r
    BY <1>2
  <2>3. PICK a \in Nat : a = k * q
    BY <2>1
  <2>4. PICK b \in Nat : b = parts * q
    OBVIOUS
  <2>5. PICK e \in 0..r : e = Extra(k)
    BY <2>2
  <2> HIDE DEF Extra
  <2>6. CutAt(jobs, parts, k) = a + e /\ Len(jobs) = b + r /\ a <= b
    BY <1>3, <1>4, <2>1, <2>3, <2>4, <2>5
  <2> QED
    BY <2>6
<1> QED
  BY <1>5, <1>7, <1>8

\* A numbered file has jobs of all.json.
LEMMA ChunkType ==
    ASSUME NEW all \in Content, all.parts # 0, NEW k \in 1..all.parts
    PROVE  Chunk(all, k) \in Content
<1> DEFINE from == ChunkStart(all.jobs, all.parts, k)
           to == from + ChunkSize(all.jobs, all.parts, k)
<1>1. /\ all.jobs \in Seq(Names) /\ all.parts \in Nat \ {0} /\ Len(all.jobs) \in Nat
      /\ \A i \in 1..Len(all.jobs) : all.jobs[i] \in Names
  BY LenProperties DEF Content
<1>2. k - 1 \in 0..all.parts /\ k \in 0..all.parts
  BY <1>1
<1>3. from \in 0..Len(all.jobs) /\ to \in 0..Len(all.jobs)
  BY <1>1, <1>2, CutsFollow
<1> HIDE DEF from, to
<1>4. PICK a \in Int : a = from + 1
  BY <1>1, <1>3
<1>5. to \in Int /\ \A i \in a..to : all.jobs[i] \in Names
  BY <1>1, <1>3, <1>4
<1>6. SubSeq(all.jobs, a, to) \in Seq(Names)
  BY <1>5, SubSeqProperties
<1> QED
  BY <1>4, <1>6 DEF Chunk, Content, from, to
----------------------------------------------------------------------------
(* Types. *)

Counted ==
    /\ generation \in 0..MaxGenerations /\ tries \in [Names -> 0..Attempts]
    /\ cancelled \in BOOLEAN /\ timedOut \in BOOLEAN
    /\ outcome \in {"none", "nil", "error"}

\* Files have jobs, and a file that can be read has parts.
FilesTyped ==
    /\ plan \in Content /\ at \in Nat /\ open \in BOOLEAN /\ file \in [Paths -> Content]
    /\ Readable(file[All]) => file[All].parts # 0

BenchTyped ==
    /\ bench \in BenchRun
    /\ bench.checked => bench.all.parts # 0

ConfigTyped == Counted /\ FilesTyped /\ BenchTyped

LEMMA UnreadableType == Unreadable \in Content /\ ~Readable(Unreadable)
BY DEF Unreadable, Content, Readable

LEMMA NoBenchType == NoBench \in BenchRun /\ NoBench.checked = FALSE
<1>1. [k \in 1..BenchServices |-> Unreadable] \in [1..BenchServices -> Content]
  BY UnreadableType
<1> QED
  BY <1>1, UnreadableType DEF NoBench, BenchRun

LEMMA TypesStart == ConfigInit => ConfigTyped
<1> SUFFICES ASSUME ConfigInit PROVE ConfigTyped
  OBVIOUS
<1>1. generation = 0 /\ tries = [c \in Names |-> 0] /\ outcome = "none"
      /\ cancelled = FALSE /\ timedOut = FALSE
  BY DEF ConfigInit
<1>2. Counted
  <2>1. generation \in 0..MaxGenerations /\ tries \in [Names -> 0..Attempts]
    BY <1>1, NumbersAssumption
  <2>2. cancelled \in BOOLEAN /\ timedOut \in BOOLEAN
    BY <1>1, Zenon
  <2> QED
    BY <1>1, <2>1, <2>2 DEF Counted
<1>3. FilesTyped
  BY UnreadableType, AllAndCopy DEF ConfigInit, FilesTyped
<1>4. BenchTyped
  BY NoBenchType DEF ConfigInit, BenchTyped
<1> QED
  BY <1>2, <1>3, <1>4 DEF ConfigTyped

\* The chains' jobs.
LEMMA JobsType ==
    ASSUME NEW chains \in SUBSET Names
    PROVE  JobsOf(chains) \in Seq(Names)
<1>1. IsFiniteSet(chains)
  BY FleetsAssumption, FS_Subset
<1>2. JobsOf(chains) \in Seq(chains)
  BY <1>1, SetAsSequence DEF JobsOf
<1> QED
  BY <1>2, SeqMonotonic

LEMMA CountedStep == Counted /\ FetchInv /\ [ConfigNext]_configVars => Counted'
<1> SUFFICES ASSUME Counted, FetchInv, [ConfigNext]_configVars PROVE Counted'
  OBVIOUS
<1> USE DEF Counted, fetching, workers
<1>0. ASSUME ForgetWorkers PROVE tries' \in [Names -> 0..Attempts] /\ cancelled' \in BOOLEAN
                                 /\ timedOut' \in BOOLEAN
  <2>1. tries' \in [Names -> 0..Attempts]
    BY <1>0, NumbersAssumption DEF ForgetWorkers
  <2>2. cancelled' \in BOOLEAN /\ timedOut' \in BOOLEAN
    BY <1>0, Zenon DEF ForgetWorkers
  <2> QED
    BY <2>1, <2>2
<1>1. CASE StartGenerate
  BY <1>1, NumbersAssumption DEF StartGenerate
<1>2. ASSUME NEW c \in Names, CheckContext(c) \/ Fetched(c) PROVE Counted'
  BY <1>2 DEF CheckContext, Fetched
<1>3. ASSUME NEW c \in Names, FetchFails(c) PROVE Counted'
  <2>1. tries' = [tries EXCEPT ![c] = @ + 1] /\ tries'[c] <= Attempts
    BY <1>3, NumbersAssumption DEF FetchFails
  <2>2. tries' \in [Names -> 0..Attempts]
    BY <2>1, NumbersAssumption
  <2> QED
    BY <1>3, <2>2 DEF FetchFails
<1>4. CASE TimeOut \/ Truncate \/ BenchStep
  BY <1>4 DEF TimeOut, Truncate, BenchStep, ReadConfig, ReadAll, ReadJobs, BenchEnds
<1>5. CASE Receive
  <2>1. cancelled' \in BOOLEAN
    BY <1>5 DEF Receive
  <2> QED
    BY <1>5, <2>1 DEF Receive
<1>6. CASE Collected \/ Abort
  <2>1. ForgetWorkers /\ UNCHANGED generation
    BY <1>6 DEF Collected, Abort, Return, ForgetFetch
  <2>2. outcome' \in {"none", "nil", "error"}
    BY <1>6 DEF Collected, Abort, Return
  <2> QED
    BY <1>0, <2>1, <2>2
<1>7. CASE Write
  <2>1. CASE Return("nil")
    BY <1>0, <1>7, <2>1 DEF Write, Return, ForgetFetch
  <2>2. CASE UNCHANGED <<fetching, outcome>>
    BY <1>7, <2>2 DEF Write
  <2> QED
    BY <1>7, <2>1, <2>2 DEF Write
<1>8. CASE UNCHANGED configVars
  BY <1>8 DEF configVars
<1> QED
  BY <1>1, <1>2, <1>3, <1>4, <1>5, <1>6, <1>7, <1>8 DEF ConfigNext, FetchStep

LEMMA FilesStep ==
    FilesTyped /\ FetchInv /\ PublishInv /\ [ConfigNext]_configVars => FilesTyped'
<1> SUFFICES ASSUME FilesTyped, FetchInv, PublishInv, [ConfigNext]_configVars PROVE FilesTyped'
  OBVIOUS
<1> USE DEF publishing
<1>0. ASSUME plan' = Unreadable, at' = 0, open' = FALSE, UNCHANGED file PROVE FilesTyped'
  BY <1>0, UnreadableType DEF FilesTyped
<1>1. CASE UNCHANGED publishing
  BY <1>1 DEF FilesTyped
<1>2. CASE Collected
  <2>1. CASE Return("error")
    BY <1>0, <1>2, <2>1 DEF Collected, Return
  <2>2. CASE \E parts \in PartNumbers :
               plan' = [gen |-> generation, jobs |-> JobsOf(entries), parts |-> parts]
    <3>1. JobsOf(entries) \in Seq(Names) /\ generation \in Nat
      BY JobsType DEF FetchInv, FetchTyped, PublishInv
    <3>2. plan' \in Content
      BY <2>2, <3>1, NumbersAssumption DEF Content
    <3>3. CASE at' = 0 /\ open' = FALSE
      BY <1>2, <3>2, <3>3 DEF FilesTyped, Collected
    <3> QED
      BY <1>2, <2>1, <3>3 DEF Collected
  <2> QED
    BY <1>2, <2>1, <2>2 DEF Collected
<1>3. CASE Truncate
  <2>1. file' \in [Paths -> Content] /\ file'[All] \in {Unreadable, file[All]}
    BY <1>3, UnreadableType, AllAndCopy DEF Truncate, FilesTyped
  <2> QED
    BY <1>3, <2>1, UnreadableType DEF Truncate, FilesTyped
<1>4. CASE Write
  <2>1. pc = "publish" /\ file' = [file EXCEPT ![Path(at)] = Written(Path(at))]
    BY <1>4 DEF Write
  <2>2. plan.parts \in Nat \ {0} /\ at \in 0..(plan.parts + 1) /\ plan \in Content
    BY <2>1, PathType DEF FilesTyped
  <2>3. Written(Path(at)) \in Content /\ (Path(at) = All => Written(Path(at)) = plan)
    <3>1. CASE Path(at) = All
      BY <2>2, <3>1, AllAndCopy DEF Written
    <3>2. CASE Path(at) = Copy
      BY <3>2, AllAndCopy DEF Written, FilesTyped
    <3>3. CASE Path(at) \notin {All, Copy}
      <4>1. at \in 1..plan.parts /\ Path(at) = at
        BY <2>1, <2>2, <3>3, PathType
      <4>2. Chunk(plan, at) \in Content
        BY <2>2, <4>1, ChunkType
      <4> QED
        BY <3>3, <4>1, <4>2 DEF Written
    <3> QED
      BY <3>1, <3>2, <3>3
  <2>4. file' \in [Paths -> Content]
    BY <2>1, <2>3 DEF FilesTyped
  <2>5. Readable(file'[All]) => file'[All].parts # 0
    <3>1. file'[All] \in {plan, file[All]}
      BY <2>1, <2>3, AllAndCopy DEF FilesTyped
    <3> QED
      BY <2>2, <3>1 DEF FilesTyped
  <2>6. plan' \in Content /\ at' \in Nat /\ open' \in BOOLEAN
    <3>1. CASE at' = at + 1 /\ open' = FALSE /\ UNCHANGED plan
      <4>1. at' \in Nat /\ plan' \in Content
        BY <2>2, <3>1
      <4>2. open' \in BOOLEAN
        BY <3>1, Zenon
      <4> QED
        BY <4>1, <4>2
    <3>2. CASE Return("nil")
      BY <3>2, UnreadableType DEF Return
    <3> QED
      BY <1>4, <3>1, <3>2 DEF Write
  <2> QED
    BY <2>4, <2>5, <2>6 DEF FilesTyped
<1>5. CASE Abort
  BY <1>0, <1>5 DEF Abort, Return
<1> QED
  BY <1>1, <1>2, <1>3, <1>4, <1>5
  DEF ConfigNext, FetchStep, StartGenerate, CheckContext, Fetched, FetchFails, Receive,
      TimeOut, BenchStep, ReadConfig, ReadAll, ReadJobs, BenchEnds, configVars

\* What a step makes of the bench.
LEMMA BenchTypedStep == FilesTyped /\ BenchTyped /\ [ConfigNext]_configVars => BenchTyped'
<1> SUFFICES ASSUME FilesTyped, BenchTyped, [ConfigNext]_configVars PROVE BenchTyped'
  OBVIOUS
<1>0. bench \in BenchRun /\ (bench.checked => bench.all.parts # 0)
  BY DEF BenchTyped
<1>1. CASE UNCHANGED bench
  BY <1>1 DEF BenchTyped
<1>2. CASE bench' = NoBench
  BY <1>2, NoBenchType DEF BenchTyped
<1>3. CASE ReadConfig
  BY <1>0, <1>3, AllAndCopy DEF ReadConfig, BenchTyped, BenchRun, FilesTyped
<1>4. CASE ReadAll
  <2>1. CASE bench' = Started /\ SameJobs(bench.config, file[All])
    <3>1. bench.config = file[All] /\ bench.config \in Content /\ bench.config.parts # 0
      BY <1>0, <2>1 DEF SameJobs, FilesTyped, BenchRun
    <3>2. Started \in BenchRun /\ Started.all = bench.config
      BY <3>1, NoBenchType DEF Started, BenchRun
    <3> QED
      BY <2>1, <3>1, <3>2 DEF BenchTyped
  <2> QED
    BY <1>2, <1>4, <2>1 DEF ReadAll
<1>5. ASSUME NEW k \in 1..BenchServices, ReadJobs(k) PROVE BenchTyped'
  <2>1. file[k] \in Content
    BY DEF Paths, FilesTyped
  <2>2. bench' = [bench EXCEPT !.chunk[k] = file[k], !.due = @ \ {k}]
    BY <1>5 DEF ReadJobs
  <2>3. bench' \in BenchRun /\ bench'.checked = bench.checked /\ bench'.all = bench.all
    BY <1>0, <2>1, <2>2 DEF BenchRun
  <2> QED
    BY <1>0, <2>3 DEF BenchTyped
<1>6. CASE Truncate
  BY <1>0, <1>6 DEF Truncate, BenchTyped, BenchRun
<1> QED
  BY <1>1, <1>2, <1>3, <1>4, <1>5, <1>6
  DEF ConfigNext, FetchStep, BenchStep, StartGenerate, CheckContext, Fetched, FetchFails, Receive,
      Collected, TimeOut, Write, Abort, BenchEnds, configVars

LEMMA AlwaysConfigTyped == ConfigSpec => [](ConfigTyped /\ FetchInv /\ PublishInv)
<1>1. ConfigInit => ConfigTyped /\ FetchInv /\ PublishInv
  BY TypesStart, FetchStart, PublishStart
<1>2. ConfigTyped /\ FetchInv /\ PublishInv /\ [ConfigNext]_configVars
        => (ConfigTyped /\ FetchInv /\ PublishInv)'
  BY CountedStep, FilesStep, BenchTypedStep, FetchInvStep, PublishStep DEF ConfigTyped
<1> QED
  BY <1>1, <1>2, PTL DEF ConfigSpec

\* Every variable of a generation and of the benches keeps its type.
THEOREM ConfigTypeCorrect == ConfigSpec => []ConfigTypeOK
<1>1. ConfigTyped /\ FetchInv /\ PublishInv => ConfigTypeOK
  BY DEF ConfigTyped, Counted, FilesTyped, BenchTyped, FetchInv, FetchTyped, ConfigTypeOK
<1> QED
  BY <1>1, AlwaysConfigTyped, PTL

----------------------------------------------------------------------------
(* The bench. *)

\* Between the reads of the comparison: an all.json that still equals the config is whole.
Comparing ==
    bench.stage = "compare" =>
        /\ Readable(bench.config) /\ bench.config.gen \in 0..generation
        /\ pc # "idle" => bench.config.gen < generation
        /\ file[All] = bench.config => Whole(bench.config)

\* After it: the file of a service that has yet to read is untouched or overtaken.
Untouched ==
    bench.checked =>
        /\ bench.stage = "start"
        /\ pc = "publish" /\ open => Path(at) \notin bench.due \ bench.overtaken
        /\ \A k \in (1..bench.all.parts) \cap (1..BenchServices) :
              k \in bench.due \ bench.overtaken => file[k] = Chunk(bench.all, k)

BenchInv == Comparing /\ Untouched /\ ValidatedIsWhole

\* Whoever has begun to write has begun with all.json.
LEMMA WritingShows ==
    ASSUME PublishInv, pc = "publish", at # 0 \/ open,
           NEW config, config.gen \in 0..generation, config.gen < generation, Readable(config)
    PROVE  file[All] # config
<1>1. at = 0 => file[All] = Unreadable
  BY DEF PublishInv, Publishing
<1>2. at > 0 => file[All] = plan /\ plan.gen = generation
  BY DEF PublishInv, Publishing
<1>3. at = 0 \/ at > 0
  BY PathType
<1> QED
  BY <1>1, <1>2, <1>3 DEF Unreadable, Readable

LEMMA BenchStart == ConfigInit => BenchInv
BY DEF ConfigInit, NoBench, BenchInv, Comparing, Untouched, ValidatedIsWhole

\* Nothing is written, and the bench goes on as it was.
LEMMA BenchWaits ==
    ASSUME BenchInv, UNCHANGED <<file, bench>>, generation \in Nat, generation' \in Nat,
           \/ /\ generation' = generation /\ pc' = "idle"
           \/ /\ generation' = generation /\ pc' = pc /\ pc # "publish"
           \/ /\ generation' = generation /\ pc # "idle" /\ pc' = "publish" /\ open' = FALSE
           \/ /\ generation' = generation + 1 /\ pc' \in {"idle", "fetch"}
    PROVE  BenchInv'
<1>1. Comparing'
  BY DEF BenchInv, Comparing, Whole
<1>2. Untouched'
  BY DEF BenchInv, Untouched
<1>3. ValidatedIsWhole'
  BY DEF BenchInv, ValidatedIsWhole
<1> QED
  BY <1>1, <1>2, <1>3 DEF BenchInv

LEMMA TruncateSpares == ASSUME PublishInv, BenchTyped, BenchInv, Truncate PROVE BenchInv'
<1>1. /\ pc = "publish" /\ ~open /\ open' = TRUE
      /\ file' = [file EXCEPT ![Path(at)] = Unreadable]
      /\ UNCHANGED <<pc, generation, plan, at>>
  BY DEF Truncate
<1>2. /\ bench' \in BenchRun /\ bench'.stage = bench.stage /\ bench'.checked = bench.checked
      /\ bench'.config = bench.config /\ bench'.all = bench.all /\ bench'.due = bench.due
      /\ bench'.chunk = bench.chunk
      /\ bench'.overtaken = bench.overtaken \cup (bench.due \cap {Path(at)})
  BY DEF Truncate, BenchTyped, BenchRun
<1>3. \A p \in Paths : p # Path(at) => file'[p] = file[p]
  BY <1>1 DEF PublishInv
<1>4. Path(at)' = Path(at)
  BY <1>1 DEF Path
<1>5. Comparing'
  <2> SUFFICES ASSUME bench.stage = "compare"
               PROVE  /\ Readable(bench.config) /\ bench.config.gen < generation
                      /\ bench.config.gen \in 0..generation
                      /\ file'[All] # bench.config
    BY <1>1, <1>2 DEF Comparing, Whole
  <2>1. /\ Readable(bench.config) /\ bench.config.gen < generation
        /\ bench.config.gen \in 0..generation
    BY <1>1 DEF BenchInv, Comparing
  <2>2. at # 0 => file'[All] = file[All]
    BY <1>1, <1>3, PathType, AllAndCopy
  <2>3. at = 0 => file'[All] = Unreadable
    BY <1>1, PathType, AllAndCopy DEF PublishInv
  <2>4. at # 0 => file[All] # bench.config
    BY <1>1, <2>1, WritingShows
  <2> QED
    BY <2>1, <2>2, <2>3, <2>4 DEF Readable, Unreadable
<1>6. Untouched'
  <2> SUFFICES ASSUME bench.checked
               PROVE  /\ bench.stage = "start" /\ Path(at) \notin bench'.due \ bench'.overtaken
                      /\ \A k \in (1..bench.all.parts) \cap (1..BenchServices) :
                            k \in bench'.due \ bench'.overtaken => file'[k] = Chunk(bench.all, k)
    BY <1>2, <1>4 DEF Untouched
  <2>1. bench.stage = "start" /\ Path(at) \notin bench'.due \ bench'.overtaken
    BY <1>2 DEF BenchInv, Untouched
  <2>2. ASSUME NEW k \in (1..bench.all.parts) \cap (1..BenchServices),
               k \in bench'.due \ bench'.overtaken
        PROVE  file'[k] = Chunk(bench.all, k)
    <3>1. k \in bench.due \ bench.overtaken /\ k # Path(at) /\ k \in Paths
      BY <1>2, <2>2 DEF Paths
    <3>2. file[k] = Chunk(bench.all, k)
      BY <3>1 DEF BenchInv, Untouched
    <3> QED
      BY <1>3, <3>1, <3>2
  <2> QED
    BY <2>1, <2>2
<1>7. ValidatedIsWhole'
  BY <1>2 DEF BenchInv, ValidatedIsWhole
<1> QED
  BY <1>5, <1>6, <1>7 DEF BenchInv

LEMMA WriteSpares == ASSUME PublishInv, BenchInv, Write PROVE BenchInv'
<1>1. /\ pc = "publish" /\ open /\ file' = [file EXCEPT ![Path(at)] = Written(Path(at))]
      /\ UNCHANGED <<generation, bench>> /\ (pc' = "publish" => open' = FALSE)
      /\ pc' \in {"idle", "publish"}
  BY DEF Write, Return
<1>2. \A p \in Paths : p # Path(at) => file'[p] = file[p]
  BY <1>1 DEF PublishInv
<1>3. Comparing'
  <2> SUFFICES ASSUME bench.stage = "compare"
               PROVE  /\ Readable(bench.config) /\ bench.config.gen < generation
                      /\ bench.config.gen \in 0..generation
                      /\ file'[All] # bench.config
    BY <1>1 DEF Comparing, Whole
  <2>1. /\ Readable(bench.config) /\ bench.config.gen < generation
        /\ bench.config.gen \in 0..generation
    BY <1>1 DEF BenchInv, Comparing
  <2>2. CASE at = 0
    <3>1. file'[All] = plan /\ plan.gen = generation
      BY <1>1, <2>2, PathType, AllAndCopy DEF Written, PublishInv, Publishing
    <3> QED
      BY <2>1, <3>1
  <2>3. CASE at # 0
    <3>1. file'[All] = file[All]
      BY <1>1, <1>2, <2>3, PathType, AllAndCopy
    <3> QED
      BY <1>1, <2>1, <2>3, <3>1, WritingShows
  <2> QED
    BY <2>1, <2>2, <2>3
<1>4. Untouched'
  <2> SUFFICES ASSUME bench.checked, NEW k \in (1..bench.all.parts) \cap (1..BenchServices),
                      k \in bench.due \ bench.overtaken
               PROVE  file'[k] = Chunk(bench.all, k)
    BY <1>1 DEF BenchInv, Untouched
  <2>1. k # Path(at) /\ k \in Paths /\ file[k] = Chunk(bench.all, k)
    BY <1>1 DEF BenchInv, Untouched, Paths
  <2> QED
    BY <1>2, <2>1
<1>5. ValidatedIsWhole'
  BY <1>1 DEF BenchInv, ValidatedIsWhole
<1> QED
  BY <1>3, <1>4, <1>5 DEF BenchInv

\* The bench's own steps.
LEMMA BenchGoesOn ==
    ASSUME PublishInv, FilesTyped, BenchTyped, BenchInv, BenchStep
    PROVE  BenchInv'
<1>0. UNCHANGED <<pc, generation, plan, at, open, file>> /\ bench \in BenchRun
  BY DEF BenchStep, ReadConfig, ReadAll, ReadJobs, BenchEnds, publishing, BenchTyped
<1>1. CASE bench' = NoBench
  BY <1>1 DEF NoBench, BenchInv, Comparing, Untouched, ValidatedIsWhole
<1>2. CASE ReadConfig
  <2>0. bench.stage = "none"
    BY <1>2 DEF ReadConfig
  <2>1. CASE Readable(file[Copy]) /\ bench' = [bench EXCEPT !.stage = "compare", !.config = file[Copy]]
    <3>1. /\ bench'.stage = "compare" /\ bench'.config = file[Copy]
          /\ bench'.checked = bench.checked /\ bench'.all = bench.all
          /\ bench'.due = bench.due /\ bench'.chunk = bench.chunk
          /\ bench'.overtaken = bench.overtaken
      BY <1>0, <2>1 DEF BenchRun
    <3>2. Comparing'
      <4>1. /\ Readable(file[Copy]) /\ file[Copy].gen \in 0..generation
            /\ pc # "idle" => file[Copy].gen < generation
            /\ file[All] = file[Copy] => Whole(file[Copy])
        BY <2>1 DEF PublishInv
      <4> QED
        BY <1>0, <3>1, <4>1 DEF Comparing, Whole
    <3>3. Untouched' /\ ValidatedIsWhole'
      BY <1>0, <2>0, <3>1 DEF BenchInv, Untouched, ValidatedIsWhole
    <3> QED
      BY <3>2, <3>3 DEF BenchInv
  <2>2. CASE bench' = [bench EXCEPT !.stage = "start"]
    <3>1. /\ bench'.stage = "start"
          /\ bench'.checked = bench.checked /\ bench'.all = bench.all
          /\ bench'.due = bench.due /\ bench'.chunk = bench.chunk
          /\ bench'.overtaken = bench.overtaken
      BY <1>0, <2>2 DEF BenchRun
    <3> QED
      BY <1>0, <3>1 DEF BenchInv, Comparing, Untouched, ValidatedIsWhole, Whole, Path
  <2> QED
    BY <1>2, <2>1, <2>2 DEF ReadConfig
<1>3. CASE ReadAll
  <2>1. CASE SameJobs(bench.config, file[All]) /\ bench' = Started
    <3>1. /\ bench'.stage = "start" /\ bench'.checked /\ bench'.all = bench.config
          /\ bench'.due = 1..BenchServices /\ bench'.overtaken = {}
      BY <2>1 DEF Started, NoBench
    <3>2. bench.stage = "compare" /\ file[All] = bench.config
      BY <1>3, <2>1 DEF ReadAll, SameJobs
    <3>3. Whole(bench.config)
      BY <3>2 DEF BenchInv, Comparing
    <3>4. ~(pc = "publish" /\ open)
      <4> SUFFICES ASSUME pc = "publish", open PROVE FALSE
        OBVIOUS
      <4>1. Readable(bench.config) /\ bench.config.gen < generation
            /\ bench.config.gen \in 0..generation
        BY <3>2 DEF BenchInv, Comparing
      <4> QED
        BY <3>2, <4>1, WritingShows
    <3>5. Comparing'
      BY <3>1 DEF Comparing
    <3>6. Untouched'
      BY <1>0, <3>1, <3>3, <3>4 DEF Untouched, Whole
    <3>7. ValidatedIsWhole'
      BY <3>1 DEF ValidatedIsWhole
    <3> QED
      BY <3>5, <3>6, <3>7 DEF BenchInv
  <2> QED
    BY <1>1, <1>3, <2>1 DEF ReadAll
<1>4. ASSUME NEW k \in 1..BenchServices, ReadJobs(k) PROVE BenchInv'
  <2>1. bench.stage = "start" /\ k \in bench.due
        /\ bench' = [bench EXCEPT !.chunk[k] = file[k], !.due = @ \ {k}]
    BY <1>4 DEF ReadJobs
  <2>2. /\ bench'.stage = "start" /\ bench'.checked = bench.checked /\ bench'.all = bench.all
        /\ bench'.due = bench.due \ {k} /\ bench'.overtaken = bench.overtaken
        /\ bench'.chunk = [bench.chunk EXCEPT ![k] = file[k]]
    BY <1>0, <2>1 DEF BenchRun
  <2>3. bench.chunk \in [1..BenchServices -> Content]
    BY <1>0 DEF BenchRun
  <2>4. Comparing'
    BY <2>2 DEF Comparing
  <2>5. Untouched'
    BY <1>0, <2>2 DEF BenchInv, Untouched, Path
  <2>6. ValidatedIsWhole'
    <3> SUFFICES ASSUME bench.checked, NEW j \in (1..bench.all.parts) \cap (1..BenchServices),
                        j \notin bench'.due \cup bench'.overtaken
                 PROVE  bench'.chunk[j] = Chunk(bench.all, j)
      BY <2>2 DEF ValidatedIsWhole
    <3>1. CASE j = k
      <4>1. j \in bench.due \ bench.overtaken
        BY <2>1, <2>2, <3>1
      <4>2. file[j] = Chunk(bench.all, j)
        BY <4>1 DEF BenchInv, Untouched
      <4> QED
        BY <2>2, <2>3, <3>1, <4>2
    <3>2. CASE j # k
      BY <2>2, <2>3, <3>2 DEF BenchInv, ValidatedIsWhole
    <3> QED
      BY <3>1, <3>2
  <2> QED
    BY <2>4, <2>5, <2>6 DEF BenchInv
<1> QED
  BY <1>1, <1>2, <1>3, <1>4 DEF BenchStep, BenchEnds

LEMMA BenchInvStep ==
    PublishInv /\ ConfigTyped /\ BenchInv /\ [ConfigNext]_configVars => BenchInv'
<1> SUFFICES ASSUME PublishInv, ConfigTyped, BenchInv, [ConfigNext]_configVars PROVE BenchInv'
  OBVIOUS
<1> USE DEF publishing
<1>0. generation \in Nat /\ FilesTyped /\ BenchTyped
  BY DEF PublishInv, ConfigTyped
<1>1. CASE StartGenerate
  <2>1. pc = "idle" /\ pc' \in {"idle", "fetch"} /\ generation' = generation + 1
        /\ UNCHANGED <<file, bench>>
    BY <1>1 DEF StartGenerate
  <2> QED
    BY <1>0, <2>1, BenchWaits
<1>2. ASSUME NEW c \in Names, CheckContext(c) \/ Fetched(c) \/ FetchFails(c) PROVE BenchInv'
  BY <1>0, <1>2, BenchWaits DEF CheckContext, Fetched, FetchFails
<1>3. CASE TimeOut \/ Receive
  BY <1>0, <1>3, BenchWaits DEF TimeOut, Receive
<1>4. CASE Collected \/ Abort
  <2>1. /\ UNCHANGED <<generation, file, bench>> /\ pc # "idle"
        /\ pc' = "idle" \/ (pc' = "publish" /\ open' = FALSE)
    BY <1>4 DEF Collected, Abort, Return
  <2> QED
    BY <1>0, <2>1, BenchWaits
<1>5. CASE Truncate
  BY <1>0, <1>5, TruncateSpares
<1>6. CASE Write
  BY <1>6, WriteSpares
<1>7. CASE BenchStep
  BY <1>0, <1>7, BenchGoesOn
<1>8. CASE UNCHANGED configVars
  BY <1>8 DEF configVars, BenchInv, Comparing, Untouched, ValidatedIsWhole, Whole, Path
<1> QED
  BY <1>1, <1>2, <1>3, <1>4, <1>5, <1>6, <1>7, <1>8 DEF ConfigNext, FetchStep

\* Wherever generations run, are killed or fail to write while a bench compares and its
\* services read: a service of a bench that found its config equal to all.json gets its
\* part of that very generation, unless its own file was rewritten in between.
THEOREM ValidatedAlwaysWhole == ConfigSpec => []ValidatedIsWhole
<1>1. ConfigInit => BenchInv
  BY BenchStart
<1>2. PublishInv /\ ConfigTyped /\ BenchInv /\ [ConfigNext]_configVars => BenchInv'
  BY BenchInvStep
<1>3. BenchInv => ValidatedIsWhole
  BY DEF BenchInv
<1> QED
  BY <1>1, <1>2, <1>3, AlwaysConfigTyped, PTL DEF ConfigSpec

\* A bench that found its config equal to all.json, with as many parts as services, sends
\* every job exactly once and in order, for every number of jobs, parts and services, when
\* no file was rewritten between the comparison and the service's read.
THEOREM EachJobAlwaysSentOnce == ConfigSpec => []EachJobSentOnce
<1>1. BenchTyped /\ ValidatedIsWhole => EachJobSentOnce
  <2> SUFFICES ASSUME BenchTyped, ValidatedIsWhole, bench.checked,
                      bench.due \cup bench.overtaken = {}, bench.all.parts = BenchServices
               PROVE  FlattenSeq([k \in 1..BenchServices |-> bench.chunk[k].jobs])
                        = bench.all.jobs
    BY DEF EachJobSentOnce
  <2> DEFINE jobs == bench.all.jobs
             n == BenchServices
             cut == [k \in 0..n |-> CutAt(jobs, n, k)]
  <2>1. jobs \in Seq(Names) /\ n \in Nat \ {0} /\ bench.all \in Content
    BY NumbersAssumption DEF BenchTyped, BenchRun, Content
  <2>2. /\ cut \in [0..n -> 0..Len(jobs)] /\ cut[0] = 0 /\ cut[n] = Len(jobs)
        /\ \A k \in 1..n : cut[k - 1] <= cut[k]
    BY <2>1, CutsFollow
  <2>3. ASSUME NEW k \in 1..n
        PROVE  bench.chunk[k].jobs = SubSeq(jobs, cut[k - 1] + 1, cut[k])
    <3>1. bench.chunk[k] = Chunk(bench.all, k)
      BY DEF ValidatedIsWhole
    <3>2. cut[k - 1] = ChunkStart(jobs, n, k)
          /\ cut[k] = ChunkStart(jobs, n, k) + ChunkSize(jobs, n, k)
      BY <2>1, CutsFollow
    <3> QED
      BY <2>1, <3>1, <3>2 DEF Chunk, Content
  <2> HIDE DEF cut, jobs, n
  <2>4. Cuts(jobs, n, cut)
    BY <2>2 DEF Cuts
  <2>5. FlattenSeq(Pieces(jobs, n, cut)) = jobs
    BY <2>1, <2>4, FlattenPieces
  <2>6. [k \in 1..n |-> bench.chunk[k].jobs] = Pieces(jobs, n, cut)
    BY <2>3 DEF Pieces
  <2> QED
    BY <2>5, <2>6 DEF jobs, n
<1> QED
  BY <1>1, AlwaysConfigTyped, ValidatedAlwaysWhole, PTL DEF ConfigTyped
============================================================================
