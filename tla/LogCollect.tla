----------------------------- MODULE LogCollect -----------------------------
(***************************************************************************)
(* `collect-logs' and `stats-logs'.  A collection takes one log after the  *)
(* other: count its lines, compress it to a temporary file on the host,    *)
(* copy that, remove it, rename the copy.  The newest log of the bench     *)
(* machine comes last, then the manifest, written in place.  Every step    *)
(* may fail and the command may be killed anywhere, while the logs grow    *)
(* and a restore starts scripts again, which empties their logs.  The      *)
(* statistics trust the manifest's line counts.                            *)
(***************************************************************************)
EXTENDS Integers, SequencesExt

CONSTANTS
    StatusRecords,   \* script_status.json, in the order of the collection
    BenchLogs,       \* the bench-cross-tx logs there may be: 1..BenchLogs, by time
    FirstLines,      \* lines of each log before the first collection
    Restarts,        \* the logs that are emptied when their script is started again
    MaxLines,        \* bound: lines of one log
    MaxChanges,      \* bound: times a log grows or is emptied
    MaxCollections   \* bound: collections started

ASSUME StatusRecordsAssumption ==
    StatusRecords \in Seq([name : STRING, type : {"op", "cdk", "xjst", "generic"}, index : Nat])
ASSUME CollectBoundsAssumption ==
    BenchLogs \in Nat /\ MaxLines \in Nat /\ MaxChanges \in Nat /\ MaxCollections \in Nat

\* shouldCollectXjstNodeByName: of a group of four, the first collects.
Collectable(node) == node.type = "xjst" => node.index > 0 /\ (node.index - 1) % 4 = 0

FilesOf(node) ==
    CASE node.type \in {"op", "cdk"} -> <<"pipe", "kurtosis", "runtime">>
      [] node.type = "xjst" -> <<"pipe", "runtime">>
      [] node.type = "generic" -> <<"pipe">>

\* A log is <<host, file, number>>, the number being that of a bench log.
LogsOf(node) ==
    IF Collectable(node)
    THEN [j \in DOMAIN FilesOf(node) |-> <<node.name, FilesOf(node)[j], 0>>]
    ELSE <<>>

Targets == FlattenSeq([i \in DOMAIN StatusRecords |-> LogsOf(StatusRecords[i])])

BenchHost == "bench-client"
BenchTargets == {<<BenchHost, "bench", n>> : n \in 1..BenchLogs}
Logs == {Targets[i] : i \in DOMAIN Targets} \cup BenchTargets

Missing == -1
ASSUME FirstLinesAssumption == FirstLines \in [Logs -> Missing..MaxLines]
ASSUME RestartsAssumption == Restarts \subseteq Logs

VARIABLES
    remote,      \* remote[l]: lines of log l on its host
    stage,       \* the next step of the collection, "idle" if none runs
    next,        \* the next target; Len(Targets) + 1 is the bench log
    newest,      \* the bench log chosen
    lines,       \* the lines counted
    packed,      \* the lines in the compressed file
    copied,      \* has the rsync returned no error?
    collected,   \* manifest.Entries so far, by log
    failed,      \* is allErrs not empty?
    left,        \* the collection's temporary files: <<"host" or "local", log>>
    local,       \* local[l]: lines in the compressed log kept locally
    manifest,    \* manifest.json
    collections, \* number of collections started
    collectResult, \* what the last collection returned
    csv,         \* the rows of log_stats.csv, until another collection begins
    sinceCount,  \* logs a restart emptied after this collection counted their lines
    sinceListed, \* logs a restart emptied after the manifest's lines were counted
    changes      \* times a log has grown or been emptied

position == <<stage, next, newest>>
parcel == <<lines, packed, copied>>
tally == <<collected, failed>>
stored == <<left, local, manifest>>
endings == <<collections, collectResult, csv>>
restarts == <<sinceCount, sinceListed, changes>>
collectVars == <<remote, position, parcel, tally, stored, endings, restarts>>

Entry == [lines : 0..MaxLines, skipped : {"no", "missing", "failed"}]
IsEntries(f) == DOMAIN f \subseteq Logs /\ \A l \in DOMAIN f : f[l] \in Entry

CollectTypeOK ==
    /\ remote \in [Logs -> Missing..MaxLines] /\ local \in [Logs -> Missing..MaxLines]
    /\ stage \in {"idle", "dir", "probe", "gzip", "rsync", "clean", "rename", "list",
                  "manifest", "open"}
    /\ next \in 1..(Len(Targets) + 1) /\ newest \in 0..BenchLogs
    /\ lines \in 0..MaxLines /\ packed \in 0..MaxLines /\ copied \in BOOLEAN
    /\ IsEntries(collected) /\ failed \in BOOLEAN
    /\ left \subseteq {"host", "local"} \X Logs
    /\ manifest.readable \in BOOLEAN /\ IsEntries(manifest.entries)
    /\ collections \in 0..MaxCollections
    /\ collectResult \in {"none", "nil", "error"}
    /\ csv \subseteq [log : Logs, lines : 0..MaxLines, held : 0..MaxLines]
    /\ sinceCount \subseteq Logs /\ sinceListed \subseteq Logs
    /\ changes \in 0..MaxChanges
----------------------------------------------------------------------------
\* The logs an entry list does not mark as skipped.
Kept(entries) == {l \in DOMAIN entries : entries[l].skipped = "no"}

NoEntries == [l \in {} |-> {}]
NoManifest == [readable |-> FALSE, entries |-> NoEntries]

CollectInit ==
    /\ remote = FirstLines
    /\ stage = "idle" /\ next = 1 /\ newest = 0
    /\ lines = 0 /\ packed = 0 /\ copied = FALSE
    /\ collected = NoEntries /\ failed = FALSE
    /\ left = {} /\ local = [l \in Logs |-> Missing] /\ manifest = NoManifest
    /\ collections = 0 /\ collectResult = "none" /\ csv = {}
    /\ sinceCount = {} /\ sinceListed = {} /\ changes = 0

\* After the target before i: a directory for a new host, or the bench machine.
StageAt(i) ==
    IF i > Len(Targets) THEN "list"
    ELSE IF i > 1 /\ Targets[i - 1][1] = Targets[i][1] THEN "probe" ELSE "dir"

StartCollect ==
    /\ stage = "idle" /\ collections < MaxCollections
    /\ collections' = collections + 1
    /\ \/ /\ StatusRecords # <<>>
          /\ stage' = StageAt(1) /\ left' = {} /\ collectResult' = "none"
       \/ \* no records, unreadable records, or no directory for the logs
          /\ collectResult' = "error"
          /\ UNCHANGED <<stage, left>>
    /\ csv' = {}
    /\ UNCHANGED <<remote, next, newest, parcel, tally, local, manifest, restarts>>
----------------------------------------------------------------------------
\* The log being collected.
Log == IF next <= Len(Targets) THEN Targets[next] ELSE <<BenchHost, "bench", newest>>
Temporary(where) == <<where, Log>>

GoOn ==
    IF next > Len(Targets) THEN stage' = "manifest" /\ UNCHANGED next
    ELSE next' = next + 1 /\ stage' = StageAt(next + 1)

\* collectRemoteLogFile returns this entry, and its locals are gone.
Enter(skipped, n) ==
    /\ collected' = [l \in DOMAIN collected \cup {Log} |->
                        IF l = Log THEN [lines |-> n, skipped |-> skipped] ELSE collected[l]]
    /\ GoOn
    /\ lines' = 0 /\ packed' = 0 /\ copied' = FALSE

Skip(n) == Enter("failed", n) /\ failed' = TRUE

\* Without its directory a host's logs are left out.
MakeDirectory ==
    /\ stage = "dir"
    /\ \/ stage' = "probe" /\ UNCHANGED <<next, failed>>
       \/ /\ failed' = TRUE
          /\ next' = Min({i \in next..(Len(Targets) + 1) :
                            i > Len(Targets) \/ Targets[i][1] # Log[1]})
          /\ stage' = StageAt(next')
    /\ UNCHANGED <<remote, newest, parcel, collected, stored, endings, restarts>>

\* The newest log of the bench machine, if it is reached and has one.
ListBenchLogs ==
    LET there == {n \in 1..BenchLogs : remote[<<BenchHost, "bench", n>>] # Missing}
    IN /\ stage = "list"
       /\ \/ BenchLogs > 0 /\ failed' = TRUE /\ stage' = "manifest" /\ UNCHANGED newest
          \/ there = {} /\ stage' = "manifest" /\ UNCHANGED <<newest, failed>>
          \/ /\ there # {} /\ newest' = CHOOSE n \in there : \A o \in there : o <= n
             /\ stage' = "probe" /\ UNCHANGED failed
       /\ UNCHANGED <<remote, next, parcel, collected, stored, endings, restarts>>

\* wc -l on the host.
Probe ==
    /\ stage = "probe"
    /\ \/ /\ remote[Log] # Missing
          /\ lines' = remote[Log] /\ stage' = "gzip"
          /\ UNCHANGED <<next, packed, copied, tally>>
       \/ remote[Log] = Missing /\ Enter("missing", 0) /\ UNCHANGED failed
       \/ Skip(0)
    /\ UNCHANGED <<remote, newest, stored, endings, restarts>>

\* gzip on the host; what a failed one leaves there is not removed.
Gzip ==
    /\ stage = "gzip"
    /\ \/ /\ packed' = remote[Log] /\ stage' = "rsync"
          /\ left' = left \cup {Temporary("host")}
          /\ UNCHANGED <<next, lines, copied, tally>>
       \/ Skip(lines) /\ left' \in {left, left \cup {Temporary("host")}}
    /\ UNCHANGED <<remote, newest, local, manifest, endings, restarts>>

\* rsync moves a complete file to its name; it may still return an error.
Rsync ==
    /\ stage = "rsync" /\ stage' = "clean"
    /\ \/ copied' = TRUE /\ left' = left \cup {Temporary("local")}
       \/ copied' = FALSE /\ left' \in {left, left \cup {Temporary("local")}}
    /\ UNCHANGED <<remote, next, newest, lines, packed, tally, local, manifest, endings, restarts>>

\* Mutant of CleanUp: a file left on a host is no error.
CleanUpQuietly ==
    /\ stage = "clean"
    /\ left' \in {left, left \ {Temporary("host")}}
    /\ \/ copied /\ stage' = "rename" /\ UNCHANGED <<next, parcel, tally>>
       \/ ~copied /\ Skip(lines)
    /\ UNCHANGED <<remote, newest, local, manifest, endings, restarts>>

\* Mutant of CleanUp: a failed copy is not marked as skipped.
CleanUpUnmarked ==
    /\ stage = "clean"
    /\ \/ left' = left \ {Temporary("host")} /\ failed' = (failed \/ ~copied)
       \/ UNCHANGED left /\ failed' = TRUE
    /\ \/ copied /\ stage' = "rename" /\ UNCHANGED <<next, parcel, collected>>
       \/ ~copied /\ Enter("no", lines)
    /\ UNCHANGED <<remote, newest, local, manifest, endings, restarts>>

\* The temporary file is removed whether or not it was copied.
CleanUp ==
    /\ stage = "clean"
    /\ \/ left' = left \ {Temporary("host")} /\ failed' = (failed \/ ~copied)
       \/ UNCHANGED left /\ failed' = TRUE
    /\ \/ copied /\ stage' = "rename" /\ UNCHANGED <<next, parcel, collected>>
       \/ ~copied /\ Enter("failed", lines)
    /\ UNCHANGED <<remote, newest, local, manifest, endings, restarts>>

Replace == local' = [local EXCEPT ![Log] = packed] /\ left' = left \ {Temporary("local")}

\* os.Rename and os.Stat of the copy.
Rename ==
    /\ stage = "rename"
    /\ \/ Replace /\ Enter("no", lines) /\ UNCHANGED failed
       \/ Replace /\ Skip(lines)
       \/ Skip(lines) /\ UNCHANGED <<left, local>>
    /\ UNCHANGED <<remote, newest, manifest, endings, restarts>>
----------------------------------------------------------------------------
ForgetLocals ==
    /\ next' = 1 /\ newest' = 0
    /\ lines' = 0 /\ packed' = 0 /\ copied' = FALSE
    /\ collected' = NoEntries /\ failed' = FALSE /\ sinceCount' = {}

\* writeJSONFile truncates and writes.
OpenManifest ==
    /\ stage = "manifest"
    /\ \/ /\ stage' = "open" /\ manifest' = NoManifest
          /\ UNCHANGED <<next, newest, parcel, tally, collectResult, sinceCount>>
       \/ /\ stage' = "idle" /\ collectResult' = "error" /\ ForgetLocals
          /\ manifest' \in {manifest, NoManifest}
    /\ sinceListed' = IF manifest' = manifest THEN sinceListed ELSE {}
    /\ UNCHANGED <<remote, left, local, collections, csv, changes>>

WriteManifest ==
    /\ stage = "open" /\ stage' = "idle"
    /\ manifest' = [readable |-> TRUE, entries |-> collected]
    /\ collectResult' = IF failed THEN "error" ELSE "nil"
    /\ sinceListed' = sinceCount \cap Kept(collected)
    /\ ForgetLocals
    /\ UNCHANGED <<remote, left, local, collections, csv, changes>>

KillCollect ==
    /\ stage # "idle" /\ stage' = "idle"
    /\ ForgetLocals
    /\ UNCHANGED <<remote, stored, endings, sinceListed, changes>>

\* A host writes a line, or creates a log.
GrowLog(l) ==
    /\ remote[l] < MaxLines /\ remote' = [remote EXCEPT ![l] = @ + 1]
    /\ changes < MaxChanges /\ changes' = changes + 1
    /\ UNCHANGED <<position, parcel, tally, stored, endings, sinceCount, sinceListed>>

\* The logs whose lines this collection has counted and not given up.
CountedLogs ==
    Kept(collected) \cup IF stage \in {"gzip", "rsync", "clean", "rename"} THEN {Log} ELSE {}

\* A restore or a retry starts a script again: nohup <command> > <the same log>.  Whether
\* this also empties the logs its programs write depends on them; hence the constant.
RestartScript(l) ==
    /\ l \in Restarts /\ remote[l] > 0 /\ remote' = [remote EXCEPT ![l] = 0]
    /\ changes < MaxChanges /\ changes' = changes + 1
    /\ sinceCount' = sinceCount \cup ({l} \cap CountedLogs)
    /\ sinceListed' = sinceListed \cup ({l} \cap Kept(manifest.entries))
    /\ UNCHANGED <<position, parcel, tally, stored, endings>>

\* collectCompressedRows: the manifest's count, or the file's own without an entry.
RowLines(l) ==
    IF l \in DOMAIN manifest.entries THEN manifest.entries[l].lines ELSE local[l]

\* The rows of the compressed logs; those of the other files are always counted.
StatsLogs ==
    /\ stage = "idle"
    /\ csv' = {[log |-> l, lines |-> RowLines(l), held |-> local[l]] :
                    l \in {k \in Logs : local[k] # Missing}}
    /\ UNCHANGED <<remote, position, parcel, tally, stored, collections, collectResult, restarts>>

CollectStep ==
    \/ MakeDirectory \/ ListBenchLogs
    \/ Probe \/ Gzip \/ Rsync \/ CleanUp \/ Rename \/ OpenManifest \/ WriteManifest

CollectNext ==
    \/ StartCollect \/ CollectStep \/ KillCollect \/ StatsLogs
    \/ \E l \in Logs : GrowLog(l) \/ RestartScript(l)

CollectSpec == CollectInit /\ [][CollectNext]_collectVars
----------------------------------------------------------------------------
(* Properties *)

\* An entry the manifest does not mark as skipped has its file, with at least the lines
\* it says, whichever later collection failed or was killed before its own manifest,
\* unless its script was started again since those lines were counted: then the file may
\* be packed, or replaced, from a log that has been emptied.
ManifestHonest ==
    \A l \in Kept(manifest.entries) \ sinceListed : local[l] >= manifest.entries[l].lines

\* A collection that returned nil has an entry for every log of every node, skipped
\* only where there was none, and left no temporary file anywhere.
NilMeansCollected ==
    collectResult = "nil" =>
        /\ \A i \in DOMAIN Targets : Targets[i] \in DOMAIN manifest.entries
        /\ \A l \in DOMAIN manifest.entries : manifest.entries[l].skipped # "failed"
        /\ left = {}

\* stats-logs counts the lines of the local files: no row has more than its file.
RowsNeverExceedFile == \A row \in csv : row.lines <= row.held
=============================================================================
