---------------------------- MODULE BackupRestore ----------------------------
(***************************************************************************)
(* scripts/backup.sh and scripts/restore.sh on the droplet: the nightly    *)
(* timer's backup and an operator's restore, which first takes a backup of *)
(* its own (the pre-restore snapshot).  Nothing in the scripts keeps the   *)
(* two apart, so every command of each is a step of its own.               *)
(*                                                                         *)
(* A store's content is the set of memories in it and whether it is whole: *)
(* a restore that dies in the middle of a load leaves a store that is not. *)
(* mem0, Postgres, Neo4j and the object store are outside the repository   *)
(* and are modelled from how the scripts use them.  Memories are never     *)
(* deleted here, so that "lost" has a plain meaning, and two runs never    *)
(* start in the same second.                                               *)
(***************************************************************************)
EXTENDS Naturals, FiniteSets

CONSTANTS
    Nightly,    \* the runners that start backups (the systemd timer)
    Operator,   \* the runners that start restores
    Memory,     \* the memories clients may store
    MaxRuns,    \* how many backup prefixes the bucket ever holds
    Faults,     \* what may go wrong: "command", "dump", "kill"
    AllowSkip   \* whether an operator may set SKIP_PRESNAPSHOT=1

\* One restore at a time; a backup of the timer may overlap it.
ASSUME RunnerAssumption ==
    /\ Nightly \cap Operator = {}
    /\ \A a, b \in Operator : a = b
ASSUME BoundAssumption  == MaxRuns \in Nat
ASSUME FaultAssumption  == Faults \subseteq {"command", "dump", "kill"}
ASSUME SkipAssumption   == AllowSkip \in BOOLEAN

Runner  == Nightly \cup Operator
Stores  == {"postgres", "history", "graph"}
Stamp   == 1 .. MaxRuns
Files   == 4                  \* postgres, neo4j, history and the manifest

\* What one store holds, and what one backup holds: the stores dumped so far.
Content == [mem : SUBSET Memory, whole : BOOLEAN]
Image   == UNION {[D -> Content] : D \in SUBSET Stores}
Nothing == [s \in {} |-> [mem |-> {}, whole |-> TRUE]]

BackupPc  == {"pgDump", "tarHistory", "stopGraph", "dumpGraph", "startGraph",
              "graphFailed", "upload", "report"}
RestorePc == {"download", "snapshot", "stopMem0", "loadPostgres",
              "loadHistory", "stopForLoad", "loadGraph", "startAfterLoad",
              "startMem0"}

VARIABLES
    live,       \* store -> its content
    serving,    \* the services that are up, of mem0 and neo4j
    bucket,     \* stamp -> the prefix's files: how many, and what they hold
    pc,         \* runner -> the command it runs next
    job,        \* runner -> [ts, stage, pick, load]
    reported,   \* the stamps whose run sent its success ping
    acked,      \* history: the memories clients were told are stored
    before,     \* history: stamp -> the memories live when its run began
    exposed     \* history: the memories a restore was not asked to keep

vars == <<live, serving, bucket, pc, job, reported, acked, before, exposed>>

Job == [ts : 0 .. MaxRuns, stage : Image, pick : 0 .. MaxRuns, load : Image]

NoJob == [ts |-> 0, stage |-> Nothing, pick |-> 0, load |-> Nothing]

TypeOK ==
    /\ live \in [Stores -> Content]
    /\ serving \subseteq {"mem0", "neo4j"}
    /\ bucket \in [Stamp -> [puts : 0 .. Files, image : Image]]
    /\ pc \in [Runner -> {"idle"} \cup BackupPc \cup RestorePc]
    /\ job \in [Runner -> Job]
    /\ reported \subseteq Stamp
    /\ acked \subseteq Memory
    /\ before \in [Stamp -> SUBSET Memory]
    /\ exposed \subseteq Memory

Init ==
    /\ live = [s \in Stores |-> [mem |-> {}, whole |-> TRUE]]
    /\ serving = {"mem0", "neo4j"}
    /\ bucket = [t \in Stamp |-> [puts |-> 0, image |-> Nothing]]
    /\ pc = [r \in Runner |-> "idle"]
    /\ job = [r \in Runner |-> NoJob]
    /\ reported = {}
    /\ acked = {}
    /\ before = [t \in Stamp |-> {}]
    /\ exposed = {}

-----------------------------------------------------------------------------
\* The prefixes an `s3cmd ls` shows, and those that hold all four files.
Listed   == {t \in Stamp : bucket[t].puts > 0}
Complete == {t \in Stamp : bucket[t].puts = Files}

\* The clock moves on: a run's stamp is later than every stamp there is.
Unused(t) == /\ \A u \in Listed : u < t
             /\ \A r \in Runner : job[r].ts < t

Goto(r, l) == pc' = [pc EXCEPT ![r] = l]

\* Mutant of Exit: a failed snapshot does not stop the restore.
ExitAnyway(r) ==
    IF pc[r] \in BackupPc /\ job[r].pick # 0
    THEN Goto(r, "stopMem0") /\ job' = [job EXCEPT ![r].ts = 0]
    ELSE Goto(r, "idle") /\ job' = [job EXCEPT ![r] = NoJob]

\* Every exit of a script removes its stage directory and starts no service.
Exit(r) == /\ Goto(r, "idle")
           /\ job' = [job EXCEPT ![r] = NoJob]

\* A restore whose snapshot of Postgres is taken, or was skipped, and whose
\* mem0 still serves: a write that lands now is in nobody's backup.
Unguarded(r) == /\ job[r].pick # 0
                /\ \/ pc[r] \in BackupPc \ {"pgDump"}
                   \/ pc[r] = "stopMem0"

\* A client stores a memory through mem0, which writes Postgres and its history.
Write(m) ==
    /\ "mem0" \in serving
    /\ m \notin acked
    /\ live' = [s \in Stores |-> IF s = "graph" THEN live[s]
                                 ELSE [live[s] EXCEPT !.mem = @ \cup {m}]]
    /\ acked' = acked \cup {m}
    /\ exposed' = IF \E r \in Runner : Unguarded(r)
                  THEN exposed \cup {m} ELSE exposed
    /\ UNCHANGED <<serving, bucket, pc, job, reported, before>>

-----------------------------------------------------------------------------
(* backup.sh *)

\* The run takes its time stamp and an empty stage directory.  `from` is where
\* the runner stands: idle for the timer, at the snapshot for a restore.
BeginBackup(r, from) ==
    /\ pc[r] = from
    /\ \E t \in Stamp :
          /\ Unused(t)
          /\ \A u \in Stamp : Unused(u) => t <= u
          /\ job' = [job EXCEPT ![r] = [@ EXCEPT !.ts = t, !.stage = Nothing]]
          /\ before' = [before EXCEPT ![t] = live["postgres"].mem]
    /\ Goto(r, "pgDump")
    /\ UNCHANGED <<live, serving, bucket, reported, acked, exposed>>

\* Image i with store s dumped as c.
With(i, s, c) == [x \in DOMAIN i \cup {s} |-> IF x = s THEN c ELSE i[x]]

\* Dump store s into the stage directory and go on to the command at `next`.
Dump(r, s, next) ==
    /\ job' = [job EXCEPT ![r] = [@ EXCEPT !.stage = With(job[r].stage, s, live[s])]]
    /\ Goto(r, next)
    /\ UNCHANGED <<live, serving, bucket, reported, acked, before, exposed>>

PgDump(r)     == pc[r] = "pgDump" /\ Dump(r, "postgres", "tarHistory")
TarHistory(r) == pc[r] = "tarHistory" /\ Dump(r, "history", "stopGraph")

\* `compose stop` and `compose start` succeed when there is nothing to do.
Compose(r, from, up, next) ==
    /\ pc[r] = from
    /\ serving' = up
    /\ Goto(r, next)
    /\ UNCHANGED <<live, bucket, job, reported, acked, before, exposed>>

StopGraph(r) == Compose(r, "stopGraph", serving \ {"neo4j"}, "dumpGraph")

\* neo4j-admin only dumps a database that is stopped.
DumpGraph(r) ==
    /\ pc[r] = "dumpGraph"
    /\ "neo4j" \notin serving
    /\ Dump(r, "graph", "startGraph")

\* Mutants of DumpGraphFails: the failure is forgotten; the script dies at once.
DumpGraphForgets(r) ==
    /\ pc[r] = "dumpGraph"
    /\ "neo4j" \in serving \/ "dump" \in Faults
    /\ Goto(r, "startGraph")
    /\ UNCHANGED <<live, serving, bucket, job, reported, acked, before, exposed>>

DumpGraphDies(r) ==
    /\ pc[r] = "dumpGraph"
    /\ "neo4j" \in serving \/ "dump" \in Faults
    /\ Exit(r)
    /\ UNCHANGED <<live, serving, bucket, reported, acked, before, exposed>>

\* Otherwise, or when it fails for its own reasons, the failure is kept for
\* after the restart of neo4j.
DumpGraphFails(r) ==
    /\ pc[r] = "dumpGraph"
    /\ "neo4j" \in serving \/ "dump" \in Faults
    /\ Goto(r, "graphFailed")
    /\ UNCHANGED <<live, serving, bucket, job, reported, acked, before, exposed>>

StartGraph(r) == Compose(r, "startGraph", serving \cup {"neo4j"}, "upload")

StartGraphAndDie(r) ==
    /\ pc[r] = "graphFailed"
    /\ serving' = serving \cup {"neo4j"}
    /\ Exit(r)
    /\ UNCHANGED <<live, bucket, reported, acked, before, exposed>>

\* Mutant of Put: one file too many.
PutTooMany(r) ==
    /\ pc[r] = "upload"
    /\ LET t == job[r].ts
           n == bucket[t].puts + 1 IN
       /\ bucket' = [bucket EXCEPT ![t] = [puts |-> n, image |-> job[r].stage]]
       /\ Goto(r, IF n > Files THEN "report" ELSE "upload")
    /\ UNCHANGED <<live, serving, job, reported, acked, before, exposed>>

\* The files go up one by one, the manifest last.
Put(r) ==
    /\ pc[r] = "upload"
    /\ LET t == job[r].ts
           n == bucket[t].puts + 1 IN
       /\ bucket' = [bucket EXCEPT ![t] = [puts |-> n, image |-> job[r].stage]]
       /\ Goto(r, IF n = Files THEN "report" ELSE "upload")
    /\ UNCHANGED <<live, serving, job, reported, acked, before, exposed>>

\* The success ping.  A backup that a restore started returns to the restore.
Report(r) ==
    /\ pc[r] = "report"
    /\ reported' = reported \cup {job[r].ts}
    /\ IF job[r].pick = 0
       THEN Exit(r)
       ELSE /\ job' = [job EXCEPT ![r] = [@ EXCEPT !.ts = 0, !.stage = Nothing]]
            /\ Goto(r, "stopMem0")
    /\ UNCHANGED <<live, serving, bucket, acked, before, exposed>>

-----------------------------------------------------------------------------
(* restore.sh *)

\* The operator names a prefix, or takes the newest one listed.
BeginRestore(r) ==
    /\ pc[r] = "idle"
    /\ \E t \in Listed : job' = [job EXCEPT ![r] = [@ EXCEPT !.pick = t]]
    /\ Goto(r, "download")
    /\ UNCHANGED <<live, serving, bucket, reported, acked, before, exposed>>

\* All four files or nothing; the checksums are those of the manifest.  The
\* operator then confirms (the refusal is CommandFails below).
Download(r) ==
    /\ pc[r] = "download"
    /\ IF job[r].pick \in Complete
       THEN /\ job' = [job EXCEPT ![r] =
                          [@ EXCEPT !.load = bucket[job[r].pick].image]]
            /\ Goto(r, "snapshot")
       ELSE Exit(r)
    /\ UNCHANGED <<live, serving, bucket, reported, acked, before, exposed>>

\* SKIP_PRESNAPSHOT=1: "current state will NOT be saved".
SkipSnapshot(r) ==
    /\ AllowSkip
    /\ pc[r] = "snapshot"
    /\ exposed' = exposed \cup acked
    /\ Goto(r, "stopMem0")
    /\ UNCHANGED <<live, serving, bucket, job, reported, acked, before>>

\* Mutant of StopMem0: the app keeps running during the restore.
LeaveMem0(r) == Compose(r, "stopMem0", serving, "loadPostgres")

StopMem0(r) == Compose(r, "stopMem0", serving \ {"mem0"}, "loadPostgres")

Load(r, s, next) ==
    /\ live' = [live EXCEPT ![s] = job[r].load[s]]
    /\ Goto(r, next)
    /\ UNCHANGED <<serving, bucket, job, reported, acked, before, exposed>>

LoadPostgres(r) == pc[r] = "loadPostgres" /\ Load(r, "postgres", "loadHistory")
LoadHistory(r)  == pc[r] = "loadHistory" /\ Load(r, "history", "stopForLoad")
StopForLoad(r)  == Compose(r, "stopForLoad", serving \ {"neo4j"}, "loadGraph")

\* neo4j-admin refuses to load over a database in use: the script exits there.
LoadGraph(r) ==
    /\ pc[r] = "loadGraph"
    /\ "neo4j" \notin serving
    /\ Load(r, "graph", "startAfterLoad")

LoadGraphRefused(r) ==
    /\ pc[r] = "loadGraph"
    /\ "neo4j" \in serving
    /\ Exit(r)
    /\ UNCHANGED <<live, serving, bucket, reported, acked, before, exposed>>

StartAfterLoad(r) ==
    Compose(r, "startAfterLoad", serving \cup {"neo4j"}, "startMem0")

StartMem0(r) ==
    /\ pc[r] = "startMem0"
    /\ serving' = serving \cup {"mem0"}
    /\ Exit(r)
    /\ UNCHANGED <<live, bucket, reported, acked, before, exposed>>

-----------------------------------------------------------------------------
(* What goes wrong *)

\* The store a runner is in the middle of loading, if any.
Loading(r) == CASE pc[r] = "loadPostgres" -> {"postgres"}
                [] pc[r] = "loadHistory"  -> {"history"}
                [] pc[r] = "loadGraph" /\ "neo4j" \notin serving -> {"graph"}
                [] OTHER -> {}

\* The script ends here, with a store half loaded or not touched yet.
Stops(r) ==
    /\ pc[r] # "idle"
    /\ \/ UNCHANGED live
       \/ \E s \in Loading(r) :
          \E kept \in SUBSET (live[s].mem \cup job[r].load[s].mem) :
             live' = [live EXCEPT ![s] = [mem |-> kept, whole |-> FALSE]]
    /\ Exit(r)
    /\ UNCHANGED <<serving, bucket, reported, acked, before, exposed>>

\* `set -e`: a command fails (or the operator does not confirm).  The graph
\* dump is the one command whose failure the script survives.
CommandFails(r) ==
    /\ "command" \in Faults
    /\ pc[r] # "dumpGraph"
    /\ Stops(r)

\* The run is killed: TimeoutStartSec, a lost terminal, a reboot.  A container
\* that was stopped stays stopped (restart: unless-stopped).
Killed(r) == "kill" \in Faults /\ Stops(r)

-----------------------------------------------------------------------------
BackupStep(r) ==
    \/ r \in Operator /\ BeginBackup(r, "snapshot")
    \/ PgDump(r) \/ TarHistory(r)
    \/ StopGraph(r) \/ DumpGraph(r) \/ DumpGraphFails(r)
    \/ StartGraph(r) \/ StartGraphAndDie(r)
    \/ Put(r) \/ Report(r)

RestoreStep(r) ==
    \/ Download(r) \/ SkipSnapshot(r) \/ StopMem0(r)
    \/ LoadPostgres(r) \/ LoadHistory(r)
    \/ StopForLoad(r) \/ LoadGraph(r) \/ LoadGraphRefused(r)
    \/ StartAfterLoad(r) \/ StartMem0(r)

Next ==
    \/ \E m \in Memory : Write(m)
    \/ \E r \in Nightly : BeginBackup(r, "idle")
    \/ \E r \in Operator : BeginRestore(r)
    \/ \E r \in Runner : BackupStep(r) \/ RestoreStep(r)
    \/ \E r \in Runner : CommandFails(r) \/ Killed(r)

Spec == Init /\ [][Next]_vars

\* A script that runs goes on to its next command; nobody has to start one.
FairSpec == Spec /\ \A r \in Runner : WF_vars(BackupStep(r) \/ RestoreStep(r))

-----------------------------------------------------------------------------
(* Properties *)

InBackups == UNION {bucket[t].image["postgres"].mem : t \in Complete}

\* No combination of nightly backups, restores, overlaps and aborted scripts
\* loses a memory: it is in the live database or in a complete backup, unless
\* it was stored after the pre-restore snapshot read the database, or the
\* operator skipped that snapshot (restore.sh:92-107, and the backup path never
\* destroys data, backup.sh:180-183).
NothingLost == acked \ exposed \subseteq live["postgres"].mem \cup InBackups

\* The heartbeat does not lie: after a success ping the run's prefix holds all
\* four files with every store in them, and everything that was live when the
\* run began is in a complete backup, also when a restore has overwritten the
\* database before the dump read it (backup.sh:70-75 and 188-189).
HeartbeatHonest ==
    \A t \in reported : /\ t \in Complete
                        /\ DOMAIN bucket[t].image = Stores
                        /\ before[t] \ exposed \subseteq InBackups

\* A restore that died half way leaves mem0 down, and only a restore that went
\* through brings it back: as long as no half-loaded store has been backed up
\* itself, mem0 never serves one (restore.sh:18, 109-143).
AppSeesWholeData ==
    (\A t \in Listed, s \in Stores :
        s \in DOMAIN bucket[t].image => bucket[t].image[s].whole)
    => ("mem0" \in serving => \A s \in Stores : live[s].whole)

\* When a restore brings mem0 back, all three stores are those of the backup
\* the operator picked: neither a client nor the nightly backup has slipped in
\* between the loads (restore.sh:109-143).
RestoreFaithful ==
    [][\A r \in Operator :
          pc[r] = "startMem0" /\ pc'[r] = "idle" /\ "mem0" \in serving'
          => live' = bucket[job[r].pick].image]_vars

\* The pre-restore snapshot makes every restore reversible (restore.sh:93-95,
\* ADR 023 section 3c): whatever was stored can be had back.
RestoreReversible == acked \subseteq live["postgres"].mem \cup InBackups

\* A backup holds the graph down only for a while (backup.sh:5-7 and 156, and
\* the comment on TimeoutStartSec in ai-memory-backup.service).
GraphReturns == "neo4j" \notin serving ~> "neo4j" \in serving

=============================================================================
