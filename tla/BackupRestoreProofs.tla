------------------------- MODULE BackupRestoreProofs -------------------------
(***************************************************************************)
(* Theorems about BackupRestore, for any nightly runners, memories, number *)
(* of backups and combination of failures.                                 *)
(***************************************************************************)
EXTENDS BackupRestore, TLAPS

\* The stores a backup has dumped when it stands at command l.
Dumped(l) == CASE l = "tarHistory" -> {"postgres"}
               [] l \in {"stopGraph", "dumpGraph", "graphFailed"}
                     -> {"postgres", "history"}
               [] l \in {"startGraph", "upload", "report"} -> Stores
               [] OTHER -> {}

\* What job j is when its runner r stands at command l and the bucket is b: a
\* restore knows which backup it wants, a backup has a stamp, and the stage
\* directory, the download and the prefix hold the stores they should.
JobOK(r, l, j, b) ==
    /\ l \in {"idle"} \cup BackupPc \cup RestorePc
    /\ j \in Job
    /\ l = "idle" => j = NoJob
    /\ l \in RestorePc => j.pick # 0
    /\ j.pick # 0 => r \in Operator
    /\ l \in BackupPc => j.ts # 0 /\ DOMAIN j.stage = Dumped(l)
    /\ l \in BackupPc \ {"report"} => b[j.ts].puts < Files
    /\ l = "report" => b[j.ts] = [puts |-> Files, image |-> j.stage]
    /\ l \in RestorePc \ {"download"} => DOMAIN j.load = Stores
    /\ l \in BackupPc /\ j.pick # 0 => DOMAIN j.load = Stores

\* No two runners write to one prefix.
Distinct ==
    \A r, q \in Runner : r # q /\ job[r].ts # 0 => job[r].ts # job[q].ts

Jobs ==
    /\ pc \in [Runner -> {"idle"} \cup BackupPc \cup RestorePc]
    /\ job \in [Runner -> Job]
    /\ \A r \in Runner : JobOK(r, pc[r], job[r], bucket)
    /\ Distinct

Data ==
    /\ live \in [Stores -> Content]
    /\ serving \subseteq {"mem0", "neo4j"}
    /\ bucket \in [Stamp -> [puts : 0 .. Files, image : Image]]
    /\ \A t \in Stamp : bucket[t].puts > 0 => DOMAIN bucket[t].image = Stores
    /\ reported \subseteq Stamp
    /\ acked \subseteq Memory
    /\ before \in [Stamp -> SUBSET Memory]
    /\ exposed \subseteq Memory

Typed == Data /\ Jobs

(***************************************************************************)
(* Images are functions from some of the stores to contents.               *)
(***************************************************************************)
LEMMA ImageOf ==
    ASSUME NEW f \in Image
    PROVE  /\ f \in [DOMAIN f -> Content]
           /\ DOMAIN f \subseteq Stores
BY DEF Image

LEMMA ImageIs ==
    ASSUME NEW D \in SUBSET Stores, NEW f \in [D -> Content]
    PROVE  f \in Image
BY DEF Image

LEMMA NothingIs == Nothing \in Image /\ DOMAIN Nothing = {}
<1>1. Nothing \in [{} -> Content] /\ DOMAIN Nothing = {}
  BY DEF Nothing
<1>2. QED
  BY <1>1, ImageIs

LEMMA WithIs ==
    ASSUME NEW f \in Image, NEW s \in Stores, NEW c \in Content
    PROVE  /\ With(f, s, c) \in Image
           /\ DOMAIN With(f, s, c) = DOMAIN f \cup {s}
           /\ With(f, s, c)[s] = c
           /\ \A x \in DOMAIN f \ {s} : With(f, s, c)[x] = f[x]
<1>1. /\ With(f, s, c) \in [DOMAIN f \cup {s} -> Content]
      /\ DOMAIN With(f, s, c) = DOMAIN f \cup {s}
      /\ With(f, s, c)[s] = c
      /\ \A x \in DOMAIN f \ {s} : With(f, s, c)[x] = f[x]
  BY ImageOf DEF With
<1>2. DOMAIN f \cup {s} \in SUBSET Stores
  BY ImageOf
<1>3. QED
  BY <1>1, <1>2, ImageIs

\* Job j with stamp t and an empty stage directory.
Emptied(j, t) == [j EXCEPT !.ts = t, !.stage = Nothing]

LEMMA EmptiedIs ==
    ASSUME NEW j \in Job, NEW t \in 0 .. MaxRuns
    PROVE  LET k == Emptied(j, t) IN
           /\ k \in Job /\ k.ts = t /\ k.stage = Nothing
           /\ k.pick = j.pick /\ k.load = j.load
BY NothingIs DEF Emptied, Job

LEMMA NoJobOK ==
    ASSUME NEW r \in Runner, NEW b
    PROVE  JobOK(r, "idle", NoJob, b) /\ NoJob.ts = 0
BY NothingIs, BoundAssumption DEF JobOK, NoJob, Job, BackupPc, RestorePc

(***************************************************************************)
(* A step in which only runner r moves, from its job to job j at command l *)
(* with a stamp that is nobody else's, keeps Jobs.                         *)
(***************************************************************************)
LEMMA MoveOne ==
    ASSUME Jobs, NEW r \in Runner, NEW l, NEW j,
           pc' = [pc EXCEPT ![r] = l],
           job' = [job EXCEPT ![r] = j],
           JobOK(r, l, j, bucket'),
           \A q \in Runner \ {r} : JobOK(q, pc[q], job[q], bucket'),
           \/ j.ts \in {0, job[r].ts}
           \/ \A q \in Runner : job[q].ts # j.ts
    PROVE  Jobs'
<1>1. l \in {"idle"} \cup BackupPc \cup RestorePc /\ j \in Job
  BY DEF JobOK
<1>2. /\ pc' \in [Runner -> {"idle"} \cup BackupPc \cup RestorePc]
      /\ job' \in [Runner -> Job]
  BY <1>1 DEF Jobs
<1>3. /\ pc'[r] = l /\ job'[r] = j
      /\ \A q \in Runner \ {r} : pc'[q] = pc[q] /\ job'[q] = job[q]
  BY DEF Jobs
<1>4. \A q \in Runner : JobOK(q, pc'[q], job'[q], bucket')
  BY <1>3
<1>5. Distinct'
  BY <1>3 DEF Jobs, Distinct
<1>6. QED
  BY <1>2, <1>4, <1>5 DEF Jobs

\* The same when the bucket stays as it is.
LEMMA Move ==
    ASSUME Jobs, NEW r \in Runner, NEW l, NEW j,
           bucket' = bucket,
           pc' = [pc EXCEPT ![r] = l],
           job' = [job EXCEPT ![r] = j],
           JobOK(r, l, j, bucket),
           \/ j.ts \in {0, job[r].ts}
           \/ \A q \in Runner : job[q].ts # j.ts
    PROVE  Jobs'
<1>1. \A q \in Runner \ {r} : JobOK(q, pc[q], job[q], bucket')
  BY DEF Jobs
<1>2. QED
  BY <1>1, MoveOne

\* A script that ends.
LEMMA MoveOut ==
    ASSUME Jobs, NEW r \in Runner, Exit(r), bucket' = bucket
    PROVE  Jobs'
BY NoJobOK, Move DEF Exit, Goto

\* A command that changes no job.
LEMMA MoveOn ==
    ASSUME Jobs, NEW r \in Runner, NEW l, Goto(r, l),
           job' = job, bucket' = bucket, JobOK(r, l, job[r], bucket)
    PROVE  Jobs'
<1>1. job' = [job EXCEPT ![r] = job[r]]
  BY DEF Jobs
<1>2. QED
  BY <1>1, Move DEF Goto

(***************************************************************************)
(* Every step keeps the jobs in order.                                     *)
(***************************************************************************)
LEMMA JobsStep == Typed /\ [Next]_vars => Jobs'
<1> SUFFICES ASSUME Typed, [Next]_vars PROVE Jobs'
  OBVIOUS
<1> USE BoundAssumption DEF Typed
<1>0. /\ pc \in [Runner -> {"idle"} \cup BackupPc \cup RestorePc]
      /\ job \in [Runner -> Job]
      /\ \A q \in Runner : JobOK(q, pc[q], job[q], bucket)
  BY DEF Jobs
<1>1. ASSUME NEW m \in Memory, Write(m) PROVE Jobs'
  BY <1>1 DEF Write, Jobs, Distinct
<1>2. ASSUME NEW r \in Runner, NEW l \in {"idle", "snapshot"},
             BeginBackup(r, l), l = "snapshot" => r \in Operator
      PROVE  Jobs'
  <2>1. PICK t \in Stamp :
           /\ Unused(t)
           /\ job' = [job EXCEPT ![r] = [@ EXCEPT !.ts = t, !.stage = Nothing]]
    BY <1>2 DEF BeginBackup
  <2> DEFINE j == Emptied(job[r], t)
  <2>2. job[r] \in Job /\ pc[r] = l /\ JobOK(r, l, job[r], bucket)
    BY <1>0, <1>2 DEF BeginBackup
  <2>3. /\ j \in Job /\ j.ts = t /\ j.stage = Nothing
        /\ j.pick = job[r].pick /\ j.load = job[r].load
    BY <2>2, EmptiedIs DEF Stamp
  <2>4. t # 0 /\ bucket[t].puts < Files
    BY <2>1 DEF Unused, Listed, Data, Stamp, Files
  <2>5. JobOK(r, "pgDump", j, bucket)
    <3>1. DOMAIN j.stage = Dumped("pgDump")
      BY <2>3, NothingIs DEF Dumped
    <3>2. j.pick # 0 => r \in Operator /\ DOMAIN j.load = Stores
      BY <1>2, <2>2, <2>3 DEF JobOK, RestorePc, NoJob
    <3>3. QED
      BY <2>3, <2>4, <3>1, <3>2 DEF JobOK, BackupPc, RestorePc
  <2>6. \A q \in Runner : job[q].ts # t
    BY <1>0, <2>1 DEF Unused, Job, Stamp
  <2>7. job' = [job EXCEPT ![r] = j] /\ pc' = [pc EXCEPT ![r] = "pgDump"]
        /\ bucket' = bucket
    BY <1>2, <2>1 DEF BeginBackup, Goto, Emptied
  <2>8. QED
    BY <2>3, <2>5, <2>6, <2>7, Move
<1>3. ASSUME NEW r \in Runner, NEW s \in Stores, NEW l,
             \/ pc[r] = "pgDump" /\ s = "postgres" /\ l = "tarHistory"
             \/ pc[r] = "tarHistory" /\ s = "history" /\ l = "stopGraph"
             \/ pc[r] = "dumpGraph" /\ s = "graph" /\ l = "startGraph",
             Dump(r, s, l)
      PROVE  Jobs'
  <2> DEFINE j == [job[r] EXCEPT !.stage = With(job[r].stage, s, live[s])]
  <2>1. job[r] \in Job /\ JobOK(r, pc[r], job[r], bucket)
    BY <1>0
  <2>2. /\ With(job[r].stage, s, live[s]) \in Image
        /\ DOMAIN With(job[r].stage, s, live[s]) = DOMAIN job[r].stage \cup {s}
    BY <2>1, WithIs DEF Data, Job
  <2>3. /\ j \in Job /\ j.ts = job[r].ts /\ DOMAIN j.stage = DOMAIN job[r].stage \cup {s}
        /\ j.pick = job[r].pick /\ j.load = job[r].load
    BY <2>1, <2>2 DEF Job
  <2>4. JobOK(r, l, j, bucket)
    BY <1>3, <2>1, <2>3 DEF JobOK, BackupPc, RestorePc, Dumped, Stores
  <2>5. /\ job' = [job EXCEPT ![r] = j] /\ pc' = [pc EXCEPT ![r] = l]
        /\ bucket' = bucket
    BY <1>3 DEF Dump, Goto
  <2>6. QED
    BY <2>3, <2>4, <2>5, Move
<1>4. ASSUME NEW r \in Runner,
             \/ StopGraph(r) \/ StartGraph(r) \/ DumpGraphFails(r)
             \/ SkipSnapshot(r) \/ StopMem0(r) \/ StopForLoad(r)
             \/ StartAfterLoad(r)
             \/ LoadPostgres(r) \/ LoadHistory(r) \/ LoadGraph(r)
      PROVE  Jobs'
  <2>1. PICK l : Goto(r, l) /\ job' = job /\ bucket' = bucket
                 /\ \/ <<pc[r], l>> \in {<<"stopGraph", "dumpGraph">>,
                         <<"startGraph", "upload">>, <<"dumpGraph", "graphFailed">>}
                    \/ <<pc[r], l>> \in {<<"snapshot", "stopMem0">>,
                         <<"stopMem0", "loadPostgres">>, <<"stopForLoad", "loadGraph">>,
                         <<"startAfterLoad", "startMem0">>, <<"loadPostgres", "loadHistory">>,
                         <<"loadHistory", "stopForLoad">>, <<"loadGraph", "startAfterLoad">>}
    BY <1>4 DEF StopGraph, StartGraph, DumpGraphFails, SkipSnapshot, StopMem0,
         StopForLoad, StartAfterLoad, Compose, LoadPostgres, LoadHistory,
         LoadGraph, Load
  <2>2. JobOK(r, l, job[r], bucket)
    BY <1>0, <2>1 DEF JobOK, BackupPc, RestorePc, Dumped
  <2>3. QED
    BY <2>1, <2>2, MoveOn
<1>5. ASSUME NEW r \in Runner, Exit(r), bucket' = bucket PROVE Jobs'
  BY <1>5, MoveOut
<1>6. ASSUME NEW r \in Runner, Put(r) PROVE Jobs'
  <2> DEFINE t == job[r].ts
             n == bucket[t].puts + 1
             l == IF n = Files THEN "report" ELSE "upload"
  <2>1. /\ pc[r] = "upload" /\ job' = job
        /\ bucket' = [bucket EXCEPT ![t] = [puts |-> n, image |-> job[r].stage]]
        /\ pc' = [pc EXCEPT ![r] = l]
    BY <1>6 DEF Put, Goto
  <2>2. t \in Stamp /\ n \in 1 .. Files /\ job[r] \in Job
    <3>1. job[r] \in Job /\ t # 0 /\ bucket[t].puts < Files
      BY <1>0, <2>1 DEF JobOK, BackupPc
    <3>2. t \in Stamp
      BY <3>1 DEF Job, Stamp
    <3>3. QED
      BY <3>1, <3>2 DEF Data, Files
  <2>3. bucket'[t] = [puts |-> n, image |-> job[r].stage]
    BY <2>1, <2>2 DEF Data
  <2>4. JobOK(r, l, job[r], bucket')
    BY <1>0, <2>1, <2>2, <2>3 DEF JobOK, BackupPc, RestorePc, Dumped, Files
  <2>5. ASSUME NEW q \in Runner \ {r} PROVE JobOK(q, pc[q], job[q], bucket')
    <3>1. job[q].ts # t
      BY <2>2 DEF Jobs, Distinct, Stamp
    <3>2. job[q].ts \in Stamp => bucket'[job[q].ts] = bucket[job[q].ts]
      BY <2>1, <3>1 DEF Data
    <3>3. job[q].ts \in 0 .. MaxRuns
      BY <1>0 DEF Job
    <3>4. JobOK(q, pc[q], job[q], bucket)
      BY <1>0
    <3>5. QED
      BY <3>2, <3>3, <3>4 DEF JobOK, Stamp, BackupPc
  <2>6. job' = [job EXCEPT ![r] = job[r]]
    BY <1>0, <2>1
  <2>7. QED
    BY <2>1, <2>4, <2>5, <2>6, MoveOne
<1>7. ASSUME NEW r \in Runner, Report(r) PROVE Jobs'
  <2>1. CASE job[r].pick = 0
    BY <1>7, <2>1, MoveOut DEF Report
  <2>2. CASE job[r].pick # 0
    <3> DEFINE j == Emptied(job[r], 0)
    <3>1. /\ pc[r] = "report" /\ bucket' = bucket
          /\ job' = [job EXCEPT ![r] = j] /\ pc' = [pc EXCEPT ![r] = "stopMem0"]
      BY <1>7, <2>2 DEF Report, Goto, Emptied
    <3>2. job[r] \in Job /\ JobOK(r, "report", job[r], bucket)
      BY <1>0, <3>1
    <3>3. /\ j \in Job /\ j.ts = 0
          /\ j.pick = job[r].pick /\ j.load = job[r].load
      BY <3>2, EmptiedIs
    <3>4. JobOK(r, "stopMem0", j, bucket)
      BY <2>2, <3>2, <3>3 DEF JobOK, BackupPc, RestorePc
    <3>5. QED
      BY <3>1, <3>3, <3>4, Move
  <2>3. QED
    BY <2>1, <2>2
<1>8. ASSUME NEW r \in Operator, BeginRestore(r) PROVE Jobs'
  <2>1. PICK t \in Listed : job' = [job EXCEPT ![r] = [@ EXCEPT !.pick = t]]
    BY <1>8 DEF BeginRestore
  <2> DEFINE j == [job[r] EXCEPT !.pick = t]
  <2>2. r \in Runner /\ pc[r] = "idle" /\ job[r] \in Job
    BY <1>0, <1>8 DEF BeginRestore, Runner
  <2>3. j \in Job /\ j.ts = job[r].ts /\ j.pick # 0
    BY <2>2 DEF Job, Listed, Stamp
  <2>4. JobOK(r, "download", j, bucket)
    BY <2>3 DEF JobOK, BackupPc, RestorePc
  <2>5. QED
    BY <1>8, <2>1, <2>2, <2>3, <2>4, Move DEF BeginRestore, Goto
<1>9. ASSUME NEW r \in Runner, Download(r), job[r].pick \in Complete PROVE Jobs'
  <2> DEFINE i == bucket[job[r].pick].image
             j == [job[r] EXCEPT !.load = i]
  <2>1. pc[r] = "download" /\ job[r] \in Job /\ JobOK(r, "download", job[r], bucket)
    BY <1>0, <1>9 DEF Download
  <2>2. i \in Image /\ DOMAIN i = Stores
    BY <1>9 DEF Complete, Data, Files
  <2>3. /\ j \in Job /\ j.ts = job[r].ts /\ j.pick = job[r].pick /\ j.load = i
    BY <2>1, <2>2 DEF Job
  <2>4. JobOK(r, "snapshot", j, bucket)
    BY <2>1, <2>2, <2>3 DEF JobOK, BackupPc, RestorePc
  <2>5. /\ job' = [job EXCEPT ![r] = j] /\ pc' = [pc EXCEPT ![r] = "snapshot"]
        /\ bucket' = bucket
    BY <1>9 DEF Download, Goto
  <2>6. QED
    BY <2>3, <2>4, <2>5, Move
<1>10. CASE UNCHANGED vars
  BY <1>10 DEF vars, Jobs, Distinct
<1>11. ASSUME NEW r \in Runner, BackupStep(r) PROVE Jobs'
  BY <1>2, <1>3, <1>4, <1>5, <1>6, <1>7, <1>11
  DEF BackupStep, PgDump, TarHistory, DumpGraph, StartGraphAndDie, Stores
<1>12. ASSUME NEW r \in Runner, RestoreStep(r) PROVE Jobs'
  BY <1>4, <1>5, <1>9, <1>12
  DEF RestoreStep, Download, LoadGraphRefused, StartMem0
<1>13. ASSUME NEW r \in Runner, Stops(r) PROVE Jobs'
  BY <1>5, <1>13 DEF Stops
<1>14. QED
  BY <1>1, <1>2, <1>8, <1>10, <1>11, <1>12, <1>13
  DEF Next, CommandFails, Killed, Runner

(***************************************************************************)
(* Every step keeps the stores, the bucket and the histories in order.     *)
(***************************************************************************)
LEMMA Loads ==
    ASSUME Typed, NEW r \in Runner, NEW s \in Stores, NEW l, Load(r, s, l),
           pc[r] \in {"loadPostgres", "loadHistory", "loadGraph"}
    PROVE  Data'
<1>1. job[r].load \in Image /\ DOMAIN job[r].load = Stores
  <2>1. JobOK(r, pc[r], job[r], bucket)
    BY DEF Typed, Jobs
  <2>2. QED
    BY <2>1 DEF JobOK, Job, RestorePc
<1>2. job[r].load[s] \in Content
  BY <1>1, ImageOf
<1>3. live' \in [Stores -> Content]
  BY <1>2 DEF Load, Typed, Data
<1>4. QED
  BY <1>3 DEF Load, Typed, Data

LEMMA Halfway ==
    ASSUME Typed, NEW r \in Runner, Stops(r)
    PROVE  Data'
<1>1. CASE UNCHANGED live
  BY <1>1 DEF Stops, Typed, Data
<1>2. ASSUME NEW s \in Loading(r),
             NEW kept \in SUBSET (live[s].mem \cup job[r].load[s].mem),
             live' = [live EXCEPT ![s] = [mem |-> kept, whole |-> FALSE]]
      PROVE  Data'
  <2>1. s \in Stores /\ pc[r] \in {"loadPostgres", "loadHistory", "loadGraph"}
    BY <1>2 DEF Loading, Stores
  <2>2. job[r].load \in Image /\ DOMAIN job[r].load = Stores
    <3>1. JobOK(r, pc[r], job[r], bucket)
      BY DEF Typed, Jobs
    <3>2. QED
      BY <2>1, <3>1 DEF JobOK, Job, RestorePc
  <2>3. job[r].load[s] \in Content /\ live[s] \in Content
    BY <2>1, <2>2, ImageOf DEF Typed, Data
  <2>4. kept \in SUBSET Memory
    BY <1>2, <2>3 DEF Content
  <2>5. [mem |-> kept, whole |-> FALSE] \in Content
    BY <2>4 DEF Content
  <2>6. live' \in [Stores -> Content]
    BY <1>2, <2>1, <2>5 DEF Typed, Data
  <2>7. QED
    BY <2>6 DEF Stops, Typed, Data
<1>3. QED
  BY <1>1, <1>2 DEF Stops

LEMMA DataStep == Typed /\ [Next]_vars => Data'
<1> SUFFICES ASSUME Typed, [Next]_vars PROVE Data'
  OBVIOUS
<1> USE DEF Typed
<1>0. /\ job \in [Runner -> Job]
      /\ \A q \in Runner : JobOK(q, pc[q], job[q], bucket)
  BY DEF Jobs
<1>1. ASSUME NEW m \in Memory, Write(m) PROVE Data'
  <2>1. \A s \in Stores : [live[s] EXCEPT !.mem = @ \cup {m}] \in Content
    BY DEF Data, Content
  <2>2. live' \in [Stores -> Content]
    BY <1>1, <2>1 DEF Write, Data
  <2>3. exposed' \subseteq Memory
    BY <1>1 DEF Write, Data
  <2>4. QED
    BY <1>1, <2>2, <2>3 DEF Write, Data
<1>2. ASSUME NEW r \in Runner, NEW l, BeginBackup(r, l) PROVE Data'
  <2>1. PICK t \in Stamp :
           before' = [before EXCEPT ![t] = live["postgres"].mem]
    BY <1>2 DEF BeginBackup
  <2>2. live["postgres"].mem \in SUBSET Memory
    BY DEF Data, Stores, Content
  <2>3. before' \in [Stamp -> SUBSET Memory]
    BY <2>1, <2>2 DEF Data
  <2>4. QED
    BY <1>2, <2>3 DEF BeginBackup, Data
<1>3. ASSUME NEW r \in Runner, Put(r) PROVE Data'
  <2> DEFINE t == job[r].ts
             p == [puts |-> bucket[t].puts + 1, image |-> job[r].stage]
  <2>1. bucket' = [bucket EXCEPT ![t] = p]
    BY <1>3 DEF Put
  <2>2. /\ job[r] \in Job /\ t # 0 /\ bucket[t].puts < Files
        /\ DOMAIN job[r].stage = Stores
    BY <1>0, <1>3 DEF Put, JobOK, BackupPc, Dumped
  <2>3. t \in Stamp
    BY <2>2 DEF Job, Stamp
  <2>4. p \in [puts : 0 .. Files, image : Image] /\ p.image = job[r].stage
    BY <2>2, <2>3 DEF Data, Job, Files
  <2>5. bucket' \in [Stamp -> [puts : 0 .. Files, image : Image]]
    BY <2>1, <2>4 DEF Data
  <2>6. \A u \in Stamp : bucket'[u].puts > 0 => DOMAIN bucket'[u].image = Stores
    BY <2>1, <2>2, <2>4 DEF Data
  <2>7. QED
    BY <1>3, <2>5, <2>6 DEF Put, Data
<1>4. ASSUME NEW r \in Runner, Report(r) PROVE Data'
  <2>1. job[r].ts \in Stamp
    <3>1. job[r] \in Job /\ job[r].ts # 0
      BY <1>0, <1>4 DEF Report, JobOK, BackupPc
    <3>2. QED
      BY <3>1 DEF Job, Stamp
  <2>2. QED
    BY <1>4, <2>1 DEF Report, Data
<1>5. ASSUME NEW r \in Runner,
             \/ PgDump(r) \/ TarHistory(r) \/ StopGraph(r) \/ DumpGraph(r)
             \/ DumpGraphFails(r) \/ StartGraph(r) \/ StartGraphAndDie(r)
      PROVE  Data'
  BY <1>5 DEF PgDump, TarHistory, StopGraph, DumpGraph, DumpGraphFails,
     StartGraph, StartGraphAndDie, Dump, Compose, Data
<1>6. ASSUME NEW r \in Runner,
             \/ Download(r) \/ StopMem0(r) \/ StopForLoad(r)
             \/ LoadGraphRefused(r) \/ StartAfterLoad(r) \/ StartMem0(r)
      PROVE  Data'
  BY <1>6 DEF Download, StopMem0, StopForLoad, LoadGraphRefused,
     StartAfterLoad, StartMem0, Compose, Data
<1>7. ASSUME NEW r \in Runner, SkipSnapshot(r) PROVE Data'
  BY <1>7 DEF SkipSnapshot, Data
<1>8. ASSUME NEW r \in Runner, LoadPostgres(r) \/ LoadHistory(r) \/ LoadGraph(r)
      PROVE  Data'
  BY <1>8, Loads DEF LoadPostgres, LoadHistory, LoadGraph, Stores
<1>9. ASSUME NEW r \in Operator, BeginRestore(r) PROVE Data'
  BY <1>9 DEF BeginRestore, Data
<1>10. CASE UNCHANGED vars
  BY <1>10 DEF vars, Data
<1>11. ASSUME NEW r \in Runner, BackupStep(r) \/ RestoreStep(r) PROVE Data'
  BY <1>2, <1>3, <1>4, <1>5, <1>6, <1>7, <1>8, <1>11 DEF BackupStep, RestoreStep
<1>12. QED
  BY <1>1, <1>2, <1>9, <1>10, <1>11, Halfway
  DEF Next, CommandFails, Killed, Runner

LEMMA TypedInit == Init => Typed
<1> SUFFICES ASSUME Init PROVE Typed
  OBVIOUS
<1>1. Jobs
  BY NoJobOK, BoundAssumption DEF Init, Jobs, Distinct, JobOK
<1>2. [mem |-> {}, whole |-> TRUE] \in Content
  BY DEF Content
<1>3. [puts |-> 0, image |-> Nothing] \in [puts : 0 .. Files, image : Image]
  BY NothingIs DEF Files
<1>4. Data
  BY <1>2, <1>3 DEF Init, Data
<1>5. QED
  BY <1>1, <1>4 DEF Typed

LEMMA Inductive == Spec => []Typed
<1>1. Typed /\ [Next]_vars => Typed'
  BY JobsStep, DataStep DEF Typed
<1>2. QED
  BY TypedInit, <1>1, PTL DEF Spec

\* Every state is well typed, with any number of overlapping backups, restores
\* and aborted scripts: in particular no run writes a file too many to its
\* prefix, and a restore only ever loads a store that its download holds.
THEOREM TypeCorrect == Spec => []TypeOK
<1>1. Typed => TypeOK
  BY DEF Typed, Data, Jobs, TypeOK
<1>2. QED
  BY Inductive, <1>1, PTL

-----------------------------------------------------------------------------
(***************************************************************************)
(* Nothing is lost.  The database alone does not show why: what matters is *)
(* what a restore already has in its snapshot, at each command until it    *)
(* overwrites Postgres, and that mem0 is down when it does.                *)
(***************************************************************************)
Kept == acked \ exposed

SavedBy(r) ==
    /\ job[r].pick # 0 /\ pc[r] \in BackupPc \ {"pgDump"}
       => Kept \subseteq job[r].stage["postgres"].mem \cup InBackups
    /\ pc[r] \in {"stopMem0", "loadPostgres"} => Kept \subseteq InBackups
    /\ pc[r] = "loadPostgres" => "mem0" \notin serving

Saved == NothingLost /\ \A r \in Runner : SavedBy(r)

\* A complete backup stays what it is: a run writes to its own prefix only,
\* and only while that is incomplete.
LEMMA BackupsStay == Typed /\ [Next]_vars => InBackups \subseteq InBackups'
<1> SUFFICES ASSUME Typed, [Next]_vars PROVE InBackups \subseteq InBackups'
  OBVIOUS
<1>1. ASSUME bucket' = bucket PROVE InBackups \subseteq InBackups'
  BY <1>1 DEF InBackups, Complete
<1>2. ASSUME NEW r \in Runner, Put(r) PROVE InBackups \subseteq InBackups'
  <2>1. JobOK(r, "upload", job[r], bucket)
    BY <1>2 DEF Put, Typed, Jobs
  <2>2. bucket[job[r].ts].puts < Files
    BY <2>1 DEF JobOK, BackupPc
  <2>3. job[r].ts \notin Complete
    BY <2>2 DEF Complete, Files
  <2>4. \A t \in Stamp \ {job[r].ts} : bucket'[t] = bucket[t]
    BY <1>2 DEF Put, Typed, Data
  <2>5. \A t \in Complete : t \in Complete' /\ bucket'[t] = bucket[t]
    BY <2>3, <2>4 DEF Complete
  <2>6. QED
    BY <2>5 DEF InBackups
<1>3. CASE UNCHANGED vars
  BY <1>1, <1>3 DEF vars
<1>4. ASSUME NEW r \in Runner, BackupStep(r) PROVE InBackups \subseteq InBackups'
  BY <1>1, <1>2, <1>4 DEF BackupStep, BeginBackup, PgDump, TarHistory,
     StopGraph, DumpGraph, DumpGraphFails, StartGraph, StartGraphAndDie,
     Report, Dump, Compose
<1>5. ASSUME NEW r \in Runner, RestoreStep(r) PROVE InBackups \subseteq InBackups'
  BY <1>1, <1>5 DEF RestoreStep, Download, SkipSnapshot, StopMem0,
     LoadPostgres, LoadHistory, StopForLoad, LoadGraph, LoadGraphRefused,
     StartAfterLoad, StartMem0, Load, Compose
<1>6. QED
  BY <1>1, <1>3, <1>4, <1>5
  DEF Next, Write, BeginBackup, BeginRestore, CommandFails, Killed, Stops

\* What a step leaves of a runner that does not move.
LEMMA Bystander ==
    ASSUME NEW q \in Runner, SavedBy(q),
           pc'[q] = pc[q], job'[q] = job[q],
           Kept' \subseteq Kept,
           InBackups \subseteq InBackups',
           pc[q] = "loadPostgres" /\ "mem0" \in serving' => "mem0" \in serving
    PROVE  SavedBy(q)'
BY DEF SavedBy

\* A step of runner r that leaves the histories alone and brings mem0 back, if
\* at all, when nobody is about to load keeps what the others have saved.
LEMMA OthersSaved ==
    ASSUME Typed, Saved, [Next]_vars, NEW r \in Runner, NEW l, NEW j,
           pc' = [pc EXCEPT ![r] = l], job' = [job EXCEPT ![r] = j],
           Kept' \subseteq Kept,
           \/ "mem0" \in serving' => "mem0" \in serving
           \/ r \in Operator
    PROVE  \A q \in Runner \ {r} : SavedBy(q)'
<1> SUFFICES ASSUME NEW q \in Runner \ {r} PROVE SavedBy(q)'
  OBVIOUS
<1>1. pc'[q] = pc[q] /\ job'[q] = job[q]
  BY DEF Typed, Jobs
<1>2. r \in Operator => pc[q] # "loadPostgres"
  <2>1. JobOK(q, pc[q], job[q], bucket)
    BY DEF Typed, Jobs
  <2>2. QED
    BY <2>1, RunnerAssumption DEF JobOK, RestorePc
<1>3. QED
  BY <1>1, <1>2, BackupsStay, Bystander DEF Saved

LEMMA SavedWrite ==
    ASSUME Typed, Saved, [Next]_vars, NEW m \in Memory, Write(m)
    PROVE  Saved'
<1>1. live'["postgres"].mem = live["postgres"].mem \cup {m}
  BY DEF Write, Typed, Data, Stores, Content
<1>2. Kept' \subseteq Kept \cup {m}
  BY DEF Write, Kept
<1>3. NothingLost'
  BY <1>1, <1>2, BackupsStay DEF Saved, NothingLost, Kept
<1>4. ASSUME NEW r \in Runner PROVE SavedBy(r)'
  <2>1. JobOK(r, pc[r], job[r], bucket)
    BY DEF Typed, Jobs
  <2>2. SavedBy(r) /\ pc' = pc /\ job' = job /\ serving' = serving
        /\ "mem0" \in serving
    BY DEF Saved, Write
  <2>3. CASE Unguarded(r)
    <3>1. Kept' \subseteq Kept
      BY <2>3 DEF Write, Kept
    <3>2. QED
      BY <2>2, <3>1, BackupsStay, Bystander
  <2>4. CASE ~ Unguarded(r)
    BY <2>1, <2>2, <2>4 DEF SavedBy, Unguarded, JobOK, RestorePc
  <2>5. QED
    BY <2>3, <2>4
<1>5. QED
  BY <1>3, <1>4 DEF Saved

LEMMA SavedStep == Typed /\ Saved /\ [Next]_vars => Saved'
<1> SUFFICES ASSUME Typed, Saved, [Next]_vars PROVE Saved'
  OBVIOUS
<1>0. /\ pc \in [Runner -> {"idle"} \cup BackupPc \cup RestorePc]
      /\ job \in [Runner -> Job]
      /\ \A q \in Runner : JobOK(q, pc[q], job[q], bucket) /\ SavedBy(q)
      /\ Kept \subseteq live["postgres"].mem \cup InBackups
  BY DEF Typed, Jobs, Saved, NothingLost, Kept
<1>1. ASSUME NEW r \in Runner, NEW l, NEW j,
             pc' = [pc EXCEPT ![r] = l], job' = [job EXCEPT ![r] = j],
             UNCHANGED <<acked, exposed>> \/ Kept' = {},
             \/ "mem0" \in serving' => "mem0" \in serving
             \/ r \in Operator,
             SavedBy(r)',
             \/ live'["postgres"] = live["postgres"]
             \/ pc[r] = "loadPostgres"
      PROVE  Saved'
  <2>1. Kept' \subseteq Kept
    BY <1>1 DEF Kept
  <2>2. \A q \in Runner \ {r} : SavedBy(q)'
    BY <1>1, <2>1, OthersSaved
  <2>3. Kept' \subseteq live'["postgres"].mem \cup InBackups'
    BY <1>0, <1>1, <2>1, BackupsStay DEF SavedBy
  <2>4. QED
    BY <1>1, <2>2, <2>3 DEF Saved, NothingLost, Kept
<1>2. ASSUME NEW r \in Runner, Exit(r), UNCHANGED <<acked, exposed>>,
             \/ "mem0" \in serving' => "mem0" \in serving
             \/ r \in Operator,
             \/ live'["postgres"] = live["postgres"]
             \/ pc[r] = "loadPostgres"
      PROVE  Saved'
  <2>1. pc' = [pc EXCEPT ![r] = "idle"] /\ job' = [job EXCEPT ![r] = NoJob]
    BY <1>2 DEF Exit, Goto
  <2>2. pc'[r] = "idle"
    BY <1>0, <2>1
  <2>3. SavedBy(r)'
    BY <2>2 DEF SavedBy, BackupPc
  <2>4. QED
    BY <1>1, <1>2, <2>1, <2>3
<1>3. ASSUME NEW r \in Runner, NEW l, NEW j,
             pc' = [pc EXCEPT ![r] = l], job' = [job EXCEPT ![r] = j],
             UNCHANGED <<live, serving, acked, exposed>>,
             l \in {"pgDump", "download", "snapshot"}
      PROVE  Saved'
  <2>1. pc'[r] = l
    BY <1>0, <1>3
  <2>2. SavedBy(r)'
    BY <1>3, <2>1 DEF SavedBy, BackupPc
  <2>3. QED
    BY <1>1, <1>3, <2>2
<1>4. ASSUME NEW r \in Runner, PgDump(r) PROVE Saved'
  <2> DEFINE j == [job[r] EXCEPT !.stage = With(job[r].stage, "postgres", live["postgres"])]
  <2>1. /\ pc' = [pc EXCEPT ![r] = "tarHistory"] /\ job' = [job EXCEPT ![r] = j]
        /\ UNCHANGED <<live, serving, acked, exposed>>
    BY <1>4 DEF PgDump, Dump, Goto
  <2>2. With(job[r].stage, "postgres", live["postgres"])["postgres"] = live["postgres"]
    BY DEF With
  <2>3. job'[r].stage["postgres"] = live["postgres"]
    BY <1>0, <2>1, <2>2 DEF Job
  <2>4. pc'[r] = "tarHistory" /\ Kept' = Kept
    BY <1>0, <2>1 DEF Kept
  <2>5. SavedBy(r)'
    BY <1>0, <2>3, <2>4, BackupsStay DEF SavedBy
  <2>6. QED
    BY <1>1, <2>1, <2>5
<1>5. ASSUME NEW r \in Runner, NEW s \in {"history", "graph"}, NEW l,
             \/ pc[r] = "tarHistory" /\ l = "stopGraph"
             \/ pc[r] = "dumpGraph" /\ l = "startGraph",
             Dump(r, s, l)
      PROVE  Saved'
  <2> DEFINE j == [job[r] EXCEPT !.stage = With(job[r].stage, s, live[s])]
  <2>1. /\ pc' = [pc EXCEPT ![r] = l] /\ job' = [job EXCEPT ![r] = j]
        /\ UNCHANGED <<live, serving, acked, exposed>>
    BY <1>5 DEF Dump, Goto
  <2>2. job[r] \in Job /\ "postgres" \in DOMAIN job[r].stage \ {s}
    BY <1>0, <1>5 DEF JobOK, BackupPc, Dumped
  <2>3. With(job[r].stage, s, live[s])["postgres"] = job[r].stage["postgres"]
    BY <2>2 DEF With
  <2>4. job'[r].stage["postgres"] = job[r].stage["postgres"]
        /\ job'[r].pick = job[r].pick
    BY <1>0, <2>1, <2>3 DEF Job
  <2>5. pc'[r] = l /\ Kept' = Kept
    BY <1>0, <2>1 DEF Kept
  <2>6. SavedBy(r)'
    BY <1>0, <1>5, <2>4, <2>5, BackupsStay DEF SavedBy, BackupPc
  <2>7. QED
    BY <1>1, <2>1, <2>6
<1>6. ASSUME NEW r \in Runner, NEW l, Goto(r, l), job' = job,
             UNCHANGED <<acked, exposed>>,
             "mem0" \in serving' => "mem0" \in serving \/ r \in Operator,
             \/ /\ live'["postgres"] = live["postgres"]
                /\ l \notin {"pgDump", "stopMem0", "loadPostgres"}
                /\ l \in BackupPc => pc[r] \in BackupPc \ {"pgDump"}
             \/ /\ live'["postgres"] = live["postgres"]
                /\ pc[r] = "stopMem0" /\ l = "loadPostgres"
                /\ "mem0" \notin serving'
             \/ pc[r] = "loadPostgres" /\ l = "loadHistory"
      PROVE  Saved'
  <2>1. pc' = [pc EXCEPT ![r] = l] /\ job' = [job EXCEPT ![r] = job[r]]
        /\ pc'[r] = l /\ Kept' = Kept
    BY <1>0, <1>6 DEF Goto, Kept
  <2>2. SavedBy(r)'
    BY <1>0, <1>6, <2>1, BackupsStay DEF SavedBy, BackupPc
  <2>3. QED
    BY <1>1, <1>6, <2>1, <2>2
<1>7. ASSUME NEW r \in Runner, SkipSnapshot(r) PROVE Saved'
  <2>1. Kept' = {}
    BY <1>7 DEF SkipSnapshot, Kept
  <2>2. /\ pc' = [pc EXCEPT ![r] = "stopMem0"] /\ job' = [job EXCEPT ![r] = job[r]]
        /\ UNCHANGED <<live, serving>> /\ pc'[r] = "stopMem0"
    BY <1>0, <1>7 DEF SkipSnapshot, Goto
  <2>3. SavedBy(r)'
    BY <2>1, <2>2 DEF SavedBy
  <2>4. QED
    BY <1>1, <2>1, <2>2, <2>3
<1>8. ASSUME NEW r \in Runner, Report(r) PROVE Saved'
  <2>1. CASE job[r].pick = 0
    BY <1>2, <1>8, <2>1 DEF Report
  <2>2. CASE job[r].pick # 0
    <3>1. /\ pc' = [pc EXCEPT ![r] = "stopMem0"]
          /\ job' = [job EXCEPT ![r] = Emptied(job[r], 0)]
          /\ UNCHANGED <<live, serving, acked, exposed, bucket>>
      BY <1>8, <2>2 DEF Report, Goto, Emptied
    <3>2. /\ job[r] \in Job /\ job[r].ts # 0
          /\ bucket[job[r].ts] = [puts |-> Files, image |-> job[r].stage]
      BY <1>0, <1>8 DEF Report, JobOK, BackupPc
    <3>3. job[r].ts \in Complete
      BY <3>2 DEF Job, Complete, Stamp
    <3>4. job[r].stage["postgres"].mem \subseteq InBackups
      BY <3>2, <3>3 DEF InBackups
    <3>5. pc[r] = "report" /\ pc'[r] = "stopMem0" /\ Kept' = Kept
      BY <1>0, <1>8, <3>1 DEF Report, Kept
    <3>6. Kept \subseteq InBackups
      BY <1>0, <2>2, <3>4, <3>5 DEF SavedBy, BackupPc
    <3>7. SavedBy(r)'
      BY <3>5, <3>6, BackupsStay DEF SavedBy
    <3>8. QED
      BY <1>1, <3>1, <3>7
  <2>3. QED
    BY <2>1, <2>2
<1>9. ASSUME NEW r \in Runner, Put(r) PROVE Saved'
  <2>1. PICK l : Goto(r, l) /\ l \in {"report", "upload"}
    BY <1>9 DEF Put
  <2>2. pc[r] = "upload" /\ UNCHANGED <<live, serving, job, acked, exposed>>
    BY <1>9 DEF Put
  <2>3. QED
    BY <1>6, <2>1, <2>2 DEF BackupPc
<1>10. ASSUME NEW r \in Runner,
              StopGraph(r) \/ DumpGraphFails(r) \/ StartGraph(r)
       PROVE  Saved'
  BY <1>6, <1>10 DEF StopGraph, DumpGraphFails, StartGraph, Compose, BackupPc
<1>11. ASSUME NEW r \in Runner, NEW l, BeginBackup(r, l) PROVE Saved'
  BY <1>3, <1>11 DEF BeginBackup, Goto
<1>12. ASSUME NEW r \in Runner, BackupStep(r) PROVE Saved'
  <2>1. CASE StartGraphAndDie(r)
    BY <1>2, <2>1 DEF StartGraphAndDie
  <2>2. QED
    BY <1>4, <1>5, <1>8, <1>9, <1>10, <1>11, <1>12, <2>1
    DEF BackupStep, TarHistory, DumpGraph
<1>13. ASSUME NEW r \in Runner,
              StopMem0(r) \/ StopForLoad(r) \/ StartAfterLoad(r)
       PROVE  Saved'
  BY <1>6, <1>13 DEF StopMem0, StopForLoad, StartAfterLoad, Compose, BackupPc
<1>14. ASSUME NEW r \in Runner, LoadPostgres(r) \/ LoadHistory(r) \/ LoadGraph(r)
       PROVE  Saved'
  <2>1. CASE LoadPostgres(r)
    BY <1>6, <2>1 DEF LoadPostgres, Load
  <2>2. CASE LoadHistory(r) \/ LoadGraph(r)
    <3>1. live'["postgres"] = live["postgres"]
      BY <2>2 DEF LoadHistory, LoadGraph, Load, Typed, Data, Stores
    <3>2. QED
      BY <1>6, <2>2, <3>1 DEF LoadHistory, LoadGraph, Load, BackupPc
  <2>3. QED
    BY <1>14, <2>1, <2>2
<1>15. ASSUME NEW r \in Runner, StartMem0(r) PROVE Saved'
  <2>1. r \in Operator
    BY <1>0, <1>15 DEF StartMem0, JobOK, RestorePc
  <2>2. QED
    BY <1>2, <1>15, <2>1 DEF StartMem0
<1>16. ASSUME NEW r \in Runner, Download(r) \/ LoadGraphRefused(r) PROVE Saved'
  BY <1>2, <1>3, <1>16 DEF Download, LoadGraphRefused, Goto
<1>17. ASSUME NEW r \in Runner, Stops(r) PROVE Saved'
  <2>1. \/ live'["postgres"] = live["postgres"]
        \/ pc[r] = "loadPostgres"
    <3>1. ASSUME NEW s \in Loading(r), NEW c,
                 live' = [live EXCEPT ![s] = c], pc[r] # "loadPostgres"
          PROVE  live'["postgres"] = live["postgres"]
      BY <3>1 DEF Loading, Typed, Data, Stores
    <3>2. QED
      BY <1>17, <3>1 DEF Stops
  <2>2. QED
    BY <1>2, <1>17, <2>1 DEF Stops
<1>18. ASSUME NEW r \in Operator, BeginRestore(r) PROVE Saved'
  BY <1>3, <1>18 DEF BeginRestore, Goto, Runner
<1>19. CASE UNCHANGED vars
  <2>1. Kept' = Kept /\ InBackups' = InBackups
    BY <1>19 DEF vars, Kept, InBackups, Complete
  <2>2. QED
    BY <1>19, <2>1 DEF vars, Saved, SavedBy, NothingLost, Kept
<1>20. ASSUME NEW r \in Runner, RestoreStep(r) PROVE Saved'
  BY <1>7, <1>13, <1>14, <1>15, <1>16, <1>20 DEF RestoreStep
<1>21. QED
  BY <1>11, <1>12, <1>17, <1>18, <1>19, <1>20, SavedWrite
  DEF Next, CommandFails, Killed, Runner

LEMMA SavedInit == Init => Saved
BY DEF Init, Saved, SavedBy, NothingLost, BackupPc

\* No backup, restore, overlap of the two, failed command or killed script
\* loses a stored memory: it is in the database or in a complete backup, unless
\* it was written after a pre-restore snapshot read the database, or the
\* operator skipped that snapshot (restore.sh:92-107).
THEOREM NeverLost == Spec => []NothingLost
<1>1. Typed /\ Saved /\ [Next]_vars => Saved'
  BY SavedStep
<1>2. Saved => NothingLost
  BY DEF Saved
<1>3. QED
  BY Inductive, SavedInit, <1>1, <1>2, PTL DEF Spec

-----------------------------------------------------------------------------
(***************************************************************************)
(* The heartbeat is honest.  What was live when a run began is not always  *)
(* in the run's own dump, for a restore may have replaced the database in  *)
(* between; but then NothingLost says that a complete backup has it.  For  *)
(* that it must be known that whatever is live was once acknowledged.      *)
(***************************************************************************)
KnownIn(i, a) == "postgres" \in DOMAIN i => i["postgres"].mem \subseteq a

Known ==
    /\ live["postgres"].mem \subseteq acked
    /\ \A t \in Stamp : before[t] \subseteq acked
    /\ \A t \in Stamp : KnownIn(bucket[t].image, acked)
    /\ \A r \in Runner : KnownIn(job[r].stage, acked) /\ KnownIn(job[r].load, acked)

LEMMA KnownOne ==
    ASSUME Jobs, Known, NEW r \in Runner, NEW j,
           job' = [job EXCEPT ![r] = j], acked' = acked,
           KnownIn(j.stage, acked), KnownIn(j.load, acked),
           live'["postgres"].mem \subseteq acked,
           \A t \in Stamp : before'[t] \subseteq acked,
           \A t \in Stamp : KnownIn(bucket'[t].image, acked)
    PROVE  Known'
<1>1. \A q \in Runner : job'[q] = IF q = r THEN j ELSE job[q]
  BY DEF Jobs
<1>2. QED
  BY <1>1 DEF Known

LEMMA KnownStep == Typed /\ Known /\ [Next]_vars => Known'
<1> SUFFICES ASSUME Typed, Known, [Next]_vars PROVE Known'
  OBVIOUS
<1>0. /\ Jobs
      /\ \A q \in Runner : job[q] \in Job /\ JobOK(q, pc[q], job[q], bucket)
      /\ KnownIn(Nothing, acked)
  BY NothingIs DEF Typed, Jobs, KnownIn
<1>1. ASSUME NEW m \in Memory, Write(m) PROVE Known'
  <2>1. live'["postgres"].mem = live["postgres"].mem \cup {m}
    BY <1>1 DEF Write, Typed, Data, Stores, Content
  <2>2. QED
    BY <1>1, <2>1 DEF Write, Known, KnownIn
<1>2. ASSUME NEW r \in Runner, NEW l, BeginBackup(r, l) PROVE Known'
  <2>1. PICK t \in Stamp :
           /\ job' = [job EXCEPT ![r] = Emptied(job[r], t)]
           /\ before' = [before EXCEPT ![t] = live["postgres"].mem]
    BY <1>2 DEF BeginBackup, Emptied
  <2>2. /\ Emptied(job[r], t).stage = Nothing
        /\ Emptied(job[r], t).load = job[r].load
    BY <1>0, EmptiedIs DEF Stamp
  <2>3. \A u \in Stamp : before'[u] \subseteq acked
    BY <2>1 DEF Known, Typed, Data
  <2>4. QED
    BY <1>0, <1>2, <2>1, <2>2, <2>3, KnownOne DEF BeginBackup, Known
<1>3. ASSUME NEW r \in Runner, NEW s \in Stores, NEW l, Dump(r, s, l)
      PROVE  Known'
  <2> DEFINE i == With(job[r].stage, s, live[s])
             j == [job[r] EXCEPT !.stage = i]
  <2>1. job' = [job EXCEPT ![r] = j]
    BY <1>3 DEF Dump
  <2>2. j.stage = i /\ j.load = job[r].load
    BY <1>0 DEF Job
  <2>3. KnownIn(i, acked)
    <3>1. "postgres" \in DOMAIN i => i["postgres"] =
             IF s = "postgres" THEN live["postgres"] ELSE job[r].stage["postgres"]
      BY DEF With
    <3>2. s # "postgres" /\ "postgres" \in DOMAIN i
             => "postgres" \in DOMAIN job[r].stage
      BY DEF With
    <3>3. QED
      BY <3>1, <3>2 DEF Known, KnownIn
  <2>4. QED
    BY <1>0, <1>3, <2>1, <2>2, <2>3, KnownOne DEF Dump, Known
<1>4. ASSUME NEW r \in Runner, Put(r) PROVE Known'
  <2>1. bucket' = [bucket EXCEPT ![job[r].ts] =
           [puts |-> bucket[job[r].ts].puts + 1, image |-> job[r].stage]]
        /\ UNCHANGED <<live, job, acked, before>>
    BY <1>4 DEF Put
  <2>2. \A t \in Stamp : KnownIn(bucket'[t].image, acked)
    BY <2>1 DEF Known, Typed, Data
  <2>3. QED
    BY <2>1, <2>2 DEF Known
<1>5. ASSUME NEW r \in Runner, Exit(r), UNCHANGED <<acked, before, bucket>>,
             live'["postgres"].mem \subseteq acked
      PROVE  Known'
  <2>1. NoJob.stage = Nothing /\ NoJob.load = Nothing
    BY DEF NoJob
  <2>2. QED
    BY <1>0, <1>5, <2>1, KnownOne DEF Exit, Known
<1>6. ASSUME NEW r \in Runner, Report(r) PROVE Known'
  <2>1. CASE job[r].pick = 0
    BY <1>5, <1>6, <2>1 DEF Report, Known
  <2>2. CASE job[r].pick # 0
    <3>1. job' = [job EXCEPT ![r] = Emptied(job[r], 0)]
      BY <1>6, <2>2 DEF Report, Emptied
    <3>2. /\ Emptied(job[r], 0).stage = Nothing
          /\ Emptied(job[r], 0).load = job[r].load
      BY <1>0, EmptiedIs, BoundAssumption
    <3>3. QED
      BY <1>0, <1>6, <3>1, <3>2, KnownOne DEF Report, Known
  <2>3. QED
    BY <2>1, <2>2
<1>7. ASSUME NEW r \in Operator, BeginRestore(r) PROVE Known'
  <2>1. PICK t \in Listed : job' = [job EXCEPT ![r] = [@ EXCEPT !.pick = t]]
    BY <1>7 DEF BeginRestore
  <2> DEFINE j == [job[r] EXCEPT !.pick = t]
  <2>2. r \in Runner /\ j.stage = job[r].stage /\ j.load = job[r].load
    BY <1>0 DEF Job, Runner
  <2>3. QED
    BY <1>0, <1>7, <2>1, <2>2, KnownOne DEF BeginRestore, Known
<1>8. ASSUME NEW r \in Runner, Download(r) PROVE Known'
  <2>1. CASE job[r].pick \in Complete
    <3> DEFINE i == bucket[job[r].pick].image
               j == [job[r] EXCEPT !.load = i]
    <3>1. job' = [job EXCEPT ![r] = j]
      BY <1>8, <2>1 DEF Download
    <3>2. j.stage = job[r].stage /\ j.load = i
      BY <1>0 DEF Job
    <3>3. KnownIn(i, acked)
      BY <2>1 DEF Known, Complete
    <3>4. QED
      BY <1>0, <1>8, <3>1, <3>2, <3>3, KnownOne DEF Download, Known
  <2>2. CASE job[r].pick \notin Complete
    BY <1>5, <1>8, <2>2 DEF Download, Known
  <2>3. QED
    BY <2>1, <2>2
<1>9. ASSUME NEW r \in Runner,
             pc[r] \in {"loadPostgres", "loadHistory", "loadGraph"}
      PROVE  job[r].load["postgres"].mem \subseteq acked
  <2>1. DOMAIN job[r].load = Stores
    BY <1>0, <1>9 DEF JobOK, RestorePc
  <2>2. QED
    BY <2>1 DEF Known, KnownIn, Stores
<1>10. ASSUME NEW r \in Runner, LoadPostgres(r) \/ LoadHistory(r) \/ LoadGraph(r)
       PROVE  Known'
  <2>1. PICK s \in Stores : /\ live' = [live EXCEPT ![s] = job[r].load[s]]
                            /\ UNCHANGED <<job, acked, before, bucket>>
    BY <1>10 DEF LoadPostgres, LoadHistory, LoadGraph, Load, Stores
  <2>2. live'["postgres"].mem \subseteq acked
    BY <1>9, <1>10, <2>1
    DEF LoadPostgres, LoadHistory, LoadGraph, Known, Typed, Data, Stores
  <2>3. QED
    BY <2>1, <2>2 DEF Known
<1>11. ASSUME NEW r \in Runner, Stops(r) PROVE Known'
  <2>1. live'["postgres"].mem \subseteq acked
    <3>1. ASSUME NEW s \in Loading(r),
                 NEW kept \in SUBSET (live[s].mem \cup job[r].load[s].mem),
                 live' = [live EXCEPT ![s] = [mem |-> kept, whole |-> FALSE]]
          PROVE  live'["postgres"].mem \subseteq acked
      <4>1. s \in Stores /\ pc[r] \in {"loadPostgres", "loadHistory", "loadGraph"}
        BY <3>1 DEF Loading, Stores
      <4>2. CASE s = "postgres"
        <5>1. live'["postgres"].mem = kept
          BY <3>1, <4>1, <4>2 DEF Typed, Data
        <5>2. QED
          BY <1>9, <3>1, <4>1, <4>2, <5>1 DEF Known
      <4>3. CASE s # "postgres"
        BY <3>1, <4>3 DEF Known, Typed, Data, Stores
      <4>4. QED
        BY <4>2, <4>3
    <3>2. QED
      BY <1>11, <3>1 DEF Stops, Known
  <2>2. QED
    BY <1>5, <1>11, <2>1 DEF Stops
<1>12. ASSUME UNCHANGED <<live, job, acked, before, bucket>> PROVE Known'
  BY <1>12 DEF Known
<1>13. ASSUME NEW r \in Runner, BackupStep(r) PROVE Known'
  <2>1. CASE StartGraphAndDie(r)
    BY <1>5, <2>1 DEF StartGraphAndDie, Known
  <2>2. QED
    BY <1>2, <1>3, <1>4, <1>6, <1>12, <1>13, <2>1
    DEF BackupStep, PgDump, TarHistory, StopGraph, DumpGraph, DumpGraphFails,
        StartGraph, Compose, Stores
<1>14. ASSUME NEW r \in Runner, RestoreStep(r) PROVE Known'
  <2>1. CASE LoadGraphRefused(r) \/ StartMem0(r)
    BY <1>5, <2>1 DEF LoadGraphRefused, StartMem0, Known
  <2>2. QED
    BY <1>8, <1>10, <1>12, <1>14, <2>1
    DEF RestoreStep, SkipSnapshot, StopMem0, StopForLoad, StartAfterLoad, Compose
<1>15. QED
  BY <1>1, <1>2, <1>7, <1>11, <1>12, <1>13, <1>14
  DEF Next, CommandFails, Killed, Runner, vars

\* Every stamp reported stands for a complete prefix and for what was live when
\* its run began; a run past its dump of Postgres is on the way to that.
Owed(t) == before[t] \ exposed

Honest ==
    /\ \A t \in reported : t \in Complete /\ Owed(t) \subseteq InBackups
    /\ \A r \in Runner :
          pc[r] \in BackupPc \ {"pgDump"} =>
             Owed(job[r].ts) \subseteq job[r].stage["postgres"].mem \cup InBackups

\* Histories only grow, complete backups stay, and a stamp in use keeps what was
\* live when its run began.
LEMMA Grows ==
    ASSUME Typed, [Next]_vars
    PROVE  /\ acked \subseteq acked' /\ exposed \subseteq exposed'
           /\ InBackups \subseteq InBackups'
           /\ Complete \subseteq Complete'
           /\ \A t \in Stamp : t \in Complete \/ (\E q \in Runner : job[q].ts = t)
                 => before'[t] = before[t]
<1>1. ASSUME NEW r \in Runner, NEW l, BeginBackup(r, l)
      PROVE  \A t \in Stamp : t \in Complete \/ (\E q \in Runner : job[q].ts = t)
                => before'[t] = before[t]
  <2>1. PICK u \in Stamp :
           /\ Unused(u)
           /\ before' = [before EXCEPT ![u] = live["postgres"].mem]
    BY <1>1 DEF BeginBackup
  <2>2. u \notin Complete /\ \A q \in Runner : job[q].ts # u
    BY <2>1 DEF Unused, Complete, Listed, Files, Stamp
  <2>3. QED
    BY <2>1, <2>2 DEF Typed, Data
<1>2. ASSUME NEW r \in Runner, Put(r) PROVE Complete \subseteq Complete'
  <2>1. JobOK(r, "upload", job[r], bucket)
    BY <1>2 DEF Put, Typed, Jobs
  <2>2. bucket[job[r].ts].puts < Files
    BY <2>1 DEF JobOK, BackupPc
  <2>3. job[r].ts \notin Complete
    BY <2>2 DEF Complete, Files
  <2>4. \A t \in Stamp \ {job[r].ts} : bucket'[t] = bucket[t]
    BY <1>2 DEF Put, Typed, Data
  <2>5. QED
    BY <2>3, <2>4 DEF Complete
<1>3. /\ acked \subseteq acked' /\ exposed \subseteq exposed'
      /\ \/ before' = before
         \/ \E r \in Runner, l \in {"idle", "snapshot"} : BeginBackup(r, l)
      /\ \/ bucket' = bucket
         \/ \E r \in Runner : Put(r)
  BY DEF Next, vars, Runner, Write, BeginRestore, CommandFails, Killed, Stops,
     BackupStep, BeginBackup, PgDump, TarHistory, StopGraph, DumpGraph,
     DumpGraphFails, StartGraph, StartGraphAndDie, Put, Report, Dump, Compose,
     RestoreStep, Download, SkipSnapshot, StopMem0, LoadPostgres, LoadHistory,
     StopForLoad, LoadGraph, LoadGraphRefused, StartAfterLoad, StartMem0, Load
<1>4. bucket' = bucket => Complete' = Complete
  BY DEF Complete
<1>5. QED
  BY <1>1, <1>2, <1>3, <1>4, BackupsStay

\* A run that has dumped Postgres and keeps its stamp and that dump still has
\* what it owes; whatever else the step does, what was reported stays true.
LEMMA HonestRuns ==
    ASSUME Typed, Honest, [Next]_vars,
           \A q \in Runner :
              \/ pc'[q] \notin BackupPc \ {"pgDump"}
              \/ /\ pc[q] \in BackupPc \ {"pgDump"}
                 /\ job'[q].ts = job[q].ts
                 /\ job'[q].stage["postgres"] = job[q].stage["postgres"]
              \/ before'[job'[q].ts] \ exposed'
                    \subseteq job'[q].stage["postgres"].mem \cup InBackups',
           \A t \in reported' \ reported :
              t \in Complete /\ Owed(t) \subseteq InBackups
    PROVE  Honest'
<1>1. \A t \in Complete : t \in Stamp /\ t \in Complete'
                          /\ before'[t] \ exposed' \subseteq Owed(t)
  BY Grows DEF Owed, Complete
<1>2. \A t \in reported' : t \in Complete' /\ before'[t] \ exposed' \subseteq InBackups'
  BY <1>1, Grows DEF Honest
<1>3. ASSUME NEW q \in Runner, pc'[q] \in BackupPc \ {"pgDump"},
             pc[q] \in BackupPc \ {"pgDump"}
      PROVE  before'[job[q].ts] \ exposed'
                \subseteq job[q].stage["postgres"].mem \cup InBackups'
  <2>1. JobOK(q, pc[q], job[q], bucket)
    BY DEF Typed, Jobs
  <2>2. job[q].ts # 0 /\ job[q] \in Job
    BY <1>3, <2>1 DEF JobOK
  <2>3. job[q].ts \in Stamp
    BY <2>2 DEF Job, Stamp
  <2>4. before'[job[q].ts] = before[job[q].ts]
    BY <2>3, Grows
  <2>5. QED
    BY <1>3, <2>4, Grows DEF Honest, Owed
<1>4. \A q \in Runner : pc'[q] \in BackupPc \ {"pgDump"} =>
         before'[job'[q].ts] \ exposed'
            \subseteq job'[q].stage["postgres"].mem \cup InBackups'
  BY <1>3
<1>5. QED
  BY <1>2, <1>4 DEF Honest, Owed

LEMMA HonestStep == Typed /\ Saved /\ Known /\ Honest /\ [Next]_vars => Honest'
<1> SUFFICES ASSUME Typed, Saved, Known, Honest, [Next]_vars PROVE Honest'
  OBVIOUS
<1>0. /\ pc \in [Runner -> {"idle"} \cup BackupPc \cup RestorePc]
      /\ job \in [Runner -> Job]
      /\ \A q \in Runner : JobOK(q, pc[q], job[q], bucket)
  BY DEF Typed, Jobs
\* The moving runner ends, or goes to a command that owes nothing.
<1>1. ASSUME NEW r \in Runner, NEW l, NEW j,
             pc' = [pc EXCEPT ![r] = l], job' = [job EXCEPT ![r] = j],
             l \notin BackupPc \ {"pgDump"}, reported' = reported
      PROVE  Honest'
  <2>1. \A q \in Runner : \/ pc'[q] = l
                          \/ pc'[q] = pc[q] /\ job'[q] = job[q]
    BY <1>0, <1>1
  <2>2. QED
    BY <1>1, <2>1, HonestRuns
\* The moving runner goes on with the backup it has begun.
<1>2. ASSUME NEW r \in Runner, NEW l, Goto(r, l), job' = job,
             pc[r] \in BackupPc \ {"pgDump"}, reported' = reported
      PROVE  Honest'
  <2>1. \A q \in Runner : q = r \/ pc'[q] = pc[q]
    BY <1>0, <1>2 DEF Goto
  <2>2. QED
    BY <1>2, <2>1, HonestRuns
<1>3. ASSUME pc' = pc, job' = job, reported' = reported PROVE Honest'
  BY <1>3, HonestRuns
<1>4. ASSUME NEW r \in Runner, PgDump(r) PROVE Honest'
  <2> DEFINE j == [job[r] EXCEPT !.stage = With(job[r].stage, "postgres", live["postgres"])]
  <2>1. /\ pc' = [pc EXCEPT ![r] = "tarHistory"] /\ job' = [job EXCEPT ![r] = j]
        /\ UNCHANGED <<reported, before, exposed>> /\ pc[r] = "pgDump"
    BY <1>4 DEF PgDump, Dump, Goto
  <2>2. With(job[r].stage, "postgres", live["postgres"])["postgres"] = live["postgres"]
    BY DEF With
  <2>3. job'[r].stage["postgres"] = live["postgres"] /\ job'[r].ts = job[r].ts
    BY <1>0, <2>1, <2>2 DEF Job
  <2>4. job[r].ts \in Stamp
    <3>1. job[r].ts # 0 /\ job[r] \in Job
      BY <1>0, <2>1 DEF JobOK, BackupPc
    <3>2. QED
      BY <3>1 DEF Job, Stamp
  <2>5. Owed(job[r].ts) \subseteq live["postgres"].mem \cup InBackups
    BY <2>4 DEF Owed, Known, Saved, NothingLost
  <2>6. before'[job'[r].ts] \ exposed'
           \subseteq job'[r].stage["postgres"].mem \cup InBackups'
    BY <2>1, <2>3, <2>5, BackupsStay DEF Owed
  <2>7. \A q \in Runner \ {r} : pc'[q] = pc[q] /\ job'[q] = job[q]
    BY <1>0, <2>1
  <2>8. QED
    BY <2>1, <2>6, <2>7, HonestRuns
<1>5. ASSUME NEW r \in Runner, TarHistory(r) \/ DumpGraph(r) PROVE Honest'
  <2>1. PICK s \in {"history", "graph"}, l \in {"stopGraph", "startGraph"} : Dump(r, s, l)
    BY <1>5 DEF TarHistory, DumpGraph
  <2> DEFINE j == [job[r] EXCEPT !.stage = With(job[r].stage, s, live[s])]
  <2>2. /\ pc' = [pc EXCEPT ![r] = l] /\ job' = [job EXCEPT ![r] = j]
        /\ reported' = reported
    BY <2>1 DEF Dump, Goto
  <2>3. /\ job[r] \in Job /\ pc[r] \in BackupPc \ {"pgDump"}
        /\ "postgres" \in DOMAIN job[r].stage \ {s}
    BY <1>0, <1>5 DEF TarHistory, DumpGraph, JobOK, BackupPc, Dumped
  <2>4. With(job[r].stage, s, live[s])["postgres"] = job[r].stage["postgres"]
    BY <2>3 DEF With
  <2>5. job'[r].stage["postgres"] = job[r].stage["postgres"] /\ job'[r].ts = job[r].ts
    BY <1>0, <2>2, <2>4 DEF Job
  <2>6. \A q \in Runner \ {r} : pc'[q] = pc[q] /\ job'[q] = job[q]
    BY <1>0, <2>2
  <2>7. QED
    BY <2>2, <2>3, <2>5, <2>6, HonestRuns
<1>6. ASSUME NEW r \in Runner, Report(r) PROVE Honest'
  <2>1. PICK l \in {"idle", "stopMem0"} :
           /\ pc' = [pc EXCEPT ![r] = l]
           /\ \E j : job' = [job EXCEPT ![r] = j]
    BY <1>6 DEF Report, Exit, Goto
  <2>2. pc[r] = "report" /\ reported' = reported \cup {job[r].ts}
    BY <1>6 DEF Report
  <2>3. /\ job[r] \in Job /\ job[r].ts # 0
        /\ bucket[job[r].ts] = [puts |-> Files, image |-> job[r].stage]
    BY <1>0, <2>2 DEF JobOK, BackupPc
  <2>4. job[r].ts \in Complete
    BY <2>3 DEF Job, Complete, Stamp
  <2>5. job[r].stage["postgres"].mem \subseteq InBackups
    BY <2>3, <2>4 DEF InBackups
  <2>6. Owed(job[r].ts) \subseteq InBackups
    BY <2>2, <2>5 DEF Honest, BackupPc
  <2>7. \A q \in Runner : \/ pc'[q] = l
                          \/ pc'[q] = pc[q] /\ job'[q] = job[q]
    BY <1>0, <2>1
  <2>8. l \notin BackupPc
    BY DEF BackupPc
  <2>9. QED
    BY <2>2, <2>4, <2>6, <2>7, <2>8, HonestRuns
<1>7. ASSUME NEW r \in Runner, Exit(r), reported' = reported PROVE Honest'
  BY <1>1, <1>7 DEF Exit, Goto, BackupPc
<1>8. ASSUME NEW r \in Runner, BackupStep(r) PROVE Honest'
  <2>1. CASE BeginBackup(r, "snapshot")
    BY <1>1, <2>1 DEF BeginBackup, Goto
  <2>2. CASE StartGraphAndDie(r)
    BY <1>7, <2>2 DEF StartGraphAndDie
  <2>3. CASE StopGraph(r) \/ DumpGraphFails(r) \/ StartGraph(r)
    BY <1>2, <2>3 DEF StopGraph, DumpGraphFails, StartGraph, Compose, BackupPc
  <2>4. CASE Put(r)
    <3>1. \E l : Goto(r, l)
      BY <2>4 DEF Put
    <3>2. QED
      BY <1>2, <2>4, <3>1 DEF Put, BackupPc
  <2>5. QED
    BY <1>4, <1>5, <1>6, <1>8, <2>1, <2>2, <2>3, <2>4 DEF BackupStep
<1>9. ASSUME NEW r \in Runner, RestoreStep(r) PROVE Honest'
  <2>1. CASE LoadGraphRefused(r) \/ StartMem0(r)
             \/ (Download(r) /\ job[r].pick \notin Complete)
    BY <1>7, <2>1 DEF LoadGraphRefused, StartMem0, Download
  <2>2. CASE Download(r) /\ job[r].pick \in Complete
    BY <1>1, <2>2 DEF Download, Goto, BackupPc
  <2>3. ASSUME NEW l \in RestorePc, Goto(r, l), job' = job, reported' = reported
        PROVE  Honest'
    <3>1. job' = [job EXCEPT ![r] = job[r]]
      BY <1>0, <2>3
    <3>2. l \notin BackupPc
      BY DEF BackupPc, RestorePc
    <3>3. QED
      BY <1>1, <2>3, <3>1, <3>2 DEF Goto
  <2>4. QED
    BY <1>9, <2>1, <2>2, <2>3
    DEF RestoreStep, SkipSnapshot, StopMem0, LoadPostgres, LoadHistory,
        StopForLoad, LoadGraph, StartAfterLoad, Compose, Load, RestorePc
<1>10. ASSUME NEW r \in Nightly, BeginBackup(r, "idle") PROVE Honest'
  BY <1>1, <1>10 DEF BeginBackup, Goto, Runner
<1>11. ASSUME NEW r \in Operator, BeginRestore(r) PROVE Honest'
  BY <1>1, <1>11 DEF BeginRestore, Goto, Runner, BackupPc
<1>12. QED
  BY <1>3, <1>7, <1>8, <1>9, <1>10, <1>11
  DEF Next, Write, CommandFails, Killed, Stops, vars

LEMMA HonestInit == Init => Known /\ Honest
BY NothingIs DEF Init, Known, KnownIn, NoJob, Honest, BackupPc, Stores

\* After a success ping the run's prefix is complete, with every store in it,
\* and what was live when the run began is in a complete backup, whatever
\* restores overlapped it and whatever failed (backup.sh:70-75 and 188-189).
THEOREM PingsHonest == Spec => []HeartbeatHonest
<1>1. Typed /\ Saved /\ [Next]_vars => Saved'
  BY SavedStep
<1>2. Typed /\ Known /\ [Next]_vars => Known'
  BY KnownStep
<1>3. Typed /\ Saved /\ Known /\ Honest /\ [Next]_vars => Honest'
  BY HonestStep
<1>4. Typed /\ Honest => HeartbeatHonest
  BY DEF Typed, Data, Honest, Owed, HeartbeatHonest, Complete, Files
<1>5. QED
  BY Inductive, SavedInit, HonestInit, <1>1, <1>2, <1>3, <1>4, PTL DEF Spec

=============================================================================
