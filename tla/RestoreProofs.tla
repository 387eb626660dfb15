---------------------------- MODULE RestoreProofs ----------------------------
(***************************************************************************)
(* What restore.sh leaves behind: mem0 comes back with the backup that was *)
(* picked, all of it, or not at all; and what the weekly drill vouches for.*)
(* For any nightly runners, memories, number of backups and combination of *)
(* failures.                                                               *)
(***************************************************************************)
EXTENDS RestoreDrill, BackupRestoreProofs

\* The commands at which a restore has stopped mem0, and the stores it has
\* loaded when it stands at command l.
Cutover == {"loadPostgres", "loadHistory", "stopForLoad", "loadGraph",
            "startAfterLoad", "startMem0"}

Loaded(l) == CASE l = "loadHistory" -> {"postgres"}
               [] l \in {"stopForLoad", "loadGraph"} -> {"postgres", "history"}
               [] l \in {"startAfterLoad", "startMem0"} -> Stores
               [] OTHER -> {}

\* A restore past its download holds a complete backup, unchanged since; from
\* the moment it stops mem0 the stores it has loaded stay as it loaded them.
PickOK(l, j, b, up, data) ==
    /\ l \in RestorePc \ {"download"} \/ (l \in BackupPc /\ j.pick # 0)
       => j.pick \in Stamp /\ b[j.pick].puts = Files /\ j.load = b[j.pick].image
    /\ l \in Cutover => "mem0" \notin up
    /\ \A s \in Loaded(l) : data[s] = j.load[s]

Picked == \A r \in Runner : PickOK(pc[r], job[r], bucket, serving, live)

\* A run's prefix is empty until it uploads, and then holds what it staged.
PrefixOK(l, j, b) ==
    /\ l \in BackupPc \ {"upload", "report"} => b[j.ts].puts = 0
    /\ l = "upload" /\ b[j.ts].puts > 0 => b[j.ts].image = j.stage

Prefixes == \A r \in Runner : PrefixOK(pc[r], job[r], bucket)

(***************************************************************************)
(* Steps.                                                                  *)
(***************************************************************************)
\* There is one operator, so at most one runner is past the stop of mem0.
LEMMA OneCutover ==
    ASSUME Typed, NEW r \in Runner, NEW q \in Runner,
           pc[r] \in Cutover, pc[q] \in Cutover
    PROVE  r = q
<1>1. \A x \in {r, q} : JobOK(x, pc[x], job[x], bucket) /\ pc[x] \in RestorePc
  BY DEF Typed, Jobs, Cutover, RestorePc
<1>2. r \in Operator /\ q \in Operator
  BY <1>1 DEF JobOK
<1>3. QED
  BY <1>2, RunnerAssumption

\* Runner r moves to command l with job j.  What the others have loaded stays,
\* as either the stores and mem0 do not change or r is the one restoring.
LEMMA PickedMove ==
    ASSUME Typed, Picked, NEW r \in Runner, NEW l, NEW j,
           pc' = [pc EXCEPT ![r] = l], job' = [job EXCEPT ![r] = j],
           bucket' = bucket,
           \/ live' = live /\ ("mem0" \in serving' => "mem0" \in serving)
           \/ pc[r] \in Cutover,
           PickOK(l, j, bucket, serving', live')
    PROVE  Picked'
<1> SUFFICES ASSUME NEW q \in Runner
             PROVE  PickOK(pc'[q], job'[q], bucket', serving', live')
  BY DEF Picked
<1>0. \A x \in Runner : /\ pc'[x] = IF x = r THEN l ELSE pc[x]
                        /\ job'[x] = IF x = r THEN j ELSE job[x]
  BY DEF Typed, Jobs
<1>1. CASE q = r
  BY <1>0, <1>1
<1>2. CASE q # r
  <2>1. pc'[q] = pc[q] /\ job'[q] = job[q]
    BY <1>0, <1>2
  <2>2. PickOK(pc[q], job[q], bucket, serving, live)
    BY DEF Picked
  <2>3. CASE pc[r] \in Cutover
    <3>1. pc[q] \notin Cutover
      BY <1>2, <2>3, OneCutover
    <3>2. Loaded(pc[q]) = {}
      BY <3>1 DEF Loaded, Cutover
    <3>3. QED
      BY <2>1, <2>2, <3>1, <3>2 DEF PickOK
  <2>4. CASE live' = live /\ ("mem0" \in serving' => "mem0" \in serving)
    BY <2>1, <2>2, <2>4 DEF PickOK
  <2>5. QED
    BY <2>3, <2>4
<1>3. QED
  BY <1>1, <1>2

\* The same for a command that changes no job.
LEMMA PickedOn ==
    ASSUME Typed, Picked, NEW r \in Runner, NEW l, Goto(r, l), job' = job,
           bucket' = bucket,
           \/ live' = live /\ ("mem0" \in serving' => "mem0" \in serving)
           \/ pc[r] \in Cutover,
           PickOK(l, job[r], bucket, serving', live')
    PROVE  Picked'
<1>1. job' = [job EXCEPT ![r] = job[r]]
  BY DEF Typed, Jobs
<1>2. QED
  BY <1>1, PickedMove DEF Goto

\* The same for a script that ends.
LEMMA PickedOut ==
    ASSUME Typed, Picked, NEW r \in Runner, Exit(r), bucket' = bucket,
           \/ live' = live /\ ("mem0" \in serving' => "mem0" \in serving)
           \/ pc[r] \in Cutover
    PROVE  Picked'
<1>1. PickOK("idle", NoJob, bucket, serving', live')
  BY DEF PickOK, Cutover, Loaded, BackupPc, RestorePc
<1>2. QED
  BY <1>1, PickedMove DEF Exit, Goto

\* A run only writes to its own prefix, which is no complete one.
LEMMA PickedPut ==
    ASSUME Typed, Picked, NEW r \in Runner, Put(r)
    PROVE  Picked'
<1>1. /\ pc[r] = "upload" /\ job[r] \in Job
      /\ JobOK(r, "upload", job[r], bucket)
  BY DEF Put, Typed, Jobs
<1>2. bucket[job[r].ts].puts < Files
  BY <1>1 DEF JobOK, BackupPc
<1>3. \A t \in Stamp : bucket[t].puts = Files => bucket'[t] = bucket[t]
  <2>1. \A t \in Stamp \ {job[r].ts} : bucket'[t] = bucket[t]
    BY DEF Put, Typed, Data
  <2>2. QED
    BY <1>2, <2>1 DEF Files
<1> SUFFICES ASSUME NEW q \in Runner
             PROVE  PickOK(pc'[q], job'[q], bucket', serving', live')
  BY DEF Picked
<1>4. PickOK(pc[q], job[q], bucket, serving, live)
  BY DEF Picked
<1>5. PickOK(pc[q], job[q], bucket', serving, live)
  BY <1>3, <1>4 DEF PickOK
<1>6. live' = live /\ serving' = serving /\ job' = job
  BY DEF Put
<1>7. CASE q = r
  <2>1. pc'[r] \in {"upload", "report"}
    BY DEF Put, Goto, Typed, Jobs
  <2>2. QED
    BY <1>1, <1>5, <1>6, <1>7, <2>1 DEF PickOK, BackupPc, RestorePc, Cutover, Loaded
<1>8. CASE q # r
  <2>1. pc'[q] = pc[q]
    BY <1>8 DEF Put, Goto, Typed, Jobs
  <2>2. QED
    BY <1>5, <1>6, <2>1
<1>9. QED
  BY <1>7, <1>8

\* A load.
LEMMA PickedLoad ==
    ASSUME Typed, Picked, NEW r \in Runner, NEW s \in Stores, NEW l,
           \/ pc[r] = "loadPostgres" /\ s = "postgres" /\ l = "loadHistory"
           \/ pc[r] = "loadHistory" /\ s = "history" /\ l = "stopForLoad"
           \/ pc[r] = "loadGraph" /\ s = "graph" /\ l = "startAfterLoad",
           Load(r, s, l)
    PROVE  Picked'
<1>1. PickOK(pc[r], job[r], bucket, serving, live)
  BY DEF Picked
<1>2. /\ live'[s] = job[r].load[s]
      /\ \A x \in Stores \ {s} : live'[x] = live[x]
  BY DEF Load, Typed, Data
<1>3. pc[r] \in Cutover /\ l \in Cutover /\ pc[r] \in RestorePc \ {"download"}
  BY DEF Cutover, RestorePc
<1>4. \A x \in Loaded(l) : live'[x] = job[r].load[x]
  <2>1. Loaded(l) = Loaded(pc[r]) \cup {s} /\ Loaded(l) \subseteq Stores
    BY DEF Loaded, Stores
  <2>2. QED
    BY <1>1, <1>2, <2>1 DEF PickOK
<1>5. PickOK(l, job[r], bucket, serving', live')
  BY <1>1, <1>3, <1>4 DEF PickOK, Load
<1>6. QED
  BY <1>3, <1>5, PickedOn DEF Load

\* A backup, or a restore up to the stop of mem0, goes on to another command.
LEMMA PickedEarly ==
    ASSUME Typed, Picked, NEW r \in Runner, NEW l, NEW j,
           \/ pc[r] \in BackupPc \/ pc[r] = "snapshot"
           \/ pc[r] = "idle" /\ j.pick = 0,
           pc' = [pc EXCEPT ![r] = l], job' = [job EXCEPT ![r] = j],
           bucket' = bucket, live' = live,
           "mem0" \in serving' => "mem0" \in serving,
           j.pick = job[r].pick, j.load = job[r].load,
           l \in BackupPc \/ (l = "stopMem0" /\ j.pick # 0)
    PROVE  Picked'
<1>1. PickOK(pc[r], job[r], bucket, serving, live)
  BY DEF Picked
<1>2. PickOK(l, j, bucket, serving', live')
  BY <1>1 DEF PickOK, BackupPc, RestorePc, Cutover, Loaded
<1>3. QED
  BY <1>2, PickedMove

LEMMA PickedStep == Typed /\ Picked /\ [Next]_vars => Picked'
<1> SUFFICES ASSUME Typed, Picked, [Next]_vars PROVE Picked'
  OBVIOUS
<1>0. \A q \in Runner : /\ job[q] \in Job /\ JobOK(q, pc[q], job[q], bucket)
                        /\ PickOK(pc[q], job[q], bucket, serving, live)
  BY DEF Typed, Jobs, Picked
<1>1. ASSUME NEW m \in Memory, Write(m) PROVE Picked'
  <2> SUFFICES ASSUME NEW q \in Runner
               PROVE  PickOK(pc[q], job[q], bucket, serving, live')
    BY <1>1 DEF Write, Picked
  <2>1. pc[q] \notin Cutover
    BY <1>0, <1>1 DEF PickOK, Write
  <2>2. Loaded(pc[q]) = {}
    BY <2>1 DEF Loaded, Cutover
  <2>3. QED
    BY <1>0, <2>1, <2>2 DEF PickOK
<1>2. ASSUME NEW r \in Runner, NEW l \in {"idle", "snapshot"}, BeginBackup(r, l)
      PROVE  Picked'
  <2>1. PICK t \in Stamp : job' = [job EXCEPT ![r] = Emptied(job[r], t)]
    BY <1>2 DEF BeginBackup, Emptied
  <2> DEFINE j == Emptied(job[r], t)
  <2>2. j.pick = job[r].pick /\ j.load = job[r].load
    BY <1>0, EmptiedIs DEF Stamp
  <2>3. pc[r] = "idle" => j.pick = 0
    <3>1. pc[r] = "idle" => job[r] = NoJob
      BY <1>0 DEF JobOK
    <3>2. NoJob.pick = 0
      BY DEF NoJob
    <3>3. QED
      BY <2>2, <3>1, <3>2
  <2>4. QED
    BY <1>2, <2>1, <2>2, <2>3, PickedEarly DEF BeginBackup, Goto, BackupPc
<1>3. ASSUME NEW r \in Runner, NEW s \in Stores, NEW l \in BackupPc, pc[r] \in BackupPc,
             Dump(r, s, l)
      PROVE  Picked'
  <2> DEFINE j == [job[r] EXCEPT !.stage = With(job[r].stage, s, live[s])]
  <2>1. j.pick = job[r].pick /\ j.load = job[r].load
    BY <1>0 DEF Job
  <2>2. QED
    BY <1>3, <2>1, PickedEarly DEF Dump, Goto
<1>4. ASSUME NEW r \in Runner,
             StopGraph(r) \/ StartGraph(r) \/ DumpGraphFails(r) \/ SkipSnapshot(r)
      PROVE  Picked'
  <2>1. job' = [job EXCEPT ![r] = job[r]]
    BY <1>4 DEF StopGraph, StartGraph, DumpGraphFails, SkipSnapshot, Compose, Typed, Jobs
  <2>2. pc[r] = "snapshot" => job[r].pick # 0
    BY <1>0 DEF JobOK, RestorePc
  <2>3. PICK l : /\ Goto(r, l) /\ bucket' = bucket /\ live' = live
                 /\ "mem0" \in serving' => "mem0" \in serving
                 /\ \/ pc[r] \in BackupPc /\ l \in BackupPc
                    \/ pc[r] = "snapshot" /\ l = "stopMem0"
    BY <1>4 DEF StopGraph, StartGraph, DumpGraphFails, SkipSnapshot, Compose, BackupPc
  <2>4. QED
    BY <2>1, <2>2, <2>3, PickedEarly DEF Goto
<1>5. ASSUME NEW r \in Runner, Report(r) PROVE Picked'
  <2>1. CASE job[r].pick = 0
    BY <1>5, <2>1, PickedOut DEF Report
  <2>2. CASE job[r].pick # 0
    <3> DEFINE j == Emptied(job[r], 0)
    <3>1. j.pick = job[r].pick /\ j.load = job[r].load
      BY <1>0, EmptiedIs, BoundAssumption
    <3>2. QED
      BY <1>5, <2>2, <3>1, PickedEarly DEF Report, Goto, Emptied, BackupPc
  <2>3. QED
    BY <2>1, <2>2
<1>6. ASSUME NEW r \in Operator, BeginRestore(r) PROVE Picked'
  <2>1. PICK t \in Listed : job' = [job EXCEPT ![r] = [@ EXCEPT !.pick = t]]
    BY <1>6 DEF BeginRestore
  <2>2. PickOK("download", [job[r] EXCEPT !.pick = t], bucket, serving', live')
    BY DEF PickOK, BackupPc, RestorePc, Cutover, Loaded
  <2>3. QED
    BY <1>6, <2>1, <2>2, PickedMove DEF BeginRestore, Goto, Runner
<1>7. ASSUME NEW r \in Runner, Download(r) PROVE Picked'
  <2>1. CASE job[r].pick \in Complete
    <3> DEFINE j == [job[r] EXCEPT !.load = bucket[job[r].pick].image]
    <3>1. j.pick = job[r].pick /\ j.load = bucket[job[r].pick].image
      BY <1>0 DEF Job
    <3>2. PickOK("snapshot", j, bucket, serving', live')
      BY <2>1, <3>1 DEF PickOK, BackupPc, RestorePc, Cutover, Loaded, Complete
    <3>3. QED
      BY <1>7, <2>1, <3>2, PickedMove DEF Download, Goto
  <2>2. CASE job[r].pick \notin Complete
    BY <1>7, <2>2, PickedOut DEF Download
  <2>3. QED
    BY <2>1, <2>2
<1>8. ASSUME NEW r \in Runner, StopMem0(r) \/ StopForLoad(r) \/ StartAfterLoad(r)
      PROVE  Picked'
  <2>1. PICK l : /\ Goto(r, l) /\ job' = job /\ bucket' = bucket /\ live' = live
                 /\ "mem0" \in serving' => "mem0" \in serving
                 /\ \/ pc[r] = "stopMem0" /\ l = "loadPostgres" /\ "mem0" \notin serving'
                    \/ pc[r] = "stopForLoad" /\ l = "loadGraph"
                    \/ pc[r] = "startAfterLoad" /\ l = "startMem0"
    BY <1>8 DEF StopMem0, StopForLoad, StartAfterLoad, Compose
  <2>2. PickOK(pc[r], job[r], bucket, serving, live)
    BY <1>0
  <2>3. PickOK(l, job[r], bucket, serving', live')
    BY <2>1, <2>2 DEF PickOK, BackupPc, RestorePc, Cutover, Loaded
  <2>4. QED
    BY <2>1, <2>3, PickedOn
<1>9. ASSUME NEW r \in Runner, LoadPostgres(r) \/ LoadHistory(r) \/ LoadGraph(r)
      PROVE  Picked'
  BY <1>9, PickedLoad DEF LoadPostgres, LoadHistory, LoadGraph, Stores
<1>10. ASSUME NEW r \in Runner, StartMem0(r) PROVE Picked'
  BY <1>10, PickedOut DEF StartMem0, Cutover
<1>11. ASSUME NEW r \in Runner, Stops(r) PROVE Picked'
  <2>1. live' = live \/ pc[r] \in Cutover
    BY <1>11 DEF Stops, Loading, Cutover
  <2>2. QED
    BY <1>11, <2>1, PickedOut DEF Stops
<1>12. ASSUME NEW r \in Runner, BackupStep(r) PROVE Picked'
  <2>1. CASE StartGraphAndDie(r)
    BY <2>1, PickedOut DEF StartGraphAndDie
  <2>2. QED
    BY <1>2, <1>3, <1>4, <1>5, <1>12, <2>1, PickedPut
    DEF BackupStep, PgDump, TarHistory, DumpGraph, BackupPc, Stores
<1>13. ASSUME NEW r \in Runner, RestoreStep(r) PROVE Picked'
  <2>1. CASE LoadGraphRefused(r)
    BY <2>1, PickedOut DEF LoadGraphRefused
  <2>2. QED
    BY <1>4, <1>7, <1>8, <1>9, <1>10, <1>13, <2>1 DEF RestoreStep
<1>14. CASE UNCHANGED vars
  BY <1>14 DEF vars, Picked
<1>15. QED
  BY <1>1, <1>2, <1>6, <1>11, <1>12, <1>13, <1>14
  DEF Next, CommandFails, Killed, Runner

(***************************************************************************)
(* A prefix, once listed, never changes what it holds.                     *)
(***************************************************************************)
\* A step of runner r that writes nothing to the bucket.
LEMMA PrefixMove ==
    ASSUME Typed, Prefixes, NEW r \in Runner, NEW l, NEW j,
           pc' = [pc EXCEPT ![r] = l], job' = [job EXCEPT ![r] = j],
           bucket' = bucket, PrefixOK(l, j, bucket)
    PROVE  Prefixes'
<1>1. \A x \in Runner : /\ pc'[x] = IF x = r THEN l ELSE pc[x]
                        /\ job'[x] = IF x = r THEN j ELSE job[x]
  BY DEF Typed, Jobs
<1>2. QED
  BY <1>1 DEF Prefixes

LEMMA PrefixOut ==
    ASSUME Typed, Prefixes, NEW r \in Runner, bucket' = bucket,
           \/ Exit(r)
           \/ \E l, j : /\ pc' = [pc EXCEPT ![r] = l] /\ job' = [job EXCEPT ![r] = j]
                        /\ l \notin BackupPc
    PROVE  Prefixes'
<1>1. PICK l, j : /\ pc' = [pc EXCEPT ![r] = l] /\ job' = [job EXCEPT ![r] = j]
                  /\ l \notin BackupPc
  BY DEF Exit, Goto, BackupPc
<1>2. PrefixOK(l, j, bucket)
  BY <1>1 DEF PrefixOK, BackupPc
<1>3. QED
  BY <1>1, <1>2, PrefixMove

\* An upload extends the run's own prefix by what it staged.
LEMMA PrefixPut ==
    ASSUME Typed, Prefixes, NEW r \in Runner, Put(r)
    PROVE  /\ Prefixes'
           /\ \A t \in Listed : t \in Listed' /\ bucket'[t].image = bucket[t].image
<1> DEFINE t == job[r].ts
<1>1. /\ pc[r] = "upload" /\ job' = job /\ job[r] \in Job
      /\ JobOK(r, "upload", job[r], bucket)
      /\ pc'[r] \in {"upload", "report"}
      /\ \A q \in Runner \ {r} : pc'[q] = pc[q]
  BY DEF Put, Goto, Typed, Jobs
<1>2. t \in Stamp
  BY <1>1 DEF JobOK, BackupPc, Job, Stamp
<1>3. /\ bucket'[t] = [puts |-> bucket[t].puts + 1, image |-> job[r].stage]
      /\ \A u \in Stamp \ {t} : bucket'[u] = bucket[u]
  BY <1>2 DEF Put, Typed, Data
<1>4. PrefixOK("upload", job[r], bucket) /\ bucket[t].puts \in 0 .. Files
  BY <1>1, <1>2 DEF Prefixes, Typed, Data
<1>5. \A u \in Listed : u \in Listed' /\ bucket'[u].image = bucket[u].image
  <2> SUFFICES ASSUME NEW u \in Listed
               PROVE  u \in Listed' /\ bucket'[u].image = bucket[u].image
    OBVIOUS
  <2>1. CASE u = t
    <3>1. bucket[t].image = job[r].stage
      BY <1>4, <2>1 DEF PrefixOK, Listed
    <3>2. bucket'[t].puts > 0 /\ bucket'[t].image = job[r].stage
      BY <1>3, <1>4 DEF Files
    <3>3. QED
      BY <1>2, <2>1, <3>1, <3>2 DEF Listed
  <2>2. CASE u # t
    BY <1>3, <2>2 DEF Listed
  <2>3. QED
    BY <2>1, <2>2
<1>6. Prefixes'
  <2> SUFFICES ASSUME NEW q \in Runner
               PROVE  PrefixOK(pc'[q], job'[q], bucket')
    BY DEF Prefixes
  <2>1. CASE q = r
    BY <1>1, <1>3, <2>1 DEF PrefixOK
  <2>2. CASE q # r
    <3>1. PrefixOK(pc[q], job[q], bucket)
      BY DEF Prefixes
    <3>2. CASE pc[q] \in BackupPc
      <4>1. job[q].ts # t /\ job[q].ts \in Stamp
        <5>1. job[q] \in Job /\ JobOK(q, pc[q], job[q], bucket) /\ job[q].ts # t
          BY <1>2, <2>2 DEF Typed, Jobs, Distinct, Stamp
        <5>2. job[q].ts # 0
          BY <3>2, <5>1 DEF JobOK
        <5>3. QED
          BY <5>1, <5>2 DEF Job, Stamp
      <4>2. QED
        BY <1>1, <1>3, <2>2, <3>1, <4>1 DEF PrefixOK
    <3>3. CASE pc[q] \notin BackupPc
      BY <1>1, <2>2, <3>3 DEF PrefixOK, BackupPc
    <3>4. QED
      BY <3>2, <3>3
  <2>3. QED
    BY <2>1, <2>2
<1>7. QED
  BY <1>5, <1>6

LEMMA PrefixStep ==
    Typed /\ Prefixes /\ [Next]_vars
    => /\ Prefixes'
       /\ \A t \in Listed : t \in Listed' /\ bucket'[t].image = bucket[t].image
<1> SUFFICES ASSUME Typed, Prefixes, [Next]_vars
             PROVE  /\ Prefixes'
                    /\ \A t \in Listed : t \in Listed' /\ bucket'[t].image = bucket[t].image
  OBVIOUS
<1> DEFINE Q == /\ Prefixes'
                /\ \A t \in Listed : t \in Listed' /\ bucket'[t].image = bucket[t].image
<1>0. /\ \A q \in Runner : /\ job[q] \in Job /\ JobOK(q, pc[q], job[q], bucket)
                           /\ PrefixOK(pc[q], job[q], bucket)
      /\ job \in [Runner -> Job]
  BY DEF Typed, Jobs, Prefixes
<1>1. ASSUME Prefixes', bucket' = bucket PROVE Q
  BY <1>1 DEF Listed
<1>2. ASSUME NEW r \in Runner, NEW l, BeginBackup(r, l) PROVE Q
  <2>1. PICK t \in Stamp : /\ Unused(t)
                          /\ job' = [job EXCEPT ![r] = Emptied(job[r], t)]
    BY <1>2 DEF BeginBackup, Emptied
  <2>2. Emptied(job[r], t).ts = t
    BY <1>0, EmptiedIs DEF Stamp
  <2>3. bucket[t].puts = 0
    <3>1. t \notin Listed
      BY <2>1 DEF Unused, Listed, Stamp
    <3>2. QED
      BY <3>1 DEF Listed, Typed, Data, Files
  <2>4. PrefixOK("pgDump", Emptied(job[r], t), bucket)
    BY <2>2, <2>3 DEF PrefixOK
  <2>5. QED
    BY <1>1, <1>2, <2>1, <2>4, PrefixMove DEF BeginBackup, Goto
<1>3. ASSUME NEW r \in Runner, NEW s \in Stores, NEW l, Dump(r, s, l),
             pc[r] \in BackupPc \ {"upload", "report"}, l \in BackupPc \ {"upload", "report"}
      PROVE  Q
  <2> DEFINE j == [job[r] EXCEPT !.stage = With(job[r].stage, s, live[s])]
  <2>1. j.ts = job[r].ts
    BY <1>0 DEF Job
  <2>2. PrefixOK(l, j, bucket)
    BY <1>0, <1>3, <2>1 DEF PrefixOK
  <2>3. QED
    BY <1>1, <1>3, <2>2, PrefixMove DEF Dump, Goto
<1>4. ASSUME NEW r \in Runner, StopGraph(r) \/ StartGraph(r) \/ DumpGraphFails(r)
      PROVE  Q
  <2>1. PICK l : /\ Goto(r, l) /\ job' = job /\ bucket' = bucket
                 /\ pc[r] \in BackupPc \ {"upload", "report"}
                 /\ l \in BackupPc \ {"report"}
    BY <1>4 DEF StopGraph, StartGraph, DumpGraphFails, Compose, BackupPc
  <2>2. bucket[job[r].ts].puts = 0
    BY <1>0, <2>1 DEF PrefixOK
  <2>3. PrefixOK(l, job[r], bucket)
    BY <2>1, <2>2 DEF PrefixOK
  <2>4. job' = [job EXCEPT ![r] = job[r]]
    BY <1>0, <2>1
  <2>5. QED
    BY <1>1, <2>1, <2>3, <2>4, PrefixMove DEF Goto
<1>5. ASSUME NEW r \in Runner, Report(r) PROVE Q
  <2>1. bucket' = bucket /\ (Exit(r) \/ \E l, j :
           /\ pc' = [pc EXCEPT ![r] = l] /\ job' = [job EXCEPT ![r] = j]
           /\ l \notin BackupPc)
    BY <1>5 DEF Report, Goto, BackupPc
  <2>2. QED
    BY <1>1, <2>1, PrefixOut
<1>6. ASSUME NEW r \in Runner, Exit(r), bucket' = bucket PROVE Q
  BY <1>1, <1>6, PrefixOut
<1>7. ASSUME NEW r \in Runner, NEW l \in RestorePc, Goto(r, l), bucket' = bucket,
             job' = job \/ \E j : job' = [job EXCEPT ![r] = j]
      PROVE  Q
  <2>1. \E j : job' = [job EXCEPT ![r] = j]
    <3>1. job' = job => job' = [job EXCEPT ![r] = job[r]]
      BY <1>0
    <3>2. QED
      BY <1>7, <3>1
  <2>2. l \notin BackupPc
    BY DEF BackupPc, RestorePc
  <2>3. QED
    BY <1>1, <1>7, <2>1, <2>2, PrefixOut DEF Goto
<1>8. ASSUME NEW r \in Operator, BeginRestore(r) PROVE Q
  <2>1. /\ \E j : job' = [job EXCEPT ![r] = j]
        /\ Goto(r, "download") /\ bucket' = bucket
    BY <1>8 DEF BeginRestore
  <2>2. QED
    BY <1>7, <2>1 DEF Runner, RestorePc
<1>9. ASSUME NEW r \in Runner, BackupStep(r) PROVE Q
  <2>1. CASE StartGraphAndDie(r)
    BY <1>6, <2>1 DEF StartGraphAndDie
  <2>2. CASE Put(r)
    BY <2>2, PrefixPut
  <2>3. QED
    BY <1>2, <1>3, <1>4, <1>5, <1>9, <2>1, <2>2
    DEF BackupStep, PgDump, TarHistory, DumpGraph, BackupPc, Stores
<1>10. ASSUME NEW r \in Runner, RestoreStep(r) PROVE Q
  <2>1. CASE Download(r)
    <3>1. bucket' = bucket /\ (Exit(r) \/ (Goto(r, "snapshot") /\ \E j : job' = [job EXCEPT ![r] = j]))
      BY <2>1 DEF Download
    <3>2. QED
      BY <1>6, <1>7, <3>1 DEF RestorePc
  <2>2. CASE LoadGraphRefused(r) \/ StartMem0(r)
    BY <1>6, <2>2 DEF LoadGraphRefused, StartMem0
  <2>3. QED
    BY <1>7, <1>10, <2>1, <2>2
    DEF RestoreStep, SkipSnapshot, StopMem0, LoadPostgres, LoadHistory,
        StopForLoad, LoadGraph, StartAfterLoad, Compose, Load, RestorePc
<1>11. ASSUME UNCHANGED <<bucket, pc, job>> PROVE Q
  BY <1>1, <1>11 DEF Prefixes
<1>12. QED
  BY <1>2, <1>6, <1>8, <1>9, <1>10, <1>11
  DEF Next, Write, CommandFails, Killed, Stops, Runner, vars

-----------------------------------------------------------------------------
(***************************************************************************)
(* The theorems.                                                           *)
(***************************************************************************)
LEMMA PickedInit == Init => Picked /\ Prefixes
BY DEF Init, Picked, PickOK, Loaded, Cutover, Prefixes, PrefixOK, NoJob, BackupPc, RestorePc

LEMMA PickedAlways == Spec => [](Typed /\ Picked /\ Prefixes)
<1>1. Typed /\ Picked /\ [Next]_vars => Picked'
  BY PickedStep
<1>2. Typed /\ Prefixes /\ [Next]_vars => Prefixes'
  BY PrefixStep
<1>3. QED
  BY Inductive, PickedInit, <1>1, <1>2, PTL DEF Spec

\* Only the end of a restore brings mem0 back.
LEMMA MemBack ==
    ASSUME [Next]_vars, "mem0" \notin serving, "mem0" \in serving'
    PROVE  \E r \in Runner : StartMem0(r)
<1>1. ASSUME NEW r \in Runner, BackupStep(r) PROVE "mem0" \notin serving'
  <2>1. CASE Report(r)
    BY <2>1 DEF Report
  <2>2. CASE Put(r)
    BY <2>2 DEF Put
  <2>3. CASE BeginBackup(r, "snapshot")
    BY <2>3 DEF BeginBackup
  <2>4. CASE StopGraph(r) \/ StartGraph(r) \/ StartGraphAndDie(r)
    BY <2>4 DEF StopGraph, StartGraph, StartGraphAndDie, Compose
  <2>5. QED
    BY <1>1, <2>1, <2>2, <2>3, <2>4
    DEF BackupStep, PgDump, TarHistory, DumpGraph, DumpGraphFails, Dump
<1>2. ASSUME NEW r \in Runner, RestoreStep(r) PROVE StartMem0(r)
  BY <1>2 DEF RestoreStep, Download, SkipSnapshot, StopMem0, LoadPostgres, LoadHistory,
     StopForLoad, LoadGraph, LoadGraphRefused, StartAfterLoad, Load, Compose
<1>3. QED
  BY <1>1, <1>2
  DEF Next, Write, BeginBackup, BeginRestore, CommandFails, Killed, Stops, vars

\* All that a restore has loaded is there when it starts mem0.
LEMMA Faithfully ==
    ASSUME Typed, Picked, NEW r \in Runner, pc[r] = "startMem0"
    PROVE  /\ live = bucket[job[r].pick].image
           /\ job[r].pick \in Complete
<1>1. PickOK("startMem0", job[r], bucket, serving, live) /\ pc[r] \in RestorePc
  BY DEF Picked, RestorePc
<1>2. /\ job[r].pick \in Stamp /\ bucket[job[r].pick].puts = Files
      /\ job[r].load = bucket[job[r].pick].image
  BY <1>1 DEF PickOK, RestorePc
<1>3. \A s \in Stores : live[s] = job[r].load[s]
  BY <1>1 DEF PickOK, Loaded
<1>4. job[r].load \in [Stores -> Content] /\ live \in [Stores -> Content]
  <2>1. DOMAIN job[r].load = Stores /\ job[r].load \in Image
    BY <1>2 DEF Typed, Data, Jobs, Files, Job
  <2>2. QED
    BY <2>1, ImageOf DEF Typed, Data
<1>5. live = job[r].load
  BY <1>3, <1>4
<1>6. QED
  BY <1>2, <1>5 DEF Complete

LEMMA FaithfulStep ==
    ASSUME Typed, Picked, [Next]_vars, NEW r \in Operator,
           pc[r] = "startMem0", pc'[r] = "idle", "mem0" \in serving'
    PROVE  live' = bucket[job[r].pick].image
<1>1. r \in Runner /\ "mem0" \notin serving
  BY DEF Runner, Picked, PickOK, Cutover
<1>2. PICK q \in Runner : StartMem0(q)
  BY <1>1, MemBack
<1>3. live' = live
  BY <1>2 DEF StartMem0
<1>4. QED
  BY <1>1, <1>3, Faithfully

\* A restore that brings mem0 back has put all three stores of the backup that
\* was picked in place, with nothing in between (restore.sh:109-143).
THEOREM RestoresFaithful == Spec => RestoreFaithful
<1>1. Typed /\ Picked /\ [Next]_vars
      => [\A r \in Operator :
             pc[r] = "startMem0" /\ pc'[r] = "idle" /\ "mem0" \in serving'
             => live' = bucket[job[r].pick].image]_vars
  BY FaithfulStep
<1>2. QED
  BY <1>1, PickedAlways, PTL DEF Spec, RestoreFaithful

\* The stores mem0 serves are whole, if every store that was backed up is.
Clean == \A t \in Listed, s \in Stores :
            s \in DOMAIN bucket[t].image => bucket[t].image[s].whole

Sound == "mem0" \in serving => \A s \in Stores : live[s].whole

\* Mem0 never serves a half-loaded store, unless one has been backed up: a
\* restore that dies leaves mem0 down (restore.sh:18, 109-143).
THEOREM AppWhole == Spec => []AppSeesWholeData
<1>1. Typed /\ Picked /\ Prefixes /\ AppSeesWholeData /\ [Next]_vars => AppSeesWholeData'
  <2> SUFFICES ASSUME Typed, Picked, Prefixes, AppSeesWholeData, [Next]_vars,
                      Clean', "mem0" \in serving', NEW s \in Stores
               PROVE  live'[s].whole
    BY DEF AppSeesWholeData, Clean
  <2>1. Clean
    BY PrefixStep DEF Clean
  <2>2. Sound
    BY <2>1 DEF AppSeesWholeData, Clean, Sound
  <2>3. CASE \E r \in Runner : StartMem0(r)
    <3>1. PICK r \in Runner : StartMem0(r)
      BY <2>3
    <3>2. live' = live /\ pc[r] = "startMem0"
      BY <3>1 DEF StartMem0
    <3>3. live = bucket[job[r].pick].image /\ job[r].pick \in Complete
      BY <3>2, Faithfully
    <3>4. job[r].pick \in Listed /\ DOMAIN bucket[job[r].pick].image = Stores
      BY <3>3 DEF Complete, Listed, Files, Typed, Data
    <3>5. QED
      BY <2>1, <3>2, <3>3, <3>4 DEF Clean
  <2>4. CASE ~ \E r \in Runner : StartMem0(r)
    <3>1. "mem0" \in serving
      BY <2>4, MemBack
    <3>2. \A r \in Runner : pc[r] \notin Cutover
      BY <3>1 DEF Picked, PickOK
    <3>3. \A r \in Runner : Loading(r) = {}
      BY <3>2 DEF Loading, Cutover
    <3>4. CASE live' = live
      BY <2>2, <3>1, <3>4 DEF Sound
    <3>5. ASSUME NEW m \in Memory, Write(m) PROVE live'[s].whole
      <4>1. live[s] \in Content /\ live[s].whole
        BY <2>2, <3>1 DEF Sound, Typed, Data
      <4>2. live'[s].whole = live[s].whole
        BY <3>5, <4>1 DEF Write, Content
      <4>3. QED
        BY <4>1, <4>2
    <3>6. QED
      BY <3>2, <3>3, <3>4, <3>5 DEF Next, vars, BeginBackup, BeginRestore, CommandFails, Killed, Stops,
         BackupStep, PgDump, TarHistory, StopGraph, DumpGraph, DumpGraphFails, Dump,
         StartGraph, StartGraphAndDie, Put, Report, RestoreStep, Download, SkipSnapshot,
         StopMem0, LoadPostgres, LoadHistory, StopForLoad, LoadGraph, Load,
         LoadGraphRefused, StartAfterLoad, StartMem0, Compose, Cutover
  <2>5. QED
    BY <2>3, <2>4
<1>2. Init => AppSeesWholeData
  BY DEF Init, AppSeesWholeData
<1>3. QED
  BY <1>1, <1>2, PickedAlways, PTL DEF Spec

-----------------------------------------------------------------------------
(***************************************************************************)
(* The drill, beside any backups, restores and failures: what a drill has  *)
(* read is what the bucket keeps.                                          *)
(***************************************************************************)
\* The commands of a drill that has all four files.
Fetched == {"restorePg", "assert", "loadGraph", "checkHistory"}

\* The canary is in the backup that the drill is reading.
InBackup == Canary \in bucket[drillTs].image["postgres"].mem

Reading ==
    /\ drillPc \in {"idle", "get"} \cup Fetched
    /\ got \in 0 .. Files
    /\ drillPc = "idle" => got = 0
    /\ drillPc = "get" => drillTs \in Listed /\ got <= bucket[drillTs].puts
    /\ drillPc \in Fetched => drillTs \in Complete
    /\ drillPc = "assert" =>
          scratch["postgres"].mem \subseteq bucket[drillTs].image["postgres"].mem
    /\ drillPc \in {"loadGraph", "checkHistory"} => InBackup

\* What is in a complete backup stays there, and so do the files of one that
\* is still being uploaded.
LEMMA FilesStay ==
    ASSUME Typed, Prefixes, [Next]_vars, NEW t \in Listed
    PROVE  /\ t \in Listed'
           /\ bucket'[t].image = bucket[t].image
           /\ bucket[t].puts <= bucket'[t].puts
           /\ t \in Complete => t \in Complete'
<1>1. t \in Stamp /\ bucket[t].puts \in 0 .. Files
  BY DEF Listed, Typed, Data
<1>2. t \in Listed' /\ bucket'[t].image = bucket[t].image
  BY PrefixStep
<1>3. ASSUME bucket' = bucket
      PROVE  bucket[t].puts <= bucket'[t].puts /\ (t \in Complete => t \in Complete')
  BY <1>1, <1>3 DEF Complete, Files
<1>4. ASSUME NEW r \in Runner, Put(r)
      PROVE  bucket[t].puts <= bucket'[t].puts /\ (t \in Complete => t \in Complete')
  <2>1. JobOK(r, "upload", job[r], bucket)
    BY <1>4 DEF Put, Typed, Jobs
  <2>2. bucket[job[r].ts].puts < Files
    BY <2>1 DEF JobOK, BackupPc
  <2>3. bucket'[t].puts = IF t = job[r].ts THEN bucket[t].puts + 1 ELSE bucket[t].puts
    BY <1>1, <1>4 DEF Put, Typed, Data
  <2>4. QED
    BY <1>1, <2>2, <2>3 DEF Complete, Files
<1>5. ASSUME NEW r \in Runner, BackupStep(r)
      PROVE  bucket' = bucket \/ Put(r)
  BY <1>5 DEF BackupStep, BeginBackup, PgDump, TarHistory, StopGraph, DumpGraph,
     DumpGraphFails, StartGraph, StartGraphAndDie, Report, Dump, Compose
<1>6. ASSUME NEW r \in Runner, RestoreStep(r) PROVE bucket' = bucket
  BY <1>6 DEF RestoreStep, Download, SkipSnapshot, StopMem0, LoadPostgres, LoadHistory,
     StopForLoad, LoadGraph, LoadGraphRefused, StartAfterLoad, StartMem0, Load, Compose
<1>7. bucket' = bucket \/ \E r \in Runner : Put(r)
  BY <1>5, <1>6
  DEF Next, Write, BeginBackup, BeginRestore, CommandFails, Killed, Stops, vars
<1>8. QED
  BY <1>2, <1>3, <1>4, <1>7

LEMMA ReadingStep ==
    /\ Typed /\ Prefixes /\ Reading /\ DrillHonest
    /\ [Next]_vars /\ [DrillNext]_everyVar
    => Reading' /\ DrillHonest'
<1> SUFFICES ASSUME Typed, Prefixes, Reading, DrillHonest,
                    [Next]_vars, [DrillNext]_everyVar
             PROVE  Reading' /\ DrillHonest'
  OBVIOUS
<1>0. \A t \in Complete : /\ t \in Listed /\ t \in Stamp
                          /\ bucket[t].puts = Files /\ DOMAIN bucket[t].image = Stores
                          /\ bucket[t].image \in Image
  BY DEF Complete, Listed, Files, Typed, Data
<1>1. CASE UNCHANGED drillVars
  <2>1. Reading'
    <3>1. drillPc \in {"get"} \cup Fetched => drillTs \in Listed
      BY <1>0 DEF Reading
    <3>2. CASE drillPc \in {"get"} \cup Fetched
      <4>1. /\ drillTs \in Listed' /\ bucket'[drillTs].image = bucket[drillTs].image
            /\ bucket[drillTs].puts <= bucket'[drillTs].puts
            /\ drillTs \in Complete => drillTs \in Complete'
            /\ bucket[drillTs].puts \in Nat /\ bucket'[drillTs].puts \in Nat
        <5>1. Data'
          BY DataStep
        <5>2. QED
          BY <3>1, <3>2, <5>1, FilesStay DEF Typed, Data, Listed, Files
      <4>2. QED
        BY <1>1, <4>1 DEF Reading, InBackup, drillVars, Files
    <3>3. CASE drillPc = "idle"
      BY <1>1, <3>3 DEF Reading, drillVars, Fetched
    <3>4. QED
      BY <3>2, <3>3 DEF Reading
  <2>2. DrillHonest'
    <3> SUFFICES ASSUME NEW t \in pinged
                 PROVE  /\ t \in Complete' /\ DOMAIN bucket'[t].image = Stores
                        /\ Canary \in bucket'[t].image["postgres"].mem
      BY <1>1 DEF DrillHonest, drillVars
    <3>1. t \in Complete /\ t \in Listed
      BY <1>0 DEF DrillHonest
    <3>2. QED
      BY <3>1, FilesStay DEF DrillHonest
  <2>3. QED
    BY <2>1, <2>2
<1>2. ASSUME UNCHANGED vars, UNCHANGED pinged PROVE DrillHonest'
  BY <1>2 DEF DrillHonest, vars, Complete
<1>3. ASSUME UNCHANGED vars, DrillExit PROVE Reading'
  BY <1>3 DEF Reading, DrillExit, DrillGoto, Fetched, Files
<1>4. CASE BeginDrill
  <2>1. Reading'
    <3>1. drillTs' \in Listed /\ drillPc' = "get" /\ got' = got /\ bucket' = bucket
      BY <1>4 DEF BeginDrill, DrillGoto, vars
    <3>2. got = 0
      BY <1>4 DEF BeginDrill, Reading
    <3>3. QED
      BY <3>1, <3>2 DEF Reading, Listed, Fetched, Typed, Data, Files
  <2>2. QED
    BY <1>2, <1>4, <2>1 DEF BeginDrill
<1>5. CASE GetFile
  <2>1. CASE got < bucket[drillTs].puts
    <3>1. /\ drillTs' = drillTs /\ got' = got + 1 /\ bucket' = bucket
          /\ drillPc' = IF got + 1 = Files THEN "restorePg" ELSE "get"
      BY <1>5, <2>1 DEF GetFile, DrillGoto, vars
    <3>2. /\ drillTs \in Listed /\ got \in 0 .. Files
          /\ drillTs \in Stamp /\ bucket[drillTs].puts \in 0 .. Files
      BY <1>5 DEF GetFile, Reading, Listed, Typed, Data
    <3>3. QED
      BY <1>2, <1>5, <2>1, <3>1, <3>2 DEF GetFile, Reading, Listed, Complete, Fetched, Files
  <2>2. CASE ~(got < bucket[drillTs].puts)
    BY <1>2, <1>3, <1>5, <2>2 DEF GetFile
  <2>3. QED
    BY <2>1, <2>2
<1>6. CASE RestoreScratch
  <2> DEFINE b == bucket[drillTs].image["postgres"]
  <2>1. drillTs \in Complete /\ b \in Content
    BY <1>0, <1>6, ImageOf DEF RestoreScratch, Reading, Fetched, Stores
  <2>2. PICK kept \in SUBSET b.mem :
           scratch' = With(scratch, "postgres", [b EXCEPT !.mem = kept])
    BY <1>6 DEF RestoreScratch, Backup
  <2>3. scratch'["postgres"].mem = kept
    BY <2>1, <2>2 DEF With, Content
  <2>4. drillPc' = "assert" /\ UNCHANGED <<drillTs, got, bucket>>
    BY <1>6 DEF RestoreScratch, DrillGoto, vars
  <2>5. Reading'
    BY <2>1, <2>3, <2>4 DEF Reading, Complete, Fetched
  <2>6. QED
    BY <1>2, <1>6, <2>5 DEF RestoreScratch
<1>7. CASE AssertCanary
  <2>1. CASE Canary \in scratch["postgres"].mem
    <3>1. drillPc = "assert" /\ drillPc' = "loadGraph"
          /\ UNCHANGED <<drillTs, got, scratch, bucket>>
      BY <1>7, <2>1 DEF AssertCanary, DrillGoto, vars
    <3>2. InBackup
      BY <2>1, <3>1 DEF Reading, InBackup
    <3>3. Reading'
      BY <3>1, <3>2 DEF Reading, InBackup, Complete, Fetched
    <3>4. QED
      BY <1>2, <1>7, <3>3 DEF AssertCanary
  <2>2. CASE Canary \notin scratch["postgres"].mem
    BY <1>2, <1>3, <1>7, <2>2 DEF AssertCanary
  <2>3. QED
    BY <2>1, <2>2
<1>8. CASE LoadScratchGraph
  <2>1. drillPc = "loadGraph" /\ drillPc' = "checkHistory"
        /\ UNCHANGED <<drillTs, got, bucket>>
    BY <1>8 DEF LoadScratchGraph, DrillGoto, vars
  <2>2. Reading'
    BY <2>1 DEF Reading, InBackup, Complete, Fetched
  <2>3. QED
    BY <1>2, <1>8, <2>2 DEF LoadScratchGraph
<1>9. CASE CheckHistory
  <2>1. drillTs \in Complete /\ InBackup /\ pinged' = pinged \cup {drillTs}
        /\ bucket' = bucket
    BY <1>9 DEF CheckHistory, Reading, Fetched, vars
  <2>2. DrillHonest'
    BY <1>0, <2>1 DEF DrillHonest, InBackup, Complete
  <2>3. QED
    BY <1>3, <1>9, <2>2 DEF CheckHistory
<1>10. CASE DrillFails
  BY <1>2, <1>3, <1>10 DEF DrillFails
<1>11. QED
  BY <1>1, <1>4, <1>5, <1>6, <1>7, <1>8, <1>9, <1>10
  DEF DrillNext, DrillStep, everyVar

(***************************************************************************)
(* The drill leaves the scripts' state alone, so that what is proved of    *)
(* BackupRestore holds beside it.                                          *)
(***************************************************************************)
LEMMA DrillSimulates == DrillSpec => Spec
<1>1. DrillInit => Init
  BY DEF DrillInit
<1>2. [DrillNext]_everyVar => [Next]_vars
  BY DEF DrillNext, BeginDrill, DrillStep, GetFile, RestoreScratch, AssertCanary,
     LoadScratchGraph, CheckHistory, DrillFails, everyVar
<1>3. QED
  BY <1>1, <1>2, PTL DEF DrillSpec, Spec

LEMMA DrillAlways == DrillSpec => [](Reading /\ DrillHonest)
<1>1. DrillInit => Reading /\ DrillHonest
  BY DEF DrillInit, Reading, DrillHonest, Fetched, Files
<1>2. QED
  BY <1>1, ReadingStep, DrillSimulates, PickedAlways, PTL DEF DrillSpec, Spec

\* A drill that pinged success read a complete backup, with every store in it
\* and the canary (restore-drill.sh:121-162).
THEOREM DrillsHonest == DrillSpec => []DrillHonest
BY DrillAlways, PTL

\* A restore of a backup that a drill passed serves the canary again, whatever
\* ran beside either (restore-drill.sh:1-27).
THEOREM DrilledServes == DrillSpec => DrilledRestores
<1>1. Typed /\ Picked /\ DrillHonest /\ [Next]_vars /\ [DrillNext]_everyVar
      => [\A r \in Operator :
             pc[r] = "startMem0" /\ pc'[r] = "idle" /\ "mem0" \in serving'
             /\ job[r].pick \in pinged
             => Canary \in live'["postgres"].mem]_everyVar
  BY FaithfulStep DEF DrillHonest
<1>2. QED
  BY <1>1, DrillAlways, DrillSimulates, PickedAlways, PTL DEF DrillSpec, Spec, DrilledRestores
=============================================================================
