----------------------------- MODULE RestoreDrill -----------------------------
(***************************************************************************)
(* scripts/restore-drill.sh: the monthly drill restores the newest backup   *)
(* into scratch containers and asserts that a canary memory survived, which *)
(* scripts/plant-drill-canary.sh stored through mem0 as any client does.    *)
(* The drill only reads the bucket of BackupRestore, while backups are      *)
(* being uploaded to it and restores run: no lock keeps them apart either.  *)
(***************************************************************************)
EXTENDS BackupRestore

CONSTANT Canary     \* the memory with the canary's tag

ASSUME CanaryAssumption == Canary \in Memory

VARIABLES
    drillPc,    \* the command of the drill that runs next
    drillTs,    \* the prefix it restores, 0 for none
    got,        \* how many of its files are downloaded
    scratch,    \* what the scratch containers hold, by store
    pinged      \* stamps of the drills that sent their success ping

drillVars == <<drillPc, drillTs, got, scratch, pinged>>
everyVar == <<vars, drillVars>>

DrillTypeOK ==
    /\ drillPc \in {"idle", "get", "restorePg", "assert", "loadGraph", "checkHistory"}
    /\ drillTs \in 0 .. MaxRuns
    /\ got \in 0 .. Files
    /\ scratch \in Image
    /\ pinged \subseteq Stamp
    /\ drillPc = "idle" => drillTs = 0 /\ scratch = Nothing
    /\ drillPc \notin {"idle", "get"} => got = Files /\ drillTs \in Listed

DrillInit ==
    /\ Init
    /\ drillPc = "idle"
    /\ drillTs = 0
    /\ got = 0
    /\ scratch = Nothing
    /\ pinged = {}

-----------------------------------------------------------------------------
(* restore-drill.sh *)

DrillGoto(label) == drillPc' = label

\* cleanup() removes the scratch objects, and pings /fail unless all went well.
DrillExit ==
    /\ DrillGoto("idle")
    /\ drillTs' = 0
    /\ got' = 0
    /\ scratch' = Nothing

\* The newest prefix listed; without one the drill fails there.
BeginDrill ==
    /\ drillPc = "idle"
    /\ \E t \in Listed :
          /\ \A u \in Listed : u <= t
          /\ drillTs' = t
    /\ DrillGoto("get")
    /\ UNCHANGED <<vars, got, scratch, pinged>>

\* Mutant of GetFile: a file that is not there is passed over.
GetWhatThereIs ==
    /\ drillPc = "get"
    /\ got' = got + 1
    /\ DrillGoto(IF got' = Files THEN "restorePg" ELSE "get")
    /\ UNCHANGED <<vars, drillTs, scratch, pinged>>

\* The files are fetched in the order in which a backup puts them.
GetFile ==
    /\ drillPc = "get"
    /\ IF got < bucket[drillTs].puts
       THEN /\ got' = got + 1
            /\ DrillGoto(IF got' = Files THEN "restorePg" ELSE "get")
            /\ UNCHANGED <<drillTs, scratch>>
       ELSE DrillExit
    /\ UNCHANGED <<vars, pinged>>

Backup == bucket[drillTs].image

\* pg_restore's exit code is ignored: whatever arrived is what is asserted on.
RestoreScratch ==
    /\ drillPc = "restorePg"
    /\ \E kept \in SUBSET Backup["postgres"].mem :
          scratch' = With(scratch, "postgres",
                          [Backup["postgres"] EXCEPT !.mem = kept])
    /\ DrillGoto("assert")
    /\ UNCHANGED <<vars, drillTs, got, pinged>>

\* Mutant of AssertCanary: whatever was restored will do.
AssertNothing ==
    /\ drillPc = "assert"
    /\ DrillGoto("loadGraph")
    /\ UNCHANGED <<vars, drillTs, got, scratch, pinged>>

\* At least one memory, and the canary with its embedding.
AssertCanary ==
    /\ drillPc = "assert"
    /\ IF Canary \in scratch["postgres"].mem
       THEN DrillGoto("loadGraph") /\ UNCHANGED <<drillTs, got, scratch>>
       ELSE DrillExit
    /\ UNCHANGED <<vars, pinged>>

LoadScratchGraph ==
    /\ drillPc = "loadGraph"
    /\ scratch' = With(scratch, "graph", Backup["graph"])
    /\ DrillGoto("checkHistory")
    /\ UNCHANGED <<vars, drillTs, got, pinged>>

\* The archive extracts to a SQLite file: the success ping.
CheckHistory ==
    /\ drillPc = "checkHistory"
    /\ pinged' = pinged \cup {drillTs}
    /\ DrillExit
    /\ UNCHANGED vars

\* Any command fails, a readiness wait or TimeoutStartSec expires.
DrillFails ==
    /\ drillPc # "idle"
    /\ DrillExit
    /\ UNCHANGED <<vars, pinged>>

DrillStep ==
    \/ GetFile \/ RestoreScratch \/ AssertCanary \/ LoadScratchGraph \/ CheckHistory

DrillNext ==
    \/ Next /\ UNCHANGED drillVars
    \/ BeginDrill \/ DrillStep \/ DrillFails

\* The scripts go on with their next command once they run.
DrillSpec ==
    /\ DrillInit /\ [][DrillNext]_everyVar
    /\ \A r \in Runner : WF_everyVar((BackupStep(r) \/ RestoreStep(r))
                                        /\ UNCHANGED drillVars)

-----------------------------------------------------------------------------
(* Properties *)

\* What a passed drill is for: a later restore of that backup, once it has
\* brought mem0 back, serves the canary, although the drill may have read the
\* prefix while it was being uploaded, its pg_restore may have failed
\* unnoticed, and other backups and restores overlap (restore-drill.sh:1-27).
DrilledRestores ==
    [][\A r \in Operator :
          pc[r] = "startMem0" /\ pc'[r] = "idle" /\ "mem0" \in serving'
          /\ job[r].pick \in pinged
          => Canary \in live'["postgres"].mem]_everyVar

\* A drill's success ping never stands for a backup that is still missing a
\* file, has no image of some store, or was taken when the canary was not yet
\* stored (restore-drill.sh:121-162).
DrillHonest ==
    \A t \in pinged :
        /\ t \in Complete
        /\ DOMAIN bucket[t].image = Stores
        /\ Canary \in bucket[t].image["postgres"].mem

=============================================================================
