-------------------------------- MODULE Bank --------------------------------
(***************************************************************************)
(* The records of the memory bank and the tools that edit them without a   *)
(* lock: scripts/memory.py (capture, close, update and delete one record)  *)
(* and scripts/memory_compaction.py (scan for near-duplicates, then apply  *)
(* a saved and reviewed report).  All go through MemoryApiClient, one HTTP *)
(* request per step; close and merge read a record and write all of its    *)
(* metadata back, so that other requests land in between.                  *)
(***************************************************************************)
EXTENDS Naturals, FiniteSets, Clustering

CONSTANTS
    Id,         \* memory ids, numbered in the order of their created_at
    Seeded,     \* the ids that are in the bank at the start
    Caller,     \* runs of memory.py at the same time
    Type,       \* types of the records captured
    MaxEdits,   \* bound: closes, updates and deletes by callers
    MaxScans,   \* bound: compaction scans
    PutModes,   \* what the server's PUT does with metadata, see Stored
    None        \* no id

ASSUME BankAssumption ==
    /\ Id \subseteq Nat
    /\ Seeded \subseteq Id
    /\ Type \subseteq {"fact", "decision", "open_item"}
    /\ MaxEdits \in Nat /\ MaxScans \in Nat
    /\ PutModes \subseteq {"replace", "overlay"}
    /\ None \notin Id

VARIABLES
    life,       \* life[i]: "unborn", "live" or "gone" on the server
    bank,       \* bank[i]: the record, meaningful while i is live
    job,        \* job[c]: the close in progress in caller c
    scan,       \* the ids listed by a scan in progress, None between scans
    saved,      \* the clusters of the last report written
    merge,      \* the merge run: its step, cluster, record read, work left
    edits,      \* edits begun, up to MaxEdits
    scans,      \* scans begun, up to MaxScans
    \* History variables: they record what happened and guard nothing.
    past,       \* past.k: the ids to which k happened, see History
    mergedInto  \* mergedInto[i]: the record that i was merged into

serverVars == <<life, bank>>
callerVars == <<job, edits>>
scanVars == <<scan, saved, scans>>
vars == <<serverVars, callerVars, scanVars, merge, past, mergedInto>>

History ==
    { "opened",     \* captured as an open item
      "closed",     \* closed by a PUT of close_item
      "edited",     \* given a new text by update_memory_record
      "retagged",   \* metadata changed by update_memory_record
      "stale",      \* written back from a read that another write had overtaken
      "removed" }   \* deleted by delete_memory_record

OPEN_STATUSES == {"open", "in_progress"}

CLOSED_STATUSES == {"done", "dropped"}

\* A record; "none" and {} stand for a metadata key that is absent, which is
\* what _clean makes of a blank value.
Record == [type : Type \cup {"none", "open_item"},
           status : OPEN_STATUSES \cup {"done", "dropped", "none"},
           merged : SUBSET Id,
           text : {"captured", "edited", "blank"}]

Blank == [type |-> "none", status |-> "none", merged |-> {}, text |-> "captured"]

\* add_memory with infer=False: the record is stored as it was captured.
Captured(type) ==
    [Blank EXCEPT !.type = type,
                  !.status = IF type = "open_item" THEN "open" ELSE "none"]

Live == {i \in Id : life[i] = "live"}

Cluster == [canonical : Id, members : SUBSET Id]

Idle == [at |-> "idle", id |-> None, got |-> Blank, status |-> "none"]

NoMerge ==
    [at |-> "off", todo |-> {}, id |-> None, got |-> Blank, left |-> {}]

TypeOK ==
    /\ life \in [Id -> {"unborn", "live", "gone"}]
    /\ bank \in [Id -> Record]
    /\ job \in [Caller -> [at : {"idle", "put"}, id : Id \cup {None},
                           got : Record, status : CLOSED_STATUSES \cup {"none"}]]
    /\ scan \in [on : BOOLEAN, listed : SUBSET Id]
    /\ saved \subseteq Cluster
    /\ merge \in [at : {"off", "next", "put", "delete"}, todo : SUBSET Cluster,
                  id : Id \cup {None}, got : Record, left : SUBSET Id]
    /\ edits \in 0..MaxEdits
    /\ scans \in 0..MaxScans
    /\ past \in [History -> SUBSET Id]
    /\ mergedInto \in [Id -> Id \cup {None}]

Init ==
    /\ life = [i \in Id |-> IF i \in Seeded THEN "live" ELSE "unborn"]
    /\ \E type \in [Id -> Type] :
          /\ bank = [i \in Id |-> IF i \in Seeded THEN Captured(type[i]) ELSE Blank]
          /\ past = [h \in History |->
                IF h = "opened" THEN {i \in Seeded : type[i] = "open_item"} ELSE {}]
    /\ job = [c \in Caller |-> Idle]
    /\ scan = [on |-> FALSE, listed |-> {}]
    /\ saved = {}
    /\ merge = NoMerge
    /\ edits = 0 /\ scans = 0
    /\ mergedInto = [i \in Id |-> None]

-----------------------------------------------------------------------------
(* The server, behind client.py.  A request on a record that is not live     *)
(* answers 404, which raise_for_status turns into an exception.              *)

\* GET /memories/{id}, for an id that is live
Get(i) == bank[i]

\* GET /memories: all of the bank, or a part of it where the server caps it.
Lists == SUBSET Live

\* The metadata sent either replaces what is stored or is laid over it: the
\* client does not say, so a PUT may do either of PutModes.
Stored(mode, old, new) ==
    IF mode = "replace" THEN new
    ELSE [type |-> IF new.type = "none" THEN old.type ELSE new.type,
          status |-> IF new.status = "none" THEN old.status ELSE new.status,
          merged |-> IF new.merged = {} THEN old.merged ELSE new.merged,
          text |-> new.text]

Put(i, new) ==
    \E mode \in PutModes :
        bank' = [bank EXCEPT ![i] = Stored(mode, bank[i], new)]

Delete(i) == life' = [life EXCEPT ![i] = "gone"]

Note(h, i) == [past EXCEPT ![h] = @ \cup {i}]

\* The ids written back from a read of theirs that is out of date.
Overtaken(i, got) == IF bank[i] = got THEN past["stale"] ELSE past["stale"] \cup {i}

-----------------------------------------------------------------------------
(* scripts/memory.py.                                                        *)

Capture(i, type) ==
    /\ life[i] = "unborn"
    /\ \A j \in Id : j < i => life[j] # "unborn"
    /\ life' = [life EXCEPT ![i] = "live"]
    /\ bank' = [bank EXCEPT ![i] = Captured(type)]
    /\ past' = IF type = "open_item" THEN Note("opened", i) ELSE past
    /\ UNCHANGED <<callerVars, scanVars, merge, mergedInto>>

Edit ==
    /\ edits < MaxEdits
    /\ edits' = edits + 1

\* close_item validates, reads the record ...
CloseGet(c, i, status) ==
    /\ job[c].at = "idle"
    /\ i \in Live
    /\ Edit
    /\ job' = [job EXCEPT ![c] =
                  [at |-> "put", id |-> i, got |-> Get(i), status |-> status]]
    /\ UNCHANGED <<serverVars, scanVars, merge, past, mergedInto>>

\* Mutant of ClosedRecord: the text read is not sent back.
ClosedBlank(got, status) == [got EXCEPT !.status = status, !.text = "blank"]

ClosedRecord(got, status) == [got EXCEPT !.status = status]

\* ... and PUTs it back with the closure fields set.
ClosePut(c) ==
    LET i == job[c].id
    IN  /\ job[c].at = "put"
        /\ i \in Live
        /\ Put(i, ClosedRecord(job[c].got, job[c].status))
        /\ past' = [Note("closed", i) EXCEPT !["stale"] = Overtaken(i, job[c].got)]
        /\ job' = [job EXCEPT ![c] = Idle]
        /\ UNCHANGED <<life, edits, scanVars, merge, mergedInto>>

\* The PUT finds no record, or fails on its way, or the process is killed.
CloseFails(c) ==
    /\ job[c].at = "put"
    /\ job' = [job EXCEPT ![c] = Idle]
    /\ UNCHANGED <<serverVars, edits, scanVars, merge, past, mergedInto>>

\* update_memory_record sends the metadata it was given, or an empty object.
Update(i, type, status) ==
    /\ i \in Live
    /\ Edit
    /\ Put(i, [type |-> type, status |-> status, merged |-> {}, text |-> "edited"])
    /\ past' = [Note("edited", i) EXCEPT !["retagged"] =
                   IF bank'[i] = [bank[i] EXCEPT !.text = "edited"] THEN @ ELSE @ \cup {i}]
    /\ UNCHANGED <<life, job, scanVars, merge, mergedInto>>

Remove(i) ==
    /\ i \in Live
    /\ Edit
    /\ Delete(i)
    /\ past' = Note("removed", i)
    /\ UNCHANGED <<bank, job, scanVars, merge, mergedInto>>

\* open_items, on a list that holds the whole bank: what agenda and
\* recruiter_board show.
OpenItems ==
    {i \in Live : bank[i].type = "open_item" /\ bank[i].status \notin CLOSED_STATUSES}

Cli ==
    \/ \E i \in Id : Remove(i) \/ \E type \in Type : Capture(i, type)
    \/ \E i \in Id : \/ Update(i, "none", "none")
                     \/ Update(i, "open_item", "in_progress")
    \/ \E c \in Caller :
          \/ ClosePut(c) \/ CloseFails(c)
          \/ \E i \in Id, status \in CLOSED_STATUSES : CloseGet(c, i, status)

-----------------------------------------------------------------------------
(* scripts/memory_compaction.py: the scan.  One compaction runs at a time.   *)

\* GET /memories?limit=1000
ScanList ==
    /\ ~scan.on
    /\ merge.at = "off"
    /\ scans < MaxScans
    /\ scans' = scans + 1
    /\ \E some \in Lists : scan' = [on |-> TRUE, listed |-> some]
    /\ UNCHANGED <<serverVars, callerVars, saved, merge, past, mergedInto>>

ScanSearch ==
    /\ scan.on
    /\ \E edges \in SUBSET Pairs(scan.listed, Live) :
          LET found == Clusters(scan.listed, edges)
          IN  \E head \in [found -> Id] :
                 /\ \A g \in found : head[g] \in First(g, scan.listed)
                 /\ saved' = {[canonical |-> head[g], members |-> g] : g \in found}
    /\ scan' = [on |-> FALSE, listed |-> {}]
    /\ UNCHANGED <<serverVars, callerVars, scans, merge, past, mergedInto>>

-----------------------------------------------------------------------------
(* scripts/memory_compaction.py --merge-from report --i-reviewed-clusters.   *)
(* Nothing depends on the order of the clusters or of their members.         *)

MergeStart ==
    /\ merge.at = "off"
    /\ ~scan.on
    /\ saved # {}
    /\ merge' = [NoMerge EXCEPT !.at = "next", !.todo = saved]
    /\ UNCHANGED <<serverVars, callerVars, scanVars, past, mergedInto>>

MergeGet ==
    /\ merge.at = "next"
    /\ \E cluster \in merge.todo :
          /\ cluster.canonical \in Live
          /\ merge' = [merge EXCEPT
                !.at = "put",
                !.todo = merge.todo \ {cluster},
                !.id = cluster.canonical,
                !.got = Get(cluster.canonical),
                !.left = cluster.members \ {cluster.canonical}]
    /\ UNCHANGED <<serverVars, callerVars, scanVars, past, mergedInto>>

\* Mutant of MergedRecord: an earlier merged_from is forgotten.
MergedAnew(got, dupes) == [got EXCEPT !.merged = dupes]

\* Mutant of MergedRecord: only merged_from is sent.
MergedBare(got, dupes) == [Blank EXCEPT !.merged = got.merged \cup dupes, !.text = got.text]

MergedRecord(got, dupes) == [got EXCEPT !.merged = got.merged \cup dupes]

MergePut ==
    /\ merge.at = "put"
    /\ merge.id \in Live
    /\ Put(merge.id, MergedRecord(merge.got, merge.left))
    /\ past' = [past EXCEPT !["stale"] = Overtaken(merge.id, merge.got)]
    /\ merge' = [merge EXCEPT !.at = "delete"]
    /\ UNCHANGED <<life, callerVars, scanVars, mergedInto>>

\* The record is gone already and the server does not mind.  Where it answers
\* 404 instead, the run fails (MergeFails).
MergeSkip(d) ==
    /\ merge.at = "delete"
    /\ d \in merge.left \ Live
    /\ merge' = [merge EXCEPT !.left = merge.left \ {d}]
    /\ UNCHANGED <<serverVars, callerVars, scanVars, past, mergedInto>>

MergeDelete(d) ==
    /\ merge.at = "delete"
    /\ d \in merge.left \cap Live
    /\ Delete(d)
    /\ mergedInto' = [mergedInto EXCEPT ![d] = merge.id]
    /\ merge' = [merge EXCEPT !.left = merge.left \ {d}]
    /\ UNCHANGED <<bank, callerVars, scanVars, past>>

MergeNext ==
    /\ merge.at = "delete"
    /\ merge.left = {}
    /\ merge' = [merge EXCEPT !.at = "next"]
    /\ UNCHANGED <<serverVars, callerVars, scanVars, past, mergedInto>>

MergeEnd ==
    /\ merge.at = "next"
    /\ merge.todo = {}
    /\ merge' = NoMerge
    /\ UNCHANGED <<serverVars, callerVars, scanVars, past, mergedInto>>

\* A request that answers 404 or fails raises, and nothing catches it; so does
\* a kill.  What was done stays done.
MergeFails ==
    /\ merge.at = "next" => merge.todo # {}
    /\ merge.at # "off"
    /\ merge' = NoMerge
    /\ UNCHANGED <<serverVars, callerVars, scanVars, past, mergedInto>>

Merge ==
    \/ MergeStart \/ MergeGet \/ MergePut \/ MergeNext \/ MergeEnd \/ MergeFails
    \/ \E d \in Id : MergeSkip(d) \/ MergeDelete(d)

Next == Cli \/ ScanList \/ ScanSearch \/ Merge

Spec == Init /\ [][Next]_vars

-----------------------------------------------------------------------------
(* Properties.                                                               *)

\* No record vanishes without a trace (auto_merge_clusters PUTs merged_from
\* before it deletes): a record a merge deleted is named by the record it was
\* merged into, across failed runs, re-runs and later merges, unless that
\* record was itself merged on, deleted or re-tagged by a caller, or written
\* back from a read that was out of date.
MergeAccounted ==
    \A d \in Id : mergedInto[d] # None =>
        LET c == mergedInto[d]
        IN  \/ c \in Live /\ d \in bank[c].merged
            \/ c \in past["removed"] \cup past["retagged"] \cup past["stale"]
            \/ mergedInto[c] # None

\* What agenda shows was captured as an open item and not closed, and an open
\* item that nobody closed or deleted is on it unless a merge deleted it: closes,
\* updates and merges that interleave lose or reopen no other item but by the two
\* races the code has, a write back of an out-of-date read and an update that
\* changes the metadata.  A merge takes an item off the agenda where it deletes it
\* into a record of another type or one closed since the scan: it reads neither
\* type nor status (memory_compaction.py:200-222).
AgendaExact ==
    \A i \in Id \ (past["stale"] \cup past["retagged"]) :
        /\ i \in OpenItems => i \in past["opened"] \ past["closed"]
        /\ i \in past["opened"] \ (past["closed"] \cup past["removed"]) =>
              i \in OpenItems \/ mergedInto[i] # None

\* A text given by update_memory_record survives later closes and merges unless
\* one of them writes back an out-of-date read, or a merge deletes the record as a
\* member, whose text it never reads.
EditsSurvive ==
    \A i \in past["edited"] \ (past["stale"] \cup past["removed"]) :
        \/ i \in Live /\ bank[i].text = "edited"
        \/ mergedInto[i] # None
=============================================================================
