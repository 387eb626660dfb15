----------------------------- MODULE BankProofs -----------------------------
(***************************************************************************)
(* Theorems about Bank, for any set of ids, callers and types, any number  *)
(* of edits and scans, and either reading of the server's PUT.             *)
(***************************************************************************)
EXTENDS Bank, TLAPS

\* What a request was made with is typed, and a close carries a closed status.
Requests == \A c \in Caller : job[c].at = "put" =>
                job[c].id \in Id /\ job[c].status \in CLOSED_STATUSES

Merging == merge.at \in {"put", "delete"} => merge.id \in Id

\* Nothing has happened to a record that does not exist yet.
Fresh == \A h \in History : \A i \in past[h] : life[i] # "unborn"

Typed == TypeOK /\ Requests /\ Merging /\ Fresh

\* Record c names the records of D as merged into it, or one of the exceptions
\* that MergeAccounted makes applies to it.
Names(c, D) ==
    \/ c \in Live /\ D \subseteq bank[c].merged
    \/ c \in past["removed"] \cup past["retagged"] \cup past["stale"]
    \/ mergedInto[c] # None

\* Before a merge deletes, the record it merged into names what it will delete.
Announced == merge.at = "delete" => Names(merge.id, merge.left)

\* A deleted record is one of those that its record names.
Traced == \A d \in Id : mergedInto[d] # None => Names(mergedInto[d], {d})

(***************************************************************************)
(* What a PUT leaves of a record, whichever way the server treats metadata. *)
(***************************************************************************)
LEMMA StoredRecord ==
    ASSUME NEW mode, NEW old \in Record, NEW new \in Record
    PROVE  LET put == Stored(mode, old, new)
           IN  /\ put \in Record
               /\ put.text = new.text
               /\ new.type = old.type => put.type = new.type
               /\ new.status \in {old.status} \cup CLOSED_STATUSES
                     => put.status = new.status
               /\ old.merged \subseteq new.merged => put.merged = new.merged
<1>1. CASE mode = "replace"
  BY <1>1 DEF Stored
<1>2. CASE mode # "replace"
  <2>1. Stored(mode, old, new) \in Record
    BY <1>2 DEF Stored, Record
  <2>2. old.merged \subseteq new.merged
            => Stored(mode, old, new).merged = new.merged
    BY <1>2 DEF Stored, Record
  <2>3. new.status \in {old.status} \cup CLOSED_STATUSES
            => Stored(mode, old, new).status = new.status
    BY <1>2 DEF Stored, CLOSED_STATUSES
  <2>4. /\ Stored(mode, old, new).text = new.text
        /\ new.type = old.type => Stored(mode, old, new).type = new.type
    BY <1>2 DEF Stored
  <2>5. QED
    BY <2>1, <2>2, <2>3, <2>4
<1>3. QED
  BY <1>1, <1>2

\* The same of a PUT in the bank; it changes no other record.
LEMMA PutRecord ==
    ASSUME TypeOK, NEW i \in Id, NEW new \in Record, Put(i, new)
    PROVE  /\ bank' \in [Id -> Record]
           /\ \A j \in Id : j # i => bank'[j] = bank[j]
           /\ bank'[i].text = new.text
           /\ new.type = bank[i].type => bank'[i].type = new.type
           /\ new.status \in {bank[i].status} \cup CLOSED_STATUSES
                 => bank'[i].status = new.status
           /\ bank[i].merged \subseteq new.merged => bank'[i].merged = new.merged
<1>1. PICK mode \in PutModes :
          bank' = [bank EXCEPT ![i] = Stored(mode, bank[i], new)]
  BY DEF Put
<1>2. bank \in [Id -> Record]
  BY DEF TypeOK
<1>3. bank'[i] = Stored(mode, bank[i], new)
  BY <1>1, <1>2
<1>4. bank' \in [Id -> Record] /\ \A j \in Id : j # i => bank'[j] = bank[j]
  BY <1>1, <1>2, StoredRecord
<1>5. QED
  BY <1>2, <1>3, <1>4, StoredRecord

\* What a close writes back is a record, as it was read but for its status ...
LEMMA ClosedTyped ==
    ASSUME NEW got \in Record, NEW status \in CLOSED_STATUSES
    PROVE  /\ ClosedRecord(got, status) \in Record
           /\ ClosedRecord(got, status).status = status
           /\ ClosedRecord(got, status).type = got.type
           /\ ClosedRecord(got, status).merged = got.merged
           /\ ClosedRecord(got, status).text = got.text
BY DEF ClosedRecord, Record, CLOSED_STATUSES

\* ... and so is what a merge writes back, with the merged ids in it.
LEMMA MergedTyped ==
    ASSUME NEW got \in Record, NEW D \in SUBSET Id
    PROVE  /\ MergedRecord(got, D) \in Record
           /\ MergedRecord(got, D).status = got.status
           /\ MergedRecord(got, D).type = got.type
           /\ MergedRecord(got, D).merged = got.merged \cup D
           /\ MergedRecord(got, D).text = got.text
BY DEF MergedRecord, Record

\* What a capture stores.
LEMMA CapturedTyped ==
    ASSUME NEW type \in Type
    PROVE  /\ Captured(type) \in Record
           /\ Captured(type).type = type
           /\ type = "open_item" => Captured(type).status \notin CLOSED_STATUSES
BY DEF Captured, Blank, Record, OPEN_STATUSES, CLOSED_STATUSES

\* A record with no metadata.
LEMMA BlankTyped == Blank \in Record
BY DEF Blank, Record

\* Whatever edges a scan finds, a cluster is a set of ids.
LEMMA ClustersOfIds ==
    ASSUME NEW listed \in SUBSET Id, NEW edges \in SUBSET Pairs(listed, Live)
    PROVE  Clusters(listed, edges) \subseteq SUBSET Id
<1>1. listed \cup UNION {{e[1], e[2]} : e \in edges} \subseteq Id
  BY DEF Pairs, Live
<1>2. QED
  BY <1>1 DEF Clusters

(***************************************************************************)
(* Typed is inductive.                                                     *)
(***************************************************************************)
\* The initial bank is typed.
LEMMA TypedInit == Init => Typed
<1> SUFFICES ASSUME Init PROVE Typed
  OBVIOUS
<1>1. PICK type \in [Id -> Type] :
          /\ bank = [i \in Id |-> IF i \in Seeded THEN Captured(type[i]) ELSE Blank]
          /\ past = [h \in History |->
                IF h = "opened" THEN {i \in Seeded : type[i] = "open_item"} ELSE {}]
  BY DEF Init
<1>2. bank \in [Id -> Record]
  BY <1>1, CapturedTyped, BlankTyped
<1>3. past \in [History -> SUBSET Id]
  BY <1>1, BankAssumption
<1>4. job \in [Caller -> [at : {"idle", "put"}, id : Id \cup {None},
                          got : Record, status : CLOSED_STATUSES \cup {"none"}]]
  BY BlankTyped DEF Init, Idle
<1>5. merge \in [at : {"off", "next", "put", "delete"}, todo : SUBSET Cluster,
                 id : Id \cup {None}, got : Record, left : SUBSET Id]
  BY BlankTyped DEF Init, NoMerge
<1>6. TypeOK
  BY <1>2, <1>3, <1>4, <1>5, BankAssumption DEF Init, TypeOK
<1>7. Fresh
  BY <1>1, BankAssumption DEF Init, Fresh
<1>8. QED
  BY <1>6, <1>7 DEF Init, Typed, Requests, Merging, Idle, NoMerge

\* Every step keeps it so.
LEMMA TypedStep == Typed /\ [Next]_vars => Typed'
<1> SUFFICES ASSUME Typed, [Next]_vars PROVE Typed'
  OBVIOUS
<1> USE DEF Typed, TypeOK, Requests, Merging
<1>1. ASSUME NEW i \in Id, NEW type \in Type, Capture(i, type) PROVE Typed'
  <2>1. past' \in [History -> SUBSET Id] /\ Fresh'
    BY <1>1 DEF Capture, Note, History, Fresh
  <2>2. bank' \in [Id -> Record]
    BY <1>1, CapturedTyped DEF Capture
  <2>3. QED
    BY <1>1, <2>1, <2>2 DEF Capture, callerVars, scanVars
<1>2. ASSUME NEW i \in Id, Remove(i) PROVE Typed'
  <2>1. past' \in [History -> SUBSET Id] /\ Fresh'
    BY <1>2 DEF Remove, Delete, Note, History, Fresh, Live
  <2>2. QED
    BY <1>2, <2>1, BankAssumption DEF Remove, Edit, Delete, scanVars
<1>3. ASSUME NEW i \in Id, NEW type \in {"none", "open_item"},
             NEW status \in {"none", "in_progress"}, Update(i, type, status)
      PROVE  Typed'
  <2>1. [type |-> type, status |-> status, merged |-> {}, text |-> "edited"] \in Record
    BY DEF Record, OPEN_STATUSES
  <2>2. bank' \in [Id -> Record]
    BY <1>3, <2>1, PutRecord DEF Update
  <2>3. past' \in [History -> SUBSET Id] /\ Fresh'
    BY <1>3 DEF Update, Note, History, Fresh, Live
  <2>4. QED
    BY <1>3, <2>2, <2>3, BankAssumption DEF Update, Edit, scanVars
<1>4. ASSUME NEW c \in Caller, ClosePut(c) PROVE Typed'
  <2>1. job[c].id \in Id /\ job[c].got \in Record /\ job[c].status \in CLOSED_STATUSES
    BY <1>4 DEF ClosePut
  <2>2. bank' \in [Id -> Record]
    BY <1>4, <2>1, ClosedTyped, PutRecord DEF ClosePut
  <2>3. past' \in [History -> SUBSET Id] /\ Fresh'
    BY <1>4, <2>1 DEF ClosePut, Note, Overtaken, History, Fresh, Live
  <2>4. QED
    BY <1>4, <2>2, <2>3, BlankTyped DEF ClosePut, Idle, scanVars
<1>5. ASSUME NEW c \in Caller, CloseFails(c) PROVE Typed'
  BY <1>5, BlankTyped DEF CloseFails, Idle, serverVars, scanVars, Fresh
<1>6. ASSUME NEW c \in Caller, NEW i \in Id, NEW status \in CLOSED_STATUSES,
             CloseGet(c, i, status)
      PROVE  Typed'
  <2>1. job' \in [Caller -> [at : {"idle", "put"}, id : Id \cup {None},
                             got : Record, status : CLOSED_STATUSES \cup {"none"}]]
    BY <1>6 DEF CloseGet, Get
  <2>2. Requests'
    BY <1>6 DEF CloseGet, Get
  <2>3. edits' \in 0 .. MaxEdits
    BY <1>6, BankAssumption DEF CloseGet, Edit
  <2>4. QED
    BY <1>6, <2>1, <2>2, <2>3 DEF CloseGet, serverVars, scanVars, Fresh
<1>7. CASE ScanList
  BY <1>7, BankAssumption DEF ScanList, Lists, Live, serverVars, callerVars, Fresh
<1>8. CASE ScanSearch
  <2>1. saved' \subseteq Cluster
    <3>1. PICK edges \in SUBSET Pairs(scan.listed, Live) :
             \E head \in [Clusters(scan.listed, edges) -> Id] :
                saved' = {[canonical |-> head[g], members |-> g] :
                             g \in Clusters(scan.listed, edges)}
      BY <1>8 DEF ScanSearch
    <3>2. Clusters(scan.listed, edges) \subseteq SUBSET Id
      BY ClustersOfIds
    <3>3. QED
      BY <3>1, <3>2 DEF Cluster
  <2>2. QED
    BY <1>8, <2>1 DEF ScanSearch, serverVars, callerVars, Fresh
<1>9. CASE MergeStart \/ MergeEnd \/ MergeFails
  <2>1. \/ merge' = [at |-> "next", todo |-> saved, id |-> None, got |-> Blank,
                      left |-> {}]
        \/ merge' = NoMerge
    BY <1>9 DEF MergeStart, MergeEnd, MergeFails, NoMerge
  <2>2. /\ merge' \in [at : {"off", "next", "put", "delete"}, todo : SUBSET Cluster,
                       id : Id \cup {None}, got : Record, left : SUBSET Id]
        /\ merge'.at \in {"off", "next"}
    BY <2>1, BlankTyped DEF NoMerge
  <2>3. QED
    BY <1>9, <2>2 DEF MergeStart, MergeEnd, MergeFails, serverVars, callerVars,
                      scanVars, Fresh
<1>10. CASE MergeGet
  <2>1. PICK cluster \in merge.todo :
           /\ cluster.canonical \in Live
           /\ merge' = [merge EXCEPT
                !.at = "put",
                !.todo = merge.todo \ {cluster},
                !.id = cluster.canonical,
                !.got = Get(cluster.canonical),
                !.left = cluster.members \ {cluster.canonical}]
    BY <1>10 DEF MergeGet
  <2>2. cluster.canonical \in Id /\ cluster.members \in SUBSET Id
    BY DEF Cluster
  <2>3. QED
    BY <1>10, <2>1, <2>2 DEF MergeGet, Get, serverVars, callerVars, scanVars, Fresh
<1>11. CASE MergePut
  <2>1. merge.id \in Id /\ merge.got \in Record /\ merge.left \in SUBSET Id
    BY <1>11 DEF MergePut
  <2>2. bank' \in [Id -> Record]
    BY <1>11, <2>1, MergedTyped, PutRecord DEF MergePut
  <2>3. past' \in [History -> SUBSET Id] /\ Fresh'
    BY <1>11, <2>1 DEF MergePut, Overtaken, History, Fresh, Live
  <2>4. QED
    BY <1>11, <2>2, <2>3 DEF MergePut, callerVars, scanVars
<1>12. CASE MergeNext
  BY <1>12 DEF MergeNext, serverVars, callerVars, scanVars, Fresh
<1>13. ASSUME NEW d \in Id, MergeSkip(d) PROVE Typed'
  BY <1>13 DEF MergeSkip, serverVars, callerVars, scanVars, Fresh
<1>14. ASSUME NEW d \in Id, MergeDelete(d) PROVE Typed'
  BY <1>14 DEF MergeDelete, Delete, Live, callerVars, scanVars, Fresh
<1>15. CASE UNCHANGED vars
  BY <1>15 DEF vars, serverVars, callerVars, scanVars, Fresh
<1>16. QED
  BY <1>1, <1>2, <1>3, <1>4, <1>5, <1>6, <1>7, <1>8, <1>9, <1>10, <1>11, <1>12,
     <1>13, <1>14, <1>15 DEF Next, Cli, Merge

\* Every reachable state of the bank and its tools is well typed.
THEOREM TypeCorrect == Spec => []TypeOK
BY TypedInit, TypedStep, PTL DEF Spec, Typed

(***************************************************************************)
(* Nothing vanishes without a trace.                                       *)
(***************************************************************************)
\* Only a close, an update or a merge writes merged_from, and each of them keeps it
\* or is one of the exceptions.
LEMMA NamesStay ==
    ASSUME Typed, [Next]_vars, NEW c \in Id, NEW D \in SUBSET Id, Names(c, D)
    PROVE  Names(c, D)'
<1> USE DEF Typed, TypeOK, Requests, Merging
<1>1. ASSUME NEW i \in Id, NEW type \in Type, Capture(i, type) PROVE Names(c, D)'
  BY <1>1 DEF Capture, Note, History, Names, Live
<1>2. ASSUME NEW i \in Id, Remove(i) PROVE Names(c, D)'
  BY <1>2 DEF Remove, Delete, Note, History, Names, Live
<1>3. ASSUME NEW i \in Id, NEW type \in {"none", "open_item"},
             NEW status \in {"none", "in_progress"}, Update(i, type, status)
      PROVE  Names(c, D)'
  <2>1. [type |-> type, status |-> status, merged |-> {}, text |-> "edited"] \in Record
    BY DEF Record, OPEN_STATUSES
  <2>2. \A j \in Id : j # i => bank'[j] = bank[j]
    BY <1>3, <2>1, PutRecord DEF Update
  <2>3. bank'[i].merged = bank[i].merged \/ i \in past'["retagged"]
    <3>1. CASE bank'[i] = [bank[i] EXCEPT !.text = "edited"]
      BY <3>1 DEF Record
    <3>2. CASE bank'[i] # [bank[i] EXCEPT !.text = "edited"]
      BY <1>3, <3>2 DEF Update, Note, History
    <3>3. QED
      BY <3>1, <3>2
  <2>4. /\ past'["retagged"] \in {past["retagged"], past["retagged"] \cup {i}}
        /\ past'["removed"] = past["removed"] /\ past'["stale"] = past["stale"]
        /\ life' = life /\ mergedInto' = mergedInto
    BY <1>3 DEF Update, Note, History
  <2>5. QED
    BY <2>2, <2>3, <2>4 DEF Names, Live
<1>4. ASSUME NEW k \in Caller, ClosePut(k) PROVE Names(c, D)'
  <2> DEFINE i == job[k].id
             got == job[k].got
  <2>1. i \in Id /\ got \in Record /\ job[k].status \in CLOSED_STATUSES
    BY <1>4 DEF ClosePut
  <2>2. \/ bank[i] = got /\ bank'[i].merged = bank[i].merged
        \/ i \in past'["stale"]
    <3>1. CASE bank[i] = got
      <4>1. ClosedRecord(got, job[k].status).merged = bank[i].merged
        BY <2>1, <3>1, ClosedTyped
      <4>2. QED
        BY <1>4, <2>1, <3>1, <4>1, ClosedTyped, PutRecord DEF ClosePut
    <3>2. CASE bank[i] # got
      BY <1>4, <2>1, <3>2 DEF ClosePut, Overtaken, Note, History
    <3>3. QED
      BY <3>1, <3>2
  <2>3. \A j \in Id : j # i => bank'[j] = bank[j]
    BY <1>4, <2>1, ClosedTyped, PutRecord DEF ClosePut
  <2>4. /\ past["stale"] \subseteq past'["stale"]
        /\ past'["removed"] = past["removed"] /\ past'["retagged"] = past["retagged"]
        /\ life' = life /\ mergedInto' = mergedInto
    BY <1>4 DEF ClosePut, Overtaken, Note, History
  <2>5. QED
    BY <2>1, <2>2, <2>3, <2>4 DEF Names, Live
<1>5. CASE MergePut
  <2>1. merge.id \in Id /\ merge.got \in Record /\ merge.left \in SUBSET Id
    BY <1>5 DEF MergePut
  <2>2. \/ bank[merge.id].merged \subseteq bank'[merge.id].merged
        \/ merge.id \in past'["stale"]
    BY <1>5, <2>1, MergedTyped, PutRecord DEF MergePut, Overtaken, History
  <2>3. \A j \in Id : j # merge.id => bank'[j] = bank[j]
    BY <1>5, <2>1, MergedTyped, PutRecord DEF MergePut
  <2>4. /\ past["stale"] \subseteq past'["stale"]
        /\ past'["removed"] = past["removed"] /\ past'["retagged"] = past["retagged"]
        /\ life' = life /\ mergedInto' = mergedInto
    BY <1>5 DEF MergePut, Overtaken, History
  <2>5. QED
    BY <2>1, <2>2, <2>3, <2>4 DEF Names, Live
<1>6. ASSUME NEW d \in Id, MergeDelete(d) PROVE Names(c, D)'
  <2>1. merge.id # None
    BY <1>6, BankAssumption DEF MergeDelete
  <2>2. QED
    BY <1>6, <2>1 DEF MergeDelete, Delete, Names, Live
<1>7. ASSUME UNCHANGED <<life, bank, past, mergedInto>> PROVE Names(c, D)'
  BY <1>7 DEF Names, Live
<1>8. QED
  BY <1>1, <1>2, <1>3, <1>4, <1>5, <1>6, <1>7
  DEF Next, Cli, Merge, CloseFails, CloseGet, ScanList, ScanSearch, MergeStart, MergeGet,
      MergeNext, MergeEnd, MergeFails, MergeSkip, serverVars, vars

\* Announced and Traced are inductive: MergePut announces, MergeDelete deletes only
\* what was announced, and NamesStay says that no step takes an announcement back.
LEMMA TracedStep ==
    Typed /\ Announced /\ Traced /\ [Next]_vars => Announced' /\ Traced'
<1> SUFFICES ASSUME Typed, Announced, Traced, [Next]_vars PROVE Announced' /\ Traced'
  OBVIOUS
<1> USE DEF Typed, TypeOK, Merging
<1>1. Announced'
  <2>1. CASE MergePut
    <3>1. merge.id \in Id /\ merge.got \in Record /\ merge.left \in SUBSET Id
      BY <2>1 DEF MergePut
    <3>2. merge.left \subseteq bank'[merge.id].merged \/ merge.id \in past'["stale"]
      BY <2>1, <3>1, MergedTyped, PutRecord DEF MergePut, Overtaken, History
    <3>3. merge'.id = merge.id /\ merge'.left = merge.left /\ merge.id \in Live'
      BY <2>1 DEF MergePut, Live
    <3>4. QED
      BY <3>2, <3>3 DEF Announced, Names
  <2>2. CASE ~MergePut /\ merge'.at = "delete"
    <3>1. /\ merge.at = "delete" /\ merge'.id = merge.id
          /\ merge'.left \subseteq merge.left
      <4>1. CASE UNCHANGED merge
        BY <2>2, <4>1
      <4>2. CASE MergeStart \/ MergeGet \/ MergeNext \/ MergeEnd \/ MergeFails
        <5>1. ASSUME MergeStart \/ MergeEnd \/ MergeFails PROVE merge'.at # "delete"
          <6>1. MergeStart => merge'.at = "next"
            BY DEF MergeStart, NoMerge
          <6>2. MergeEnd \/ MergeFails => merge'.at = "off"
            BY DEF MergeEnd, MergeFails, NoMerge
          <6>3. QED
            BY <5>1, <6>1, <6>2
        <5>2. ASSUME MergeGet \/ MergeNext PROVE merge'.at # "delete"
          BY <5>2 DEF MergeGet, MergeNext
        <5>3. QED
          BY <2>2, <4>2, <5>1, <5>2
      <4>3. ASSUME NEW d \in Id, MergeSkip(d) \/ MergeDelete(d)
            PROVE  /\ merge.at = "delete" /\ merge'.id = merge.id
                   /\ merge'.left \subseteq merge.left
        BY <4>3 DEF MergeSkip, MergeDelete
      <4>4. CASE Cli
        BY <4>1, <4>4 DEF Cli, Capture, Remove, Update, ClosePut, CloseFails, CloseGet
      <4>5. CASE ScanList \/ ScanSearch \/ UNCHANGED vars
        BY <4>1, <4>5 DEF ScanList, ScanSearch, vars
      <4>6. QED
        BY <2>2, <4>2, <4>3, <4>4, <4>5 DEF Next, Merge
    <3>2. PICK c \in Id, D \in SUBSET Id : c = merge.id /\ D = merge.left
      BY <3>1
    <3>3. Names(c, D)'
      BY <3>1, <3>2, NamesStay DEF Announced
    <3>4. QED
      BY <3>1, <3>2, <3>3 DEF Announced, Names
  <2>3. QED
    BY <2>1, <2>2 DEF Announced
<1>2. ASSUME NEW d \in Id, mergedInto'[d] # None PROVE Names(mergedInto[d], {d})'
  <2>1. CASE MergeDelete(d)
    <3>1. PICK c \in Id : c = merge.id /\ c = mergedInto'[d]
      BY <2>1 DEF MergeDelete
    <3>2. Names(c, {d})
      BY <2>1, <3>1 DEF MergeDelete, Announced, Names
    <3>3. Names(c, {d})'
      BY <3>2, NamesStay
    <3>4. QED
      BY <3>1, <3>3
  <2>2. CASE ~MergeDelete(d)
    <3>1. mergedInto'[d] = mergedInto[d]
      BY <2>2 DEF Next, Cli, Merge, Capture, Remove, Update, ClosePut, CloseFails,
           CloseGet, ScanList, ScanSearch, MergeStart, MergeGet, MergePut, MergeNext,
           MergeEnd, MergeFails, MergeSkip, MergeDelete, vars
    <3>2. PICK c \in Id : c = mergedInto[d]
      BY <1>2, <3>1
    <3>3. Names(c, {d})'
      BY <1>2, <3>1, <3>2, NamesStay DEF Traced
    <3>4. QED
      BY <3>1, <3>2, <3>3
  <2>3. QED
    BY <2>1, <2>2
<1>3. Traced'
  BY <1>2 DEF Traced
<1>4. QED
  BY <1>1, <1>3

\* Whatever a merge deleted is named by the record it went into, for any report,
\* any interleaving and any failed or repeated merge (memory_compaction.py:200-222).
THEOREM NoTraceLost == Spec => []MergeAccounted
<1>1. Init => Announced /\ Traced
  BY DEF Init, Announced, Traced, NoMerge
<1>2. Typed /\ Traced => MergeAccounted
  BY DEF Traced, Names, MergeAccounted, Typed, TypeOK
<1>3. QED
  BY <1>1, <1>2, TypedInit, TypedStep, TracedStep, PTL DEF Spec

(***************************************************************************)
(* What the agenda shows, and the texts that were edited.                  *)
(***************************************************************************)
\* AgendaExact and EditsSurvive for the records that are there, where they are
\* inductive ...
AgendaOfLive ==
    \A i \in Live \ (past["stale"] \cup past["retagged"]) :
        i \in OpenItems <=> i \in past["opened"] \ past["closed"]

EditsOfLive ==
    \A i \in (Live \cap past["edited"]) \ past["stale"] : bank[i].text = "edited"

\* ... and for those that are not: a caller deleted them, or a merge did.
Departed ==
    \A i \in Id : life[i] = "gone" => i \in past["removed"] \/ mergedInto[i] # None

\* Departed is inductive: two actions delete, and each leaves its mark.
LEMMA DepartedStep == Typed /\ Departed /\ [Next]_vars => Departed'
<1> SUFFICES ASSUME Typed, Departed, [Next]_vars PROVE Departed'
  OBVIOUS
<1> USE DEF Typed, TypeOK, Merging, Departed
<1>1. ASSUME NEW j \in Id, NEW type \in Type, Capture(j, type) PROVE Departed'
  BY <1>1 DEF Capture, Note, History
<1>2. ASSUME NEW j \in Id, Remove(j) PROVE Departed'
  BY <1>2 DEF Remove, Delete, Note, History
<1>3. ASSUME NEW j \in Id, NEW type \in {"none", "open_item"},
             NEW status \in {"none", "in_progress"}, Update(j, type, status)
      PROVE  Departed'
  BY <1>3 DEF Update, Note, History
<1>4. ASSUME NEW c \in Caller, ClosePut(c) PROVE Departed'
  BY <1>4 DEF ClosePut, Note, History
<1>5. CASE MergePut
  BY <1>5 DEF MergePut, History
<1>6. ASSUME NEW d \in Id, MergeDelete(d) PROVE Departed'
  <2>1. merge.id # None
    BY <1>6, BankAssumption DEF MergeDelete
  <2>2. QED
    BY <1>6, <2>1 DEF MergeDelete, Delete
<1>7. ASSUME UNCHANGED <<life, past, mergedInto>> PROVE Departed'
  BY <1>7
<1>8. QED
  BY <1>1, <1>2, <1>3, <1>4, <1>5, <1>6, <1>7
  DEF Next, Cli, Merge, CloseFails, CloseGet, ScanList, ScanSearch, MergeStart, MergeGet,
      MergeNext, MergeEnd, MergeFails, MergeSkip, serverVars, vars

\* AgendaOfLive is inductive: the steps that change a type or a status are a capture,
\* a close, and those that put the record into stale or retagged.
LEMMA AgendaStep == Typed /\ AgendaOfLive /\ [Next]_vars => AgendaOfLive'
<1> SUFFICES ASSUME Typed, AgendaOfLive, [Next]_vars,
                    NEW i \in Id, i \in Live', i \notin past'["stale"],
                    i \notin past'["retagged"]
             PROVE  (i \in OpenItems <=> i \in past["opened"] \ past["closed"])'
  BY DEF AgendaOfLive, Live
<1> USE DEF Typed, TypeOK, Requests, Merging
<1>1. ASSUME i \in Live, bank'[i].type = bank[i].type,
             bank'[i].status = bank[i].status,
             \A h \in {"opened", "closed"} : i \in past'[h] <=> i \in past[h],
             i \notin past["stale"] \cup past["retagged"]
      PROVE  (i \in OpenItems <=> i \in past["opened"] \ past["closed"])'
  <2>1. i \in OpenItems <=> i \in past["opened"] \ past["closed"]
    BY <1>1 DEF AgendaOfLive
  <2>2. QED
    BY <1>1, <2>1 DEF OpenItems
<1>2. ASSUME NEW j \in Id, NEW type \in Type, Capture(j, type)
      PROVE  (i \in OpenItems <=> i \in past["opened"] \ past["closed"])'
  <2>1. CASE i = j
    <3>1. bank'[i] = Captured(type) /\ past'["closed"] = past["closed"]
      BY <1>2, <2>1 DEF Capture, Note, History
    <3>2. i \notin past["closed"] /\ i \notin past["opened"]
      BY <1>2, <2>1 DEF Capture, Fresh, History
    <3>3. i \in past'["opened"] <=> type = "open_item"
      BY <1>2, <2>1, <3>2 DEF Capture, Note, History
    <3>4. QED
      BY <3>1, <3>2, <3>3, CapturedTyped DEF OpenItems
  <2>2. CASE i # j
    BY <1>1, <1>2, <2>2 DEF Capture, Note, History, Live
  <2>3. QED
    BY <2>1, <2>2
<1>3. ASSUME NEW j \in Id, Remove(j)
      PROVE  (i \in OpenItems <=> i \in past["opened"] \ past["closed"])'
  BY <1>1, <1>3 DEF Remove, Delete, Note, History, Live
<1>4. ASSUME NEW j \in Id, NEW type \in {"none", "open_item"},
             NEW status \in {"none", "in_progress"}, Update(j, type, status)
      PROVE  (i \in OpenItems <=> i \in past["opened"] \ past["closed"])'
  <2>1. [type |-> type, status |-> status, merged |-> {}, text |-> "edited"] \in Record
    BY DEF Record, OPEN_STATUSES
  <2>2. \A k \in Id : k # j => bank'[k] = bank[k]
    BY <1>4, <2>1, PutRecord DEF Update
  <2>3. i = j => bank'[i] = [bank[i] EXCEPT !.text = "edited"]
    BY <1>4 DEF Update, Note, History
  <2>4. bank'[i].type = bank[i].type /\ bank'[i].status = bank[i].status
    BY <2>2, <2>3 DEF Record
  <2>5. QED
    BY <1>1, <1>4, <2>4 DEF Update, Note, History, Live
<1>5. ASSUME NEW c \in Caller, ClosePut(c)
      PROVE  (i \in OpenItems <=> i \in past["opened"] \ past["closed"])'
  <2> DEFINE j == job[c].id
             got == job[c].got
  <2>1. j \in Id /\ got \in Record /\ job[c].status \in CLOSED_STATUSES
    BY <1>5 DEF ClosePut
  <2>2. CASE i = j
    <3>1. bank'[i].status \in CLOSED_STATUSES
      BY <1>5, <2>1, <2>2, ClosedTyped, PutRecord DEF ClosePut
    <3>2. i \in past'["closed"]
      BY <1>5, <2>1, <2>2 DEF ClosePut, Note, History
    <3>3. QED
      BY <3>1, <3>2 DEF OpenItems
  <2>3. CASE i # j
    <3>1. bank'[i] = bank[i]
      BY <1>5, <2>1, <2>3, ClosedTyped, PutRecord DEF ClosePut
    <3>2. QED
      BY <1>1, <1>5, <2>1, <2>3, <3>1 DEF ClosePut, Note, Overtaken, History, Live
  <2>4. QED
    BY <2>2, <2>3
<1>6. CASE MergePut
  <2>1. merge.id \in Id /\ merge.got \in Record /\ merge.left \in SUBSET Id
    BY <1>6 DEF MergePut
  <2>2. i = merge.id => bank[i] = merge.got
    BY <1>6, <2>1 DEF MergePut, Overtaken, History
  <2>3. bank'[i].type = bank[i].type /\ bank'[i].status = bank[i].status
    BY <1>6, <2>1, <2>2, MergedTyped, PutRecord DEF MergePut
  <2>4. QED
    BY <1>1, <1>6, <2>1, <2>3 DEF MergePut, Overtaken, History, Live
<1>7. ASSUME NEW d \in Id, MergeDelete(d)
      PROVE  (i \in OpenItems <=> i \in past["opened"] \ past["closed"])'
  BY <1>1, <1>7 DEF MergeDelete, Delete, Live
<1>8. ASSUME UNCHANGED <<life, bank, past>>
      PROVE  (i \in OpenItems <=> i \in past["opened"] \ past["closed"])'
  BY <1>1, <1>8 DEF Live
<1>9. QED
  BY <1>2, <1>3, <1>4, <1>5, <1>6, <1>7, <1>8
  DEF Next, Cli, Merge, CloseFails, CloseGet, ScanList, ScanSearch, MergeStart, MergeGet,
      MergeNext, MergeEnd, MergeFails, MergeSkip, serverVars, vars

\* EditsOfLive is inductive.
LEMMA EditsStep == Typed /\ EditsOfLive /\ [Next]_vars => EditsOfLive'
<1> SUFFICES ASSUME Typed, EditsOfLive, [Next]_vars,
                    NEW i \in Id, i \in Live', i \in past'["edited"], i \notin past'["stale"]
             PROVE  bank'[i].text = "edited"
  BY DEF EditsOfLive, Live
<1> USE DEF Typed, TypeOK, Requests, Merging
<1>1. ASSUME i \in Live, bank'[i].text = bank[i].text, i \in past["edited"],
             i \notin past["stale"]
      PROVE  bank'[i].text = "edited"
  BY <1>1 DEF EditsOfLive
<1>2. ASSUME NEW j \in Id, NEW type \in Type, Capture(j, type)
      PROVE  bank'[i].text = "edited"
  <2>1. i \in past["edited"] /\ i \notin past["stale"]
    BY <1>2 DEF Capture, Note, History
  <2>2. i # j
    BY <1>2, <2>1 DEF Capture, Fresh, History
  <2>3. QED
    BY <1>1, <1>2, <2>1, <2>2 DEF Capture, Live
<1>3. ASSUME NEW j \in Id, Remove(j) PROVE bank'[i].text = "edited"
  BY <1>1, <1>3 DEF Remove, Delete, Note, History, Live
<1>4. ASSUME NEW j \in Id, NEW type \in {"none", "open_item"},
             NEW status \in {"none", "in_progress"}, Update(j, type, status)
      PROVE  bank'[i].text = "edited"
  <2>1. [type |-> type, status |-> status, merged |-> {}, text |-> "edited"] \in Record
    BY DEF Record, OPEN_STATUSES
  <2>2. i # j => bank'[i] = bank[i]
    BY <1>4, <2>1, PutRecord DEF Update
  <2>3. i = j => bank'[i].text = "edited"
    BY <1>4, <2>1, PutRecord DEF Update
  <2>4. QED
    BY <1>1, <1>4, <2>2, <2>3 DEF Update, Note, History, Live
<1>5. ASSUME NEW c \in Caller, ClosePut(c) PROVE bank'[i].text = "edited"
  <2> DEFINE j == job[c].id
             got == job[c].got
  <2>1. j \in Id /\ got \in Record /\ job[c].status \in CLOSED_STATUSES
    BY <1>5 DEF ClosePut
  <2>2. i = j => bank[i] = got
    BY <1>5, <2>1 DEF ClosePut, Overtaken, Note, History
  <2>3. bank'[i].text = bank[i].text
    BY <1>5, <2>1, <2>2, ClosedTyped, PutRecord DEF ClosePut
  <2>4. QED
    BY <1>1, <1>5, <2>1, <2>3 DEF ClosePut, Overtaken, Note, History, Live
<1>6. CASE MergePut
  <2>1. merge.id \in Id /\ merge.got \in Record /\ merge.left \in SUBSET Id
    BY <1>6 DEF MergePut
  <2>2. i = merge.id => bank[i] = merge.got
    BY <1>6, <2>1 DEF MergePut, Overtaken, History
  <2>3. bank'[i].text = bank[i].text
    BY <1>6, <2>1, <2>2, MergedTyped, PutRecord DEF MergePut
  <2>4. QED
    BY <1>1, <1>6, <2>1, <2>3 DEF MergePut, Overtaken, History, Live
<1>7. ASSUME NEW d \in Id, MergeDelete(d) PROVE bank'[i].text = "edited"
  BY <1>1, <1>7 DEF MergeDelete, Delete, Live
<1>8. ASSUME UNCHANGED <<life, bank, past>> PROVE bank'[i].text = "edited"
  BY <1>1, <1>8 DEF Live
<1>9. QED
  BY <1>2, <1>3, <1>4, <1>5, <1>6, <1>7, <1>8
  DEF Next, Cli, Merge, CloseFails, CloseGet, ScanList, ScanSearch, MergeStart, MergeGet,
      MergeNext, MergeEnd, MergeFails, MergeSkip, serverVars, vars

\* An open item leaves the agenda when it is closed or deleted, by a caller or by a
\* merge, and a closed one never comes back, but for the two races that AgendaExact
\* names (memory.py:437-500, memory_compaction.py:200-222).
THEOREM AgendaFaithful == Spec => []AgendaExact
<1>1. Init => AgendaOfLive /\ Departed
  <2> SUFFICES ASSUME Init
               PROVE  /\ \A i \in Live : i \in OpenItems <=> i \in past["opened"] \ past["closed"]
                      /\ \A i \in Id : life[i] # "gone"
    BY DEF AgendaOfLive, Departed
  <2>1. PICK type \in [Id -> Type] :
          /\ bank = [k \in Id |-> IF k \in Seeded THEN Captured(type[k]) ELSE Blank]
          /\ past = [h \in History |->
                IF h = "opened" THEN {k \in Seeded : type[k] = "open_item"} ELSE {}]
    BY DEF Init
  <2>2. ASSUME NEW i \in Live PROVE i \in OpenItems <=> i \in past["opened"] \ past["closed"]
    <3>1. i \in Id /\ i \in Seeded
      BY DEF Init, Live
    <3>2. bank[i] = Captured(type[i]) /\ type[i] \in Type
      BY <2>1, <3>1
    <3>3. i \in past["opened"] \ past["closed"] <=> type[i] = "open_item"
      BY <2>1, <3>1 DEF History
    <3>4. QED
      BY <3>2, <3>3, CapturedTyped DEF OpenItems
  <2>3. QED
    BY <2>2 DEF Init
<1>2. Typed /\ AgendaOfLive /\ Departed => AgendaExact
  <2> SUFFICES ASSUME Typed, AgendaOfLive, Departed,
                      NEW i \in Id, i \notin past["stale"] \cup past["retagged"]
               PROVE  /\ i \in OpenItems => i \in past["opened"] \ past["closed"]
                      /\ i \in past["opened"] \ (past["closed"] \cup past["removed"]) =>
                            i \in OpenItems \/ mergedInto[i] # None
    BY DEF AgendaExact
  <2>1. CASE i \in Live
    BY <2>1 DEF AgendaOfLive
  <2>2. CASE i \notin Live
    <3>1. i \notin OpenItems
      BY <2>2 DEF OpenItems
    <3>2. i \in past["opened"] => life[i] = "gone"
      BY <2>2 DEF Typed, TypeOK, Fresh, History, Live
    <3>3. QED
      BY <3>1, <3>2 DEF Departed
  <2>3. QED
    BY <2>1, <2>2
<1>3. QED
  BY <1>1, <1>2, TypedInit, TypedStep, AgendaStep, DepartedStep, PTL DEF Spec

\* An edited text survives closes and merges that read the record as it is, until
\* the record itself is deleted, by a caller or as a member by a merge.
THEOREM EditsKept == Spec => []EditsSurvive
<1>1. Init => EditsOfLive /\ Departed
  BY DEF Init, EditsOfLive, Departed, History
<1>2. Typed /\ EditsOfLive /\ Departed => EditsSurvive
  <2> SUFFICES ASSUME Typed, EditsOfLive, Departed,
                      NEW i \in past["edited"] \ (past["stale"] \cup past["removed"])
               PROVE  \/ i \in Live /\ bank[i].text = "edited"
                      \/ mergedInto[i] # None
    BY DEF EditsSurvive
  <2>1. i \in Id /\ life[i] \in {"live", "gone"}
    BY DEF Typed, TypeOK, Fresh, History
  <2>2. QED
    BY <2>1 DEF EditsOfLive, Departed, Live
<1>3. QED
  BY <1>1, <1>2, TypedInit, TypedStep, EditsStep, DepartedStep, PTL DEF Spec
=============================================================================
