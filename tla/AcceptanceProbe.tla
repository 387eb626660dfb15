-------------------------- MODULE AcceptanceProbe --------------------------
(***************************************************************************)
(* scripts/acceptance_probe.py: imports throwaway facts through            *)
(* import_facts, looks each of them up, asks three contract queries through *)
(* memory/retrieval.py, deletes what it had looked up, and reports.  It     *)
(* composes BulkImport (its import) and so IdempotentWrite (each write):    *)
(* every remote call is a step, so that a POST given up on may be committed *)
(* between any two of them.                                                 *)
(*                                                                         *)
(* A record is known by its request, its text and event date by its         *)
(* external id, through Told and EventDate.  The bank also holds records     *)
(* that are no probe's, fewer than 50 of them open.                         *)
(***************************************************************************)
EXTENDS BulkImport, Integers

CONSTANTS
    Prober,
    Told,       \* external id -> the phrases of its text that are asked about
    EventDate,  \* external id -> its event date
    Latest,     \* the id whose text the recency query expects
    OpenItem,   \* PROBE_OPEN_ID
    Unreliable  \* the stages in which a search of the probe may raise

\* Project Alpha, Jordan, the project contact, the team lead's sibling.
Asked == {"alpha", "jordan", "contact", "sibling"}

\* The ids of the facts whose text says so.
Telling(phrase) == {e \in Ext : phrase \in Told[e]}

\* The facts whose text names the project contact, and not the sibling.
Contact == Telling("jordan") \cap Telling("contact")

ASSUME ProbeAssumption ==
    /\ Prober \in Importer
    /\ {Latest, OpenItem} \cup Contact \subseteq {Facts[i] : i \in DOMAIN Facts}
    /\ Contact # {}

\* The facts as probe_facts writes them, each under an id of its own: the newest
\* of those about the project is the one expected, and who is no sibling is told
\* from who is.
ASSUME FactsAssumption ==
    /\ \A i, j \in DOMAIN Facts : Facts[i] = Facts[j] => i = j
    /\ Told \in [Ext -> SUBSET Asked]
    /\ EventDate \in [Ext -> Nat]
    /\ Latest \in Telling("alpha")
    /\ \A e \in Telling("alpha") \ {Latest} : EventDate[e] < EventDate[Latest]
    /\ Contact \cap Telling("sibling") = {}

VARIABLES
    stage,      \* where the process is in run_probe, "off" outside it
    next,       \* within a stage: 0 for its search, i for the ith id
    hits,       \* probe records the stage's search may have returned
    pool,       \* records fetched by id in this stage
    mids,       \* memory_ids: what is to be deleted
    ok,         \* every query so far passed
    result,     \* of the last run: its exit, "dry" or "aborted"
    \* History variables.
    missed,     \* ids whose record the lookup before deletion failed to see
    blind,      \* a search failed to show a query a stored record
    late,       \* records committed after this run had looked for their id
    there       \* ids found in the bank by some lookup of this run

stageVars == <<stage, next, hits, pool, mids, ok, result>>
seenVars == <<missed, blind, there>>
probeVars == <<stageVars, seenVars, late>>
everyVar == <<allVars, probeVars>>

Query == {"recency", "vector", "entity"}

ProbeTypeOK ==
    /\ stage \in {"off", "import", "collect", "followup", "scan", "cleanup"} \cup Query
    /\ next \in 0..(Len(Facts) + 1)
    /\ hits \cup pool \cup mids \cup late \subseteq Req
    /\ ok \in BOOLEAN
    /\ result \in {"none", "dry", "pass", "fail", "aborted"}
    /\ missed \cup there \subseteq Ext
    /\ blind \in BOOLEAN
    /\ stage \in {"off", "import"} => hits \cup pool \cup mids = {}
    /\ \A r, s \in pool : KeyOf[r] = KeyOf[s] => r = s
    /\ stage = "import" <=> phase[Prober] \in {"fact", "search", "call"}

ProbeInit ==
    /\ ImportInit
    /\ stage = "off"
    /\ next = 0
    /\ hits = {} /\ pool = {} /\ mids = {}
    /\ ok = TRUE
    /\ result = "none"
    /\ missed = {} /\ late = {} /\ there = {}
    /\ blind = FALSE

-----------------------------------------------------------------------------
Id(i) == Facts[i]

Keys(records) == {KeyOf[r] : r \in records}

Stay(label) == stage = label /\ UNCHANGED <<allVars, late>>

Enter(label, first) ==
    /\ stage' = label
    /\ next' = first
    /\ hits' = {}
    /\ pool' = {}

\* The process ends.
End(how) ==
    /\ Enter("off", 0)
    /\ mids' = {}
    /\ ok' = TRUE
    /\ result' = how

\* An exception or a kill; what the run had seen no longer matters.
Fail ==
    /\ End("aborted")
    /\ missed' = {} /\ late' = {} /\ there' = {}
    /\ blind' = FALSE

\* --dry-run writes and asks nothing, and exits 0.
DryRun ==
    /\ Stay("off")
    /\ End("dry")
    /\ UNCHANGED seenVars

StartProbe ==
    /\ stage = "off"
    /\ Begin(Prober)
    /\ ~dry'[Prober]
    /\ Enter("import", 0)
    /\ mids' = {}
    /\ ok' = TRUE
    /\ result' = "none"
    /\ missed' = {} /\ late' = {} /\ there' = {}
    /\ blind' = FALSE

\* import_facts returns its outcomes, which nothing looks at, or raises.
Import ==
    /\ stage = "import"
    /\ ImportStep(Prober)
    /\ CASE phase'[Prober] = "off" ->
               /\ Enter("collect", 1)
               /\ UNCHANGED <<mids, ok, result, seenVars, late>>
         [] phase'[Prober] = "aborted" -> Fail
         [] OTHER -> UNCHANGED probeVars

\* fetch_by_external_id of the next id; a search that raises is a miss.
Fetch ==
    /\ stage \in {"collect"} \cup Query
    /\ next \in DOMAIN Facts
    /\ LET stored == bank \cap Of(Id(next)) IN
          \/ /\ \E r \in stored : pool' = pool \cup {r}
             /\ there' = there \cup {Id(next)}
             /\ UNCHANGED <<missed, blind>>
          \/ /\ stored = {} \/ stage \in Unreliable
             /\ IF stage = "collect"
                THEN /\ missed' = missed \cup Keys(stored)
                     /\ UNCHANGED blind
                ELSE /\ blind' = (blind \/ stored # {})
                     /\ UNCHANGED missed
             /\ UNCHANGED <<pool, there>>
    /\ next' = next + 1
    /\ UNCHANGED <<allVars, stage, hits, mids, ok, result, late>>

Collected ==
    /\ Stay("collect")
    /\ next > Len(Facts)
    /\ mids' = pool
    /\ Enter("recency", 0)
    /\ UNCHANGED <<ok, result, seenVars>>

\* The similarity search of a query: top_k of the whole bank, so any of the
\* probe's records that are in the bank now.
Ask ==
    /\ stage \in Query
    /\ next = 0
    /\ hits' = bank
    /\ next' = 1
    /\ UNCHANGED <<allVars, stage, pool, mids, ok, result, seenVars, late>>

\* Mutant of Merged: search_with_contract returns the hits it searched for.
VectorOnly(scanned, ranked) == ranked

\* What search_with_contract returns: the records fetched by id; failing that
\* those of a list scan; failing that the hits, all cut to the prefix.  The
\* pool fits the cut at max(top_k, len(pool)).
Merged(scanned, ranked) ==
    IF pool # {} THEN pool ELSE IF scanned # {} THEN scanned ELSE ranked

\* latest_by_event_date: never the time a record was created at.
Newest(records) ==
    {r \in records : \A q \in records : EventDate[KeyOf[q]] <= EventDate[KeyOf[r]]}

\* entity_disambiguation_score for the query about the project contact.
Score(e) == (IF e \in Telling("contact") THEN 10 ELSE 0)
                - (IF e \in Telling("sibling") THEN 8 ELSE 0)

\* best_entity_match
Best(records) ==
    LET scoped == {r \in records : KeyOf[r] \in Telling("jordan")}
    IN  {r \in scoped : \A q \in scoped : Score(KeyOf[q]) <= Score(KeyOf[r])}

\* Mutant of Passed: no wrong answer is as good as the right one.
PassedUnlessWrong(records) ==
    CASE stage = "recency" ->
             \A r \in Newest({q \in records : KeyOf[q] \in Telling("alpha")}) :
                 KeyOf[r] = Latest
      [] stage = "entity" ->
             \A r \in Best(records) : KeyOf[r] \in Contact \ Telling("sibling")
      [] OTHER -> TRUE

\* What each query makes of its answer; max() takes one of several that are
\* equal.  The second search of query_structured_filter is only reported.
Passed(records) ==
    CASE stage = "recency" ->
             \E r \in Newest({q \in records : KeyOf[q] \in Telling("alpha")}) :
                 KeyOf[r] = Latest
      [] stage = "entity" ->
             \E r \in Best(records) : KeyOf[r] \in Contact \ Telling("sibling")
      [] OTHER -> TRUE

AfterQuery == CASE stage = "recency" -> "followup"
                [] stage = "vector" -> "entity"
                [] OTHER -> "cleanup"

\* Mutant of Judge: a failed query ends the run.
JudgeAndStop ==
    /\ stage \in Query
    /\ next > Len(Facts)
    /\ \E scanned \in Listing, ranked \in SUBSET hits :
          LET answer == Merged(scanned, ranked) IN
          /\ ok' = (ok /\ Passed(answer))
          /\ there' = there \cup Keys(answer)
    /\ IF ok' THEN /\ Enter(AfterQuery, IF AfterQuery = "cleanup" THEN 1 ELSE 0)
                   /\ UNCHANGED <<mids, result>>
              ELSE Enter("off", 0) /\ mids' = {} /\ result' = "fail"
    /\ UNCHANGED <<allVars, missed, blind, late>>

Judge ==
    /\ stage \in Query
    /\ next > Len(Facts)
    /\ \E scanned \in Listing, ranked \in SUBSET hits :
          LET answer == Merged(scanned, ranked) IN
          /\ ok' = (ok /\ Passed(answer))
          /\ there' = there \cup Keys(answer)
    /\ Enter(AfterQuery, IF AfterQuery = "cleanup" THEN 1 ELSE 0)
    /\ UNCHANGED <<allVars, mids, result, missed, blind, late>>

\* open_follow_ups: a search filtered on open items ...
FollowUp ==
    /\ Stay("followup")
    /\ LET stored == bank \cap Of(OpenItem) IN
          \/ /\ stored # {}
             /\ Enter("vector", 0)
             /\ there' = there \cup {OpenItem}
             /\ UNCHANGED <<ok, blind>>
          \/ /\ stored = {}             \* only open items that are not its own
             /\ Enter("vector", 0)
             /\ ok' = FALSE
             /\ UNCHANGED <<blind, there>>
          \/ /\ stored = {} \/ stage \in Unreliable
             /\ blind' = (blind \/ stored # {})
             /\ Enter("scan", 0)
             /\ UNCHANGED <<ok, there>>
    /\ UNCHANGED <<mids, result, missed>>

\* ... and a list scan if that found nothing or raised.
Scan ==
    /\ Stay("scan")
    /\ \E items \in Listing :
          LET mine == items \cap Of(OpenItem) IN
          /\ ok' = (ok /\ mine # {})
          /\ there' = there \cup Keys(mine)
    /\ Enter("vector", 0)
    /\ UNCHANGED <<mids, result, missed, blind>>

\* A search of search_with_contract or a list that raises ends the probe
\* without clean-up.
QueryRaises ==
    /\ \/ stage \in Query /\ next = 0 /\ stage \in Unreliable
       \/ stage \in Query /\ next > Len(Facts) /\ pool = {} /\ "list" \in Faults
       \/ stage = "scan" /\ "list" \in Faults
    /\ Fail
    /\ UNCHANGED allVars

\* One turn of the deletion loop, or none for an id that was not collected.
\* A record that is gone answers 404.
Erase ==
    /\ stage = "cleanup"
    /\ next \in DOMAIN Facts
    /\ LET r == mids \cap Of(Id(next)) IN
          /\ r \subseteq bank
          /\ bank' = bank \ r
    /\ next' = next + 1
    /\ UNCHANGED <<clientVars, cacheVars, flight, historyVars, importVars>>
    /\ UNCHANGED <<stage, hits, pool, mids, ok, result, seenVars, late>>

\* A DELETE that raises, whether or not the server carried it out.
EraseRaises ==
    /\ stage = "cleanup"
    /\ next \in DOMAIN Facts
    /\ LET r == mids \cap Of(Id(next)) IN
          /\ r # {}
          /\ "post" \in Faults \/ r \cap bank = {}
          /\ bank' \in {bank, bank \ r}
    /\ Fail
    /\ UNCHANGED <<clientVars, cacheVars, flight, historyVars, importVars>>

Report ==
    /\ Stay("cleanup")
    /\ next > Len(Facts)
    /\ End(IF ok THEN "pass" ELSE "fail")
    /\ UNCHANGED seenVars

\* The probe is killed anywhere.
KillProbe ==
    /\ "crash" \in Faults
    /\ \/ stage = "import" /\ Kill(Prober)
       \/ stage \notin {"off", "import"} /\ UNCHANGED allVars
    /\ Fail

\* This run no longer looks for e in order to delete it.
LookedFor(e) ==
    CASE stage = "import" -> FALSE
      [] stage = "collect" -> \A i \in DOMAIN Facts : Id(i) = e => i < next
      [] OTHER -> result # "aborted"

World(r) ==
    /\ Server(r)
    /\ late' = IF r \in bank' \ bank /\ LookedFor(KeyOf[r])
               THEN late \cup {r} ELSE late
    /\ UNCHANGED <<importVars, stageVars, seenVars>>

ProbeStep ==
    \/ Import \/ Fetch \/ Collected \/ Ask \/ Judge \/ FollowUp \/ Scan
    \/ QueryRaises \/ Erase \/ EraseRaises \/ Report

ProbeNext ==
    \/ DryRun \/ StartProbe \/ ProbeStep \/ KillProbe
    \/ \E r \in Req : World(r)

ProbeSpec == ProbeInit /\ [][ProbeNext]_everyVar

\* run_probe is one thread in which every wait is bounded.
ProbeFairSpec == ProbeSpec /\ WF_everyVar(ProbeStep)

-----------------------------------------------------------------------------
(* Properties.                                                             *)

\* The probe passes only if one of its own lookups, during this run, found the
\* fact each query is about: no failed search, no empty answer and no other
\* record counts as a pass.
PassMeansFound ==
    result = "pass" => /\ {Latest, OpenItem} \subseteq there
                       /\ Contact \cap there # {}

\* The probe fails only for a reason: its import could not account for a fact,
\* or a failed search hid a record from a query.  Whatever else is in the bank,
\* however the similarity search ranks it, and whatever an earlier run left
\* behind or a late POST adds, a working write and read path passes.  (The
\* server extracts a record from every fact and nobody else deletes the
\* probe's; list scans may be capped.)
NoFalseAlarm ==
    result = "fail" /\ Faults \cap {"delete", "empty"} = {} =>
        exit[Prober] = "failed" \/ blind

\* A run that completes leaves no probe record in the bank, its own or one
\* that an aborted or killed run before it left, except a record that was
\* committed after it had looked, a duplicate of an id on which SingleRecord
\* was lifted (one record per id is looked up), or one its lookup missed.
CleanAfterRun ==
    result \in {"pass", "fail"} /\ stage = "off" =>
        \A r \in bank :
            \/ r \in late
            \/ KeyOf[r] \in contested \cup hidden \cup missed
=============================================================================
