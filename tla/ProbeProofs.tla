----------------------------- MODULE ProbeProofs -----------------------------
(***************************************************************************)
(* Theorems about AcceptanceProbe, for any facts, any number of requests   *)
(* and any combination of failures: what the probe's exit code says, and   *)
(* what it leaves in the bank.                                             *)
(***************************************************************************)
EXTENDS AcceptanceProbe, ImportProofs

(***************************************************************************)
(* The probe is an import, and otherwise only takes records away.          *)
(***************************************************************************)
Shrink ==
    /\ bank' \subseteq bank
    /\ UNCHANGED <<clientVars, cacheVars, flight, historyVars, importVars>>

LEMMA ProbeImportsOrErases ==
    [ProbeNext]_everyVar => [ImportNext]_allVars \/ Erase \/ EraseRaises
<1> SUFFICES ASSUME [ProbeNext]_everyVar PROVE [ImportNext]_allVars \/ Erase \/ EraseRaises
  OBVIOUS
<1> USE ProbeAssumption
<1>1. CASE StartProbe
  BY <1>1 DEF StartProbe, ImportNext
<1>2. CASE Import
  BY <1>2 DEF Import, ImportNext
<1>3. CASE KillProbe
  BY <1>3 DEF KillProbe, ImportNext
<1>4. ASSUME NEW r \in Req, World(r) PROVE ImportNext
  BY <1>4 DEF World, ImportNext
<1>5. CASE DryRun \/ Fetch \/ Collected \/ Ask \/ Judge
  BY <1>5 DEF DryRun, Stay, Fetch, Collected, Ask, Judge
<1>6. CASE FollowUp \/ Scan \/ QueryRaises \/ Report
  BY <1>6 DEF FollowUp, Scan, QueryRaises, Report, Stay
<1>7. CASE UNCHANGED everyVar
  BY <1>7 DEF everyVar
<1>8. QED
  BY <1>1, <1>2, <1>3, <1>4, <1>5, <1>6, <1>7 DEF ProbeNext, ProbeStep

LEMMA ProbeIsImport == [ProbeNext]_everyVar => [ImportNext]_allVars \/ Shrink
<1>1. Erase \/ EraseRaises => Shrink
  BY DEF Erase, EraseRaises, Shrink
<1>2. QED
  BY <1>1, ProbeImportsOrErases

LEMMA ShrinkKeeps == Calls /\ Runs /\ Shrink => Calls' /\ Runs'
<1> SUFFICES ASSUME Calls, Runs, Shrink PROVE Calls' /\ Runs'
  OBVIOUS
<1> USE DEF Calls, Shrink, clientVars, cacheVars, historyVars, importVars
<1>1. Typed'
  BY DEF Typed, TypeOK, CallState, Busy, Of
<1>2. SettledCalls'
  BY DEF SettledCalls, Undisturbed, Live, InFlight, Busy, Of
<1>3. Evidence' /\ Own'
  BY DEF Evidence, HonestVerdict, Own, Busy, Of
<1>4. ImportTyped'
  BY DEF Runs, ImportTyped
<1>5. ASSUME NEW w \in Importer PROVE RunOK(w)'
  <2>1. RunOK(w)
    BY DEF Runs
  <2>2. \A i : Accounted(i)' = Accounted(i)
    BY DEF Accounted, Of
  <2>3. QED
    BY <2>1, <2>2 DEF RunOK, Placed, Counted, Concluded, Saved, Busy, Of
<1>6. QED
  BY <1>1, <1>2, <1>3, <1>4, <1>5 DEF Runs

LEMMA ProbeGoesOn == Calls /\ Runs /\ [ProbeNext]_everyVar => Calls' /\ Runs'
BY ProbeIsImport, ImportGoesOn, ShrinkKeeps

LEMMA ImportEnds ==
    ASSUME Import
    PROVE  /\ stage = "import"
           /\ \/ UNCHANGED probeVars
              \/ stage' = "collect" /\ next' = 1 /\ pool' = {} /\ there' = there
                 /\ phase'[Prober] = "off"
                 /\ UNCHANGED <<mids, ok, result, missed, blind, late>>
              \/ Fail
BY DEF Import, Enter, seenVars

\* No action of the probe writes but its import, which does so for its facts.
Mine == \A r \in Req : flight[r] # "unused" => \E i \in DOMAIN Facts : Facts[i] = KeyOf[r]

LEMMA MineStep == Calls /\ Runs /\ Mine /\ [ProbeNext]_everyVar => Mine'
<1> SUFFICES ASSUME Calls, Runs, Mine, [ProbeNext]_everyVar PROVE Mine'
  OBVIOUS
<1> USE ProbeAssumption, ImportAssumption
<1>0. Typed /\ RunOK(Prober) /\ Prober \in Writer
  BY DEF Calls, Runs
<1>1. CASE flight' = flight
  BY <1>1 DEF Mine
<1>2. CASE Send(Prober)
  <2>1. Facts[at[Prober]] = ext[Prober] /\ at[Prober] \in DOMAIN Facts
    BY <1>0, <1>2 DEF Send, RunOK, Placed, Busy
  <2>2. QED
    BY <1>0, <1>2, <2>1 DEF Send, Mine, Of, Typed, TypeOK
<1>3. ASSUME NEW r \in Req, Server(r) PROVE Mine'
  BY <1>0, <1>3 DEF Server, Commit, ExtractNothing, Lose, Delete, Mine, Typed, TypeOK
<1>4. ASSUME ImportStep(Prober) PROVE flight' = flight \/ Send(Prober)
  BY <1>4 DEF ImportStep, RejectFact, Lookup, SearchHit, WouldWrite, Call, Collect, Abort,
     Finish, CloseImport, Start, vars, serverVars, Proceed, FindInList, FindBySearch,
     SearchRaises, ListRaises, Answered, Recache, TimeOut, PostRaises, Poll, GiveUp
<1>5. ASSUME KillProbe PROVE flight' = flight
  BY <1>5 DEF KillProbe, Kill, Crash, allVars, vars, serverVars
<1>6. ASSUME StartProbe PROVE flight' = flight
  BY <1>6 DEF StartProbe, Begin, OpenImport, serverVars
<1>7. CASE UNCHANGED everyVar \/ DryRun \/ Fetch \/ Collected \/ Ask \/ Judge
  BY <1>1, <1>7 DEF everyVar, DryRun, Stay, Fetch, Collected, Ask, Judge, allVars, vars,
     serverVars
<1>8. CASE FollowUp \/ Scan \/ QueryRaises \/ Erase \/ EraseRaises \/ Report
  BY <1>1, <1>8 DEF FollowUp, Scan, QueryRaises, Erase, EraseRaises, Report, Stay, allVars,
     vars, serverVars
<1>9. QED
  BY <1>1, <1>2, <1>3, <1>4, <1>5, <1>6, <1>7, <1>8
  DEF ProbeNext, ProbeStep, Import, World

-----------------------------------------------------------------------------
(* What the probe leaves behind.                                           *)

\* The loop at hand is past every fact with id e.
Reached(e) == \A i \in DOMAIN Facts : Facts[i] = e => i < next

\* A record that a run may leave in the bank.
Excused(r) == r \in late \/ KeyOf[r] \in contested \cup hidden \cup missed

\* The stages between the collection and the end.
Asking == Query \cup {"followup", "scan", "cleanup"}

\* A record in the bank has been collected once its id was looked up, and is
\* to be deleted from then on.
Swept ==
    /\ stage \in {"off", "import", "collect"} \cup Asking
    /\ next \in Nat
    /\ stage # "off" => result = "none"
    /\ stage = "collect" => \A r \in bank : Reached(KeyOf[r]) => r \in pool \/ Excused(r)
    /\ stage \in Asking => \A r \in bank : r \in mids \/ Excused(r)
    /\ stage = "cleanup" => \A r \in bank : Reached(KeyOf[r]) => Excused(r)
    /\ stage = "off" /\ result \in {"pass", "fail"} => \A r \in bank : Excused(r)

LEMMA SweptStep ==
    Calls /\ Runs /\ Mine /\ Swept /\ [ProbeNext]_everyVar => Swept'
<1> SUFFICES ASSUME Calls, Runs, Mine, Swept, [ProbeNext]_everyVar PROVE Swept'
  OBVIOUS
<1> USE FactsAreIds, WriteAssumption
<1>0. /\ bank \subseteq Req /\ \A r \in bank : flight[r] # "unused"
      /\ \A r \in bank : KeyOf[r] \in Ext /\ \E i \in DOMAIN Facts : Facts[i] = KeyOf[r]
  BY DEF Calls, Typed, TypeOK, SettledCalls, Mine
<1>1. ASSUME NEW r \in bank, NEW q \in bank, KeyOf[r] = KeyOf[q]
      PROVE  r = q \/ KeyOf[r] \in contested \cup hidden
  BY <1>0, <1>1 DEF Calls, SettledCalls, Undisturbed, Live, Of
<1>2. \A r \in bank' : \E i \in DOMAIN Facts : Facts[i] = KeyOf[r]
  <2>1. Calls' /\ Mine'
    BY ProbeGoesOn, MineStep
  <2>2. QED
    BY <2>1 DEF Calls, Typed, TypeOK, SettledCalls, Mine
<1>3. CASE DryRun
  BY <1>3 DEF DryRun, End, Enter, Swept, Asking, Query
<1>4. CASE StartProbe
  BY <1>4 DEF StartProbe, Enter, Swept, Asking, Query
<1>5. CASE Fail
  BY <1>5 DEF Fail, End, Enter, Swept, Asking, Query
<1>6. CASE Import
  <2>1. CASE /\ stage = "import" /\ stage' = "collect" /\ next' = 1
             /\ UNCHANGED result
    <3>1. \A r \in bank' : ~Reached(KeyOf[r])'
      BY <1>2, <2>1 DEF Reached
    <3>2. QED
      BY <2>1, <3>1 DEF Swept, Asking, Query
  <2>2. CASE UNCHANGED probeVars /\ stage = "import"
    BY <2>2 DEF Swept, probeVars, stageVars, Asking, Query
  <2>3. QED
    BY <1>5, <1>6, <2>1, <2>2, ImportEnds
<1>7. CASE Fetch
  <2>1. /\ next' = next + 1 /\ stage' = stage /\ next \in DOMAIN Facts
        /\ UNCHANGED <<bank, contested, hidden, late, mids, result>>
        /\ stage \in {"collect"} \cup Query
    BY <1>7 DEF Fetch, allVars, vars, serverVars, historyVars
  <2>2. \A r : Excused(r) => Excused(r)'
    BY <1>7, <2>1 DEF Fetch, Excused
  <2>3. CASE stage = "collect"
    <3> SUFFICES ASSUME NEW r \in bank, Reached(KeyOf[r])'
                 PROVE  r \in pool' \/ Excused(r)'
      BY <2>1, <2>3 DEF Swept, Asking, Query
    <3>1. CASE Reached(KeyOf[r])
      BY <1>7, <2>2, <2>3, <3>1 DEF Fetch, Swept
    <3>2. CASE KeyOf[r] = Facts[next]
      <4>1. r \in bank \cap Of(Id(next))
        BY <1>0, <3>2 DEF Id, Of
      <4>2. CASE \E q \in bank \cap Of(Id(next)) : pool' = pool \cup {q}
        <5>1. PICK q \in bank \cap Of(Id(next)) : pool' = pool \cup {q}
          BY <4>2
        <5>2. KeyOf[q] = KeyOf[r]
          BY <3>2, <5>1 DEF Id, Of
        <5>3. r = q \/ KeyOf[r] \in contested \cup hidden
          BY <1>1, <5>2
        <5>4. QED
          BY <2>1, <5>1, <5>3 DEF Excused
      <4>3. CASE missed' = missed \cup Keys(bank \cap Of(Id(next)))
        BY <4>1, <4>3 DEF Keys, Excused
      <4>4. QED
        BY <1>7, <2>3, <4>2, <4>3 DEF Fetch
    <3>3. QED
      <4>1. ~Reached(KeyOf[r]) => \E i \in DOMAIN Facts : Facts[i] = KeyOf[r] /\ i = next
        BY <2>1 DEF Reached, Swept
      <4>2. QED
        BY <3>1, <3>2, <4>1
  <2>4. CASE stage \in Query
    BY <2>1, <2>2, <2>4 DEF Swept, Asking, Query
  <2>5. QED
    BY <2>1, <2>3, <2>4
<1>8. CASE Collected
  <2>1. /\ stage = "collect" /\ stage' = "recency" /\ next' = 0 /\ mids' = pool
        /\ UNCHANGED <<bank, contested, hidden, late, missed, result>> /\ next > Len(Facts)
    BY <1>8 DEF Collected, Stay, Enter, allVars, vars, serverVars, historyVars, seenVars
  <2>2. \A r \in bank : Reached(KeyOf[r])
    BY <2>1 DEF Reached, Swept
  <2>3. QED
    BY <2>1, <2>2 DEF Swept, Asking, Query, Excused
<1>9. CASE Ask \/ Judge \/ FollowUp \/ Scan
  <2>1. /\ stage \in Query \cup {"followup", "scan"} /\ stage' \in Asking
        /\ stage' = "cleanup" => next' = 1
        /\ next' \in {0, 1}
        /\ UNCHANGED <<bank, contested, hidden, late, missed, mids, result>>
    BY <1>9 DEF Ask, Judge, FollowUp, Scan, Stay, Enter, allVars, vars, serverVars,
       historyVars, seenVars, AfterQuery, Asking, Query
  <2>2. next' = 1 => \A r \in bank' : ~Reached(KeyOf[r])'
    BY <1>2 DEF Reached
  <2>3. QED
    BY <2>1, <2>2 DEF Swept, Asking, Query, Excused
<1>10. CASE Erase
  <2>1. /\ stage = "cleanup" /\ stage' = stage /\ next' = next + 1 /\ next \in DOMAIN Facts
        /\ bank' = bank \ (mids \cap Of(Facts[next]))
        /\ UNCHANGED <<contested, hidden, late, missed, mids, result>>
    BY <1>10 DEF Erase, Id, historyVars, seenVars
  <2>2. ASSUME NEW r \in bank', Reached(KeyOf[r])' PROVE Excused(r)
    <3>1. CASE Reached(KeyOf[r])
      BY <2>1, <2>2, <3>1 DEF Swept
    <3>2. CASE KeyOf[r] = Facts[next]
      BY <1>0, <2>1, <2>2, <3>2 DEF Swept, Asking, Of
    <3>3. QED
      <4>1. ~Reached(KeyOf[r]) => \E i \in DOMAIN Facts : Facts[i] = KeyOf[r] /\ i = next
        BY <2>1, <2>2 DEF Reached, Swept
      <4>2. QED
        BY <3>1, <3>2, <4>1
  <2>3. QED
    BY <2>1, <2>2 DEF Swept, Asking, Query, Excused
<1>11. CASE Report
  <2>1. /\ stage = "cleanup" /\ stage' = "off" /\ next' = 0 /\ next > Len(Facts)
        /\ UNCHANGED <<bank, contested, hidden, late, missed>>
    BY <1>11 DEF Report, Stay, End, Enter, allVars, vars, serverVars, historyVars, seenVars
  <2>2. \A r \in bank : Reached(KeyOf[r])
    BY <2>1 DEF Reached, Swept
  <2>3. QED
    BY <2>1, <2>2 DEF Swept, Asking, Query, Excused
<1>12. ASSUME NEW q \in Req, World(q) PROVE Swept'
  <2>1. /\ bank' \subseteq bank \cup {q} /\ late \subseteq late'
        /\ UNCHANGED <<contested, hidden, missed, stage, next, pool, mids, result>>
        /\ q \in bank' \ bank /\ LookedFor(KeyOf[q]) => q \in late'
    BY <1>12 DEF World, Server, Commit, ExtractNothing, Lose, Delete, historyVars,
       stageVars, seenVars, serverVars
  <2>2. \A r : Excused(r) => Excused(r)'
    BY <2>1 DEF Excused
  <2>3. \A r : Reached(KeyOf[r])' <=> Reached(KeyOf[r])
    BY <2>1 DEF Reached
  <2>4. CASE bank' \subseteq bank
    BY <2>1, <2>2, <2>3, <2>4 DEF Swept
  <2>5. CASE q \in bank' \ bank
    <3>1. CASE LookedFor(KeyOf[q])
      <4>1. Excused(q)'
        BY <2>1, <2>5, <3>1 DEF Excused
      <4>2. QED
        BY <2>1, <2>2, <2>3, <4>1 DEF Swept
    <3>2. CASE ~LookedFor(KeyOf[q])
      <4>1. /\ stage \in {"import", "collect"} \/ result = "aborted"
            /\ stage = "collect" => ~Reached(KeyOf[q])
        BY <3>2 DEF LookedFor, Reached, Id
      <4>2. QED
        BY <2>1, <2>2, <2>3, <4>1 DEF Swept, Asking, Query
    <3>3. QED
      BY <3>1, <3>2
  <2>6. QED
    BY <2>1, <2>4, <2>5
<1>13. CASE UNCHANGED everyVar
  BY <1>13 DEF everyVar, probeVars, stageVars, seenVars, allVars, vars, serverVars,
     historyVars, Swept, Reached, Excused
<1>14. QED
  BY <1>3, <1>4, <1>5, <1>6, <1>7, <1>8, <1>9, <1>10, <1>11, <1>12, <1>13
  DEF ProbeNext, ProbeStep, QueryRaises, EraseRaises, KillProbe

(***************************************************************************)
(* A run that completes leaves no record of the probe's but those its      *)
(* lookups could not have seen (acceptance_probe.py:252-256).              *)
(***************************************************************************)
LEMMA ProbeAlways == ProbeSpec => [](Calls /\ Runs /\ Mine /\ Swept)
<1>1. ProbeInit => Calls /\ Runs /\ Mine /\ Swept
  <2> SUFFICES ASSUME ProbeInit PROVE Mine /\ Swept
    BY ImportBegins DEF ProbeInit
  <2>1. QED
    BY DEF ProbeInit, ImportInit, Init, Mine, Swept, Asking, Query
<1>2. QED
  BY <1>1, ProbeGoesOn, MineStep, SweptStep, PTL DEF ProbeSpec

THEOREM CompletedRunsClean == ProbeSpec => []CleanAfterRun
<1>1. Swept => CleanAfterRun
  BY DEF Swept, CleanAfterRun, Excused
<1>2. QED
  BY <1>1, ProbeAlways, PTL

\* No probe run, begun again after however many aborted ones and beside their
\* late POSTs, stores an id twice by itself.
THEOREM ProbesNeverDuplicate == ProbeSpec => []SingleRecord
<1>1. Calls => SingleRecord
  BY DEF Calls, Typed, TypeOK, SettledCalls, Undisturbed, Live, SingleRecord, Of
<1>2. QED
  BY <1>1, ProbeAlways, PTL

(***************************************************************************)
(* That a probe run is a sequence of steps of AtMostOnce too, deletions    *)
(* included, takes one thing more: a turn of the deletion loop deletes one *)
(* record, for no more than one was collected per id.                      *)
(***************************************************************************)
OnePerId(records) == \A r, q \in records : KeyOf[r] = KeyOf[q] => r = q

Collects ==
    /\ OnePerId(mids)
    /\ stage = "collect" => /\ OnePerId(pool)
                            /\ \A r \in pool : \E i \in 1 .. next - 1 : KeyOf[r] = Facts[i]
                            /\ next \in Nat

LEMMA FetchCollects == Collects /\ Fetch => Collects'
<1> SUFFICES ASSUME Collects, Fetch PROVE Collects'
  OBVIOUS
<1>1. /\ next \in DOMAIN Facts /\ next' = next + 1
      /\ UNCHANGED <<allVars, stage, mids>>
      /\ \/ pool' = pool
         \/ \E r \in bank \cap Of(Id(next)) : pool' = pool \cup {r}
  BY DEF Fetch
<1>2. OnePerId(mids') /\ UNCHANGED KeyOf
  BY <1>1 DEF Collects
<1>3. CASE stage # "collect"
  BY <1>1, <1>2, <1>3 DEF Collects, OnePerId
<1>4. CASE stage = "collect"
  <2>1. /\ OnePerId(pool) /\ next \in Nat \ {0}
        /\ \A r \in pool : \E i \in 1 .. next - 1 : KeyOf[r] = Facts[i]
    BY <1>1, <1>4, FactsAreIds DEF Collects
  <2>2. \A i \in 1 .. next - 1 : i \in 1 .. next /\ i \in DOMAIN Facts /\ Facts[i] # Facts[next]
    <3> TAKE i \in 1 .. next - 1
    <3>1. i \in 1 .. next /\ i \in DOMAIN Facts /\ i # next
      BY <1>1, <2>1, FactsAreIds
    <3>2. QED
      BY <1>1, <3>1, FactsAssumption
  <2>3. next' - 1 = next /\ next' \in Nat /\ next \in 1 .. next
    BY <1>1, <2>1
  <2>4. CASE pool' = pool
    BY <1>1, <1>2, <2>1, <2>2, <2>3, <2>4 DEF Collects, OnePerId
  <2>5. ASSUME NEW q \in bank \cap Of(Id(next)), pool' = pool \cup {q} PROVE Collects'
    <3>1. KeyOf[q] = Facts[next]
      BY <2>5 DEF Id, Of
    <3>2. \A r \in pool : KeyOf[r] # KeyOf[q]
      BY <2>1, <2>2, <3>1
    <3>3. OnePerId(pool')
      BY <2>1, <2>5, <3>2 DEF OnePerId
    <3>4. \A r \in pool' : \E i \in 1 .. next : KeyOf[r] = Facts[i]
      BY <2>1, <2>2, <2>3, <2>5, <3>1
    <3>5. QED
      BY <1>1, <1>2, <2>3, <3>3, <3>4 DEF Collects, OnePerId
  <2>6. QED
    BY <1>1, <2>4, <2>5
<1>5. QED
  BY <1>3, <1>4

LEMMA CollectsStep == Collects /\ [ProbeNext]_everyVar => Collects'
<1> SUFFICES ASSUME Collects, [ProbeNext]_everyVar PROVE Collects'
  OBVIOUS
<1> USE DEF OnePerId
<1>1. CASE DryRun
  BY <1>1 DEF DryRun, End, Enter, Collects
<1>2. CASE StartProbe
  BY <1>2 DEF StartProbe, Enter, Collects
<1>3. CASE Fail
  BY <1>3 DEF Fail, End, Enter, Collects
<1>4. CASE Import
  <2>1. CASE stage' = "collect" /\ next' = 1 /\ pool' = {} /\ mids' = mids
    BY <2>1 DEF Collects
  <2>2. CASE UNCHANGED probeVars
    BY <2>2 DEF probeVars, stageVars, Collects
  <2>3. QED
    BY <1>3, <1>4, <2>1, <2>2, ImportEnds
<1>5. CASE Fetch
  BY <1>5, FetchCollects
<1>6. CASE Collected
  BY <1>6 DEF Collected, Stay, Enter, Collects
<1>7. CASE Ask \/ Judge
  BY <1>7 DEF Ask, Judge, AfterQuery, Enter, Query, Collects
<1>8. CASE FollowUp \/ Scan
  BY <1>8 DEF FollowUp, Scan, Stay, Enter, Collects
<1>9. CASE QueryRaises \/ EraseRaises \/ KillProbe
  BY <1>3, <1>9 DEF QueryRaises, EraseRaises, KillProbe
<1>10. CASE Erase
  BY <1>10 DEF Erase, Collects
<1>11. CASE Report
  BY <1>11 DEF Report, Stay, End, Enter, Collects
<1>12. ASSUME NEW r \in Req, World(r) PROVE Collects'
  BY <1>12 DEF World, stageVars, Collects
<1>13. CASE UNCHANGED everyVar
  BY <1>13 DEF everyVar, probeVars, stageVars, Collects
<1>14. QED
  BY <1>1, <1>2, <1>4, <1>5, <1>6, <1>7, <1>8, <1>9, <1>10, <1>11, <1>12, <1>13
  DEF ProbeNext, ProbeStep

LEMMA DeletesOne ==
    ASSUME Typed, Collects, Erase \/ EraseRaises
    PROVE  [\E r \in Req : Promise!Remove(r)]_Promise!vars
<1>1. PICK gone : gone = mids \cap Of(Id(next))
  OBVIOUS
<1>2. /\ bank' \in {bank, bank \ gone} /\ bank \subseteq Req
      /\ UNCHANGED <<clientVars, cacheVars, flight, historyVars, importVars>>
  BY <1>1 DEF Erase, EraseRaises, Typed, TypeOK
<1>3. \A r, q \in gone : r = q
  BY <1>1 DEF Collects, OnePerId, Of
<1>4. CASE bank' = bank
  BY <1>2, <1>4 DEF Promise!vars, historyVars
<1>5. CASE bank' # bank
  <2>1. PICK r \in gone : r \in bank
    BY <1>2, <1>5
  <2>2. bank' = bank \ {r} /\ r \in Req
    BY <1>2, <1>3, <1>5, <2>1
  <2>3. Promise!Remove(r)
    BY <1>2, <2>1, <2>2 DEF Promise!Remove, historyVars
  <2>4. QED
    BY <2>2, <2>3
<1>6. QED
  BY <1>4, <1>5

(***************************************************************************)
(* The probe refines AtMostOnce: runs that write, query and delete, killed *)
(* and begun anew, never have a request sent for an id that the server     *)
(* holds or is still working on, and never take away two records at once.  *)
(***************************************************************************)
THEOREM ProbeRefines == ProbeSpec => ImplementsAtMostOnce
<1>1. ProbeInit => Promise!Init /\ Collects
  BY DEF ProbeInit, ImportInit, Init, Promise!Init, Collects, OnePerId
<1>2. Calls /\ Runs /\ Collects /\ [ProbeNext]_everyVar => [Promise!Next]_Promise!vars
  <2> SUFFICES ASSUME Calls, Runs, Collects, [ProbeNext]_everyVar
               PROVE  [Promise!Next]_Promise!vars
    OBVIOUS
  <2>1. CASE [ImportNext]_allVars
    BY <2>1, ImportIsNext, PromiseStep DEF Calls, Runs, RunOK
  <2>2. CASE Erase \/ EraseRaises
    BY <2>2, DeletesOne DEF Calls, Promise!Next
  <2>3. QED
    BY <2>1, <2>2, ProbeImportsOrErases
<1>3. QED
  BY <1>1, <1>2, CollectsStep, ProbeAlways, PTL
  DEF ProbeSpec, Promise!Spec, ImplementsAtMostOnce

-----------------------------------------------------------------------------
(* What a pass means.                                                      *)

\* What the queries answered so far have found.
Found ==
    /\ stage \in {"followup", "scan", "vector", "entity", "cleanup"} /\ ok => Latest \in there
    /\ stage \in {"vector", "entity", "cleanup"} /\ ok => OpenItem \in there
    /\ stage = "cleanup" /\ ok => Contact \cap there # {}
    /\ PassMeansFound

\* A query passes on the record it is about, whatever else was answered, and
\* the other way round.
LEMMA PassedFinds ==
    ASSUME NEW records, Passed(records)
    PROVE  /\ stage = "recency" => Latest \in Keys(records)
           /\ stage = "entity" => Contact \cap Keys(records) # {}
BY DEF Passed, Newest, Best, Keys

LEMMA ContactsScore ==
    ASSUME NEW e \in Contact
    PROVE  Score(e) = 10 /\ \A d : Score(d) <= Score(e)
<1>1. e \in Telling("contact") /\ e \notin Telling("sibling")
  BY FactsAssumption DEF Contact
<1>2. Score(e) = 10
  BY <1>1 DEF Score
<1>3. ASSUME NEW d PROVE Score(d) <= 10
  <2>1. CASE d \in Telling("contact") /\ d \in Telling("sibling")
    BY <2>1 DEF Score
  <2>2. CASE d \in Telling("contact") /\ d \notin Telling("sibling")
    BY <2>2 DEF Score
  <2>3. CASE d \notin Telling("contact") /\ d \in Telling("sibling")
    BY <2>3 DEF Score
  <2>4. CASE d \notin Telling("contact") /\ d \notin Telling("sibling")
    BY <2>4 DEF Score
  <2>5. QED
    BY <2>1, <2>2, <2>3, <2>4
<1>4. QED
  BY <1>2, <1>3

LEMMA LatestIsNewest ==
    ASSUME NEW e \in Telling("alpha") PROVE EventDate[e] <= EventDate[Latest]
<1>1. e \in Ext /\ Latest \in Ext
  BY FactsAssumption DEF Telling
<1>2. EventDate[e] \in Nat /\ EventDate[Latest] \in Nat
  BY <1>1, FactsAssumption
<1>3. CASE e = Latest
  BY <1>2, <1>3
<1>4. CASE e # Latest
  <2>1. EventDate[e] < EventDate[Latest]
    BY <1>4, FactsAssumption
  <2>2. QED
    BY <1>2, <2>1
<1>5. QED
  BY <1>3, <1>4

LEMMA CompletePasses ==
    ASSUME NEW records, {Facts[i] : i \in DOMAIN Facts} \subseteq Keys(records)
    PROVE  Passed(records)
<1> DEFINE alpha == {q \in records : KeyOf[q] \in Telling("alpha")}
<1>1. \E r \in Newest(alpha) : KeyOf[r] = Latest
  <2>1. PICK r \in records : KeyOf[r] = Latest
    BY ProbeAssumption DEF Keys
  <2>2. r \in alpha /\ \A q \in alpha : EventDate[KeyOf[q]] <= EventDate[KeyOf[r]]
    BY <2>1, LatestIsNewest, FactsAssumption
  <2>3. QED
    BY <2>1, <2>2 DEF Newest
<1>2. \E r \in Best(records) : KeyOf[r] \in Contact \ Telling("sibling")
  <2>1. PICK e : e \in Contact
    BY ProbeAssumption
  <2>2. PICK r \in records : KeyOf[r] = e
    BY <2>1, ProbeAssumption DEF Keys
  <2>3. r \in Best(records)
    BY <2>1, <2>2, ContactsScore DEF Best, Contact
  <2>4. e \notin Telling("sibling")
    BY <2>1, FactsAssumption
  <2>5. QED
    BY <2>1, <2>2, <2>3, <2>4
<1>3. QED
  BY <1>1, <1>2 DEF Passed

LEMMA FoundStep == Swept /\ Found /\ [ProbeNext]_everyVar => Found'
<1> SUFFICES ASSUME Swept, Found, [ProbeNext]_everyVar PROVE Found'
  OBVIOUS
<1> USE DEF Found, PassMeansFound, Enter, Query
<1>1. CASE DryRun
  BY <1>1 DEF DryRun, End
<1>2. CASE StartProbe
  BY <1>2 DEF StartProbe
<1>3. CASE Fail
  BY <1>3 DEF Fail, End
<1>4. CASE Import
  BY <1>3, <1>4, ImportEnds DEF probeVars, stageVars, seenVars
<1>5. CASE Fetch
  BY <1>5 DEF Fetch
<1>6. CASE Collected \/ Ask
  BY <1>6 DEF Collected, Ask, Stay, seenVars
<1>7. CASE Judge
  <2>1. PICK records :
           /\ ok' = (ok /\ Passed(records))
           /\ there' = there \cup Keys(records)
    BY <1>7 DEF Judge
  <2>2. stage \in Query /\ stage' = AfterQuery /\ result' = result
    BY <1>7 DEF Judge
  <2>3. CASE stage = "recency"
    BY <2>1, <2>2, <2>3, PassedFinds DEF AfterQuery, Swept
  <2>4. CASE stage = "vector"
    BY <2>1, <2>2, <2>4 DEF AfterQuery, Swept
  <2>5. CASE stage = "entity"
    <3>1. stage' = "cleanup"
      BY <2>2, <2>5 DEF AfterQuery
    <3>2. ok' => Contact \cap there' # {}
      BY <2>1, <2>5, PassedFinds
    <3>3. QED
      BY <2>1, <2>2, <2>5, <3>1, <3>2 DEF Swept
  <2>6. QED
    BY <2>2, <2>3, <2>4, <2>5
<1>8. CASE FollowUp
  BY <1>8 DEF FollowUp, Stay, Swept
<1>9. CASE Scan
  <2>1. PICK mine : /\ mine \subseteq Of(OpenItem)
                    /\ ok' = (ok /\ mine # {})
                    /\ there' = there \cup Keys(mine)
    BY <1>9 DEF Scan
  <2>2. ok' => OpenItem \in there'
    BY <2>1 DEF Keys, Of
  <2>3. QED
    BY <1>9, <2>1, <2>2 DEF Scan, Stay, Swept
<1>10. CASE Erase
  BY <1>10 DEF Erase, seenVars
<1>11. CASE Report
  BY <1>11 DEF Report, End, Stay, seenVars
<1>12. ASSUME NEW q \in Req, World(q) PROVE Found'
  BY <1>12 DEF World, stageVars, seenVars
<1>13. CASE UNCHANGED everyVar
  BY <1>13 DEF everyVar, probeVars, stageVars, seenVars
<1>14. QED
  BY <1>1, <1>2, <1>3, <1>4, <1>5, <1>6, <1>7, <1>8, <1>9, <1>10, <1>11, <1>12, <1>13
  DEF ProbeNext, ProbeStep, QueryRaises, EraseRaises, KillProbe

(***************************************************************************)
(* The probe passes only if a lookup of this very run found the fact that  *)
(* each query is about (acceptance_probe.py:241-258).                      *)
(***************************************************************************)
THEOREM PassesHonest == ProbeSpec => []PassMeansFound
<1>1. ProbeInit => Found
  BY DEF ProbeInit, Found, PassMeansFound
<1>2. Found => PassMeansFound
  BY DEF Found
<1>3. QED
  BY <1>1, <1>2, FoundStep, ProbeAlways, PTL DEF ProbeSpec

-----------------------------------------------------------------------------
(* What a failure means.                                                   *)

\* The server extracts a record from every fact, and nobody deletes one.
Steady == Faults \cap {"delete", "empty"} = {}

Stored(i) == bank \cap Of(Facts[i]) # {}

Good == {"skipped_exists", "written", "verified_after_timeout"}

\* During its import the probe deletes nothing, so what it saw is still there.
Backing ==
    /\ ~dry[Prober]
    /\ cache[Prober] \subseteq bank
    /\ \A i \in DOMAIN outcomes[Prober] : outcomes[Prober][i] \in Good => Stored(i)
    /\ \A r \in Req : Busy(Prober) /\ req[Prober] = r /\ flight[r] = "stored" => r \in bank
    /\ phase[Prober] = "call" /\ ~Busy(Prober) =>
          /\ verdict[Prober] \in {"skipped_exists", "verified_after_timeout"}
                => found[Prober] \in bank
          /\ verdict[Prober] = "written" => req[Prober] \in bank

LEMMA CallBacked ==
    ASSUME Steady, Calls, Runs, \A r \in Req : flight[r] # "empty", Backing,
           Proceed(Prober), UNCHANGED importVars
    PROVE  Backing'
<1> USE ProbeAssumption, ImportAssumption
    DEF Backing, Stored, Good, Busy, Typed, TypeOK, CallState, Return, Goto, Of, Hits,
        importVars, clientVars, cacheVars, serverVars, historyVars
<1>0. Prober \in Writer /\ Typed /\ Busy(Prober) /\ phase[Prober] = "call"
  BY CallGoesOn DEF Calls, Runs, RunOK, Placed
<1>1. CASE FindInList(Prober)
  <2>1. PICK items \in (IF Prober \in session THEN {cache[Prober]} ELSE Listing) :
          \/ \E r \in Hits(Prober, items) : ReportHit(Prober, r)
          \/ /\ Goto(Prober, IF pc[Prober] = "list" THEN "search" ELSE "pollSearch")
             /\ UNCHANGED <<cache, settled>>
    BY <1>1 DEF FindInList
  <2>2. items \subseteq bank
    BY <1>0, <2>1 DEF Listing
  <2>3. UNCHANGED <<ext, req, bank, flight>>
    BY <1>1 DEF FindInList
  <2>4. ASSUME NEW r \in Hits(Prober, items), ReportHit(Prober, r) PROVE Backing'
    BY <1>0, <2>2, <2>3, <2>4 DEF ReportHit, Extended
  <2>5. QED
    BY <1>0, <2>1, <2>3, <2>4
<1>2. CASE FindBySearch(Prober)
  BY <1>0, <1>2 DEF FindBySearch, ReportHit, Extended, AfterMiss
<1>3. CASE SearchRaises(Prober) \/ ListRaises(Prober)
  BY <1>0, <1>3 DEF SearchRaises, ListRaises, AfterMiss
<1>4. CASE Send(Prober)
  BY <1>0, <1>4 DEF Send
<1>5. CASE Answered(Prober)
  BY <1>0, <1>5 DEF Answered, Extended
<1>6. CASE Recache(Prober)
  <2>1. UNCHANGED <<req, bank, flight, dry, outcomes, phase>> /\ verdict'[Prober] = "written"
    BY <1>0, <1>6 DEF Recache
  <2>2. req[Prober] \in Req /\ req[Prober] \in bank
    <3>1. req[Prober] \in Of(ext[Prober]) /\ flight[req[Prober]] \in {"stored", "empty"}
      BY <1>0, <1>6 DEF Recache, Calls, Evidence
    <3>2. QED
      BY <1>0, <3>1
  <2>3. cache'[Prober] \subseteq bank
    BY <1>0, <1>6 DEF Recache, Extended
  <2>4. QED
    BY <1>0, <2>1, <2>2, <2>3
<1>7. CASE TimeOut(Prober) \/ PostRaises(Prober) \/ Poll(Prober) \/ GiveUp(Prober)
  BY <1>0, <1>7 DEF TimeOut, PostRaises, EndRun, Poll, GiveUp
<1>8. QED
  BY <1>1, <1>2, <1>3, <1>4, <1>5, <1>6, <1>7 DEF Proceed

LEMMA RunBacked ==
    ASSUME Steady, Calls, Runs, \A r \in Req : flight[r] # "empty", Backing,
           ImportStep(Prober), phase'[Prober] \notin {"off", "aborted"}
    PROVE  Backing'
<1> USE ProbeAssumption, ImportAssumption
<1>0. /\ Prober \in Writer /\ Typed /\ ImportTyped /\ RunOK(Prober) /\ Placed(Prober)
  BY DEF Calls, Runs, RunOK
<1>1. ASSUME phase[Prober] \in {"fact", "search", "call"}, at[Prober] \in DOMAIN Facts,
             NEW status \in Outcome, Record(Prober, status), UNCHANGED vars,
             status \in Good => Stored(at[Prober])
      PROVE  Backing'
  <2>1. /\ phase'[Prober] = "fact" /\ dry' = dry
        /\ outcomes'[Prober] = Append(outcomes[Prober], status)
    BY <1>0, <1>1 DEF Record, ImportTyped
  <2>2. /\ outcomes[Prober] \in Seq(Outcome) /\ at[Prober] \in 1 .. Len(Facts)
        /\ Len(outcomes[Prober]) = at[Prober] - 1
    BY <1>0, <1>1, FactsAreIds DEF ImportTyped, Placed
  <2>3. UNCHANGED <<pc, req, verdict, found, cache, flight, bank>>
    BY <1>1 DEF vars, clientVars, cacheVars, serverVars
  <2>4. ASSUME NEW i \in DOMAIN outcomes'[Prober], outcomes'[Prober][i] \in Good
        PROVE  Stored(i)
    <3>1. /\ DOMAIN outcomes'[Prober] = 1 .. at[Prober]
          /\ DOMAIN outcomes[Prober] = 1 .. (at[Prober] - 1)
          /\ outcomes'[Prober][at[Prober]] = status
          /\ \A k \in 1 .. (at[Prober] - 1) : outcomes'[Prober][k] = outcomes[Prober][k]
      BY <2>1, <2>2, FactsAreIds
    <3>2. CASE i = at[Prober]
      BY <1>1, <2>4, <3>1, <3>2
    <3>3. CASE i # at[Prober]
      <4>1. i \in 1 .. (at[Prober] - 1)
        BY <2>2, <2>4, <3>1, <3>3, FactsAreIds
      <4>2. QED
        BY <2>4, <3>1, <4>1 DEF Backing
    <3>4. QED
      BY <3>2, <3>3
  <2>5. QED
    BY <2>1, <2>3, <2>4 DEF Backing, Stored, Busy, Of
<1>2. CASE RejectFact(Prober)
  BY <1>1, <1>2 DEF RejectFact, AtFact, Outcome, Status, Good
<1>3. CASE Lookup(Prober)
  <2>1. CASE cache[Prober] \cap Of(Fact(Prober)) # {}
    <3>1. Stored(at[Prober])
      BY <2>1 DEF Backing, Fact, Stored
    <3>2. "skipped_exists" \in Outcome
      BY DEF Outcome, Status
    <3>3. QED
      BY <1>1, <1>3, <2>1, <3>1, <3>2 DEF Lookup, AtFact
  <2>2. CASE cache[Prober] \cap Of(Fact(Prober)) = {}
    <3>1. phase'[Prober] = "search" /\ UNCHANGED <<dry, outcomes, vars>>
      BY <1>0, <1>3, <2>2 DEF Lookup, ImportTyped
    <3>2. QED
      BY <3>1 DEF Backing, Stored, Busy, Of, vars, clientVars, cacheVars, serverVars
  <2>3. QED
    BY <2>1, <2>2
<1>4. CASE SearchHit(Prober)
  <2>1. Stored(at[Prober]) /\ "skipped_exists" \in Outcome
    BY <1>4 DEF SearchHit, Fact, Stored, Outcome, Status
  <2>2. QED
    BY <1>0, <1>1, <1>4, <2>1 DEF SearchHit, Placed
<1>5. CASE WouldWrite(Prober)
  BY <1>5 DEF WouldWrite, Backing
<1>6. CASE Call(Prober)
  <2>1. /\ phase'[Prober] = "call" /\ UNCHANGED <<dry, outcomes>>
    BY <1>0, <1>6 DEF Call, ImportTyped
  <2>2. /\ pc'[Prober] = "list" /\ req'[Prober] = None
        /\ UNCHANGED <<cache, bank>>
    BY <1>0, <1>6 DEF Call, Start, Typed, TypeOK, cacheVars, serverVars
  <2>3. QED
    BY <2>1, <2>2, WriteAssumption DEF Backing, Stored, Busy, Of
<1>7. CASE Collect(Prober)
  <2>1. /\ phase[Prober] = "call" /\ ~Busy(Prober)
        /\ at[Prober] \in DOMAIN Facts /\ ext[Prober] = Facts[at[Prober]]
        /\ Record(Prober, verdict[Prober]) /\ UNCHANGED vars
        /\ verdict[Prober] \in Status \ {"killed", "raised"}
    BY <1>0, <1>7 DEF Collect, Placed
  <2>2. verdict[Prober] \in {"skipped_exists", "verified_after_timeout"}
           => Stored(at[Prober])
    BY <1>0, <2>1 DEF Backing, Stored, Calls, Evidence, HonestVerdict
  <2>3. verdict[Prober] = "written" => Stored(at[Prober])
    BY <1>0, <2>1 DEF Backing, Stored, Calls, Own
  <2>4. verdict[Prober] \in Outcome
    BY <2>1 DEF Outcome
  <2>5. QED
    BY <1>1, <2>1, <2>2, <2>3, <2>4 DEF Good
<1>8. CASE Proceed(Prober) /\ UNCHANGED importVars
  BY <1>8, CallBacked
<1>9. CASE Abort(Prober) \/ Finish(Prober)
  BY <1>0, <1>9 DEF Abort, Finish, ImportTyped
<1>10. QED
  BY <1>2, <1>3, <1>4, <1>5, <1>6, <1>7, <1>8, <1>9 DEF ImportStep

\* An import that ends and exits 0 leaves a record of every fact in the bank.
LEMMA ImportStored ==
    ASSUME Calls, Runs, Backing, ImportStep(Prober), phase'[Prober] = "off",
           phase[Prober] # "off"
    PROVE  /\ exit'[Prober] \in {"ok", "failed"}
           /\ exit'[Prober] = "ok" => \A i \in DOMAIN Facts : Stored(i)'
<1> USE ProbeAssumption, ImportAssumption, FactsAreIds
<1>0. /\ Prober \in Writer /\ ImportTyped /\ RunOK(Prober) /\ Placed(Prober)
  BY DEF Calls, Runs, RunOK
<1>1. Finish(Prober)
  BY <1>0 DEF ImportStep, RejectFact, Lookup, SearchHit, WouldWrite, Call, Collect, Abort,
     Record, ImportTyped, importVars
<1>2. /\ phase[Prober] = "fact" /\ at[Prober] > Len(Facts)
      /\ exit'[Prober] = ExitCode(outcomes[Prober]) /\ bank' = bank
      /\ UNCHANGED <<dry, bad>>
  BY <1>0, <1>1 DEF Finish, CloseImport, serverVars, ImportTyped
<1>3. /\ outcomes[Prober] \in Seq(Outcome)
      /\ at[Prober] \in 1 .. (Len(Facts) + 1) /\ Len(outcomes[Prober]) = at[Prober] - 1
  BY <1>0, <1>2 DEF ImportTyped, Placed
<1>4. DOMAIN outcomes[Prober] = DOMAIN Facts
  BY <1>2, <1>3
<1>5. ASSUME exit'[Prober] = "ok", NEW i \in DOMAIN Facts PROVE Stored(i)
  <2>1. outcomes[Prober][i] \in Outcome
    BY <1>3, <1>4
  <2>2. outcomes[Prober][i] \notin {"timeout_unverified", "invalid"}
    BY <1>2, <1>4, <1>5 DEF ExitCode
  <2>3. outcomes[Prober][i] # "would_write"
    BY <1>0, <1>4 DEF RunOK, Counted, Backing
  <2>4. outcomes[Prober][i] \in Good
    BY <2>1, <2>2, <2>3 DEF Outcome, Status, Good
  <2>5. QED
    BY <1>4, <2>4 DEF Backing
<1>6. QED
  BY <1>2, <1>5 DEF ExitCode, Stored, Of

\* Where a run stands, and why it may say that a query failed.
Heard ==
    /\ \A r \in Req : flight[r] # "empty"
    /\ stage \in {"import", "collect"} => ok
    /\ stage = "import" => phase[Prober] # "off" /\ Backing
    /\ stage \in {"collect"} \cup Asking => exit[Prober] \in {"ok", "failed"}
    /\ stage \in ({"collect"} \cup Asking) \ {"cleanup"} =>
          (exit[Prober] = "ok" => \A i \in DOMAIN Facts : Stored(i))
    /\ stage \in Query /\ exit[Prober] = "ok" /\ ~blind =>
          \A i \in DOMAIN Facts : i < next => pool \cap Of(Facts[i]) # {}
    /\ stage = "scan" /\ exit[Prober] = "ok" => blind
    /\ stage \in Asking /\ ~ok => exit[Prober] = "failed" \/ blind
    /\ result = "fail" => exit[Prober] = "failed" \/ blind

LEMMA FactOfEach ==
    /\ \E i \in DOMAIN Facts : Facts[i] = Latest
    /\ \E i \in DOMAIN Facts : Facts[i] = OpenItem
    /\ \E i \in DOMAIN Facts : Facts[i] \in Contact
<1>1. {Latest, OpenItem} \cup Contact \subseteq {Facts[i] : i \in DOMAIN Facts}
  BY ProbeAssumption
<1>2. \E e : e \in Contact
  BY ProbeAssumption
<1>3. QED
  BY <1>1, <1>2

LEMMA HeardStep ==
    Steady /\ Calls /\ Runs /\ Swept /\ Heard /\ [ProbeNext]_everyVar => Heard'
<1> SUFFICES ASSUME Steady, Calls, Runs, Swept, Heard, [ProbeNext]_everyVar PROVE Heard'
  OBVIOUS
<1> USE FactsAreIds, ProbeAssumption, ImportAssumption DEF Asking, Query
<1>0. /\ Prober \in Writer /\ Typed /\ ImportTyped /\ RunOK(Prober)
      /\ Prober \in Importer
  BY DEF Calls, Runs
<1>1. CASE DryRun
  BY <1>1 DEF DryRun, End, Enter, Stay, allVars, importVars, vars, serverVars, Heard
<1>2. CASE StartProbe
  <2>0. /\ stage' = "import" /\ ok' = TRUE /\ result' = "none" /\ ~dry'[Prober]
        /\ Begin(Prober)
    BY <1>2 DEF StartProbe, Enter
  <2>1. /\ phase'[Prober] = "fact" /\ outcomes'[Prober] = <<>>
        /\ pc'[Prober] = "idle" /\ UNCHANGED <<flight, bank>>
    BY <1>0, <2>0 DEF Begin, OpenImport, serverVars, clientVars, ImportTyped
  <2>2. cache'[Prober] \subseteq bank
    BY <1>0, <1>2 DEF StartProbe, Begin, OpenImport, Listing, Typed, TypeOK
  <2>3. Backing'
    BY <2>0, <2>1, <2>2 DEF Backing, Busy
  <2>4. QED
    BY <2>0, <2>1, <2>3 DEF Heard
<1>3. ASSUME Fail, \A r \in Req : flight'[r] # "empty" PROVE Heard'
  BY <1>3 DEF Fail, End, Enter, Heard
<1>4. CASE Import
  <2>1. \A r \in Req : flight'[r] # "empty"
    <3>1. CASE Send(Prober)
      BY <1>0, <3>1 DEF Send, Heard, Typed, TypeOK
    <3>2. CASE ~Send(Prober)
      BY <1>4, <3>2 DEF Import, ImportStep, RejectFact, Lookup, SearchHit, WouldWrite,
         Call, Collect, Abort, Finish, CloseImport, Start, vars, serverVars, Proceed,
         FindInList, FindBySearch, SearchRaises, ListRaises, Answered, Recache, TimeOut,
         PostRaises, Poll, GiveUp, Heard
    <3>3. QED
      BY <3>1, <3>2
  <2>2. stage = "import" /\ phase[Prober] # "off" /\ Backing /\ ImportStep(Prober)
    BY <1>4 DEF Import, Heard
  <2>3. CASE phase'[Prober] \notin {"off", "aborted"}
    <3>1. Backing'
      BY <2>2, <2>3, RunBacked DEF Heard
    <3>2. UNCHANGED probeVars
      BY <1>4, <2>3 DEF Import
    <3>3. QED
      BY <2>1, <2>2, <2>3, <3>1, <3>2 DEF Heard, Swept, probeVars, stageVars, seenVars
  <2>4. CASE phase'[Prober] = "off"
    <3>1. /\ exit'[Prober] \in {"ok", "failed"}
          /\ exit'[Prober] = "ok" => \A i \in DOMAIN Facts : Stored(i)'
      BY <2>2, <2>4, ImportStored
    <3>2. stage' = "collect" /\ UNCHANGED <<ok, result>>
      BY <1>4, <2>4 DEF Import, Enter
    <3>3. QED
      BY <2>1, <2>2, <3>1, <3>2 DEF Heard, Swept
  <2>5. CASE phase'[Prober] = "aborted"
    BY <1>3, <1>4, <2>1, <2>5 DEF Import
  <2>6. QED
    BY <2>3, <2>4, <2>5
<1>5. CASE Fetch
  <2>1. /\ UNCHANGED <<bank, flight, exit, phase, ok, result, stage>>
        /\ next' = next + 1 /\ next \in DOMAIN Facts /\ stage \in {"collect"} \cup Query
    BY <1>5 DEF Fetch, allVars, vars, serverVars, importVars
  <2>2. pool \subseteq pool' /\ (blind => blind')
    <3>1. CASE \E r \in bank \cap Of(Id(next)) : pool' = pool \cup {r} /\ blind' = blind
      BY <3>1
    <3>2. CASE pool' = pool /\ blind' = blind
      BY <3>2
    <3>3. CASE pool' = pool /\ blind' = (blind \/ bank \cap Of(Id(next)) # {})
      BY <3>3
    <3>4. QED
      BY <1>5, <3>1, <3>2, <3>3 DEF Fetch
  <2>3. ASSUME stage \in Query, exit[Prober] = "ok", ~blind',
               NEW i \in DOMAIN Facts, i < next + 1
        PROVE  pool' \cap Of(Facts[i]) # {}
    <3>1. CASE i < next
      BY <2>2, <2>3, <3>1 DEF Heard
    <3>2. CASE i = next
      <4>1. bank \cap Of(Id(next)) # {}
        BY <2>3, <3>2 DEF Heard, Stored, Id
      <4>2. QED
        BY <1>5, <2>3, <3>2, <4>1 DEF Fetch, Id
    <3>3. QED
      BY <2>1, <2>3, <3>1, <3>2
  <2>4. QED
    BY <2>1, <2>2, <2>3 DEF Heard, Stored, Of
<1>6. CASE Collected \/ Ask
  <2>1. /\ UNCHANGED <<bank, flight, exit, phase, ok, result, blind>>
        /\ \/ stage = "collect" /\ stage' = "recency" /\ next' = 0
           \/ stage \in Query /\ stage' = stage /\ next' = 1
    BY <1>6 DEF Collected, Ask, Stay, Enter, seenVars, allVars, vars, serverVars, importVars
  <2>2. \A i \in DOMAIN Facts : ~(i < next')
    BY <2>1
  <2>3. QED
    BY <2>1, <2>2 DEF Heard, Stored, Of
<1>7. CASE Judge
  <2>1. /\ UNCHANGED <<bank, flight, exit, phase, result, blind>>
        /\ stage \in Query /\ stage' = AfterQuery /\ next > Len(Facts)
        /\ next' \in {0, 1}
    BY <1>7 DEF Judge, Enter, allVars, vars, serverVars, importVars
  <2>2. ASSUME exit[Prober] = "ok", ~blind, ok PROVE ok'
    <3>1. \A i \in DOMAIN Facts : pool \cap Of(Facts[i]) # {}
      BY <2>1, <2>2 DEF Heard, Swept
    <3>2. pool # {}
      BY <3>1, FactOfEach
    <3>3. \A i \in DOMAIN Facts : Facts[i] \in Keys(pool)
      BY <3>1 DEF Keys, Of
    <3>5. Passed(pool)
      BY <3>3, CompletePasses
    <3>6. PICK answer : ok' = (ok /\ Passed(answer)) /\ answer = pool
      BY <1>7, <3>2 DEF Judge, Merged
    <3>7. QED
      BY <2>2, <3>5, <3>6
  <2>3. stage' \in {"followup", "entity", "cleanup"}
        /\ (stage' \in Query => next' = 0)
    BY <1>7, <2>1 DEF AfterQuery, Judge, Enter
  <2>4. ~ok => ~ok'
    BY <1>7 DEF Judge
  <2>5. QED
    BY <2>1, <2>2, <2>3, <2>4 DEF Heard, Stored, Of
<1>8. CASE FollowUp \/ Scan
  <2>1. /\ UNCHANGED <<bank, flight, exit, phase, result>> /\ (blind => blind')
        /\ stage \in {"followup", "scan"} /\ stage' \in {"vector", "scan"} /\ next' = 0
        /\ stage' = "scan" => blind' \/ bank \cap Of(OpenItem) = {}
        /\ ok /\ ~ok' => stage = "scan" \/ bank \cap Of(OpenItem) = {}
        /\ ok' => ok
    <3>1. CASE FollowUp
      <4>1. /\ UNCHANGED <<bank, flight, exit, phase, result>> /\ next' = 0
            /\ stage = "followup" /\ stage' \in {"vector", "scan"}
        BY <3>1 DEF FollowUp, Stay, Enter, allVars, vars, serverVars, importVars
      <4>2. CASE bank \cap Of(OpenItem) # {} /\ stage' = "vector" /\ UNCHANGED <<ok, blind>>
        BY <4>1, <4>2
      <4>3. CASE bank \cap Of(OpenItem) = {} /\ stage' = "vector" /\ ~ok' /\ UNCHANGED blind
        BY <4>1, <4>3
      <4>4. CASE /\ blind' = (blind \/ bank \cap Of(OpenItem) # {})
                 /\ stage' = "scan" /\ UNCHANGED ok
        BY <4>1, <4>4
      <4>5. QED
        BY <3>1, <4>2, <4>3, <4>4 DEF FollowUp, Enter
    <3>2. CASE Scan
      <4>1. /\ UNCHANGED <<bank, flight, exit, phase, result, blind>> /\ next' = 0
            /\ stage = "scan" /\ stage' = "vector"
        BY <3>2 DEF Scan, Stay, Enter, allVars, vars, serverVars, importVars
      <4>2. PICK mine : ok' = (ok /\ mine # {})
        BY <3>2 DEF Scan
      <4>3. QED
        BY <4>1, <4>2
    <3>3. QED
      BY <1>8, <3>1, <3>2
  <2>2. exit[Prober] = "ok" => bank \cap Of(OpenItem) # {}
    BY <2>1, FactOfEach DEF Heard, Stored
  <2>3. QED
    BY <2>1, <2>2 DEF Heard, Stored, Of
<1>9. CASE Erase
  BY <1>9 DEF Erase, seenVars, importVars, Heard
<1>10. CASE Report
  BY <1>10 DEF Report, End, Enter, Stay, seenVars, allVars, vars, serverVars, importVars,
     Heard
<1>11. ASSUME NEW q \in Req, World(q) PROVE Heard'
  <2>1. /\ bank \subseteq bank' /\ \A r \in Req : flight'[r] # "empty"
        /\ UNCHANGED <<clientVars, cacheVars, importVars, stageVars, seenVars>>
        /\ \A r \in Req : flight'[r] = "stored" /\ flight[r] # "stored" => r \in bank'
    BY <1>0, <1>11 DEF World, Server, Commit, ExtractNothing, Lose, Delete, Steady, Heard,
       Typed, TypeOK
  <2>2. Backing => Backing'
    BY <2>1 DEF Backing, Stored, Busy, Of, clientVars, cacheVars, importVars
  <2>3. \A i : Stored(i) => Stored(i)'
    BY <2>1 DEF Stored, Of
  <2>4. QED
    BY <2>1, <2>2, <2>3 DEF Heard, importVars, stageVars, seenVars, Of
<1>12. CASE UNCHANGED everyVar
  BY <1>12 DEF everyVar, probeVars, stageVars, seenVars, allVars, vars, clientVars,
     cacheVars, serverVars, importVars, Heard, Backing, Stored, Busy, Of
<1>13. CASE QueryRaises \/ EraseRaises
  BY <1>3, <1>13 DEF QueryRaises, EraseRaises, allVars, vars, serverVars, Heard
<1>14. CASE KillProbe
  BY <1>3, <1>14 DEF KillProbe, Kill, Crash, allVars, vars, serverVars, Heard
<1>15. QED
  BY <1>1, <1>2, <1>4, <1>5, <1>6, <1>7, <1>8, <1>9, <1>10, <1>11, <1>12, <1>13, <1>14
  DEF ProbeNext, ProbeStep

(***************************************************************************)
(* The probe fails only for a reason: its import could not account for a   *)
(* fact, or a failed search hid a record.  A bank full of other records,   *)
(* a similarity search that ranks the probe's last, capped lists, and what *)
(* an earlier run left never make it fail (acceptance_probe.py:167-230).   *)
(***************************************************************************)
THEOREM AlarmsFounded == ProbeSpec => []NoFalseAlarm
<1>1. CASE Steady
  <2>1. ProbeInit => Heard
    BY DEF ProbeInit, ImportInit, Init, Heard, Asking, Query
  <2>2. Heard => NoFalseAlarm
    BY DEF Heard, NoFalseAlarm
  <2>3. QED
    BY <1>1, <2>1, <2>2, HeardStep, ProbeAlways, PTL DEF ProbeSpec
<1>2. CASE ~Steady
  <2>1. NoFalseAlarm
    BY <1>2 DEF Steady, NoFalseAlarm
  <2>2. QED
    BY <2>1, PTL
<1>3. QED
  BY <1>1, <1>2
=============================================================================
