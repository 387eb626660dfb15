----------------------------- MODULE ImportProofs -----------------------------
(***************************************************************************)
(* Theorems about IdempotentWrite, for any set of writers, external ids    *)
(* and requests, any verification window and any combination of failures;  *)
(* and, on top of them, about BulkImport, for any importers and any list   *)
(* of facts: what an import run says of itself is true, and what it does   *)
(* not have to write it does not.                                          *)
(***************************************************************************)
EXTENDS BulkImport, TLAPS

\* The write path.

Typed == TypeOK /\ CallState

(***************************************************************************)
(* Every step keeps the types.  CallState is needed with them: only a call *)
(* that has an id may enter it into the history of its run, and only one   *)
(* that sent a request may read what became of it.                         *)
(***************************************************************************)
LEMMA TypedStep == Typed /\ [Next]_vars => Typed'
<1> SUFFICES ASSUME Typed, [Next]_vars PROVE Typed'
  OBVIOUS
<1> USE WriteAssumption DEF Typed, TypeOK, CallState, Busy
<1> USE DEF Return, Goto, Status, Of, Hits, Extended, clientVars, cacheVars,
            serverVars, historyVars
<1>1. ASSUME NEW w \in Writer, FindInList(w) PROVE Typed'
  BY <1>1 DEF FindInList, ReportHit
<1>2. ASSUME NEW w \in Writer, FindBySearch(w) PROVE Typed'
  BY <1>2 DEF FindBySearch, ReportHit, AfterMiss
<1>3. ASSUME NEW w \in Writer, SearchRaises(w) PROVE Typed'
  BY <1>3 DEF SearchRaises, AfterMiss
<1>4. ASSUME NEW w \in Writer, ListRaises(w) PROVE Typed'
  BY <1>4 DEF ListRaises
<1>5. ASSUME NEW w \in Writer, Send(w) PROVE Typed'
  BY <1>5 DEF Send
<1>6. ASSUME NEW w \in Writer, Answered(w) PROVE Typed'
  BY <1>6 DEF Answered
<1>7. ASSUME NEW w \in Writer, Recache(w) PROVE Typed'
  BY <1>7 DEF Recache
<1>8. ASSUME NEW w \in Writer, TimeOut(w) \/ PostRaises(w) PROVE Typed'
  BY <1>8 DEF TimeOut, PostRaises, EndRun
<1>9. ASSUME NEW w \in Writer, Poll(w) \/ GiveUp(w) PROVE Typed'
  BY <1>9 DEF Poll, GiveUp
<1>10. ASSUME NEW w \in Writer, OpenImport(w) PROVE Typed'
  BY <1>10 DEF OpenImport, Listing
<1>11. ASSUME NEW w \in Writer, CloseImport(w) \/ Crash(w) PROVE Typed'
  BY <1>11 DEF CloseImport, Crash, EndRun
<1>12. ASSUME NEW w \in Writer, NEW e \in Ext, Start(w, e) PROVE Typed'
  BY <1>12 DEF Start
<1>13. ASSUME NEW r \in Req, Server(r) PROVE Typed'
  BY <1>13 DEF Server, Commit, ExtractNothing, Lose, Delete
<1>14. CASE UNCHANGED vars
  BY <1>14 DEF vars
<1>15. QED
  BY <1>1, <1>2, <1>3, <1>4, <1>5, <1>6, <1>7, <1>8, <1>9, <1>10, <1>11,
     <1>12, <1>13, <1>14 DEF Next, Proceed, Caller

(***************************************************************************)
(* Type correctness of the write path: every variable keeps its type.      *)
(***************************************************************************)
THEOREM TypeCorrect == Spec => []TypeOK
<1>1. Init => Typed
  BY WriteAssumption DEF Init, Typed, TypeOK, CallState, Busy
<1>2. Typed => TypeOK
  BY DEF Typed
<1>3. QED
  BY <1>1, <1>2, TypedStep, PTL DEF Spec

-----------------------------------------------------------------------------
(* At most one record per undisturbed id.                                  *)

(***************************************************************************)
(* SettledCalls is inductive.  The two steps that carry the argument are   *)
(* FindBySearch, where an empty search and an id with nothing in flight    *)
(* mean that nothing is live, and Send, which turns exactly that knowledge *)
(* into a single live request; Start and SearchRaises put the ids they     *)
(* would break it for into contested and hidden.                           *)
(***************************************************************************)
LEMMA SettledStep == Typed /\ SettledCalls /\ [Next]_vars => SettledCalls'
<1> SUFFICES ASSUME Typed, SettledCalls, [Next]_vars PROVE SettledCalls'
  OBVIOUS
<1> USE WriteAssumption
    DEF Typed, TypeOK, CallState, Busy, SettledCalls, Undisturbed, Live,
        InFlight, Return, Goto, Of, Hits, clientVars, cacheVars, serverVars,
        historyVars
<1>1. ASSUME NEW w \in Writer, FindInList(w) PROVE SettledCalls'
  BY <1>1 DEF FindInList, ReportHit
<1>2. ASSUME NEW w \in Writer, FindBySearch(w) PROVE SettledCalls'
  BY <1>2 DEF FindBySearch, ReportHit, AfterMiss
<1>3. ASSUME NEW w \in Writer, SearchRaises(w) PROVE SettledCalls'
  BY <1>3 DEF SearchRaises, AfterMiss
<1>4. ASSUME NEW w \in Writer, ListRaises(w) PROVE SettledCalls'
  BY <1>4 DEF ListRaises
<1>5. ASSUME NEW w \in Writer, Send(w) PROVE SettledCalls'
  BY <1>5 DEF Send
<1>6. ASSUME NEW w \in Writer, Answered(w) PROVE SettledCalls'
  BY <1>6 DEF Answered
<1>7. ASSUME NEW w \in Writer, Recache(w) PROVE SettledCalls'
  BY <1>7 DEF Recache
<1>8. ASSUME NEW w \in Writer, TimeOut(w) \/ PostRaises(w) PROVE SettledCalls'
  BY <1>8 DEF TimeOut, PostRaises, EndRun
<1>9. ASSUME NEW w \in Writer, Poll(w) \/ GiveUp(w) PROVE SettledCalls'
  BY <1>9 DEF Poll, GiveUp
<1>10. ASSUME NEW w \in Writer, OpenImport(w) PROVE SettledCalls'
  BY <1>10 DEF OpenImport
<1>11. ASSUME NEW w \in Writer, CloseImport(w) \/ Crash(w) PROVE SettledCalls'
  BY <1>11 DEF CloseImport, Crash, EndRun
<1>12. ASSUME NEW w \in Writer, NEW e \in Ext, Start(w, e) PROVE SettledCalls'
  BY <1>12 DEF Start, Contended
<1>13. ASSUME NEW r \in Req, Server(r) PROVE SettledCalls'
  BY <1>13 DEF Server, Commit, ExtractNothing, Lose, Delete
<1>14. CASE UNCHANGED vars
  BY <1>14 DEF vars
<1>15. QED
  BY <1>1, <1>2, <1>3, <1>4, <1>5, <1>6, <1>7, <1>8, <1>9, <1>10, <1>11,
     <1>12, <1>13, <1>14 DEF Next, Proceed, Caller

(***************************************************************************)
(* The invariant of the write path that the theorems below rest on.        *)
(***************************************************************************)
LEMMA Inductive == Spec => [](Typed /\ SettledCalls)
<1>1. Init => Typed /\ SettledCalls
  BY WriteAssumption DEF Init, Typed, TypeOK, CallState, Busy, SettledCalls,
     Undisturbed, Live, InFlight, Of
<1>2. QED
  BY <1>1, TypedStep, SettledStep, PTL DEF Spec

(***************************************************************************)
(* An id whose calls never overlapped an unsettled one, and which no       *)
(* failed search hid, has at most one call under way and at most one       *)
(* record or request alive, and none at all while that call still looks.   *)
(***************************************************************************)
THEOREM CallsSettle == Spec => []SettledCalls
BY Inductive, PTL

(***************************************************************************)
(* No external id is stored twice, unless a call for it began before an    *)
(* earlier one had settled or a failed search hid its record: so crashes,  *)
(* lost requests, timeouts, stale import caches, truncated lists and       *)
(* re-runs by themselves never make add_memory_idempotent duplicate.       *)
(***************************************************************************)
THEOREM NoDuplicates == Spec => []SingleRecord
<1>1. Typed /\ SettledCalls => SingleRecord
  BY DEF Typed, TypeOK, SettledCalls, Undisturbed, Live, SingleRecord, Of
<1>2. QED
  BY <1>1, Inductive, PTL

-----------------------------------------------------------------------------
(* What calls report.                                                      *)

\* A verdict is read only after the call; whatever a cache holds was stored.
Evidence ==
    /\ HonestVerdict
    /\ \A w \in Writer :
          /\ Busy(w) => verdict[w] = "none"
          /\ verdict[w] = "written" => req[w] \in Req
          /\ \A r \in cache[w] : flight[r] = "stored"
          /\ pc[w] = "recache" => flight[req[w]] \in {"stored", "empty"}

LEMMA EvidenceStep ==
    Typed /\ SettledCalls /\ Evidence /\ [Next]_vars => Evidence'
<1> SUFFICES ASSUME Typed, SettledCalls, Evidence, [Next]_vars PROVE Evidence'
  OBVIOUS
<1> USE WriteAssumption
    DEF Typed, TypeOK, CallState, Busy, Evidence, HonestVerdict, Return, Goto,
        Of, Hits, Extended, clientVars, cacheVars, serverVars, historyVars
<1>0. \A r \in bank : flight[r] = "stored"
  BY DEF SettledCalls
<1>1. ASSUME NEW w \in Writer, FindInList(w) PROVE Evidence'
  <2>1. PICK items \in (IF w \in session THEN {cache[w]} ELSE Listing) :
          \/ \E r \in Hits(w, items) : ReportHit(w, r)
          \/ /\ Hits(w, items) = {}
             /\ Goto(w, IF pc[w] = "list" THEN "search" ELSE "pollSearch")
             /\ UNCHANGED <<cache, settled>>
    BY <1>1 DEF FindInList
  <2>2. \A r \in items : r \in Req /\ flight[r] = "stored"
    BY <1>0, <2>1 DEF Listing
  <2>3. UNCHANGED <<ext, req, polls, session, flight, bank>> /\ Busy(w)
    BY <1>1 DEF FindInList
  <2>4. ASSUME NEW r \in Hits(w, items), ReportHit(w, r) PROVE Evidence'
    BY <2>2, <2>3, <2>4 DEF ReportHit
  <2>5. QED
    BY <2>1, <2>3, <2>4
<1>2. ASSUME NEW w \in Writer, FindBySearch(w) PROVE Evidence'
  BY <1>0, <1>2 DEF FindBySearch, ReportHit, AfterMiss
<1>3. ASSUME NEW w \in Writer, SearchRaises(w) PROVE Evidence'
  BY <1>3 DEF SearchRaises, AfterMiss
<1>4. ASSUME NEW w \in Writer, ListRaises(w) PROVE Evidence'
  BY <1>4 DEF ListRaises
<1>5. ASSUME NEW w \in Writer, Send(w) PROVE Evidence'
  BY <1>5 DEF Send
<1>6. ASSUME NEW w \in Writer, Answered(w) PROVE Evidence'
  BY <1>6 DEF Answered
<1>7. ASSUME NEW w \in Writer, Recache(w) PROVE Evidence'
  BY <1>0, <1>7 DEF Recache
<1>8. ASSUME NEW w \in Writer, TimeOut(w) \/ PostRaises(w) PROVE Evidence'
  BY <1>8 DEF TimeOut, PostRaises, EndRun
<1>9. ASSUME NEW w \in Writer, Poll(w) \/ GiveUp(w) PROVE Evidence'
  BY <1>9 DEF Poll, GiveUp
<1>10. ASSUME NEW w \in Writer, OpenImport(w) PROVE Evidence'
  BY <1>0, <1>10 DEF OpenImport, Listing
<1>11. ASSUME NEW w \in Writer, CloseImport(w) \/ Crash(w) PROVE Evidence'
  BY <1>11 DEF CloseImport, Crash, EndRun
<1>12. ASSUME NEW w \in Writer, NEW e \in Ext, Start(w, e) PROVE Evidence'
  BY <1>12 DEF Start
<1>13. ASSUME NEW r \in Req, Server(r) PROVE Evidence'
  BY <1>13 DEF Server, Commit, ExtractNothing, Lose, Delete
<1>14. CASE UNCHANGED vars
  BY <1>14 DEF vars
<1>15. QED
  BY <1>1, <1>2, <1>3, <1>4, <1>5, <1>6, <1>7, <1>8, <1>9, <1>10, <1>11,
     <1>12, <1>13, <1>14 DEF Next, Proceed, Caller

(***************************************************************************)
(* A call's verdict is backed by the server: a record it names carries the *)
(* call's external id and was committed, although the call may have read   *)
(* it from an import run's old cache; "written" means its own POST was     *)
(* answered.                                                               *)
(***************************************************************************)
THEOREM VerdictsHonest == Spec => []HonestVerdict
<1>1. Init => Evidence
  BY WriteAssumption DEF Init, Evidence, HonestVerdict, Busy
<1>2. Evidence => HonestVerdict
  BY DEF Evidence
<1>3. QED
  BY <1>1, <1>2, Inductive, EvidenceStep, PTL DEF Spec

-----------------------------------------------------------------------------
(* What an import run remembers.                                           *)

\* A run's cache has an entry for every id it settled, and a call that got
\* past the cache did so because the cache has none.
Remembered ==
    \A w \in session :
        /\ \A e \in settled[w] : cache[w] \cap Of(e) # {}
        /\ pc[w] \in {"search", "send"} => cache[w] \cap Of(ext[w]) = {}

LEMMA RememberedStep ==
    Typed /\ Remembered /\ [Next]_vars => Remembered'
<1> SUFFICES ASSUME Typed, Remembered, [Next]_vars PROVE Remembered'
  OBVIOUS
<1> USE WriteAssumption
    DEF Typed, TypeOK, CallState, Busy, Remembered, Return, Goto,
        Of, Hits, Extended, clientVars, cacheVars, serverVars, historyVars
<1>1. ASSUME NEW w \in Writer, FindInList(w) PROVE Remembered'
  BY <1>1 DEF FindInList, ReportHit
<1>2. ASSUME NEW w \in Writer, FindBySearch(w) PROVE Remembered'
  BY <1>2 DEF FindBySearch, ReportHit, AfterMiss
<1>3. ASSUME NEW w \in Writer, SearchRaises(w) PROVE Remembered'
  BY <1>3 DEF SearchRaises, AfterMiss
<1>4. ASSUME NEW w \in Writer, ListRaises(w) PROVE Remembered'
  BY <1>4 DEF ListRaises
<1>5. ASSUME NEW w \in Writer, Send(w) PROVE Remembered'
  BY <1>5 DEF Send
<1>6. ASSUME NEW w \in Writer, Answered(w) PROVE Remembered'
  BY <1>6 DEF Answered
<1>7. ASSUME NEW w \in Writer, Recache(w) PROVE Remembered'
  BY <1>7 DEF Recache
<1>8. ASSUME NEW w \in Writer, TimeOut(w) \/ PostRaises(w) PROVE Remembered'
  BY <1>8 DEF TimeOut, PostRaises, EndRun
<1>9. ASSUME NEW w \in Writer, Poll(w) \/ GiveUp(w) PROVE Remembered'
  BY <1>9 DEF Poll, GiveUp
<1>10. ASSUME NEW w \in Writer, OpenImport(w) PROVE Remembered'
  BY <1>10 DEF OpenImport, Listing
<1>11. ASSUME NEW w \in Writer, CloseImport(w) \/ Crash(w) PROVE Remembered'
  BY <1>11 DEF CloseImport, Crash, EndRun
<1>12. ASSUME NEW w \in Writer, NEW e \in Ext, Start(w, e) PROVE Remembered'
  BY <1>12 DEF Start
<1>13. ASSUME NEW r \in Req, Server(r) PROVE Remembered'
  BY <1>13 DEF Server, Commit, ExtractNothing, Lose, Delete
<1>14. CASE UNCHANGED vars
  BY <1>14 DEF vars
<1>15. QED
  BY <1>1, <1>2, <1>3, <1>4, <1>5, <1>6, <1>7, <1>8, <1>9, <1>10, <1>11,
     <1>12, <1>13, <1>14 DEF Next, Proceed, Caller

(***************************************************************************)
(* An import run never POSTs an id again once it saw the first POST of it  *)
(* stored, whatever fails or is deleted meanwhile.                         *)
(***************************************************************************)
THEOREM RunsNeverRepeat == Spec => []RunNeverRepeats
<1>1. Init => Remembered
  BY DEF Init, Remembered
<1>2. Typed /\ Remembered => RunNeverRepeats
  BY DEF Typed, TypeOK, Remembered, RunNeverRepeats
<1>3. QED
  BY <1>1, <1>2, Inductive, RememberedStep, PTL DEF Spec

-----------------------------------------------------------------------------
(* The write path implements AtMostOnce.                                   *)

(***************************************************************************)
(* Every step is a step of AtMostOnce or leaves its state alone: Send is   *)
(* Issue, whose guard is what Undisturbed says of a call about to send;    *)
(* Commit, ExtractNothing and Lose are Settle; Start and SearchRaises may  *)
(* be Lift.                                                                *)
(***************************************************************************)
LEMMA PromiseStep ==
    Typed /\ SettledCalls /\ [Next]_vars => [Promise!Next]_Promise!vars
<1> SUFFICES ASSUME Typed, SettledCalls, [Next]_vars
             PROVE  [Promise!Next]_Promise!vars
  OBVIOUS
<1> USE WriteAssumption
    DEF Typed, TypeOK, CallState, Busy, Return, Goto, Of, Hits, Extended,
        clientVars, cacheVars, serverVars, historyVars, Promise!vars
<1>1. ASSUME NEW w \in Writer, FindInList(w) PROVE [Promise!Next]_Promise!vars
  BY <1>1 DEF FindInList, ReportHit
<1>2. ASSUME NEW w \in Writer, FindBySearch(w) PROVE [Promise!Next]_Promise!vars
  BY <1>2 DEF FindBySearch, ReportHit, AfterMiss
<1>3. ASSUME NEW w \in Writer, SearchRaises(w) PROVE [Promise!Next]_Promise!vars
  <2>1. \/ Promise!Lift(ext[w]) /\ ext[w] \in Ext
        \/ UNCHANGED Promise!vars
    BY <1>3 DEF SearchRaises, AfterMiss, Promise!Lift
  <2>2. QED
    BY <2>1 DEF Promise!Next
<1>4. ASSUME NEW w \in Writer, ListRaises(w) PROVE [Promise!Next]_Promise!vars
  BY <1>4 DEF ListRaises
<1>5. ASSUME NEW w \in Writer, Send(w) PROVE [Promise!Next]_Promise!vars
  <2>1. PICK r \in Of(ext[w]) :
            /\ flight[r] = "unused"
            /\ flight' = [flight EXCEPT ![r] = "inflight"]
    BY <1>5 DEF Send
  <2>2. /\ pc[w] = "send"
        /\ r \in Req
        /\ KeyOf[r] = ext[w]
        /\ ext[w] \in Ext
        /\ UNCHANGED <<bank, contested, hidden>>
    BY <1>5 DEF Send
  <2>3. r \notin {q \in Req : flight[q] = "inflight"} \cup bank
    BY <2>1, <2>2 DEF SettledCalls
  <2>4. \/ KeyOf[r] \in contested \cup hidden
        \/ Promise!Same(r) \cap ({q \in Req : flight[q] = "inflight"} \cup bank) = {}
    BY <2>2 DEF SettledCalls, Undisturbed, Live, Promise!Same
  <2>5. {q \in Req : flight[q] = "inflight"}'
            = {q \in Req : flight[q] = "inflight"} \cup {r}
    BY <2>1, <2>2
  <2>6. Promise!Issue(r)
    BY <2>2, <2>3, <2>4, <2>5 DEF Promise!Issue
  <2>7. QED
    BY <2>2, <2>6 DEF Promise!Next
<1>6. ASSUME NEW w \in Writer, Answered(w) PROVE [Promise!Next]_Promise!vars
  BY <1>6 DEF Answered
<1>7. ASSUME NEW w \in Writer, Recache(w) PROVE [Promise!Next]_Promise!vars
  BY <1>7 DEF Recache
<1>8. ASSUME NEW w \in Writer, TimeOut(w) \/ PostRaises(w) PROVE [Promise!Next]_Promise!vars
  BY <1>8 DEF TimeOut, PostRaises, EndRun
<1>9. ASSUME NEW w \in Writer, Poll(w) \/ GiveUp(w) PROVE [Promise!Next]_Promise!vars
  BY <1>9 DEF Poll, GiveUp
<1>10. ASSUME NEW w \in Writer, OpenImport(w) PROVE [Promise!Next]_Promise!vars
  BY <1>10 DEF OpenImport, Listing
<1>11. ASSUME NEW w \in Writer, CloseImport(w) \/ Crash(w) PROVE [Promise!Next]_Promise!vars
  BY <1>11 DEF CloseImport, Crash, EndRun
<1>12. ASSUME NEW w \in Writer, NEW e \in Ext, Start(w, e) PROVE [Promise!Next]_Promise!vars
  <2>1. Promise!Lift(e) \/ UNCHANGED Promise!vars
    BY <1>12 DEF Start, Promise!Lift
  <2>2. QED
    BY <2>1 DEF Promise!Next
<1>13. ASSUME NEW r \in Req, Server(r) PROVE [Promise!Next]_Promise!vars
  <2>1. CASE Commit(r) \/ ExtractNothing(r) \/ Lose(r)
    <3>1. {q \in Req : flight[q] = "inflight"}'
              = {q \in Req : flight[q] = "inflight"} \ {r}
      BY <2>1 DEF Commit, ExtractNothing, Lose
    <3>2. Promise!Settle(r)
      BY <2>1, <3>1 DEF Commit, ExtractNothing, Lose, Promise!Settle
    <3>3. QED
      BY <3>2 DEF Promise!Next
  <2>2. CASE Delete(r)
    <3>1. Promise!Remove(r)
      BY <2>2 DEF Delete, Promise!Remove
    <3>2. QED
      BY <3>1 DEF Promise!Next
  <2>3. QED
    BY <1>13, <2>1, <2>2 DEF Server
<1>14. CASE UNCHANGED vars
  BY <1>14 DEF vars
<1>15. QED
  BY <1>1, <1>2, <1>3, <1>4, <1>5, <1>6, <1>7, <1>8, <1>9, <1>10, <1>11,
     <1>12, <1>13, <1>14 DEF Next, Proceed, Caller

(***************************************************************************)
(* The write path refines AtMostOnce: no request for an id that is neither *)
(* contested nor hidden is ever issued while the server holds or still     *)
(* processes anything for it.                                              *)
(***************************************************************************)
THEOREM Refinement == Spec => ImplementsAtMostOnce
<1>1. Init => Promise!Init
  BY DEF Init, Promise!Init
<1>2. QED
  BY <1>1, PromiseStep, Inductive, PTL DEF Spec, Promise!Spec, ImplementsAtMostOnce

-----------------------------------------------------------------------------
\* The importer.

ImportTyped ==
    /\ phase \in [Importer -> {"off", "fact", "search", "call", "aborted"}]
    /\ at \in [Importer -> 1 .. (Len(Facts) + 1)]
    /\ dry \in [Importer -> BOOLEAN]
    /\ bad \in [Importer -> SUBSET Doubtful]
    /\ outcomes \in [Importer -> Seq(Outcome)]
    /\ exit \in [Importer -> {"none", "ok", "failed"}]
    /\ preloaded \in [Importer -> BOOLEAN]

\* Where run w stands: one outcome per fact it has handled; it is in a call only
\* for the fact at hand, a valid one, and only if this is no dry run.
Placed(w) ==
    /\ phase[w] \in {"fact", "search", "call"} => Len(outcomes[w]) = at[w] - 1
    /\ phase[w] \in {"search", "call"} => at[w] \in DOMAIN Facts \ bad[w]
    /\ phase[w] # "call" => ~Busy(w)
    /\ phase[w] = "call" => ~dry[w] /\ ext[w] = Facts[at[w]]
    /\ phase[w] = "call" /\ ~Busy(w) => verdict[w] \in Status \ {"killed"}

\* Each outcome collected so far is backed by the server.
Counted(w) ==
    \A i \in DOMAIN outcomes[w] :
        /\ i \in bad[w] => outcomes[w][i] = "invalid"
        /\ outcomes[w][i] = "would_write" => dry[w]
        /\ outcomes[w][i] \in {"skipped_exists", "written", "verified_after_timeout"}
              => Accounted(i)

Concluded(w) ==
    exit[w] = "ok" /\ ~dry[w] => bad[w] = {} /\ \A i \in DOMAIN Facts : Accounted(i)

\* Once the opening list has every valid fact, the cache always has.
Saved(w) ==
    preloaded[w] =>
        /\ phase[w] \notin {"search", "call"}
        /\ phase[w] = "fact" =>
              \A i \in DOMAIN Facts \ bad[w] : cache[w] \cap Of(Facts[i]) # {}

RunOK(w) == Placed(w) /\ Counted(w) /\ Concluded(w) /\ Saved(w)

\* A call that was answered sent a request for its id; a cache ends with its run.
Own ==
    \A w \in Writer :
        /\ verdict[w] = "written" => req[w] \in Of(ext[w])
        /\ w \notin session => cache[w] = {}

Calls == Typed /\ SettledCalls /\ Evidence /\ Own

(***************************************************************************)
(* What the steps of the write path leave alone.                           *)
(***************************************************************************)
\* What the server made of a request, it made of it.
LEMMA FlightsStay ==
    ASSUME Typed, [Next]_vars, NEW r \in Req, flight[r] \in {"stored", "empty"}
    PROVE  flight'[r] = flight[r]
<1> USE DEF Typed, TypeOK, clientVars, cacheVars, serverVars, historyVars
<1>1. ASSUME NEW w \in Writer, Proceed(w) PROVE flight'[r] = flight[r]
  <2>1. CASE Send(w)
    BY <2>1 DEF Send
  <2>2. CASE ~Send(w)
    BY <1>1, <2>2 DEF Proceed, FindInList, FindBySearch, SearchRaises, ListRaises,
       Answered, Recache, TimeOut, PostRaises, Poll, GiveUp
  <2>3. QED
    BY <2>1, <2>2
<1>2. ASSUME NEW w \in Writer, Caller(w) PROVE flight'[r] = flight[r]
  BY <1>2 DEF Caller, OpenImport, CloseImport, Crash, Start
<1>3. ASSUME NEW q \in Req, Server(q) PROVE flight'[r] = flight[r]
  BY <1>3 DEF Server, Commit, ExtractNothing, Lose, Delete
<1>4. QED
  BY <1>1, <1>2, <1>3 DEF Next, vars

\* A writer's steps are its own.
LEMMA Private ==
    ASSUME Typed, NEW w \in Writer, Proceed(w) \/ Caller(w), NEW v \in Writer \ {w}
    PROVE  /\ pc'[v] = pc[v] /\ ext'[v] = ext[v]
           /\ verdict'[v] = verdict[v] /\ cache'[v] = cache[v]
<1> USE DEF Typed, TypeOK, clientVars, cacheVars, serverVars, historyVars, Return,
            Goto, ReportHit, Extended, EndRun
<1>1. CASE Proceed(w)
  BY <1>1 DEF Proceed, FindInList, FindBySearch, SearchRaises, ListRaises, Send,
     Answered, Recache, TimeOut, PostRaises, Poll, GiveUp
<1>2. CASE Caller(w)
  BY <1>2 DEF Caller, OpenImport, CloseImport, Crash, Start
<1>3. QED
  BY <1>1, <1>2

\* A call goes on, for its id, or returns with a status.
LEMMA CallGoesOn ==
    ASSUME Typed, NEW w \in Writer, Proceed(w)
    PROVE  /\ Busy(w) /\ ext'[w] = ext[w]
           /\ ~Busy(w)' => verdict'[w] \in Status \ {"killed"}
<1> USE DEF Typed, TypeOK, clientVars, cacheVars, serverVars, historyVars, Return,
            Goto, ReportHit, EndRun, Busy, Status, AfterMiss
<1>1. CASE FindInList(w) \/ FindBySearch(w) \/ SearchRaises(w) \/ ListRaises(w)
  BY <1>1 DEF FindInList, FindBySearch, SearchRaises, ListRaises
<1>2. CASE Send(w) \/ Answered(w) \/ Recache(w)
  BY <1>2 DEF Send, Answered, Recache
<1>3. CASE TimeOut(w) \/ PostRaises(w) \/ Poll(w) \/ GiveUp(w)
  BY <1>3 DEF TimeOut, PostRaises, Poll, GiveUp
<1>4. QED
  BY <1>1, <1>2, <1>3 DEF Proceed

LEMMA OwnStep == Typed /\ Evidence /\ Own /\ [Next]_vars => Own'
<1> SUFFICES ASSUME Typed, Evidence, Own, [Next]_vars PROVE Own'
  OBVIOUS
<1> USE DEF Typed, TypeOK, CallState, Busy, Evidence, Own, Return, Goto, EndRun,
            Extended, clientVars, cacheVars, serverVars, historyVars
<1>1. ASSUME NEW w \in Writer, FindInList(w) \/ FindBySearch(w) PROVE Own'
  BY <1>1 DEF FindInList, FindBySearch, ReportHit, AfterMiss
<1>2. ASSUME NEW w \in Writer, SearchRaises(w) \/ ListRaises(w) PROVE Own'
  BY <1>2 DEF SearchRaises, ListRaises
<1>3. ASSUME NEW w \in Writer, Send(w) PROVE Own'
  BY <1>3 DEF Send
<1>4. ASSUME NEW w \in Writer, Answered(w) \/ Recache(w) PROVE Own'
  BY <1>4 DEF Answered, Recache
<1>5. ASSUME NEW w \in Writer, TimeOut(w) \/ PostRaises(w) PROVE Own'
  BY <1>5 DEF TimeOut, PostRaises
<1>6. ASSUME NEW w \in Writer, Poll(w) \/ GiveUp(w) PROVE Own'
  BY <1>6 DEF Poll, GiveUp
<1>7. ASSUME NEW w \in Writer, Caller(w) PROVE Own'
  <2>1. CASE OpenImport(w)
    BY <2>1 DEF OpenImport
  <2>2. CASE CloseImport(w)
    BY <2>2 DEF CloseImport
  <2>3. CASE Crash(w)
    BY <2>3 DEF Crash
  <2>4. ASSUME NEW e \in Ext, Start(w, e) PROVE Own'
    BY <2>4 DEF Start
  <2>5. QED
    BY <1>7, <2>1, <2>2, <2>3, <2>4 DEF Caller
<1>8. ASSUME NEW r \in Req, Server(r) PROVE Own'
  BY <1>8 DEF Server, Commit, ExtractNothing, Lose, Delete
<1>9. QED
  BY <1>1, <1>2, <1>3, <1>4, <1>5, <1>6, <1>7, <1>8 DEF Next, Proceed, vars

(***************************************************************************)
(* An import is one of the writers of the write path.                      *)
(***************************************************************************)
LEMMA FactsAreIds ==
    /\ Len(Facts) \in Nat /\ DOMAIN Facts = 1 .. Len(Facts)
    /\ \A i \in DOMAIN Facts : Facts[i] \in Ext
BY ImportAssumption

LEMMA ImportIsNext ==
    ASSUME Typed, Own, \A w \in Importer : Placed(w), ImportTyped, [ImportNext]_allVars
    PROVE  [Next]_vars
<1> USE ImportAssumption
<1>1. ASSUME NEW w \in Importer, Begin(w) PROVE Next
  BY <1>1 DEF Begin, Next, Caller
<1>2. ASSUME NEW w \in Importer, Call(w) PROVE Next
  <2>1. Start(w, Facts[at[w]]) /\ Facts[at[w]] \in Ext
    BY <1>2, FactsAreIds DEF Call, Miss, Fact, Placed
  <2>2. QED
    BY <2>1 DEF Next, Caller
<1>3. ASSUME NEW w \in Importer, Finish(w) PROVE Next
  BY <1>3 DEF Finish, Next, Caller
<1>4. ASSUME NEW w \in Importer, Kill(w) PROVE [Next]_vars
  <2>1. CASE Crash(w)
    BY <2>1 DEF Next, Caller
  <2>2. CASE ~Busy(w) /\ EndRun(w) /\ UNCHANGED <<clientVars, serverVars, historyVars>>
    <3>1. CASE w \in session
      BY <2>2, <3>1 DEF Next, Caller, CloseImport, Busy, Typed, TypeOK
    <3>2. CASE w \notin session
      <4>1. cache[w] = {}
        <5>1. w \in Writer
          OBVIOUS
        <5>2. QED
          BY <3>2, <5>1 DEF Own
      <4>2. QED
        BY <2>2, <3>2, <4>1 DEF EndRun, vars, cacheVars, Typed, TypeOK
    <3>3. QED
      BY <3>1, <3>2
  <2>3. QED
    BY <1>4, <2>1, <2>2 DEF Kill
<1>5. ASSUME NEW w \in Importer, ImportStep(w) PROVE [Next]_vars
  BY <1>2, <1>3, <1>5 DEF ImportStep, RejectFact, Lookup, SearchHit, WouldWrite, Collect,
     Abort, Next
<1>6. QED
  BY <1>1, <1>4, <1>5 DEF ImportNext, Next, Caller, allVars

(***************************************************************************)
(* RunOK is inductive.                                                     *)
(***************************************************************************)
LEMMA ImportTypedStep ==
    ASSUME Typed, ImportTyped, \A w \in Importer : Placed(w), [ImportNext]_allVars
    PROVE  ImportTyped'
<1> USE FactsAreIds, ImportAssumption DEF ImportTyped, importVars
<1>1. ASSUME NEW w \in Importer, Begin(w) PROVE ImportTyped'
  BY <1>1 DEF Begin
<1>2. ASSUME NEW w \in Importer, NEW status \in Outcome, at[w] \in DOMAIN Facts,
             Record(w, status)
      PROVE  ImportTyped'
  BY <1>2 DEF Record
<1>3. ASSUME NEW w \in Importer, RejectFact(w) \/ Lookup(w) PROVE ImportTyped'
  <2>1. "invalid" \in Outcome /\ "skipped_exists" \in Outcome
    BY DEF Outcome, Status
  <2>2. QED
    BY <1>2, <1>3, <2>1 DEF RejectFact, Lookup, AtFact
<1>4. ASSUME NEW w \in Importer, SearchHit(w) \/ WouldWrite(w) PROVE ImportTyped'
  <2>1. "would_write" \in Outcome /\ "skipped_exists" \in Outcome
    BY DEF Outcome, Status
  <2>2. QED
    BY <1>2, <1>4, <2>1 DEF SearchHit, WouldWrite, Miss, Placed
<1>5. ASSUME NEW w \in Importer, Call(w) PROVE ImportTyped'
  BY <1>5 DEF Call
<1>6. ASSUME NEW w \in Importer, Collect(w) PROVE ImportTyped'
  <2>1. verdict[w] \in Outcome /\ at[w] \in DOMAIN Facts
    BY <1>6 DEF Collect, Placed, Outcome, Status
  <2>2. QED
    BY <1>2, <1>6, <2>1 DEF Collect
<1>7. ASSUME NEW w \in Importer, Abort(w) \/ Kill(w) PROVE ImportTyped'
  <2>1. <<>> \in Seq(Outcome)
    OBVIOUS
  <2>2. CASE Abort(w)
    BY <2>1, <2>2 DEF Abort
  <2>3. CASE Kill(w)
    BY <2>1, <2>3 DEF Kill
  <2>4. QED
    BY <1>7, <2>2, <2>3
<1>8. ASSUME NEW w \in Importer, Finish(w) PROVE ImportTyped'
  <2>1. ExitCode(outcomes[w]) \in {"ok", "failed"} /\ <<>> \in Seq(Outcome)
    BY DEF ExitCode
  <2>2. QED
    BY <1>8, <2>1 DEF Finish
<1>9. CASE UNCHANGED importVars
  BY <1>9
<1>10. QED
  BY <1>1, <1>3, <1>4, <1>5, <1>6, <1>7, <1>8, <1>9
  DEF ImportNext, ImportStep, allVars

\* A run that another step passes by.
LEMMA RunStays ==
    ASSUME Typed, [Next]_vars, NEW w \in Importer, RunOK(w),
           phase'[w] = phase[w], at'[w] = at[w], dry'[w] = dry[w], bad'[w] = bad[w],
           outcomes'[w] = outcomes[w], exit'[w] = exit[w],
           preloaded'[w] = preloaded[w],
           pc'[w] = pc[w], ext'[w] = ext[w], verdict'[w] = verdict[w],
           cache'[w] = cache[w]
    PROVE  RunOK(w)'
<1>1. \A i \in DOMAIN Facts : Accounted(i) => Accounted(i)'
  BY FlightsStay DEF Accounted, Of
<1>2. Placed(w)' /\ Saved(w)'
  BY DEF RunOK, Placed, Saved, Busy
<1>3. Concluded(w)'
  BY <1>1 DEF RunOK, Concluded
<1>4. Counted(w)'
  BY FlightsStay DEF RunOK, Counted, Accounted, Of
<1>5. QED
  BY <1>2, <1>3, <1>4 DEF RunOK

\* A step of run w leaves the other runs as they are.
LEMMA OthersStay ==
    ASSUME Typed, [Next]_vars, ImportTyped, NEW w \in Importer,
           Begin(w) \/ ImportStep(w) \/ Kill(w),
           NEW v \in Importer \ {w}, RunOK(v)
    PROVE  RunOK(v)'
<1> USE ImportAssumption
<1>1. /\ phase'[v] = phase[v] /\ at'[v] = at[v] /\ dry'[v] = dry[v] /\ bad'[v] = bad[v]
      /\ outcomes'[v] = outcomes[v] /\ exit'[v] = exit[v] /\ preloaded'[v] = preloaded[v]
  <2> USE DEF ImportTyped, Record, importVars
  <2>1. CASE Begin(w) \/ Kill(w)
    BY <2>1 DEF Begin, Kill
  <2>2. CASE ImportStep(w)
    BY <2>2 DEF ImportStep, RejectFact, Lookup, SearchHit, WouldWrite, Call, Collect,
       Abort, Finish
  <2>3. QED
    BY <2>1, <2>2
<1>2. /\ pc'[v] = pc[v] /\ ext'[v] = ext[v]
      /\ verdict'[v] = verdict[v] /\ cache'[v] = cache[v]
  <2>1. ASSUME Proceed(w) \/ Caller(w)
        PROVE  /\ pc'[v] = pc[v] /\ ext'[v] = ext[v]
               /\ verdict'[v] = verdict[v] /\ cache'[v] = cache[v]
    BY <2>1, Private
  <2>2. CASE UNCHANGED vars
    BY <2>2 DEF vars, clientVars, cacheVars
  <2>3. CASE Begin(w)
    BY <2>1, <2>3 DEF Begin, Caller
  <2>4. CASE Kill(w)
    <3>1. CASE Crash(w)
      BY <2>1, <3>1 DEF Caller
    <3>2. CASE EndRun(w) /\ UNCHANGED <<clientVars, serverVars, historyVars>>
      BY <3>2 DEF EndRun, clientVars, Typed, TypeOK
    <3>3. QED
      BY <2>4, <3>1, <3>2 DEF Kill
  <2>5. CASE Call(w)
    <3>1. pc'[v] = pc[v] /\ ext'[v] = ext[v] /\ verdict'[v] = verdict[v] /\ cache' = cache
      BY <2>5 DEF Call, Start, cacheVars, Typed, TypeOK
    <3>2. QED
      BY <3>1
  <2>6. CASE Finish(w)
    BY <2>1, <2>6 DEF Finish, Caller
  <2>7. CASE ImportStep(w)
    BY <2>1, <2>2, <2>5, <2>6, <2>7
    DEF ImportStep, RejectFact, Lookup, SearchHit, WouldWrite, Collect, Abort
  <2>8. QED
    BY <2>3, <2>4, <2>7
<1>3. QED
  BY <1>1, <1>2, RunStays

\* Run w records an outcome that the server backs.
LEMMA Recorded ==
    ASSUME Calls, ImportTyped, NEW w \in Importer, RunOK(w),
           phase[w] \in {"fact", "search", "call"}, at[w] \in DOMAIN Facts, ~Busy(w),
           NEW status \in Outcome, Record(w, status), UNCHANGED vars,
           at[w] \in bad[w] => status = "invalid",
           status = "would_write" => dry[w],
           status \in {"skipped_exists", "written", "verified_after_timeout"}
              => Accounted(at[w])
    PROVE  RunOK(w)'
<1> USE FactsAreIds
<1>1. /\ phase'[w] = "fact" /\ at'[w] = at[w] + 1
      /\ outcomes'[w] = Append(outcomes[w], status)
      /\ UNCHANGED <<dry, bad, exit, preloaded>>
  BY DEF Record, ImportTyped
<1>2. UNCHANGED <<pc, ext, verdict, cache, flight>>
  BY DEF vars, clientVars, cacheVars, serverVars
<1>3. /\ at[w] \in 1 .. Len(Facts) /\ outcomes[w] \in Seq(Outcome)
      /\ Len(outcomes[w]) = at[w] - 1
  BY DEF ImportTyped, RunOK, Placed
<1>4. /\ Len(outcomes'[w]) = at[w] /\ DOMAIN outcomes'[w] = 1 .. at[w]
      /\ outcomes'[w][at[w]] = status
      /\ DOMAIN outcomes[w] = 1 .. (at[w] - 1)
      /\ \A i \in 1 .. (at[w] - 1) : outcomes'[w][i] = outcomes[w][i]
  BY <1>1, <1>3
<1>5. Placed(w)'
  BY <1>1, <1>2, <1>3, <1>4 DEF Placed, Busy
<1>6. \A i : Accounted(i)' <=> Accounted(i)
  BY <1>2 DEF Accounted, Of
<1>7. Counted(w)'
  <2> SUFFICES ASSUME NEW i \in DOMAIN outcomes'[w]
               PROVE  /\ i \in bad[w] => outcomes'[w][i] = "invalid"
                      /\ outcomes'[w][i] = "would_write" => dry[w]
                      /\ outcomes'[w][i] \in {"skipped_exists", "written",
                                              "verified_after_timeout"} => Accounted(i)
    BY <1>1, <1>6 DEF Counted
  <2>1. CASE i = at[w]
    BY <1>4, <2>1
  <2>2. CASE i # at[w]
    <3>1. i \in DOMAIN outcomes[w] /\ outcomes'[w][i] = outcomes[w][i]
      BY <1>3, <1>4, <2>2
    <3>2. QED
      BY <3>1 DEF RunOK, Counted
  <2>3. QED
    BY <2>1, <2>2
<1>8. Concluded(w)'
  BY <1>1, <1>6 DEF RunOK, Concluded
<1>9. Saved(w)'
  BY <1>1, <1>2 DEF RunOK, Saved, Of
<1>10. QED
  BY <1>5, <1>7, <1>8, <1>9 DEF RunOK

\* A step that ends or moves run w without an outcome, whose verdict on the
\* whole file stays what it was.
LEMMA Moved ==
    ASSUME NEW w \in Importer, RunOK(w), ImportTyped,
           UNCHANGED <<dry, bad, preloaded>>,
           \A i \in DOMAIN Facts : Accounted(i) => Accounted(i)',
           \A i \in DOMAIN outcomes[w] : Accounted(i) => Accounted(i)',
           exit'[w] # "ok" \/ exit'[w] = exit[w],
           Placed(w)', Saved(w)',
           outcomes'[w] = <<>> \/ outcomes'[w] = outcomes[w]
    PROVE  RunOK(w)'
<1>1. Concluded(w)'
  BY DEF RunOK, Concluded
<1>2. Counted(w)'
  <2>1. CASE outcomes'[w] = <<>>
    BY <2>1 DEF Counted
  <2>2. CASE outcomes'[w] = outcomes[w]
    BY <2>2 DEF RunOK, Counted
  <2>3. QED
    BY <2>1, <2>2
<1>3. QED
  BY <1>1, <1>2 DEF RunOK

\* Run w takes a step.
LEMMA RunGoesOn ==
    ASSUME Calls, ImportTyped, [Next]_vars, NEW w \in Importer, RunOK(w),
           Begin(w) \/ ImportStep(w) \/ Kill(w)
    PROVE  RunOK(w)'
<1> USE FactsAreIds, ImportAssumption
<1>0. /\ Typed /\ \A i : Accounted(i) => Accounted(i)'
      /\ w \in Writer /\ Placed(w) /\ Saved(w)
  BY FlightsStay DEF Calls, Accounted, Of, RunOK
<1>1. CASE Begin(w)
  <2>1. /\ phase'[w] = "fact" /\ at'[w] = 1 /\ outcomes'[w] = <<>> /\ exit'[w] = "none"
        /\ pc' = pc /\ pc[w] = "idle"
    BY <1>1 DEF Begin, OpenImport, clientVars, ImportTyped
  <2>2. preloaded'[w] => \A i \in DOMAIN Facts \ bad'[w] : cache'[w] \cap Of(Facts[i]) # {}
    BY <1>1 DEF Begin, ImportTyped
  <2>3. QED
    BY <2>1, <2>2 DEF RunOK, Placed, Counted, Concluded, Saved, Busy, Of
<1>2. CASE RejectFact(w) \/ SearchHit(w) \/ WouldWrite(w)
  <2>1. "invalid" \in Outcome /\ "skipped_exists" \in Outcome /\ "would_write" \in Outcome
    BY DEF Outcome, Status
  <2>2. CASE RejectFact(w)
    <3>1. /\ phase[w] = "fact" /\ at[w] \in DOMAIN Facts /\ ~Busy(w)
          /\ Record(w, "invalid") /\ UNCHANGED vars
      BY <1>0, <2>2 DEF RejectFact, AtFact, Placed
    <3>2. QED
      BY <2>1, <3>1, Recorded
  <2>3. CASE SearchHit(w)
    <3>1. Accounted(at[w])
      BY <2>3 DEF SearchHit, Fact, Accounted, Calls, SettledCalls
    <3>2. QED
      BY <1>0, <2>1, <2>3, <3>1, Recorded DEF SearchHit, Placed
  <2>4. CASE WouldWrite(w)
    BY <1>0, <2>1, <2>4, Recorded DEF WouldWrite, Miss, Placed
  <2>5. QED
    BY <1>2, <2>2, <2>3, <2>4
<1>3. CASE Lookup(w)
  <2>1. CASE cache[w] \cap Of(Fact(w)) # {}
    <3>1. Accounted(at[w])
      BY <1>0, <2>1 DEF Fact, Accounted, Calls, Evidence
    <3>2. "skipped_exists" \in Outcome
      BY DEF Outcome, Status
    <3>3. QED
      <4>1. /\ phase[w] = "fact" /\ at[w] \in DOMAIN Facts \ bad[w] /\ ~Busy(w)
            /\ Record(w, "skipped_exists") /\ UNCHANGED vars
        BY <1>0, <1>3, <2>1 DEF Lookup, AtFact, Valid, Placed
      <4>2. QED
        BY <3>1, <3>2, <4>1, Recorded
  <2>2. CASE cache[w] \cap Of(Fact(w)) = {}
    <3>1. /\ phase[w] = "fact" /\ at[w] \in DOMAIN Facts \ bad[w] /\ phase'[w] = "search"
          /\ UNCHANGED <<at, dry, bad, outcomes, exit, preloaded, vars>>
      BY <1>3, <2>2 DEF Lookup, AtFact, Valid, ImportTyped
    <3>2. UNCHANGED <<pc, cache>>
      BY <3>1 DEF vars, clientVars, cacheVars
    <3>3. Placed(w)'
      BY <1>0, <3>1, <3>2 DEF Placed, Busy
    <3>4. ~preloaded[w]
      BY <1>0, <2>2, <3>1 DEF Saved, Fact
    <3>5. QED
      BY <1>0, <3>1, <3>3, <3>4, Moved DEF Saved
  <2>3. QED
    BY <2>1, <2>2
<1>4. CASE Call(w)
  <2>1. /\ phase[w] = "search" /\ phase'[w] = "call" /\ ~dry[w]
        /\ UNCHANGED <<at, dry, bad, outcomes, exit, preloaded>>
        /\ pc'[w] = "list" /\ ext'[w] = Facts[at[w]]
    BY <1>0, <1>4 DEF Call, Miss, Start, Fact, ImportTyped, Typed, TypeOK
  <2>2. Placed(w)' /\ Saved(w)'
    BY <1>0, <2>1 DEF Placed, Saved, Busy
  <2>3. QED
    BY <1>0, <2>1, <2>2, Moved
<1>5. CASE Collect(w)
  <2>1. /\ phase[w] = "call" /\ ~Busy(w) /\ verdict[w] \in Status \ {"killed", "raised"}
        /\ at[w] \in DOMAIN Facts \ bad[w] /\ ext[w] = Facts[at[w]]
        /\ Record(w, verdict[w]) /\ UNCHANGED vars
    BY <1>0, <1>5 DEF Collect, Placed
  <2>2. verdict[w] \in Outcome /\ verdict[w] # "would_write"
    BY <2>1 DEF Outcome, Status
  <2>3. verdict[w] \in {"skipped_exists", "written", "verified_after_timeout"}
           => Accounted(at[w])
    <3>1. verdict[w] \in {"skipped_exists", "verified_after_timeout"} => Accounted(at[w])
      BY <1>0, <2>1 DEF Calls, Evidence, HonestVerdict, Accounted
    <3>2. verdict[w] = "written" => Accounted(at[w])
      BY <1>0, <2>1 DEF Calls, Evidence, HonestVerdict, Own, Accounted
    <3>3. QED
      BY <3>1, <3>2
  <2>4. QED
    BY <1>0, <2>1, <2>2, <2>3, Recorded
<1>6. CASE Abort(w) \/ Kill(w)
  <2>1. /\ phase'[w] = "aborted" /\ outcomes'[w] = <<>> /\ exit'[w] \in {"failed", exit[w]}
        /\ UNCHANGED <<dry, bad, preloaded>>
    BY <1>6 DEF Abort, Kill, ImportTyped
  <2>2. ~Busy(w)'
    <3>1. CASE Abort(w)
      BY <3>1 DEF Abort, Busy, vars, clientVars
    <3>2. CASE Kill(w)
      BY <1>0, <3>2 DEF Kill, Crash, Return, Busy, clientVars, Typed, TypeOK
    <3>3. QED
      BY <1>6, <3>1, <3>2
  <2>3. Placed(w)' /\ Saved(w)'
    BY <2>1, <2>2 DEF Placed, Saved
  <2>4. QED
    BY <1>0, <2>1, <2>3, Moved
<1>7. CASE Finish(w)
  <2>1. /\ phase[w] = "fact" /\ at[w] > Len(Facts) /\ phase'[w] = "off"
        /\ exit'[w] = ExitCode(outcomes[w]) /\ outcomes'[w] = <<>>
        /\ UNCHANGED <<at, dry, bad, preloaded>> /\ pc' = pc /\ pc[w] = "idle"
    BY <1>7 DEF Finish, CloseImport, clientVars, ImportTyped
  <2>2. Placed(w)' /\ Saved(w)' /\ Counted(w)'
    BY <2>1 DEF Placed, Saved, Counted, Busy
  <2>3. ASSUME exit'[w] = "ok", ~dry[w]
        PROVE  bad[w] = {} /\ \A i \in DOMAIN Facts : Accounted(i)
    <3>1. outcomes[w] \in Seq(Outcome) /\ DOMAIN outcomes[w] = DOMAIN Facts
      <4>1. at[w] \in 1 .. (Len(Facts) + 1) /\ Len(outcomes[w]) = at[w] - 1
            /\ outcomes[w] \in Seq(Outcome)
        BY <1>0, <2>1 DEF Placed, ImportTyped
      <4>2. Len(outcomes[w]) = Len(Facts)
        BY <2>1, <4>1
      <4>3. QED
        BY <4>1, <4>2
    <3>2. \A i \in DOMAIN outcomes[w] :
             outcomes[w][i] \notin {"timeout_unverified", "invalid"}
      BY <2>1, <2>3 DEF ExitCode
    <3>3. \A i \in DOMAIN Facts : i \notin bad[w]
      BY <3>1, <3>2 DEF RunOK, Counted
    <3>4. bad[w] \subseteq DOMAIN Facts
      BY DEF ImportTyped
    <3>5. ASSUME NEW i \in DOMAIN Facts PROVE Accounted(i)
      <4>1. outcomes[w][i] \in Outcome
        BY <3>1
      <4>2. outcomes[w][i] \in {"skipped_exists", "written", "verified_after_timeout"}
        BY <2>3, <3>1, <3>2, <4>1 DEF Outcome, Status, RunOK, Counted
      <4>3. QED
        BY <3>1, <4>2 DEF RunOK, Counted
    <3>6. QED
      BY <3>3, <3>4, <3>5
  <2>4. Concluded(w)'
    BY <1>0, <2>1, <2>3 DEF Concluded
  <2>5. QED
    BY <2>2, <2>4 DEF RunOK
<1>8. CASE Proceed(w) /\ UNCHANGED importVars
  <2>1. /\ Busy(w) /\ ext'[w] = ext[w]
        /\ ~Busy(w)' => verdict'[w] \in Status \ {"killed"}
    BY <1>0, <1>8, CallGoesOn
  <2>2. /\ phase[w] = "call"
        /\ UNCHANGED <<phase, at, dry, bad, outcomes, exit, preloaded>>
    BY <1>0, <1>8, <2>1 DEF Placed, importVars
  <2>3. Placed(w)' /\ Saved(w)'
    BY <1>0, <2>1, <2>2 DEF Placed, Saved
  <2>4. QED
    BY <1>0, <2>2, <2>3, Moved
<1>9. QED
  BY <1>1, <1>2, <1>3, <1>4, <1>5, <1>6, <1>7, <1>8 DEF ImportStep

LEMMA RunsStep ==
    Calls /\ ImportTyped /\ (\A w \in Importer : RunOK(w)) /\ [ImportNext]_allVars
    => \A w \in Importer : RunOK(w)'
<1> SUFFICES ASSUME Calls, ImportTyped, \A w \in Importer : RunOK(w),
                    [ImportNext]_allVars, NEW v \in Importer
             PROVE  RunOK(v)'
  OBVIOUS
<1> USE ImportAssumption
<1>0. Typed /\ [Next]_vars
  BY ImportIsNext DEF Calls, RunOK
<1>1. ASSUME NEW w \in Importer, Begin(w) \/ ImportStep(w) \/ Kill(w) PROVE RunOK(v)'
  BY <1>0, <1>1, RunGoesOn, OthersStay
<1>2. ASSUME UNCHANGED importVars,
             UNCHANGED <<pc[v], ext[v], verdict[v], cache[v]>>
      PROVE  RunOK(v)'
  <2>1. /\ phase'[v] = phase[v] /\ at'[v] = at[v] /\ dry'[v] = dry[v]
        /\ bad'[v] = bad[v] /\ outcomes'[v] = outcomes[v]
        /\ exit'[v] = exit[v] /\ preloaded'[v] = preloaded[v]
        /\ pc'[v] = pc[v] /\ ext'[v] = ext[v]
        /\ verdict'[v] = verdict[v] /\ cache'[v] = cache[v]
    BY <1>2 DEF importVars
  <2>2. QED
    BY <1>0, <2>1, RunStays
<1>3. ASSUME NEW w \in Writer \ Importer, UNCHANGED importVars,
             Proceed(w) \/ Crash(w) \/ \E e \in Ext : Start(w, e)
      PROVE  RunOK(v)'
  <2>1. Proceed(w) \/ Caller(w)
    BY <1>3 DEF Caller
  <2>2. v \in Writer \ {w}
    BY <1>3
  <2>3. QED
    BY <1>0, <1>2, <1>3, <2>1, <2>2, Private
<1>4. ASSUME NEW r \in Req, Server(r), UNCHANGED importVars PROVE RunOK(v)'
  BY <1>2, <1>4 DEF Server, Commit, ExtractNothing, Lose, Delete, clientVars, cacheVars
<1>5. CASE UNCHANGED allVars
  BY <1>2, <1>5 DEF allVars, vars, clientVars, cacheVars
<1>6. QED
  BY <1>1, <1>3, <1>4, <1>5 DEF ImportNext

(***************************************************************************)
(* The theorems.                                                           *)
(***************************************************************************)
Runs == ImportTyped /\ \A w \in Importer : RunOK(w)

LEMMA ImportBegins == ImportInit => Calls /\ Runs
<1> SUFFICES ASSUME ImportInit PROVE Calls /\ Runs
  OBVIOUS
<1> USE WriteAssumption, ImportAssumption
<1>1. Typed /\ SettledCalls
  BY DEF ImportInit, Init, Typed, TypeOK, CallState, Busy, SettledCalls, Undisturbed,
     Live, InFlight, Of
<1>2. Evidence /\ Own
  BY DEF ImportInit, Init, Evidence, HonestVerdict, Busy, Own
<1>3. ImportTyped
  <2>1. <<>> \in Seq(Outcome) /\ 1 \in 1 .. (Len(Facts) + 1)
    BY FactsAreIds
  <2>2. QED
    BY <2>1 DEF ImportInit, ImportTyped
<1>4. \A w \in Importer : RunOK(w)
  BY DEF ImportInit, Init, RunOK, Placed, Counted, Concluded, Saved, Busy
<1>5. QED
  BY <1>1, <1>2, <1>3, <1>4 DEF Calls, Runs

LEMMA ImportGoesOn == Calls /\ Runs /\ [ImportNext]_allVars => Calls' /\ Runs'
<1> SUFFICES ASSUME Calls, Runs, [ImportNext]_allVars PROVE Calls' /\ Runs'
  OBVIOUS
<1>1. [Next]_vars
  BY ImportIsNext DEF Calls, Runs, RunOK
<1>2. Calls'
  BY <1>1, TypedStep, SettledStep, EvidenceStep, OwnStep DEF Calls
<1>3. ImportTyped'
  BY ImportTypedStep DEF Calls, Runs, RunOK
<1>4. \A w \in Importer : RunOK(w)'
  BY RunsStep DEF Runs
<1>5. QED
  BY <1>2, <1>3, <1>4 DEF Runs

LEMMA ImportAlways == ImportSpec => [](Calls /\ Runs)
BY ImportBegins, ImportGoesOn, PTL DEF ImportSpec

\* An import that exits 0 accounts for every fact of its file: its records were
\* stored or its POST was answered (bulk_seed_importer.py:113-246).
THEOREM ExitCodesHonest == ImportSpec => []ExitZeroAccounts
<1>1. Runs => ExitZeroAccounts
  BY DEF Runs, RunOK, Concluded, ExitZeroAccounts
<1>2. QED
  BY <1>1, ImportAlways, PTL

\* A run whose opening list has every valid fact makes no call.
THEOREM RerunsWriteNothing == ImportSpec => []RerunWritesNothing
<1>1. Runs => RerunWritesNothing
  BY DEF Runs, RunOK, Saved, RerunWritesNothing
<1>2. QED
  BY <1>1, ImportAlways, PTL

\* What is proved of the write path holds of imports: no import run, re-run or
\* killed and begun anew, stores an id twice by itself.
THEOREM ImportsNeverDuplicate == ImportSpec => []SingleRecord
<1>1. Calls => SingleRecord
  BY DEF Calls, Typed, TypeOK, SettledCalls, Undisturbed, Live, SingleRecord, Of
<1>2. QED
  BY <1>1, ImportAlways, PTL

\* A dry run never reaches the write endpoint (bulk_seed_importer.py:163).
THEOREM DryRunsDry == ImportSpec => DryRunWritesNothing
<1>1. Calls /\ Runs /\ [ImportNext]_allVars
      => [\A w \in Importer : dry[w] /\ phase[w] # "off" /\ phase[w] # "aborted"
            => ~(pc[w] = "send" /\ pc'[w] = "await")]_allVars
  BY DEF Runs, RunOK, Placed, Busy
<1>2. QED
  BY <1>1, ImportAlways, PTL DEF ImportSpec, DryRunWritesNothing

\* The composition keeps the promise of the write path: an import begun, killed
\* and run again never has a request sent for an id that the server holds or is
\* still working on, unless that id is contested or hidden.
THEOREM ImportRefines == ImportSpec => ImplementsAtMostOnce
<1>1. ImportInit => Promise!Init
  BY DEF ImportInit, Init, Promise!Init
<1>2. Calls /\ Runs /\ [ImportNext]_allVars => [Promise!Next]_Promise!vars
  BY ImportIsNext, PromiseStep DEF Calls, Runs, RunOK
<1>3. QED
  BY <1>1, <1>2, ImportAlways, PTL DEF ImportSpec, Promise!Spec, ImplementsAtMostOnce
=============================================================================
