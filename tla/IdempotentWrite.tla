--------------------------- MODULE IdempotentWrite ---------------------------
(***************************************************************************)
(* The write path of ADR 037 (src/src/mcp_proxy/idempotent_write.py): a    *)
(* caller-supplied external id is looked up, the fact is POSTed if it is   *)
(* absent, and a client timeout is followed by a bounded verification poll *)
(* instead of a second POST.  Writers are the processes that call          *)
(* add_memory_idempotent (the MCP proxy, scripts/memory.py, the bulk       *)
(* importer); the Mem0 server they share is external and modelled from how *)
(* the client uses it: a POST may be committed long after its client gave  *)
(* up, or never.                                                           *)
(*                                                                         *)
(* A call spans several remote reads and one remote write, and every step  *)
(* between two of them is an action, so that other writers, the server and *)
(* deletions interleave.  A POST and the record it creates share one       *)
(* identity r \in Req; KeyOf[r] is the external id it carries.             *)
(***************************************************************************)
EXTENDS Naturals, FiniteSets

CONSTANTS
    Writer,     \* processes that write
    Ext,        \* external ids
    Req,        \* POST /memories requests (and the records they create)
    KeyOf,      \* the external id a request carries
    MaxPolls,   \* most polls that fit the verification window (90 s / 3 s)
    Faults,     \* the failures the environment may produce, see FaultKind
    None        \* "no external id yet" / "no request yet"

FaultKind ==
    { "search",     \* a filtered search raises; the client swallows it
      "list",       \* a list request raises (timeout, 5xx); it propagates
      "truncate",   \* the bank outgrew the limit=1000 of list_all_memories
      "post",       \* the POST raises something other than a timeout
      "lose",       \* the server drops a request it had accepted
      "empty",      \* infer=True extracts nothing: 200 and no record
      "mute",       \* the record is stored, the answer names no usable id
      "crash",      \* the writing process is killed
      "delete" }    \* a record is deleted (memory.py, MCP, compaction)

ASSUME WriteAssumption ==
    /\ MaxPolls \in Nat
    /\ Faults \subseteq FaultKind
    /\ KeyOf \in [Req -> Ext]
    /\ None \notin Ext \cup Req

VARIABLES
    pc,         \* pc[w]: where writer w is in its call, "idle" between calls
    ext,        \* ext[w]: external id of w's last call
    req,        \* req[w]: the POST of w's last call, None before it is sent
    polls,      \* polls[w]: verification polls made since the timeout
    verdict,    \* verdict[w]: status of w's last call, "none" during one
    found,      \* found[w]: the record w's last call reports
    session,    \* writers inside an import run, which hold a cache
    cache,      \* cache[w]: the import run's list snapshot
    flight,     \* flight[r]: what the server has made of request r
    bank,       \* records the server holds now
    \* History variables: they record what happened and guard nothing.
    contested,  \* ids for which a call began before an earlier one settled
    hidden,     \* ids for which a failed search hid a stored record
    settled     \* settled[w]: ids this import run saw stored after its POST

clientVars == <<pc, ext, req, polls, verdict, found>>
cacheVars == <<session, cache>>
serverVars == <<flight, bank>>
historyVars == <<contested, hidden, settled>>
vars == <<clientVars, cacheVars, serverVars, historyVars>>

Status == {"skipped_exists", "written", "verified_after_timeout",
           "timeout_unverified", "raised", "killed"}

TypeOK ==
    /\ pc \in [Writer -> {"idle", "list", "search", "send", "await",
                          "recache", "window", "pollList", "pollSearch"}]
    /\ ext \in [Writer -> Ext \cup {None}]
    /\ req \in [Writer -> Req \cup {None}]
    /\ polls \in [Writer -> 0..MaxPolls]
    /\ verdict \in [Writer -> Status \cup {"none"}]
    /\ found \in [Writer -> Req \cup {None}]
    /\ session \subseteq Writer
    /\ cache \in [Writer -> SUBSET Req]
    /\ flight \in [Req -> {"unused", "inflight", "stored", "empty", "lost"}]
    /\ bank \subseteq Req
    /\ contested \subseteq Ext
    /\ hidden \subseteq Ext
    /\ settled \in [Writer -> SUBSET Ext]

Init ==
    /\ pc = [w \in Writer |-> "idle"]
    /\ ext = [w \in Writer |-> None]
    /\ req = [w \in Writer |-> None]
    /\ polls = [w \in Writer |-> 0]
    /\ verdict = [w \in Writer |-> "none"]
    /\ found = [w \in Writer |-> None]
    /\ session = {}
    /\ cache = [w \in Writer |-> {}]
    /\ flight = [r \in Req |-> "unused"]
    /\ bank = {}
    /\ contested = {}
    /\ hidden = {}
    /\ settled = [w \in Writer |-> {}]

-----------------------------------------------------------------------------
(* What the server answers.                                                *)

Of(e) == {r \in Req : KeyOf[r] = e}

InFlight(e) == {r \in Of(e) : flight[r] = "inflight"}

\* GET /memories?limit=1000: the whole bank, or some part of it once the bank
\* is larger than the limit.
Listing == IF "truncate" \in Faults THEN SUBSET bank ELSE {bank}

\* Entries of a list (or of a cached one) that carry w's external id.
Hits(w, items) == items \cap Of(ext[w])

\* Mutant of Extended: the cache is never brought up to date.
SnapshotOnly(w, r) == cache

\* append_cache_record: dedupes by external id.  An uncached writer has no
\* list to extend.
Extended(w, r) ==
    IF w \in session /\ Hits(w, cache[w]) = {}
    THEN [cache EXCEPT ![w] = @ \cup {r}]
    ELSE cache

-----------------------------------------------------------------------------
(* Ends of a call.                                                         *)

Return(w, status, r) ==
    /\ pc' = [pc EXCEPT ![w] = "idle"]
    /\ verdict' = [verdict EXCEPT ![w] = status]
    /\ found' = [found EXCEPT ![w] = r]

Goto(w, label) ==
    /\ pc' = [pc EXCEPT ![w] = label]
    /\ UNCHANGED <<verdict, found>>

\* A hit in the first lookup is skipped; a hit while verifying a timed-out
\* POST is a success, and goes into the cache.
ReportHit(w, r) ==
    IF pc[w] \in {"list", "search"}
    THEN /\ Return(w, "skipped_exists", r)
         /\ UNCHANGED <<cache, settled>>
    ELSE /\ Return(w, "verified_after_timeout", r)
         /\ cache' = Extended(w, r)
         /\ settled' = [settled EXCEPT ![w] = @ \cup {ext[w]}]

-----------------------------------------------------------------------------
(* The client.                                                             *)

\* import_facts opens: one list_all_memories serves the whole run.
OpenImport(w) ==
    /\ pc[w] = "idle"
    /\ w \notin session
    /\ session' = session \cup {w}
    /\ \E items \in Listing : cache' = [cache EXCEPT ![w] = items]
    /\ settled' = [settled EXCEPT ![w] = {}]
    /\ UNCHANGED <<clientVars, serverVars, contested, hidden>>

EndRun(w) ==
    /\ session' = session \ {w}
    /\ cache' = [cache EXCEPT ![w] = {}]

\* import_facts returns.
CloseImport(w) ==
    /\ pc[w] = "idle"
    /\ w \in session
    /\ EndRun(w)
    /\ UNCHANGED <<clientVars, serverVars, historyVars>>

Busy(w) == pc[w] # "idle"

\* A call is contested when another call for the same id runs, or when a
\* request of an earlier call is still on its way.
Contended(w, e) ==
    \/ \E v \in Writer \ {w} : Busy(v) /\ ext[v] = e
    \/ InFlight(e) # {}

\* The bound on POSTs: a call starts only if a request is left for it.
WithinBudget(e) ==
    Cardinality({v \in Writer : Busy(v) /\ ext[v] = e})
        < Cardinality({r \in Of(e) : flight[r] = "unused"})

Start(w, e) ==
    /\ pc[w] = "idle"
    /\ WithinBudget(e)
    /\ pc' = [pc EXCEPT ![w] = "list"]
    /\ ext' = [ext EXCEPT ![w] = e]
    /\ req' = [req EXCEPT ![w] = None]
    /\ polls' = [polls EXCEPT ![w] = 0]
    /\ verdict' = [verdict EXCEPT ![w] = "none"]
    /\ found' = [found EXCEPT ![w] = None]
    /\ contested' = IF Contended(w, e) THEN contested \cup {e} ELSE contested
    /\ UNCHANGED <<cacheVars, serverVars, hidden, settled>>

\* Mutant of FindInList: a list without the id is proof enough, no search.
ListDecides(w) ==
    /\ pc[w] \in {"list", "pollList"}
    /\ \E items \in (IF w \in session THEN {cache[w]} ELSE Listing) :
          \/ \E r \in Hits(w, items) : ReportHit(w, r)
          \/ /\ Hits(w, items) = {}
             /\ Goto(w, IF pc[w] = "list" THEN "send" ELSE "window")
             /\ UNCHANGED <<cache, settled>>
    /\ UNCHANGED <<ext, req, polls, session, serverVars, contested, hidden>>

\* First half of find_by_external_id: scan the cache if there is one, else a
\* fresh list.
FindInList(w) ==
    /\ pc[w] \in {"list", "pollList"}
    /\ \E items \in (IF w \in session THEN {cache[w]} ELSE Listing) :
          \/ \E r \in Hits(w, items) : ReportHit(w, r)
          \/ /\ Hits(w, items) = {}
             /\ Goto(w, IF pc[w] = "list" THEN "search" ELSE "pollSearch")
             /\ UNCHANGED <<cache, settled>>
    /\ UNCHANGED <<ext, req, polls, session, serverVars, contested, hidden>>

\* The fresh list itself fails: nothing in find_by_external_id, and nothing in
\* the except clause that polls, catches it.
ListRaises(w) ==
    /\ "list" \in Faults
    /\ pc[w] \in {"list", "pollList"}
    /\ w \notin session
    /\ Return(w, "raised", None)
    /\ UNCHANGED <<ext, req, polls, cacheVars, serverVars, historyVars>>

AfterMiss(w) == IF pc[w] = "search" THEN "send" ELSE "window"

\* Mutant of FindBySearch: an unfiltered search may rank the record too low.
UnfilteredSearch(w) ==
    /\ pc[w] \in {"search", "pollSearch"}
    /\ Goto(w, AfterMiss(w))
    /\ UNCHANGED <<ext, req, polls, cacheVars, serverVars, historyVars>>

\* Second half: a search filtered on the external id.
FindBySearch(w) ==
    /\ pc[w] \in {"search", "pollSearch"}
    /\ \/ \E r \in Hits(w, bank) : ReportHit(w, r)
       \/ /\ Hits(w, bank) = {}
          /\ Goto(w, AfterMiss(w))
          /\ UNCHANGED <<cache, settled>>
    /\ UNCHANGED <<ext, req, polls, session, serverVars, contested, hidden>>

\* A search that raises is a miss to its caller.
SearchRaises(w) ==
    /\ "search" \in Faults
    /\ pc[w] \in {"search", "pollSearch"}
    /\ Goto(w, AfterMiss(w))
    /\ hidden' = IF Hits(w, bank) # {} THEN hidden \cup {ext[w]} ELSE hidden
    /\ UNCHANGED <<ext, req, polls, cacheVars, serverVars, contested, settled>>

\* client.add_memory puts the POST on the wire.
Send(w) ==
    /\ pc[w] = "send"
    /\ Goto(w, "await")
    /\ \E r \in Of(ext[w]) :
          /\ flight[r] = "unused"
          /\ req' = [req EXCEPT ![w] = r]
          /\ flight' = [flight EXCEPT ![r] = "inflight"]
    /\ UNCHANGED <<ext, polls, cacheVars, bank, historyVars>>

\* The answer arrives in time.  A run with a cache appends the row built from
\* the answer; an answer that names no record sends it to the search instead.
Answered(w) ==
    /\ pc[w] = "await"
    /\ \/ /\ flight[req[w]] = "stored"
          /\ Return(w, "written", req[w])
          /\ cache' = Extended(w, req[w])
          /\ settled' = [settled EXCEPT ![w] = @ \cup {ext[w]}]
       \/ /\ \/ flight[req[w]] = "empty"
             \/ flight[req[w]] = "stored" /\ "mute" \in Faults
          /\ IF w \in session
             THEN Goto(w, "recache")
             ELSE Return(w, "written", None)
          /\ UNCHANGED <<cache, settled>>
    /\ UNCHANGED <<ext, req, polls, session, serverVars, contested, hidden>>

\* update_cache_after_write falls back to the search, which may raise.
Recache(w) ==
    /\ pc[w] = "recache"
    /\ Return(w, "written", None)
    /\ \/ /\ \E r \in Hits(w, bank) : cache' = Extended(w, r)
          /\ settled' = [settled EXCEPT ![w] = @ \cup {ext[w]}]
       \/ /\ Hits(w, bank) = {} \/ "search" \in Faults
          /\ UNCHANGED <<cache, settled>>
    /\ UNCHANGED <<ext, req, polls, session, serverVars, contested, hidden>>

\* Mutant of TimeOut: the row is cached as if the POST had been answered.
CacheOnTimeOut(w) ==
    /\ pc[w] = "await"
    /\ Goto(w, "window")
    /\ cache' = Extended(w, req[w])
    /\ UNCHANGED <<ext, req, polls, session, serverVars, historyVars>>

\* Mutant of TimeOut: the POST is sent again, as in the COE of 2026-06-10.
ResendOnTimeOut(w) ==
    /\ pc[w] = "await"
    /\ Goto(w, "send")
    /\ UNCHANGED <<ext, req, polls, cacheVars, serverVars, historyVars>>

\* httpx.TimeoutException: the client stops waiting; the request is unaffected.
TimeOut(w) ==
    /\ pc[w] = "await"
    /\ Goto(w, "window")
    /\ UNCHANGED <<ext, req, polls, cacheVars, serverVars, historyVars>>

\* Any other exception of the POST propagates, and ends an import run with it.
PostRaises(w) ==
    /\ "post" \in Faults
    /\ pc[w] = "await"
    /\ Return(w, "raised", None)
    /\ EndRun(w)
    /\ UNCHANGED <<ext, req, polls, serverVars, historyVars>>

\* Mutant of Poll: the deadline moves along with the polls.
EndlessPoll(w) ==
    /\ pc[w] = "window"
    /\ Goto(w, "pollList")
    /\ UNCHANGED <<ext, req, polls, cacheVars, serverVars, historyVars>>

\* Mutant of Poll: one poll too many.
ExtraPoll(w) ==
    /\ pc[w] = "window"
    /\ polls[w] <= MaxPolls
    /\ Goto(w, "pollList")
    /\ polls' = [polls EXCEPT ![w] = @ + 1]
    /\ UNCHANGED <<ext, req, cacheVars, serverVars, historyVars>>

\* One turn of the verification loop: sleep, then look again.
Poll(w) ==
    /\ pc[w] = "window"
    /\ polls[w] < MaxPolls
    /\ Goto(w, "pollList")
    /\ polls' = [polls EXCEPT ![w] = @ + 1]
    /\ UNCHANGED <<ext, req, cacheVars, serverVars, historyVars>>

\* Mutant of GiveUp: the window may close before the first poll.
GiveUpUnpolled(w) ==
    /\ pc[w] = "window"
    /\ Return(w, "timeout_unverified", None)
    /\ UNCHANGED <<ext, req, polls, cacheVars, serverVars, historyVars>>

\* The deadline has passed.  A slow lookup may eat most of the window, but a
\* window that is not empty holds at least one poll.
GiveUp(w) ==
    /\ pc[w] = "window"
    /\ polls[w] > 0 \/ MaxPolls = 0
    /\ Return(w, "timeout_unverified", None)
    /\ UNCHANGED <<ext, req, polls, cacheVars, serverVars, historyVars>>

\* The process is killed; an import run's cache and outcomes die with it.
Crash(w) ==
    /\ "crash" \in Faults
    /\ Busy(w)
    /\ Return(w, "killed", None)
    /\ EndRun(w)
    /\ UNCHANGED <<ext, req, polls, serverVars, historyVars>>

-----------------------------------------------------------------------------
(* The server, and whoever else uses it.                                   *)

\* Extraction finishes and the record is committed, whether or not anyone
\* still waits for it.
Commit(r) ==
    /\ flight[r] = "inflight"
    /\ flight' = [flight EXCEPT ![r] = "stored"]
    /\ bank' = bank \cup {r}
    /\ UNCHANGED <<clientVars, cacheVars, historyVars>>

ExtractNothing(r) ==
    /\ "empty" \in Faults
    /\ flight[r] = "inflight"
    /\ flight' = [flight EXCEPT ![r] = "empty"]
    /\ UNCHANGED <<clientVars, cacheVars, bank, historyVars>>

Lose(r) ==
    /\ "lose" \in Faults
    /\ flight[r] = "inflight"
    /\ flight' = [flight EXCEPT ![r] = "lost"]
    /\ UNCHANGED <<clientVars, cacheVars, bank, historyVars>>

Delete(r) ==
    /\ "delete" \in Faults
    /\ r \in bank
    /\ bank' = bank \ {r}
    /\ UNCHANGED <<clientVars, cacheVars, flight, historyVars>>

-----------------------------------------------------------------------------
(* The steps a running writer takes on its own.                            *)
Proceed(w) ==
    \/ FindInList(w) \/ FindBySearch(w) \/ SearchRaises(w) \/ ListRaises(w)
    \/ Send(w) \/ Answered(w) \/ Recache(w) \/ TimeOut(w) \/ PostRaises(w)
    \/ Poll(w) \/ GiveUp(w)

Caller(w) ==
    \/ OpenImport(w) \/ CloseImport(w) \/ Crash(w)
    \/ \E e \in Ext : Start(w, e)

Server(r) == Commit(r) \/ ExtractNothing(r) \/ Lose(r) \/ Delete(r)

Next ==
    \/ \E w \in Writer : Proceed(w) \/ Caller(w)
    \/ \E r \in Req : Server(r)

Spec == Init /\ [][Next]_vars

\* A call runs in one thread that nothing blocks for ever: httpx bounds every
\* request and the verification loop has a deadline.  Nothing obliges the
\* server to commit, or a caller to call.
FairSpec == Spec /\ \A w \in Writer : WF_vars(Proceed(w))
-----------------------------------------------------------------------------
(* Properties.                                                             *)

\* No id is stored twice, unless a call for it began before an earlier one had
\* settled (another writer's, or the late POST of a caller that gave up) or a
\* failed search hid the stored record.  Crashes, lost requests, timeouts,
\* stale import caches, truncated lists and re-runs alone never duplicate.
SingleRecord ==
    \A e \in Ext \ (contested \cup hidden) :
        \A r, s \in bank \cap Of(e) : r = s

\* A running call has an id, and a request for it once it is past the POST.
CallState ==
    \A w \in Writer :
        /\ Busy(w) => ext[w] \in Ext
        /\ pc[w] \in {"await", "recache", "window", "pollList", "pollSearch"} =>
              /\ req[w] \in Of(ext[w])
              /\ flight[req[w]] # "unused"

\* What the server holds or still works on for id e.
Live(e) == {r \in Of(e) : r \in bank \/ flight[r] = "inflight"}

\* Why SingleRecord holds (its inductive strengthening).  For an id that is
\* neither contested nor hidden: at most one record or request is live and at
\* most one call runs; during a call's first lookup nothing is in flight, so
\* that a search that finds no record proves there is nothing at all, and
\* still proves it when the POST is sent.
Undisturbed(e) ==
    /\ \A r, s \in Live(e) : r = s
    /\ \A w, v \in Writer :
          Busy(w) /\ Busy(v) /\ ext[w] = e /\ ext[v] = e => w = v
    /\ \A w \in Writer :
          ext[w] = e =>
              /\ pc[w] \in {"list", "search"} => InFlight(e) = {}
              /\ pc[w] = "send" => Live(e) = {}

SettledCalls ==
    /\ \A r \in bank : flight[r] = "stored"
    /\ \A e \in Ext \ (contested \cup hidden) : Undisturbed(e)

\* The write path implements AtMostOnce: in every reachable state in which a
\* writer is about to POST an id that is not excepted, the server neither holds
\* nor still processes anything for that id.  Checked step by step, so it also
\* covers duplicates that a later delete would hide from SingleRecord.
Promise == INSTANCE AtMostOnce WITH
               outstanding <- {r \in Req : flight[r] = "inflight"},
               stored <- bank,
               exempt <- contested \cup hidden

ImplementsAtMostOnce == Promise!Spec

\* What a call reports happened: a record it names carries its id and was
\* really committed, and "written" means the server answered its own POST.
\* The cache is the hard part: it is how a run reports records unseen.
HonestVerdict ==
    \A w \in Writer :
        /\ verdict[w] \in {"skipped_exists", "verified_after_timeout"} =>
              /\ found[w] \in Of(ext[w])
              /\ flight[found[w]] = "stored"
        /\ verdict[w] = "written" => flight[req[w]] \in {"stored", "empty"}

\* An import run never POSTs an id twice once it knows the first POST was
\* stored, even if every search fails and the record is deleted meanwhile:
\* the purpose of update_cache_after_write.
RunNeverRepeats ==
    \A w \in session : pc[w] = "send" => ext[w] \notin settled[w]

\* Every call returns (or raises), whatever the server does.
CallsReturn == \A w \in Writer : Busy(w) ~> ~Busy(w)

\* The case the verification window exists for: the POST timed out, and its
\* record is committed before the first poll.  The call then reports success,
\* unless the poll fails, the caller dies or the record is deleted.
LateCommitVerified ==
    \A w \in Writer :
        (pc[w] = "window" /\ polls[w] = 0 /\ Hits(w, bank) # {}) ~>
            /\ ~Busy(w)
            /\ \/ verdict[w] \in {"verified_after_timeout", "raised", "killed"}
               \/ ext[w] \in hidden
               \/ \E r \in Of(ext[w]) \ bank : flight[r] = "stored"

\* "Write once with external_id" (add_memory_idempotent's docstring) without
\* the provisos of SingleRecord.
WriteOnce == \A e \in Ext : \A r, s \in bank \cap Of(e) : r = s
=============================================================================
