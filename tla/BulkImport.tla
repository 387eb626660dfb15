----------------------------- MODULE BulkImport -----------------------------
(***************************************************************************)
(* scripts/bulk_seed_importer.py: import_facts walks a list of facts with   *)
(* one list snapshot as its cache and writes each through the idempotent    *)
(* path.  It composes IdempotentWrite: importers drive the calls of their   *)
(* own process, other writers (the MCP proxy) call without a cache, and all *)
(* share the server.                                                        *)
(***************************************************************************)
EXTENDS IdempotentWrite, Sequences

CONSTANTS
    Importer,   \* the writers that run import_facts
    Facts,      \* the facts of the input file: a sequence of external ids
    Doubtful    \* the facts that may be invalid in a run's version of the file

ASSUME ImportAssumption ==
    /\ Importer \subseteq Writer
    /\ Facts \in Seq(Ext)
    /\ Doubtful \subseteq DOMAIN Facts

VARIABLES
    phase,      \* phase[w]: where importer w is in import_facts
    at,         \* at[w]: index of the fact being handled
    dry,        \* dry[w]: --dry-run
    bad,        \* bad[w]: the facts that are invalid in the file of this run
    outcomes,   \* outcomes[w]: statuses collected so far
    exit,       \* exit[w]: exit code of the last run, "none" before its end
    preloaded   \* history: every valid fact was in the opening snapshot

importVars == <<phase, at, dry, bad, outcomes, exit, preloaded>>
allVars == <<vars, importVars>>

\* Invalid facts get an outcome of their own and no call.
Outcome == (Status \cup {"invalid", "would_write"}) \ {"raised", "killed"}

ImportTypeOK ==
    /\ phase \in [Importer -> {"off", "fact", "search", "call", "aborted"}]
    /\ at \in [Importer -> 1..(Len(Facts) + 1)]
    /\ dry \in [Importer -> BOOLEAN]
    /\ bad \in [Importer -> SUBSET Doubtful]
    /\ \A w \in Importer :
          /\ outcomes[w] \in Seq(Outcome)
          /\ phase[w] \in {"fact", "search", "call"}
                => /\ w \in session
                      \/ (phase[w] = "call" /\ verdict[w] = "raised")
                   /\ Len(outcomes[w]) = at[w] - 1
    /\ exit \in [Importer -> {"none", "ok", "failed"}]
    /\ preloaded \in [Importer -> BOOLEAN]

ImportInit ==
    /\ Init
    /\ phase = [w \in Importer |-> "off"]
    /\ at = [w \in Importer |-> 1]
    /\ dry = [w \in Importer |-> FALSE]
    /\ bad = [w \in Importer |-> {}]
    /\ outcomes = [w \in Importer |-> <<>>]
    /\ exit = [w \in Importer |-> "none"]
    /\ preloaded = [w \in Importer |-> FALSE]

-----------------------------------------------------------------------------
Fact(w) == Facts[at[w]]

Valid(w) == at[w] \notin bad[w]

\* The bound on POSTs: only dry runs start once a fact has no request
\* left to be POSTed with.
RunWithinBudget == \A i \in DOMAIN Facts : \E r \in Of(Facts[i]) : flight[r] = "unused"

\* A run starts, on a file that may have been corrected since the last one: the
\* list that becomes its cache.
Begin(w) ==
    /\ phase[w] \in {"off", "aborted"}
    /\ OpenImport(w)
    /\ phase' = [phase EXCEPT ![w] = "fact"]
    /\ at' = [at EXCEPT ![w] = 1]
    /\ \E b \in BOOLEAN :
          /\ b \/ RunWithinBudget
          /\ dry' = [dry EXCEPT ![w] = b]
    /\ \E invalid \in SUBSET Doubtful : bad' = [bad EXCEPT ![w] = invalid]
    /\ outcomes' = [outcomes EXCEPT ![w] = <<>>]
    /\ exit' = [exit EXCEPT ![w] = "none"]
    /\ preloaded' = [preloaded EXCEPT ![w] =
                        \A i \in DOMAIN Facts \ bad'[w] : cache'[w] \cap Of(Facts[i]) # {}]

\* outcomes.append(...), then the next fact.
Record(w, status) ==
    /\ outcomes' = [outcomes EXCEPT ![w] = Append(@, status)]
    /\ at' = [at EXCEPT ![w] = @ + 1]
    /\ phase' = [phase EXCEPT ![w] = "fact"]
    /\ UNCHANGED <<dry, bad, exit, preloaded>>

AtFact(w) == phase[w] = "fact" /\ at[w] \in DOMAIN Facts

RejectFact(w) ==
    /\ AtFact(w)
    /\ ~Valid(w)
    /\ Record(w, "invalid")
    /\ UNCHANGED vars

\* Mutant of Lookup: the snapshot is not consulted.
LookupUncached(w) ==
    /\ AtFact(w)
    /\ Valid(w)
    /\ phase' = [phase EXCEPT ![w] = "search"]
    /\ UNCHANGED <<at, dry, bad, outcomes, exit, preloaded, vars>>

\* The importer's own find_by_external_id: first the cache ...
Lookup(w) ==
    /\ AtFact(w)
    /\ Valid(w)
    /\ IF cache[w] \cap Of(Fact(w)) # {}
       THEN Record(w, "skipped_exists")
       ELSE /\ phase' = [phase EXCEPT ![w] = "search"]
            /\ UNCHANGED <<at, dry, bad, outcomes, exit, preloaded>>
    /\ UNCHANGED vars

\* ... then the search, a failure of which is a miss.
SearchHit(w) ==
    /\ phase[w] = "search"
    /\ bank \cap Of(Fact(w)) # {}
    /\ Record(w, "skipped_exists")
    /\ UNCHANGED vars

Miss(w) ==
    /\ phase[w] = "search"
    /\ bank \cap Of(Fact(w)) = {} \/ "search" \in Faults

WouldWrite(w) ==
    /\ Miss(w)
    /\ dry[w]
    /\ Record(w, "would_write")
    /\ UNCHANGED vars

\* Mutant of Call: --dry-run is forgotten.
CallAnyway(w) ==
    /\ Miss(w)
    /\ Start(w, Fact(w))
    /\ phase' = [phase EXCEPT ![w] = "call"]
    /\ UNCHANGED <<at, dry, bad, outcomes, exit, preloaded>>

\* add_memory_idempotent, which looks the id up once more for itself.
Call(w) ==
    /\ Miss(w)
    /\ ~dry[w]
    /\ Start(w, Fact(w))
    /\ phase' = [phase EXCEPT ![w] = "call"]
    /\ UNCHANGED <<at, dry, bad, outcomes, exit, preloaded>>

Collect(w) ==
    /\ phase[w] = "call"
    /\ ~Busy(w)
    /\ verdict[w] # "raised"
    /\ Record(w, verdict[w])
    /\ UNCHANGED vars

\* An exception leaves import_facts: the outcomes collected so far are lost
\* and the remaining facts are not attempted.
Abort(w) ==
    /\ phase[w] = "call"
    /\ ~Busy(w)
    /\ verdict[w] = "raised"
    /\ phase' = [phase EXCEPT ![w] = "aborted"]
    /\ outcomes' = [outcomes EXCEPT ![w] = <<>>]
    /\ exit' = [exit EXCEPT ![w] = "failed"]
    /\ UNCHANGED <<at, dry, bad, preloaded, vars>>

\* Mutant of ExitCode: an unverified timeout is not a failure.
LenientExitCode(statuses) ==
    IF \E i \in DOMAIN statuses : statuses[i] = "invalid" THEN "failed" ELSE "ok"

ExitCode(statuses) ==
    IF \E i \in DOMAIN statuses :
          statuses[i] \in {"timeout_unverified", "invalid"}
    THEN "failed" ELSE "ok"

\* main() prints the summary and returns.
Finish(w) ==
    /\ phase[w] = "fact"
    /\ at[w] > Len(Facts)
    /\ CloseImport(w)
    /\ phase' = [phase EXCEPT ![w] = "off"]
    /\ exit' = [exit EXCEPT ![w] = ExitCode(outcomes[w])]
    /\ outcomes' = [outcomes EXCEPT ![w] = <<>>]
    /\ UNCHANGED <<at, dry, bad, preloaded>>

\* The process is killed, in a call or between two.
Kill(w) ==
    /\ "crash" \in Faults
    /\ phase[w] \in {"fact", "search", "call"}
    /\ \/ Crash(w)
       \/ /\ ~Busy(w)
          /\ EndRun(w)
          /\ UNCHANGED <<clientVars, serverVars, historyVars>>
    /\ phase' = [phase EXCEPT ![w] = "aborted"]
    /\ outcomes' = [outcomes EXCEPT ![w] = <<>>]
    /\ UNCHANGED <<at, dry, bad, exit, preloaded>>

ImportStep(w) ==
    \/ RejectFact(w) \/ Lookup(w) \/ SearchHit(w) \/ WouldWrite(w)
    \/ Call(w) \/ Collect(w) \/ Abort(w) \/ Finish(w)
    \/ Proceed(w) /\ UNCHANGED importVars

ImportNext ==
    \/ \E w \in Importer : Begin(w) \/ ImportStep(w) \/ Kill(w)
    \/ /\ UNCHANGED importVars
       /\ \/ \E w \in Writer \ Importer :
                \/ Proceed(w) \/ Crash(w)
                \/ \E e \in Ext : Start(w, e)
          \/ \E r \in Req : Server(r)

ImportSpec == ImportInit /\ [][ImportNext]_allVars

-----------------------------------------------------------------------------
(* Properties.                                                             *)

\* A run that exits 0 and was not a dry run accounts for every fact of the
\* file: each was valid, and the server stored a record for its id or answered
\* its POST without extracting one.  An import run's exit code is what a script
\* or an operator goes by.
Accounted(i) == \E r \in Of(Facts[i]) : flight[r] \in {"stored", "empty"}

ExitZeroAccounts ==
    \A w \in Importer :
        (exit[w] = "ok" /\ ~dry[w]) =>
            bad[w] = {} /\ \A i \in DOMAIN Facts : Accounted(i)

\* Re-running a completed import writes nothing: if the opening list held a
\* record for every valid fact, the run makes no POST, even if searches fail,
\* records are deleted or other writers write meanwhile.
RerunWritesNothing ==
    \A w \in Importer :
        (phase[w] = "call" /\ w \in session) => ~preloaded[w]

\* --dry-run never reaches the server's write endpoint.
DryRunWritesNothing ==
    [][\A w \in Importer : dry[w] /\ phase[w] # "off" /\ phase[w] # "aborted"
            => ~(pc[w] = "send" /\ pc'[w] = "await")]_allVars
=============================================================================
