# A verification development for ai-memory-infra

TLA+ models of the programs of this repository, TLC runs that check them on
small instances, and TLAPS proofs that hold for every instance.  Paths are
relative to the root of the repository.

Contents: 1 the system; 2 its components; 3 the modules; 4 the runs and their
bounds; 5 fairness; 6 what is proved; 7 what the runs refute; 8 what is left
out; 9 the plan.

## 1. The system

The memory itself is Mem0, a third-party REST service over Postgres/pgvector
with a history database, beside a Neo4j graph that is provisioned and backed up
but not yet written to.  This repository holds what stands around it:

- *clients that write*: the stdio and HTTP MCP servers, `scripts/memory.py`, the
  bulk importer and the acceptance probe.  They all go through
  `src/mcp_proxy/client.py` and, when they have an external id, through
  `add_memory_idempotent`;
- *the remote endpoint's OAuth provider*, whose only state is a JSON file on a
  volume and a dictionary of pending consents;
- *operations on the droplet*: a nightly backup, restore, restore drill, health
  check, driven by systemd timers or an operator;
- *governance scripts* that decide from git and from the bank whether a coding
  session may end (completion gate, checkpoint, hand-off);
- *pure libraries*: retrieval, migration, life graph, evaluation, observability.

The hard parts are the shared, unlocked states.  The **bank** (the records of
one Mem0 user) is read and written by every client, over HTTP, with timeouts
after which a request may still take effect.  The **state file** is read and
rewritten whole by every OAuth handler.  The **stores, services and the bucket**
are touched by backup and restore scripts which nothing keeps apart and any of
whose commands may be the last.  In each case the code makes promises across
many steps (write once, grants survive, nothing is lost) and tests can only run
them in one order.

## 2. Components

Column "M": modelled (M), in part, or left out (-); section 8 says why.

| Component (source) | State | Operations | What is hard, and what makes it correct | M |
|---|---|---|---|---|
| Idempotent write path (`src/mcp_proxy/idempotent_write.py`, `client.py`, `server.py`) | an optional list cache per run; the bank | look up, POST, verify after a timeout, keep the cache up to date | check-then-act on a remote store, late commits, truncated lists, swallowed errors: *no id stored twice, verdicts true, calls end* | M |
| Bulk importer (`scripts/bulk_seed_importer.py`) | cache, outcomes, exit code | one call per fact; dry run | partial failure, re-runs, stale cache: *exit 0 accounts for every fact, a re-run writes nothing* | M |
| OAuth provider (`src/mcp_proxy/oauth.py`, `http_server.py`) | state file; pending consents in memory | register, authorize, consent, exchange, refresh, load, revoke | read-modify-write of a whole file, kills, restarts, eviction: *grants last, one exchange per grant* | M |
| Backup and restore (`scripts/backup.sh`, `restore.sh`, `infra/systemd`) | Postgres, history, graph, services, bucket | every command of the two scripts | overlap of the two, failing commands, kills: *nothing lost, no half-loaded store served, honest heartbeat* | M |
| Restore drill (`scripts/restore-drill.sh`, `plant-drill-canary.sh`) | a scratch database | download, load, look for the canary | reads the bucket of a running backup, ignores pg_restore's exit code: *a drilled backup restores* | M |
| Memory records and their CLI (`scripts/memory.py`) | metadata of records in the bank | capture, close, update, delete, agenda, board | unlocked GET then PUT; two dates per item: *no open item lost or reopened unseen, nothing due hidden* | M |
| Memory compaction (`scripts/memory_compaction.py`) | a saved report; the bank | scan, merge, delete | a report applied to a bank that moved on; half-done merges: *no record vanishes without a trace* | M |
| Acceptance probe and retrieval (`scripts/acceptance_probe.py`, `src/memory/retrieval.py`) | ids to clean up | import, look up, ask, delete | swallowed errors, leftovers, late commits: *passes only on what it found, fails only for a reason, cleans up* | M |
| Completion gate (`scripts/completion_gate.py`) | the harness's follow-up counter | answer a stop hook | failing git commands, loop guard: *never passes unpushed work, never loops for ever, loud before it gives up* | M |
| Hand-off check, session checkpoint (`scripts/handoff_verify.py`, `session_checkpoint.py`) | the build log | ask git, append, verify | answers of different moments, stale remote refs, whole-file rewrite: *ready only if pushed and in sync* | M |
| Write contract (`src/memory/contract.py`, `scripts/csv_to_bulk_seed.py`, `server.py`) | none | build, validate, prepare metadata | four paths, validation twice, one of them skipped for some records: *what is imported is canonical, and the paths agree on a fact without a status* | M |
| Migration (`src/migration/`) | an index of ids and texts | split, identify, tag, deduplicate, export | skipped heading levels, colliding slugs, texts that differ in line breaks only, a listing that is cut: *nothing lost without a collision but what another section says* | M |
| API client (`client.py`) | none | one HTTP request per call | the remote steps of the models above | M |
| MCP servers (`server.py`) | none | one client call per tool | only what `add_memory` makes of its arguments, in the write contract | part |
| Life graph (`src/life_graph/`) | an in-memory graph | ingest, query | used by nothing else | - |
| Session bootstrap (`scripts/session_bootstrap.py`) | none | collect, print | reads only | - |
| Observability (`src/observability/`), evaluation (`src/eval/`, `run_eval_gate.py`) | counters | thresholds, scores | arithmetic | - |
| Operator actions, SSH unlock, teardown, deploy probe (`scripts/`) | none of their own | straight lines of commands | nothing interleaves | - |
| Health checker (`src/health/`) | none | one probe | nothing | - |
| Repository checks, contract rendering, IDE hooks (`scripts/check_*.py`, ...) | none | parse, render | strings | - |
| Infrastructure (`infra/`) | terraform's | declarations | no program | - |

How they interact: the importer, the probe and `memory.py` call the write path in
their own process, and meet other writers only in the bank; compaction, close
and delete change that bank under a running import; backup and restore replace
the bank's contents under everybody, with mem0 stopped for the time of the load;
the drill reads the bucket the backup writes; the gate and the checkpoint meet in
the git repository.

## 3. The modules

| Module | Role |
|---|---|
| `AtMostOnce` | the abstract promise of the write path about the store |
| `IdempotentWrite` | `add_memory_idempotent` and the server as its clients see it |
| `BulkImport` | EXTENDS `IdempotentWrite`: `import_facts` drives its calls |
| `ImportProofs` | theorems about both, and that each implements `AtMostOnce` |
| `AcceptanceProbe` | EXTENDS `BulkImport`: `run_probe` with its import, lookups, queries and clean-up |
| `ProbeProofs` | theorems about it, on top of those of the import; it implements `AtMostOnce` too |
| `StateStore` | what a state file promises: a store whose updates are atomic |
| `OAuthProvider` | the provider's handlers over `OAuthStateStore` |
| `OAuthProofs` | theorems about it, and that it implements `StateStore` |
| `BackupRestore` | the two scripts over stores, services and bucket |
| `BackupRestoreProofs` | theorems about it: what is kept |
| `RestoreDrill` | EXTENDS `BackupRestore`: the drill reads its bucket |
| `RestoreProofs` | theorems about both: what a restore leaves behind, and what a drill vouches for |
| `Bank` | the memory CLI and compaction over the records of one bank |
| `BankProofs` | theorems about it |
| `Clustering` | compaction's union-find and its choice of a canonical record |
| `Session` | gate, hand-off check and checkpoint over git |
| `SessionProofs` | theorems about it |
| `Agenda`, `Contract`, `Migration` | the pure algorithms of those components |
| `Arrange` | their lists in an order: Python's comprehensions and `list.sort` |
| `Algorithms` | all inputs of the algorithms, and what each result must be |
| `AlgorithmProofs` | that it is, for inputs of any length |
| `MC*` | instances for TLC: requests, fact lists, symmetry, input alphabets |

`BulkImport` and `AcceptanceProbe` are two compositions on top of the write path,
`RestoreDrill` one on top of the backups: the composed module takes the
component's actions as they are and adds its own variables beside them.

### 3.1 `IdempotentWrite` and `AtMostOnce`

A *writer* is a process that calls `add_memory_idempotent`.  A call is a program
counter `pc[w]`, and each remote call is one action:

| Action | Code (`idempotent_write.py`) |
|---|---|
| `Start` | entry, `ext[w]` is the external id |
| `FindInList`, `ListRaises` | the first half of `find_by_external_id`: the run's cache, or a fresh `list_all_memories`; an exception propagates |
| `FindBySearch`, `SearchRaises` | the filtered search; an exception is swallowed and counts as a miss |
| `Send`, `Answered`, `TimeOut`, `PostRaises` | the POST: answered, timed out, or any other exception |
| `Recache` | `update_cache_after_write` when the answer names no record, be it that none was made (`empty`) or that it was stored all the same (`mute`) |
| `Poll`, `GiveUp` | the verification loop and its deadline; each poll is again `FindInList` and `FindBySearch` |
| `OpenImport`, `CloseImport` | an import run begins (its one list is the cache) and ends |
| `Crash` | the process is killed |
| `Commit`, `ExtractNothing`, `Lose`, `Delete` | the server (external): a request takes effect after any delay, yields no record, is dropped; a record is deleted by somebody |

A request and the record it creates have one identity, so "stored twice" is two
records with the same `KeyOf`.  `Faults` names the failures an instance admits.
`truncate` makes a listing any subset of the bank: a bank of more than 1000
records, at the scale of two.  History variables: `contested` (ids for which a
call began before an earlier one had settled), `hidden` (ids for which a failed
search hid a stored record) and `settled` (ids a run saw stored).  They guard
nothing; they delimit where the code's promise holds.

`AtMostOnce` knows neither clients nor lookups: a request is issued only while
nothing for its id is outstanding or stored, unless the id is exempt.  The
refinement maps `outstanding` to the requests in flight, `stored` to the bank and
`exempt` to `contested \cup hidden`.

### 3.2 `BulkImport`

`Begin` is `OpenImport` plus the loop's initial values and the facts that are
invalid (`bad`) in this run's version of the file; per fact `RejectFact`
(validation), the importer's own `Lookup` (cache) and `SearchHit` / `Miss`
(search), then `WouldWrite` (dry run) or `Call`, which is `Start` of the write
path: the call then takes the write path's steps (`Proceed`), and `Collect`
records its verdict, or `Abort` leaves `import_facts` with its exception.
`Finish` computes the exit code.  Other writers and the server go on beside it.

### 3.3 `OAuthProvider`

Each put or delete of `OAuthStateStore` is `ReadFile`, `TruncateFile`,
`WriteFile`: `_read` takes an unreadable file for an empty one, and `_write`
prunes expired entries and the oldest clients above the cap.  A handler is the
sequence `todo[c]` of such operations together with the entries it will hand out
(`answer`) and those it set out to spend (`retired`).  Handlers never suspend, so
a container runs one at a time; a kill may come between any two file accesses,
and loses the pending consents.  Time is `Lapse`: an `expires_at` passes.
Secrets and hashes are abstracted to the identity of what they stand for.

`StateStore` is the abstract view: a handler *announces* what it will put and drop,
each update is one step that also prunes, puts come after drops, nothing is put twice,
and a death loses at worst everything.  The mapping `Store`: the store holds what the
file holds or, while the file is empty, what its writer read (`Held`), so that an update
happens at `WriteFile` and the reads and truncations are stutters; `unused` are the
codes and tokens not made yet (`Unmade`); `due` and `doomed` are the puts and deletes
left in `todo`.  A kill is `Die`, at worst with everything; a restart is a stutter, and so is
opening a transaction unless it prunes others, whose codes are then given up.

### 3.4 `BackupRestore`

`live[s]` is a store's content: the set of memories in it and whether it is whole
(a load that was cut off leaves a store that is not).  `bucket[t]` counts the
files of a prefix and says what its dumps hold; `serving` is which of mem0 and
Neo4j is up.  Each runner is a script at a command `pc[r]`, with the stamp, the
stage directory, the prefix it restores and the download in `job[r]`:

| Actions | Code |
|---|---|
| `BeginBackup`, `PgDump`, `TarHistory`, `StopGraph`, `DumpGraph`, `DumpGraphFails`, `StartGraph`, `StartGraphAndDie`, `Put`, `Report` | `backup.sh`, top to bottom; the failed graph dump is remembered until Neo4j is up again; files go up one by one |
| `BeginRestore`, `Download`, `SkipSnapshot`, `StopMem0`, `LoadPostgres`, `LoadHistory`, `StopForLoad`, `LoadGraph`, `LoadGraphRefused`, `StartAfterLoad`, `StartMem0` | `restore.sh`; its pre-restore snapshot is `BeginBackup` from `"snapshot"`, whose `Report` returns to the restore |
| `CommandFails`, `Killed` | `set -e`, the unit's timeout, a reboot: the script ends where it stands, a store it was loading is left half loaded, no service is started |
| `Write` | a client, whenever mem0 serves (external) |

History: `acked` (memories clients were told are stored), `before[t]` (what was
live when run `t` began), `exposed` (memories no restore undertook to keep: those
written after the pre-restore snapshot had read Postgres, and everything when the
operator set `SKIP_PRESNAPSHOT=1`).

Assumed: checksums detect damage; no two runs take the same second as their
stamp; nothing in the bucket reaches its 30-day expiry; clients delete nothing; a
memory appears in Postgres and in the history at once; one operator restores at a
time.

### 3.5 `RestoreDrill`

The drill is one more process beside those of `BackupRestore`: `BeginDrill`
takes the newest prefix listed, `GetFile` fetches the files in the order they are
put up (and ends the drill at the first that is missing), `RestoreScratch`
restores any part of the memories, as pg_restore's exit code is ignored,
`AssertCanary`, `LoadScratchGraph` and `CheckHistory` are the assertions,
`DrillFails` any command that fails.  Every way out is the trap `cleanup()`
(`DrillExit`).  It changes none of the state of `BackupRestore`.

### 3.6 `Bank` and `Clustering`

A record is its type, status, `merged_from` and a text that is as captured,
edited or blank.  `CloseGet` and `ClosePut` are the two requests of `close_item`;
`Capture`, `Update` and `Remove` are one request each.  `ScanList` and `ScanSearch`
compute a report (the list may be cut, searches may return records the list
lacks), `MergeStart`, `MergeGet`, `MergePut`, `MergeDelete`, `MergeSkip`,
`MergeNext`, `MergeEnd` apply the saved one, possibly again, possibly after
`MergeFails`.  What the server's PUT does with metadata (replace, or lay it over
what is stored) is not to be seen in the code, so `Put` may do either.  `past`
records what happened to which record: it delimits the properties and guards
nothing.

### 3.7 `AcceptanceProbe`

`Told` and `EventDate` say of each fact which of the phrases that the queries ask
about its text holds, and its date (`FactsAssumption`: every fact has an id of its
own, the one expected of the recency query is the newest about the project, and the
contact is nobody's sibling).  `stage` is where `run_probe` is: import (the steps of `BulkImport`), `collect` (one
`fetch_by_external_id` per fact), the queries `recency`, `vector`, `entity` with
`search_with_contract` (`Ask`, one `Fetch` per id, `Judge`), `followup` and its
fallback `scan`, `cleanup` (one `Erase` per fact) and `Report`.  Which records a
similarity search ranks high is nondeterministic; how the answer is chosen among the
records returned (`Newest`, `Score`, `Best`) is the code's.  `QueryRaises`, `EraseRaises` and
`KillProbe` leave the run, without clean-up, as the code does.

### 3.8 `Session`

Git is what people make of it: `Edit`, `Commit`, `Push`, `TheyPush`, `Pull`, of one
item of work at a time.  Gate, hand-off check and checkpoint each make a *round*
of git commands over the repositories, one action per command (`Inside`,
`ReadStatus`, `ReadUpstream`, `ReadAhead`, `ReadBehind`, `ReadCheckpoint`), any of
which may fail and then answers what `_run_git`'s empty string is taken for.
`GateAnswer` is the hook's answer and what the harness makes of it, in both modes
(`cursor` with its follow-up limit, `decision` with `stop_hook_active`).  `ReadLog`
and `WriteLog` are the unlocked rewrite of `BUILD-LOG.md`.  `owed` and `unpulled`
record what was true when a round began, `blind` where a command failed.

### 3.9 The algorithms

`Agenda` reads a listing of records, whose metadata is nested, flattened or both,
and has the five lists of `agenda` and the order of `recruiter_board`.  `Contract` has
the four ways to a fact's metadata: `Captured` (command line), `Prepared` (JSON),
`FromRow` and `Sheet` (the operator's sheet), `Added` (the MCP tool).  `Migration` is the
import command over several files: the heading stack, the ids, the venture tags, the
deduplication and what is exported.  `Clustering` has the clusters.  Folds stand for
the loops.  A behaviour of `Algorithms` picks one of them and grows its input element
by element, so that its states are the inputs, and its invariants compare each
result with a definition that knows no loop (the ancestors of a line, the connected
components of a graph).

## 4. The runs

Sizes are distinct states of a complete search.  Every run reads one `.cfg` of
the same name.

| Run | Question | Properties | Instance | States |
|---|---|---|---|---|
| `IdempotentWrite_safety` | Can two writers, any failures and any delays make the write path break its word, or keep a call from ending? | `TypeOK`, `SettledCalls`, `SingleRecord`, `HonestVerdict`, `RunNeverRepeats`, `ImplementsAtMostOnce`, `CallsReturn` | 2 writers, 1 id, 2 POSTs, 2 polls, all nine failures | 821,574 |
| `BulkImport_safety` | What do an exit code, a re-run and a dry run stand for? | `ExitZeroAccounts`, `RerunWritesNothing`, `DryRunWritesNothing` | a file naming one id twice, whose first entry may be invalid from run to run; an importer and another writer; all failures | 1,404,211 |
| `AcceptanceProbe` | What do a pass, a failure and the clean-up of the probe stand for? | `PassMeansFound`, `NoFalseAlarm`, `CleanAfterRun`, `LateCommitVerified` | 3 facts, 2 POSTs of two of them and 1 of the third, 1 poll; failing POSTs, lists and searches, kills, late commits, run after run | 616,541 |
| `OAuthProvider_single` | Do grants and clients survive, is each grant spent once? | `GrantsDurable`, `ExchangedOnce`, `NewestClients`, `ImplementsStateStore` | 1 container killed and restarted anywhere, 2 clients for a registry of 1, 1 transaction, 2 token pairs | 195,600 |
| `BackupRestore_safety` | Do overlapping, failing, killed scripts lose or corrupt memories? | `TypeOK`, `NothingLost`, `AppSeesWholeData`, `HeartbeatHonest`, `RestoreFaithful` | the timer and one operator, 1 memory, 2 prefixes, all failures, snapshot skippable | 1,062,408 |
| `RestoreDrill` | Is a drill's ping worth something, and does Neo4j come up again? | `DrillHonest`, `DrilledRestores`, `GraphReturns` | the same with 3 prefixes beside drills; failing graph dumps and drill commands, nobody killed | 628,000 |
| `Bank_edits` | What survives of records that tools edit without a lock? | `MergeAccounted`, `AgendaExact`, `EditsSurvive` | 3 records, 2 callers that close, 2 closes, updates or deletes, 2 scans, merges at will | 2,305,643 |
| `Session_tools` | Does a pass mean pushed work, and does the hook let a session end? | `PassMeansPushed`, `HandoffInSync`, `LoudBeforeGivingUp`, `LogKept`, `SessionStops` | 1 repository; a gate, a hand-off check, or two checkpoints beside the work | 255,735 |
| `Algorithms` | Do the loops compute what their definitions say? | `NothingDueHidden`, `AcceptedIsCanonical`, `PathsAreAncestors`, `NothingLostWithoutCollision`, `DedupSound`, `ClustersAreComponents` | every input up to a length | 431,923 |
| `IdempotentWrite_rerun` | Is an id written once, with no proviso? | `WriteOnce` (refuted) | 1 writer, no failure but slowness | |
| `OAuthProvider_restart` | Do tokens survive a restart at any moment? | `TokensSurvive` (refuted) | 1 container, 1 client, 1 pair | |
| `BackupRestore_reversible` | Is every restore reversible? | `RestoreReversible` (refuted) | no failure at all | |

What the passing runs show, property by property:

- `SingleRecord`: crashes, lost requests, timeouts, stale caches, truncated lists
  and re-runs *by themselves* never duplicate an id.  The two things that do are
  named in the property: overlapping calls for one id, and a search that fails
  while it hides a stored record.  `SettledCalls` is the reason, and the
  inductive invariant of the proof.
- `ImplementsAtMostOnce`: step by step, so that it also sees a duplicate POST
  whose record is deleted before anyone looks.
- `HonestVerdict`: what a call reports was really committed under its id, also
  when it is reported from a cache of minutes ago.
- `RunNeverRepeats`: within one import run a settled id is not POSTed again, even
  if every search fails and the record is deleted meanwhile: what
  `update_cache_after_write` is for.  Settled is an id whose record the answer of its
  POST, the verification or, if the answer named none (`empty`, `mute`), the search
  behind it showed the run.
- `CallsReturn`, `LateCommitVerified`: every call ends, whatever the server does; a
  commit between the timeout and the first poll is reported as
  `verified_after_timeout`, unless a list request of the verification raised, the
  process was killed, a failed search hid the record or it was deleted.
- `ExitZeroAccounts`: exit 0 of a real run means that every fact was valid and the
  server stored a record for its id, or answered its POST without extracting one.
- `DryRunWritesNothing`: no step of a dry run sends a request that changes the bank.
- `RerunWritesNothing`: if the opening list held everything, nothing is POSTed,
  whatever fails or is deleted meanwhile.
- `GrantsDurable`, `ExchangedOnce`, `NewestClients`: between writes, and unless a
  container died half way through one, an unexpired and unspent grant is in the
  file; a code or refresh token yields at most one usable pair, wherever an
  exchange is cut short; eviction takes the oldest clients only.
- `ImplementsStateStore`: no step between two handlers' file accesses shows, through
  any restarts: an update that is lost, an entry that comes back after its deletion, a
  code stored twice for one consent or a token stored before what it replaces is gone
  would each be a step `StateStore` does not have.
- `NothingLost`, `HeartbeatHonest`: a memory that is not exposed is in the
  database or in a complete backup; after a success ping the prefix is complete
  and what was live when the run began is in *some* complete backup.  (Not
  necessarily the run's own: a restore may replace the database before the dump
  reads it, having saved it first.)
- `AppSeesWholeData`: a restore that dies leaves mem0 down, so that nobody is
  served half a database, with the proviso that no half-loaded store was itself
  backed up: a retry after a failed restore snapshots the broken state, and
  that snapshot is then the newest backup `restore.sh latest` takes.
- `RestoreFaithful`: when a restore brings mem0 back, all three stores are those
  of the backup asked for; the overlapping backup that starts Neo4j early can
  make the load fail, never make it wrong.
- `DrillHonest`, `DrilledRestores`: a success ping stands for a complete backup that
  holds the canary, also when the drill overlapped the upload, and a later restore
  of that backup that comes back serves the canary.
- `GraphReturns`: `backup.sh` remembers a failed dump until Neo4j is up again.
- `MergeAccounted`: whatever a merge deleted is named in `merged_from` of the record
  it went into, across failed merges, re-runs of the same report and later merges.
  The exceptions are named in the property: that record was itself merged on,
  deleted or re-tagged by a caller, or written back from an overtaken read.
- `AgendaExact`, `EditsSurvive`: an open item leaves the agenda by being closed or
  deleted, and a closed one never returns; an edited text stays as long as its
  record.  The exceptions are named in the properties.  Two are races: an overtaken
  read that is written back, and an update that sends metadata of its own.  The
  third is a merge that deletes the record as a member: it reads neither the
  member's text nor its type and status, so an edit made since the scan goes with
  it, and so does an open item whose canonical record is of another type or was
  closed meanwhile.  Of such a record `MergeAccounted` is all that is promised.
- `PassMeansFound`, `NoFalseAlarm`, `CleanAfterRun`: no failed search, empty answer or
  foreign record makes the probe pass; a failing exit is never the fault of
  ranking, leftovers or late POSTs; after a completed run no probe record is left
  that its lookup could have seen.
- `PassMeansPushed`, `HandoffInSync`: the answers of a round are of different moments,
  and work moves on in between; yet what was pending when the round began has
  been pushed (and what origin had has been pulled) when it passes, except where
  a git command failed: a failed command looks like a clean answer.
- `LoudBeforeGivingUp`, `SessionStops`: in both harness modes the hook ends the session
  after finitely many turns, in Cursor's mode only after the loud message.
- `LogKept`: an entry of the build log stays unless two checkpoints overlapped.
- `NothingDueHidden`: an open item of the listing is shown in exactly one list, once; with a due or a
  revisit date that has come, in one that an operator acts on.
- `AcceptedIsCanonical`: what is imported, from JSON or from the sheet, has one form in
  the bank, and importing what is stored changes nothing; a fact without a status is
  stored the same by the command line and by the MCP tool (which does not validate
  one with a status); a sheet is converted row by row or not at all.
- `PathsAreAncestors`, `NothingLostWithoutCollision`: every body line is filed once
  under the headings it stands under.  Where no two sections share an id each is
  exported, or one with the same words, which has the tags the section's text earns if it
  is also laid out alike; and a second run that looks at the bank exports exactly what
  its listing leaves out.
- `DedupSound`, `ClustersAreComponents`: the bank gains exactly what it did not have,
  by id and by the words of the rendered text, once; clusters are the connected
  components, whichever records were listed.

### Bounds, and why they are enough

`MaxPolls` is 30 by default (90 s, every 3 s); two polls have a first, a last and
one in between.  Two POSTs of one id are what a duplicate takes, and two writers
what contention takes; ids do not interact in the write path except through a
cache and a bank, for which `AcceptanceProbe` has two.  The budgets `WithinBudget` and
`RunWithinBudget` only keep a call from starting when no request is left for it;
dry runs start for ever.  In the OAuth model a registry of one with two clients
evicts at every registration, and two pairs are an exchange and its retry or a
pair and its rotation.  In the backup model the stamps are the only counter:
with two there is a nightly backup and a snapshot, with three (`RestoreDrill`) a
second nightly run;
one memory suffices because memories are independent: every property
speaks of each memory alone, and what a load keeps of one says nothing of
another.  A run that uploads nothing gives its stamp back, so failing runs repeat
without end and no cycle is cut off by the bound.

In the probe's model three of the probe's facts stand for its list: the newest about
the project, an older one about it, and the open item that names the contact, so that
each query has its right and its wrong answers.  `Unreliable` names the stages whose searches may raise, one of
each kind (the lookup before deletion, a contract query, the follow-ups); the bank
holds fewer than 50 other open items, so the top-50 cut of the follow-up search
hides nothing.  In `Bank` two seeded records and one that is captured make a cluster
that grows between scan and merge; `MaxEdits` and `MaxScans` bound closes, updates,
deletes and scans, while captures end with the ids and merges are unbounded.  All
records are captured as open items: neither close nor merge reads a type, and that
an item leaves the agenda by a merge is there already, with a canonical record that
was closed since the scan; the theorems cover any types.  In
`Session` `LoopLimit` and `FailLoudAt` are the values of the code (4 and 3); `Casts` names which processes run beside the work at a time, as the tools
only share git, the log and each other's log entry.  The input lengths of
`Algorithms` are 1 fact, 3 records for the agenda, 3 rows of a sheet, 4 facts or edges,
5 lines of markdown, in one file or cut anywhere into two, over an alphabet with two
titles of one slug, and lines and texts that are equal up to case, up to where they
break, or up to where a heading ends and the body begins; one keyword is two words of
one line, which a line break parts.  A listing returns two records (`ListLimit`, 1000 in
the code), so that a bank of three outgrows it.  The theorems of section 6 have no such bound.

Symmetry is used where values are interchangeable and only safety is checked:
token pairs in `OAuthProvider_single`, callers in `Bank_edits`.  Deadlock is not checked where the system
may stop of its own accord: backups once all stamps are used, the bank once its
edits are, a session that has stopped, an input of full length.

## 5. Fairness

- `IdempotentWrite!FairSpec`: weak fairness of `Proceed(w)`, the steps a writer
  takes by itself.  A call is one thread; every HTTP request has a timeout
  (`write_timeout_seconds`) and the loop a deadline.  Nothing obliges the server to
  commit or a caller to call, and `TimeOut` is always possible while waiting.
- `AcceptanceProbe!ProbeFairSpec`: weak fairness of the probe's own steps, for the
  same reason: it is one thread, and its import makes the same calls.
- `RestoreDrill!DrillSpec`: a backup or restore that runs goes on to its next command.
- `Session!FairSpec`: an agent's turn ends, and the hook, whose git commands have
  timeouts, takes its next step.  The other tools and git itself have no fairness.

Nothing assumes that an operator acts, that a timer fires, that a client writes,
or that the server answers.

## 6. What is proved

Proofs are checked by TLAPS for all values of the constants: any number of
writers, ids, requests, polls, facts, runners, memories, prefixes, records, edits,
clients, token pairs, repositories and pieces of work, any set of failures, inputs of
any length.

| Theorem | Statement | Argument |
|---|---|---|
| `ImportProofs!TypeCorrect` | `Spec => []TypeOK` | `TypeOK /\ CallState` is inductive: only a call that has an id may enter it into the history of its run, only one that sent a request may read what became of it |
| `CallsSettle` | `Spec => []SettledCalls` | see below |
| `NoDuplicates` | `Spec => []SingleRecord` | `SettledCalls` |
| `VerdictsHonest` | `Spec => []HonestVerdict` | `Evidence`: every cached record was committed; a running call has no verdict yet |
| `RunsNeverRepeat` | `Spec => []RunNeverRepeats` | `Remembered`: a run's cache has every id it settled, and a call past the cache is for an id the cache lacks |
| `Refinement` | `Spec => ImplementsAtMostOnce` | each action is a step of `AtMostOnce` or a stutter, given `SettledCalls` |
| `ExitCodesHonest` | `ImportSpec => []ExitZeroAccounts` | `RunOK`: see below |
| `RerunsWriteNothing`, `DryRunsDry` | `ImportSpec => []RerunWritesNothing`, `ImportSpec => DryRunWritesNothing` | `RunOK` |
| `ImportsNeverDuplicate`, `ImportRefines` | `ImportSpec => []SingleRecord`, `ImportSpec => ImplementsAtMostOnce` | `Calls`, the invariant of the write path, which every import step keeps |
| `BackupRestoreProofs!TypeCorrect` | `Spec => []TypeOK` | `Typed`: see below |
| `NeverLost` | `Spec => []NothingLost` | `Saved`: see below |
| `PingsHonest` | `Spec => []HeartbeatHonest` | `Saved`, `Known` and `Honest`: see below |
| `RestoreProofs!RestoresFaithful` | `Spec => RestoreFaithful` | `Picked`: see below |
| `AppWhole` | `Spec => []AppSeesWholeData` | the same, and a half-loaded store is only ever there while mem0 is down |
| `DrillsHonest` | `DrillSpec => []DrillHonest` | `Reading`: the files a drill has are files of one prefix, which only grows |
| `DrilledServes` | `DrillSpec => DrilledRestores` | every drill step is a stutter of `BackupRestore`, so `RestoresFaithful` carries over |
| `ProbeProofs!PassesHonest` | `ProbeSpec => []PassMeansFound` | `Found`: what each query answered so far has found |
| `AlarmsFounded` | `ProbeSpec => []NoFalseAlarm` | `Backing`, `Heard`: see below |
| `CompletedRunsClean` | `ProbeSpec => []CleanAfterRun` | `Swept`: see below |
| `ProbesNeverDuplicate` | `ProbeSpec => []SingleRecord` | every step of the probe is a step of an import or takes records away, and both keep `Calls` |
| `ProbeRefines` | `ProbeSpec => ImplementsAtMostOnce` | `Collects`: no more than one record per id is collected, so that a turn of the deletion loop is one `Remove` of the abstract store |
| `OAuthProofs!TypeCorrect` | `Spec => []TypeOK` | `Typed`, for any number of containers at once |
| `GrantsKept` | `MaxUp = 1`: `Spec => []GrantsDurable` | `Alone`, `Owes`: see below |
| `GrantsExchangedOnce` | `MaxUp = 1`: `Spec => []ExchangedOnce` | `Alone`, `Once`: see below |
| `NewestStay` | `MaxUp = 1`: `Spec => []NewestClients` | `Registry`: the clients in the file, or in the image about to be written, are the end of all registrations |
| `StoreRefines` | `MaxUp = 1`: `Spec => ImplementsStateStore` | `Laid`: the operations left put and delete each entry once, deletes first, the file is empty while its writer writes, and what it writes fits the cap; with `Alone`, `Once`, `Registry` |
| `BankProofs!TypeCorrect` | `Spec => []TypeOK` | what a request was made with is typed; nothing has happened to an unborn record |
| `NoTraceLost` | `Spec => []MergeAccounted` | `Announced`, `Traced`: see below |
| `AgendaFaithful`, `EditsKept` | `Spec => []AgendaExact`, `Spec => []EditsSurvive` | `AgendaOfLive`, `EditsOfLive` for the records that are there, inductive given `Typed`, with one lemma, `PutRecord`, for both readings of the server's PUT; `Departed` for those that are not: a caller deleted them, or a merge |
| `SessionProofs!TypeCorrect` | `Spec => []TypeOK` | a process at a command about a repository has one |
| `PassesHonest`, `HandoffsInSync` | `Spec => []PassMeansPushed`, `Spec => []HandoffInSync` | `RoundOK`: see below |
| `GivesUpLoudly` | `LoopLimit > FailLoudAt`: `Spec => []LoudBeforeGivingUp` | `Loud`: beyond `FailLoudAt` follow-ups the last message was the loud one |
| `LogStays` | `Spec => []LogKept` | inductive given `Typed`: only a writer that read before another wrote drops an entry |
| `AlgorithmProofs!NothingDueHiddenAlways` | `Spec => []NothingDueHidden` | `Lists`, `Arranges`: each list holds each of its places once, keys ascending |
| `AcceptedIsCanonicalAlways` | `Spec => []AcceptedIsCanonical` | the ways agree field by field (the two that skip what the others check, for a fact without a status), and `Prepared` is idempotent; rows by `Arranged` |
| `PathsAreAncestorsAlways` | `Spec => []PathsAreAncestors` | `Stacked`: after a prefix of the lines, the stack holds the headings still open (`Open`), and the sections the lines so far (`Listed`) |
| `NothingLostAlways` | `Spec => []NothingLostWithoutCollision` | without a collision of ids only texts of the same words are dropped, and the fact kept for them has the tags if the lines are the same too (`AlikeIsClash`); what a re-run keeps is what the listing lacks (`RerunKeepsTheRest`: no two kept facts clash) |
| `DedupSoundAlways` | `Spec => []DedupSound` | `Filtered`: after a prefix of the facts, the index is that of the bank and the kept |
| `ClustersAreComponentsAlways` | `Spec => []ClustersAreComponents` | `Joined`: after some of the edges, two records have one root exactly if those edges link them |

*Why `SettledCalls`.*  `SingleRecord` speaks of records and is not inductive: a
state with one record and one request in flight satisfies it and breaks it in one
step.  `Undisturbed(e)` adds what a call knows at each point: at most one record
or request of an undisturbed id is *live* and at most one call runs; during its first
lookup nothing is in flight, so an empty search proves that nothing is live at
all; and that still holds when the POST is sent.  `FindBySearch` and `Send` carry
the argument; `Start` and `SearchRaises` move the ids they would break it for
into `contested` and `hidden`.

*Why `Typed` in the backup model.*  That a load finds the store it wants in its
download, and that a run never writes a fifth file, depends on where each script
stands.  `JobOK` says which stores a stage directory holds at each command, that
a prefix being written is incomplete and one being reported is exactly the
stage, and that a restore past its download holds all three stores.  `Distinct`
keeps two runners out of one prefix, which is why one's `Put` leaves the others'
`JobOK` alone.

*Why `Saved`.*  The database alone does not show why nothing is lost when a
restore overwrites it.  `SavedBy(r)` follows a restore through its snapshot: after
the dump of Postgres, what must be kept is in the stage directory or in a complete
backup; from `"stopMem0"` on it is in a complete backup; and at
`"loadPostgres"` mem0 is down, so that no write can come between.  The last part
needs that only a restore starts mem0 and that there is one restore at a time
(`RunnerAssumption`).  `BackupsStay` adds that complete backups never change.

*Why `Known` and `Honest`.*  What a run owes its ping, `Owed(t)`, is what was live
when it began.  Between that moment and its `pg_dump` a restore may replace the
database; `NothingLost` then says that a complete backup has what is gone, once it
is known that whatever is live, staged, downloaded or backed up was acknowledged
(`Known`).  `Honest` carries the debt from the dump to the report, and past it.

*Why `Picked` for the restore.*  Between the download and `StartMem0` come a
snapshot, several loads and anybody else's backup.  `PickOK` says of each command
that the picked prefix is complete and the download is its copy, that mem0 is down
from `"loadPostgres"` on, and which stores are by then those of the backup.  A
nightly run may start Neo4j but never loads, and mem0, the only writer, is down:
no step between undoes a load.  `Prefixes` says that a prefix is empty until its
run uploads, and then holds that run's stage and nothing else.

*Why `RunOK`.*  The exit code is computed at the end from outcomes collected one by
one.  `Placed` ties the number of outcomes to the fact at hand and confines calls
to valid facts of real runs; `Counted` says that an outcome which will not be a
failure has its fact accounted for; `Saved` that a run whose opening list held
every valid fact still has each of them in its cache, as nothing takes a record out
of a cache, and so is never in a search or a call.

*Why `Swept` and `Backing` for the probe.*  Its clean-up deletes what it collected
several requests earlier, by id, one record per id.  `Swept` says, id by id as the
loops reach them, that a record in the bank is collected (later: to be deleted,
then gone) or one the property excuses.  That the one record found for an id is the
only one is `SettledCalls`; that every record in the bank has an id the loops will
reach is `Mine`.  A failure is founded because during the import nothing is
deleted: `Backing` says that what the cache, the outcomes and the call at hand rest
on is still in the bank, so an exit of 0 means a record of every fact; `Heard`
carries that through the queries, whose pool then has a record of every fact unless
a search failed (`blind`).

*Why `MaxUp = 1`, and `Owes`, `Once`.*  The state file has no lock: with two
containers the write of one undoes that of the other (section 7).  With one, `Alone`
says that a container which is not up holds no operation.  `Owes` follows a handler through read, truncate and write: what
it took from the file is what the file holds, or held before it was emptied, so the
write restores all it does not delete, and what it will hand out is in the file or
still to be put.  For exchanges, `Spent` says that once a pair can be seen anywhere
(file, image, answer, delivered), the grant it came from can be in no store any
more, unless the very next operation of the handler at work deletes it, before the
pair is put (`Exchanging`); two pairs minted from one grant therefore cannot both
be in sight.

*Why `Announced` and `Traced`.*  A merge first names what it will delete in the
canonical record, then deletes it request by request, and the bank changes in
between.  `Names(c, D)` is what one PUT established (or one of the property's
exceptions); the lemma `NamesStay` shows that no later step of anybody takes it
back without leaving one of the exceptions behind.

*Why `RoundOK`.*  The answers of a round are of different moments, so what they say
together is true of no moment.  `WorkAt(p, x)` says where a piece of work that the
round owes has got to: it is pushed, or found, or in a repository where a command
failed or which is still to be asked, or the round stands in its repository before
the command that will show it (after a clean `git status`, work not pushed has been
committed, and `rev-list` is still to come).  `OriginAt` and `StatusAt` do the same
for what origin has and for STATUS.md.  TLC's instance has one repository; the
theorems have any number, in any order.

*Why induction works for the algorithms after all.*  The library's induction
theorems take a predicate as an operator, which none of the provers can
instantiate.  `WFMin` takes a set instead: a set of numbers with no least element is
empty.  `Induction` follows from it, for a *set* that holds 0 and with n also n + 1,
and each induction below is one over such a set.  A fold of the community modules is a
recursive function, of which nothing is known until it is shown to exist:
`FoldExists` and `FoldLeftExists` do that by induction on the size of the set, and
the loops then unfold step by step, prefix by prefix (`KeepRun`, `ReadRun`,
`FlatRun`), which is how one reasons about a loop.  A sorted enumeration is a
`CHOOSE`: `OrderedIsBijective` shows that it holds each element once, and two
ascending enumerations of one set are the same (`AscendsUnique`), which is what `PathsAreAncestors` compares.

*What the stack holds.*  `PathsAreAncestors` speaks of the end; a loop that has read k
lines must know more: the headings on the stack are those among the k that no later
one closed, by rank strictly increasing, and what was filed so far is what `Filed`
would be for k lines, the body in progress included.  A heading pops exactly those
it closes because the ranks increase.  For the deduplication the loop knows that
nothing kept clashes with the bank or with what else was kept; for the union-find that
the roots of two records agree exactly if no set of records that the edges so far
do not leave parts them.

The assumptions used are those the modules state on their constants
(`WriteAssumption`, `ImportAssumption`, `RunnerAssumption`, `BoundAssumption`,
`CanaryAssumption`, `ProbeAssumption`, `FactsAssumption`, `OAuthAssumption`,
`BankAssumption`, `SessionAssumption`, `AgendaAssumption`, `ListLimitAssumption`,
`InputAssumption`),
which TLC evaluates in every run, and the two that theorems state for themselves:
`MaxUp = 1` (one container is replaced by the next, as `OAuthProvider_single` has
it) and `LoopLimit > FailLoudAt` (the code's 4 and 3).

Only model-checked: the four liveness properties (`CallsReturn`, `LateCommitVerified`,
`GraphReturns`, `SessionStops`), for fairness and ENABLED are beyond the prover.  Every
invariant and action property of a passing run is the subject of a theorem.
The type invariants of the OAuth provider, the bank and the session tools are proved
only: no run spends time on them.

## 7. What the runs refute

Three statements of the repository's own documentation do not hold of the code:

1. *"Write once with external_id ... verify-then-skip on timeout"*
   (`idempotent_write.py:195`), with the advice to re-run after
   `timeout_unverified` (`:248`).  A re-run before the first POST commits finds
   nothing and POSTs again: two records (`IdempotentWrite_rerun`).
2. *"tokens survive container redeploys"* (ADR 035), *"keeps a restarted (or
   concurrently redeployed) container consistent"* (`oauth.py:69`).  The state
   file is emptied and then filled; a kill in between leaves no clients and no
   tokens, and the next put makes it permanent (`OAuthProvider_restart`).
3. *"so this restore is reversible"* (`restore.sh:101`), ADR 023 section 3.  mem0 is
   stopped after the snapshot, so what is stored in between is in no backup
   (`BackupRestore_reversible`).  `NothingLost` is what remains true.

Other things the models show, for which no run is kept; each is a proviso of a
property above or a hazard in `PROJECT.json`:

- *"if not found, surface `timeout_unverified` and stop"* (ADR 037): without a cache
  each poll begins with a list request, whose failure leaves
  `add_memory_idempotent` as an exception: no verdict.
- *"never let a hung run hold the graph down forever"*
  (`ai-memory-backup.service:17`): killing the run between stop and start does not
  start Neo4j; the next run may hang and be killed too.
- Two redeploying containers (`MaxUp = 2`) lose each other's writes, as their
  read-modify-write has no lock.  The docstring claims consistency for a single
  user's traffic only.
- The probe may pass on records an aborted run left behind; a drill may pass on a
  backup of a half-loaded store in which the canary survived.
- A close or a merge that writes back an overtaken read undoes what came between:
  an item may be reopened, an edit lost, `merged_from` forgotten.
- After chained merges `merged_from` names only the direct predecessors.
- A due date that is no date is stored as it is and sorts last on the board.
- `csv_to_bulk_seed.py:19` offers the type `decision`, the converter passes it on, and
  the importer rejects the fact (`contract.py:131`): in `Contract` only `fact` and
  `open_item` validate.
- The MCP tool `add_memory` puts the dates of its `metadata_json` back over those the
  contract has built, as they are (`server.py:78`): with a time behind the day, or no
  date at all.  `AcceptedIsCanonical` therefore compares it with the other ways for a
  date given as the argument.
- The same tool takes a record that has a status past validation (`server.py:63`), as it
  does open items and decisions: a fact with the source `cursor` keeps it there, where the
  importer stores `cursor-repo`.  The sheet has a `status` column.
- A section that repeats one of another file is dropped with the venture tags that its
  own path gives it.  It need only repeat the words: `interview` and `prep` on two lines are
  no keyword, on one line they are, and if the first section is the one that is kept the
  tag of the second is lost (`dedup.py:34`, `categorizer.py:62`).
- In a bank of more than 1000 records `--use-bank` compares with the 1000 that one
  listing returns (`cli.py:118`, `idempotent_write.py:70`), and exports again what it
  left out.
- A merge takes open items off the agenda, and edits made since the scan with them, when
  it deletes a member it has not read.
- A commit in the second of the last STATUS.md commit passes the STATUS check; and
  `session_checkpoint.py --strict --write-log` judges the repositories as they were
  before its own entry in the build log.

## 8. What is left out

Within the modelled components: the text of memories and the fuzzy match of
`infer=True` beyond "a record, or none"; the order of search results, except where
the probe or compaction depends on it; HTTP statuses other than timeout and error;
the consent page; token scopes; the checks before a script's first change of
state; the retention policy of the bucket; similarity scores; the report files,
messages and tables the tools print; the key `source_doc_id` of a fact.
Hazards of these components that no property covers are listed in `PROJECT.json`
with the reason.

Components not modelled for good, because they keep no state that a second actor
or a later step could meet: the other tools of the MCP
servers (one request each); life graph (built
and queried in one process, used by nothing else); session bootstrap and the
deploy probe (read, print, straight lines of commands); observability and
evaluation (arithmetic over a gold set or counters); operator actions, SSH unlock,
teardown (straight lines of commands for a human); health checker; repository
checks, contract rendering and IDE hooks (string processing); infrastructure
(declarative).

## 9. The plan

The models cover what the plan set out to cover, and every invariant and action
property that is checked is also proved.  What could still be added, in order of what
it would say:

1. an abstract specification of the backups (a database with a last good copy), with
   the refinement under the provisos of `NothingLost`;
2. the safety half of `CallsReturn`: a measure of a call that every step of the caller
   lowers and no step of anybody else raises;
3. type correctness of imports, probes and drills, which their proofs use in part.

What remains out of the prover's reach is named in section 6, what is not worth a
model in section 8.
