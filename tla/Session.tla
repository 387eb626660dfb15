------------------------------- MODULE Session -------------------------------
(***************************************************************************)
(* The end of an agent's session: the stop hook (completion_gate.py), the  *)
(* hand-off check (handoff_verify.py) and the checkpoint with its build    *)
(* log (session_checkpoint.py).  All three ask git about every repository, *)
(* one command at a time, while the agent, the operator and other agents   *)
(* go on editing, committing, pushing and pulling.  Git itself and the     *)
(* harness that calls the hook are outside the repository.                 *)
(***************************************************************************)
EXTENDS Naturals, FiniteSets

CONSTANTS
    Repo,           \* the repositories found in the workspace
    Work,           \* pieces of work, each a change in one repository
    Home,           \* the repository a piece of work belongs to
    LogRepo,        \* the repository that holds BUILD-LOG.md
    Gate,           \* stop-hook processes (one harness session each)
    Handoff,        \* runs of handoff_verify.py
    Checkpoint,     \* runs of session_checkpoint.py --strict --write-log
    LoopLimit,      \* the harness's cap on follow-ups (install_ide_hooks.py)
    FailLoudAt,     \* completion_gate.py's FAIL_LOUD_AT
    Casts,          \* bound: which processes there may be beside each other
    None            \* no repository

Process == Gate \cup Handoff \cup Checkpoint

\* What may be uncommitted: a piece of work, or the entry a checkpoint logged.
Item == Work \cup Checkpoint

ASSUME SessionAssumption ==
    /\ Home \in [Item -> Repo]
    /\ \A c \in Checkpoint : Home[c] = LogRepo
    /\ LogRepo \in Repo
    /\ None \notin Repo
    /\ LoopLimit \in Nat /\ FailLoudAt \in Nat /\ Casts \subseteq SUBSET Process
    /\ Gate \cap (Handoff \cup Checkpoint) = {}
    /\ Handoff \cap Checkpoint = {}
    /\ Work \cap Checkpoint = {}

VARIABLES
    cast,       \* the processes there are
    place,      \* place[x]: how far item x has come
    upstream,   \* repositories whose branch has an upstream
    ours,       \* repositories whose origin has commits not in the clone
    seen,       \* ... of those, the ones the clone's last fetch showed
    current,    \* repositories whose STATUS.md counts as the checkpoint
    job,        \* job[p]: how far process p is in its round of git commands
    log,        \* the entries in BUILD-LOG.md
    hook,       \* hook[g]: the session around stop hook g
    \* History variables: they record what happened and guard nothing.
    stale,      \* repositories with a commit after the last STATUS.md commit
    owed,       \* owed[p]: what p's round has to see to be right, see Owed
    unpulled,   \* unpulled[p]: repositories behind origin since p's round began
    blind,      \* blind[p]: repositories a git command of p failed in
    overlapped  \* log writers that read before another one's write

gitVars == <<place, upstream, ours, seen, current, stale>>
roundVars == <<job, owed, unpulled, blind>>
logVars == <<log, overlapped>>
vars == <<cast, gitVars, roundVars, logVars, hook>>

Idle == [at |-> "idle", todo |-> {}, repo |-> None, found |-> {}, held |-> {}]

TypeOK ==
    /\ cast \in Casts
    /\ place \in [Item -> {"none", "edit", "commit", "pushed"}]
    /\ upstream \subseteq Repo
    /\ seen \subseteq ours /\ ours \subseteq upstream
    /\ current \subseteq Repo /\ stale \subseteq Repo
    /\ job \in [Process ->
          [at : {"idle", "next", "inside", "status", "upstream", "ahead",
                 "behind", "checkpoint", "read", "write"},
           todo : SUBSET Repo, repo : Repo \cup {None}, found : SUBSET Repo,
           held : SUBSET Checkpoint]]
    /\ log \subseteq Checkpoint /\ overlapped \subseteq Checkpoint
    /\ hook \in [Gate -> [mode : {"cursor", "decision"},
                          turn : {"working", "check", "stopped"},
                          loop : 0..LoopLimit, active : BOOLEAN,
                          told : {"nothing", "nudge", "loud"},
                          why : {"none", "abort", "active", "clean", "limit"}]]
    /\ owed \in [Process -> [work : SUBSET Item, status : SUBSET Repo]]
    /\ unpulled \in [Process -> SUBSET Repo]
    /\ blind \in [Process -> SUBSET Repo]

Nothing == [work |-> {}, status |-> {}]

Init ==
    /\ cast \in Casts
    /\ place = [x \in Item |-> "none"]
    /\ upstream \in SUBSET Repo
    /\ ours = {} /\ seen = {}
    /\ current = Repo /\ stale = {}
    /\ job = [p \in Process |-> Idle]
    /\ log = {} /\ overlapped = {}
    /\ hook \in [Gate -> [mode : {"cursor", "decision"}, turn : {"working"},
                          loop : {0}, active : {FALSE}, told : {"nothing"},
                          why : {"none"}]]
    /\ owed = [p \in Process |-> Nothing]
    /\ unpulled = [p \in Process |-> {}]
    /\ blind = [p \in Process |-> {}]

In(r, where) == {x \in Item : Home[x] = r /\ place[x] = where}

-----------------------------------------------------------------------------
(* Git, as the people and agents at work use it.                             *)

Edit(x) ==
    /\ place[x] = "none"
    /\ place' = [place EXCEPT ![x] = "edit"]
    /\ UNCHANGED <<upstream, ours, seen, current, stale, roundVars, logVars, hook>>

Move(r, from, to) ==
    place' = [x \in Item |-> IF x \in In(r, from) THEN to ELSE place[x]]

\* A new head, with or without STATUS.md.  One made in the second of the last
\* STATUS.md commit is not newer than it.
NewHead(r, status) ==
    IF status
    THEN /\ current' = current \cup {r}
         /\ stale' = stale \ {r}
         /\ owed' = [p \in Process |-> [owed[p] EXCEPT !.status = @ \ {r}]]
    ELSE /\ current' \in {current, current \ {r}}
         /\ stale' = stale \cup {r}
         /\ UNCHANGED owed

\* Everything edited is committed.
Commit(r, status) ==
    /\ In(r, "edit") # {}
    /\ Move(r, "edit", "commit")
    /\ NewHead(r, status)
    /\ UNCHANGED <<upstream, ours, seen, job, unpulled, blind, logVars, hook>>

\* A push that is not a fast forward is rejected.
Push(r) ==
    /\ In(r, "commit") # {}
    /\ r \notin ours
    /\ Move(r, "commit", "pushed")
    /\ upstream' = upstream \cup {r}
    /\ UNCHANGED <<ours, seen, current, stale, roundVars, logVars, hook>>

\* Someone pushes from another clone.
TheyPush(r) ==
    /\ r \in upstream \ ours
    /\ ours' = ours \cup {r}
    /\ UNCHANGED <<place, upstream, seen, current, stale, roundVars, logVars, hook>>

Pull(r, status) ==
    /\ r \in ours
    /\ ours' = ours \ {r}
    /\ seen' = seen \ {r}
    /\ unpulled' = [p \in Process |-> unpulled[p] \ {r}]
    /\ NewHead(r, status)
    /\ UNCHANGED <<place, upstream, job, blind, logVars, hook>>

Git ==
    \/ \E x \in Work : Edit(x)
    \/ \E r \in Repo : Push(r) \/ TheyPush(r)
    \/ \E r \in Repo, status \in BOOLEAN : Commit(r, status) \/ Pull(r, status)

-----------------------------------------------------------------------------
(* One round of git commands over all repositories.  The three tools ask in  *)
(* the same order.                                                           *)

Unpushed == {x \in Item : place[x] \in {"edit", "commit"}}

Owed == [work |-> Unpushed, status |-> stale \ current]

StartRound(p) ==
    /\ job[p].at = "idle"
    /\ job' = [job EXCEPT ![p] = [Idle EXCEPT !.at = "next", !.todo = Repo]]
    /\ owed' = [owed EXCEPT ![p] = Owed]
    /\ unpulled' = [unpulled EXCEPT ![p] = ours]
    /\ blind' = [blind EXCEPT ![p] = {}]

Goto(p, label) == job' = [job EXCEPT ![p].at = label]

Found(p, label) ==
    job' = [job EXCEPT ![p].at = label, ![p].found = @ \cup {job[p].repo}]

\* What the command answers takes p on to `label`; a bad answer adds the
\* repository to those that are not done.
Answer(p, bad, label) == IF bad THEN Found(p, label) ELSE Goto(p, label)

\* _run_git: a command that fails or times out answers nothing.
GitFails(p) == blind' = [blind EXCEPT ![p] = @ \cup {job[p].repo}]

Asked(p) == UNCHANGED <<gitVars, owed, unpulled, logVars, hook>>

NextRepo(p) ==
    /\ job[p].at = "next"
    /\ \E r \in job[p].todo :
          job' = [job EXCEPT ![p].at = "inside", ![p].todo = @ \ {r}, ![p].repo = r]
    /\ UNCHANGED blind
    /\ Asked(p)

\* Mutant of Inside: the hand-off check does not fetch.
InsideOffline(p) ==
    /\ job[p].at = "inside"
    /\ Goto(p, "status")
    /\ UNCHANGED blind
    /\ Asked(p)

\* The gate and the checkpoint ask whether this is a work tree (and skip the
\* repository if git cannot tell), the hand-off check fetches; a fetch that
\* fails is ignored.
Inside(p) ==
    /\ job[p].at = "inside"
    /\ \/ /\ seen' = IF p \in Handoff THEN seen \cup (ours \cap {job[p].repo}) ELSE seen
          /\ Goto(p, "status")
          /\ UNCHANGED blind
       \/ /\ GitFails(p)
          /\ Goto(p, IF p \in Handoff THEN "status" ELSE "next")
          /\ UNCHANGED seen
    /\ UNCHANGED <<place, upstream, ours, current, stale, owed, unpulled, logVars, hook>>

\* git status --porcelain: no answer looks like a clean tree.
ReadStatus(p) ==
    /\ job[p].at = "status"
    /\ \/ /\ Answer(p, In(job[p].repo, "edit") # {}, "upstream")
          /\ UNCHANGED blind
       \/ GitFails(p) /\ Goto(p, "upstream")
    /\ Asked(p)

AfterCounts(p) == IF p \in Handoff THEN "checkpoint" ELSE "next"

\* Mutant of ReadUpstream: a branch without an upstream has nothing to push.
ReadUpstreamLenient(p) ==
    /\ job[p].at = "upstream"
    /\ \/ job[p].repo \in upstream /\ Goto(p, "ahead")
       \/ job[p].repo \notin upstream /\ Goto(p, AfterCounts(p))
    /\ UNCHANGED blind
    /\ Asked(p)

\* git rev-parse @{u}: no answer looks like a branch that was never pushed.
ReadUpstream(p) ==
    /\ job[p].at = "upstream"
    /\ \/ job[p].repo \in upstream /\ Goto(p, "ahead")
       \/ Found(p, AfterCounts(p))
    /\ UNCHANGED blind
    /\ Asked(p)

\* git rev-list: no answer counts as 0.  The hand-off check counts both ways
\* with one command, the checkpoint with two, the gate does not look behind.
ReadAhead(p) ==
    LET r == job[p].repo
        next == IF p \in Checkpoint THEN "behind" ELSE AfterCounts(p)
    IN  /\ job[p].at = "ahead"
        /\ \/ /\ Answer(p, In(r, "commit") # {} \/ (p \in Handoff /\ r \in seen), next)
              /\ UNCHANGED blind
           \/ GitFails(p) /\ Goto(p, next)
        /\ Asked(p)

ReadBehind(p) ==
    /\ job[p].at = "behind"
    /\ \/ /\ Answer(p, job[p].repo \in seen, "next")
          /\ UNCHANGED blind
       \/ GitFails(p) /\ Goto(p, "next")
    /\ Asked(p)

\* status_is_checkpoint: without an answer the repository is not done.
ReadCheckpoint(p) ==
    /\ job[p].at = "checkpoint"
    /\ \/ job[p].repo \in current /\ Goto(p, "next")
       \/ Found(p, "next")
    /\ UNCHANGED blind
    /\ Asked(p)

RoundOver(p) == job[p].at = "next" /\ job[p].todo = {}

Ask(p) ==
    \/ NextRepo(p) \/ Inside(p) \/ ReadStatus(p) \/ ReadUpstream(p)
    \/ ReadAhead(p) \/ ReadBehind(p) \/ ReadCheckpoint(p)

\* Nothing found: the gate opens, the hand-off is ready, the checkpoint passes.
Passes(p) ==
    /\ RoundOver(p) \/ job[p].at = "write"
    /\ job[p].found = {}

EndRound(p) ==
    /\ job' = [job EXCEPT ![p] = Idle]
    /\ owed' = [owed EXCEPT ![p] = Nothing]
    /\ unpulled' = [unpulled EXCEPT ![p] = {}]
    /\ blind' = [blind EXCEPT ![p] = {}]

-----------------------------------------------------------------------------
(* completion_gate.py, called by the harness at the end of each turn.        *)

EndTurn(g) ==
    /\ hook[g].turn = "working"
    /\ hook' = [hook EXCEPT ![g].turn = "check"]
    /\ UNCHANGED <<gitVars, roundVars, logVars>>

Stop(g, why) == hook' = [hook EXCEPT ![g].turn = "stopped", ![g].why = why]

\* The turn did not complete, or stdin does not parse.
AllowAbort(g) ==
    /\ hook[g].turn = "check"
    /\ job[g].at = "idle"
    /\ Stop(g, "abort")
    /\ UNCHANGED <<gitVars, roundVars, logVars>>

\* --decision: this gate has already continued the turn once.
AllowActive(g) ==
    /\ hook[g].turn = "check"
    /\ job[g].at = "idle"
    /\ hook[g].active
    /\ Stop(g, "active")
    /\ UNCHANGED <<gitVars, roundVars, logVars>>

\* Mutant of GateStart: stop_hook_active is ignored.
GateStartAgain(g) ==
    /\ hook[g].turn = "check"
    /\ StartRound(g)
    /\ UNCHANGED <<gitVars, logVars, hook>>

GateStart(g) ==
    /\ hook[g].turn = "check"
    /\ ~hook[g].active
    /\ StartRound(g)
    /\ UNCHANGED <<gitVars, logVars, hook>>

\* Mutant of Message: the loud message comes one follow-up too late.
LateMessage(loop) == IF loop > FailLoudAt THEN "loud" ELSE "nudge"

Message(loop) == IF loop >= FailLoudAt THEN "loud" ELSE "nudge"

\* Cursor delivers no follow-up beyond the limit.
Capped(g) == hook[g].mode = "cursor" /\ hook[g].loop = LoopLimit

\* The answer on stdout, and what the harness makes of it: a follow-up turn
\* or none.
GateAnswer(g) ==
    /\ RoundOver(g)
    /\ EndRound(g)
    /\ IF Passes(g) THEN Stop(g, "clean")
       ELSE IF Capped(g) THEN Stop(g, "limit")
       ELSE hook' = [hook EXCEPT
                ![g].turn = "working",
                ![g].loop = IF hook[g].mode = "cursor" THEN @ + 1 ELSE 0,
                ![g].active = hook[g].mode = "decision",
                ![g].told = Message(hook[g].loop)]
    /\ UNCHANGED <<gitVars, logVars>>

GateStep(g) ==
    \/ AllowAbort(g) \/ AllowActive(g) \/ GateStart(g) \/ Ask(g) \/ GateAnswer(g)

-----------------------------------------------------------------------------
(* handoff_verify.py and session_checkpoint.py.                              *)

Start(p) ==
    /\ p \in Handoff \/ (p \in Checkpoint /\ place[p] = "none")
    /\ StartRound(p)
    /\ UNCHANGED <<gitVars, logVars, hook>>

HandoffAnswer(p) ==
    /\ p \in Handoff
    /\ RoundOver(p)
    /\ EndRound(p)
    /\ UNCHANGED <<gitVars, logVars, hook>>

\* append_build_log reads the whole log ...
ReadLog(p) ==
    /\ p \in Checkpoint
    /\ RoundOver(p)
    /\ job' = [job EXCEPT ![p].at = "write", ![p].held = log]
    /\ UNCHANGED <<gitVars, owed, unpulled, blind, logVars, hook>>

\* Mutant of WriteLog: the text read is not written back.
WriteEntryOnly(p) ==
    /\ job[p].at = "write"
    /\ log' = {p}
    /\ overlapped' = overlapped \cup (log \ job[p].held)
    /\ place' = [place EXCEPT ![p] = "edit"]
    /\ EndRound(p)
    /\ UNCHANGED <<upstream, ours, seen, current, stale, hook>>

\* ... and writes it back with the entry; --strict then judges the answers
\* gathered before.  The log is now an uncommitted change itself.
WriteLog(p) ==
    /\ job[p].at = "write"
    /\ log' = job[p].held \cup {p}
    /\ overlapped' = overlapped \cup (log \ job[p].held)
    /\ place' = [place EXCEPT ![p] = "edit"]
    /\ EndRound(p)
    /\ UNCHANGED <<upstream, ours, seen, current, stale, hook>>

Step(p) == Ask(p) \/ HandoffAnswer(p) \/ ReadLog(p) \/ WriteLog(p)

-----------------------------------------------------------------------------
Next ==
  /\ UNCHANGED cast
  /\ \/ Git
     \/ \E g \in Gate \cap cast : EndTurn(g) \/ GateStep(g)
     \/ \E p \in cast \ Gate : Start(p) \/ Step(p)

Spec == Init /\ [][Next]_vars

\* Every git command has a timeout and runs in one thread, and an
\* agent's turn ends.
FairSpec ==
    /\ Spec
    /\ \A g \in Gate : WF_vars(g \in cast /\ UNCHANGED cast /\ EndTurn(g))
    /\ \A g \in Gate : WF_vars(g \in cast /\ UNCHANGED cast /\ GateStep(g))

-----------------------------------------------------------------------------
(* Properties.                                                               *)

\* A gate that opens, a "HANDOFF READY" and a checkpoint that passes mean that
\* the work that lay uncommitted or unpushed when the round of git commands
\* began has been pushed, however commits and pushes fell between the commands,
\* except in a repository where a git command failed.
PassMeansPushed ==
    \A p \in Process : Passes(p) =>
        \A x \in owed[p].work : place[x] = "pushed" \/ Home[x] \in blind[p]

\* "HANDOFF READY" also means that what origin had then has been pulled, and
\* that a STATUS.md which had fallen behind then has been brought up to date
\* (commits of one second count as one), again unless a command failed.
HandoffInSync ==
    \A p \in Handoff : Passes(p) =>
        /\ unpulled[p] \subseteq blind[p]
        /\ owed[p].status = {}

\* The gate gives up on a Cursor session with work pending only after it has
\* delivered the message that makes the agent tell the operator.
LoudBeforeGivingUp ==
    \A g \in Gate : hook[g].why = "limit" => hook[g].told = "loud"

\* An entry appended to the build log stays there, unless two checkpoints
\* overlapped.
LogKept ==
    \A c \in Checkpoint : place[c] # "none" => c \in log \cup overlapped

\* The stop hook never keeps a session going for ever.
SessionStops == \A g \in Gate : hook[g].turn = "check" ~> hook[g].turn = "stopped"
=============================================================================
