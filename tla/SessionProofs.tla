---------------------------- MODULE SessionProofs ----------------------------
(***************************************************************************)
(* Theorems about Session, for any repositories, work and processes: what  *)
(* a round of git commands can be held to although git moves on between    *)
(* the commands, and what the stop hook and the build log keep.            *)
(***************************************************************************)
EXTENDS Session, TLAPS

Label == {"idle", "next", "inside", "status", "upstream", "ahead",
          "behind", "checkpoint", "read", "write"}

Job == [at : Label, todo : SUBSET Repo, repo : Repo \cup {None},
        found : SUBSET Repo, held : SUBSET Checkpoint]

\* p is at a command about one repository.
Asking(p) == job[p].at \notin {"idle", "next", "write"}

Hook == [mode : {"cursor", "decision"}, turn : {"working", "check", "stopped"},
         loop : 0..LoopLimit, active : BOOLEAN,
         told : {"nothing", "nudge", "loud"},
         why : {"none", "abort", "active", "clean", "limit"}]

Typed ==
    /\ cast \in Casts
    /\ place \in [Item -> {"none", "edit", "commit", "pushed"}]
    /\ upstream \subseteq Repo
    /\ seen \subseteq ours /\ ours \subseteq upstream
    /\ current \subseteq Repo /\ stale \subseteq Repo
    /\ job \in [Process -> Job]
    /\ log \subseteq Checkpoint /\ overlapped \subseteq Checkpoint
    /\ hook \in [Gate -> Hook]
    /\ owed \in [Process -> [work : SUBSET Item, status : SUBSET Repo]]
    /\ unpulled \in [Process -> SUBSET Repo]
    /\ blind \in [Process -> SUBSET Repo]
    /\ \A p \in Process :
          /\ Asking(p) => job[p].repo \in Repo
          /\ job[p].at = "write" => p \in Checkpoint /\ job[p].todo = {}

LEMMA JobTyped == Typed => job \in [Process -> Job]
BY DEF Typed

\* The answer to one command: p goes on to `label`, `bad` becomes found.
Moves(p, label, bad) ==
    /\ job' \in [Process -> Job]
    /\ \A q \in Process \ {p} : job'[q] = job[q]
    /\ job'[p] = [at |-> label, todo |-> job[p].todo, repo |-> job[p].repo,
                  found |-> job[p].found \cup bad, held |-> job[p].held]

LEMMA GotoIs ==
    ASSUME Typed, NEW p \in Process, NEW label \in Label, Goto(p, label)
    PROVE  Moves(p, label, {})
<1>1. job \in [Process -> Job]
  BY JobTyped DEF Typed
<1>2. QED
  BY <1>1 DEF Goto, Moves, Job

LEMMA FoundIs ==
    ASSUME Typed, NEW p \in Process, NEW label \in Label, Found(p, label), Asking(p)
    PROVE  Moves(p, label, {job[p].repo})
<1>1. job \in [Process -> Job] /\ job[p].repo \in Repo
  BY JobTyped DEF Typed
<1>2. QED
  BY <1>1 DEF Found, Moves, Job

\* A command of p was answered, or it failed.
Answered(p, label, bad) ==
    /\ Moves(p, label, bad)
    /\ UNCHANGED blind

Failed(p, label) ==
    /\ Moves(p, label, {})
    /\ blind' = [blind EXCEPT ![p] = @ \cup {job[p].repo}]

LEMMA StatusIs ==
    ASSUME Typed, NEW p \in Process, ReadStatus(p)
    PROVE  /\ job[p].at = "status" /\ Asked(p)
           /\ \/ In(job[p].repo, "edit") # {} /\ Answered(p, "upstream", {job[p].repo})
              \/ In(job[p].repo, "edit") = {} /\ Answered(p, "upstream", {})
              \/ Failed(p, "upstream")
<1>1. job[p].at = "status" /\ Asked(p) /\ Asking(p) /\ "upstream" \in Label
  BY DEF ReadStatus, Asking, Label
<1>2. QED
  BY <1>1, GotoIs, FoundIs DEF ReadStatus, Answer, GitFails, Answered, Failed

LEMMA UpstreamIs ==
    ASSUME Typed, NEW p \in Process, ReadUpstream(p)
    PROVE  /\ job[p].at = "upstream" /\ Asked(p)
           /\ \/ Answered(p, "ahead", {})
              \/ Answered(p, AfterCounts(p), {job[p].repo})
<1>1. /\ job[p].at = "upstream" /\ Asked(p) /\ UNCHANGED blind /\ Asking(p)
      /\ "ahead" \in Label /\ AfterCounts(p) \in Label
  BY DEF ReadUpstream, Asking, Label, AfterCounts
<1>2. QED
  BY <1>1, GotoIs, FoundIs DEF ReadUpstream, Answered

\* Where p goes after it counted the commits ahead.
AfterAhead(p) == IF p \in Checkpoint THEN "behind" ELSE AfterCounts(p)

LEMMA AheadIs ==
    ASSUME Typed, NEW p \in Process, ReadAhead(p)
    PROVE  /\ job[p].at = "ahead" /\ Asked(p)
           /\ \/ Answered(p, AfterAhead(p), {job[p].repo})
              \/ /\ In(job[p].repo, "commit") = {}
                 /\ ~(p \in Handoff /\ job[p].repo \in seen)
                 /\ Answered(p, AfterAhead(p), {})
              \/ Failed(p, AfterAhead(p))
<1>1. /\ job[p].at = "ahead" /\ Asked(p) /\ Asking(p) /\ AfterAhead(p) \in Label
  BY DEF ReadAhead, Asking, Label, AfterCounts, AfterAhead
<1>2. \/ /\ Answer(p, \/ In(job[p].repo, "commit") # {}
                      \/ (p \in Handoff /\ job[p].repo \in seen), AfterAhead(p))
         /\ UNCHANGED blind
      \/ GitFails(p) /\ Goto(p, AfterAhead(p))
  BY DEF ReadAhead, AfterAhead
<1>3. QED
  BY <1>1, <1>2, GotoIs, FoundIs DEF Answer, GitFails, Answered, Failed

LEMMA BehindIs ==
    ASSUME Typed, NEW p \in Process, ReadBehind(p)
    PROVE  /\ job[p].at = "behind" /\ Asked(p)
           /\ \/ Answered(p, "next", {job[p].repo})
              \/ Answered(p, "next", {})
              \/ Failed(p, "next")
<1>1. job[p].at = "behind" /\ Asked(p) /\ Asking(p) /\ "next" \in Label
  BY DEF ReadBehind, Asking, Label
<1>2. QED
  BY <1>1, GotoIs, FoundIs DEF ReadBehind, Answer, GitFails, Answered, Failed

LEMMA CheckpointIs ==
    ASSUME Typed, NEW p \in Process, ReadCheckpoint(p)
    PROVE  /\ job[p].at = "checkpoint" /\ Asked(p)
           /\ \/ job[p].repo \in current /\ Answered(p, "next", {})
              \/ Answered(p, "next", {job[p].repo})
<1>1. job[p].at = "checkpoint" /\ Asked(p) /\ UNCHANGED blind /\ Asking(p) /\ "next" \in Label
  BY DEF ReadCheckpoint, Asking, Label
<1>2. QED
  BY <1>1, GotoIs, FoundIs DEF ReadCheckpoint, Answered

LEMMA InsideIs ==
    ASSUME Typed, NEW p \in Process, Inside(p)
    PROVE  /\ job[p].at = "inside"
           /\ UNCHANGED <<place, upstream, ours, current, stale, owed, unpulled, logVars, hook>>
           /\ \/ /\ Answered(p, "status", {})
                 /\ seen' = IF p \in Handoff THEN seen \cup (ours \cap {job[p].repo}) ELSE seen
              \/ Failed(p, IF p \in Handoff THEN "status" ELSE "next") /\ UNCHANGED seen
<1>1. /\ job[p].at = "inside" /\ "status" \in Label
      /\ (IF p \in Handoff THEN "status" ELSE "next") \in Label
  BY DEF Inside, Label
<1>2. QED
  BY <1>1, GotoIs DEF Inside, GitFails, Answered, Failed

LEMMA NextRepoIs ==
    ASSUME Typed, NEW p \in Process, NextRepo(p)
    PROVE  /\ job[p].at = "next" /\ Asked(p) /\ UNCHANGED blind
           /\ job' \in [Process -> Job]
           /\ \A q \in Process \ {p} : job'[q] = job[q]
           /\ \E r \in job[p].todo :
                 job'[p] = [at |-> "inside", todo |-> job[p].todo \ {r}, repo |-> r,
                            found |-> job[p].found, held |-> job[p].held]
<1>1. job \in [Process -> Job] /\ job[p].todo \subseteq Repo
  BY JobTyped DEF Typed, Job
<1>2. PICK r \in job[p].todo :
          job' = [job EXCEPT ![p].at = "inside", ![p].todo = @ \ {r}, ![p].repo = r]
  BY DEF NextRepo
<1>3. job' \in [Process -> Job]
  BY <1>1, <1>2 DEF Job, Label
<1>4. QED
  BY <1>1, <1>2, <1>3 DEF NextRepo, Job

-----------------------------------------------------------------------------
(* Types.                                                                  *)

LEMMA AskTyped ==
    ASSUME Typed, NEW p \in Process, Ask(p)
    PROVE  /\ job' \in [Process -> Job]
           /\ blind' \in [Process -> SUBSET Repo]
           /\ \A q \in Process \ {p} : job'[q] = job[q]
           /\ Asking(p)' => job'[p].repo \in Repo
           /\ job'[p].at # "write"
           /\ seen' \subseteq ours /\ seen \subseteq seen'
           /\ UNCHANGED <<place, upstream, ours, current, stale, owed, unpulled, logVars, hook>>
<1>1. /\ Asking(p) => job[p].repo \in Repo
      /\ blind \in [Process -> SUBSET Repo] /\ seen \subseteq ours
      /\ job[p].todo \subseteq Repo
  BY JobTyped DEF Typed, Job
<1>2. ASSUME NEW label \in Label \ {"write"}, NEW bad, Asking(p),
             Answered(p, label, bad) \/ Failed(p, label)
      PROVE  /\ job' \in [Process -> Job]
             /\ blind' \in [Process -> SUBSET Repo]
             /\ \A q \in Process \ {p} : job'[q] = job[q]
             /\ job'[p].repo \in Repo /\ job'[p].at # "write"
  BY <1>1, <1>2 DEF Answered, Failed, Moves
<1>3. CASE NextRepo(p)
  <2>1. UNCHANGED <<gitVars, owed, unpulled, logVars, hook, blind>>
    BY <1>3, NextRepoIs DEF Asked
  <2>2. job'[p].repo \in Repo /\ job'[p].at # "write"
    <3>1. PICK r \in job[p].todo :
              job'[p] = [at |-> "inside", todo |-> job[p].todo \ {r}, repo |-> r,
                         found |-> job[p].found, held |-> job[p].held]
      BY <1>3, NextRepoIs
    <3>2. QED
      BY <1>1, <3>1
  <2>3. QED
    BY <1>1, <1>3, <2>1, <2>2, NextRepoIs DEF gitVars
<1>4. CASE Inside(p)
  <2>1. /\ "status" \in Label \ {"write"}
        /\ (IF p \in Handoff THEN "status" ELSE "next") \in Label \ {"write"}
        /\ Asking(p)
    BY <1>4, InsideIs DEF Label, Asking
  <2>2. seen' \subseteq ours /\ seen \subseteq seen'
    BY <1>1, <1>4, InsideIs
  <2>3. QED
    BY <1>2, <1>4, <2>1, <2>2, InsideIs
<1>5. CASE ReadStatus(p)
  BY <1>1, <1>2, <1>5, StatusIs DEF Label, Asking, Asked, gitVars
<1>6. CASE ReadUpstream(p)
  BY <1>1, <1>2, <1>6, UpstreamIs DEF Label, Asking, Asked, gitVars, AfterCounts
<1>7. CASE ReadAhead(p)
  BY <1>1, <1>2, <1>7, AheadIs DEF Label, Asking, Asked, gitVars, AfterAhead, AfterCounts
<1>8. CASE ReadBehind(p)
  BY <1>1, <1>2, <1>8, BehindIs DEF Label, Asking, Asked, gitVars
<1>9. CASE ReadCheckpoint(p)
  BY <1>1, <1>2, <1>9, CheckpointIs DEF Label, Asking, Asked, gitVars
<1>10. QED
  BY <1>3, <1>4, <1>5, <1>6, <1>7, <1>8, <1>9 DEF Ask

LEMMA IdleJob == Idle \in Job /\ Idle.at = "idle"
BY DEF Idle, Job, Label

\* A round begins, or ends.
LEMMA RoundIs ==
    ASSUME Typed, NEW p \in Process
    PROVE  /\ StartRound(p) =>
                 /\ job' \in [Process -> Job]
                 /\ job'[p].at = "next" /\ job'[p].todo = Repo /\ job'[p].found = {}
                 /\ \A q \in Process \ {p} : job'[q] = job[q]
                 /\ owed' \in [Process -> [work : SUBSET Item, status : SUBSET Repo]]
                 /\ unpulled' \in [Process -> SUBSET Repo]
                 /\ blind' \in [Process -> SUBSET Repo]
           /\ EndRound(p) =>
                 /\ job' \in [Process -> Job] /\ job'[p] = Idle
                 /\ \A q \in Process \ {p} : job'[q] = job[q]
                 /\ owed' \in [Process -> [work : SUBSET Item, status : SUBSET Repo]]
                 /\ unpulled' \in [Process -> SUBSET Repo]
                 /\ blind' \in [Process -> SUBSET Repo]
<1>1. job \in [Process -> Job] /\ Idle \in Job
  BY JobTyped, IdleJob DEF Typed
<1>2. ASSUME NEW j \in Job
      PROVE  LET k == [j EXCEPT !.at = "next", !.todo = Repo]
             IN  k \in Job /\ k.at = "next" /\ k.todo = Repo /\ k.found = j.found
  BY DEF Job, Label
<1>3. Idle.found = {}
  BY DEF Idle
<1>4. Owed \in [work : SUBSET Item, status : SUBSET Repo] /\ ours \subseteq Repo
      /\ Nothing \in [work : SUBSET Item, status : SUBSET Repo]
  BY DEF Typed, Owed, Unpushed, Nothing
<1>5. /\ owed \in [Process -> [work : SUBSET Item, status : SUBSET Repo]]
      /\ unpulled \in [Process -> SUBSET Repo] /\ blind \in [Process -> SUBSET Repo]
  BY DEF Typed
<1>6. ASSUME StartRound(p)
      PROVE  /\ job' \in [Process -> Job]
             /\ job'[p].at = "next" /\ job'[p].todo = Repo /\ job'[p].found = {}
             /\ \A q \in Process \ {p} : job'[q] = job[q]
  <2> DEFINE k == [Idle EXCEPT !.at = "next", !.todo = Repo]
  <2>1. k \in Job /\ k.at = "next" /\ k.todo = Repo /\ k.found = {}
    BY <1>1, <1>2, <1>3
  <2>2. job' = [job EXCEPT ![p] = k]
    BY <1>6 DEF StartRound
  <2> HIDE DEF k
  <2>3. QED
    BY <1>1, <2>1, <2>2
<1>8. StartRound(p) => /\ owed' \in [Process -> [work : SUBSET Item, status : SUBSET Repo]]
                       /\ unpulled' \in [Process -> SUBSET Repo]
                       /\ blind' \in [Process -> SUBSET Repo]
  BY <1>4, <1>5 DEF StartRound
<1>9. EndRound(p) => /\ job' \in [Process -> Job] /\ job'[p] = Idle
                     /\ \A q \in Process \ {p} : job'[q] = job[q]
                     /\ owed' \in [Process -> [work : SUBSET Item, status : SUBSET Repo]]
                     /\ unpulled' \in [Process -> SUBSET Repo]
                     /\ blind' \in [Process -> SUBSET Repo]
  BY <1>1, <1>4, <1>5 DEF EndRound
<1>10. QED
  BY <1>6, <1>8, <1>9

\* What git does to the history of the rounds under way.
LEMMA NewHeadIs ==
    ASSUME Typed, NEW r \in Repo, NEW status \in BOOLEAN, NewHead(r, status)
    PROVE  /\ current' \subseteq Repo /\ stale' \subseteq Repo
           /\ owed' \in [Process -> [work : SUBSET Item, status : SUBSET Repo]]
           /\ \A p \in Process : /\ owed'[p].work = owed[p].work
                                 /\ owed'[p].status \subseteq owed[p].status
                                 /\ owed[p].status \cap current = {}
                                       => owed'[p].status \cap current' = {}
<1>1. /\ owed \in [Process -> [work : SUBSET Item, status : SUBSET Repo]]
      /\ current \subseteq Repo /\ stale \subseteq Repo
  BY DEF Typed
<1>2. CASE status
  <2>1. /\ current' = current \cup {r} /\ stale' = stale \ {r}
        /\ owed' = [p \in Process |->
                       [work |-> owed[p].work, status |-> owed[p].status \ {r}]]
    <3>1. \A p \in Process : [owed[p] EXCEPT !.status = owed[p].status \ {r}]
                                = [work |-> owed[p].work, status |-> owed[p].status \ {r}]
      BY <1>1
    <3>2. owed' = [p \in Process |-> [owed[p] EXCEPT !.status = owed[p].status \ {r}]]
      BY <1>2 DEF NewHead
    <3>3. QED
      BY <1>2, <3>1, <3>2 DEF NewHead
  <2>2. QED
    BY <1>1, <2>1
<1>3. CASE ~status
  BY <1>1, <1>3 DEF NewHead
<1>4. QED
  BY <1>2, <1>3

LEMMA MoveIs ==
    ASSUME Typed, NEW r \in Repo, NEW from, NEW to \in {"none", "edit", "commit", "pushed"},
           Move(r, from, to)
    PROVE  /\ place' \in [Item -> {"none", "edit", "commit", "pushed"}]
           /\ \A x \in Item : \/ place'[x] = place[x]
                              \/ place[x] = from /\ place'[x] = to
BY DEF Typed, Move, In

\* The session around g ends, or its agent's turn does.
LEMMA HookIs ==
    ASSUME Typed, NEW g \in Gate
    PROVE  /\ hook \in [Gate -> Hook]
           /\ \A why \in {"abort", "active", "clean", "limit"} :
                 Stop(g, why) => /\ hook' \in [Gate -> Hook]
                                 /\ \A h \in Gate \ {g} : hook'[h] = hook[h]
                                 /\ hook'[g].mode = hook[g].mode
                                 /\ hook'[g].loop = hook[g].loop
                                 /\ hook'[g].told = hook[g].told
                                 /\ hook'[g].turn = "stopped" /\ hook'[g].why = why
           /\ EndTurn(g) => /\ hook' \in [Gate -> Hook]
                            /\ \A h \in Gate \ {g} : hook'[h] = hook[h]
                            /\ hook'[g] = [hook[g] EXCEPT !.turn = "check"]
<1>1. hook \in [Gate -> Hook]
  BY DEF Typed
<1>2. ASSUME NEW why \in {"abort", "active", "clean", "limit"}, Stop(g, why)
      PROVE  /\ hook' \in [Gate -> Hook]
             /\ \A h \in Gate \ {g} : hook'[h] = hook[h]
             /\ hook'[g].mode = hook[g].mode
             /\ hook'[g].loop = hook[g].loop
             /\ hook'[g].told = hook[g].told
             /\ hook'[g].turn = "stopped" /\ hook'[g].why = why
  BY <1>1, <1>2 DEF Stop, Hook
<1>3. ASSUME EndTurn(g)
      PROVE  /\ hook' \in [Gate -> Hook]
             /\ \A h \in Gate \ {g} : hook'[h] = hook[h]
             /\ hook'[g] = [hook[g] EXCEPT !.turn = "check"]
  BY <1>1, <1>3 DEF EndTurn, Hook
<1>4. QED
  BY <1>1, <1>2, <1>3

LEMMA StopIs ==
    ASSUME Typed, NEW g \in Gate, NEW why \in {"abort", "active", "clean", "limit"},
           Stop(g, why)
    PROVE  /\ \A h \in Gate \ {g} : hook'[h] = hook[h]
           /\ hook'[g].loop = hook[g].loop /\ hook'[g].told = hook[g].told
           /\ hook'[g].turn = "stopped" /\ hook'[g].why = why
BY HookIs

\* Another turn, the GateAnswer that neither passes nor gives up.
LEMMA ContinueIs ==
    ASSUME Typed, NEW g \in Gate, GateAnswer(g), ~Passes(g), ~Capped(g)
    PROVE  /\ hook' \in [Gate -> Hook]
           /\ \A h \in Gate \ {g} : hook'[h] = hook[h]
           /\ hook'[g].mode = hook[g].mode /\ hook'[g].why = hook[g].why
           /\ hook'[g].turn = "working" /\ hook'[g].told = Message(hook[g].loop)
           /\ hook'[g].loop = IF hook[g].mode = "cursor" THEN hook[g].loop + 1 ELSE 0
<1> DEFINE n == IF hook[g].mode = "cursor" THEN hook[g].loop + 1 ELSE 0
           b == hook[g].mode = "decision"
           m == Message(hook[g].loop)
<1>1. hook \in [Gate -> Hook]
  BY HookIs
<1>2. n \in 0..LoopLimit
  <2>1. hook[g].mode = "cursor" => hook[g].loop # LoopLimit
    BY DEF Capped
  <2>2. hook[g].loop \in 0..LoopLimit /\ LoopLimit \in Nat
    BY <1>1, SessionAssumption DEF Hook
  <2>3. QED
    BY <2>1, <2>2
<1>3. b \in BOOLEAN /\ m \in {"nothing", "nudge", "loud"}
  BY DEF Message
<1>4. hook' = [hook EXCEPT ![g].turn = "working", ![g].loop = n, ![g].active = b,
                           ![g].told = m]
  BY DEF GateAnswer
<1> HIDE DEF n, b, m
<1>5. QED
  <2> DEFINE k == [hook[g] EXCEPT !.turn = "working", !.loop = n, !.active = b, !.told = m]
  <2>1. /\ k \in Hook /\ k.mode = hook[g].mode /\ k.why = hook[g].why
        /\ k.turn = "working" /\ k.told = m /\ k.loop = n
    BY <1>1, <1>2, <1>3 DEF Hook
  <2>2. hook' = [hook EXCEPT ![g] = k]
    BY <1>4
  <2> HIDE DEF k
  <2>3. /\ hook' \in [Gate -> Hook] /\ hook'[g] = k
        /\ \A h \in Gate \ {g} : hook'[h] = hook[h]
    BY <1>1, <2>1, <2>2
  <2>4. QED
    BY <2>1, <2>3 DEF m, n

LEMMA TypedStep == Typed /\ [Next]_vars => Typed'
<1> SUFFICES ASSUME Typed, [Next]_vars PROVE Typed'
  OBVIOUS
<1> USE SessionAssumption
<1>1. cast \subseteq Process /\ job \in [Process -> Job]
  BY JobTyped DEF Typed
<1>2. ASSUME UNCHANGED cast,
             place' \in [Item -> {"none", "edit", "commit", "pushed"}],
             upstream' \subseteq Repo, seen' \subseteq ours', ours' \subseteq upstream',
             current' \subseteq Repo, stale' \subseteq Repo,
             owed' \in [Process -> [work : SUBSET Item, status : SUBSET Repo]],
             unpulled' \in [Process -> SUBSET Repo],
             UNCHANGED <<job, blind, logVars, hook>>
      PROVE  Typed'
  BY <1>2 DEF Typed, Asking, logVars
<1>3. ASSUME UNCHANGED cast,
             NEW p \in Process, job' \in [Process -> Job],
             \A q \in Process \ {p} : job'[q] = job[q],
             Asking(p)' => job'[p].repo \in Repo,
             job'[p].at = "write" => p \in Checkpoint /\ job'[p].todo = {},
             place' \in [Item -> {"none", "edit", "commit", "pushed"}],
             seen' \subseteq ours, log' \subseteq Checkpoint, overlapped' \subseteq Checkpoint,
             owed' \in [Process -> [work : SUBSET Item, status : SUBSET Repo]],
             unpulled' \in [Process -> SUBSET Repo],
             blind' \in [Process -> SUBSET Repo],
             hook' \in [Gate -> Hook],
             UNCHANGED <<upstream, ours, current, stale>>
      PROVE  Typed'
  <2>1. \A q \in Process :
            /\ Asking(q)' => job'[q].repo \in Repo
            /\ job'[q].at = "write" => q \in Checkpoint /\ job'[q].todo = {}
    BY <1>3 DEF Typed, Asking
  <2>2. QED
    BY <1>3, <2>1 DEF Typed
<1>4. CASE Git /\ UNCHANGED cast
  <2>1. ASSUME NEW x \in Work, Edit(x) PROVE Typed'
    <3>1. place' \in [Item -> {"none", "edit", "commit", "pushed"}]
      BY <2>1 DEF Edit, Typed
    <3>2. QED
      BY <1>2, <1>4, <2>1, <3>1 DEF Edit, roundVars, Typed
  <2>2. ASSUME NEW r \in Repo, Push(r) PROVE Typed'
    <3>1. place' \in [Item -> {"none", "edit", "commit", "pushed"}]
      BY <2>2, MoveIs DEF Push
    <3>2. QED
      BY <1>2, <1>4, <2>2, <3>1 DEF Push, roundVars, Typed
  <2>3. ASSUME NEW r \in Repo, TheyPush(r) PROVE Typed'
    BY <1>2, <1>4, <2>3 DEF TheyPush, roundVars, Typed
  <2>4. ASSUME NEW r \in Repo, NEW status \in BOOLEAN, Commit(r, status) PROVE Typed'
    <3>1. place' \in [Item -> {"none", "edit", "commit", "pushed"}]
      BY <2>4, MoveIs DEF Commit
    <3>2. QED
      BY <1>2, <1>4, <2>4, <3>1, NewHeadIs DEF Commit, Typed
  <2>5. ASSUME NEW r \in Repo, NEW status \in BOOLEAN, Pull(r, status) PROVE Typed'
    <3>1. /\ unpulled' \in [Process -> SUBSET Repo]
          /\ seen' \subseteq ours' /\ ours' \subseteq upstream
      BY <2>5 DEF Pull, Typed
    <3>2. QED
      BY <1>2, <1>4, <2>5, <3>1, NewHeadIs DEF Pull, Typed
  <2>6. QED
    BY <1>4, <2>1, <2>2, <2>3, <2>4, <2>5 DEF Git
<1>5. ASSUME NEW p \in Process, Ask(p), UNCHANGED cast PROVE Typed'
  BY <1>3, <1>5, AskTyped DEF logVars, Typed
<1>6. ASSUME NEW p \in Process, StartRound(p), UNCHANGED <<cast, gitVars, logVars, hook>>
      PROVE  Typed'
  BY <1>3, <1>6, RoundIs DEF Asking, gitVars, logVars, Typed
<1>7. ASSUME NEW p \in Process, EndRound(p), UNCHANGED <<cast, gitVars, logVars, hook>>
      PROVE  Typed'
  BY <1>3, <1>7, RoundIs, IdleJob DEF Asking, gitVars, logVars, Typed
<1>8. ASSUME NEW g \in Gate \cap cast,
             EndTurn(g) \/ AllowAbort(g) \/ AllowActive(g), UNCHANGED cast
      PROVE  Typed'
  <2>1. hook' \in [Gate -> Hook]
    BY <1>8, HookIs DEF EndTurn, AllowAbort, AllowActive
  <2>2. UNCHANGED <<gitVars, roundVars, logVars>>
    BY <1>8 DEF EndTurn, AllowAbort, AllowActive
  <2>3. QED
    BY <1>8, <2>1, <2>2 DEF gitVars, roundVars, logVars, Typed, Asking
<1>9. ASSUME NEW g \in Gate \cap cast, GateAnswer(g), UNCHANGED cast PROVE Typed'
  <2>1. hook' \in [Gate -> Hook]
    BY <1>9, HookIs, ContinueIs DEF GateAnswer
  <2>2. EndRound(g) /\ UNCHANGED <<gitVars, logVars>> /\ g \in Process
    BY <1>9 DEF GateAnswer, Process
  <2>3. QED
    BY <1>3, <1>9, <2>1, <2>2, RoundIs, IdleJob DEF Asking, gitVars, logVars, Typed
<1>10. ASSUME NEW p \in Process, ReadLog(p), UNCHANGED cast PROVE Typed'
  <2> DEFINE k == [job[p] EXCEPT !.at = "write", !.held = log]
  <2>1. /\ k \in Job /\ k.at = "write" /\ k.todo = job[p].todo
        /\ job' = [job EXCEPT ![p] = k]
    <3>1. job[p] \in Job /\ log \in SUBSET Checkpoint
      BY <1>1 DEF Typed
    <3>2. job' = [job EXCEPT ![p] = k]
      BY <1>10 DEF ReadLog
    <3>3. QED
      BY <3>1, <3>2 DEF Job, Label
  <2> HIDE DEF k
  <2>2. job' \in [Process -> Job] /\ job'[p] = k /\ \A q \in Process \ {p} : job'[q] = job[q]
    BY <1>1, <2>1
  <2>3. job'[p].at = "write" /\ job'[p].todo = {} /\ p \in Checkpoint
    BY <1>10, <2>1, <2>2 DEF ReadLog, RoundOver
  <2>4. hook \in [Gate -> Hook] /\ UNCHANGED <<gitVars, owed, unpulled, blind, logVars, hook>>
    BY <1>10, HookIs DEF ReadLog, Typed
  <2>5. QED
    BY <1>3, <1>10, <2>2, <2>3, <2>4 DEF Asking, gitVars, logVars, Typed
<1>11. ASSUME NEW p \in Process, WriteLog(p), UNCHANGED cast PROVE Typed'
  <2>1. p \in Checkpoint
    BY <1>11 DEF WriteLog, Typed
  <2>2. /\ place' \in [Item -> {"none", "edit", "commit", "pushed"}]
        /\ log' \subseteq Checkpoint /\ overlapped' \subseteq Checkpoint
    BY <1>1, <1>11, <2>1 DEF WriteLog, Typed, Job, Item
  <2>3. hook' \in [Gate -> Hook] /\ UNCHANGED <<upstream, ours, seen, current, stale>>
    BY <1>11 DEF WriteLog, Typed
  <2>4. QED
    BY <1>3, <1>11, <2>2, <2>3, RoundIs, IdleJob DEF WriteLog, Asking, Typed
<1>12. ASSUME NEW g \in Gate \cap cast, GateStep(g), UNCHANGED cast PROVE Typed'
  BY <1>1, <1>5, <1>6, <1>8, <1>9, <1>12 DEF GateStep, GateStart
<1>13. ASSUME NEW p \in cast \ Gate, Start(p) \/ Step(p), UNCHANGED cast PROVE Typed'
  BY <1>1, <1>5, <1>6, <1>7, <1>10, <1>11, <1>13 DEF Start, Step, HandoffAnswer
<1>14. CASE UNCHANGED vars
  BY <1>14 DEF vars, gitVars, roundVars, logVars, Typed, Asking
<1>15. QED
  BY <1>4, <1>8, <1>12, <1>13, <1>14 DEF Next

LEMMA Inductive == Spec => []Typed
<1>1. Init => Typed
  <2> SUFFICES ASSUME Init PROVE Typed
    OBVIOUS
  <2>1. job \in [Process -> Job] /\ \A p \in Process : job[p].at = "idle"
    BY IdleJob DEF Init
  <2>2. hook \in [Gate -> Hook]
    <3>1. LoopLimit \in Nat /\ 0 \in 0 .. LoopLimit
      BY SessionAssumption
    <3>2. QED
      BY <3>1 DEF Init, Hook
  <2>3. owed \in [Process -> [work : SUBSET Item, status : SUBSET Repo]]
    BY DEF Init, Nothing
  <2>4. QED
    BY <2>1, <2>2, <2>3 DEF Init, Typed, Asking
<1>2. QED
  BY <1>1, TypedStep, PTL DEF Spec

(***************************************************************************)
(* Every reachable state is well typed, for any repositories and work: a   *)
(* process at a command is at one of the repositories, and only a          *)
(* checkpoint that has asked about all of them writes the log.             *)
(***************************************************************************)
THEOREM TypeCorrect == Spec => []TypeOK
<1>1. Typed => TypeOK
  BY DEF Typed, TypeOK, Job, Label, Hook
<1>2. QED
  BY <1>1, Inductive, PTL

-----------------------------------------------------------------------------
(* What a round of git commands can be held to.                            *)

Here(p, r, labels) == job[p].repo = r /\ job[p].at \in labels

\* Found in r, or r is still to be asked about.
Open(p, r) == r \in job[p].found \cup job[p].todo

(***************************************************************************)
(* Where each thing a round owes is: done, or found, or in a repository    *)
(* where a command failed, or ahead of the round.  After git status        *)
(* answered "clean", work not pushed is committed; after a fetch, what     *)
(* origin has more is seen; a STATUS.md behind is asked about last.        *)
(***************************************************************************)
WorkAt(p, x) ==
    \/ place[x] = "pushed"
    \/ Home[x] \in blind[p]
    \/ Open(p, Home[x])
    \/ Here(p, Home[x], {"inside", "status"})
    \/ Here(p, Home[x], {"upstream", "ahead"}) /\ place[x] = "commit"

OriginAt(p, r) ==
    \/ r \in blind[p]
    \/ Open(p, r)
    \/ Here(p, r, {"inside"})
    \/ Here(p, r, {"status", "upstream", "ahead"}) /\ r \in seen

StatusAt(p, r) ==
    \/ Open(p, r)
    \/ Here(p, r, {"inside", "status", "upstream", "ahead", "checkpoint"})

RoundOK(p) ==
    /\ \A x \in owed[p].work : place[x] # "none" /\ WorkAt(p, x)
    /\ p \in Handoff =>
          /\ \A r \in unpulled[p] : r \in ours /\ OriginAt(p, r)
          /\ \A r \in owed[p].status : r \notin current /\ StatusAt(p, r)
    /\ p \in Checkpoint /\ job[p].at # "idle" => place[p] = "none"
    /\ job[p].at = "behind" => p \in Checkpoint

\* Work only goes on: from the clone into a commit, and then to origin.
Further(x) ==
    \/ place'[x] = place[x]
    \/ place[x] = "edit" /\ place'[x] = "commit"
    \/ place[x] = "commit" /\ place'[x] = "pushed"

\* What the steps of others leave of a round.
LEMMA RoundStays ==
    ASSUME Typed, NEW p \in Process, RoundOK(p),
           job'[p] = job[p], blind'[p] = blind[p],
           owed'[p].work = owed[p].work, owed'[p].status \subseteq owed[p].status,
           owed[p].status \cap current = {} => owed'[p].status \cap current' = {},
           unpulled'[p] \subseteq unpulled[p],
           \A r \in unpulled'[p] : (r \in ours => r \in ours') /\ (r \in seen => r \in seen'),
           \A x \in Item : place[x] # "none" => Further(x),
           p \in Checkpoint /\ job[p].at # "idle" => place'[p] = place[p]
    PROVE  RoundOK(p)'
<1>1. owed[p].work \subseteq Item
  BY DEF Typed
<1>2. \A x \in owed'[p].work : place'[x] # "none" /\ WorkAt(p, x)'
  <2> SUFFICES ASSUME NEW x \in owed'[p].work PROVE place'[x] # "none" /\ WorkAt(p, x)'
    OBVIOUS
  <2>1. /\ x \in Item /\ place[x] # "none" /\ WorkAt(p, x) /\ Further(x)
        /\ place[x] \in {"none", "edit", "commit", "pushed"}
    BY <1>1 DEF RoundOK, Typed
  <2>2. QED
    BY <2>1 DEF Further, WorkAt, Open, Here
<1>3. p \in Handoff => \A r \in unpulled'[p] : r \in ours' /\ OriginAt(p, r)'
  BY DEF RoundOK, OriginAt, Open, Here
<1>4. p \in Handoff => \A r \in owed'[p].status : r \notin current' /\ StatusAt(p, r)'
  BY DEF RoundOK, StatusAt, Open, Here
<1>5. QED
  BY <1>2, <1>3, <1>4 DEF RoundOK

\* Each command of p's own round.
LEMMA AskKeeps ==
    ASSUME Typed, NEW p \in Process, RoundOK(p), Ask(p)
    PROVE  RoundOK(p)'
<1> USE SessionAssumption
<1>1. /\ owed[p].work \subseteq Item /\ Home \in [Item -> Repo]
      /\ place \in [Item -> {"none", "edit", "commit", "pushed"}]
      /\ blind \in [Process -> SUBSET Repo]
      /\ p \in Handoff => p \notin Checkpoint
  BY DEF Typed
<1>2. UNCHANGED <<place, upstream, ours, current, stale, owed, unpulled>> /\ seen \subseteq seen'
  BY AskTyped
<1>3. ASSUME \A x \in owed[p].work : WorkAt(p, x) => WorkAt(p, x)',
             p \in Handoff => \A r \in unpulled[p] :
                                 r \in ours /\ OriginAt(p, r) => OriginAt(p, r)',
             p \in Handoff => \A r \in owed[p].status :
                                 r \notin current /\ StatusAt(p, r) => StatusAt(p, r)',
             job[p].at # "idle", job'[p].at = "behind" => p \in Checkpoint
      PROVE  RoundOK(p)'
  BY <1>2, <1>3 DEF RoundOK
<1>4. CASE NextRepo(p)
  <2>1. /\ job[p].at = "next" /\ UNCHANGED <<blind, seen>>
        /\ \E r \in job[p].todo :
              job'[p] = [at |-> "inside", todo |-> job[p].todo \ {r}, repo |-> r,
                         found |-> job[p].found, held |-> job[p].held]
    BY <1>4, NextRepoIs DEF Asked, gitVars
  <2>2. PICK r \in job[p].todo :
            job'[p] = [at |-> "inside", todo |-> job[p].todo \ {r}, repo |-> r,
                       found |-> job[p].found, held |-> job[p].held]
    BY <2>1
  <2>3. /\ job'[p].at = "inside" /\ job'[p].todo = job[p].todo \ {r}
        /\ job'[p].repo = r /\ job'[p].found = job[p].found
    BY <2>2
  <2>4. \A x \in owed[p].work : WorkAt(p, x) => WorkAt(p, x)'
    BY <1>2, <2>1, <2>3 DEF WorkAt, Open, Here
  <2>5. \A q \in unpulled[p] : OriginAt(p, q) => OriginAt(p, q)'
    BY <1>2, <2>1, <2>3 DEF OriginAt, Open, Here
  <2>6. \A q \in owed[p].status : StatusAt(p, q) => StatusAt(p, q)'
    BY <1>2, <2>1, <2>3 DEF StatusAt, Open, Here
  <2>7. QED
    BY <1>3, <2>1, <2>3, <2>4, <2>5, <2>6
<1>5. ASSUME NEW label, NEW bad, Answered(p, label, bad) \/ Failed(p, label)
      PROVE  /\ job'[p].at = label /\ job'[p].todo = job[p].todo
             /\ job'[p].repo = job[p].repo /\ job[p].found \subseteq job'[p].found
             /\ blind[p] \subseteq blind'[p]
             /\ Answered(p, label, bad) => bad \subseteq job'[p].found
             /\ Failed(p, label) => job[p].repo \in blind'[p]
             /\ \A r : Open(p, r) => Open(p, r)'
  <2>1. /\ job'[p].at = label /\ job'[p].todo = job[p].todo
        /\ job'[p].repo = job[p].repo /\ job[p].found \subseteq job'[p].found
        /\ Answered(p, label, bad) => bad \subseteq job'[p].found
    BY <1>5 DEF Answered, Failed, Moves
  <2>2. blind[p] \subseteq blind'[p] /\ (Failed(p, label) => job[p].repo \in blind'[p])
    BY <1>1, <1>5 DEF Answered, Failed
  <2>3. QED
    BY <2>1, <2>2 DEF Open
<1>6. CASE Inside(p)
  <2>1. /\ job[p].at = "inside"
        /\ \/ /\ Answered(p, "status", {})
              /\ seen' = IF p \in Handoff THEN seen \cup (ours \cap {job[p].repo}) ELSE seen
           \/ Failed(p, IF p \in Handoff THEN "status" ELSE "next") /\ UNCHANGED seen
    BY <1>6, InsideIs
  <2>2. CASE Answered(p, "status", {}) /\ (p \in Handoff => ours \cap {job[p].repo} \subseteq seen')
    <3>1. \A x \in owed[p].work : WorkAt(p, x) => WorkAt(p, x)'
      BY <1>2, <1>5, <2>1, <2>2 DEF WorkAt, Here
    <3>2. p \in Handoff => \A r \in unpulled[p] :
                              r \in ours /\ OriginAt(p, r) => OriginAt(p, r)'
      BY <1>2, <1>5, <2>1, <2>2 DEF OriginAt, Here
    <3>3. \A r \in owed[p].status : StatusAt(p, r) => StatusAt(p, r)'
      BY <1>2, <1>5, <2>1, <2>2 DEF StatusAt, Here
    <3>4. QED
      BY <1>3, <1>5, <2>1, <2>2, <3>1, <3>2, <3>3
  <2>3. CASE Failed(p, IF p \in Handoff THEN "status" ELSE "next")
    <3>1. \A x \in owed[p].work : WorkAt(p, x) => WorkAt(p, x)'
      BY <1>2, <1>5, <2>1, <2>3 DEF WorkAt, Here
    <3>2. p \in Handoff => \A r \in unpulled[p] : OriginAt(p, r) => OriginAt(p, r)'
      BY <1>2, <1>5, <2>1, <2>3 DEF OriginAt, Here
    <3>3. p \in Handoff => \A r \in owed[p].status : StatusAt(p, r) => StatusAt(p, r)'
      BY <1>2, <1>5, <2>1, <2>3 DEF StatusAt, Here
    <3>4. job'[p].at = IF p \in Handoff THEN "status" ELSE "next"
      BY <1>5, <2>3
    <3>5. job[p].at # "idle" /\ job'[p].at # "behind"
      BY <2>1, <3>4
    <3>6. QED
      BY <1>3, <3>1, <3>2, <3>3, <3>5
  <2>4. QED
    BY <2>1, <2>2, <2>3
<1>7. CASE ReadStatus(p)
  <2>1. /\ job[p].at = "status" /\ seen' = seen
        /\ \/ In(job[p].repo, "edit") # {} /\ Answered(p, "upstream", {job[p].repo})
           \/ In(job[p].repo, "edit") = {} /\ Answered(p, "upstream", {})
           \/ Failed(p, "upstream")
    BY <1>7, StatusIs DEF Asked, gitVars
  <2>2. job'[p].at = "upstream"
    BY <1>5, <2>1
  <2>3. \A x \in owed[p].work : WorkAt(p, x) => WorkAt(p, x)'
    <3> SUFFICES ASSUME NEW x \in owed[p].work, WorkAt(p, x) PROVE WorkAt(p, x)'
      OBVIOUS
    <3>1. place[x] \in {"edit", "commit", "pushed"} /\ x \in Item
      BY <1>1 DEF RoundOK
    <3>2. CASE In(job[p].repo, "edit") # {} /\ Answered(p, "upstream", {job[p].repo})
      BY <1>2, <1>5, <2>1, <3>2 DEF WorkAt, Here, Open
    <3>3. CASE In(job[p].repo, "edit") = {} /\ Answered(p, "upstream", {})
      <4>1. Home[x] = job[p].repo => place[x] # "edit"
        BY <3>1, <3>3 DEF In
      <4>2. QED
        BY <1>2, <1>5, <2>1, <2>2, <3>1, <3>3, <4>1 DEF WorkAt, Here
    <3>4. CASE Failed(p, "upstream")
      BY <1>2, <1>5, <2>1, <3>4 DEF WorkAt, Here
    <3>5. QED
      BY <2>1, <3>2, <3>3, <3>4
  <2>4. \A r \in unpulled[p] : OriginAt(p, r) => OriginAt(p, r)'
    BY <1>2, <1>5, <2>1, <2>2 DEF OriginAt, Here
  <2>5. \A r \in owed[p].status : StatusAt(p, r) => StatusAt(p, r)'
    BY <1>2, <1>5, <2>1, <2>2 DEF StatusAt, Here
  <2>6. QED
    BY <1>3, <2>1, <2>2, <2>3, <2>4, <2>5
<1>8. CASE ReadUpstream(p)
  <2>1. /\ job[p].at = "upstream" /\ seen' = seen
        /\ \/ Answered(p, "ahead", {})
           \/ Answered(p, AfterCounts(p), {job[p].repo})
        /\ AfterCounts(p) \in {"checkpoint", "next"}
    BY <1>8, UpstreamIs DEF Asked, gitVars, AfterCounts
  <2>2. CASE Answered(p, "ahead", {})
    <3>1. \A x \in owed[p].work : WorkAt(p, x) => WorkAt(p, x)'
      BY <1>2, <1>5, <2>1, <2>2 DEF WorkAt, Here
    <3>2. \A r \in unpulled[p] : OriginAt(p, r) => OriginAt(p, r)'
      BY <1>2, <1>5, <2>1, <2>2 DEF OriginAt, Here
    <3>3. \A r \in owed[p].status : StatusAt(p, r) => StatusAt(p, r)'
      BY <1>2, <1>5, <2>1, <2>2 DEF StatusAt, Here
    <3>4. QED
      BY <1>3, <1>5, <2>1, <2>2, <3>1, <3>2, <3>3
  <2>3. CASE Answered(p, AfterCounts(p), {job[p].repo})
    <3>1. job[p].repo \in job'[p].found
      BY <1>5, <2>3
    <3>2. \A x \in owed[p].work : WorkAt(p, x) => WorkAt(p, x)'
      BY <1>2, <1>5, <2>1, <2>3, <3>1 DEF WorkAt, Here, Open
    <3>3. \A r \in unpulled[p] : OriginAt(p, r) => OriginAt(p, r)'
      BY <1>2, <1>5, <2>1, <2>3, <3>1 DEF OriginAt, Here, Open
    <3>4. \A r \in owed[p].status : StatusAt(p, r) => StatusAt(p, r)'
      BY <1>2, <1>5, <2>1, <2>3, <3>1 DEF StatusAt, Here, Open
    <3>5. QED
      BY <1>3, <1>5, <2>1, <2>3, <3>2, <3>3, <3>4
  <2>4. QED
    BY <2>1, <2>2, <2>3
<1>9. CASE ReadAhead(p)
  <2>1. /\ job[p].at = "ahead" /\ seen' = seen
        /\ \/ Answered(p, AfterAhead(p), {job[p].repo})
           \/ /\ In(job[p].repo, "commit") = {}
              /\ ~(p \in Handoff /\ job[p].repo \in seen)
              /\ Answered(p, AfterAhead(p), {})
           \/ Failed(p, AfterAhead(p))
    BY <1>9, AheadIs DEF Asked, gitVars
  <2>2. /\ job'[p].at = AfterAhead(p)
        /\ p \in Handoff => AfterAhead(p) = "checkpoint"
        /\ AfterAhead(p) = "behind" => p \in Checkpoint
    BY <1>1, <1>5, <2>1 DEF AfterAhead, AfterCounts
  <2>3. \A x \in owed[p].work : WorkAt(p, x) => WorkAt(p, x)'
    <3> SUFFICES ASSUME NEW x \in owed[p].work, WorkAt(p, x) PROVE WorkAt(p, x)'
      OBVIOUS
    <3>1. CASE Answered(p, AfterAhead(p), {job[p].repo})
      BY <1>2, <1>5, <2>1, <3>1 DEF WorkAt, Here, Open
    <3>2. CASE In(job[p].repo, "commit") = {} /\ Answered(p, AfterAhead(p), {})
      <4>1. x \in Item /\ (Home[x] = job[p].repo => place[x] # "commit")
        BY <1>1, <3>2 DEF In
      <4>2. QED
        BY <1>2, <1>5, <2>1, <3>2, <4>1 DEF WorkAt, Here
    <3>3. CASE Failed(p, AfterAhead(p))
      BY <1>2, <1>5, <2>1, <3>3 DEF WorkAt, Here
    <3>4. QED
      BY <2>1, <3>1, <3>2, <3>3
  <2>4. p \in Handoff => \A r \in unpulled[p] : OriginAt(p, r) => OriginAt(p, r)'
    <3> SUFFICES ASSUME p \in Handoff, NEW r \in unpulled[p], OriginAt(p, r)
                 PROVE  OriginAt(p, r)'
      OBVIOUS
    <3>1. CASE Answered(p, AfterAhead(p), {job[p].repo})
      BY <1>2, <1>5, <2>1, <3>1 DEF OriginAt, Here, Open
    <3>2. CASE job[p].repo \notin seen /\ Answered(p, AfterAhead(p), {})
      BY <1>2, <1>5, <2>1, <3>2 DEF OriginAt, Here
    <3>3. CASE Failed(p, AfterAhead(p))
      BY <1>2, <1>5, <2>1, <3>3 DEF OriginAt, Here
    <3>4. QED
      BY <2>1, <3>1, <3>2, <3>3
  <2>5. p \in Handoff => \A r \in owed[p].status : StatusAt(p, r) => StatusAt(p, r)'
    BY <1>2, <1>5, <2>1, <2>2 DEF StatusAt, Here
  <2>6. QED
    BY <1>3, <2>1, <2>2, <2>3, <2>4, <2>5
<1>10. CASE ReadBehind(p)
  <2>1. /\ job[p].at = "behind" /\ p \notin Handoff /\ seen' = seen
        /\ \/ Answered(p, "next", {job[p].repo})
           \/ Answered(p, "next", {})
           \/ Failed(p, "next")
    BY <1>1, <1>10, BehindIs DEF Asked, gitVars, RoundOK
  <2>2. \A x \in owed[p].work : WorkAt(p, x) => WorkAt(p, x)'
    BY <1>2, <1>5, <2>1 DEF WorkAt, Here
  <2>3. QED
    BY <1>3, <1>5, <2>1, <2>2
<1>11. CASE ReadCheckpoint(p)
  <2>1. /\ job[p].at = "checkpoint" /\ seen' = seen
        /\ \/ job[p].repo \in current /\ Answered(p, "next", {})
           \/ Answered(p, "next", {job[p].repo})
    BY <1>11, CheckpointIs DEF Asked, gitVars
  <2>2. \A x \in owed[p].work : WorkAt(p, x) => WorkAt(p, x)'
    BY <1>2, <1>5, <2>1 DEF WorkAt, Here
  <2>3. \A r \in unpulled[p] : OriginAt(p, r) => OriginAt(p, r)'
    BY <1>2, <1>5, <2>1 DEF OriginAt, Here
  <2>4. \A r \in owed[p].status : r \notin current /\ StatusAt(p, r) => StatusAt(p, r)'
    BY <1>2, <1>5, <2>1 DEF StatusAt, Here, Open
  <2>5. QED
    BY <1>3, <1>5, <2>1, <2>2, <2>3, <2>4
<1>12. QED
  BY <1>4, <1>6, <1>7, <1>8, <1>9, <1>10, <1>11 DEF Ask

Rounds == \A p \in Process : RoundOK(p)

LEMMA RoundsStep == Typed /\ Rounds /\ [Next]_vars => Rounds'
<1> SUFFICES ASSUME Typed, Rounds, [Next]_vars PROVE Rounds'
  OBVIOUS
<1> USE SessionAssumption
<1>1. cast \subseteq Process
  BY DEF Typed
\* Git moves: no process does, and nothing owed is taken back.
<1>2. ASSUME UNCHANGED <<job, blind>>,
             \A p \in Process :
                 /\ owed'[p].work = owed[p].work /\ owed'[p].status \subseteq owed[p].status
                 /\ owed[p].status \cap current = {} => owed'[p].status \cap current' = {}
                 /\ unpulled'[p] \subseteq unpulled[p]
                 /\ \A r \in unpulled'[p] : (r \in ours => r \in ours')
                                            /\ (r \in seen => r \in seen'),
             \A x \in Item : place[x] # "none" => Further(x),
             \A p \in Checkpoint : place[p] = "none" => place'[p] = "none"
      PROVE  Rounds'
  <2> SUFFICES ASSUME NEW p \in Process PROVE RoundOK(p)'
    BY DEF Rounds
  <2>1. p \in Checkpoint /\ job[p].at # "idle" => place'[p] = place[p]
    BY <1>2 DEF Rounds, RoundOK
  <2>2. QED
    BY <1>2, <2>1, RoundStays DEF Rounds
\* One process moves: the rounds of the others stay.
<1>3. ASSUME NEW p \in Process, RoundOK(p)',
             \A q \in Process \ {p} : /\ job'[q] = job[q] /\ blind'[q] = blind[q]
                                      /\ owed'[q] = owed[q] /\ unpulled'[q] = unpulled[q],
             UNCHANGED <<ours, current>>, seen \subseteq seen',
             \A x \in Item \ {p} : place'[x] = place[x],
             p \in Item /\ place[p] # "none" => place'[p] = place[p]
      PROVE  Rounds'
  <2> SUFFICES ASSUME NEW q \in Process \ {p} PROVE RoundOK(q)'
    BY <1>3 DEF Rounds
  <2>1. \A x \in Item : place[x] # "none" => Further(x)
    BY <1>3 DEF Further
  <2>2. q \in Checkpoint => place'[q] = place[q]
    BY <1>3 DEF Item
  <2>3. QED
    BY <1>3, <2>1, <2>2, RoundStays DEF Rounds
<1>4. ASSUME NEW x \in Work, Edit(x) PROVE Rounds'
  <2>1. UNCHANGED <<job, blind, owed, unpulled, current, ours, seen>>
    BY <1>4 DEF Edit, roundVars
  <2>2. \A y \in Item \ {x} : place'[y] = place[y]
    BY <1>4 DEF Edit, Typed
  <2>3. place[x] = "none" /\ x \notin Checkpoint /\ Checkpoint \subseteq Item
    BY <1>4 DEF Edit, Item
  <2>4. QED
    BY <1>2, <2>1, <2>2, <2>3 DEF Further
<1>5. ASSUME NEW r \in Repo, Push(r) PROVE Rounds'
  <2>1. UNCHANGED <<job, blind, owed, unpulled, current, ours, seen>>
    BY <1>5 DEF Push, roundVars
  <2>2. \A x \in Item : \/ place'[x] = place[x]
                        \/ place[x] = "commit" /\ place'[x] = "pushed"
    BY <1>5, MoveIs DEF Push
  <2>3. QED
    BY <1>2, <2>1, <2>2 DEF Further, Item
<1>6. ASSUME NEW r \in Repo, TheyPush(r) PROVE Rounds'
  BY <1>2, <1>6 DEF TheyPush, roundVars, Further
<1>7. ASSUME NEW r \in Repo, NEW status \in BOOLEAN, Commit(r, status) PROVE Rounds'
  <2>1. UNCHANGED <<job, blind, unpulled, ours, seen>>
    BY <1>7 DEF Commit
  <2>2. \A x \in Item : \/ place'[x] = place[x]
                        \/ place[x] = "edit" /\ place'[x] = "commit"
    BY <1>7, MoveIs DEF Commit
  <2>3. \A p \in Process : /\ owed'[p].work = owed[p].work
                           /\ owed'[p].status \subseteq owed[p].status
                           /\ owed[p].status \cap current = {}
                                 => owed'[p].status \cap current' = {}
    BY <1>7, NewHeadIs DEF Commit
  <2>4. QED
    BY <1>2, <2>1, <2>2, <2>3 DEF Further, Item
<1>8. ASSUME NEW r \in Repo, NEW status \in BOOLEAN, Pull(r, status) PROVE Rounds'
  <2>1. UNCHANGED <<job, blind, place>>
    BY <1>8 DEF Pull
  <2>2. /\ ours' = ours \ {r} /\ seen' = seen \ {r}
        /\ \A p \in Process : unpulled'[p] = unpulled[p] \ {r}
    BY <1>8 DEF Pull
  <2>3. \A p \in Process : /\ owed'[p].work = owed[p].work
                           /\ owed'[p].status \subseteq owed[p].status
                           /\ owed[p].status \cap current = {}
                                 => owed'[p].status \cap current' = {}
    BY <1>8, NewHeadIs DEF Pull
  <2>4. QED
    BY <1>2, <2>1, <2>2, <2>3 DEF Further
<1>9. ASSUME NEW p \in Process, Ask(p) PROVE Rounds'
  <2>1. RoundOK(p)'
    BY <1>9, AskKeeps DEF Rounds
  <2>2. \A q \in Process \ {p} : blind'[q] = blind[q]
    <3>1. UNCHANGED blind \/ GitFails(p)
      BY <1>9 DEF Ask, NextRepo, Inside, ReadStatus, ReadUpstream, ReadAhead,
         ReadBehind, ReadCheckpoint
    <3>2. QED
      BY <3>1 DEF GitFails, Typed
  <2>3. QED
    BY <1>3, <1>9, <2>1, <2>2, AskTyped
<1>10. ASSUME NEW p \in Process, StartRound(p), UNCHANGED gitVars,
              p \in Checkpoint => place[p] = "none"
       PROVE  Rounds'
  <2>1. /\ job'[p].at = "next" /\ job'[p].todo = Repo
        /\ \A q \in Process \ {p} : job'[q] = job[q]
    BY <1>10, RoundIs
  <2>2. /\ owed'[p] = Owed /\ unpulled'[p] = ours
        /\ \A q \in Process \ {p} : /\ blind'[q] = blind[q] /\ owed'[q] = owed[q]
                                    /\ unpulled'[q] = unpulled[q]
    BY <1>10 DEF StartRound, Typed
  <2>3. UNCHANGED <<place, ours, seen, current>>
    BY <1>10 DEF gitVars
  <2>4. \A x \in Owed.work : place[x] # "none" /\ Home[x] \in Repo
    BY DEF Owed, Unpushed
  <2>5. /\ \A r \in Owed.status : r \notin current /\ r \in Repo
        /\ \A r \in ours : r \in Repo
    BY DEF Owed, Typed
  <2>6. RoundOK(p)'
    BY <1>10, <2>1, <2>2, <2>3, <2>4, <2>5 DEF RoundOK, WorkAt, OriginAt, StatusAt, Open
  <2>7. QED
    BY <1>3, <2>1, <2>2, <2>3, <2>6
<1>11. ASSUME NEW p \in Process, EndRound(p), UNCHANGED <<ours, current, seen>>,
              \A x \in Item \ {p} : place'[x] = place[x],
              p \in Item /\ place[p] # "none" => place'[p] = place[p]
       PROVE  Rounds'
  <2>1. /\ job'[p].at = "idle" /\ \A q \in Process \ {p} : job'[q] = job[q]
    BY <1>11, RoundIs, IdleJob
  <2>2. /\ owed'[p] = Nothing /\ unpulled'[p] = {}
        /\ \A q \in Process \ {p} : /\ blind'[q] = blind[q] /\ owed'[q] = owed[q]
                                    /\ unpulled'[q] = unpulled[q]
    BY <1>11 DEF EndRound, Typed
  <2>3. RoundOK(p)'
    BY <2>1, <2>2 DEF RoundOK, Nothing
  <2>4. QED
    BY <1>3, <1>11, <2>1, <2>2, <2>3
<1>12. ASSUME NEW p \in Process, ReadLog(p) PROVE Rounds'
  <2>1. /\ job[p].at = "next" /\ job'[p].at = "write" /\ job'[p].todo = job[p].todo
        /\ job'[p].found = job[p].found /\ \A q \in Process \ {p} : job'[q] = job[q]
    BY <1>12, JobTyped DEF ReadLog, RoundOver, Job
  <2>2. UNCHANGED <<place, ours, seen, current, owed, unpulled, blind>>
    BY <1>12 DEF ReadLog, gitVars
  <2>3. RoundOK(p)'
    BY <2>1, <2>2 DEF Rounds, RoundOK, WorkAt, OriginAt, StatusAt, Open, Here
  <2>4. QED
    BY <1>3, <2>1, <2>2, <2>3
<1>13. ASSUME NEW p \in Process, WriteLog(p) PROVE Rounds'
  <2>1. p \in Checkpoint /\ place[p] = "none"
    BY <1>13 DEF WriteLog, Typed, Rounds, RoundOK
  <2>2. /\ \A x \in Item \ {p} : place'[x] = place[x]
        /\ EndRound(p) /\ UNCHANGED <<ours, current, seen>>
    BY <1>13 DEF WriteLog, Typed
  <2>3. QED
    BY <1>11, <2>1, <2>2
<1>14. ASSUME UNCHANGED <<gitVars, roundVars>> PROVE Rounds'
  BY <1>2, <1>14 DEF gitVars, roundVars, Further
<1>15. ASSUME NEW g \in Gate \cap cast, EndTurn(g) \/ GateStep(g) PROVE Rounds'
  <2>1. g \in Process /\ g \notin Checkpoint
    BY DEF Process
  <2>2. CASE EndTurn(g) \/ AllowAbort(g) \/ AllowActive(g)
    BY <1>14, <2>2 DEF EndTurn, AllowAbort, AllowActive
  <2>3. CASE GateStart(g)
    BY <1>10, <2>1, <2>3 DEF GateStart
  <2>4. CASE Ask(g)
    BY <1>9, <2>1, <2>4
  <2>5. CASE GateAnswer(g)
    BY <1>11, <2>1, <2>5 DEF GateAnswer, gitVars
  <2>6. QED
    BY <1>15, <2>2, <2>3, <2>4, <2>5 DEF GateStep
<1>16. ASSUME NEW p \in cast \ Gate, Start(p) \/ Step(p) PROVE Rounds'
  <2>1. p \in Process
    BY <1>1
  <2>2. CASE Start(p)
    BY <1>10, <2>1, <2>2 DEF Start
  <2>3. CASE HandoffAnswer(p)
    BY <1>11, <2>1, <2>3 DEF HandoffAnswer, gitVars
  <2>4. QED
    BY <1>9, <1>12, <1>13, <1>16, <2>1, <2>2, <2>3 DEF Step
<1>17. CASE UNCHANGED vars
  BY <1>14, <1>17 DEF vars
<1>18. QED
  BY <1>4, <1>5, <1>6, <1>7, <1>8, <1>15, <1>16, <1>17 DEF Next, Git

LEMMA RoundsHold == Spec => [](Typed /\ Rounds)
<1>1. Init => Rounds
  BY IdleJob DEF Init, Rounds, RoundOK, Nothing
<1>2. QED
  BY <1>1, RoundsStep, Inductive, PTL DEF Spec

\* A round that passes has nothing open and is at no repository.
LEMMA PassedIs ==
    ASSUME Typed, Rounds, NEW p \in Process, Passes(p)
    PROVE  /\ \A r : ~Open(p, r)
           /\ job[p].at \in {"next", "write"}
BY DEF Typed, Passes, RoundOver, Open

(***************************************************************************)
(* When a gate opens, a hand-off is ready or a checkpoint passes, the work *)
(* that lay unpushed when its round began has been pushed, but for the     *)
(* repositories in which a git command failed: with any repositories, and  *)
(* whatever is edited, committed, pushed and pulled between the commands.  *)
(***************************************************************************)
THEOREM PassesHonest == Spec => []PassMeansPushed
<1>1. Typed /\ Rounds => PassMeansPushed
  BY PassedIs DEF PassMeansPushed, Rounds, RoundOK, WorkAt, Here
<1>2. QED
  BY <1>1, RoundsHold, PTL

(***************************************************************************)
(* When a hand-off is ready, what origin had when its round began has been *)
(* pulled and a STATUS.md that had fallen behind has been brought up to    *)
(* date, with the same proviso.                                            *)
(***************************************************************************)
THEOREM HandoffsInSync == Spec => []HandoffInSync
<1>1. Typed /\ Rounds => HandoffInSync
  <2> SUFFICES ASSUME Typed, Rounds, NEW p \in Handoff, Passes(p)
               PROVE  unpulled[p] \subseteq blind[p] /\ owed[p].status = {}
    BY DEF HandoffInSync
  <2>1. p \in Process /\ RoundOK(p)
    BY DEF Process, Rounds
  <2>2. unpulled[p] \subseteq blind[p]
    BY <2>1, PassedIs DEF RoundOK, OriginAt, Here
  <2>3. \A r \in owed[p].status : FALSE
    BY <2>1, PassedIs DEF RoundOK, StatusAt, Here
  <2>4. QED
    BY <2>2, <2>3
<1>2. QED
  BY <1>1, RoundsHold, PTL

-----------------------------------------------------------------------------
(* The stop hook's limit and the build log.                                *)

\* Beyond FailLoudAt follow-ups the loud message has been delivered; a hook
\* that is being asked has not yet let its session go.
Loud ==
    \A g \in Gate :
        /\ hook[g].loop > FailLoudAt => hook[g].told = "loud"
        /\ hook[g].turn # "stopped" => hook[g].why = "none"
        /\ hook[g].why = "limit" => hook[g].told = "loud"
        /\ job[g].at # "idle" => hook[g].turn = "check"

LEMMA LoudStep ==
    ASSUME LoopLimit > FailLoudAt
    PROVE  Typed /\ Loud /\ [Next]_vars => Loud'
<1> SUFFICES ASSUME Typed, Loud, [Next]_vars PROVE Loud'
  OBVIOUS
<1> USE SessionAssumption
<1>1. cast \subseteq Process /\ Gate \subseteq Process
  BY DEF Typed, Process
\* A step of one gate leaves the others'.
<1>2. ASSUME NEW g \in Gate,
             \A h \in Gate \ {g} : hook'[h] = hook[h] /\ job'[h] = job[h],
             hook'[g].loop > FailLoudAt => hook'[g].told = "loud",
             hook'[g].turn # "stopped" => hook'[g].why = "none",
             hook'[g].why = "limit" => hook'[g].told = "loud",
             job'[g].at # "idle" => hook'[g].turn = "check"
      PROVE  Loud'
  BY <1>2 DEF Loud
<1>3. ASSUME NEW p \in Process, p \notin Gate, hook' = hook,
             \A q \in Process \ {p} : job'[q] = job[q]
      PROVE  Loud'
  BY <1>1, <1>3 DEF Loud
<1>4. ASSUME NEW g \in Gate, EndTurn(g) PROVE Loud'
  <2>1. hook[g].turn = "working" /\ UNCHANGED job
    BY <1>4 DEF EndTurn, roundVars
  <2>2. /\ hook'[g].loop = hook[g].loop /\ hook'[g].told = hook[g].told
        /\ hook'[g].why = hook[g].why /\ hook'[g].turn = "check"
        /\ \A h \in Gate \ {g} : hook'[h] = hook[h]
    BY <1>4 DEF EndTurn, Typed, Hook
  <2>3. QED
    BY <1>2, <2>1, <2>2 DEF Loud
<1>5. ASSUME NEW g \in Gate, NEW why \in {"abort", "active", "clean"}, Stop(g, why),
             job'[g].at = "idle", \A h \in Gate \ {g} : job'[h] = job[h]
      PROVE  Loud'
  <2>1. /\ \A h \in Gate \ {g} : hook'[h] = hook[h]
        /\ hook'[g].loop = hook[g].loop /\ hook'[g].told = hook[g].told
        /\ hook'[g].turn = "stopped" /\ hook'[g].why = why
    BY <1>5, StopIs
  <2>2. hook[g].loop > FailLoudAt => hook[g].told = "loud"
    BY DEF Loud
  <2>3. QED
    BY <1>2, <1>5, <2>1, <2>2
<1>6. ASSUME NEW g \in Gate, AllowAbort(g) \/ AllowActive(g) PROVE Loud'
  <2>1. UNCHANGED job /\ job[g].at = "idle"
    BY <1>6 DEF AllowAbort, AllowActive, roundVars
  <2>2. QED
    BY <1>5, <1>6, <2>1 DEF AllowAbort, AllowActive
<1>7. ASSUME NEW g \in Gate, GateStart(g) PROVE Loud'
  <2>1. /\ hook' = hook /\ hook[g].turn = "check"
        /\ \A q \in Process \ {g} : job'[q] = job[q]
    BY <1>1, <1>7, RoundIs DEF GateStart
  <2>2. QED
    BY <1>1, <1>2, <2>1 DEF Loud
<1>8. ASSUME NEW p \in Process, Ask(p) PROVE Loud'
  <2>1. hook' = hook /\ \A q \in Process \ {p} : job'[q] = job[q]
    BY <1>8, AskTyped
  <2>2. job[p].at # "idle"
    BY <1>8 DEF Ask, NextRepo, Inside, ReadStatus, ReadUpstream, ReadAhead,
       ReadBehind, ReadCheckpoint
  <2>3. QED
    BY <1>1, <2>1, <2>2 DEF Loud
<1>9. ASSUME NEW g \in Gate, GateAnswer(g) PROVE Loud'
  <2>1. /\ job'[g].at = "idle" /\ \A h \in Gate \ {g} : job'[h] = job[h]
        /\ hook[g].turn = "check" /\ hook[g].why = "none"
    <3>1. EndRound(g) /\ job[g].at = "next"
      BY <1>9 DEF GateAnswer, RoundOver
    <3>2. QED
      BY <1>1, <3>1, RoundIs, IdleJob DEF Loud
  <2>2. CASE Passes(g)
    BY <1>5, <1>9, <2>1, <2>2 DEF GateAnswer
  <2>3. CASE ~Passes(g) /\ Capped(g)
    <3>1. Stop(g, "limit") /\ hook[g].loop = LoopLimit
      BY <1>9, <2>3 DEF GateAnswer, Capped
    <3>2. hook[g].told = "loud"
      BY <3>1 DEF Loud
    <3>3. /\ \A h \in Gate \ {g} : hook'[h] = hook[h]
          /\ hook'[g].told = hook[g].told
          /\ hook'[g].turn = "stopped" /\ hook'[g].why = "limit"
      BY <3>1, StopIs
    <3>4. QED
      BY <1>2, <2>1, <3>2, <3>3
  <2>4. CASE ~Passes(g) /\ ~Capped(g)
    <3>1. /\ hook'[g].why = "none" /\ hook'[g].turn = "working"
          /\ hook'[g].told = Message(hook[g].loop)
          /\ hook'[g].loop = IF hook[g].mode = "cursor" THEN hook[g].loop + 1 ELSE 0
          /\ \A h \in Gate \ {g} : hook'[h] = hook[h]
      BY <1>9, <2>1, <2>4, ContinueIs
    <3>2. hook[g].loop \in Nat
      <4>1. hook[g] \in Hook
        BY DEF Typed
      <4>2. QED
        BY <4>1 DEF Hook
    <3>3. hook'[g].loop > FailLoudAt => hook'[g].told = "loud"
      BY <3>1, <3>2 DEF Message
    <3>4. QED
      BY <1>2, <2>1, <3>1, <3>3
  <2>5. QED
    BY <2>2, <2>3, <2>4
<1>10. ASSUME NEW p \in cast \ Gate, Start(p) \/ Step(p) PROVE Loud'
  <2>1. CASE Start(p)
    BY <1>1, <1>3, <2>1, RoundIs DEF Start
  <2>2. CASE HandoffAnswer(p)
    BY <1>1, <1>3, <2>2, RoundIs DEF HandoffAnswer
  <2>3. CASE ReadLog(p)
    BY <1>1, <1>3, <2>3, JobTyped DEF ReadLog
  <2>4. CASE WriteLog(p)
    BY <1>1, <1>3, <2>4, RoundIs DEF WriteLog
  <2>5. QED
    BY <1>1, <1>8, <1>10, <2>1, <2>2, <2>3, <2>4 DEF Step
<1>11. ASSUME UNCHANGED <<job, hook>> PROVE Loud'
  BY <1>11 DEF Loud
<1>12. CASE Git
  BY <1>11, <1>12 DEF Git, Edit, Push, TheyPush, Commit, Pull, roundVars
<1>13. CASE UNCHANGED vars
  BY <1>11, <1>13 DEF vars, roundVars
<1>14. QED
  BY <1>1, <1>4, <1>6, <1>7, <1>8, <1>9, <1>10, <1>12, <1>13 DEF Next, GateStep

(***************************************************************************)
(* If the harness allows more follow-ups than the gate waits before it     *)
(* turns loud (the code's 4 and 3), the gate gives up on a session with    *)
(* work pending only after the loud message.                               *)
(***************************************************************************)
THEOREM GivesUpLoudly ==
    ASSUME LoopLimit > FailLoudAt
    PROVE  Spec => []LoudBeforeGivingUp
<1>1. ASSUME Init PROVE Loud
  <2>1. \A g \in Gate : hook[g].loop = 0 /\ hook[g].turn = "working" /\ hook[g].why = "none"
    BY <1>1 DEF Init
  <2>2. \A g \in Gate : job[g].at = "idle"
    BY <1>1, IdleJob DEF Init, Process
  <2>3. \A g \in Gate : ~(hook[g].loop > FailLoudAt)
    BY <2>1, SessionAssumption
  <2>4. QED
    BY <2>1, <2>2, <2>3 DEF Loud
<1>2. Loud => LoudBeforeGivingUp
  BY DEF Loud, LoudBeforeGivingUp
<1>3. QED
  BY <1>1, <1>2, LoudStep, Inductive, PTL DEF Spec

LEMMA LogStep == Typed /\ LogKept /\ [Next]_vars => LogKept'
<1> SUFFICES ASSUME Typed, LogKept, [Next]_vars PROVE LogKept'
  OBVIOUS
<1> USE SessionAssumption
<1>1. ASSUME UNCHANGED logVars,
             \A c \in Checkpoint : place[c] = "none" => place'[c] = "none"
      PROVE  LogKept'
  BY <1>1 DEF LogKept, logVars
<1>2. ASSUME NEW x \in Work, Edit(x) PROVE LogKept'
  <2>1. \A c \in Checkpoint : place'[c] = place[c]
    BY <1>2 DEF Edit, Typed, Item
  <2>2. QED
    BY <1>1, <1>2, <2>1 DEF Edit
<1>3. ASSUME NEW r \in Repo, NEW status \in BOOLEAN,
             Push(r) \/ TheyPush(r) \/ Commit(r, status) \/ Pull(r, status)
      PROVE  LogKept'
  <2>1. \A c \in Checkpoint : place[c] = "none" => place'[c] = "none"
    BY <1>3 DEF Push, TheyPush, Commit, Pull, Move, In, Item
  <2>2. QED
    BY <1>1, <1>3, <2>1 DEF Push, TheyPush, Commit, Pull
<1>4. ASSUME NEW p \in Process, WriteLog(p) PROVE LogKept'
  <2>1. /\ log' = job[p].held \cup {p}
        /\ overlapped' = overlapped \cup (log \ job[p].held)
        /\ \A x \in Item \ {p} : place'[x] = place[x]
    BY <1>4 DEF WriteLog, Typed
  <2>2. QED
    BY <2>1 DEF LogKept, Item
<1>5. ASSUME UNCHANGED <<place, logVars>> PROVE LogKept'
  BY <1>1, <1>5
<1>6. ASSUME NEW p \in Process, Ask(p) PROVE LogKept'
  BY <1>5, <1>6, AskTyped
<1>7. CASE Git
  BY <1>2, <1>3, <1>7 DEF Git
<1>8. ASSUME NEW g \in Gate \cap cast, EndTurn(g) \/ GateStep(g) PROVE LogKept'
  BY <1>5, <1>6, <1>8 DEF EndTurn, GateStep, AllowAbort, AllowActive, GateStart,
     GateAnswer, gitVars, Process
<1>9. ASSUME NEW p \in cast \ Gate, Start(p) \/ Step(p) PROVE LogKept'
  <2>1. p \in Process
    BY DEF Typed
  <2>2. QED
    BY <1>4, <1>5, <1>6, <1>9, <2>1 DEF Start, Step, HandoffAnswer, ReadLog, gitVars
<1>10. CASE UNCHANGED vars
  BY <1>5, <1>10 DEF vars, gitVars
<1>11. QED
  BY <1>7, <1>8, <1>9, <1>10 DEF Next

(***************************************************************************)
(* An entry appended to the build log stays, unless another checkpoint had *)
(* read the log before it was written.                                     *)
(***************************************************************************)
THEOREM LogStays == Spec => []LogKept
<1>1. Init => LogKept
  BY DEF Init, LogKept, Item
<1>2. QED
  BY <1>1, LogStep, Inductive, PTL DEF Spec
=============================================================================
