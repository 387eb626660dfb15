----------------------------- MODULE Algorithms -----------------------------
(* The pure algorithms against reference definitions.  A behaviour picks an  *)
(* algorithm and grows its input one element at a time, so that the states    *)
(* are all the inputs up to a length: records the bank lists, one fact, the   *)
(* rows of a sheet, lines of markdown, of one file or of two, facts to        *)
(* deduplicate, or edges.                                                    *)
EXTENDS Agenda, Contract, Migration, Clustering

CONSTANTS
    Inputs,     \* task -> the elements its input is made of
    Longest,    \* task -> the bound on the length of an input
    Nodes       \* ids of the records to cluster

Tasks == {"agenda", "contract", "sheet", "markdown", "files", "dedup", "clusters"}

Keys == {"type", "status", "due_at", "revisit_at", "ventures"}

IsDate(value) == value \in 0 .. BadDate

ASSUME InputAssumption ==
    /\ Tasks \subseteq DOMAIN Inputs
    /\ \A task \in Tasks : Longest[task] \in Nat
    /\ \A rec \in Inputs["agenda"] : \A meta \in {rec.nested, rec.flat} :
          \A key \in DOMAIN meta \cap {"due_at", "revisit_at"} : IsDate(meta[key])
    /\ Inputs["contract"] \cup Inputs["sheet"] \subseteq
          [event_date : STRING, occurred_at : STRING, source : STRING,
           namespace : STRING, type : STRING, id : STRING, text : STRING,
           infer : STRING, ventures : STRING, status : STRING]
    /\ Inputs["markdown"] \cup Inputs["files"] \subseteq [level : Nat, text : DOMAIN Words]
    /\ IsFiniteSet(Nodes) /\ Nodes \subseteq Nat
    /\ Inputs["clusters"] \subseteq Nodes \X Nodes

VARIABLES task, input

Init ==
    /\ task \in Tasks
    /\ input = <<>>

Next ==
    /\ Len(input) < Longest[task]
    /\ \E x \in Inputs[task] : input' = Append(input, x)
    /\ UNCHANGED task

Spec == Init /\ [][Next]_<<task, input>>

-----------------------------------------------------------------------------
\* Where the agenda shows a record: in which of its lists, and at which place.
Places(items, id) ==
    {p \in Buckets \X (1 .. Len(items)) :
        p[2] \in DOMAIN Bucket(items, p[1]) /\ Bucket(items, p[1])[p[2]].id = id}

\* The lists an operator acts on.
Acted == {"overdue", "due_today", "revisit_due"}

\* An open item is at one place; one with a date that has come, its due date or
\* its revisit date, whatever the other says, is in a list an operator acts on.
ShownOnce(items, n) ==
    IF Shown(input[n], FALSE)
    THEN \E p \in Places(items, n) :
            /\ Places(items, n) = {p}
            /\ (\E date \in {AsOpenItem(input, n).due, AsOpenItem(input, n).revisit} :
                   date \in 1 .. Today) => p[1] \in Acted
    ELSE Places(items, n) = {}

\* The board sorts the recruiter's items by one key; what is overdue stands
\* before what is due today, and that before what is still to come.
BoardAgrees(board) ==
    LET rank == [overdue |-> 1, due_today |-> 2, upcoming |-> 3]
    IN  \A i, j \in DOMAIN board :
            i < j /\ {BucketOf(board[i]), BucketOf(board[j])} \subseteq DOMAIN rank
            => rank[BucketOf(board[i])] <= rank[BucketOf(board[j])]

\* Agenda: every open item of the listing, and nothing else, is in exactly one of
\* the five lists, once, and nothing that is due is in one nobody looks at; the
\* recruiter's board agrees (memory.py:293-434).
NothingDueHidden ==
    task = "agenda" =>
        LET items == OpenItems(input, FALSE)
        IN  /\ \A n \in DOMAIN input : ShownOnce(items, n)
            /\ BoardAgrees(Board(items))

\* Whatever the importer accepts is valid, carries its day under both names
\* without the time, and comes back unchanged when it is imported again.
StoredOnce(fact) ==
    \A stored \in Prepared(fact) :
        /\ Validates(stored)
        /\ stored.event_date = "day" /\ stored.occurred_at = "day"
        /\ Prepared(stored) = {stored}

\* A fact with a date, a text and ventures that each way checks is stored the
\* same by all of them: imported from JSON, captured alone, or given to the MCP
\* tool with its date as the argument.  Not so a fact with a status: the command
\* line has none, and the tool takes it in unvalidated, its source and type
\* as they are (server.py:63).
SameByHand(fact) ==
    LET undated == [fact EXCEPT !.event_date = "", !.occurred_at = ""]
        plain == [fact EXCEPT !.infer = "no"]
    IN  /\ fact.type = "fact" /\ fact.status = ""
        /\ "" \notin {fact.id, fact.source, EventDate(fact)}
        /\ ValidVentures(fact.ventures)
        => /\ Captured(plain) = Prepared(plain)
           /\ {[stored EXCEPT !.infer = "no"] : stored \in Added(undated, EventDate(fact))}
                  = Prepared(plain)

\* The same as a row of the sheet, its empty cells filled in, its status kept.
SameByRow(fact) ==
    fact.id # "example" /\ fact.infer = "no" =>
        \A type \in {fact.type} \cup (IF fact.type = "fact" THEN {""} ELSE {}), infer \in {"no", ""} :
            UNION {Prepared(f) : f \in FromRow([fact EXCEPT !.occurred_at = "", !.type = type,
                                                           !.infer = infer])}
                = Prepared([fact EXCEPT !.occurred_at = ""])

\* A sheet is converted as its rows are, or not at all.
SheetAsRows ==
    \A facts \in Sheet(input, TRUE) :
        /\ \A row \in ToSet(input) : FromRow(row) \subseteq ToSet(facts)
        /\ \A fact \in ToSet(facts) : \E row \in ToSet(input) : fact \in FromRow(row)

\* Contract: what is imported has one form in the bank, from JSON or from the
\* sheet and however often; so has a fact without a status that is captured or
\* given to the MCP tool (ADR 037 section 6, contract.py:42-145,
\* csv_to_bulk_seed.py:66-131, server.py:31-97).
AcceptedIsCanonical ==
    /\ task = "contract" =>
          \A fact \in ToSet(input) : StoredOnce(fact) /\ SameByHand(fact) /\ SameByRow(fact)
    /\ task = "sheet" => SheetAsRows

\* Migration: the headings a body line stands under, by their definition: those
\* before it that no later heading of the same or a higher rank has closed.
Ancestors(i) ==
    {h \in 1 .. i - 1 : /\ Heading(input[h])
                        /\ \A k \in h + 1 .. i :
                              Heading(input[k]) => input[k].level > input[h].level}

\* The body lines in order, each with the titles of those headings.
Filed ==
    Arranged([i \in DOMAIN input |->
                 <<Arranged([h \in DOMAIN input |-> input[h].text], Ancestors(i), <),
                   input[i].text>>],
             {i \in DOMAIN input : ~Heading(input[i])}, <)

LinesOf(section) ==
    [n \in DOMAIN section.body |-> <<Titles(section.path), section.body[n]>>]

\* Every body line is in exactly one section, in order, under exactly those
\* headings (import_md.py:26-58).
PathsAreAncestors ==
    task = "markdown" =>
        LET sections == Sections(input)
        IN  FlattenSeq([s \in DOMAIN sections |-> LinesOf(sections[s])]) = Filed

\* Rendered, the same words in the same order, up to case.
SameText(a, b) ==
    Breadcrumb(a[1]) \o Spoken(a[2]) = Breadcrumb(b[1]) \o Spoken(b[2])

\* And broken into the same headings and lines.
SameLayout(a, b) ==
    \A p \in 1 .. 2 : /\ Len(a[p]) = Len(b[p])
                     /\ \A n \in DOMAIN a[p] : Lowered[a[p][n]] = Lowered[b[p][n]]

\* The fact is exported, or one that says the same, whichever file that one is
\* from; laid out alike it has the tags the fact's text earns, but a keyword that
\* a line break of its own cuts in two earns it none.
Survives(fact, kept) ==
    \E n \in DOMAIN kept :
        /\ SameText(fact.text, kept[n].text)
        /\ SameLayout(fact.text, kept[n].text) =>
              fact.ventures \ PathVentures[fact.doc] \subseteq kept[n].ventures

\* A section is lost only where two sections of the files have one external id.
\* With what was exported in the bank, a second run that looks at it exports
\* what the listing leaves out and nothing else, so nothing below the limit.
NothingLost(files) ==
    LET facts == Parsed(files)
    IN  \A kept \in Exported(files, <<>>, TRUE, FALSE) :
            /\ (\A i, j \in DOMAIN facts : facts[i].id = facts[j].id => i = j)
                  => \A i \in DOMAIN facts : Survives(facts[i], kept)
            /\ \A again \in Exported(files, kept, TRUE, TRUE) :
                  \E listing \in Listings(kept) :
                      ToSet(again) = ToSet(kept) \ ToSet(listing)

\* Migration: so it is wherever the lines are cut into two files
\* (cli.py:58-175, categorizer.py:70-97, dedup.py:92-109).
NothingLostWithoutCollision ==
    task = "files" =>
        \A cut \in 0 .. Len(input) :
            NothingLost(<<[path |-> "f", lines |-> SubSeq(input, 1, cut)],
                          [path |-> "g", lines |-> SubSeq(input, cut + 1, Len(input))]>>)

Clash(a, b) == a.id = b.id \/ SameText(a.text, b.text)

\* What is kept is new to the bank and pairwise different in id and text, what
\* is dropped shares its id or its text with the bank or with what is kept, and
\* with the kept facts imported a re-run keeps nothing.
KeptIsNew(facts, bank) ==
    LET kept == NewFacts(facts, bank)
    IN  /\ \A i, j \in DOMAIN kept : Clash(kept[i], kept[j]) => i = j
        /\ \A f \in ToSet(kept), b \in ToSet(bank) : ~Clash(f, b)
        /\ \A f \in ToSet(facts) \ ToSet(kept) :
              \E b \in ToSet(bank) \cup ToSet(kept) : Clash(f, b)
        /\ NewFacts(facts, bank \o kept) = <<>>

\* Whatever the bank held, it gains exactly what it did not have, once
\* (dedup.py:62-109).
DedupSound ==
    task = "dedup" =>
        \A n \in 0 .. Len(input) :
            KeptIsNew(SubSeq(input, n + 1, Len(input)), SubSeq(input, 1, n))

\* No set of records that the edges do not leave has a without b.
Linked(a, b, edges) ==
    \A S \in SUBSET Nodes :
        (\A e \in edges : e[1] \in S <=> e[2] \in S) => (a \in S => b \in S)

\* Clustering: whichever records were listed, the clusters are the connected
\* components of the edges: two records share one exactly if nothing separates
\* them (memory_compaction.py:77-141).
ClustersAreComponents ==
    task = "clusters" =>
        \A listed \in SUBSET Nodes :
            LET edges == ToSet(input) \cap Pairs(listed, Nodes)
                clusters == Clusters(listed, edges)
            IN  \A a, b \in Nodes : a # b =>
                    ((\E c \in clusters : {a, b} \subseteq c) <=> Linked(a, b, edges))

=============================================================================
