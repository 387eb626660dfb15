------------------------------ MODULE Contract ------------------------------
(* src/memory/contract.py and the ways in which a fact gets its metadata:    *)
(* capture_fact (scripts/memory.py, one fact at a time), import_facts with   *)
(* _prepare_fact_metadata (the bulk importer), before it the sheet an        *)
(* operator edits (csv_to_bulk_seed.py), and the add_memory tool of the MCP   *)
(* server.  A fact is a record of its text, the fields of its metadata and    *)
(* the arguments beside them.  An absent key, or an empty cell, is "", as     *)
(* _clean drops keys without a value.  What is stored is a fact again: each   *)
(* way gives the set of it, or {} when it refuses the fact.                  *)
EXTENDS Arrange

\* Dates: "day" is ISO, "dayTime" has a time behind it that [:10] cuts off.
Day(value) == IF value = "dayTime" THEN "day" ELSE value

ValidDate(value) == Day(value) = "day"

\* normalize_source, with the one alias there is; two of the valid sources.
Source(value) == IF value = "cursor" THEN "cursor-repo" ELSE value

ValidSource(value) == Source(value) \in {"cursor-repo", "mcp"}

\* A value, or what stands for one that is not there.
Cell(value, default) == IF value = "" THEN default ELSE value

Namespace(value) == Cell(value, "public")

ValidNamespace(value) == Namespace(value) \in {"public", "sensitive"}

\* validate_fact_text: a "bare" text names a colliding entity unqualified.
ValidText(text) == text \notin {"", "bare"}

\* Mutant of Build: the date is stored as it was given.
BuildRaw(fact) ==
    IF /\ ValidDate(fact.event_date) /\ ValidSource(fact.source)
       /\ ValidNamespace(fact.namespace)
    THEN {[fact EXCEPT !.type = "fact", !.source = Source(@),
                       !.occurred_at = fact.event_date, !.namespace = Namespace(@)]}
    ELSE {}

\* build_fact_metadata: the date is written under both of its names.
Build(fact) ==
    IF /\ ValidDate(fact.event_date) /\ ValidSource(fact.source)
       /\ ValidNamespace(fact.namespace)
    THEN {[fact EXCEPT !.type = "fact", !.source = Source(@),
                       !.event_date = Day(@), !.occurred_at = Day(fact.event_date),
                       !.namespace = Namespace(@)]}
    ELSE {}

\* `event_date or occurred_at`
EventDate(fact) == Cell(fact.event_date, fact.occurred_at)

\* validate_fact_metadata
Validates(fact) ==
    /\ fact.type \in {"fact", "open_item"}
    /\ ValidDate(EventDate(fact))
    /\ ValidSource(fact.source)
    /\ ValidNamespace(fact.namespace)
    /\ fact.id # ""

\* VALID_VENTURES; one of them and no tag at all.
ValidVentures(ventures) == ventures \in {"", "career"}

\* capture_fact: always a fact, and without a status, which it has no argument
\* for; its source is normalised first.  Without a date nothing but the text and
\* the ventures is checked.
Captured(fact) ==
    LET given == [fact EXCEPT !.event_date = EventDate(fact), !.source = Source(@),
                              !.status = ""]
    IN  IF ~ValidVentures(fact.ventures) \/ (fact.infer # "yes" /\ ~ValidText(fact.text))
        THEN {}
        ELSE IF given.event_date # "" THEN Build(given)
        ELSE {[given EXCEPT !.type = "fact", !.namespace = Namespace(@)]}

\* Mutant of Prepared: what was built is not validated again.
PreparedOnce(fact) ==
    IF "" \in {fact.id, EventDate(fact), fact.source} \/ ~ValidText(fact.text) THEN {}
    ELSE {[built EXCEPT !.type = Cell(fact.type, "fact")] :
              built \in Build([fact EXCEPT !.event_date = EventDate(fact)])}

\* import_facts and _prepare_fact_metadata: the type and the status are put back
\* in place, then all is checked.
Prepared(fact) ==
    IF "" \in {fact.id, EventDate(fact), fact.source} \/ ~ValidText(fact.text) THEN {}
    ELSE {stored \in {[built EXCEPT !.type = Cell(fact.type, "fact")] :
                         built \in Build([fact EXCEPT !.event_date = EventDate(fact)])} :
             Validates(stored)}

\* _row_to_fact: a row without an id, a text, a date or a source, an example,
\* or one whose infer is no boolean is refused; a text to be stored verbatim is
\* checked, nothing else before the importer does.
FromRow(row) ==
    IF \/ "" \in {row.id, row.text, row.event_date, row.source}
       \/ row.id = "example"
       \/ row.infer \notin {"", "no", "yes"}
       \/ row.infer # "yes" /\ ~ValidText(row.text)
    THEN {}
    ELSE {[row EXCEPT !.type = Cell(@, "fact"), !.namespace = Namespace(@),
                      !.infer = Cell(@, "no")]}

\* csv_to_facts: blank rows and examples are passed over; one bad row ends the
\* conversion, and no file is written.
Sheet(rows, skipExamples) ==
    LET kept == {n \in DOMAIN rows : /\ \E cell \in DOMAIN rows[n] : rows[n][cell] # ""
                                     /\ ~(skipExamples /\ rows[n].id = "example")}
    IN  IF \E n \in kept : FromRow(rows[n]) = {} THEN {}
        ELSE {Arranged([n \in DOMAIN rows |-> CHOOSE fact \in FromRow(rows[n]) : TRUE],
                       kept, <)}

\* The MCP tool add_memory: `date` is its argument, the fact what metadata_json
\* holds.  An open item, a decision or what has a status is not validated at all
\* and keeps its type and source as they are; else the dates of the JSON are put
\* back, as they are, over what was built.
Added(fact, date) ==
    LET resolved == Cell(date, Cell(EventDate(fact), "day"))
        given == [fact EXCEPT !.event_date = resolved, !.source = Cell(@, "mcp")]
    IN  IF fact.type \in {"open_item", "decision"} \/ fact.status # ""
        THEN {[given EXCEPT !.event_date = Day(@), !.occurred_at = Day(resolved),
                            !.namespace = Namespace(@)]}
        ELSE IF ~ValidText(fact.text) THEN {}
        ELSE {[built EXCEPT !.event_date = Cell(fact.event_date, @),
                            !.occurred_at = Cell(fact.occurred_at, @)] :
                  built \in Build(given)}

=============================================================================
