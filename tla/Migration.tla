------------------------------ MODULE Migration ------------------------------
(* src/migration: markdown files become facts (import_md.py), are tagged     *)
(* with ventures (categorizer.py) and dropped when the bank, or an earlier    *)
(* fact of the run, already has their external id or their text (dedup.py).   *)
(* A line is a heading of some level or body text, never blank: blank lines   *)
(* make no section and no word.  Titles and lines are members of small sets,  *)
(* of which Slug, Words and Lowered say what slugifying, splitting at white   *)
(* space with case folding, and lower-casing make of them.  The tables of the *)
(* tagging rules are constants; no keyword of theirs spans a line.            *)
EXTENDS Arrange, SequencesExt

CONSTANTS
    Slug,       \* title -> its slug, cut to 48 characters
    Words,      \* title or line -> its words, case-folded
    Lowered,    \* title or line -> the same in lower case, spaces and all
    MaxParts,   \* how many headings of an id fit its 240 characters
    ListLimit,  \* how many records a listing of the bank returns at most
    Ventures,       \* VALID_VENTURES
    PathVentures,   \* path -> the ventures _PATH_RULES give it
    TextVentures    \* lower-case title or line -> those of _KEYWORD_RULES

ASSUME ListLimitAssumption == ListLimit \in Nat

\* A heading has a level from 1 to 6, a body line level 0.
Heading(line) == line.level > 0

\* Mutant of Pop: a sibling is nested below its predecessor.
PopDeeper(stack, level) == SelectSeq(stack, LAMBDA h : h.level <= level)

\* while stack and stack[-1][0] >= level: stack.pop()
Pop(stack, level) ==
    LET keep == {n \in 0 .. Len(stack) : n = 0 \/ stack[n].level < level}
    IN  SubSeq(stack, 1, CHOOSE n \in keep : \A m \in keep : m <= n)

\* flush(): the lines gathered so far become a section, unless there are none.
Flush(st) ==
    IF st.body = <<>> THEN st
    ELSE [st EXCEPT !.body = <<>>,
                    !.sections = Append(@, [path |-> st.stack, body |-> st.body])]

\* Mutant of ReadLine: the body is flushed under the heading that follows it.
ReadLineLate(st, line) ==
    IF Heading(line)
    THEN Flush([st EXCEPT !.stack = Append(Pop(@, line.level), line)])
    ELSE [st EXCEPT !.body = Append(@, line.text)]

ReadLine(st, line) ==
    IF Heading(line)
    THEN [Flush(st) EXCEPT !.stack = Append(Pop(@, line.level), line)]
    ELSE [st EXCEPT !.body = Append(@, line.text)]

\* split_markdown_sections
Sections(lines) ==
    Flush(FoldLeft(ReadLine, [stack |-> <<>>, body |-> <<>>, sections |-> <<>>],
                   lines)).sections

Titles(path) == [n \in DOMAIN path |-> path[n].text]

\* external_id_for_section: the slugs of the path, cut to length.
IdOf(path) ==
    LET slugs == IF path = <<>> THEN <<"preamble">>
                 ELSE [n \in DOMAIN path |-> Slug[path[n].text]]
    IN  SubSeq(slugs, 1, IF Len(slugs) < MaxParts THEN Len(slugs) ELSE MaxParts)

\* section_to_fact, render_section_text: the path is part of the text.
FactOf(file, section) ==
    [id |-> <<file, IdOf(section.path)>>, doc |-> file, ventures |-> {},
     text |-> <<Titles(section.path), section.body>>]

\* parse_markdown_text
Facts(file, lines) ==
    LET sections == Sections(lines)
    IN  [n \in DOMAIN sections |-> FactOf(file, sections[n])]

\* infer_ventures: by fragments of the path and by keywords in the raw text.
Inferred(fact) ==
    PathVentures[fact.doc] \cup
        UNION {TextVentures[Lowered[t]] : t \in ToSet(fact.text[1]) \cup ToSet(fact.text[2])}

\* categorize_fact: tags that are there already are only weeded.
Categorized(fact) ==
    IF fact.ventures # {} THEN [fact EXCEPT !.ventures = @ \cap Ventures]
    ELSE [fact EXCEPT !.ventures = Inferred(fact) \cap Ventures]

\* collect_markdown_files, facts_from_file, categorize_facts
Parsed(files) ==
    LET facts == FlattenSeq([n \in DOMAIN files |-> Facts(files[n].path, files[n].lines)])
    IN  [n \in DOMAIN facts |-> Categorized(facts[n])]

-----------------------------------------------------------------------------
\* The words of lines, and of headings joined by " > ".
Spoken(lines) == FlattenSeq([n \in DOMAIN lines |-> Words[lines[n]]])

Breadcrumb(titles) ==
    FlattenSeq([n \in DOMAIN titles |-> (IF n = 1 THEN <<>> ELSE <<">">>) \o Words[titles[n]]])

\* Mutant of Normal: facts are compared by their body alone.
NormalBody(text) == Spoken(text[2])

\* normalize_text of what render_section_text makes: where the lines break, and
\* where the headings end and the body begins, is lost.
Normal(text) == Breadcrumb(text[1]) \o Spoken(text[2])

Index(facts) == [ids |-> {facts[n].id : n \in DOMAIN facts},
                 texts |-> {Normal(facts[n].text) : n \in DOMAIN facts}]

\* Mutant of Duplicate: only the id is compared.
DuplicateId(fact, index) == fact.id \in index.ids

\* _duplicate_reason
Duplicate(fact, index) ==
    fact.id \in index.ids \/ Normal(fact.text) \in index.texts

\* Mutant of Keep: the index is not extended with what is kept.
KeepUnindexed(st, fact) ==
    IF Duplicate(fact, st.index) THEN st
    ELSE [st EXCEPT !.kept = Append(@, fact)]

\* One turn of filter_new_facts, with _with_fact.
Keep(st, fact) ==
    IF Duplicate(fact, st.index) THEN st
    ELSE [kept |-> Append(st.kept, fact),
          index |-> [ids |-> st.index.ids \cup {fact.id},
                     texts |-> st.index.texts \cup {Normal(fact.text)}]]

\* filter_new_facts
NewFacts(facts, bank) ==
    FoldLeft(Keep, [kept |-> <<>>, index |-> Index(bank)], facts).kept

\* run_import_pipeline
Pipeline(files, bank) == NewFacts(Parsed(files), bank)

\* list_all_memories: all of the bank, or as many records of it as the limit lets
\* through.
Listings(bank) ==
    IF Len(bank) <= ListLimit THEN {bank}
    ELSE {Arranged(bank, S, <) : S \in {T \in SUBSET DOMAIN bank : Cardinality(T) = ListLimit}}

\* load_bank_records, when the command is told to look at the bank.
Loaded(bank, useBank) == IF useBank THEN Listings(bank) ELSE {<<>>}

\* The import command: it refuses to run live, and writes what was kept to the
\* file --output names.
Exported(files, bank, dryRun, useBank) ==
    {IF dryRun THEN Pipeline(files, loaded) ELSE <<>> : loaded \in Loaded(bank, useBank)}

=============================================================================
