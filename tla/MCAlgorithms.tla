---------------------------- MODULE MCAlgorithms ----------------------------
(* Small inputs of every kind, chosen so that their elements interact.       *)
EXTENDS Algorithms, TLC

MCToday == 2
MCNever == 9

\* Two titles with one slug, and one with the slug of the part before the first
\* heading; lines that differ in case, and in where they break or a heading ends.
Titled == {"Plan", "plan!", "Preamble"}
Bodies == {"x", "X", "y", "x y", "plan x"}
MCSlug == [n \in Titled |-> IF n = "Preamble" THEN "preamble" ELSE "plan"]
MCLowered == [n \in Titled \cup Bodies |->
                 CASE n = "Plan" -> "plan" [] n = "Preamble" -> "preamble"
                   [] n = "X" -> "x" [] OTHER -> n]
MCWords == [n \in Titled \cup Bodies |->
               CASE n = "x y" -> <<"x", "y">> [] n = "plan x" -> <<"plan", "x">>
                 [] OTHER -> <<MCLowered[n]>>]

\* Two words that make a keyword only on one line.
MCVentures == {"career", "ria", "migration"}
MCPathVentures == [f |-> {"career"}, g |-> {"ria"}]
MCTextVentures == [t \in {MCLowered[n] : n \in DOMAIN MCLowered} |->
                      CASE t = "x y" -> {"migration"} [] t = "plan" -> {"career"}
                        [] OTHER -> {}]

Line == [level : 1 .. 3, text : Titled] \cup [level : {0}, text : {"x", "y"}]

FileLine == [level : 1 .. 2, text : {"Plan", "plan!"}] \cup [level : {1}, text : {"Preamble"}]
                \cup [level : {0}, text : Bodies]

\* Three ways to lay out the same words, and a text of which only the body is
\* the same.
Texts == {<< <<"Plan">>, <<"x y">> >>, << <<"Plan">>, <<"X", "y">> >>,
          << <<>>, <<"plan x", "y">> >>, << <<"Preamble">>, <<"x y">> >>}

Dates == {NoDate, BadDate} \cup 1 .. 3

\* Every pair of dates, of items of the recruiter's and others, nested or not;
\* items that are closed or of no known status, and what is no open item.
OpenItem(due, revisit, ventures) ==
    [type |-> "open_item", due_at |-> due, revisit_at |-> revisit, ventures |-> ventures]
Record ==
    {[nested |-> OpenItem(d, r, {"career"}), flat |-> <<>>] : d, r \in Dates}
        \cup {[nested |-> [status |-> "in_progress"],
               flat |-> OpenItem(d, 1, {}) @@ [status |-> "done"]] : d \in Dates}
        \cup {[nested |-> OpenItem(1, 1, {"career"}), flat |-> [status |-> "dropped"]],
              [nested |-> [type |-> "decision"], flat |-> OpenItem(1, 1, {})]}

Meta == [event_date : {"", "day", "dayTime", "bad"},
         occurred_at : {"", "day", "bad"},
         source : {"", "cursor", "mcp", "other"},
         namespace : {"", "sensitive", "other"},
         type : {"", "fact", "open_item", "decision"},
         text : {"", "plain", "bare"},
         infer : {"no", "yes"},
         id : {"", "id", "example"},
         ventures : {"", "career", "other"},
         status : {"", "open"}]

\* Two rows that pass, one the importer refuses, an example, a row that ends
\* the conversion, and a blank one.
Row == {[event_date |-> date, occurred_at |-> "", source |-> "mcp", namespace |-> "",
         type |-> "", text |-> "plain", infer |-> infer, id |-> id, ventures |-> "",
         status |-> IF id = "id2" THEN "open" ELSE ""] :
            date \in {"day", "bad"}, infer \in {"", "bad"}, id \in {"id", "id2", "example"}}
       \cup {[key \in DOMAIN m |-> ""] : m \in {CHOOSE x \in Meta : TRUE}}

MCInputs ==
    [agenda |-> Record,
     contract |-> Meta,
     sheet |-> Row,
     markdown |-> Line,
     files |-> FileLine,
     dedup |-> [id : 1 .. 3, text : Texts],
     clusters |-> {e \in (1 .. 4) \X (1 .. 4) : e[1] # e[2]}]

MCLongest ==
    [agenda |-> 3, contract |-> 1, sheet |-> 3, markdown |-> 5, files |-> 5, dedup |-> 4, clusters |-> 4]

MCNodes == 1 .. 4
=============================================================================
