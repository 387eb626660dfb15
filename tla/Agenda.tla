------------------------------- MODULE Agenda -------------------------------
(* scripts/memory.py: agenda and recruiter_board over the records the bank   *)
(* lists.  A record carries its metadata nested, flattened into the record,  *)
(* or both; a key may be absent.  A date field is a day, NoDate for one that *)
(* is absent, or BadDate for text that is no date (the importer passes such  *)
(* a field through).                                                         *)
EXTENDS Arrange

CONSTANTS Today, Never

\* Days from 1 on; Never stands for 9999-12-31.
ASSUME AgendaAssumption == Today \in Nat \ {0} /\ Never \in Nat /\ Today < Never

NoDate == 0
BadDate == Never + 1

\* meta.get(key, default)
Get(meta, key, default) == IF key \in DOMAIN meta THEN meta[key] ELSE default

\* _record_metadata: a flattened key counts if it is not nested.
Metadata(rec) ==
    [key \in DOMAIN rec.nested \cup DOMAIN rec.flat |->
        Get(rec.nested, key, Get(rec.flat, key, ""))]

\* _as_open_item; a record's id is its place in the listing.
AsOpenItem(listing, n) ==
    LET meta == Metadata(listing[n])
    IN  [id |-> n, due |-> Get(meta, "due_at", NoDate),
         revisit |-> Get(meta, "revisit_at", NoDate),
         ventures |-> Get(meta, "ventures", {})]

Closed == {"done", "dropped"}

IsOpenItem(rec) == Get(Metadata(rec), "type", "") = "open_item"

\* open_items without closed ones, and recruiter_board's include_closed with.
Shown(rec, includeClosed) ==
    /\ IsOpenItem(rec)
    /\ includeClosed \/ Get(Metadata(rec), "status", "open") \notin Closed

OpenItems(listing, includeClosed) ==
    Arranged([n \in DOMAIN listing |-> AsOpenItem(listing, n)],
             {n \in DOMAIN listing : Shown(listing[n], includeClosed)}, <)

-----------------------------------------------------------------------------
\* _as_date
Dated(value) == value \notin {NoDate, BadDate}

\* _date_sort_key: what is no date sorts last.
SortKey(value) == IF Dated(value) THEN value ELSE Never

\* `due_at or revisit_at`: any text counts, a date or not.
Either(item) == IF item.due # NoDate THEN item.due ELSE item.revisit

\* Mutant of BucketOf: a date in the future hides an earlier revisit.
BucketByDue(item) ==
    CASE Dated(item.due) /\ item.due < Today -> "overdue"
      [] Dated(item.due) /\ item.due = Today -> "due_today"
      [] Dated(item.due) /\ item.due > Today -> "upcoming"
      [] Dated(item.revisit) /\ item.revisit <= Today -> "revisit_due"
      [] Dated(item.revisit) /\ item.revisit > Today -> "upcoming"
      [] OTHER -> "undated"

Due(item) == Dated(item.due) /\ item.due <= Today
RevisitDue(item) == Dated(item.revisit) /\ item.revisit <= Today

BucketOf(item) ==
    IF Due(item)
    THEN IF item.due < Today THEN "overdue" ELSE "due_today"
    ELSE IF RevisitDue(item) THEN "revisit_due"
    ELSE IF Dated(item.due) \/ Dated(item.revisit) THEN "upcoming"
    ELSE "undated"

Buckets == {"overdue", "due_today", "revisit_due", "upcoming", "undated"}

\* Undated items stay as they were listed.
Key(bucket, item) ==
    CASE bucket \in {"overdue", "due_today"} -> SortKey(item.due)
      [] bucket = "revisit_due" -> SortKey(item.revisit)
      [] bucket = "undated" -> Never
      [] OTHER -> SortKey(Either(item))

\* list.sort(key=...), which keeps equal keys in their order, of the items at S.
Sorted(items, S, bucket) ==
    LET before(i, j) == LET a == Key(bucket, items[i]) b == Key(bucket, items[j])
                        IN  a < b \/ (a = b /\ i < j)
    IN  Arranged(items, S, before)

\* One list per bucket.
Bucket(items, bucket) ==
    Sorted(items, {n \in DOMAIN items : BucketOf(items[n]) = bucket}, bucket)

\* recruiter_board
Board(items) ==
    Sorted(items, {n \in DOMAIN items : "career" \in items[n].ventures}, "board")

=============================================================================
