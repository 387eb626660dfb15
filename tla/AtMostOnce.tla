----------------------------- MODULE AtMostOnce -----------------------------
(***************************************************************************)
(* What the idempotent write path promises about the store, stated without *)
(* clients, lookups, caches, timeouts or polls: a request for an external  *)
(* id is issued only while no other request for the id is outstanding and  *)
(* no record carries it, except for ids on which that promise was lifted.  *)
(***************************************************************************)
CONSTANTS Ext, Req, KeyOf

VARIABLES
    outstanding,    \* requests issued and not yet settled
    stored,         \* records the store holds
    exempt          \* ids the promise no longer covers

vars == <<outstanding, stored, exempt>>

Same(r) == {s \in Req : KeyOf[s] = KeyOf[r]}

Init ==
    /\ outstanding = {}
    /\ stored = {}
    /\ exempt = {}

Issue(r) ==
    /\ r \notin outstanding \cup stored
    /\ KeyOf[r] \in exempt \/ Same(r) \cap (outstanding \cup stored) = {}
    /\ outstanding' = outstanding \cup {r}
    /\ UNCHANGED <<stored, exempt>>

\* The store settles a request: it keeps a record, or it does not.
Settle(r) ==
    /\ r \in outstanding
    /\ outstanding' = outstanding \ {r}
    /\ stored' \in {stored, stored \cup {r}}
    /\ UNCHANGED exempt

Remove(r) ==
    /\ r \in stored
    /\ stored' = stored \ {r}
    /\ UNCHANGED <<outstanding, exempt>>

Lift(e) ==
    /\ exempt' = exempt \cup {e}
    /\ UNCHANGED <<outstanding, stored>>

Next ==
    \/ \E r \in Req : Issue(r) \/ Settle(r) \/ Remove(r)
    \/ \E e \in Ext : Lift(e)

Spec == Init /\ [][Next]_vars
=============================================================================
