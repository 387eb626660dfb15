----------------------------- MODULE StateStore -----------------------------
(***************************************************************************)
(* What the OAuth provider needs of its state file, stated without         *)
(* containers, file accesses or clients' requests: a store whose updates   *)
(* are atomic.  A handler announces what it will put and drop; an entry is *)
(* put at most once, and not before what the handler drops is gone; and    *)
(* what is put stays until it is dropped, expires, or everything is lost   *)
(* in the death of a container.                                            *)
(***************************************************************************)
EXTENDS Naturals, Sequences

CONSTANTS Entry, Client, MaxClients

VARIABLES
    clients,    \* the registry, oldest first
    entries,    \* codes and tokens
    unused,     \* entries nobody has announced yet
    due,        \* announced, and still to be put
    doomed,     \* announced, and still to be dropped
    expired     \* entries past their expires_at

vars == <<clients, entries, unused, due, doomed, expired>>

Init ==
    /\ clients = <<>>
    /\ entries = {}
    /\ unused = Entry
    /\ due = {} /\ doomed = {} /\ expired = {}

\* A handler will drop what is in the store, then put what never was; some
\* unused entries may be given up for good.
Announce(puts, drops) ==
    /\ due = {} /\ doomed = {}
    /\ puts \subseteq unused
    /\ drops \subseteq entries
    /\ due' = puts
    /\ doomed' = drops
    /\ unused' \in SUBSET (unused \ puts)
    /\ UNCHANGED <<clients, entries, expired>>

\* Every update prunes.
Update(changed) == entries' = changed \ expired /\ UNCHANGED <<unused, expired>>

Put(e) ==
    /\ e \in due /\ doomed = {}
    /\ due' = due \ {e}
    /\ Update(entries \cup {e})
    /\ UNCHANGED <<clients, doomed>>

Drop(e) ==
    /\ e \in doomed
    /\ doomed' = doomed \ {e}
    /\ Update(entries \ {e})
    /\ UNCHANGED <<clients, due>>

Tidy ==
    /\ Update(entries)
    /\ UNCHANGED <<clients, due, doomed>>

\* The oldest client makes room.
Capped(list) ==
    IF Len(list) <= MaxClients THEN list
    ELSE SubSeq(list, Len(list) - MaxClients + 1, Len(list))

Register(k) ==
    /\ clients' = Capped(Append(clients, k))
    /\ Update(entries)
    /\ UNCHANGED <<due, doomed>>

Expire(e) ==
    /\ expired' = expired \cup {e}
    /\ UNCHANGED <<clients, entries, unused, due, doomed>>

\* A container dies, at worst with everything.
Die ==
    /\ due' = {} /\ doomed' = {}
    /\ unused' \in SUBSET unused
    /\ UNCHANGED <<clients, entries>> \/ (clients' = <<>> /\ entries' = {})
    /\ UNCHANGED expired

Next ==
    \/ \E puts \in SUBSET unused, drops \in SUBSET entries : Announce(puts, drops)
    \/ \E e \in Entry : Put(e) \/ Drop(e) \/ Expire(e)
    \/ \E k \in Client : Register(k)
    \/ Tidy
    \/ Die

Spec == Init /\ [][Next]_vars
=============================================================================
