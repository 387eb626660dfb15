---------------------------- MODULE OAuthProvider ----------------------------
(***************************************************************************)
(* The OAuth provider of the remote MCP endpoint and its state file         *)
(* (src/src/mcp_proxy/oauth.py).  OAuthStateStore persists everything in    *)
(* one JSON file and turns each put or delete into: read the whole file,    *)
(* change it, write the whole file.  SingleUserOAuthProvider builds its     *)
(* handlers from such operations and keeps pending consents in memory.      *)
(*                                                                         *)
(* Within a container the handlers are coroutines that never suspend, so    *)
(* one runs at a time; between containers, and between a container and its  *)
(* death, every file access is a step of its own.                           *)
(***************************************************************************)
EXTENDS Naturals, FiniteSets, Sequences, SequencesExt

CONSTANTS
    Container,  \* MCP proxy containers that share the /data volume
    MaxUp,      \* most containers that run at once (2 while redeploying)
    Client,     \* connector clients that register
    MaxClients, \* DEFAULT_MAX_CLIENTS
    Txn,        \* consent transactions; a granted one yields one code
    ClientOf,   \* the client a transaction belongs to
    Pair,       \* access/refresh token pairs that may be minted
    MayCrash    \* may a container be killed?

ASSUME OAuthAssumption ==
    /\ MaxUp \in Nat \ {0}
    /\ MaxClients \in Nat \ {0}
    /\ ClientOf \in [Txn -> Client]
    /\ MayCrash \in BOOLEAN

\* Keys of the three pruned sections: the hash of a code, or of one of the two
\* tokens of a pair.
Entry == [kind : {"code"}, id : Txn]
             \cup [kind : {"access", "refresh"}, id : Pair]

Code(t) == [kind |-> "code", id |-> t]
Access(p) == [kind |-> "access", id |-> p]
Refresh(p) == [kind |-> "refresh", id |-> p]

VARIABLES
    file,       \* the state file: readable or not, clients in order, entries
    up,         \* running containers
    pending,    \* pending[c]: consents c waits for, in c's memory
    todo,       \* todo[c]: store operations left in c's current handler
    stage,      \* stage[c]: "idle", or how far the operation at hand is
    image,      \* image[c]: the file as c last read it
    answer,     \* answer[c]: entries the current handler will hand out
    lapsed,     \* entries and transactions past their expires_at
    \* What happened, for the properties.
    opened,     \* transactions authorize has created
    minted,     \* minted[p]: what p was minted from, and for which client
    delivered,  \* entries whose plaintext reached the client
    retired,    \* entries a handler set out to delete
    registered, \* clients in the order their registration was written
    torn        \* did a container die halfway through a write?

fileVars == <<file, registered, torn>>
containerVars == <<up, pending, todo, stage, image, answer>>
vars == <<fileVars, containerVars, lapsed, opened, minted, delivered, retired>>

Nothing == [ok |-> FALSE, clients |-> <<>>, entries |-> {}]

Unminted == [from |-> Nothing]

Operation == [op : {"put", "delete"}, entry : Entry]
                \cup [op : {"register"}, client : Client]
                \cup {[op |-> "rewrite"]}

FileType == [ok : BOOLEAN, clients : Seq(Client), entries : SUBSET Entry]

TypeOK ==
    /\ file \in FileType
    /\ Len(file.clients) <= MaxClients
    /\ up \subseteq Container
    /\ pending \in [Container -> SUBSET Txn]
    /\ \A c \in Container :
          /\ todo[c] \in Seq(Operation)
          /\ stage[c] \in {"idle", "read", "truncate", "write"}
          /\ (todo[c] = <<>>) = (stage[c] = "idle")
          /\ image[c] \in FileType
          /\ answer[c] \subseteq Entry
    /\ lapsed \subseteq Entry \cup Txn
    /\ opened \subseteq Txn
    /\ minted \in [Pair -> [from : Entry, client : Client] \cup {Unminted}]
    /\ delivered \subseteq Entry
    /\ retired \subseteq Entry
    /\ registered \in Seq(Client)
    /\ torn \in BOOLEAN

Init ==
    /\ file = Nothing
    /\ up = {}
    /\ pending = [c \in Container |-> {}]
    /\ todo = [c \in Container |-> <<>>]
    /\ stage = [c \in Container |-> "idle"]
    /\ image = [c \in Container |-> Nothing]
    /\ answer = [c \in Container |-> {}]
    /\ lapsed = {}
    /\ opened = {}
    /\ minted = [p \in Pair |-> Unminted]
    /\ delivered = {}
    /\ retired = {}
    /\ registered = <<>>
    /\ torn = FALSE

-----------------------------------------------------------------------------
(* OAuthStateStore.                                                        *)

\* _read: an unreadable file counts as an empty one.
Contents == IF file.ok THEN file ELSE Nothing

\* Mutant of Newest: the newest clients go first.
Oldest(clients) ==
    IF Len(clients) <= MaxClients THEN clients ELSE SubSeq(clients, 1, MaxClients)

\* _write drops what has expired, and the oldest clients above the cap.
Newest(clients) ==
    IF Len(clients) <= MaxClients THEN clients
    ELSE SubSeq(clients, Len(clients) - MaxClients + 1, Len(clients))

Written(state) ==
    [ok |-> TRUE, clients |-> Newest(state.clients),
     entries |-> state.entries \ lapsed]

\* Mutant of Applied: a put replaces its section.
Replaced(o, state) ==
    CASE o.op = "put" -> [state EXCEPT !.entries = {o.entry}]
      [] o.op = "delete" -> [state EXCEPT !.entries = @ \ {o.entry}]
      [] o.op = "rewrite" -> state
      [] o.op = "register" -> [state EXCEPT !.clients = Append(@, o.client)]

Applied(o, state) ==
    CASE o.op = "put" -> [state EXCEPT !.entries = @ \cup {o.entry}]
      [] o.op = "delete" -> [state EXCEPT !.entries = @ \ {o.entry}]
      [] o.op = "rewrite" -> state
      [] o.op = "register" -> [state EXCEPT !.clients = Append(@, o.client)]

Put(e) == [op |-> "put", entry |-> e]
Delete(e) == [op |-> "delete", entry |-> e]
\* A delete of a key that its section does not hold: the file is rewritten.
Rewrite == [op |-> "rewrite"]

ReadFile(c) ==
    /\ stage[c] = "read"
    /\ image' = [image EXCEPT ![c] = Contents]
    /\ stage' = [stage EXCEPT ![c] = "truncate"]
    /\ UNCHANGED <<fileVars, up, pending, todo, answer, lapsed, opened,
                   minted, delivered, retired>>

\* write_text opens for writing, which empties the file ...
TruncateFile(c) ==
    /\ stage[c] = "truncate"
    /\ file' = Nothing
    /\ stage' = [stage EXCEPT ![c] = "write"]
    /\ UNCHANGED <<registered, torn, up, pending, todo, image, answer, lapsed,
                   opened, minted, delivered, retired>>

\* ... and then writes.  After the last operation of a handler its response
\* goes out.
WriteFile(c) ==
    /\ stage[c] = "write"
    /\ file' = Written(Applied(Head(todo[c]), image[c]))
    /\ registered' = IF Head(todo[c]).op = "register"
                     THEN Append(registered, Head(todo[c]).client)
                     ELSE registered
    /\ todo' = [todo EXCEPT ![c] = Tail(@)]
    /\ image' = [image EXCEPT ![c] = Nothing]
    /\ IF Len(todo[c]) = 1
       THEN /\ stage' = [stage EXCEPT ![c] = "idle"]
            /\ delivered' = delivered \cup answer[c]
            /\ answer' = [answer EXCEPT ![c] = {}]
       ELSE /\ stage' = [stage EXCEPT ![c] = "read"]
            /\ UNCHANGED <<delivered, answer>>
    /\ UNCHANGED <<torn, up, pending, lapsed, opened, minted, retired>>

-----------------------------------------------------------------------------
(* SingleUserOAuthProvider.                                                *)

Free(c) == c \in up /\ stage[c] = "idle"

\* A handler's first step: it will run these operations, hand out these
\* entries and retire those.
Handle(c, operations, handout, retire) ==
    /\ todo' = [todo EXCEPT ![c] = operations]
    /\ stage' = [stage EXCEPT ![c] = "read"]
    /\ answer' = [answer EXCEPT ![c] = handout]
    /\ retired' = retired \cup retire
    /\ UNCHANGED <<fileVars, up, image, lapsed, delivered>>

\* Dynamic client registration; the SDK gives every client a new id.
RegisterClient(c, k) ==
    /\ Free(c)
    /\ k \notin ToSet(registered)
    /\ \A d \in Container : \A i \in DOMAIN todo[d] :
          todo[d][i] # [op |-> "register", client |-> k]
    /\ Handle(c, <<[op |-> "register", client |-> k]>>, {}, {})
    /\ UNCHANGED <<pending, opened, minted>>

\* get_client, which the SDK's handlers call before the provider's.
Known(k) == k \in ToSet(Contents.clients)

Pruned(c) == pending[c] \ lapsed

Authorize(c, t) ==
    /\ Free(c)
    /\ Known(ClientOf[t])
    /\ t \notin opened
    /\ opened' = opened \cup {t}
    /\ pending' = [pending EXCEPT ![c] = Pruned(c) \cup {t}]
    /\ UNCHANGED <<fileVars, up, todo, stage, image, answer, lapsed, minted,
                   delivered, retired>>

\* Mutant of Consent: the transaction stays and may be consented to again.
ConsentAgain(c, t) ==
    /\ Free(c)
    /\ t \in Pruned(c)
    /\ pending' = [pending EXCEPT ![c] = Pruned(c)]
    /\ Handle(c, <<Put(Code(t))>>, {Code(t)}, {})
    /\ UNCHANGED <<opened, minted>>

\* complete_consent with the right secret: the transaction is spent before
\* its code is stored.
Consent(c, t) ==
    /\ Free(c)
    /\ t \in Pruned(c)
    /\ pending' = [pending EXCEPT ![c] = Pruned(c) \ {t}]
    /\ Handle(c, <<Put(Code(t))>>, {Code(t)}, {})
    /\ UNCHANGED <<opened, minted>>

\* Every other visit to /consent (a page view, an unknown or expired id, a
\* wrong secret) only prunes.
VisitConsent(c) ==
    /\ Free(c)
    /\ pending' = [pending EXCEPT ![c] = Pruned(c)]
    /\ UNCHANGED <<fileVars, up, todo, stage, image, answer, lapsed, opened,
                   minted, delivered, retired>>

\* load_authorization_code or load_refresh_token finds e for its client; the
\* SDK's token handler checks expires_at.
Presentable(e, k) ==
    /\ e \in delivered
    /\ e \in Contents.entries
    /\ e \notin lapsed
    /\ Known(k)

\* Mutant of Issue: the spent entry is deleted last.
IssueThenDelete(c, spent, k, p) ==
    /\ Free(c)
    /\ Presentable(spent, k)
    /\ minted[p] = Unminted
    /\ minted' = [minted EXCEPT ![p] = [from |-> spent, client |-> k]]
    /\ Handle(c, <<Put(Access(p)), Put(Refresh(p)), Delete(spent)>>,
              {Access(p), Refresh(p)}, {spent})
    /\ UNCHANGED <<pending, opened>>

\* _issue_tokens, after the entry the client presented has been deleted.
Issue(c, spent, k, p) ==
    /\ Free(c)
    /\ Presentable(spent, k)
    /\ minted[p] = Unminted
    /\ minted' = [minted EXCEPT ![p] = [from |-> spent, client |-> k]]
    /\ Handle(c, <<Delete(spent), Put(Access(p)), Put(Refresh(p))>>,
              {Access(p), Refresh(p)}, {spent})
    /\ UNCHANGED <<pending, opened>>

ExchangeCode(c, t, p) == Issue(c, Code(t), ClientOf[t], p)

\* Rotation: the new pair is the old one's client's.
ExchangeRefresh(c, q, p) ==
    /\ minted[q] # Unminted
    /\ Issue(c, Refresh(q), minted[q].client, p)

\* load_access_token deletes an expired entry; otherwise it changes nothing.
LoadExpiredAccess(c, p) ==
    /\ Free(c)
    /\ Access(p) \in Contents.entries \cap lapsed
    /\ Handle(c, <<Delete(Access(p))>>, {}, {})
    /\ UNCHANGED <<pending, opened, minted>>

\* revoke_token tries the token's hash in the access section, then in the
\* refresh section; the other token of the pair stays.
RevokeAccess(c, p) ==
    /\ Free(c)
    /\ Access(p) \in delivered \cap Contents.entries
    /\ Handle(c, <<Delete(Access(p)), Rewrite>>, {}, {Access(p)})
    /\ UNCHANGED <<pending, opened, minted>>

RevokeRefresh(c, p) ==
    /\ Free(c)
    /\ Refresh(p) \in delivered \cap Contents.entries
    /\ Handle(c, <<Rewrite, Delete(Refresh(p))>>, {}, {Refresh(p)})
    /\ UNCHANGED <<pending, opened, minted>>

-----------------------------------------------------------------------------
(* Containers and the clock.                                               *)

\* MaxUp = 1: a container is replaced after it stopped; MaxUp = 2: the new one
\* may start first.
StartContainer(c) ==
    /\ c \notin up
    /\ Cardinality(up) < MaxUp
    /\ up' = up \cup {c}
    /\ UNCHANGED <<fileVars, pending, todo, stage, image, answer, lapsed,
                   opened, minted, delivered, retired>>

\* Memory is lost; so is the file, if it was just being rewritten.
Crash(c) ==
    /\ MayCrash
    /\ c \in up
    /\ up' = up \ {c}
    /\ pending' = [pending EXCEPT ![c] = {}]
    /\ todo' = [todo EXCEPT ![c] = <<>>]
    /\ stage' = [stage EXCEPT ![c] = "idle"]
    /\ image' = [image EXCEPT ![c] = Nothing]
    /\ answer' = [answer EXCEPT ![c] = {}]
    /\ torn' = (torn \/ stage[c] = "write")
    /\ UNCHANGED <<file, registered, lapsed, opened, minted, delivered,
                   retired>>

\* An expires_at passes.
Lapse(x) ==
    /\ x \in (opened \cup delivered) \ lapsed
    /\ lapsed' = lapsed \cup {x}
    /\ UNCHANGED <<fileVars, containerVars, opened, minted, delivered, retired>>

-----------------------------------------------------------------------------
StoreStep(c) == ReadFile(c) \/ TruncateFile(c) \/ WriteFile(c)

Handler(c) ==
    \/ \E k \in Client : RegisterClient(c, k)
    \/ \E t \in Txn : Authorize(c, t) \/ Consent(c, t)
    \/ VisitConsent(c)
    \/ \E t \in Txn, p \in Pair : ExchangeCode(c, t, p)
    \/ \E q, p \in Pair : ExchangeRefresh(c, q, p)
    \/ \E p \in Pair :
          LoadExpiredAccess(c, p) \/ RevokeAccess(c, p) \/ RevokeRefresh(c, p)

Next ==
    \/ \E c \in Container :
          StoreStep(c) \/ Handler(c) \/ StartContainer(c) \/ Crash(c)
    \/ \E x \in Txn \cup Entry : Lapse(x)

Spec == Init /\ [][Next]_vars

-----------------------------------------------------------------------------
(* Properties.                                                             *)

\* Nobody is between opening the file for writing and writing it.
Quiescent == \A c \in Container : stage[c] # "write"

\* What the client was given stays in the state file until it expires or a
\* handler spends or revokes it, through any sequence of handlers, restarts
\* and crashes, except a crash halfway through a write.
GrantsDurable ==
    (Quiescent /\ ~torn) => delivered \ (lapsed \cup retired) \subseteq file.entries

\* One exchange per code and per refresh token ("the code dies before the
\* tokens are minted"): no two pairs that are stored or were given to the
\* client come from the same one, wherever a crash cuts an exchange short and
\* the client tries again.
Live(p) == Access(p) \in delivered \cup file.entries

ExchangedOnce ==
    \A p, q \in Pair :
        (Live(p) /\ Live(q) /\ minted[p].from = minted[q].from) => p = q

\* The registry holds the newest clients, in order, up to the cap: neither an
\* eviction nor another handler's write ever costs a newer client its place.
NewestClients ==
    (Quiescent /\ ~torn) =>
        /\ IsSuffix(file.clients, registered)
        /\ Len(file.clients) = Min({MaxClients, Len(registered)})

\* What the store holds: while the file is empty, what its writer has read.
Held ==
    IF Quiescent THEN Contents
    ELSE image[CHOOSE c \in Container : stage[c] = "write"]

\* Codes not issued yet, and the tokens of pairs not minted yet.
Unmade ==
    {Code(t) : t \in {u \in Txn : u \notin opened \/ \E c \in Container : u \in pending[c]}}
        \cup UNION {{Access(p), Refresh(p)} : p \in {q \in Pair : minted[q] = Unminted}}

Planned(o) == \E c \in Container : \E i \in DOMAIN todo[c] : todo[c][i] = o

\* The provider implements StateStore: although each update reads and writes the
\* whole file in several steps, and several updates make a handler, none is lost
\* to another, nothing once put ever comes back, and a handler puts nothing new
\* before what it spends is gone, through any restarts (oauth.py:83-116).
Store == INSTANCE StateStore WITH
             clients <- Held.clients,
             entries <- Held.entries,
             unused <- Unmade,
             due <- {e \in Entry : Planned(Put(e))},
             doomed <- {e \in Entry : Planned(Delete(e))},
             expired <- lapsed \cap Entry

ImplementsStateStore == Store!Spec

\* "Tokens survive container redeploys" (ADR 035): GrantsDurable without its
\* proviso for a container stopped between emptying the file and filling it.
TokensSurvive == Quiescent => delivered \ (lapsed \cup retired) \subseteq file.entries
=============================================================================
