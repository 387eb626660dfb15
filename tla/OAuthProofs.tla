----------------------------- MODULE OAuthProofs -----------------------------
(***************************************************************************)
(* Theorems about OAuthProvider, for any clients, transactions and token   *)
(* pairs.  Type correctness holds for any number of containers at once;    *)
(* the state file has no lock, so the others are about one at a time.      *)
(***************************************************************************)
EXTENDS OAuthProvider, FiniteSetTheorems, SequenceTheorems, TLAPS

Typed ==
    /\ file \in FileType
    /\ Len(file.clients) <= MaxClients
    /\ file.ok \/ file = Nothing
    /\ up \subseteq Container /\ IsFiniteSet(up)
    /\ pending \in [Container -> SUBSET Txn]
    /\ todo \in [Container -> Seq(Operation)]
    /\ stage \in [Container -> {"idle", "read", "truncate", "write"}]
    /\ image \in [Container -> FileType]
    /\ answer \in [Container -> SUBSET Entry]
    /\ lapsed \subseteq Entry \cup Txn
    /\ opened \subseteq Txn
    /\ minted \in [Pair -> [from : Entry, client : Client] \cup {Unminted}]
    /\ delivered \subseteq Entry
    /\ retired \subseteq Entry
    /\ registered \in Seq(Client)
    /\ torn \in BOOLEAN
    /\ \A c \in Container : (todo[c] = <<>>) = (stage[c] = "idle")

LEMMA NothingTyped == Nothing \in FileType /\ Len(Nothing.clients) = 0
BY DEF Nothing, FileType

LEMMA EntriesTyped ==
    /\ \A t \in Txn : Code(t) \in Entry
    /\ \A p \in Pair : Access(p) \in Entry /\ Refresh(p) \in Entry
BY DEF Code, Access, Refresh, Entry

LEMMA OperationsTyped ==
    /\ \A e \in Entry : Put(e) \in Operation /\ Delete(e) \in Operation
    /\ Rewrite \in Operation
    /\ \A k \in Client : [op |-> "register", client |-> k] \in Operation
BY DEF Put, Delete, Rewrite, Operation

\* What an operation does to a file, by its kind.
LEMMA AppliedIs ==
    ASSUME NEW o \in Operation, NEW f \in FileType
    PROVE  /\ Applied(o, f) \in FileType
           /\ o.op = "put" => /\ o.entry \in Entry
                              /\ Applied(o, f).entries = f.entries \cup {o.entry}
                              /\ Applied(o, f).clients = f.clients
           /\ o.op = "delete" => /\ o.entry \in Entry
                                 /\ Applied(o, f).entries = f.entries \ {o.entry}
                                 /\ Applied(o, f).clients = f.clients
           /\ o.op = "rewrite" => Applied(o, f) = f
           /\ o.op = "register" => /\ o.client \in Client
                                   /\ Applied(o, f).entries = f.entries
                                   /\ Applied(o, f).clients = Append(f.clients, o.client)
           /\ o.op \in {"put", "delete", "rewrite", "register"}
<1>1. CASE o.op = "put"
  <2>1. o.entry \in Entry
    BY <1>1 DEF Operation
  <2>2. Applied(o, f) = [f EXCEPT !.entries = f.entries \cup {o.entry}]
    BY <1>1 DEF Applied
  <2>3. QED
    BY <1>1, <2>1, <2>2 DEF FileType
<1>2. CASE o.op = "delete"
  <2>1. o.entry \in Entry
    BY <1>2 DEF Operation
  <2>2. Applied(o, f) = [f EXCEPT !.entries = f.entries \ {o.entry}]
    BY <1>2 DEF Applied
  <2>3. QED
    BY <1>2, <2>1, <2>2 DEF FileType
<1>3. CASE o.op = "rewrite"
  BY <1>3 DEF Applied
<1>4. CASE o.op = "register"
  <2>1. o.client \in Client
    BY <1>4 DEF Operation
  <2>2. Applied(o, f) = [f EXCEPT !.clients = Append(f.clients, o.client)]
    BY <1>4 DEF Applied
  <2>3. f.clients \in Seq(Client) /\ f.ok \in BOOLEAN /\ f.entries \in SUBSET Entry
    BY DEF FileType
  <2>4. Append(f.clients, o.client) \in Seq(Client)
    BY <2>1, <2>3
  <2>5. [f EXCEPT !.clients = Append(f.clients, o.client)]
           = [ok |-> f.ok, clients |-> Append(f.clients, o.client), entries |-> f.entries]
    <3>1. ASSUME NEW s
          PROVE  [f EXCEPT !.clients = s] = [ok |-> f.ok, clients |-> s, entries |-> f.entries]
      BY DEF FileType
    <3>2. QED
      BY <3>1
  <2>6. Applied(o, f)
           = [ok |-> f.ok, clients |-> Append(f.clients, o.client), entries |-> f.entries]
    BY <2>2, <2>5
  <2>7. QED
    BY <1>4, <2>1, <2>3, <2>4, <2>6 DEF FileType
<1>5. o.op \in {"put", "delete", "rewrite", "register"}
  BY DEF Operation
<1>6. QED
  BY <1>1, <1>2, <1>3, <1>4, <1>5

LEMMA NewestIs ==
    ASSUME NEW s \in Seq(Client)
    PROVE  /\ Newest(s) \in Seq(Client)
           /\ Len(Newest(s)) <= MaxClients /\ Len(Newest(s)) <= Len(s)
           /\ Len(s) <= MaxClients => Len(Newest(s)) = Len(s)
           /\ Len(s) > MaxClients => Len(Newest(s)) = MaxClients
           /\ \A i \in 1 .. Len(Newest(s)) : Newest(s)[i] = s[Len(s) - Len(Newest(s)) + i]
<1>1. MaxClients \in Nat /\ MaxClients > 0
  BY OAuthAssumption
<1>2. CASE Len(s) <= MaxClients
  BY <1>1, <1>2 DEF Newest
<1>3. CASE Len(s) > MaxClients
  <2> DEFINE m == Len(s) - MaxClients + 1
  <2>1. Newest(s) = SubSeq(s, m, Len(s)) /\ m \in 1 .. Len(s)
    BY <1>1, <1>3 DEF Newest
  <2>2. /\ SubSeq(s, m, Len(s)) \in Seq(Client)
        /\ Len(SubSeq(s, m, Len(s))) = Len(s) - m + 1
        /\ \A i \in 1 .. Len(s) - m + 1 : SubSeq(s, m, Len(s))[i] = s[m + i - 1]
    BY <2>1, SubSeqProperties
  <2>3. Len(s) - m + 1 = MaxClients
    BY <1>1, <1>3
  <2>4. \A i \in 1 .. MaxClients : m + i - 1 = Len(s) - MaxClients + i
    BY <1>1, <1>3
  <2> HIDE DEF m
  <2>5. QED
    BY <1>1, <1>3, <2>1, <2>2, <2>3, <2>4
<1>4. QED
  BY <1>1, <1>2, <1>3

LEMMA WrittenTyped ==
    ASSUME Typed, NEW f \in FileType
    PROVE  /\ Written(f) \in FileType
           /\ Len(Written(f).clients) <= MaxClients
           /\ Written(f).ok
           /\ Written(f).entries = f.entries \ lapsed
           /\ Written(f).clients = Newest(f.clients)
<1>1. f.clients \in Seq(Client) /\ f.entries \subseteq Entry
  BY DEF FileType
<1>2. Newest(f.clients) \in Seq(Client) /\ Len(Newest(f.clients)) <= MaxClients
  BY <1>1, NewestIs
<1>3. QED
  BY <1>1, <1>2 DEF Written, FileType

(***************************************************************************)
(* What a handler sets out to do: delete only what it retires or what has  *)
(* lapsed, and hand out only what it puts.                                 *)
(***************************************************************************)
Sensible(operations, handout, retire) ==
    /\ operations \in Seq(Operation) /\ operations # <<>>
    /\ handout \subseteq Entry /\ retire \subseteq Entry
    /\ \A i \in DOMAIN operations :
          operations[i].op = "delete" => operations[i].entry \in retire \cup lapsed
    /\ \A a \in handout : \E i \in DOMAIN operations : operations[i] = Put(a)

\* The steps of a handler that touch no operation.
Waits(c) == \/ \E t \in Txn : Authorize(c, t)
            \/ VisitConsent(c)

Handles(c) == \E operations, handout, retire :
                 /\ Handle(c, operations, handout, retire)
                 /\ Sensible(operations, handout, retire)

LEMMA One == ASSUME NEW o \in Operation
             PROVE  /\ <<o>> \in Seq(Operation) /\ <<o>> # <<>>
                    /\ DOMAIN <<o>> = {1} /\ <<o>>[1] = o
OBVIOUS

LEMMA Two == ASSUME NEW o \in Operation, NEW q \in Operation
             PROVE  /\ <<o, q>> \in Seq(Operation) /\ <<o, q>> # <<>>
                    /\ DOMAIN <<o, q>> = {1, 2} /\ <<o, q>>[1] = o /\ <<o, q>>[2] = q
OBVIOUS

LEMMA Three == ASSUME NEW o \in Operation, NEW q \in Operation, NEW u \in Operation
               PROVE  /\ <<o, q, u>> \in Seq(Operation) /\ <<o, q, u>> # <<>>
                      /\ DOMAIN <<o, q, u>> = {1, 2, 3}
                      /\ <<o, q, u>>[1] = o /\ <<o, q, u>>[2] = q /\ <<o, q, u>>[3] = u
OBVIOUS

LEMMA IssueIs ==
    ASSUME Typed, NEW c, NEW e \in Entry, NEW k, NEW p \in Pair, Issue(c, e, k, p)
    PROVE  /\ Handle(c, <<Delete(e), Put(Access(p)), Put(Refresh(p))>>,
                     {Access(p), Refresh(p)}, {e})
           /\ Sensible(<<Delete(e), Put(Access(p)), Put(Refresh(p))>>,
                       {Access(p), Refresh(p)}, {e})
<1> DEFINE ops == <<Delete(e), Put(Access(p)), Put(Refresh(p))>>
<1>1. /\ Delete(e) \in Operation /\ Put(Access(p)) \in Operation
      /\ Put(Refresh(p)) \in Operation /\ Access(p) \in Entry /\ Refresh(p) \in Entry
  BY EntriesTyped, OperationsTyped
<1>2. /\ ops \in Seq(Operation) /\ ops # <<>> /\ DOMAIN ops = {1, 2, 3}
      /\ ops[1] = Delete(e) /\ ops[2] = Put(Access(p)) /\ ops[3] = Put(Refresh(p))
  BY <1>1, Three
<1>3. \A i \in DOMAIN ops : ops[i].op = "delete" => ops[i].entry = e
  BY <1>2 DEF Put, Delete
<1>4. Handle(c, ops, {Access(p), Refresh(p)}, {e})
  BY DEF Issue
<1> HIDE DEF ops
<1>5. Sensible(ops, {Access(p), Refresh(p)}, {e})
  BY <1>1, <1>2, <1>3 DEF Sensible
<1>6. QED
  BY <1>4, <1>5 DEF ops

LEMMA HandlerIs ==
    ASSUME Typed, NEW c \in Container, Handler(c)
    PROVE  Free(c) /\ (Waits(c) \/ Handles(c))
<1>1. ASSUME NEW k \in Client, RegisterClient(c, k) PROVE Free(c) /\ Handles(c)
  <2>1. Sensible(<<[op |-> "register", client |-> k]>>, {}, {})
    BY OperationsTyped, One DEF Sensible
  <2>2. QED
    BY <1>1, <2>1 DEF RegisterClient, Handles
<1>2. ASSUME NEW t \in Txn, Consent(c, t) PROVE Free(c) /\ Handles(c)
  <2>1. Put(Code(t)) \in Operation /\ Code(t) \in Entry /\ Put(Code(t)).op = "put"
    BY EntriesTyped, OperationsTyped DEF Put
  <2>2. Sensible(<<Put(Code(t))>>, {Code(t)}, {})
    BY <2>1, One DEF Sensible
  <2>3. QED
    BY <1>2, <2>2 DEF Consent, Handles
<1>3. ASSUME NEW t \in Txn, NEW p \in Pair, ExchangeCode(c, t, p)
      PROVE  Free(c) /\ Handles(c)
  BY <1>3, IssueIs, EntriesTyped DEF ExchangeCode, Issue, Handles
<1>4. ASSUME NEW q \in Pair, NEW p \in Pair, ExchangeRefresh(c, q, p)
      PROVE  Free(c) /\ Handles(c)
  BY <1>4, IssueIs, EntriesTyped DEF ExchangeRefresh, Issue, Handles
<1>5. ASSUME NEW p \in Pair, LoadExpiredAccess(c, p) PROVE Free(c) /\ Handles(c)
  <2>1. /\ Delete(Access(p)) \in Operation /\ Access(p) \in lapsed
        /\ Delete(Access(p)).entry = Access(p)
    BY <1>5, EntriesTyped, OperationsTyped DEF LoadExpiredAccess, Delete
  <2>2. Sensible(<<Delete(Access(p))>>, {}, {})
    BY <2>1, One DEF Sensible
  <2>3. QED
    BY <1>5, <2>2 DEF LoadExpiredAccess, Handles
<1>6. ASSUME NEW p \in Pair, RevokeAccess(c, p) PROVE Free(c) /\ Handles(c)
  <2>1. /\ Delete(Access(p)) \in Operation /\ Access(p) \in Entry /\ Rewrite \in Operation
        /\ Delete(Access(p)).entry = Access(p) /\ Rewrite.op = "rewrite"
    BY EntriesTyped, OperationsTyped DEF Delete, Rewrite
  <2>2. Sensible(<<Delete(Access(p)), Rewrite>>, {}, {Access(p)})
    BY <2>1, Two DEF Sensible
  <2>3. QED
    BY <1>6, <2>2 DEF RevokeAccess, Handles
<1>7. ASSUME NEW p \in Pair, RevokeRefresh(c, p) PROVE Free(c) /\ Handles(c)
  <2>1. /\ Delete(Refresh(p)) \in Operation /\ Refresh(p) \in Entry /\ Rewrite \in Operation
        /\ Delete(Refresh(p)).entry = Refresh(p) /\ Rewrite.op = "rewrite"
    BY EntriesTyped, OperationsTyped DEF Delete, Rewrite
  <2>2. Sensible(<<Rewrite, Delete(Refresh(p))>>, {}, {Refresh(p)})
    BY <2>1, Two DEF Sensible
  <2>3. QED
    BY <1>7, <2>2 DEF RevokeRefresh, Handles
<1>8. ASSUME NEW t \in Txn, Authorize(c, t) PROVE Free(c) /\ Waits(c)
  BY <1>8 DEF Authorize, Waits
<1>9. CASE VisitConsent(c)
  BY <1>9 DEF VisitConsent, Waits
<1>10. QED
  BY <1>1, <1>2, <1>3, <1>4, <1>5, <1>6, <1>7, <1>8, <1>9 DEF Handler

LEMMA HandlerTyped ==
    ASSUME Typed, NEW c \in Container, Handler(c)
    PROVE  /\ pending' \in [Container -> SUBSET Txn]
           /\ opened' \subseteq Txn
           /\ minted' \in [Pair -> [from : Entry, client : Client] \cup {Unminted}]
<1> USE DEF Typed
<1>1. ASSUME NEW k \in Client, RegisterClient(c, k)
      PROVE  UNCHANGED <<pending, opened, minted>>
  BY <1>1 DEF RegisterClient
<1>2. ASSUME NEW t \in Txn, Authorize(c, t) \/ Consent(c, t)
      PROVE  /\ pending' \in [Container -> SUBSET Txn] /\ opened' \subseteq Txn
             /\ UNCHANGED minted
  <2>1. Pruned(c) \cup {t} \subseteq Txn /\ Pruned(c) \ {t} \subseteq Txn
    BY DEF Pruned
  <2>2. CASE Authorize(c, t)
    BY <2>1, <2>2 DEF Authorize
  <2>3. CASE Consent(c, t)
    BY <2>1, <2>3 DEF Consent
  <2>4. QED
    BY <1>2, <2>2, <2>3
<1>3. ASSUME VisitConsent(c)
      PROVE  /\ pending' \in [Container -> SUBSET Txn] /\ UNCHANGED <<opened, minted>>
  BY <1>3 DEF VisitConsent, Pruned
<1>4. ASSUME NEW e \in Entry, NEW k \in Client, NEW p \in Pair, Issue(c, e, k, p)
      PROVE  /\ minted' \in [Pair -> [from : Entry, client : Client] \cup {Unminted}]
             /\ UNCHANGED <<pending, opened>>
  BY <1>4 DEF Issue
<1>5. ASSUME NEW t \in Txn, NEW p \in Pair, ExchangeCode(c, t, p)
      PROVE  /\ minted' \in [Pair -> [from : Entry, client : Client] \cup {Unminted}]
             /\ UNCHANGED <<pending, opened>>
  BY <1>4, <1>5, EntriesTyped, OAuthAssumption DEF ExchangeCode
<1>6. ASSUME NEW q \in Pair, NEW p \in Pair, ExchangeRefresh(c, q, p)
      PROVE  /\ minted' \in [Pair -> [from : Entry, client : Client] \cup {Unminted}]
             /\ UNCHANGED <<pending, opened>>
  <2>1. minted[q].client \in Client
    BY <1>6 DEF ExchangeRefresh
  <2>2. QED
    BY <1>4, <1>6, <2>1, EntriesTyped DEF ExchangeRefresh
<1>7. ASSUME NEW p \in Pair,
             LoadExpiredAccess(c, p) \/ RevokeAccess(c, p) \/ RevokeRefresh(c, p)
      PROVE  UNCHANGED <<pending, opened, minted>>
  BY <1>7 DEF LoadExpiredAccess, RevokeAccess, RevokeRefresh
<1>8. QED
  BY <1>1, <1>2, <1>3, <1>5, <1>6, <1>7 DEF Handler

LEMMA ContentsAre == ASSUME Typed PROVE Contents = file /\ Contents \in FileType
BY NothingTyped DEF Typed, Contents

LEMMA HeadTodo ==
    ASSUME Typed, NEW c \in Container, stage[c] # "idle"
    PROVE  /\ todo[c] \in Seq(Operation) /\ todo[c] # <<>>
           /\ Head(todo[c]) \in Operation /\ Head(todo[c]) = todo[c][1]
           /\ Tail(todo[c]) \in Seq(Operation)
           /\ Len(todo[c]) \in Nat /\ Len(todo[c]) >= 1
           /\ DOMAIN todo[c] = 1 .. Len(todo[c])
           /\ DOMAIN Tail(todo[c]) = 1 .. Len(todo[c]) - 1
           /\ \A i \in DOMAIN Tail(todo[c]) : Tail(todo[c])[i] = todo[c][i + 1]
           /\ Tail(todo[c]) = <<>> <=> Len(todo[c]) = 1
<1>1. todo[c] \in Seq(Operation) /\ todo[c] # <<>>
  BY DEF Typed
<1>2. /\ Head(todo[c]) \in Operation /\ Tail(todo[c]) \in Seq(Operation)
      /\ Len(Tail(todo[c])) = Len(todo[c]) - 1
      /\ \A i \in 1 .. Len(Tail(todo[c])) : Tail(todo[c])[i] = todo[c][i + 1]
  BY <1>1, HeadTailProperties
<1>3. /\ Len(todo[c]) \in Nat /\ Len(todo[c]) >= 1
      /\ DOMAIN todo[c] = 1 .. Len(todo[c])
      /\ DOMAIN Tail(todo[c]) = 1 .. Len(Tail(todo[c]))
      /\ Head(todo[c]) = todo[c][1]
  BY <1>1, <1>2
<1>4. Tail(todo[c]) = <<>> <=> Len(Tail(todo[c])) = 0
  BY <1>2, EmptySeq
<1>5. QED
  BY <1>1, <1>2, <1>3, <1>4

\* The one step that fills the file, for the proofs below.
LEMMA WriteIs ==
    ASSUME Typed, NEW c \in Container, WriteFile(c)
    PROVE  /\ file' \in FileType /\ file'.ok /\ Len(file'.clients) <= MaxClients
           /\ Applied(Head(todo[c]), image[c]) \in FileType
           /\ file'.entries = Applied(Head(todo[c]), image[c]).entries \ lapsed
           /\ file'.clients = Newest(Applied(Head(todo[c]), image[c]).clients)
<1>1. stage[c] = "write" /\ image[c] \in FileType
  BY DEF Typed, WriteFile
<1>2. Applied(Head(todo[c]), image[c]) \in FileType
  BY <1>1, HeadTodo, AppliedIs
<1>3. file' = Written(Applied(Head(todo[c]), image[c]))
  BY DEF WriteFile
<1>4. QED
  BY <1>2, <1>3, WrittenTyped

LEMMA TypedStep == Typed /\ [Next]_vars => Typed'
<1> SUFFICES ASSUME Typed, [Next]_vars PROVE Typed'
  OBVIOUS
<1>1. ASSUME NEW c \in Container, ReadFile(c) PROVE Typed'
  BY <1>1, ContentsAre DEF Typed, ReadFile, fileVars
<1>2. ASSUME NEW c \in Container, TruncateFile(c) PROVE Typed'
  BY <1>2, NothingTyped, OAuthAssumption DEF Typed, TruncateFile
<1>3. ASSUME NEW c \in Container, WriteFile(c) PROVE Typed'
  <2>1. stage[c] = "write"
    BY <1>3 DEF WriteFile
  <2>2. /\ file' \in FileType /\ Len(file'.clients) <= MaxClients
        /\ file'.ok \/ file' = Nothing
    BY <1>3, WriteIs
  <2>3. registered' \in Seq(Client)
    <3>1. CASE Head(todo[c]).op = "register"
      <4>1. Head(todo[c]).client \in Client
        BY <2>1, <3>1, HeadTodo DEF Operation
      <4>2. registered' = Append(registered, Head(todo[c]).client)
        BY <1>3, <3>1 DEF WriteFile
      <4>3. QED
        BY <4>1, <4>2 DEF Typed
    <3>2. CASE Head(todo[c]).op # "register"
      BY <1>3, <3>2 DEF Typed, WriteFile
    <3>3. QED
      BY <3>1, <3>2
  <2>4. /\ todo' \in [Container -> Seq(Operation)]
        /\ todo'[c] = Tail(todo[c])
        /\ \A d \in Container \ {c} : todo'[d] = todo[d]
    BY <1>3, <2>1, HeadTodo DEF Typed, WriteFile
  <2>5. /\ stage' \in [Container -> {"idle", "read", "truncate", "write"}]
        /\ \A d \in Container \ {c} : stage'[d] = stage[d]
        /\ stage'[c] = "idle" <=> Len(todo[c]) = 1
    BY <1>3 DEF Typed, WriteFile
  <2>6. \A d \in Container : (todo'[d] = <<>>) = (stage'[d] = "idle")
    <3>1. (todo'[c] = <<>>) <=> (stage'[c] = "idle")
      BY <2>1, <2>4, <2>5, HeadTodo
    <3>2. ASSUME NEW d \in Container \ {c} PROVE (todo'[d] = <<>>) = (stage'[d] = "idle")
      BY <2>4, <2>5 DEF Typed
    <3>3. QED
      BY <3>1, <3>2
  <2>7. /\ image' \in [Container -> FileType]
        /\ answer' \in [Container -> SUBSET Entry] /\ delivered' \subseteq Entry
    BY <1>3, NothingTyped DEF Typed, WriteFile
  <2>8. UNCHANGED <<torn, up, pending, lapsed, opened, minted, retired>>
    BY <1>3 DEF WriteFile
  <2>9. QED
    BY <2>2, <2>3, <2>4, <2>5, <2>6, <2>7, <2>8 DEF Typed
<1>4. ASSUME NEW c \in Container, Handler(c) PROVE Typed'
  <2>1. /\ pending' \in [Container -> SUBSET Txn]
        /\ opened' \subseteq Txn
        /\ minted' \in [Pair -> [from : Entry, client : Client] \cup {Unminted}]
    BY <1>4, HandlerTyped
  <2>2. CASE Waits(c)
    BY <2>1, <2>2 DEF Typed, Waits, Authorize, VisitConsent, fileVars
  <2>3. ASSUME NEW operations, NEW handout, NEW retire,
               Handle(c, operations, handout, retire),
               Sensible(operations, handout, retire)
        PROVE  Typed'
    <3>1. /\ todo' \in [Container -> Seq(Operation)]
          /\ stage' \in [Container -> {"idle", "read", "truncate", "write"}]
          /\ answer' \in [Container -> SUBSET Entry]
          /\ retired' \subseteq Entry
          /\ \A d \in Container : (todo'[d] = <<>>) = (stage'[d] = "idle")
      BY <2>3 DEF Typed, Handle, Sensible
    <3>2. QED
      BY <2>1, <2>3, <3>1 DEF Typed, Handle, fileVars
  <2>4. QED
    BY <1>4, <2>2, <2>3, HandlerIs DEF Handles
<1>5. ASSUME NEW c \in Container, StartContainer(c) PROVE Typed'
  <2>1. IsFiniteSet(up')
    BY <1>5, FS_AddElement DEF Typed, StartContainer
  <2>2. QED
    BY <1>5, <2>1 DEF Typed, StartContainer, fileVars
<1>6. ASSUME NEW c \in Container, Crash(c) PROVE Typed'
  <2>1. IsFiniteSet(up')
    BY <1>6, FS_RemoveElement DEF Typed, Crash
  <2>2. <<>> \in Seq(Operation)
    OBVIOUS
  <2>3. QED
    BY <1>6, <2>1, <2>2, NothingTyped DEF Typed, Crash
<1>7. ASSUME NEW x \in Txn \cup Entry, Lapse(x) PROVE Typed'
  BY <1>7 DEF Typed, Lapse, fileVars, containerVars
<1>8. CASE UNCHANGED vars
  BY <1>8 DEF Typed, vars, fileVars, containerVars
<1>9. QED
  BY <1>1, <1>2, <1>3, <1>4, <1>5, <1>6, <1>7, <1>8 DEF Next, StoreStep

LEMMA Inductive == Spec => []Typed
<1>1. Init => Typed
  <2>1. <<>> \in Seq(Operation) /\ <<>> \in Seq(Client)
    OBVIOUS
  <2>2. QED
    <3> SUFFICES ASSUME Init PROVE Typed
      OBVIOUS
    <3>1. file \in FileType /\ Len(file.clients) <= MaxClients /\ file = Nothing
      BY NothingTyped, OAuthAssumption DEF Init
    <3>2. image \in [Container -> FileType]
      BY NothingTyped DEF Init
    <3>3. up \subseteq Container /\ IsFiniteSet(up)
      BY FS_EmptySet DEF Init
    <3>4. /\ todo \in [Container -> Seq(Operation)]
          /\ \A c \in Container : (todo[c] = <<>>) = (stage[c] = "idle")
      BY <2>1 DEF Init
    <3>5. minted \in [Pair -> [from : Entry, client : Client] \cup {Unminted}]
      BY DEF Init
    <3>6. QED
      BY <2>1, <3>1, <3>2, <3>3, <3>4, <3>5 DEF Init, Typed
<1>2. QED
  BY <1>1, TypedStep, PTL DEF Spec

(***************************************************************************)
(* Every reachable state of the provider and its file is well typed, with  *)
(* any number of containers at once: the registry stays within its cap and *)
(* a handler is at rest exactly when it has no store operation left.       *)
(***************************************************************************)
THEOREM TypeCorrect == Spec => []TypeOK
<1>1. Typed => TypeOK
  BY DEF Typed, TypeOK
<1>2. QED
  BY <1>1, Inductive, PTL

-----------------------------------------------------------------------------
(* One container at a time.                                                *)

Alone ==
    /\ \A c, d \in up : c = d
    /\ \A c \in Container : c \notin up => stage[c] = "idle" /\ pending[c] = {}

\* The only step that could break Alone starts a container beside another.
LEMMA AloneStep ==
    ASSUME MaxUp = 1
    PROVE  Typed /\ Alone /\ [Next]_vars => Alone'
<1> SUFFICES ASSUME Typed, Alone, [Next]_vars PROVE Alone'
  OBVIOUS
<1>1. ASSUME NEW c \in Container, StoreStep(c) PROVE Alone'
  <2>1. UNCHANGED <<up, pending>> /\ c \in up /\ \A d \in Container \ {c} : stage'[d] = stage[d]
    BY <1>1 DEF Typed, Alone, StoreStep, ReadFile, TruncateFile, WriteFile
  <2>2. QED
    BY <2>1 DEF Typed, Alone
<1>2. ASSUME NEW c \in Container, Handler(c) PROVE Alone'
  <2>1. c \in up /\ UNCHANGED up
    BY <1>2, HandlerIs DEF Free, Waits, Handles, Handle, Authorize, VisitConsent
  <2>2. \A d \in Container \ {c} : stage'[d] = stage[d]
    BY <1>2, HandlerIs DEF Typed, Waits, Handles, Handle, Authorize, VisitConsent
  <2>3. \A d \in Container \ {c} : pending'[d] = pending[d]
    BY <1>2 DEF Typed, Handler, RegisterClient, Authorize, Consent, VisitConsent,
       ExchangeCode, ExchangeRefresh, Issue, LoadExpiredAccess, RevokeAccess,
       RevokeRefresh
  <2>4. QED
    BY <2>1, <2>2, <2>3 DEF Alone
<1>3. ASSUME NEW c \in Container, StartContainer(c) PROVE Alone'
  <2>1. Cardinality(up) \in Nat /\ Cardinality(up) < 1
    BY <1>3, FS_CardinalityType DEF Typed, StartContainer
  <2>2. Cardinality(up) = 0
    BY <2>1
  <2>3. up = {}
    BY <2>2, FS_EmptySet DEF Typed
  <2>4. QED
    BY <1>3, <2>3 DEF Typed, Alone, StartContainer
<1>4. ASSUME NEW c \in Container, Crash(c) PROVE Alone'
  BY <1>4 DEF Typed, Alone, Crash
<1>5. ASSUME NEW x \in Txn \cup Entry, Lapse(x) PROVE Alone'
  BY <1>5 DEF Alone, Lapse, containerVars
<1>6. CASE UNCHANGED vars
  BY <1>6 DEF Alone, vars, containerVars
<1>7. QED
  BY <1>1, <1>2, <1>3, <1>4, <1>5, <1>6 DEF Next

\* Entries the file may do without.
Exempt == lapsed \cup retired

\* What the operation at hand starts from.
Base(c) == IF stage[c] = "read" THEN Contents ELSE image[c]

(***************************************************************************)
(* What a handler under way still owes: it deletes nothing that matters,   *)
(* what it will hand out is in the file or still to be put, and what it    *)
(* read is what the file holds, or held before it was emptied.             *)
(***************************************************************************)
Owes(c) ==
    /\ \A i \in DOMAIN todo[c] : todo[c][i].op = "delete" => todo[c][i].entry \in Exempt
    /\ \A a \in answer[c] : \/ a \in Base(c).entries \cup Exempt
                            \/ \E i \in DOMAIN todo[c] : todo[c][i] = Put(a)
    /\ stage[c] = "truncate" => image[c] = Contents
    /\ stage[c] = "write" => torn \/ delivered \ Exempt \subseteq image[c].entries

Durable ==
    /\ \A c \in Container : stage[c] # "idle" => Owes(c)
    /\ GrantsDurable

LEMMA AppliedKeeps ==
    ASSUME NEW o \in Operation, NEW f \in FileType
    PROVE  /\ f.entries \ {e \in Entry : o = Delete(e)} \subseteq Applied(o, f).entries
           /\ \A a \in Entry : o = Put(a) => a \in Applied(o, f).entries
<1>1. o.op = "delete" => o = Delete(o.entry)
  BY DEF Operation, Delete
<1>2. \A a \in Entry : o = Put(a) => o.op = "put" /\ o.entry = a
  BY DEF Put
<1>3. QED
  BY <1>1, <1>2, AppliedIs

LEMMA OthersIdle ==
    ASSUME Typed, Alone, NEW c \in Container, c \in up,
           NEW d \in Container \ {c}
    PROVE  stage[d] = "idle"
BY DEF Alone

LEMMA DurableStep == Typed /\ Alone /\ Durable /\ [Next]_vars => Durable'
<1> SUFFICES ASSUME Typed, Alone, Durable, [Next]_vars PROVE Durable'
  OBVIOUS
<1>1. ASSUME NEW c \in Container, ReadFile(c) PROVE Durable'
  <2>1. /\ stage[c] = "read" /\ stage'[c] = "truncate" /\ image'[c] = Contents
        /\ \A d \in Container \ {c} : stage'[d] = stage[d] /\ image'[d] = image[d]
        /\ UNCHANGED <<file, todo, answer, lapsed, retired, delivered, torn>>
    BY <1>1 DEF Typed, ReadFile, fileVars
  <2>2. Contents' = Contents /\ Exempt' = Exempt
    BY <2>1 DEF Contents, Exempt
  <2>3. Owes(c)'
    BY <2>1, <2>2 DEF Durable, Owes, Base
  <2>4. ASSUME NEW d \in Container \ {c}, stage'[d] # "idle" PROVE Owes(d)'
    BY <2>1, <2>2, <2>4 DEF Durable, Owes, Base
  <2>5. GrantsDurable'
    BY <2>1 DEF Durable, GrantsDurable, Quiescent
  <2>6. QED
    BY <2>3, <2>4, <2>5 DEF Durable
<1>2. ASSUME NEW c \in Container, TruncateFile(c) PROVE Durable'
  <2>1. /\ stage[c] = "truncate" /\ stage'[c] = "write"
        /\ \A d \in Container \ {c} : stage'[d] = stage[d]
        /\ UNCHANGED <<todo, image, answer, lapsed, retired, delivered, torn>>
    BY <1>2 DEF Typed, TruncateFile
  <2>2. \A d \in Container \ {c} : stage[d] = "idle"
    BY <2>1, OthersIdle DEF Alone
  <2>3. torn \/ delivered \ Exempt \subseteq image[c].entries
    BY <2>1, <2>2, ContentsAre DEF Durable, GrantsDurable, Quiescent, Owes, Exempt
  <2>4. Owes(c)'
    BY <2>1, <2>3 DEF Durable, Owes, Base, Exempt
  <2>5. QED
    BY <2>1, <2>2, <2>4 DEF Durable, GrantsDurable, Quiescent
<1>3. ASSUME NEW c \in Container, WriteFile(c) PROVE Durable'
  <2> DEFINE o == Head(todo[c])
             g == Applied(o, image[c])
  <2>1. /\ stage[c] = "write" /\ Owes(c) /\ o \in Operation /\ image[c] \in FileType
        /\ o = todo[c][1] /\ 1 \in DOMAIN todo[c]
    BY <1>3, HeadTodo DEF Typed, Durable, WriteFile
  <2>2. /\ todo'[c] = Tail(todo[c])
        /\ \A d \in Container \ {c} : stage'[d] = stage[d]
        /\ UNCHANGED <<lapsed, retired, torn>> /\ Exempt' = Exempt
        /\ answer[c] \subseteq Entry
    BY <1>3 DEF Typed, WriteFile, Exempt
  <2>3. \A d \in Container \ {c} : stage'[d] = "idle"
    BY <2>1, <2>2, OthersIdle DEF Alone
  <2>4. Contents' = file' /\ file'.entries = g.entries \ lapsed
    BY <1>3, WriteIs DEF Contents
  <2>5. \A e \in Entry : o = Delete(e) => e \in Exempt
    BY <2>1 DEF Owes, Delete
  <2>6. image[c].entries \ Exempt \subseteq file'.entries
    BY <2>1, <2>4, <2>5, AppliedKeeps DEF Exempt
  <2>7. \A a \in Entry \ Exempt : o = Put(a) => a \in file'.entries
    BY <2>1, <2>4, AppliedKeeps DEF Exempt
  <2>8. \A a \in answer[c] : \/ a \in file'.entries \cup Exempt
                             \/ \E i \in DOMAIN todo[c] : i # 1 /\ todo[c][i] = Put(a)
    BY <2>1, <2>2, <2>6, <2>7 DEF Owes, Base
  <2> HIDE DEF o, g
  <2>9. CASE Len(todo[c]) = 1
    <3>1. /\ stage'[c] = "idle" /\ delivered' = delivered \cup answer[c]
          /\ DOMAIN todo[c] = {1}
      BY <1>3, <2>1, <2>9, HeadTodo DEF Typed, WriteFile
    <3>2. answer[c] \subseteq file'.entries \cup Exempt
      BY <2>8, <3>1
    <3>3. torn \/ delivered' \ Exempt \subseteq file'.entries
      BY <2>1, <2>6, <3>1, <3>2 DEF Owes
    <3>4. GrantsDurable'
      BY <2>2, <3>3 DEF GrantsDurable, Exempt
    <3>5. QED
      BY <2>3, <3>1, <3>4 DEF Durable
  <2>10. CASE Len(todo[c]) # 1
    <3>1. stage'[c] = "read" /\ delivered' = delivered /\ answer' = answer
      BY <1>3, <2>10 DEF Typed, WriteFile
    <3>2. /\ \A i \in DOMAIN todo'[c] : /\ i + 1 \in DOMAIN todo[c]
                                        /\ todo'[c][i] = todo[c][i + 1]
          /\ \A i \in DOMAIN todo[c] : i # 1 => /\ i - 1 \in DOMAIN todo'[c]
                                                /\ todo'[c][i - 1] = todo[c][i]
      BY <2>1, <2>2, HeadTodo
    <3>3. \A i \in DOMAIN todo'[c] : todo'[c][i].op = "delete" => todo'[c][i].entry \in Exempt
      BY <2>1, <3>2 DEF Owes
    <3>4. \A a \in answer[c] : \/ a \in file'.entries \cup Exempt
                               \/ \E i \in DOMAIN todo'[c] : todo'[c][i] = Put(a)
      BY <2>8, <3>2
    <3>5. Owes(c)'
      BY <2>2, <2>4, <3>1, <3>3, <3>4 DEF Owes, Base
    <3>6. torn \/ delivered' \ Exempt \subseteq file'.entries
      BY <2>1, <2>6, <3>1 DEF Owes
    <3>7. GrantsDurable'
      BY <2>2, <3>6 DEF GrantsDurable, Exempt
    <3>8. QED
      BY <2>3, <3>5, <3>7 DEF Durable
  <2>11. QED
    BY <2>9, <2>10
<1>4. ASSUME NEW c \in Container, Handler(c) PROVE Durable'
  <2>1. Free(c) /\ (Waits(c) \/ Handles(c))
    BY <1>4, HandlerIs
  <2>2. \A d \in Container : stage[d] = "idle"
    BY <2>1, OthersIdle DEF Free
  <2>3. CASE Waits(c)
    <3>1. UNCHANGED <<file, stage, lapsed, retired, delivered, torn>>
      BY <2>3 DEF Waits, Authorize, VisitConsent, fileVars
    <3>2. QED
      BY <2>2, <3>1 DEF Durable, GrantsDurable, Quiescent
  <2>4. ASSUME NEW operations, NEW handout, NEW retire,
               Handle(c, operations, handout, retire),
               Sensible(operations, handout, retire)
        PROVE  Durable'
    <3>1. /\ stage'[c] = "read" /\ todo'[c] = operations /\ answer'[c] = handout
          /\ \A d \in Container \ {c} : stage'[d] = stage[d]
          /\ UNCHANGED <<file, lapsed, delivered, torn>>
          /\ retired' = retired \cup retire
      BY <2>4 DEF Typed, Handle, fileVars
    <3>2. Owes(c)'
      BY <2>4, <3>1 DEF Owes, Sensible, Exempt
    <3>3. GrantsDurable'
      BY <2>2, <3>1 DEF Durable, GrantsDurable, Quiescent
    <3>4. QED
      BY <2>2, <3>1, <3>2, <3>3 DEF Durable
  <2>5. QED
    BY <2>1, <2>3, <2>4 DEF Handles
<1>5. ASSUME NEW c \in Container, StartContainer(c) PROVE Durable'
  <2>1. UNCHANGED <<file, todo, stage, image, answer, lapsed, retired, delivered, torn>>
    BY <1>5 DEF StartContainer, fileVars
  <2>2. QED
    BY <2>1 DEF Durable, GrantsDurable, Quiescent, Owes, Base, Contents, Exempt
<1>6. ASSUME NEW c \in Container, Crash(c) PROVE Durable'
  <2>1. \A d \in Container : stage'[d] = "idle"
    BY <1>6, OthersIdle DEF Typed, Crash
  <2>2. torn' \/ (~torn /\ Quiescent)
    BY <1>6, OthersIdle DEF Typed, Crash, Quiescent
  <2>3. GrantsDurable'
    BY <1>6, <2>2 DEF Durable, GrantsDurable, Crash
  <2>4. QED
    BY <2>1, <2>3 DEF Durable
<1>7. ASSUME NEW x \in Txn \cup Entry, Lapse(x) PROVE Durable'
  <2>1. /\ UNCHANGED <<file, todo, stage, image, answer, retired, delivered, torn>>
        /\ lapsed \subseteq lapsed'
    BY <1>7 DEF Lapse, fileVars, containerVars
  <2>2. Exempt \subseteq Exempt' /\ Contents' = Contents
    BY <2>1 DEF Exempt, Contents
  <2>3. GrantsDurable'
    BY <2>1 DEF Durable, GrantsDurable, Quiescent
  <2>4. ASSUME NEW d \in Container, stage[d] # "idle" PROVE Owes(d)'
    <3>1. Owes(d) /\ Base(d)' = Base(d)
      BY <2>1, <2>2, <2>4 DEF Durable, Base
    <3>2. QED
      BY <2>1, <2>2, <3>1 DEF Owes
  <2>5. QED
    BY <2>1, <2>3, <2>4 DEF Durable
<1>8. CASE UNCHANGED vars
  BY <1>8 DEF Durable, GrantsDurable, Quiescent, Owes, Base, Contents, Exempt, vars,
     fileVars, containerVars
<1>9. QED
  BY <1>1, <1>2, <1>3, <1>4, <1>5, <1>6, <1>7, <1>8 DEF Next, StoreStep

LEMMA OneAtATime ==
    ASSUME MaxUp = 1
    PROVE  Spec => [](Typed /\ Alone)
<1>1. Init => Alone
  BY DEF Init, Alone
<1>2. QED
  BY <1>1, AloneStep, Inductive, PTL DEF Spec

(***************************************************************************)
(* With one container at a time, a grant that has reached its client is in *)
(* the state file until it expires or is spent or revoked, through any     *)
(* sequence of handlers, kills and restarts, except after a kill halfway   *)
(* through a write.                                                        *)
(***************************************************************************)
THEOREM GrantsKept ==
    ASSUME MaxUp = 1
    PROVE  Spec => []GrantsDurable
<1>1. Init => Durable
  BY DEF Init, Durable, GrantsDurable
<1>2. Durable => GrantsDurable
  BY DEF Durable
<1>3. QED
  BY <1>1, <1>2, OneAtATime, DurableStep, PTL DEF Spec

-----------------------------------------------------------------------------
(* One exchange per grant.                                                 *)

\* e is in the file, or a handler under way has read it or will put it.
InStore(e) ==
    \/ e \in file.entries
    \/ \E c \in Container : \/ e \in image[c].entries
                            \/ \E i \in DOMAIN todo[c] : todo[c][i] = Put(e)

InSight(e) ==
    \/ InStore(e)
    \/ e \in delivered
    \/ \E c \in Container : e \in answer[c]

\* No handler has made e yet.
Unborn(e) ==
    \/ \E t \in Txn : /\ e = Code(t)
                      /\ t \notin opened \/ \E c \in Container : t \in pending[c]
    \/ \E p \in Pair : /\ e = Access(p) \/ e = Refresh(p)
                       /\ minted[p] = Unminted

From(q, e) == minted[q] # Unminted /\ minted[q].from = e

\* c has minted q and not yet deleted what q was minted from.
Exchanging(c, q) ==
    /\ stage[c] # "idle"
    /\ todo[c][1] = Delete(minted[q].from)
    /\ \A i \in DOMAIN todo[c] : todo[c][i] # Put(minted[q].from)
    /\ Access(q) \notin delivered \cup file.entries \cup image[c].entries

Blank(c) ==
    /\ stage[c] \in {"idle", "read"} => image[c].entries = {}
    /\ stage[c] = "idle" => answer[c] = {}
    /\ pending[c] \subseteq opened

(***************************************************************************)
(* Once a pair is in sight, what it came from is out of the store for      *)
(* good, or the very next write takes it out before the pair is put.       *)
(***************************************************************************)
Spent(q) ==
    \A e \in Entry :
        From(q, e) /\ InSight(Access(q)) =>
            ~InStore(e) \/ \E c \in Container : Exchanging(c, q)

Once ==
    /\ \A c \in Container : Blank(c)
    /\ \A e \in Entry : Unborn(e) => ~InSight(e) /\ \A q \in Pair : ~From(q, e)
    /\ \A q \in Pair : Spent(q)
    /\ \A p, q \in Pair : \A e \in Entry :
          From(p, e) /\ From(q, e) /\ InSight(Access(p)) /\ InSight(Access(q)) => p = q

LEMMA EntriesDiffer ==
    /\ \A t, u \in Txn : Code(t) = Code(u) => t = u
    /\ \A p, q \in Pair : /\ Access(p) = Access(q) => p = q
                          /\ Refresh(p) = Refresh(q) => p = q
                          /\ Access(p) # Refresh(q)
    /\ \A t \in Txn, p \in Pair : Code(t) # Access(p) /\ Code(t) # Refresh(p)
    /\ \A e, f \in Entry : /\ Put(e) = Put(f) => e = f
                           /\ Put(e) # Delete(f)
BY DEF Code, Access, Refresh, Put, Delete

\* Every step but a handler's first only takes entries away.
Fades ==
    /\ \A e \in Entry : (InStore(e)' => InStore(e)) /\ (InSight(e)' => InSight(e))
    /\ UNCHANGED <<minted, opened>>
    /\ \A c \in Container : pending'[c] \subseteq pending[c]

LEMMA TailIs ==
    ASSUME Typed, NEW c \in Container, WriteFile(c)
    PROVE  /\ todo'[c] = Tail(todo[c]) /\ 1 \in DOMAIN todo[c]
           /\ \A i \in DOMAIN todo'[c] : /\ i + 1 \in DOMAIN todo[c]
                                         /\ todo'[c][i] = todo[c][i + 1]
<1>1. todo'[c] = Tail(todo[c]) /\ stage[c] # "idle"
  BY DEF Typed, WriteFile
<1>2. /\ Len(todo[c]) \in Nat /\ Len(todo[c]) >= 1
      /\ DOMAIN todo[c] = 1 .. Len(todo[c])
      /\ DOMAIN Tail(todo[c]) = 1 .. Len(todo[c]) - 1
      /\ \A i \in DOMAIN Tail(todo[c]) : Tail(todo[c])[i] = todo[c][i + 1]
  BY <1>1, HeadTodo
<1>3. QED
  BY <1>1, <1>2

LEMMA WriteTakes ==
    ASSUME Typed, NEW c \in Container, WriteFile(c), NEW e \in file'.entries
    PROVE  e \in Entry /\ (e \in image[c].entries \/ todo[c][1] = Put(e))
<1> DEFINE o == Head(todo[c])
<1>1. o \in Operation /\ o = todo[c][1] /\ image[c] \in FileType
  BY HeadTodo DEF Typed, WriteFile
<1>2. e \in Applied(o, image[c]).entries /\ e \in Entry
  BY <1>1, WriteIs DEF FileType
<1>3. o.op = "put" => o = Put(o.entry)
  BY <1>1 DEF Operation, Put
<1>4. QED
  BY <1>1, <1>2, <1>3, AppliedIs

LEMMA StoreFades ==
    ASSUME Typed, NEW c \in Container, StoreStep(c)
    PROVE  Fades
<1>1. CASE ReadFile(c)
  <2>1. /\ image'[c] = file
        /\ \A d \in Container \ {c} : image'[d] = image[d]
        /\ UNCHANGED <<file, todo, answer, delivered, minted, opened, pending>>
    BY <1>1, ContentsAre DEF Typed, ReadFile, fileVars
  <2>2. QED
    BY <2>1 DEF Fades, InStore, InSight
<1>2. CASE TruncateFile(c)
  <2>1. /\ file'.entries = {}
        /\ UNCHANGED <<image, todo, answer, delivered, minted, opened, pending>>
    BY <1>2 DEF TruncateFile, Nothing
  <2>2. QED
    BY <2>1 DEF Fades, InStore, InSight
<1>3. CASE WriteFile(c)
  <2>1. /\ image'[c].entries = {} /\ \A d \in Container \ {c} : image'[d] = image[d]
        /\ todo'[c] = Tail(todo[c]) /\ \A d \in Container \ {c} : todo'[d] = todo[d]
        /\ delivered' \subseteq delivered \cup answer[c]
        /\ \A d \in Container : answer'[d] \subseteq answer[d]
        /\ UNCHANGED <<minted, opened, pending>>
    BY <1>3 DEF Typed, WriteFile, Nothing
  <2>2. /\ \A i \in DOMAIN todo'[c] : i + 1 \in DOMAIN todo[c] /\ todo'[c][i] = todo[c][i + 1]
        /\ 1 \in DOMAIN todo[c]
    BY <1>3, <2>1, TailIs
  <2>3. \A e \in file'.entries : e \in image[c].entries \/ todo[c][1] = Put(e)
    BY <1>3, WriteTakes
  <2>4. ASSUME NEW e \in Entry, InStore(e)' PROVE InStore(e)
    <3>1. CASE e \in file'.entries
      BY <2>2, <2>3, <3>1 DEF InStore
    <3>2. ASSUME NEW d \in Container, e \in image'[d].entries PROVE InStore(e)
      BY <2>1, <3>2 DEF InStore
    <3>3. ASSUME NEW d \in Container, NEW i \in DOMAIN todo'[d], todo'[d][i] = Put(e)
          PROVE  InStore(e)
      <4>1. CASE d = c
        <5>1. i + 1 \in DOMAIN todo[c] /\ todo[c][i + 1] = Put(e)
          BY <2>2, <3>3, <4>1
        <5>2. QED
          BY <5>1 DEF InStore
      <4>2. CASE d # c
        BY <2>1, <3>3, <4>2 DEF InStore
      <4>3. QED
        BY <4>1, <4>2
    <3>4. QED
      BY <2>4, <3>1, <3>2, <3>3 DEF InStore
  <2>5. \A e \in Entry : InSight(e)' => InSight(e)
    BY <2>1, <2>4 DEF InSight
  <2>6. QED
    BY <2>1, <2>4, <2>5 DEF Fades
<1>4. QED
  BY <1>1, <1>2, <1>3 DEF StoreStep

LEMMA CrashFades ==
    ASSUME Typed, NEW c \in Container, Crash(c)
    PROVE  Fades
<1>1. /\ image'[c].entries = {} /\ \A d \in Container \ {c} : image'[d] = image[d]
      /\ todo'[c] = <<>> /\ \A d \in Container \ {c} : todo'[d] = todo[d]
      /\ \A d \in Container : answer'[d] \subseteq answer[d]
      /\ \A d \in Container : pending'[d] \subseteq pending[d]
      /\ UNCHANGED <<file, delivered, minted, opened>>
  BY DEF Typed, Crash, Nothing
<1>2. QED
  BY <1>1 DEF Fades, InStore, InSight

\* What fades stays unborn or spent, and stays the only one.
LEMMA FadesKeeps ==
    ASSUME Typed, Once, Fades,
           \A c \in Container : Blank(c)',
           \A c \in Container, q \in Pair : \A e \in Entry :
               Exchanging(c, q) /\ From(q, e) =>
                   \/ ~InSight(Access(q))'
                   \/ ~InStore(e)'
                   \/ Exchanging(c, q)'
    PROVE  Once'
<1>1. \A q \in Pair : Access(q) \in Entry
  BY EntriesTyped
<1>2. \A q \in Pair : \A e \in Entry : From(q, e)' <=> From(q, e)
  BY DEF Fades, From
<1>3. \A e \in Entry : Unborn(e)' => Unborn(e)
  BY DEF Fades, Unborn
<1>4. \A e \in Entry : Unborn(e)' => ~InSight(e)' /\ \A q \in Pair : ~From(q, e)'
  BY <1>2, <1>3 DEF Once, Fades
<1>5. \A q \in Pair : Spent(q)'
  BY <1>1, <1>2 DEF Once, Fades, Spent
<1>6. \A p, q \in Pair : \A e \in Entry :
          /\ From(p, e)' /\ From(q, e)' /\ InSight(Access(p))' /\ InSight(Access(q))'
          => p = q
  BY <1>1, <1>2 DEF Once, Fades
<1>7. QED
  BY <1>4, <1>5, <1>6 DEF Once

\* The handlers' first steps: what they put, and what else they change.
Queues(c, puts) ==
    /\ \A d \in Container : stage[d] = "idle"
    /\ \A e \in Entry : /\ InStore(e)' => InStore(e) \/ e \in puts
                        /\ InSight(e)' => InSight(e) \/ e \in puts
    /\ UNCHANGED <<file, delivered>>
    /\ \A d \in Container : Blank(d)'

LEMMA HandleQueues ==
    ASSUME Typed, Alone, Once, NEW c \in Container, Free(c),
           NEW operations, NEW handout, NEW retire,
           Handle(c, operations, handout, retire),
           NEW puts \in SUBSET Entry,
           \A i \in DOMAIN operations : \A e \in Entry : operations[i] = Put(e) => e \in puts,
           handout \subseteq puts,
           \A d \in Container : pending'[d] \subseteq opened'
    PROVE  Queues(c, puts)
<1>1. \A d \in Container : stage[d] = "idle"
  BY OthersIdle DEF Free
<1>2. /\ todo'[c] = operations /\ answer'[c] = handout
      /\ \A d \in Container \ {c} : /\ todo'[d] = todo[d] /\ answer'[d] = answer[d]
                                    /\ stage'[d] = stage[d]
      /\ stage'[c] = "read"
      /\ UNCHANGED <<file, delivered, image>>
  BY DEF Typed, Handle, fileVars
<1>3. ASSUME NEW e \in Entry, InStore(e)' PROVE InStore(e) \/ e \in puts
  BY <1>2, <1>3 DEF InStore
<1>4. ASSUME NEW e \in Entry, InSight(e)' PROVE InSight(e) \/ e \in puts
  BY <1>2, <1>3, <1>4 DEF InSight
<1>5. \A d \in Container : Blank(d)'
  BY <1>1, <1>2 DEF Once, Blank
<1>6. QED
  BY <1>1, <1>2, <1>3, <1>4, <1>5 DEF Queues

\* With all at rest, nothing is being exchanged.
LEMMA AtRest ==
    ASSUME Once, \A d \in Container : stage[d] = "idle"
    PROVE  \A q \in Pair : \A e \in Entry :
               From(q, e) /\ InSight(Access(q)) => ~InStore(e)
BY DEF Once, Spent, Exchanging

\* A handler that puts nothing.
LEMMA QueuesNothing ==
    ASSUME Typed, Once, NEW c \in Container, Queues(c, {}),
           UNCHANGED <<minted, opened>>,
           \A d \in Container : pending'[d] \subseteq pending[d]
    PROVE  Once'
<1>1. Fades
  BY DEF Queues, Fades
<1>2. QED
  BY <1>1, FadesKeeps DEF Queues, Exchanging

LEMMA ConsentKeeps ==
    ASSUME Typed, Alone, Once, NEW c \in Container, NEW t \in Txn, Consent(c, t)
    PROVE  Once'
<1>1. /\ t \in pending[c] /\ pending[c] \subseteq opened /\ Free(c)
      /\ pending'[c] = Pruned(c) \ {t} /\ \A d \in Container \ {c} : pending'[d] = pending[d]
      /\ UNCHANGED <<opened, minted>>
      /\ Code(t) \in Entry /\ Put(Code(t)) \in Operation
  BY EntriesTyped, OperationsTyped DEF Typed, Consent, Once, Blank, Pruned
<1>2. \A d \in Container : pending'[d] \subseteq pending[d] /\ t \notin pending'[d]
  BY <1>1 DEF Alone, Free, Pruned
<1>3. Queues(c, {Code(t)})
  <2>1. Handle(c, <<Put(Code(t))>>, {Code(t)}, {})
    BY DEF Consent
  <2>2. DOMAIN <<Put(Code(t))>> = {1} /\ <<Put(Code(t))>>[1] = Put(Code(t))
    BY <1>1, One
  <2>3. \A i \in DOMAIN <<Put(Code(t))>> : \A e \in Entry :
            <<Put(Code(t))>>[i] = Put(e) => e \in {Code(t)}
    BY <1>1, <2>2, EntriesDiffer
  <2>4. \A d \in Container : pending'[d] \subseteq opened'
    BY <1>1, <1>2 DEF Once, Blank
  <2>5. QED
    BY <1>1, <2>1, <2>3, <2>4, HandleQueues
<1>4. Unborn(Code(t))
  BY <1>1 DEF Unborn
<1>5. ~InSight(Code(t)) /\ \A q \in Pair : ~From(q, Code(t))
  BY <1>1, <1>4 DEF Once
<1>6. \A q \in Pair : \A e \in Entry : From(q, e)' <=> From(q, e)
  BY <1>1 DEF From
<1>7. \A q \in Pair : Access(q) \in Entry /\ Access(q) # Code(t)
  BY EntriesTyped, EntriesDiffer
<1>8. \A e \in Entry : Unborn(e)' => Unborn(e) /\ e # Code(t)
  BY <1>1, <1>2, EntriesDiffer DEF Unborn
<1>9. \A e \in Entry : Unborn(e)' => ~InSight(e)' /\ \A q \in Pair : ~From(q, e)'
  BY <1>3, <1>6, <1>8 DEF Once, Queues
<1>10. \A q \in Pair : Spent(q)'
  BY <1>3, <1>5, <1>6, <1>7, AtRest DEF Queues, Spent
<1>11. \A p, q \in Pair : \A e \in Entry :
          /\ From(p, e)' /\ From(q, e)' /\ InSight(Access(p))' /\ InSight(Access(q))'
          => p = q
  BY <1>3, <1>6, <1>7 DEF Once, Queues
<1>12. QED
  BY <1>3, <1>9, <1>10, <1>11 DEF Once, Queues

LEMMA IssueKeeps ==
    ASSUME Typed, Alone, Once, NEW c \in Container, NEW e \in Entry, NEW k,
           NEW p \in Pair, Issue(c, e, k, p)
    PROVE  Once'
<1> DEFINE New == {Access(p), Refresh(p)}
           ops == <<Delete(e), Put(Access(p)), Put(Refresh(p))>>
<1>1. /\ Free(c) /\ minted[p] = Unminted /\ UNCHANGED <<pending, opened>>
      /\ e \in file.entries
      /\ minted' = [minted EXCEPT ![p] = [from |-> e, client |-> k]]
  BY ContentsAre DEF Issue, Presentable
<1>2. /\ Access(p) \in Entry /\ Refresh(p) \in Entry
      /\ \A q \in Pair : Access(q) \in Entry
  BY EntriesTyped
<1>3. InStore(e) /\ InSight(e)
  BY <1>1 DEF InStore, InSight
<1>4. \A x \in New : ~InSight(x) /\ \A q \in Pair : ~From(q, x)
  BY <1>1, <1>2 DEF Once, Unborn
<1>5. e \notin New
  BY <1>3, <1>4
<1>6. Handle(c, ops, New, {e})
  BY IssueIs
<1>7. DOMAIN ops = {1, 2, 3} /\ ops[1] = Delete(e)
      /\ ops[2] = Put(Access(p)) /\ ops[3] = Put(Refresh(p))
  BY <1>2, OperationsTyped, Three
<1>8. \A i \in DOMAIN ops : \A x \in Entry : ops[i] = Put(x) => x \in New
  BY <1>2, <1>7, EntriesDiffer
<1> HIDE DEF ops
<1>9. Queues(c, New)
  <2>1. \A d \in Container : pending'[d] \subseteq opened'
    BY <1>1 DEF Once, Blank
  <2>2. QED
    BY <1>1, <1>2, <1>6, <1>8, <2>1, HandleQueues
<1>10. /\ minted'[p] # Unminted /\ minted'[p].from = e
       /\ \A q \in Pair \ {p} : minted'[q] = minted[q]
  <2>1. [from |-> e, client |-> k] # Unminted
    BY DEF Unminted
  <2>2. QED
    BY <1>1, <2>1 DEF Typed
<1>11. /\ \A x \in Entry : From(p, x)' => x = e
       /\ \A q \in Pair \ {p}, x \in Entry : From(q, x)' => From(q, x)
  BY <1>10 DEF From
<1>12. \A x \in Entry : Unborn(x)' => Unborn(x) /\ x \notin New
  BY <1>1, <1>10, EntriesDiffer DEF Unborn
<1>13. \A x \in Entry : Unborn(x)' => ~InSight(x)' /\ \A q \in Pair : ~From(q, x)'
  BY <1>3, <1>9, <1>11, <1>12 DEF Once, Queues
<1>14. \A q \in Pair \ {p} : InSight(Access(q))' => InSight(Access(q))
  BY <1>2, <1>9, EntriesDiffer DEF Queues
<1>15. \A q \in Pair : Spent(q)'
  <2>1. Exchanging(c, p)'
    <3>1. stage'[c] = "read" /\ todo'[c] = ops /\ UNCHANGED <<file, delivered, image>>
      BY <1>6 DEF Typed, Handle, fileVars
    <3>2. \A i \in DOMAIN ops : ops[i] # Put(e)
      BY <1>5, <1>8
    <3>3. Access(p) \notin delivered \cup file.entries \cup image[c].entries
      BY <1>4 DEF InSight, InStore
    <3>4. QED
      BY <1>7, <1>10, <3>1, <3>2, <3>3 DEF Exchanging
  <2>2. Spent(p)'
    BY <1>11, <2>1 DEF Spent
  <2>3. ASSUME NEW q \in Pair \ {p}, NEW x \in Entry, From(q, x)', InSight(Access(q))'
        PROVE  ~InStore(x)'
    <3>1. From(q, x) /\ InSight(Access(q)) /\ ~InStore(x)
      BY <1>9, <1>11, <1>14, <2>3, AtRest DEF Queues
    <3>2. x \notin New
      BY <1>4, <3>1
    <3>3. QED
      BY <1>9, <3>1, <3>2 DEF Queues
  <2>4. QED
    BY <2>2, <2>3 DEF Spent
<1>16. ASSUME NEW q \in Pair, NEW r \in Pair, NEW x \in Entry,
              From(q, x)', From(r, x)', InSight(Access(q))', InSight(Access(r))'
       PROVE  q = r
  <2>1. \A u \in Pair : From(u, e) => ~InSight(Access(u))
    BY <1>3, <1>9, AtRest DEF Queues
  <2>2. CASE q = p \/ r = p
    BY <1>11, <1>14, <1>16, <2>1, <2>2
  <2>3. CASE q # p /\ r # p
    BY <1>11, <1>14, <1>16, <2>3 DEF Once
  <2>4. QED
    BY <2>2, <2>3
<1>17. QED
  BY <1>9, <1>13, <1>15, <1>16 DEF Once, Queues

LEMMA OnceStep == Typed /\ Alone /\ Once /\ [Next]_vars => Once'
<1> SUFFICES ASSUME Typed, Alone, Once, [Next]_vars PROVE Once'
  OBVIOUS
<1>1. ASSUME NEW c \in Container, ReadFile(c) PROVE Once'
  <2>1. /\ stage[c] = "read" /\ stage'[c] = "truncate" /\ image'[c] = file
        /\ \A d \in Container \ {c} : stage'[d] = stage[d] /\ image'[d] = image[d]
        /\ UNCHANGED <<file, todo, answer, delivered, minted, opened, pending>>
    BY <1>1, ContentsAre DEF Typed, ReadFile, fileVars
  <2>2. \A d \in Container : Blank(d)'
    BY <2>1 DEF Once, Blank
  <2>3. \A d \in Container, q \in Pair : Exchanging(d, q) => Exchanging(d, q)'
    BY <2>1 DEF Exchanging
  <2>4. Fades
    BY <1>1, StoreFades DEF StoreStep
  <2>5. QED
    BY <2>2, <2>3, <2>4, FadesKeeps
<1>2. ASSUME NEW c \in Container, TruncateFile(c) PROVE Once'
  <2>1. /\ stage[c] = "truncate" /\ stage'[c] = "write" /\ file'.entries = {}
        /\ \A d \in Container \ {c} : stage'[d] = stage[d]
        /\ UNCHANGED <<image, todo, answer, delivered, minted, opened, pending>>
    BY <1>2 DEF Typed, TruncateFile, Nothing
  <2>2. \A d \in Container : Blank(d)'
    BY <2>1 DEF Once, Blank
  <2>3. \A d \in Container, q \in Pair : Exchanging(d, q) => Exchanging(d, q)'
    BY <2>1 DEF Exchanging
  <2>4. Fades
    BY <1>2, StoreFades DEF StoreStep
  <2>5. QED
    BY <2>2, <2>3, <2>4, FadesKeeps
<1>3. ASSUME NEW c \in Container, WriteFile(c) PROVE Once'
  <2>1. /\ stage[c] = "write" /\ image'[c].entries = {}
        /\ \A d \in Container \ {c} : /\ stage'[d] = stage[d] /\ image'[d] = image[d]
                                      /\ todo'[d] = todo[d] /\ answer'[d] = answer[d]
        /\ stage'[c] = "idle" => answer'[c] = {}
        /\ UNCHANGED <<minted, opened, pending>>
    BY <1>3 DEF Typed, WriteFile, Nothing
  <2>2. \A d \in Container \ {c} : stage[d] = "idle" /\ todo[d] = <<>>
    BY <2>1, OthersIdle DEF Typed, Alone
  <2>3. \A d \in Container : Blank(d)'
    BY <2>1 DEF Once, Blank
  <2>4. ASSUME NEW d \in Container, NEW q \in Pair, NEW e \in Entry,
               Exchanging(d, q), From(q, e)
        PROVE  ~InStore(e)'
    <3>1. /\ d = c /\ todo[c][1] = Delete(e)
          /\ \A i \in DOMAIN todo[c] : todo[c][i] # Put(e)
      BY <2>2, <2>4 DEF Exchanging, From
    <3>2. e \notin file'.entries
      <4>1. /\ Head(todo[c]) \in Operation /\ Head(todo[c]) = Delete(e)
            /\ image[c] \in FileType
        BY <2>1, <3>1, HeadTodo DEF Typed
      <4>2. Applied(Head(todo[c]), image[c]).entries = image[c].entries \ {e}
        BY <4>1, AppliedIs DEF Delete
      <4>3. QED
        BY <1>3, <4>2, WriteIs
    <3>3. \A i \in DOMAIN todo'[c] : todo'[c][i] # Put(e)
      BY <1>3, <3>1, TailIs
    <3>4. \A b \in Container : image'[b].entries = {}
      BY <2>1, <2>2 DEF Once, Blank
    <3>5. \A b \in Container \ {c} : DOMAIN todo'[b] = {}
      BY <2>1, <2>2
    <3>6. QED
      BY <3>2, <3>3, <3>4, <3>5 DEF InStore
  <2>5. Fades
    BY <1>3, StoreFades DEF StoreStep
  <2>6. QED
    BY <2>3, <2>4, <2>5, FadesKeeps
<1>4. ASSUME NEW c \in Container, Handler(c) PROVE Once'
  <2>1. Free(c)
    BY <1>4, HandlerIs
  <2>2. ASSUME NEW k \in Client, RegisterClient(c, k) PROVE Once'
    <3> DEFINE ops == <<[op |-> "register", client |-> k]>>
    <3>1. Handle(c, ops, {}, {}) /\ UNCHANGED <<pending, opened, minted>>
      BY <2>2 DEF RegisterClient
    <3>2. \A i \in DOMAIN ops : \A e \in Entry : ops[i] # Put(e)
      BY DEF Put
    <3> HIDE DEF ops
    <3>3. \A d \in Container : pending'[d] \subseteq opened'
      BY <3>1 DEF Once, Blank
    <3>4. Queues(c, {})
      BY <2>1, <3>1, <3>2, <3>3, HandleQueues
    <3>5. QED
      BY <3>1, <3>4, QueuesNothing
  <2>3. ASSUME NEW t \in Txn, Authorize(c, t) PROVE Once'
    <3>1. /\ t \notin opened /\ opened' = opened \cup {t}
          /\ pending'[c] \subseteq pending[c] \cup {t}
          /\ \A d \in Container \ {c} : pending'[d] = pending[d]
          /\ UNCHANGED <<file, todo, stage, image, answer, minted, delivered>>
      BY <2>3 DEF Typed, Authorize, Pruned, fileVars
    <3>2. \A e \in Entry : /\ InStore(e)' <=> InStore(e)
                           /\ InSight(e)' <=> InSight(e)
      BY <3>1 DEF InStore, InSight
    <3>3. \A e \in Entry : Unborn(e)' => Unborn(e)
      BY <3>1 DEF Unborn
    <3>4. \A q \in Pair : /\ \A e \in Entry : From(q, e)' <=> From(q, e)
                          /\ \A d \in Container : Exchanging(d, q)' <=> Exchanging(d, q)
                          /\ Access(q) \in Entry
      BY <3>1, EntriesTyped DEF From, Exchanging
    <3>5. \A d \in Container : Blank(d)'
      BY <3>1 DEF Once, Blank
    <3>6. \A q \in Pair : Spent(q)'
      BY <3>2, <3>4 DEF Once, Spent
    <3>7. QED
      BY <3>2, <3>3, <3>4, <3>5, <3>6 DEF Once
  <2>4. ASSUME NEW t \in Txn, Consent(c, t) PROVE Once'
    BY <2>4, ConsentKeeps
  <2>5. CASE VisitConsent(c)
    <3>1. /\ \A d \in Container : pending'[d] \subseteq pending[d]
          /\ UNCHANGED <<file, todo, stage, image, answer, minted, delivered, opened>>
      BY <2>5 DEF Typed, VisitConsent, Pruned, fileVars
    <3>2. Fades
      BY <3>1 DEF Fades, InStore, InSight
    <3>3. \A d \in Container : Blank(d)'
      BY <3>1 DEF Once, Blank
    <3>4. \A d \in Container, q \in Pair : Exchanging(d, q) => Exchanging(d, q)'
      BY <3>1 DEF Exchanging
    <3>5. QED
      BY <3>2, <3>3, <3>4, FadesKeeps
  <2>6. ASSUME NEW t \in Txn, NEW p \in Pair, ExchangeCode(c, t, p) PROVE Once'
    BY <2>6, IssueKeeps, EntriesTyped DEF ExchangeCode
  <2>7. ASSUME NEW q \in Pair, NEW p \in Pair, ExchangeRefresh(c, q, p) PROVE Once'
    BY <2>7, IssueKeeps, EntriesTyped DEF ExchangeRefresh
  <2>8. ASSUME NEW p \in Pair,
               LoadExpiredAccess(c, p) \/ RevokeAccess(c, p) \/ RevokeRefresh(c, p)
        PROVE  Once'
    <3>1. PICK operations, retire :
              /\ Handle(c, operations, {}, retire)
              /\ \A i \in DOMAIN operations : \A e \in Entry : operations[i] # Put(e)
      <4>1. /\ Delete(Access(p)) \in Operation /\ Delete(Refresh(p)) \in Operation
            /\ Rewrite \in Operation
        BY EntriesTyped, OperationsTyped
      <4>2. \A e \in Entry : /\ Delete(Access(p)) # Put(e) /\ Delete(Refresh(p)) # Put(e)
                             /\ Rewrite # Put(e)
        BY DEF Put, Delete, Rewrite
      <4>3. CASE LoadExpiredAccess(c, p)
        BY <4>1, <4>2, <4>3, One DEF LoadExpiredAccess
      <4>4. CASE RevokeAccess(c, p)
        BY <4>1, <4>2, <4>4, Two DEF RevokeAccess
      <4>5. CASE RevokeRefresh(c, p)
        BY <4>1, <4>2, <4>5, Two DEF RevokeRefresh
      <4>6. QED
        BY <2>8, <4>3, <4>4, <4>5
    <3>2. UNCHANGED <<pending, opened, minted>>
      BY <2>8 DEF LoadExpiredAccess, RevokeAccess, RevokeRefresh
    <3>3. \A d \in Container : pending'[d] \subseteq opened'
      BY <3>2 DEF Once, Blank
    <3>4. Queues(c, {})
      BY <2>1, <3>1, <3>3, HandleQueues
    <3>5. QED
      BY <3>2, <3>4, QueuesNothing
  <2>9. QED
    BY <1>4, <2>2, <2>3, <2>4, <2>5, <2>6, <2>7, <2>8 DEF Handler
<1>5. ASSUME NEW c \in Container, Crash(c) PROVE Once'
  <2>1. /\ \A d \in Container : stage'[d] = "idle" /\ image'[d].entries = {}
        /\ \A d \in Container : DOMAIN todo'[d] = {} /\ answer'[d] = {}
        /\ \A d \in Container : pending'[d] \subseteq pending[d]
        /\ UNCHANGED <<file, delivered, opened, minted>>
    <3>1. /\ stage'[c] = "idle" /\ image'[c].entries = {} /\ todo'[c] = <<>>
          /\ answer'[c] = {} /\ pending'[c] = {}
          /\ \A d \in Container \ {c} : /\ stage'[d] = stage[d] /\ image'[d] = image[d]
                                        /\ todo'[d] = todo[d] /\ answer'[d] = answer[d]
                                        /\ pending'[d] = pending[d]
          /\ c \in up /\ UNCHANGED <<file, delivered, opened, minted>>
      BY <1>5 DEF Typed, Crash, Nothing
    <3>2. \A d \in Container \ {c} : stage[d] = "idle" /\ todo[d] = <<>>
      BY <3>1, OthersIdle DEF Typed
    <3>3. QED
      BY <3>1, <3>2 DEF Once, Blank
  <2>2. \A d \in Container : Blank(d)'
    BY <2>1 DEF Once, Blank
  <2>3. \A d \in Container, q \in Pair : Exchanging(d, q) => ~InSight(Access(q))'
    BY <2>1 DEF Exchanging, InSight, InStore
  <2>4. QED
    BY <1>5, <2>2, <2>3, CrashFades, FadesKeeps
<1>6. ASSUME UNCHANGED <<file, todo, stage, image, answer, minted, delivered, opened, pending>>
      PROVE  Once'
  <2>1. /\ \A e \in Entry : /\ InStore(e)' <=> InStore(e)
                            /\ InSight(e)' <=> InSight(e)
                            /\ Unborn(e)' <=> Unborn(e)
        /\ \A c \in Container : Blank(c)' <=> Blank(c)
    BY <1>6 DEF InStore, InSight, Unborn, Blank
  <2>2. \A q \in Pair : /\ \A e \in Entry : From(q, e)' <=> From(q, e)
                        /\ \A c \in Container : Exchanging(c, q)' <=> Exchanging(c, q)
                        /\ Access(q) \in Entry
    BY <1>6, EntriesTyped DEF From, Exchanging
  <2>3. \A q \in Pair : Spent(q)'
    BY <2>1, <2>2 DEF Once, Spent
  <2>4. QED
    BY <2>1, <2>2, <2>3 DEF Once
<1>7. ASSUME NEW c \in Container, StartContainer(c) PROVE Once'
  BY <1>6, <1>7 DEF StartContainer, fileVars
<1>8. ASSUME NEW x \in Txn \cup Entry, Lapse(x) PROVE Once'
  BY <1>6, <1>8 DEF Lapse, fileVars, containerVars
<1>9. CASE UNCHANGED vars
  BY <1>6, <1>9 DEF vars, fileVars, containerVars
<1>10. QED
  BY <1>1, <1>2, <1>3, <1>4, <1>5, <1>7, <1>8, <1>9 DEF Next, StoreStep

LEMMA OnceAtFirst == Init => Once
<1> SUFFICES ASSUME Init PROVE Once
  OBVIOUS
<1>1. \A e \in Entry : ~InStore(e) /\ ~InSight(e)
  BY DEF Init, InStore, InSight, Nothing
<1>2. \A q \in Pair : \A e \in Entry : ~From(q, e)
  BY DEF Init, From
<1>3. \A c \in Container : Blank(c)
  BY DEF Init, Blank, Nothing
<1>4. QED
  BY <1>1, <1>2, <1>3 DEF Once, Spent

(***************************************************************************)
(* With one container at a time, a code or refresh token yields at most    *)
(* one token pair that is stored or that the client was given, wherever a  *)
(* kill cuts an exchange short and however often the client tries again.   *)
(***************************************************************************)
THEOREM GrantsExchangedOnce ==
    ASSUME MaxUp = 1
    PROVE  Spec => []ExchangedOnce
<1>1. Typed /\ Once => ExchangedOnce
  <2> SUFFICES ASSUME Typed, Once, NEW p \in Pair, NEW q \in Pair, Live(p), Live(q),
                      minted[p].from = minted[q].from
               PROVE  p = q
    BY DEF ExchangedOnce
  <2>1. InSight(Access(p)) /\ InSight(Access(q)) /\ Access(p) \in Entry /\ Access(q) \in Entry
    BY EntriesTyped DEF Live, InSight, InStore
  <2>2. minted[p] # Unminted /\ minted[q] # Unminted
    BY <2>1 DEF Once, Unborn
  <2>3. minted[p].from \in Entry
    BY <2>2 DEF Typed
  <2>4. From(p, minted[p].from) /\ From(q, minted[p].from)
    BY <2>2 DEF From
  <2>5. QED
    BY <2>1, <2>3, <2>4 DEF Once
<1>2. QED
  BY <1>1, OnceAtFirst, OneAtATime, OnceStep, PTL DEF Spec

-----------------------------------------------------------------------------
(* The registry.                                                           *)

\* clients is the end of registered, as long as the cap allows.
Tracks(clients) ==
    /\ Len(clients) <= MaxClients /\ Len(clients) <= Len(registered)
    /\ Len(clients) = MaxClients \/ Len(clients) = Len(registered)
    /\ \A i \in 1 .. Len(clients) :
          clients[i] = registered[Len(registered) - Len(clients) + i]

Registry ==
    /\ \A c \in Container :
          /\ stage[c] = "truncate" => image[c] = Contents
          /\ stage[c] = "write" => torn \/ Tracks(image[c].clients)
    /\ Quiescent /\ ~torn => Tracks(file.clients)

\* A write of the registry as it was, or with one more client, tracks on.
LEMMA WriteTracks ==
    ASSUME Typed, NEW c \in Container, WriteFile(c), Tracks(image[c].clients)
    PROVE  Tracks(file.clients)'
<1> DEFINE o == Head(todo[c])
           old == image[c].clients
           new == Applied(o, image[c]).clients
<1>1. /\ o \in Operation /\ image[c] \in FileType /\ old \in Seq(Client)
      /\ new \in Seq(Client) /\ file'.clients = Newest(new)
      /\ registered \in Seq(Client) /\ MaxClients \in Nat \ {0}
  BY HeadTodo, WriteIs, OAuthAssumption DEF Typed, WriteFile, FileType
<1>2. /\ Newest(new) \in Seq(Client)
      /\ Len(Newest(new)) <= MaxClients /\ Len(Newest(new)) <= Len(new)
      /\ Len(new) <= MaxClients => Len(Newest(new)) = Len(new)
      /\ Len(new) > MaxClients => Len(Newest(new)) = MaxClients
      /\ \A i \in 1 .. Len(Newest(new)) :
            Newest(new)[i] = new[Len(new) - Len(Newest(new)) + i]
  BY <1>1, NewestIs
<1>3. CASE o.op = "register"
  <2>1. new = Append(old, o.client) /\ o.client \in Client
    BY <1>1, <1>3, AppliedIs
  <2>2. registered' = Append(registered, o.client)
    BY <1>3 DEF WriteFile
  <2> HIDE DEF o, new, old
  <2>3. /\ Len(new) = Len(old) + 1 /\ new[Len(old) + 1] = o.client
        /\ \A i \in 1 .. Len(old) : new[i] = old[i]
    BY <1>1, <2>1, AppendProperties
  <2>4. /\ Len(registered') = Len(registered) + 1
        /\ registered'[Len(registered) + 1] = o.client
        /\ \A i \in 1 .. Len(registered) : registered'[i] = registered[i]
    BY <1>1, <2>1, <2>2, AppendProperties
  <2>5. Len(old) \in Nat /\ Len(registered) \in Nat /\ Len(Newest(new)) \in Nat
    BY <1>1, <1>2
  <2>6. /\ Len(old) <= MaxClients /\ Len(old) <= Len(registered)
        /\ Len(old) = MaxClients \/ Len(old) = Len(registered)
        /\ \A i \in 1 .. Len(old) : old[i] = registered[Len(registered) - Len(old) + i]
    BY DEF Tracks, old
  <2>7. \A i \in 1 .. Len(new) : new[i] = registered'[Len(registered') - Len(new) + i]
    <3> SUFFICES ASSUME NEW i \in 1 .. Len(new)
                 PROVE  new[i] = registered'[Len(registered') - Len(new) + i]
      OBVIOUS
    <3>1. Len(registered') - Len(new) = Len(registered) - Len(old)
      BY <2>3, <2>4, <2>5
    <3>2. CASE i \in 1 .. Len(old)
      <4>1. Len(registered) - Len(old) + i \in 1 .. Len(registered)
        BY <2>5, <2>6, <3>2
      <4>2. QED
        BY <2>3, <2>4, <2>6, <3>1, <3>2, <4>1
    <3>3. CASE i = Len(old) + 1
      <4>1. Len(registered) - Len(old) + i = Len(registered) + 1
        BY <2>5, <3>3
      <4>2. QED
        BY <2>3, <2>4, <3>1, <3>3, <4>1
    <3>4. QED
      BY <2>3, <2>5, <3>2, <3>3
  <2>8. \A i \in 1 .. Len(Newest(new)) :
            Newest(new)[i] = registered'[Len(registered') - Len(Newest(new)) + i]
    <3> SUFFICES ASSUME NEW i \in 1 .. Len(Newest(new))
                 PROVE  Newest(new)[i] = registered'[Len(registered') - Len(Newest(new)) + i]
      OBVIOUS
    <3> DEFINE j == Len(new) - Len(Newest(new)) + i
    <3>1. /\ j \in 1 .. Len(new)
          /\ Len(registered') - Len(new) + j = Len(registered') - Len(Newest(new)) + i
      BY <1>2, <2>3, <2>4, <2>5
    <3>2. QED
      BY <1>2, <2>7, <3>1
  <2>9. QED
    BY <1>1, <1>2, <2>3, <2>4, <2>5, <2>6, <2>8 DEF Tracks
<1>4. CASE o.op # "register"
  <2>1. new = old
    BY <1>1, <1>4, AppliedIs
  <2>2. registered' = registered
    BY <1>4 DEF WriteFile
  <2>3. Newest(new) = old
    BY <2>1, <1>1 DEF Newest, Tracks
  <2>4. QED
    BY <1>1, <2>2, <2>3 DEF Tracks
<1>5. QED
  BY <1>3, <1>4

LEMMA RegistryStep == Typed /\ Alone /\ Registry /\ [Next]_vars => Registry'
<1> SUFFICES ASSUME Typed, Alone, Registry, [Next]_vars PROVE Registry'
  OBVIOUS
<1>1. ASSUME NEW c \in Container, ReadFile(c) PROVE Registry'
  <2>1. /\ stage[c] = "read" /\ stage'[c] = "truncate" /\ image'[c] = Contents
        /\ \A d \in Container \ {c} : stage'[d] = stage[d] /\ image'[d] = image[d]
        /\ UNCHANGED <<file, registered, torn>>
    BY <1>1 DEF Typed, ReadFile, fileVars
  <2>2. QED
    BY <2>1 DEF Registry, Tracks, Quiescent, Contents
<1>2. ASSUME NEW c \in Container, TruncateFile(c) PROVE Registry'
  <2>1. /\ stage[c] = "truncate" /\ stage'[c] = "write"
        /\ \A d \in Container \ {c} : stage'[d] = stage[d]
        /\ UNCHANGED <<image, registered, torn>>
    BY <1>2 DEF Typed, TruncateFile
  <2>2. \A d \in Container \ {c} : stage[d] = "idle"
    BY <2>1, OthersIdle DEF Alone
  <2>3. image[c] = file /\ (torn \/ Tracks(image[c].clients))
    BY <2>1, <2>2, ContentsAre DEF Registry, Quiescent
  <2>4. torn' \/ Tracks(image[c].clients)'
    BY <2>1, <2>3 DEF Tracks
  <2>5. QED
    BY <2>1, <2>2, <2>4 DEF Registry, Quiescent
<1>3. ASSUME NEW c \in Container, WriteFile(c) PROVE Registry'
  <2>1. /\ stage[c] = "write" /\ stage'[c] \in {"idle", "read"}
        /\ \A d \in Container \ {c} : stage'[d] = stage[d]
        /\ UNCHANGED torn
    BY <1>3 DEF Typed, WriteFile
  <2>2. \A d \in Container \ {c} : stage[d] = "idle"
    BY <2>1, OthersIdle DEF Alone
  <2>3. torn \/ Tracks(file.clients)'
    BY <1>3, <2>1, WriteTracks DEF Registry
  <2>4. QED
    BY <2>1, <2>2, <2>3 DEF Registry
<1>4. ASSUME NEW c \in Container, Handler(c) PROVE Registry'
  <2>1. Free(c) /\ (Waits(c) \/ Handles(c))
    BY <1>4, HandlerIs
  <2>2. \A d \in Container : stage[d] = "idle"
    BY <2>1, OthersIdle DEF Free
  <2>3. /\ UNCHANGED <<file, registered, torn>>
        /\ \A d \in Container : stage'[d] \in {"idle", "read"}
    BY <2>1, <2>2 DEF Typed, Waits, Handles, Handle, Authorize, VisitConsent, fileVars
  <2>4. QED
    BY <2>2, <2>3 DEF Registry, Tracks, Quiescent
<1>5. ASSUME NEW c \in Container, Crash(c) PROVE Registry'
  <2>1. \A d \in Container : stage'[d] = "idle"
    BY <1>5, OthersIdle DEF Typed, Crash
  <2>2. torn' \/ (~torn /\ Quiescent)
    BY <1>5, OthersIdle DEF Typed, Crash, Quiescent
  <2>3. UNCHANGED <<file, registered>>
    BY <1>5 DEF Crash
  <2>4. QED
    BY <2>1, <2>2, <2>3 DEF Registry, Tracks
<1>6. ASSUME UNCHANGED <<file, stage, image, registered, torn>> PROVE Registry'
  BY <1>6 DEF Registry, Tracks, Quiescent, Contents
<1>7. ASSUME NEW c \in Container, StartContainer(c) PROVE Registry'
  BY <1>6, <1>7 DEF StartContainer, fileVars
<1>8. ASSUME NEW x \in Txn \cup Entry, Lapse(x) PROVE Registry'
  BY <1>6, <1>8 DEF Lapse, fileVars, containerVars
<1>9. CASE UNCHANGED vars
  BY <1>6, <1>9 DEF vars, fileVars, containerVars
<1>10. QED
  BY <1>1, <1>2, <1>3, <1>4, <1>5, <1>7, <1>8, <1>9 DEF Next, StoreStep

LEMMA TracksIsSuffix ==
    ASSUME Typed, NEW s \in Seq(Client), Tracks(s)
    PROVE  IsSuffix(s, registered) /\ Len(s) = Min({MaxClients, Len(registered)})
<1> DEFINE r == registered
           n == Len(s)
<1>1. r \in Seq(Client) /\ Len(r) \in Nat /\ n \in Nat /\ n <= Len(r)
      /\ MaxClients \in Nat /\ n <= MaxClients /\ (n = MaxClients \/ n = Len(r))
  BY OAuthAssumption DEF Typed, Tracks
<1>2. Reverse(s) = [i \in 1 .. n |-> s[n - i + 1]]
      /\ Reverse(r) = [i \in 1 .. Len(r) |-> r[Len(r) - i + 1]]
  BY DEF Reverse
<1>3. /\ Reverse(s) \in Seq(Client) /\ Len(Reverse(s)) = n
      /\ Reverse(r) \in Seq(Client) /\ Len(Reverse(r)) = Len(r)
  <2>1. /\ \A i \in 1 .. n : n - i + 1 \in 1 .. n /\ s[n - i + 1] \in Client
        /\ \A i \in 1 .. Len(r) : Len(r) - i + 1 \in 1 .. Len(r) /\ r[Len(r) - i + 1] \in Client
    BY <1>1
  <2>2. QED
    BY <1>1, <1>2, <2>1
<1>4. \A i \in 1 .. n : Reverse(s)[i] = Reverse(r)[i]
  <2> SUFFICES ASSUME NEW i \in 1 .. n PROVE Reverse(s)[i] = Reverse(r)[i]
    OBVIOUS
  <2>1. n - i + 1 \in 1 .. n /\ i \in 1 .. Len(r)
    BY <1>1
  <2>2. s[n - i + 1] = r[Len(r) - n + (n - i + 1)]
    BY <2>1 DEF Tracks
  <2>3. Len(r) - n + (n - i + 1) = Len(r) - i + 1
    BY <1>1
  <2>4. QED
    BY <1>2, <2>1, <2>2, <2>3
<1> HIDE DEF r, n
<1>5. SubSeq(Reverse(s), 1, n) = SubSeq(Reverse(r), 1, n)
  <2>1. \A i \in 1 .. n : Reverse(s)[i] \in Client /\ Reverse(r)[i] \in Client
    BY <1>1, <1>3
  <2>2. /\ SubSeq(Reverse(s), 1, n) \in Seq(Client) /\ Len(SubSeq(Reverse(s), 1, n)) = n
        /\ \A i \in 1 .. n : SubSeq(Reverse(s), 1, n)[i] = Reverse(s)[i]
    BY <1>1, <1>3
  <2>3. /\ SubSeq(Reverse(r), 1, n) \in Seq(Client) /\ Len(SubSeq(Reverse(r), 1, n)) = n
        /\ \A i \in 1 .. n : SubSeq(Reverse(r), 1, n)[i] = Reverse(r)[i]
    BY <1>1, <1>3
  <2>4. QED
    BY <1>4, <2>2, <2>3, SeqEqual
<1>6. IsSuffix(s, r)
  BY <1>1, <1>3, <1>5 DEF IsSuffix, IsPrefix
<1>7. n = Min({MaxClients, Len(r)})
  BY <1>1 DEF Min
<1>8. QED
  BY <1>6, <1>7 DEF r, n

(***************************************************************************)
(* With one container at a time, the registry is the end of the list of    *)
(* all registrations, as long as its cap allows: a write or an eviction    *)
(* only ever costs the oldest client its place.                            *)
(***************************************************************************)
THEOREM NewestStay ==
    ASSUME MaxUp = 1
    PROVE  Spec => []NewestClients
<1>1. Init => Registry
  BY OAuthAssumption DEF Init, Registry, Tracks, Nothing
<1>2. Typed /\ Registry => NewestClients
  <2>1. Typed => file.clients \in Seq(Client)
    BY DEF Typed, FileType
  <2>2. QED
    BY <2>1, TracksIsSuffix DEF Registry, NewestClients
<1>3. QED
  BY <1>1, <1>2, OneAtATime, RegistryStep, PTL DEF Spec

-----------------------------------------------------------------------------
(* The file is a store with atomic updates.                                *)

\* Every put and delete once, the deletes first.
InOrder(operations) ==
    \A i, j \in DOMAIN operations :
        /\ operations[i] = operations[j] /\ operations[i].op \in {"put", "delete"} => i = j
        /\ operations[i].op = "put" /\ operations[j].op = "delete" => j < i

\* How c's handler goes about it, and that what it writes back, into an empty
\* file, fits.
Laid(c) ==
    /\ InOrder(todo[c])
    /\ stage[c] = "write" => file = Nothing
    /\ stage[c] \in {"truncate", "write"} => Len(image[c].clients) <= MaxClients

Dues == {e \in Entry : Planned(Put(e))}
Dooms == {e \in Entry : Planned(Delete(e))}

LEMMA HeldWriting ==
    ASSUME Typed, Alone, NEW c \in Container, stage[c] = "write"
    PROVE  Held = image[c]
<1>1. \A d \in Container : stage[d] = "write" => d = c
  BY DEF Alone
<1>2. (CHOOSE d \in Container : stage[d] = "write") = c
  BY <1>1
<1>3. QED
  BY <1>2 DEF Held, Quiescent

LEMMA HeldResting == ASSUME Typed, Quiescent PROVE Held = file
BY ContentsAre DEF Held

\* What the handler at work has planned is in its list.
LEMMA PlannedIs ==
    ASSUME Typed, NEW c \in Container, \A d \in Container \ {c} : stage[d] = "idle", NEW o
    PROVE  Planned(o) <=> \E i \in DOMAIN todo[c] : todo[c][i] = o
<1>1. \A d \in Container \ {c} : DOMAIN todo[d] = {}
  BY DEF Typed
<1>2. QED
  BY <1>1 DEF Planned

\* No store operation has begun or ended.
LEMMA StoreStutters ==
    ASSUME Held' = Held, Dues' = Dues, Dooms' = Dooms, Unmade' = Unmade,
           UNCHANGED lapsed
    PROVE  UNCHANGED Store!vars
BY DEF Store!vars, Dues, Dooms

LEMMA ReadIsNone ==
    ASSUME Typed, Alone, NEW c \in Container, ReadFile(c)
    PROVE  UNCHANGED Store!vars
<1>1. /\ stage[c] = "read" /\ stage'[c] = "truncate"
      /\ \A d \in Container \ {c} : stage'[d] = stage[d] /\ image'[d] = image[d]
      /\ UNCHANGED <<file, todo, pending, opened, minted, lapsed>>
  BY DEF Typed, ReadFile, fileVars
<1>2. \A d \in Container \ {c} : stage[d] = "idle"
  BY <1>1 DEF Alone
<1>3. Quiescent /\ Quiescent'
  BY <1>1, <1>2 DEF Quiescent
<1>4. Held' = Held
  BY <1>1, <1>3 DEF Held, Contents
<1>5. Dues' = Dues /\ Dooms' = Dooms /\ Unmade' = Unmade
  BY <1>1 DEF Dues, Dooms, Planned, Unmade
<1>6. QED
  BY <1>1, <1>4, <1>5, StoreStutters

LEMMA TruncateIsNone ==
    ASSUME Typed, Alone, Registry, NEW c \in Container, TruncateFile(c)
    PROVE  UNCHANGED Store!vars
<1>1. /\ stage[c] = "truncate" /\ stage'[c] = "write"
      /\ \A d \in Container \ {c} : stage'[d] = stage[d]
      /\ UNCHANGED <<image, todo, pending, opened, minted, lapsed>>
  BY DEF Typed, TruncateFile
<1>2. \A d \in Container \ {c} : stage[d] = "idle"
  BY <1>1 DEF Alone
<1>3. Held = Contents /\ image[c] = Contents
  BY <1>1, <1>2 DEF Held, Quiescent, Registry
<1>4. (CHOOSE d \in Container : stage'[d] = "write") = c
  BY <1>1, <1>2
<1>5. Held' = image'[c]
  BY <1>1, <1>4 DEF Held, Quiescent
<1>6. Dues' = Dues /\ Dooms' = Dooms /\ Unmade' = Unmade
  BY <1>1 DEF Dues, Dooms, Planned, Unmade
<1>7. QED
  BY <1>1, <1>3, <1>5, <1>6, StoreStutters

\* The operations left after a write: all but the one written.
LEMMA LeftOver ==
    ASSUME Typed, Alone, NEW c \in Container, Laid(c), WriteFile(c)
    PROVE  /\ Dues' = Dues \ {e \in Entry : todo[c][1] = Put(e)}
           /\ Dooms' = Dooms \ {e \in Entry : todo[c][1] = Delete(e)}
           /\ \A e \in Entry : todo[c][1] = Put(e) => e \in Dues /\ Dooms = {}
           /\ \A e \in Entry : todo[c][1] = Delete(e) => e \in Dooms
<1>1. stage[c] = "write"
  BY DEF WriteFile
<1>2. \A d \in Container \ {c} : stage[d] = "idle"
  BY <1>1 DEF Alone
<1>3. \A d \in Container \ {c} : DOMAIN todo[d] = {} /\ todo'[d] = todo[d]
  BY <1>2 DEF Typed, WriteFile
<1>4. /\ DOMAIN todo[c] = 1 .. Len(todo[c]) /\ Len(todo[c]) \in Nat /\ Len(todo[c]) >= 1
      /\ todo'[c] = Tail(todo[c]) /\ DOMAIN todo'[c] = 1 .. Len(todo[c]) - 1
      /\ \A i \in DOMAIN todo'[c] : todo'[c][i] = todo[c][i + 1]
  <2>1. todo'[c] = Tail(todo[c])
    BY DEF Typed, WriteFile
  <2>2. QED
    BY <1>1, <2>1, HeadTodo
<1>5. ASSUME NEW o, o.op \in {"put", "delete"}
      PROVE  Planned(o)' <=> Planned(o) /\ todo[c][1] # o
  <2>1. Planned(o) <=> \E i \in DOMAIN todo[c] : todo[c][i] = o
    BY <1>3 DEF Planned
  <2>2. Planned(o)' <=> \E i \in DOMAIN todo'[c] : todo'[c][i] = o
    BY <1>3 DEF Planned
  <2>3. ASSUME NEW i \in DOMAIN todo'[c], todo'[c][i] = o
        PROVE  (\E j \in DOMAIN todo[c] : todo[c][j] = o) /\ todo[c][1] # o
    <3>1. i + 1 \in DOMAIN todo[c] /\ todo[c][i + 1] = o /\ i + 1 # 1 /\ 1 \in DOMAIN todo[c]
      BY <1>4, <2>3
    <3>2. QED
      BY <1>5, <3>1 DEF Laid, InOrder
  <2>4. ASSUME NEW i \in DOMAIN todo[c], todo[c][i] = o, todo[c][1] # o
        PROVE  \E j \in DOMAIN todo'[c] : todo'[c][j] = o
    <3>1. i - 1 \in DOMAIN todo'[c] /\ (i - 1) + 1 = i
      BY <1>4, <2>4
    <3>2. QED
      BY <1>4, <2>4, <3>1
  <2>5. QED
    BY <2>1, <2>2, <2>3, <2>4
<1>6. \A e \in Entry : Put(e).op = "put" /\ Delete(e).op = "delete"
  BY DEF Put, Delete
<1>7. /\ Dues' = Dues \ {e \in Entry : todo[c][1] = Put(e)}
      /\ Dooms' = Dooms \ {e \in Entry : todo[c][1] = Delete(e)}
  <2>1. \A e \in Entry : /\ Planned(Put(e))' <=> Planned(Put(e)) /\ todo[c][1] # Put(e)
                         /\ Planned(Delete(e))' <=> Planned(Delete(e)) /\ todo[c][1] # Delete(e)
    BY <1>5, <1>6
  <2>2. QED
    BY <2>1 DEF Dues, Dooms
<1>8. 1 \in DOMAIN todo[c] /\ \A i \in DOMAIN todo[c] : ~(i < 1)
  BY <1>4
<1>9. \A e \in Entry : todo[c][1] = Put(e) => e \in Dues /\ Dooms = {}
  <2> SUFFICES ASSUME NEW e \in Entry, todo[c][1] = Put(e) PROVE e \in Dues /\ Dooms = {}
    OBVIOUS
  <2>1. e \in Dues
    BY <1>8 DEF Dues, Planned
  <2>2. ASSUME NEW f \in Entry, Planned(Delete(f)) PROVE FALSE
    <3>1. PICK i \in DOMAIN todo[c] : todo[c][i] = Delete(f)
      BY <1>3, <2>2 DEF Planned
    <3>2. QED
      BY <1>6, <1>8, <3>1 DEF Laid, InOrder
  <2>3. QED
    BY <2>1, <2>2 DEF Dooms
<1>10. \A e \in Entry : todo[c][1] = Delete(e) => e \in Dooms
  BY <1>8 DEF Dooms, Planned
<1>11. QED
  BY <1>7, <1>9, <1>10

\* A write is one update of what the store held.
LEMMA WriteIsUpdate ==
    ASSUME Typed, Alone, NEW c \in Container, Laid(c), WriteFile(c)
    PROVE  Store!Next
<1> DEFINE o == Head(todo[c])
           f == image[c]
           expired == lapsed \cap Entry
<1>1. /\ stage[c] = "write" /\ stage'[c] \in {"idle", "read"}
      /\ \A d \in Container \ {c} : stage'[d] = stage[d]
      /\ UNCHANGED <<pending, opened, minted, lapsed>>
  BY DEF Typed, WriteFile
<1>2. /\ o \in Operation /\ o = todo[c][1]
      /\ f \in FileType /\ f.clients \in Seq(Client) /\ f.entries \subseteq Entry
      /\ Len(f.clients) <= MaxClients
  BY <1>1, HeadTodo DEF Typed, FileType, Laid
<1>3. Held = f
  BY <1>1, HeldWriting
<1>4. Held' = file'
  <2>1. \A d \in Container : stage'[d] # "write"
    BY <1>1 DEF Alone
  <2>2. file'.ok
    BY WriteIs
  <2>3. QED
    BY <2>1, <2>2 DEF Held, Quiescent, Contents
<1>5. /\ Applied(o, f) \in FileType
      /\ Held'.entries = Applied(o, f).entries \ lapsed
      /\ Held'.clients = Newest(Applied(o, f).clients)
  BY <1>4, WriteIs
<1>6. Held'.entries = Applied(o, f).entries \ expired
  BY <1>5 DEF FileType
<1>7. Unmade' = Unmade /\ expired' = expired
  BY <1>1 DEF Unmade
<1>8. Newest(f.clients) = f.clients
  BY <1>2 DEF Newest
<1>9. /\ Dues' = Dues \ {e \in Entry : o = Put(e)}
      /\ Dooms' = Dooms \ {e \in Entry : o = Delete(e)}
      /\ \A e \in Entry : o = Put(e) => e \in Dues /\ Dooms = {}
      /\ \A e \in Entry : o = Delete(e) => e \in Dooms
  BY <1>2, LeftOver
<1> HIDE DEF o, f
<1>10. CASE o.op = "put"
  <2>1. /\ o.entry \in Entry /\ o = Put(o.entry)
        /\ Applied(o, f).entries = f.entries \cup {o.entry} /\ Applied(o, f).clients = f.clients
    BY <1>2, <1>10, AppliedIs DEF Operation, Put
  <2>2. /\ {e \in Entry : o = Put(e)} = {o.entry} /\ {e \in Entry : o = Delete(e)} = {}
    BY <2>1, EntriesDiffer
  <2>3. Store!Put(o.entry)
    BY <1>3, <1>5, <1>6, <1>7, <1>8, <1>9, <2>1, <2>2
       DEF Store!Put, Store!Update, Dues, Dooms
  <2>4. QED
    BY <2>1, <2>3 DEF Store!Next
<1>11. CASE o.op = "delete"
  <2>1. /\ o.entry \in Entry /\ o = Delete(o.entry)
        /\ Applied(o, f).entries = f.entries \ {o.entry} /\ Applied(o, f).clients = f.clients
    BY <1>2, <1>11, AppliedIs DEF Operation, Delete
  <2>2. /\ {e \in Entry : o = Put(e)} = {} /\ {e \in Entry : o = Delete(e)} = {o.entry}
    BY <2>1 DEF Put, Delete
  <2>3. Store!Drop(o.entry)
    BY <1>3, <1>5, <1>6, <1>7, <1>8, <1>9, <2>1, <2>2
       DEF Store!Drop, Store!Update, Dues, Dooms
  <2>4. QED
    BY <2>1, <2>3 DEF Store!Next
<1>12. ASSUME o.op \in {"rewrite", "register"}
       PROVE  /\ Dues' = Dues /\ Dooms' = Dooms
              /\ Applied(o, f).entries = f.entries
  <2>1. \A e \in Entry : o # Put(e) /\ o # Delete(e)
    BY <1>12 DEF Put, Delete
  <2>2. QED
    BY <1>2, <1>9, <1>12, <2>1, AppliedIs
<1>13. CASE o.op = "rewrite"
  <2>1. Applied(o, f).clients = f.clients
    BY <1>2, <1>13, AppliedIs
  <2>2. Store!Tidy
    BY <1>3, <1>5, <1>6, <1>7, <1>8, <1>12, <1>13, <2>1
       DEF Store!Tidy, Store!Update, Dues, Dooms
  <2>3. QED
    BY <2>2 DEF Store!Next
<1>14. CASE o.op = "register"
  <2>1. o.client \in Client /\ Applied(o, f).clients = Append(f.clients, o.client)
    BY <1>2, <1>14, AppliedIs
  <2>2. Held'.clients = Store!Capped(Append(Held.clients, o.client))
    BY <1>3, <1>5, <2>1 DEF Newest, Store!Capped
  <2>3. Store!Register(o.client)
    BY <1>3, <1>6, <1>7, <1>12, <1>14, <2>2
       DEF Store!Register, Store!Update, Dues, Dooms
  <2>4. QED
    BY <2>1, <2>3 DEF Store!Next
<1>15. QED
  BY <1>2, <1>10, <1>11, <1>13, <1>14, AppliedIs

\* With nothing under way, nothing is planned.
LEMMA RestIsQuiet ==
    ASSUME Typed, Alone, NEW c \in Container, Free(c)
    PROVE  /\ \A d \in Container : stage[d] = "idle" /\ DOMAIN todo[d] = {}
           /\ Quiescent /\ Held = file /\ Contents = file
           /\ Dues = {} /\ Dooms = {}
<1>1. \A d \in Container : stage[d] = "idle"
  BY OthersIdle DEF Free
<1>2. \A d \in Container : DOMAIN todo[d] = {}
  BY <1>1 DEF Typed
<1>3. Quiescent
  BY <1>1 DEF Quiescent
<1>4. Dues = {} /\ Dooms = {}
  BY <1>2 DEF Dues, Dooms, Planned
<1>5. QED
  BY <1>1, <1>2, <1>3, <1>4, HeldResting, ContentsAre

\* Exactly this is put and deleted.
Plans(operations, puts, drops) ==
    \A e \in Entry : /\ (\E i \in DOMAIN operations : operations[i] = Put(e)) <=> e \in puts
                     /\ (\E i \in DOMAIN operations : operations[i] = Delete(e)) <=> e \in drops

\* A handler's first step announces what it will put and delete.
LEMMA HandleAnnounces ==
    ASSUME Typed, Alone, NEW c \in Container, Free(c), NEW operations,
           NEW handout, NEW retire, Handle(c, operations, handout, retire),
           NEW puts \in SUBSET Unmade, NEW drops \in SUBSET file.entries,
           Plans(operations, puts, drops), Unmade' \subseteq Unmade \ puts
    PROVE  Store!Next
<1>1. /\ \A d \in Container : stage[d] = "idle" /\ DOMAIN todo[d] = {}
      /\ Held = file /\ Dues = {} /\ Dooms = {}
  BY RestIsQuiet
<1>2. /\ todo'[c] = operations /\ stage'[c] = "read"
      /\ \A d \in Container \ {c} : todo'[d] = todo[d] /\ stage'[d] = stage[d]
      /\ UNCHANGED <<file, lapsed>>
  BY DEF Typed, Handle, fileVars
<1>3. Held' = file
  <2>1. Quiescent'
    BY <1>1, <1>2 DEF Quiescent
  <2>2. QED
    BY <1>2, <2>1, ContentsAre DEF Held, Contents
<1>4. puts \subseteq Entry /\ drops \subseteq Entry
  <2>1. Unmade \subseteq Entry
    BY EntriesTyped DEF Unmade
  <2>2. file.entries \subseteq Entry
    BY DEF Typed, FileType
  <2>3. QED
    BY <2>1, <2>2
<1>5. \A o : Planned(o)' <=> \E i \in DOMAIN operations : operations[i] = o
  BY <1>1, <1>2 DEF Planned
<1>6. Dues' = puts /\ Dooms' = drops
  BY <1>4, <1>5 DEF Dues, Dooms, Plans
<1>7. Store!Announce(puts, drops)
  BY <1>1, <1>2, <1>3, <1>6 DEF Store!Announce, Dues, Dooms
<1>8. QED
  BY <1>1, <1>7 DEF Store!Next

\* Consent may be asked for or given up meanwhile.
LEMMA WaitsAnnounces ==
    ASSUME Typed, Alone, NEW c \in Container, Free(c), Waits(c)
    PROVE  Store!Next
<1>1. /\ Held = file /\ Dues = {} /\ Dooms = {} /\ Quiescent /\ Contents = file
  BY RestIsQuiet
<1>2. UNCHANGED <<file, todo, stage, image, lapsed, minted>>
  BY DEF Waits, Authorize, VisitConsent, fileVars
<1>3. Held' = file /\ Dues' = {} /\ Dooms' = {}
  BY <1>1, <1>2 DEF Held, Quiescent, Contents, Dues, Dooms, Planned
<1>4. Unmade' \subseteq Unmade
  <2>1. ASSUME NEW t \in Txn, t \notin opened' \/ \E d \in Container : t \in pending'[d]
        PROVE  t \notin opened \/ \E d \in Container : t \in pending[d]
    <3>1. ASSUME NEW u \in Txn, Authorize(c, u)
          PROVE  t \notin opened \/ \E d \in Container : t \in pending[d]
      <4>1. /\ u \notin opened /\ opened' = opened \cup {u}
            /\ pending'[c] = Pruned(c) \cup {u} /\ \A d \in Container \ {c} : pending'[d] = pending[d]
        BY <3>1 DEF Typed, Authorize
      <4>2. QED
        BY <2>1, <4>1 DEF Pruned
    <3>2. ASSUME VisitConsent(c)
          PROVE  t \notin opened \/ \E d \in Container : t \in pending[d]
      <4>1. /\ opened' = opened /\ pending'[c] = Pruned(c)
            /\ \A d \in Container \ {c} : pending'[d] = pending[d]
        BY <3>2 DEF Typed, VisitConsent
      <4>2. QED
        BY <2>1, <4>1 DEF Pruned
    <3>3. QED
      BY <3>1, <3>2 DEF Waits
  <2>2. QED
    BY <1>2, <2>1 DEF Unmade
<1>5. Store!Announce({}, {})
  BY <1>1, <1>2, <1>3, <1>4 DEF Store!Announce, Dues, Dooms
<1>6. QED
  BY <1>5 DEF Store!Next

LEMMA ConsentAnnounces ==
    ASSUME Typed, Alone, Once, NEW c \in Container, NEW t \in Txn, Consent(c, t)
    PROVE  Store!Next /\ InOrder(todo'[c])
<1>1. /\ t \in pending[c] /\ t \in opened /\ Free(c)
      /\ pending'[c] = Pruned(c) \ {t} /\ \A d \in Container \ {c} : pending'[d] = pending[d]
      /\ UNCHANGED <<opened, minted>>
      /\ Handle(c, <<Put(Code(t))>>, {Code(t)}, {})
      /\ Code(t) \in Entry /\ Put(Code(t)) \in Operation
  BY EntriesTyped, OperationsTyped DEF Typed, Consent, Once, Blank, Pruned
<1>2. \A d \in Container : pending'[d] \subseteq pending[d] /\ t \notin pending'[d]
  BY <1>1 DEF Alone, Free, Pruned
<1>3. Code(t) \in Unmade /\ Unmade' \subseteq Unmade \ {Code(t)}
  <2>1. Code(t) \in Unmade
    BY <1>1 DEF Unmade
  <2>2. Unmade' \subseteq Unmade
    BY <1>1, <1>2 DEF Unmade
  <2>3. Code(t) \notin Unmade'
    BY <1>1, <1>2, EntriesDiffer DEF Unmade
  <2>4. QED
    BY <2>1, <2>2, <2>3
<1>4. PICK ops : ops = <<Put(Code(t))>>
  OBVIOUS
<1>5. DOMAIN ops = {1} /\ ops[1] = Put(Code(t))
  BY <1>1, <1>4, One
<1>6. Plans(ops, {Code(t)}, {})
  BY <1>1, <1>5, EntriesDiffer DEF Plans
<1>7. Store!Next
  <2>1. /\ Handle(c, ops, {Code(t)}, {}) /\ {Code(t)} \in SUBSET Unmade
        /\ {} \in SUBSET file.entries
    BY <1>1, <1>3, <1>4
  <2>2. QED
    BY <1>1, <1>3, <1>6, <2>1, HandleAnnounces
<1>8. InOrder(todo'[c])
  <2>1. todo'[c] = ops
    BY <1>1, <1>4 DEF Typed, Handle
  <2>2. QED
    BY <1>5, <2>1 DEF InOrder, Put
<1>9. QED
  BY <1>7, <1>8

LEMMA IssueAnnounces ==
    ASSUME Typed, Alone, NEW c \in Container, NEW e \in Entry, NEW k,
           NEW p \in Pair, Issue(c, e, k, p)
    PROVE  Store!Next /\ InOrder(todo'[c])
<1>1. PICK ops : ops = <<Delete(e), Put(Access(p)), Put(Refresh(p))>>
  OBVIOUS
<1>2. /\ Free(c) /\ Presentable(e, k) /\ minted[p] = Unminted
      /\ minted' = [minted EXCEPT ![p] = [from |-> e, client |-> k]]
      /\ Handle(c, ops, {Access(p), Refresh(p)}, {e})
      /\ UNCHANGED <<pending, opened>>
  BY <1>1 DEF Issue
<1>3. /\ Access(p) \in Entry /\ Refresh(p) \in Entry /\ Delete(e) \in Operation
      /\ Put(Access(p)) \in Operation /\ Put(Refresh(p)) \in Operation
  BY EntriesTyped, OperationsTyped
<1>4. /\ DOMAIN ops = {1, 2, 3} /\ ops[1] = Delete(e) /\ ops[2] = Put(Access(p))
      /\ ops[3] = Put(Refresh(p))
  BY <1>1, <1>3, Three
<1>5. {Access(p), Refresh(p)} \subseteq Unmade /\ {e} \subseteq file.entries
  <2>1. {Access(p), Refresh(p)} \subseteq Unmade
    BY <1>2 DEF Unmade
  <2>2. QED
    BY <1>2, <2>1, ContentsAre DEF Presentable
<1>6. Unmade' \subseteq Unmade \ {Access(p), Refresh(p)}
  <2>1. [from |-> e, client |-> k] # Unminted
    <3>1. Unminted = [from |-> Nothing]
      BY DEF Unminted
    <3>2. DOMAIN [from |-> e, client |-> k] # DOMAIN [from |-> Nothing]
      OBVIOUS
    <3>3. QED
      BY <3>1, <3>2
  <2>2. minted'[p] # Unminted /\ \A q \in Pair : minted'[q] = Unminted => minted[q] = Unminted
    BY <1>2, <2>1 DEF Typed
  <2>3. Unmade' \subseteq Unmade
    BY <1>2, <2>2 DEF Unmade
  <2>4. Access(p) \notin Unmade' /\ Refresh(p) \notin Unmade'
    BY <2>2, EntriesDiffer DEF Unmade
  <2>5. QED
    BY <2>3, <2>4
<1>7. Plans(ops, {Access(p), Refresh(p)}, {e})
  <2>1. \A f, g \in Entry : Delete(f) = Delete(g) => f = g
    BY DEF Delete
  <2>2. QED
    BY <1>3, <1>4, <2>1, EntriesDiffer DEF Plans
<1>8. Store!Next
  BY <1>2, <1>5, <1>6, <1>7, HandleAnnounces
<1>9. InOrder(todo'[c])
  <2>1. todo'[c] = ops
    BY <1>2 DEF Typed, Handle
  <2>2. /\ ops[1].op = "delete" /\ ops[2].op = "put" /\ ops[3].op = "put"
        /\ ops[1] # ops[2] /\ ops[1] # ops[3] /\ ops[2] # ops[3]
    BY <1>3, <1>4, EntriesDiffer DEF Put, Delete
  <2>3. QED
    BY <1>4, <2>1, <2>2 DEF InOrder
<1>10. QED
  BY <1>8, <1>9

\* A handler that deletes at most one entry, and puts nothing.
LEMMA DropAnnounces ==
    ASSUME Typed, Alone, NEW c \in Container, Free(c), NEW operations,
           NEW handout, NEW retire, Handle(c, operations, handout, retire),
           \A i \in DOMAIN operations : operations[i].op # "put",
           NEW drops \in SUBSET file.entries,
           \A i, j \in DOMAIN operations :
               operations[i].op = "delete" /\ operations[j].op = "delete" => i = j,
           Plans(operations, {}, drops),
           UNCHANGED <<pending, opened, minted>>
    PROVE  Store!Next /\ InOrder(todo'[c])
<1>1. Unmade' = Unmade
  BY DEF Unmade
<1>2. {} \in SUBSET Unmade /\ Unmade' \subseteq Unmade \ {}
  BY <1>1
<1>3. Store!Next
  BY <1>2, HandleAnnounces
<1>4. todo'[c] = operations
  BY DEF Typed, Handle
<1>5. InOrder(todo'[c])
  BY <1>4 DEF InOrder
<1>6. QED
  BY <1>3, <1>5

LEMMA HandlerAnnounces ==
    ASSUME Typed, Alone, Once, NEW c \in Container, Handler(c), InOrder(todo[c])
    PROVE  Store!Next /\ InOrder(todo'[c])
<1>0. \A e, f \in Entry : Delete(e) = Delete(f) => e = f
  BY DEF Delete
<1>1. ASSUME NEW k \in Client, RegisterClient(c, k) PROVE Store!Next /\ InOrder(todo'[c])
  <2>1. PICK ops : ops = <<[op |-> "register", client |-> k]>>
    OBVIOUS
  <2>2. Free(c) /\ Handle(c, ops, {}, {}) /\ UNCHANGED <<pending, opened, minted>>
    BY <1>1, <2>1 DEF RegisterClient
  <2>3. DOMAIN ops = {1} /\ ops[1].op = "register"
    BY <2>1, OperationsTyped, One
  <2>4. Plans(ops, {}, {}) /\ {} \in SUBSET file.entries
    BY <2>3 DEF Plans, Put, Delete
  <2>5. QED
    BY <2>2, <2>3, <2>4, DropAnnounces
<1>2. ASSUME NEW t \in Txn, Authorize(c, t) PROVE Store!Next /\ InOrder(todo'[c])
  <2>1. Free(c) /\ Waits(c) /\ todo' = todo
    BY <1>2 DEF Authorize, Waits
  <2>2. QED
    BY <2>1, WaitsAnnounces
<1>3. ASSUME NEW t \in Txn, Consent(c, t) PROVE Store!Next /\ InOrder(todo'[c])
  BY <1>3, ConsentAnnounces
<1>4. ASSUME VisitConsent(c) PROVE Store!Next /\ InOrder(todo'[c])
  <2>1. Free(c) /\ Waits(c) /\ todo' = todo
    BY <1>4 DEF VisitConsent, Waits
  <2>2. QED
    BY <2>1, WaitsAnnounces
<1>5. ASSUME NEW t \in Txn, NEW p \in Pair, ExchangeCode(c, t, p)
      PROVE  Store!Next /\ InOrder(todo'[c])
  BY <1>5, IssueAnnounces, EntriesTyped DEF ExchangeCode
<1>6. ASSUME NEW q \in Pair, NEW p \in Pair, ExchangeRefresh(c, q, p)
      PROVE  Store!Next /\ InOrder(todo'[c])
  BY <1>6, IssueAnnounces, EntriesTyped DEF ExchangeRefresh
<1>7. ASSUME NEW p \in Pair, LoadExpiredAccess(c, p) PROVE Store!Next /\ InOrder(todo'[c])
  <2>1. PICK ops : ops = <<Delete(Access(p))>>
    OBVIOUS
  <2>2. Free(c) /\ Handle(c, ops, {}, {}) /\ UNCHANGED <<pending, opened, minted>>
    BY <1>7, <2>1 DEF LoadExpiredAccess
  <2>3. DOMAIN ops = {1} /\ ops[1] = Delete(Access(p)) /\ Access(p) \in Entry
    BY <2>1, EntriesTyped, OperationsTyped, One
  <2>4. Plans(ops, {}, {Access(p)}) /\ ops[1].op = "delete"
    BY <1>0, <2>3, EntriesDiffer DEF Plans, Delete, Put
  <2>5. {Access(p)} \in SUBSET file.entries
    BY <1>7, ContentsAre DEF LoadExpiredAccess
  <2>6. QED
    BY <2>2, <2>3, <2>4, <2>5, DropAnnounces
<1>8. ASSUME NEW p \in Pair, RevokeAccess(c, p) PROVE Store!Next /\ InOrder(todo'[c])
  <2>1. PICK ops : ops = <<Delete(Access(p)), Rewrite>>
    OBVIOUS
  <2>2. /\ Free(c) /\ Handle(c, ops, {}, {Access(p)})
        /\ UNCHANGED <<pending, opened, minted>>
    BY <1>8, <2>1 DEF RevokeAccess
  <2>3. /\ DOMAIN ops = {1, 2} /\ ops[1] = Delete(Access(p)) /\ ops[2] = Rewrite
        /\ Access(p) \in Entry
    BY <2>1, EntriesTyped, OperationsTyped, Two
  <2>4. Plans(ops, {}, {Access(p)}) /\ ops[1].op = "delete" /\ ops[2].op = "rewrite"
    BY <1>0, <2>3, EntriesDiffer DEF Plans, Delete, Put, Rewrite
  <2>5. {Access(p)} \in SUBSET file.entries
    BY <1>8, ContentsAre DEF RevokeAccess
  <2>6. QED
    BY <2>2, <2>3, <2>4, <2>5, DropAnnounces
<1>9. ASSUME NEW p \in Pair, RevokeRefresh(c, p) PROVE Store!Next /\ InOrder(todo'[c])
  <2>1. PICK ops : ops = <<Rewrite, Delete(Refresh(p))>>
    OBVIOUS
  <2>2. /\ Free(c) /\ Handle(c, ops, {}, {Refresh(p)})
        /\ UNCHANGED <<pending, opened, minted>>
    BY <1>9, <2>1 DEF RevokeRefresh
  <2>3. /\ DOMAIN ops = {1, 2} /\ ops[1] = Rewrite /\ ops[2] = Delete(Refresh(p))
        /\ Refresh(p) \in Entry
    BY <2>1, EntriesTyped, OperationsTyped, Two
  <2>4. Plans(ops, {}, {Refresh(p)}) /\ ops[1].op = "rewrite" /\ ops[2].op = "delete"
    BY <1>0, <2>3, EntriesDiffer DEF Plans, Delete, Put, Rewrite
  <2>5. {Refresh(p)} \in SUBSET file.entries
    BY <1>9, ContentsAre DEF RevokeRefresh
  <2>6. QED
    BY <2>2, <2>3, <2>4, <2>5, DropAnnounces
<1>10. QED
  BY <1>1, <1>2, <1>3, <1>4, <1>5, <1>6, <1>7, <1>8, <1>9 DEF Handler

\* Death in the middle of a write takes everything, any other death nothing.
LEMMA CrashIsDeath ==
    ASSUME Typed, Alone, NEW c \in Container, Laid(c), Crash(c)
    PROVE  Store!Next
<1>1. /\ c \in up /\ todo'[c] = <<>> /\ stage'[c] = "idle"
      /\ \A d \in Container \ {c} : /\ todo'[d] = todo[d] /\ stage'[d] = stage[d]
      /\ \A d \in Container : pending'[d] \subseteq pending[d]
      /\ UNCHANGED <<file, opened, minted, lapsed>>
  BY DEF Typed, Crash
<1>2. \A d \in Container \ {c} : stage[d] = "idle" /\ DOMAIN todo[d] = {}
  BY <1>1, OthersIdle DEF Typed
<1>3. \A d \in Container : stage'[d] = "idle" /\ DOMAIN todo'[d] = {}
  BY <1>1, <1>2
<1>4. Dues' = {} /\ Dooms' = {}
  BY <1>3 DEF Dues, Dooms, Planned
<1>5. Unmade' \subseteq Unmade
  BY <1>1 DEF Unmade
<1>6. Held' = file
  BY <1>1, <1>3, ContentsAre DEF Held, Quiescent, Contents
<1>7. \/ Held' = Held
      \/ Held'.clients = <<>> /\ Held'.entries = {}
  <2>1. CASE stage[c] = "write" /\ file = Nothing
    BY <1>6, <2>1 DEF Nothing
  <2>2. CASE stage[c] # "write"
    BY <1>2, <1>6, <2>2, HeldResting DEF Quiescent
  <2>3. QED
    BY <2>1, <2>2 DEF Laid
<1>8. Store!Die
  BY <1>1, <1>4, <1>5, <1>7 DEF Store!Die, Dues, Dooms
<1>9. QED
  BY <1>8 DEF Store!Next

LEMMA LapseExpires ==
    ASSUME Typed, NEW x \in Txn \cup Entry, Lapse(x)
    PROVE  [Store!Next]_Store!vars
<1>1. /\ UNCHANGED <<file, todo, stage, image, pending, opened, minted>>
      /\ lapsed' = lapsed \cup {x}
  BY DEF Lapse, fileVars, containerVars
<1>2. Held' = Held /\ Dues' = Dues /\ Dooms' = Dooms /\ Unmade' = Unmade
  BY <1>1 DEF Held, Quiescent, Contents, Dues, Dooms, Planned, Unmade
<1>3. CASE x \in Entry
  <2>1. (lapsed \cap Entry)' = (lapsed \cap Entry) \cup {x}
    BY <1>1, <1>3
  <2>2. Store!Expire(x)
    BY <1>2, <2>1 DEF Store!Expire, Dues, Dooms
  <2>3. QED
    BY <1>3, <2>2 DEF Store!Next
<1>4. CASE x \notin Entry
  <2>1. (lapsed \cap Entry)' = lapsed \cap Entry
    BY <1>1, <1>4
  <2>2. QED
    BY <1>2, <2>1 DEF Store!vars, Dues, Dooms
<1>5. QED
  BY <1>3, <1>4

AllLaid == \A c \in Container : Laid(c)

\* Every step of the provider is one of the store, or none.
LEMMA StoreStepwise ==
    Typed /\ Alone /\ Once /\ Registry /\ AllLaid /\ [Next]_vars
        => [Store!Next]_Store!vars
<1> SUFFICES ASSUME Typed, Alone, Once, Registry, AllLaid, [Next]_vars
             PROVE  [Store!Next]_Store!vars
  OBVIOUS
<1>1. ASSUME NEW c \in Container, StoreStep(c) PROVE [Store!Next]_Store!vars
  BY <1>1, ReadIsNone, TruncateIsNone, WriteIsUpdate DEF StoreStep, AllLaid
<1>2. ASSUME NEW c \in Container, Handler(c) PROVE [Store!Next]_Store!vars
  BY <1>2, HandlerAnnounces DEF AllLaid, Laid
<1>3. ASSUME NEW c \in Container, StartContainer(c) PROVE [Store!Next]_Store!vars
  <2>1. UNCHANGED <<file, todo, stage, image, pending, opened, minted, lapsed>>
    BY <1>3 DEF StartContainer, fileVars
  <2>2. Held' = Held /\ Dues' = Dues /\ Dooms' = Dooms /\ Unmade' = Unmade
    BY <2>1 DEF Held, Quiescent, Contents, Dues, Dooms, Planned, Unmade
  <2>3. QED
    BY <2>1, <2>2, StoreStutters
<1>4. ASSUME NEW c \in Container, Crash(c) PROVE [Store!Next]_Store!vars
  BY <1>4, CrashIsDeath DEF AllLaid
<1>5. ASSUME NEW x \in Txn \cup Entry, Lapse(x) PROVE [Store!Next]_Store!vars
  BY <1>5, LapseExpires
<1>6. CASE UNCHANGED vars
  <2>1. UNCHANGED <<file, todo, stage, image, pending, opened, minted, lapsed>>
    BY <1>6 DEF vars, fileVars, containerVars
  <2>2. Held' = Held /\ Dues' = Dues /\ Dooms' = Dooms /\ Unmade' = Unmade
    BY <2>1 DEF Held, Quiescent, Contents, Dues, Dooms, Planned, Unmade
  <2>3. QED
    BY <2>1, <2>2, StoreStutters
<1>7. QED
  BY <1>1, <1>2, <1>3, <1>4, <1>5, <1>6 DEF Next

LEMMA LaidStep ==
    Typed /\ Alone /\ Once /\ AllLaid /\ [Next]_vars => AllLaid'
<1> SUFFICES ASSUME Typed, Alone, Once, AllLaid, [Next]_vars PROVE AllLaid'
  OBVIOUS
<1>1. ASSUME NEW c \in Container, ReadFile(c) PROVE AllLaid'
  <2>1. /\ stage'[c] = "truncate" /\ image'[c] = file
        /\ \A d \in Container \ {c} : stage'[d] = stage[d] /\ image'[d] = image[d]
        /\ UNCHANGED <<file, todo>> /\ Len(file.clients) <= MaxClients
    BY <1>1, ContentsAre DEF Typed, ReadFile, fileVars
  <2>2. Laid(c)'
    BY <2>1 DEF AllLaid, Laid, InOrder
  <2>3. ASSUME NEW d \in Container \ {c} PROVE Laid(d)'
    BY <2>1 DEF AllLaid, Laid, InOrder
  <2>4. QED
    BY <2>2, <2>3 DEF AllLaid
<1>2. ASSUME NEW c \in Container, TruncateFile(c) PROVE AllLaid'
  <2>1. /\ stage[c] = "truncate" /\ stage'[c] = "write" /\ file' = Nothing
        /\ \A d \in Container \ {c} : stage'[d] = stage[d]
        /\ UNCHANGED <<image, todo>>
    BY <1>2 DEF Typed, TruncateFile
  <2>2. QED
    BY <2>1 DEF AllLaid, Laid, InOrder, Nothing
<1>3. ASSUME NEW c \in Container, WriteFile(c) PROVE AllLaid'
  <2>1. /\ stage[c] = "write" /\ stage'[c] \in {"idle", "read"}
        /\ \A d \in Container \ {c} : stage'[d] = stage[d] /\ todo'[d] = todo[d]
    BY <1>3 DEF Typed, WriteFile
  <2>2. \A d \in Container \ {c} : stage[d] = "idle"
    BY <2>1 DEF Alone
  <2>3. InOrder(todo'[c])
    <3>1. \A i \in DOMAIN todo'[c] : /\ i + 1 \in DOMAIN todo[c] /\ i \in Nat
                                     /\ todo'[c][i] = todo[c][i + 1]
      <4>1. todo'[c] = Tail(todo[c]) /\ stage[c] # "idle"
        BY <1>3, <2>1 DEF Typed, WriteFile
      <4>2. DOMAIN todo'[c] = 1 .. Len(todo[c]) - 1 /\ Len(todo[c]) \in Nat
        BY <4>1, HeadTodo
      <4>3. QED
        BY <1>3, <4>2, TailIs
    <3>2. ASSUME NEW i \in DOMAIN todo'[c], NEW j \in DOMAIN todo'[c]
          PROVE  /\ /\ todo'[c][i] = todo'[c][j] /\ todo'[c][i].op \in {"put", "delete"}
                    => i = j
                 /\ todo'[c][i].op = "put" /\ todo'[c][j].op = "delete" => j < i
      <4>1. /\ todo[c][i + 1] = todo[c][j + 1] /\ todo[c][i + 1].op \in {"put", "delete"}
               => i + 1 = j + 1
            /\ todo[c][i + 1].op = "put" /\ todo[c][j + 1].op = "delete" => j + 1 < i + 1
        BY <3>1 DEF AllLaid, Laid, InOrder
      <4>2. QED
        BY <3>1, <4>1
    <3>3. QED
      BY <3>2 DEF InOrder
  <2>4. QED
    BY <2>1, <2>2, <2>3 DEF AllLaid, Laid
<1>4. ASSUME NEW c \in Container, Handler(c) PROVE AllLaid'
  <2>1. InOrder(todo'[c])
    BY <1>4, HandlerAnnounces DEF AllLaid, Laid
  <2>2. Free(c) /\ (Waits(c) \/ Handles(c))
    BY <1>4, HandlerIs
  <2>3. /\ stage'[c] \in {"idle", "read"}
        /\ \A d \in Container \ {c} : stage'[d] = stage[d] /\ todo'[d] = todo[d]
    BY <2>2 DEF Typed, Free, Waits, Handles, Handle, Authorize, VisitConsent
  <2>4. \A d \in Container \ {c} : stage[d] = "idle"
    BY <2>2, OthersIdle DEF Free
  <2>5. QED
    BY <2>1, <2>3, <2>4 DEF AllLaid, Laid
<1>5. ASSUME NEW c \in Container, Crash(c) PROVE AllLaid'
  <2>1. /\ stage'[c] = "idle" /\ todo'[c] = <<>>
        /\ \A d \in Container \ {c} : /\ stage'[d] = stage[d] /\ todo'[d] = todo[d]
                                      /\ image'[d] = image[d]
        /\ UNCHANGED file
    BY <1>5 DEF Typed, Crash
  <2>2. QED
    BY <2>1 DEF AllLaid, Laid, InOrder
<1>6. ASSUME UNCHANGED <<file, stage, image, todo>> PROVE AllLaid'
  BY <1>6 DEF AllLaid, Laid, InOrder
<1>7. ASSUME NEW c \in Container, StartContainer(c) PROVE AllLaid'
  BY <1>6, <1>7 DEF StartContainer, fileVars
<1>8. ASSUME NEW x \in Txn \cup Entry, Lapse(x) PROVE AllLaid'
  BY <1>6, <1>8 DEF Lapse, fileVars, containerVars
<1>9. CASE UNCHANGED vars
  BY <1>6, <1>9 DEF vars, fileVars, containerVars
<1>10. QED
  BY <1>1, <1>2, <1>3, <1>4, <1>5, <1>7, <1>8, <1>9 DEF Next, StoreStep

(***************************************************************************)
(* With one container at a time the provider implements StateStore: what   *)
(* its handlers do to the file in steps is a sequence of atomic updates,   *)
(* in which nothing is put twice, nothing is put before what the handler   *)
(* spends is gone, and only the death of a container in the middle of a    *)
(* write takes away what no handler announced.                             *)
(***************************************************************************)
THEOREM StoreRefines ==
    ASSUME MaxUp = 1
    PROVE  Spec => ImplementsStateStore
<1>1. Init => Store!Init
  <2> SUFFICES ASSUME Init PROVE Store!Init
    OBVIOUS
  <2>1. \A c \in Container : stage[c] = "idle" /\ DOMAIN todo[c] = {}
    BY DEF Init
  <2>2. Held.clients = <<>> /\ Held.entries = {}
    BY <2>1 DEF Init, Held, Quiescent, Contents, Nothing
  <2>3. Dues = {} /\ Dooms = {}
    BY <2>1 DEF Dues, Dooms, Planned
  <2>4. Unmade = Entry
    BY DEF Init, Unmade, Entry, Code, Access, Refresh
  <2>5. QED
    BY <2>2, <2>3, <2>4 DEF Init, Store!Init, Dues, Dooms
<1>2. Init => AllLaid
  BY DEF Init, AllLaid, Laid, InOrder
<1>3. Init => Registry
  BY OAuthAssumption DEF Init, Registry, Tracks, Nothing
<1>4. QED
  BY <1>1, <1>2, <1>3, OnceAtFirst, OneAtATime, OnceStep, RegistryStep, LaidStep, StoreStepwise, PTL
     DEF Spec, Store!Spec, ImplementsStateStore
=============================================================================
