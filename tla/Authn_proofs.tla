---------------------------- MODULE Authn_proofs ----------------------------
(***************************************************************************)
(* Proofs about client tokens, for any instances, caches, clients, tokens, *)
(* expiries and faults.                                                    *)
(***************************************************************************)
EXTENDS Authn, TLAPS

RequestType ==
    [cache : Cache, token : Token, op : {"evaluate", "expire"},
     namespaces : SUBSET (Namespace \cup {Empty}), exp : Time \cup {Nothing}]

\* The types of what TypeOK leaves open.
Shape ==
    /\ req \in [Client -> {Idle} \cup RequestType]
    /\ settled \in [Cache -> SUBSET Id] /\ overlap \in [Cache -> SUBSET Id]
    /\ after \in [Client -> SUBSET Id]
    /\ newer \in [Instance -> SUBSET Id]

\* A copy of an authentication has been issued, for its token, and has an
\* expiry no later than the latest one granted.
Within(e, g) == g = Never \/ (e # Never /\ e <= g)
Granted(t, a) ==
    /\ a.id <= issued /\ (t = a.id \/ t = Configured)
    /\ Within(a.exp, granted[a.id])

\* The authentication a is kept for the token t: as the row, as an entry of a
\* cache, or by a request.
Copy(t, a) ==
    \/ rows[t] = a
    \/ \E k \in Cache : tokenEntry[k][t] = a
    \/ \E c \in Client : auth[c] = a /\ req[c].token = t

CopiesGranted == \A t \in Token, a \in Authentication : Copy(t, a) => Granted(t, a)

\* A starting instance has seen no static token but the ones issued since.
NoneSeen ==
    \A i \in Instance : boot[i] = "empty" => \A t \in TokenRows : rows[t].id \in newer[i]

(***************************************************************************)
(* The invalidation.  An authentication is known by one token everywhere,  *)
(* so a logout removes every copy its cache has.  When nothing overlapped: *)
(* no lookup fills a cache during a change that goes through it; a copy in *)
(* a cache has the entry that leads to it, or soon will; once the change   *)
(* has returned, the copies in the cache agree with the database.          *)
(***************************************************************************)
Holds(i, t) == \E a \in Authentication : Copy(t, a) /\ a.id = i

Named(i, t) == \E k \in Cache : idEntry[k][i] = t

OneToken ==
    \A i \in Id, t, u \in Token : Holds(i, t) /\ (Holds(i, u) \/ Named(i, u)) => t = u

Fills(c) == pc[c] \in {"setToken", "setId"}
Changes(c) == pc[c] \in {"idGet", "deleteToken", "deleteId"}
Meet(c, d) == K(c) = K(d) /\ auth[c].id = auth[d].id

Apart ==
    \A c, d \in Client :
      c # d /\ Changes(c) /\ (Changes(d) \/ Fills(d)) /\ Meet(c, d) =>
        auth[c].id \in overlap[K(c)]

EntriesNamed ==
    \A k \in Cache, t \in Token : tokenEntry[k][t] # Nothing =>
      LET i == tokenEntry[k][t].id
      IN  i \in overlap[k] \/ idEntry[k][i] # Nothing \/ Filling(k, i)

EntryDeleted ==
    \A c \in Client, t \in Token :
      /\ pc[c] = "deleteId"
      /\ tokenEntry[K(c)][t] # Nothing /\ tokenEntry[K(c)][t].id = auth[c].id
      => auth[c].id \in overlap[K(c)]

\* A copy has the expiry of the row of its token, if that is its row.
Agrees(t, a) == rows[t] # Nothing /\ rows[t].id = a.id => a.exp = rows[t].exp

EntriesAgree ==
    \A k \in Cache, t \in Token :
      tokenEntry[k][t] # Nothing /\ tokenEntry[k][t].id \in settled[k] \ overlap[k] =>
        Agrees(t, tokenEntry[k][t])

FillsAgree ==
    \A c \in Client : Fills(c) /\ auth[c].id \in settled[K(c)] \ overlap[K(c)] =>
      Agrees(req[c].token, auth[c])

ChecksAgree ==
    \A c \in Client : pc[c] = "check" /\ auth[c].id \in after[c] \ overlap[K(c)] =>
      Agrees(req[c].token, auth[c])

AfterSettled == \A c \in Client : pc[c] # "idle" => after[c] \subseteq settled[K(c)]

Invalidation ==
    /\ OneToken /\ Apart /\ EntriesNamed /\ EntryDeleted
    /\ EntriesAgree /\ FillsAgree /\ ChecksAgree /\ AfterSettled

AuthnInv == TypeOK /\ Shape /\ CopiesGranted /\ NoneSeen /\ Invalidation

-----------------------------------------------------------------------------
(* Authentications.                                                        *)

LEMMA AuthenticationFields ==
    ASSUME NEW a \in Authentication
    PROVE  /\ a.id \in Id /\ a.exp \in Time \cup {Never} /\ a # Nothing
           /\ a.method = "token" => a.meta \in Scope
BY AuthnAssumption DEF Authentication

\* A new one.
LEMMA NewAuthentication ==
    ASSUME NEW n \in Id, NEW p \in ({"token"} \X Scope) \cup ({"oidc"} \X BOOLEAN),
           NEW e \in Time \cup {Never}
    PROVE  LET a == [id |-> n, method |-> p[1], exp |-> e, meta |-> p[2]]
           IN  a \in Authentication /\ a.id = n /\ a.exp = e
<1>1. CASE p \in {"token"} \X Scope
  BY <1>1 DEF Authentication
<1>2. CASE p \in {"oidc"} \X BOOLEAN
  BY <1>2 DEF Authentication
<1> QED BY <1>1, <1>2

\* One whose expiry is changed.
LEMMA ChangedAuthentication ==
    ASSUME NEW a \in Authentication, NEW e \in Time \cup {Never}
    PROVE  LET b == [a EXCEPT !.exp = e]
           IN  b \in Authentication /\ b.id = a.id /\ b.exp = e /\ b.method = a.method
<1>1. CASE a \in [id : Id, method : {"token"}, exp : Time \cup {Never}, meta : Scope]
  BY <1>1 DEF Authentication
<1>2. CASE a \in [id : Id, method : {"oidc"}, exp : Time \cup {Never}, meta : BOOLEAN]
  BY <1>2 DEF Authentication
<1> QED BY <1>1, <1>2 DEF Authentication

-----------------------------------------------------------------------------
(* Requests, and the kinds of steps.                                       *)

LEMMA RequestFacts ==
    ASSUME TypeOK, Shape, NEW c \in Client
    PROVE  /\ pc[c] = "idle" => req[c] = Idle /\ auth[c] = Nothing
           /\ pc[c] # "idle" => req[c] \in RequestType /\ K(c) \in Cache /\ req[c].token \in Token
           /\ pc[c] \in {"get", "read"} => auth[c] = Nothing
           /\ pc[c] \notin {"idle", "get", "read"} =>
                auth[c] \in Authentication /\ auth[c].id \in Id
                /\ auth[c].exp \in Time \cup {Never}
<1>1. pc[c] = "idle" => req[c] = Idle /\ auth[c] = Nothing
  BY DEF TypeOK
<1>2. ASSUME pc[c] # "idle"
      PROVE  req[c] \in RequestType /\ K(c) \in Cache /\ req[c].token \in Token
  <2>1. req[c] \in RequestType
    BY <1>2 DEF TypeOK, Shape
  <2> QED BY <2>1 DEF RequestType, K
<1>3. pc[c] \in {"get", "read"} => auth[c] = Nothing
  BY DEF TypeOK
<1>4. ASSUME pc[c] \notin {"idle", "get", "read"}
      PROVE  auth[c] \in Authentication /\ auth[c].id \in Id
             /\ auth[c].exp \in Time \cup {Never}
  <2>1. auth[c] \in Authentication
    BY <1>4 DEF TypeOK
  <2> QED BY <2>1, AuthenticationFields
<1> QED BY <1>1, <1>2, <1>3, <1>4

AnyProfile == ({"token"} \X Scope) \cup ({"oidc"} \X BOOLEAN)

Inserts(t, n, p, e) ==
    /\ n = issued + 1 /\ (t = n \/ t = Configured)
    /\ rows[t] = Nothing
    /\ rows' = [rows EXCEPT ![t] = [id |-> n, method |-> p[1], exp |-> e, meta |-> p[2]]]
    /\ issued' = n
    /\ granted' = [granted EXCEPT ![n] = e]
    /\ UNCHANGED <<caches, requestVars, histories>>

Aside == UNCHANGED <<db, caches, requestVars, histories>>

LEMMA StepKinds ==
    ASSUME [Next]_vars
    PROVE  \/ \E t \in Token, n \in Id, p \in AnyProfile, e \in Time \cup {Never} :
                Inserts(t, n, p, e)
           \/ \E t \in Token : DeleteAuthentications(t)
           \/ Aside
           \/ \E k \in Cache, t \in Token : DropToken(k, t)
           \/ \E k \in Cache, i \in Id : DropId(k, i)
           \/ \E c \in Client : Step(c) \/ Begins(c)
<1>1. ASSUME NEW n \in Id, NEW p \in Profile, NEW e \in Expiry, CreateAuthentication(n, p, e)
      PROVE  Inserts(n, n, p, e) /\ n \in Token /\ p \in AnyProfile /\ e \in Time \cup {Never}
  BY <1>1, AuthnAssumption DEF CreateAuthentication, Insert, Inserts, AnyProfile, Token
<1>2. ASSUME NEW i \in Instance, BootstrapCreate(i)
      PROVE  \E t \in Token, n \in Id, p \in AnyProfile, e \in Time \cup {Never} :
                Inserts(t, n, p, e)
  <2> DEFINE t(n) == IF configured THEN Configured ELSE n
  <2>1. PICK n \in Id, e \in Expiry, s \in BootScope : Insert(t(n), n, "token", e, s)
    BY <1>2 DEF BootstrapCreate
  <2> DEFINE p == <<"token", s>>
  <2>2. p \in AnyProfile /\ p[1] = "token" /\ p[2] = s
    BY AuthnAssumption DEF AnyProfile
  <2>3. t(n) \in Token /\ (t(n) = n \/ t(n) = Configured) /\ e \in Time \cup {Never}
    BY AuthnAssumption DEF Token
  <2>4. Inserts(t(n), n, p, e)
    BY <1>2, <2>1, <2>3 DEF Insert, Inserts, BootstrapCreate
  <2> QED BY <2>2, <2>3, <2>4
<1>3. ASSUME NEW i \in Instance, BootstrapList(i) \/ BootstrapRefused(i) PROVE Aside
  BY <1>3 DEF BootstrapList, BootstrapRefused, Aside
<1>4. ASSUME Tick \/ UNCHANGED vars PROVE Aside
  BY <1>4 DEF Tick, vars, Aside, db, caches, requestVars, histories
<1> QED BY <1>1, <1>2, <1>3, <1>4 DEF Next, Token

-----------------------------------------------------------------------------
(* The types, part by part.                                                *)

DbTyped ==
    /\ rows \in [Token -> Authentication \cup {Nothing}]
    /\ issued \in 0..MaxIds
    /\ granted \in [Id -> Time \cup {Never}]

CachesTyped ==
    /\ tokenEntry \in [Cache -> [Token -> Authentication \cup {Nothing}]]
    /\ idEntry \in [Cache -> [Id -> Token \cup {Nothing}]]

Labels == {"idle", "get", "read", "setToken", "setId", "check", "expire", "idGet",
           "deleteToken", "deleteId"}

RequestsTyped ==
    /\ pc \in [Client -> Labels]
    /\ req \in [Client -> {Idle} \cup RequestType]
    /\ auth \in [Client -> Authentication \cup {Nothing}]
    /\ \A c \in Client :
         /\ pc[c] = "idle" <=> req[c] = Idle
         /\ auth[c] # Nothing <=> pc[c] \notin {"idle", "get", "read"}

HistoriesTyped ==
    /\ settled \in [Cache -> SUBSET Id] /\ overlap \in [Cache -> SUBSET Id]
    /\ after \in [Client -> SUBSET Id]
    /\ \A k \in Cache : settled[k] \cup overlap[k] \subseteq 1..issued

NamesTyped ==
    \A k \in Cache, i \in Id, t \in Token :
      idEntry[k][i] = t => i <= issued /\ (t = i \/ t = Configured)

RestTyped ==
    /\ now \in Time
    /\ boot \in [Instance -> {"down", "empty", "up"}] /\ configured \in BOOLEAN
    /\ newer \in [Instance -> SUBSET Id]
    /\ changes \in 0..MaxChanges /\ faults \in 0..MaxFaults

Typed == /\ DbTyped /\ CachesTyped /\ RequestsTyped /\ HistoriesTyped /\ NamesTyped
         /\ RestTyped

LEMMA TypesTogether == TypeOK /\ Shape <=> Typed
BY DEF TypeOK, Shape, Typed, DbTyped, CachesTyped, RequestsTyped, HistoriesTyped, NamesTyped,
       RestTyped, Labels

LEMMA InsertTyped ==
    ASSUME DbTyped, NEW t \in Token, NEW n \in Id, NEW p \in AnyProfile,
           NEW e \in Time \cup {Never}, Inserts(t, n, p, e)
    PROVE  DbTyped' /\ issued' = issued + 1 /\ issued' \in Id /\ rows'[t] \in Authentication
           /\ rows'[t].id = issued' /\ rows'[t].exp = granted'[issued'] /\ granted'[issued'] = e
           /\ \A u \in Token : u # t => rows'[u] = rows[u]
           /\ \A i \in Id : i # issued' => granted'[i] = granted[i]
<1> DEFINE a == [id |-> n, method |-> p[1], exp |-> e, meta |-> p[2]]
<1>1. a \in Authentication /\ a.id = n /\ a.exp = e
  BY NewAuthentication, Zenon DEF AnyProfile
<1>2. rows' = [rows EXCEPT ![t] = a] /\ issued' = n /\ n = issued + 1
      /\ granted' = [granted EXCEPT ![n] = e]
  BY DEF Inserts
<1> HIDE DEF a
<1> QED BY <1>1, <1>2 DEF DbTyped, Id

\* A change of the expiry of i.
ExpiresRow(i, e) ==
    /\ rows' = [t \in Token |-> IF rows[t] # Nothing /\ rows[t].id = i
                                THEN [rows[t] EXCEPT !.exp = e] ELSE rows[t]]
    /\ granted' = [granted EXCEPT ![i] = Later(@, e)]
    /\ issued' = issued

LEMMA ExpiryTyped ==
    ASSUME TypeOK, Shape, NEW c \in Client, pc[c] # "idle"
    PROVE  ExpiryOf(c) \in Time
<1>1. req[c].exp \in Time \cup {Nothing}
  BY RequestFacts DEF RequestType
<1> QED BY <1>1 DEF ExpiryOf, TypeOK

LEMMA LaterTyped ==
    ASSUME NEW e \in Time \cup {Never}, NEW f \in Time \cup {Never}
    PROVE  Later(e, f) \in Time \cup {Never}
           /\ Within(e, Later(e, f)) /\ Within(f, Later(e, f))
BY AuthnAssumption DEF Later, Within, Time

LEMMA ExpireTyped ==
    ASSUME DbTyped, NEW i \in Id, NEW e \in Time \cup {Never}, ExpiresRow(i, e)
    PROVE  /\ DbTyped' /\ granted'[i] = Later(granted[i], e)
           /\ \A j \in Id : j # i => granted'[j] = granted[j]
           /\ \A t \in Token :
                \/ rows'[t] = rows[t] /\ (rows[t] # Nothing => rows[t].id # i)
                \/ /\ rows[t] \in Authentication /\ rows'[t] \in Authentication
                   /\ rows[t].id = i /\ rows'[t].id = i /\ rows'[t].exp = e
                   /\ rows'[t].method = rows[t].method
<1>1. ASSUME NEW t \in Token, rows[t] # Nothing, rows[t].id = i
      PROVE  /\ rows[t] \in Authentication /\ rows'[t] \in Authentication
             /\ rows'[t].id = i /\ rows'[t].exp = e /\ rows'[t].method = rows[t].method
  <2>1. rows[t] \in Authentication /\ rows'[t] = [rows[t] EXCEPT !.exp = e]
    BY <1>1 DEF DbTyped, ExpiresRow
  <2> DEFINE a == rows[t]
             b == [a EXCEPT !.exp = e]
  <2>2. b \in Authentication /\ b.id = a.id /\ b.exp = e /\ b.method = a.method
    <3> HIDE DEF a
    <3> QED BY <2>1, ChangedAuthentication DEF a
  <2> QED BY <1>1, <2>1, <2>2, Zenon
<1>2. ASSUME NEW t \in Token, ~(rows[t] # Nothing /\ rows[t].id = i)
      PROVE  rows'[t] = rows[t] /\ rows[t] \in Authentication \cup {Nothing}
  BY <1>2 DEF DbTyped, ExpiresRow
<1>3. rows' \in [Token -> Authentication \cup {Nothing}]
  BY <1>1, <1>2 DEF ExpiresRow
<1>4. granted[i] \in Time \cup {Never}
  BY DEF DbTyped
<1>5. granted' \in [Id -> Time \cup {Never}] /\ granted'[i] = Later(granted[i], e)
      /\ \A j \in Id : j # i => granted'[j] = granted[j]
  BY <1>4, LaterTyped DEF DbTyped, ExpiresRow
<1>6. DbTyped'
  BY <1>3, <1>5 DEF DbTyped, ExpiresRow
<1> QED BY <1>1, <1>2, <1>5, <1>6

\* An entry of one of the caches is set.
LEMMA TokenSet ==
    ASSUME CachesTyped, NEW k \in Cache, NEW t \in Token, NEW a \in Authentication \cup {Nothing},
           tokenEntry' = [tokenEntry EXCEPT ![k][t] = a]
    PROVE  /\ tokenEntry' \in [Cache -> [Token -> Authentication \cup {Nothing}]]
           /\ tokenEntry'[k][t] = a
           /\ \A j \in Cache, u \in Token : j # k \/ u # t => tokenEntry'[j][u] = tokenEntry[j][u]
BY DEF CachesTyped

LEMMA IdSet ==
    ASSUME CachesTyped, NEW k \in Cache, NEW i \in Id, NEW t \in Token \cup {Nothing},
           idEntry' = [idEntry EXCEPT ![k][i] = t]
    PROVE  /\ idEntry' \in [Cache -> [Id -> Token \cup {Nothing}]]
           /\ idEntry'[k][i] = t
           /\ \A l \in Cache, j \in Id : l # k \/ j # i => idEntry'[l][j] = idEntry[l][j]
BY DEF CachesTyped

\* What requests do to the database.
LEMMA RequestsExpireRows ==
    ASSUME NEW c \in Client, Step(c) \/ Begins(c)
    PROVE  \/ UNCHANGED db
           \/ pc[c] = "expire" /\ ExpireRow(c) /\ ExpiresRow(auth[c].id, ExpiryOf(c))
<1>1. ASSUME ExpireRow(c)
      PROVE  \/ UNCHANGED db
             \/ pc[c] = "expire" /\ ExpiresRow(auth[c].id, ExpiryOf(c))
  BY <1>1 DEF ExpireRow, ExpiresRow, db
<1>2. ASSUME Step(c), ~ExpireRow(c) PROVE UNCHANGED db
  BY <1>2 DEF Step, CacheGet, StoreRead, SetToken, SetId, Admit, Refuse, IdGet, DeleteToken,
              DeleteId, db
<1>3. Begins(c) => UNCHANGED db
  BY DEF Begins, Begin, db
<1> QED BY <1>1, <1>2, <1>3

LEMMA DbStep ==
    ASSUME Typed, [Next]_vars
    PROVE  DbTyped' /\ issued <= issued'
<1> USE DEF Typed
<1>0. TypeOK /\ Shape
  BY TypesTogether
<1>1. ASSUME NEW t \in Token, NEW n \in Id, NEW p \in AnyProfile, NEW e \in Time \cup {Never},
             Inserts(t, n, p, e)
      PROVE  DbTyped' /\ issued <= issued'
  BY <1>1, InsertTyped DEF DbTyped
<1>2. ASSUME NEW t \in Token, DeleteAuthentications(t) PROVE DbTyped' /\ issued <= issued'
  BY <1>2 DEF DeleteAuthentications, DbTyped
<1>3. ASSUME UNCHANGED db PROVE DbTyped' /\ issued <= issued'
  BY <1>3 DEF DbTyped, db
<1>4. ASSUME NEW c \in Client, Step(c) \/ Begins(c) PROVE DbTyped' /\ issued <= issued'
  <2>1. CASE pc[c] = "expire" /\ ExpiresRow(auth[c].id, ExpiryOf(c))
    <3>1. auth[c].id \in Id /\ ExpiryOf(c) \in Time
      BY <1>0, <2>1, RequestFacts, ExpiryTyped
    <3>2. DbTyped'
      BY <2>1, <3>1, ExpireTyped
    <3>3. issued' = issued
      BY <2>1 DEF ExpiresRow
    <3> QED BY <3>2, <3>3 DEF DbTyped
  <2> QED BY <1>3, <1>4, <2>1, RequestsExpireRows
<1> QED BY <1>1, <1>2, <1>3, <1>4, StepKinds DEF Aside, DropToken, DropId

LEMMA CachesStep ==
    ASSUME Typed, [Next]_vars
    PROVE  CachesTyped'
<1>0. TypeOK /\ Shape
  BY TypesTogether
<1> USE DEF Typed
<1>1. ASSUME UNCHANGED caches PROVE CachesTyped'
  BY <1>1 DEF CachesTyped, caches
<1>2. ASSUME NEW k \in Cache, NEW t \in Token, DropToken(k, t) PROVE CachesTyped'
  BY <1>2 DEF DropToken, CachesTyped
<1>3. ASSUME NEW k \in Cache, NEW i \in Id, DropId(k, i) PROVE CachesTyped'
  BY <1>3 DEF DropId, CachesTyped
<1>4. ASSUME NEW c \in Client, SetToken(c) PROVE CachesTyped'
  <2>1. K(c) \in Cache /\ req[c].token \in Token /\ auth[c] \in Authentication
        /\ auth[c].id \in Id
    BY <1>0, <1>4, RequestFacts DEF SetToken
  <2>2. \/ tokenEntry' = [tokenEntry EXCEPT ![K(c)][req[c].token] = auth[c]] /\ UNCHANGED idEntry
        \/ UNCHANGED caches
    BY <1>4 DEF SetToken, caches
  <2>3. CASE tokenEntry' = [tokenEntry EXCEPT ![K(c)][req[c].token] = auth[c]] /\ UNCHANGED idEntry
    BY <2>1, <2>3, TokenSet DEF CachesTyped
  <2> QED BY <1>1, <2>2, <2>3
<1>5. ASSUME NEW c \in Client, SetId(c) PROVE CachesTyped'
  <2>1. K(c) \in Cache /\ req[c].token \in Token /\ auth[c] \in Authentication
        /\ auth[c].id \in Id
    BY <1>0, <1>5, RequestFacts DEF SetId
  <2>2. \/ idEntry' = [idEntry EXCEPT ![K(c)][auth[c].id] = req[c].token] /\ UNCHANGED tokenEntry
        \/ UNCHANGED caches
    BY <1>5 DEF SetId, caches
  <2>3. CASE idEntry' = [idEntry EXCEPT ![K(c)][auth[c].id] = req[c].token] /\ UNCHANGED tokenEntry
    BY <2>1, <2>3, IdSet DEF CachesTyped
  <2> QED BY <1>1, <2>2, <2>3
<1>6. ASSUME NEW c \in Client, DeleteToken(c) PROVE CachesTyped'
  <2>1. K(c) \in Cache /\ req[c].token \in Token /\ auth[c] \in Authentication
        /\ auth[c].id \in Id
    BY <1>0, <1>6, RequestFacts DEF DeleteToken
  <2>2. \/ tokenEntry' = [tokenEntry EXCEPT ![K(c)][req[c].token] = Nothing] /\ UNCHANGED idEntry
        \/ UNCHANGED caches
    BY <1>6 DEF DeleteToken, caches
  <2>3. CASE tokenEntry' = [tokenEntry EXCEPT ![K(c)][req[c].token] = Nothing] /\ UNCHANGED idEntry
    BY <2>1, <2>3, TokenSet DEF CachesTyped
  <2> QED BY <1>1, <2>2, <2>3
<1>7. ASSUME NEW c \in Client, DeleteId(c) PROVE CachesTyped'
  <2>1. K(c) \in Cache /\ req[c].token \in Token /\ auth[c] \in Authentication
        /\ auth[c].id \in Id
    BY <1>0, <1>7, RequestFacts DEF DeleteId
  <2>2. \/ idEntry' = [idEntry EXCEPT ![K(c)][auth[c].id] = Nothing] /\ UNCHANGED tokenEntry
        \/ UNCHANGED caches
    BY <1>7 DEF DeleteId, caches
  <2>3. CASE idEntry' = [idEntry EXCEPT ![K(c)][auth[c].id] = Nothing] /\ UNCHANGED tokenEntry
    BY <2>1, <2>3, IdSet DEF CachesTyped
  <2> QED BY <1>1, <2>2, <2>3
<1>8. ASSUME NEW c \in Client, Step(c) \/ Begins(c),
             ~SetToken(c), ~SetId(c), ~DeleteToken(c), ~DeleteId(c)
      PROVE  UNCHANGED caches
  BY <1>8 DEF Step, CacheGet, StoreRead, Admit, Refuse, ExpireRow, IdGet, Begins, Begin, caches
<1>9. ASSUME \/ \E t \in Token, n \in Id, p \in AnyProfile, e \in Time \cup {Never} :
                  Inserts(t, n, p, e)
             \/ \E t \in Token : DeleteAuthentications(t)
             \/ Aside
      PROVE  UNCHANGED caches
  BY <1>9 DEF Inserts, DeleteAuthentications, Aside
<1> QED BY <1>1, <1>2, <1>3, <1>4, <1>5, <1>6, <1>7, <1>8, <1>9, StepKinds

\* A request goes on, with these parameters and this authentication.
Moves(c, l, r, a) ==
    /\ pc' = [pc EXCEPT ![c] = l]
    /\ req' = [req EXCEPT ![c] = r]
    /\ auth' = [auth EXCEPT ![c] = a]

LEMMA FinishMoves ==
    ASSUME NEW c, Finish(c)
    PROVE  Moves(c, "idle", Idle, Nothing)
BY DEF Finish, Moves, Goto

LEMMA GoesOn ==
    ASSUME RequestsTyped, NEW c \in Client, NEW l, Goto(c, l), UNCHANGED <<req, auth>>
    PROVE  Moves(c, l, req[c], auth[c])
BY DEF RequestsTyped, Moves, Goto

LEMMA MovesTyped ==
    ASSUME RequestsTyped, NEW c \in Client, NEW l \in Labels, NEW r \in {Idle} \cup RequestType,
           NEW a \in Authentication \cup {Nothing}, Moves(c, l, r, a),
           l = "idle" <=> r = Idle, a # Nothing <=> l \notin {"idle", "get", "read"}
    PROVE  /\ RequestsTyped' /\ pc'[c] = l /\ req'[c] = r /\ auth'[c] = a
           /\ \A d \in Client : d # c =>
                pc'[d] = pc[d] /\ req'[d] = req[d] /\ auth'[d] = auth[d]
BY DEF RequestsTyped, Moves

\* The others do not move.
Others(c) ==
    \A d \in Client : d # c => pc'[d] = pc[d] /\ req'[d] = req[d] /\ auth'[d] = auth[d]

At(c, l, r, a) == pc'[c] = l /\ req'[c] = r /\ auth'[c] = a

Finished(c) == At(c, "idle", Idle, Nothing)

\* What each step makes of its request.
LEMMA Flow ==
    ASSUME Typed, NEW c \in Client
    PROVE  /\ Begins(c) \/ Step(c) => RequestsTyped' /\ Others(c)
           /\ Begins(c) => \E r \in RequestType : At(c, "get", r, Nothing)
           /\ CacheGet(c) =>
                \/ /\ tokenEntry[K(c)][req[c].token] \in Authentication
                   /\ At(c, "check", req[c], tokenEntry[K(c)][req[c].token])
                \/ At(c, "read", req[c], Nothing)
           /\ StoreRead(c) =>
                \/ /\ rows[req[c].token] \in Authentication
                   /\ At(c, "setToken", req[c], rows[req[c].token])
                   /\ Noted(K(c), rows[req[c].token].id, Changing(K(c), rows[req[c].token].id))
                   /\ after' = after
                \/ Finished(c) /\ UNCHANGED overlap
           /\ SetToken(c) => At(c, "setId", req[c], auth[c])
           /\ SetId(c) => At(c, "check", req[c], auth[c])
           /\ Admit(c) => At(c, "expire", req[c], auth[c]) \/ Finished(c)
           /\ Refuse(c) => Finished(c)
           /\ ExpireRow(c) =>
                \/ /\ At(c, "idGet", req[c], auth[c])
                   /\ ExpiresRow(auth[c].id, ExpiryOf(c))
                   /\ settled' = [k \in Cache |-> settled[k] \ {auth[c].id}]
                   /\ Noted(K(c), auth[c].id,
                            Filling(K(c), auth[c].id) \/ Changing(K(c), auth[c].id))
                   /\ after' = [d \in Client |-> after[d] \ {auth[c].id}]
                \/ Finished(c) /\ UNCHANGED <<db, histories>>
           /\ IdGet(c) =>
                \/ At(c, "deleteToken", req[c], auth[c]) /\ UNCHANGED histories
                \/ Finished(c)
           /\ DeleteToken(c) => At(c, "deleteId", req[c], auth[c])
           /\ DeleteId(c) => Finished(c)
<1>0. RequestsTyped /\ TypeOK /\ Shape
  BY TypesTogether DEF Typed
<1>1. Finish(c) => RequestsTyped' /\ Others(c) /\ Finished(c)
  BY <1>0, FinishMoves, MovesTyped DEF Labels, Others, Finished, At
<1>2. ASSUME NEW l \in Labels \ {"idle", "get", "read"}, Goto(c, l), UNCHANGED <<req, auth>>,
             pc[c] \notin {"idle", "get", "read"}
      PROVE  RequestsTyped' /\ Others(c) /\ At(c, l, req[c], auth[c])
  <2>1. Moves(c, l, req[c], auth[c])
    BY <1>0, <1>2, GoesOn
  <2>2. req[c] \in RequestType /\ req[c] # Idle /\ auth[c] # Nothing
        /\ auth[c] \in Authentication \cup {Nothing}
    BY <1>0, <1>2, RequestFacts DEF RequestsTyped
  <2> QED BY <1>0, <2>1, <2>2, MovesTyped DEF Others, At
<1>3. Begins(c) => RequestsTyped' /\ Others(c) /\ \E r \in RequestType : At(c, "get", r, Nothing)
  <2> SUFFICES ASSUME NEW i \in Instance, NEW t \in Token,
                      NEW op \in {"evaluate", "expire"},
                      NEW ns \in SUBSET (Namespace \cup {Empty}), NEW e \in Time \cup {Nothing},
                      Begin(c, i, t, op, ns, e)
               PROVE  RequestsTyped' /\ Others(c) /\ \E r \in RequestType : At(c, "get", r, Nothing)
    BY AuthnAssumption DEF Begins
  <2> DEFINE r == [cache |-> CacheOf[i], token |-> t, op |-> op, namespaces |-> ns, exp |-> e]
  <2>1. r \in RequestType /\ r # Idle
    BY AuthnAssumption DEF RequestType, Idle
  <2>2. auth[c] = Nothing
    BY <1>0, RequestFacts DEF Begin
  <2>3. Moves(c, "get", r, Nothing)
    BY <1>0, <2>2 DEF Begin, Moves, Goto, RequestsTyped
  <2> HIDE DEF r
  <2> QED BY <1>0, <2>1, <2>3, MovesTyped DEF Labels, Others, At
<1>4. ASSUME CacheGet(c)
      PROVE  /\ RequestsTyped' /\ Others(c)
             /\ \/ /\ tokenEntry[K(c)][req[c].token] \in Authentication
                   /\ At(c, "check", req[c], tokenEntry[K(c)][req[c].token])
                \/ At(c, "read", req[c], Nothing)
  <2>1. pc[c] = "get" /\ req' = req
    BY <1>4 DEF CacheGet
  <2>2. K(c) \in Cache /\ req[c].token \in Token /\ req[c] \in RequestType /\ auth[c] = Nothing
        /\ req[c] # Idle
    BY <1>0, <2>1, RequestFacts DEF RequestsTyped
  <2> DEFINE a == tokenEntry[K(c)][req[c].token]
  <2>3. a \in Authentication \cup {Nothing}
    BY <2>2 DEF Typed, CachesTyped
  <2>4. CASE a # Nothing /\ auth' = [auth EXCEPT ![c] = a] /\ Goto(c, "check")
    <3>1. Moves(c, "check", req[c], a)
      BY <1>0, <2>1, <2>4 DEF Moves, Goto, RequestsTyped
    <3> HIDE DEF a
    <3>2. /\ RequestsTyped' /\ pc'[c] = "check" /\ req'[c] = req[c] /\ auth'[c] = a
          /\ \A d \in Client : d # c =>
                pc'[d] = pc[d] /\ req'[d] = req[d] /\ auth'[d] = auth[d]
      BY <1>0, <2>2, <2>3, <2>4, <3>1, MovesTyped DEF Labels
    <3> QED BY <2>3, <2>4, <3>2 DEF Others, At, a
  <2>5. CASE Goto(c, "read") /\ UNCHANGED auth
    BY <1>0, <2>1, <2>2, <2>5, GoesOn, MovesTyped DEF Labels, Others, At
  <2> QED BY <1>4, <2>4, <2>5 DEF CacheGet
<1>5. ASSUME StoreRead(c)
      PROVE  /\ RequestsTyped' /\ Others(c)
             /\ \/ /\ rows[req[c].token] \in Authentication
                   /\ At(c, "setToken", req[c], rows[req[c].token])
                   /\ Noted(K(c), rows[req[c].token].id, Changing(K(c), rows[req[c].token].id))
                   /\ after' = after
                \/ Finished(c) /\ UNCHANGED overlap
  <2>1. pc[c] = "read"
    BY <1>5 DEF StoreRead
  <2>2. K(c) \in Cache /\ req[c].token \in Token /\ req[c] \in RequestType /\ auth[c] = Nothing
        /\ req[c] # Idle
    BY <1>0, <2>1, RequestFacts DEF RequestsTyped
  <2> DEFINE a == rows[req[c].token]
  <2>3. a \in Authentication \cup {Nothing}
    BY <2>2 DEF Typed, DbTyped
  <2>4. CASE /\ a # Nothing /\ auth' = [auth EXCEPT ![c] = a] /\ Goto(c, "setToken")
             /\ req' = req /\ after' = after
             /\ Noted(K(c), a.id, Changing(K(c), a.id))
    <3>1. Moves(c, "setToken", req[c], a)
      BY <1>0, <2>1, <2>4 DEF Moves, Goto, RequestsTyped
    <3> HIDE DEF a
    <3>2. /\ RequestsTyped' /\ pc'[c] = "setToken" /\ req'[c] = req[c] /\ auth'[c] = a
          /\ \A d \in Client : d # c =>
                pc'[d] = pc[d] /\ req'[d] = req[d] /\ auth'[d] = auth[d]
      BY <1>0, <2>2, <2>3, <2>4, <3>1, MovesTyped DEF Labels
    <3> QED BY <2>3, <2>4, <3>2 DEF Others, At, a
  <2>5. CASE Finish(c) /\ UNCHANGED overlap
    BY <1>1, <2>5
  <2> QED BY <1>5, <2>4, <2>5 DEF StoreRead
<1>6. SetToken(c) => RequestsTyped' /\ Others(c) /\ At(c, "setId", req[c], auth[c])
  BY <1>2 DEF SetToken, Labels
<1>7. SetId(c) => RequestsTyped' /\ Others(c) /\ At(c, "check", req[c], auth[c])
  BY <1>2 DEF SetId, Labels
<1>8. Admit(c) => /\ RequestsTyped' /\ Others(c)
                  /\ At(c, "expire", req[c], auth[c]) \/ Finished(c)
  BY <1>1, <1>2 DEF Admit, Labels
<1>9. Refuse(c) => RequestsTyped' /\ Others(c) /\ Finished(c)
  BY <1>1 DEF Refuse
<1>10. ASSUME ExpireRow(c)
       PROVE  /\ RequestsTyped' /\ Others(c)
              /\ \/ /\ At(c, "idGet", req[c], auth[c])
                    /\ ExpiresRow(auth[c].id, ExpiryOf(c))
                    /\ settled' = [k \in Cache |-> settled[k] \ {auth[c].id}]
                    /\ Noted(K(c), auth[c].id,
                             Filling(K(c), auth[c].id) \/ Changing(K(c), auth[c].id))
                    /\ after' = [d \in Client |-> after[d] \ {auth[c].id}]
                 \/ Finished(c) /\ UNCHANGED <<db, histories>>
  <2>1. CASE Finish(c) /\ UNCHANGED <<db, histories>>
    BY <1>1, <2>1
  <2>2. CASE /\ Goto(c, "idGet") /\ UNCHANGED <<req, auth>>
             /\ ExpiresRow(auth[c].id, ExpiryOf(c))
             /\ settled' = [k \in Cache |-> settled[k] \ {auth[c].id}]
             /\ Noted(K(c), auth[c].id,
                      Filling(K(c), auth[c].id) \/ Changing(K(c), auth[c].id))
             /\ after' = [d \in Client |-> after[d] \ {auth[c].id}]
    <3>1. pc[c] = "expire"
      BY <1>10 DEF ExpireRow
    <3>2. RequestsTyped' /\ Others(c) /\ At(c, "idGet", req[c], auth[c])
      BY <1>2, <2>2, <3>1 DEF Labels
    <3> QED BY <2>2, <3>2
  <2> QED BY <1>10, <2>1, <2>2 DEF ExpireRow, ExpiresRow, db, histories
<1>11. IdGet(c) => /\ RequestsTyped' /\ Others(c)
                   /\ \/ At(c, "deleteToken", req[c], auth[c]) /\ UNCHANGED histories
                      \/ Finished(c)
  BY <1>1, <1>2 DEF IdGet, Labels, Settle
<1>12. DeleteToken(c) => RequestsTyped' /\ Others(c) /\ At(c, "deleteId", req[c], auth[c])
  BY <1>2 DEF DeleteToken, Labels
<1>13. DeleteId(c) => RequestsTyped' /\ Others(c) /\ Finished(c)
  BY <1>1 DEF DeleteId, Settle
<1>14. Begins(c) \/ Step(c) => RequestsTyped' /\ Others(c)
  BY <1>3, <1>4, <1>5, <1>6, <1>7, <1>8, <1>9, <1>10, <1>11, <1>12, <1>13 DEF Step
<1> QED BY <1>3, <1>4, <1>5, <1>6, <1>7, <1>8, <1>9, <1>10, <1>11, <1>12, <1>13, <1>14

LEMMA CopyFacts ==
    ASSUME Typed, CopiesGranted
    PROVE  /\ \A t \in Token : rows[t] # Nothing => rows[t] \in Authentication /\ Granted(t, rows[t])
           /\ \A k \in Cache, t \in Token : tokenEntry[k][t] # Nothing =>
                tokenEntry[k][t] \in Authentication /\ Granted(t, tokenEntry[k][t])
           /\ \A c \in Client : auth[c] # Nothing =>
                /\ auth[c] \in Authentication /\ req[c].token \in Token
                /\ Granted(req[c].token, auth[c])
<1>1. ASSUME NEW t \in Token, rows[t] # Nothing
      PROVE  rows[t] \in Authentication /\ Granted(t, rows[t])
  <2>1. rows[t] \in Authentication
    BY <1>1 DEF Typed, DbTyped
  <2> QED BY <2>1, Zenon DEF CopiesGranted, Copy
<1>2. ASSUME NEW k \in Cache, NEW t \in Token, tokenEntry[k][t] # Nothing
      PROVE  tokenEntry[k][t] \in Authentication /\ Granted(t, tokenEntry[k][t])
  <2>1. tokenEntry[k][t] \in Authentication
    BY <1>2 DEF Typed, CachesTyped
  <2> QED BY <2>1, Zenon DEF CopiesGranted, Copy
<1>3. ASSUME NEW c \in Client, auth[c] # Nothing
      PROVE  /\ auth[c] \in Authentication /\ req[c].token \in Token
             /\ Granted(req[c].token, auth[c])
  <2>1. auth[c] \in Authentication /\ req[c].token \in Token
    BY <1>3, RequestFacts, TypesTogether DEF Typed, RequestsTyped
  <2> QED BY <2>1, Zenon DEF CopiesGranted, Copy
<1> QED BY <1>1, <1>2, <1>3

\* The authentication of a request has been issued.
LEMMA CarriedIssued ==
    ASSUME Typed, CopiesGranted, NEW c \in Client, auth[c] # Nothing
    PROVE  auth[c].id \in Id /\ auth[c].id \in 1..issued
<1>1. auth[c] \in Authentication /\ Granted(req[c].token, auth[c])
  BY CopyFacts
<1>2. auth[c].id \in Id /\ auth[c].id <= issued /\ issued \in 0..MaxIds
  BY <1>1, AuthenticationFields DEF Granted, Typed, DbTyped
<1> QED BY <1>2 DEF Id

OverlapGrows ==
    /\ overlap' \in [Cache -> SUBSET Id]
    /\ \A k \in Cache : /\ overlap[k] \subseteq overlap'[k]
                        /\ overlap'[k] \subseteq overlap[k] \cup 1..issued

SettledTyped ==
    /\ settled' \in [Cache -> SUBSET Id]
    /\ \A k \in Cache : settled'[k] \subseteq settled[k] \cup 1..issued

AfterTyped == after' \in [Client -> SUBSET Id]

\* What a request does to the histories.
LEMMA HistoriesOfRequest ==
    ASSUME Typed, CopiesGranted, NEW c \in Client, Step(c) \/ Begins(c)
    PROVE  OverlapGrows /\ SettledTyped /\ AfterTyped
<1>0. TypeOK /\ Shape /\ HistoriesTyped
  BY TypesTogether DEF Typed
<1>1. ASSUME NEW i \in 1..issued, i \in Id, pc[c] # "idle",
             overlap' = [overlap EXCEPT ![K(c)] = @ \cup {i}]
      PROVE  OverlapGrows
  <2>1. K(c) \in Cache
    BY <1>0, <1>1, RequestFacts
  <2> QED BY <1>0, <1>1, <2>1 DEF OverlapGrows, HistoriesTyped
<1>2. UNCHANGED overlap => OverlapGrows
  BY <1>0 DEF OverlapGrows, HistoriesTyped
<1>3. UNCHANGED settled => SettledTyped
  BY <1>0 DEF SettledTyped, HistoriesTyped
<1>4. UNCHANGED after \/ Finish(c) => AfterTyped
  BY <1>0 DEF AfterTyped, HistoriesTyped, Finish
<1>5. ASSUME pc[c] \notin {"idle", "get", "read"}
      PROVE  /\ K(c) \in Cache /\ auth[c].id \in Id /\ auth[c].id \in 1..issued
             /\ Settle(c) => SettledTyped /\ AfterTyped
  <2>1. K(c) \in Cache /\ auth[c].id \in Id /\ auth[c].id \in 1..issued
    BY <1>0, <1>5, RequestFacts, CarriedIssued DEF TypeOK
  <2>2. Settle(c) => SettledTyped
    BY <1>0, <2>1 DEF Settle, SettledTyped, HistoriesTyped
  <2> QED BY <1>4, <2>1, <2>2 DEF Settle
<1>6. Begins(c) => OverlapGrows /\ SettledTyped /\ AfterTyped
  <2> SUFFICES ASSUME NEW i \in Instance, NEW t \in Token, NEW op, NEW ns, NEW e,
                      Begin(c, i, t, op, ns, e)
               PROVE  OverlapGrows /\ SettledTyped /\ AfterTyped
    BY DEF Begins
  <2>1. CacheOf[i] \in Cache
    BY AuthnAssumption
  <2>2. AfterTyped
    BY <1>0, <2>1 DEF Begin, AfterTyped, HistoriesTyped
  <2> QED BY <1>2, <1>3, <2>2 DEF Begin, histories
<1>7. CacheGet(c) \/ SetToken(c) \/ Admit(c) \/ Refuse(c) =>
        OverlapGrows /\ SettledTyped /\ AfterTyped
  BY <1>2, <1>3, <1>4 DEF CacheGet, SetToken, Admit, Refuse, histories
<1>8. StoreRead(c) => OverlapGrows /\ SettledTyped /\ AfterTyped
  <2> SUFFICES ASSUME StoreRead(c) PROVE OverlapGrows /\ SettledTyped /\ AfterTyped
    OBVIOUS
  <2> DEFINE a == rows[req[c].token]
  <2>1. SettledTyped /\ AfterTyped
    BY <1>3, <1>4 DEF StoreRead
  <2>2. CASE a # Nothing /\ Noted(K(c), a.id, Changing(K(c), a.id))
    <3>1. pc[c] = "read" /\ req[c].token \in Token
      BY <1>0, RequestFacts DEF StoreRead
    <3>2. a \in Authentication /\ a.id <= issued /\ issued \in 0..MaxIds
      BY <2>2, <3>1, CopyFacts DEF Granted, Typed, DbTyped
    <3> HIDE DEF a
    <3>3. a.id \in Id /\ a.id \in 1..issued
      BY <3>2, AuthenticationFields DEF Id
    <3> QED BY <1>1, <1>2, <2>1, <2>2, <3>1, <3>3 DEF Noted
  <2> QED BY <1>2, <2>1, <2>2 DEF StoreRead
<1>9. SetId(c) => OverlapGrows /\ SettledTyped /\ AfterTyped
  BY <1>1, <1>2, <1>3, <1>4, <1>5 DEF Noted, SetId
<1>10. ExpireRow(c) => OverlapGrows /\ SettledTyped /\ AfterTyped
  <2>1. settled' = [k \in Cache |-> settled[k] \ {auth[c].id}] => SettledTyped
    BY <1>0 DEF SettledTyped, HistoriesTyped
  <2>2. after' = [d \in Client |-> after[d] \ {auth[c].id}] => AfterTyped
    BY <1>0 DEF AfterTyped, HistoriesTyped
  <2> QED BY <1>1, <1>2, <1>3, <1>4, <1>5, <2>1, <2>2 DEF Noted, ExpireRow, histories
<1>11. IdGet(c) => OverlapGrows /\ SettledTyped /\ AfterTyped
  BY <1>1, <1>2, <1>3, <1>4, <1>5 DEF Noted, IdGet, histories
<1>12. DeleteToken(c) => OverlapGrows /\ SettledTyped /\ AfterTyped
  BY <1>1, <1>2, <1>3, <1>4, <1>5 DEF Noted, DeleteToken
<1>13. DeleteId(c) => OverlapGrows /\ SettledTyped /\ AfterTyped
  BY <1>2, <1>5 DEF DeleteId
<1> QED BY <1>6, <1>7, <1>8, <1>9, <1>10, <1>11, <1>12, <1>13 DEF Step

LEMMA HistoriesStep ==
    ASSUME Typed, CopiesGranted, [Next]_vars
    PROVE  OverlapGrows /\ HistoriesTyped'
<1>1. HistoriesTyped /\ issued \in Nat /\ issued <= issued' /\ issued' \in Nat
  BY DbStep DEF Typed, DbTyped
<1>2. ASSUME OverlapGrows, SettledTyped, AfterTyped PROVE HistoriesTyped'
  BY <1>1, <1>2 DEF OverlapGrows, SettledTyped, AfterTyped, HistoriesTyped
<1>3. UNCHANGED <<histories, after>> => OverlapGrows /\ SettledTyped /\ AfterTyped
  BY <1>1 DEF OverlapGrows, SettledTyped, AfterTyped, HistoriesTyped, histories
<1>4. ASSUME NEW c \in Client, Step(c) \/ Begins(c) PROVE OverlapGrows /\ SettledTyped /\ AfterTyped
  BY <1>4, HistoriesOfRequest
<1>5. ASSUME NEW k \in Cache, NEW i \in Id, DropId(k, i)
      PROVE  OverlapGrows /\ SettledTyped /\ AfterTyped
  <2>1. idEntry[k][i] \in Token
    BY <1>5 DEF DropId, Typed, CachesTyped
  <2>2. i <= issued
    BY <2>1 DEF Typed, NamesTyped
  <2>3. i \in 1..issued
    BY <1>1, <2>2 DEF Id
  <2>4. OverlapGrows
    BY <1>1, <1>5, <2>3 DEF DropId, Noted, OverlapGrows, HistoriesTyped
  <2>5. UNCHANGED <<settled, after>>
    BY <1>5 DEF DropId, requestVars
  <2> QED BY <1>1, <2>4, <2>5 DEF SettledTyped, AfterTyped, HistoriesTyped
<1> QED BY <1>2, <1>3, <1>4, <1>5, StepKinds DEF Inserts, DeleteAuthentications, Aside, DropToken,
                                            requestVars

LEMMA RestStep ==
    ASSUME Typed, [Next]_vars
    PROVE  RestTyped'
<1>0. RestTyped
  BY DEF Typed
<1> USE AuthnAssumption
<1>1. Fault \/ UNCHANGED faults => faults' \in 0..MaxFaults
  BY <1>0 DEF Fault, RestTyped
<1>2. ASSUME NEW c \in Client, Step(c) PROVE RestTyped'
  <2>1. Keep /\ faults' \in 0..MaxFaults
    BY <1>1, <1>2 DEF Step, CacheGet, StoreRead, SetToken, SetId, Admit, Refuse, ExpireRow, IdGet,
                      DeleteToken, DeleteId
  <2> QED BY <1>0, <2>1 DEF RestTyped, Keep, bootVars
<1>3. ASSUME NEW c \in Client, Begins(c) PROVE RestTyped'
  BY <1>0, <1>3 DEF Begins, Begin, RestTyped, bootVars
<1>4. ASSUME NEW t, NEW n \in Id, NEW m, NEW e, NEW x, Insert(t, n, m, e, x)
      PROVE  newer' \in [Instance -> SUBSET Id]
  BY <1>0, <1>4 DEF Insert, RestTyped
<1>5. ASSUME NEW n \in Id, NEW p \in Profile, NEW e \in Expiry, CreateAuthentication(n, p, e)
      PROVE  RestTyped'
  BY <1>0, <1>4, <1>5 DEF CreateAuthentication, RestTyped
<1>6. ASSUME NEW i \in Instance, BootstrapCreate(i) PROVE RestTyped'
  <2>1. newer' \in [Instance -> SUBSET Id]
    BY <1>4, <1>6 DEF BootstrapCreate
  <2> QED BY <1>0, <1>6, <2>1 DEF BootstrapCreate, RestTyped
<1>7. ASSUME NEW i \in Instance, BootstrapList(i) \/ BootstrapRefused(i) PROVE RestTyped'
  <2>1. boot' \in [Instance -> {"down", "empty", "up"}] /\ newer' \in [Instance -> SUBSET Id]
    BY <1>0, <1>7 DEF BootstrapList, BootstrapRefused, RestTyped
  <2>2. faults' \in 0..MaxFaults /\ UNCHANGED <<now, configured, changes>>
    BY <1>1, <1>7 DEF BootstrapList, BootstrapRefused
  <2> QED BY <1>0, <2>1, <2>2 DEF RestTyped
<1>8. ASSUME UNCHANGED <<now, bootVars, changes, faults>> PROVE RestTyped'
  BY <1>0, <1>8 DEF RestTyped, bootVars
<1>9. Tick => RestTyped'
  BY <1>0 DEF Tick, RestTyped, Time, bootVars
<1> QED BY <1>2, <1>3, <1>5, <1>6, <1>7, <1>8, <1>9
        DEF Next, DeleteAuthentications, DropToken, DropId, vars, bootVars

LEMMA NamesStep ==
    ASSUME Typed, CopiesGranted, [Next]_vars
    PROVE  NamesTyped'
<1>0. TypeOK /\ Shape /\ NamesTyped /\ CachesTyped /\ issued \in Nat /\ issued <= issued'
      /\ issued' \in Nat
  BY TypesTogether, DbStep DEF Typed, DbTyped
<1>1. UNCHANGED idEntry => NamesTyped'
  BY <1>0 DEF NamesTyped, Id
<1>2. ASSUME NEW k \in Cache, NEW i \in Id, idEntry' = [idEntry EXCEPT ![k][i] = Nothing]
      PROVE  NamesTyped'
  <2>1. \A l \in Cache, j \in Id, t \in Token : idEntry'[l][j] = t => idEntry[l][j] = t
    BY <1>0, <1>2, IdSet, AuthnAssumption
  <2> QED BY <1>0, <2>1 DEF NamesTyped, Id
<1>3. ASSUME NEW c \in Client, SetId(c), idEntry' = [idEntry EXCEPT ![K(c)][auth[c].id] = req[c].token]
      PROVE  NamesTyped'
  <2> DEFINE k == K(c)
             i == auth[c].id
             u == req[c].token
  <2>1. k \in Cache /\ i \in Id /\ u \in Token /\ auth[c] # Nothing
    BY <1>0, <1>3, RequestFacts, AuthenticationFields DEF SetId
  <2>2. i <= issued /\ (u = i \/ u = Configured)
    BY <2>1, CopyFacts DEF Granted
  <2>3. idEntry' = [idEntry EXCEPT ![k][i] = u]
    BY <1>3
  <2> HIDE DEF k, i, u
  <2>4. \A l \in Cache, j \in Id, t \in Token :
          idEntry'[l][j] = t => idEntry[l][j] = t \/ (j = i /\ t = u)
    BY <1>0, <2>1, <2>3, IdSet
  <2> QED BY <1>0, <2>1, <2>2, <2>4 DEF NamesTyped, Id
<1>4. ASSUME NEW c \in Client, Step(c) \/ Begins(c) PROVE NamesTyped'
  <2>1. CASE SetId(c)
    BY <1>1, <1>3, <2>1 DEF SetId
  <2>2. CASE DeleteId(c)
    <3>1. K(c) \in Cache /\ auth[c].id \in Id
      BY <1>0, <2>2, RequestFacts DEF DeleteId
    <3> QED BY <1>1, <1>2, <2>2, <3>1 DEF DeleteId
  <2>3. CASE ~SetId(c) /\ ~DeleteId(c)
    BY <1>1, <1>4, <2>3 DEF Step, CacheGet, StoreRead, SetToken, Admit, Refuse, ExpireRow, IdGet,
                            DeleteToken, Begins, Begin, caches
  <2> QED BY <2>1, <2>2, <2>3
<1> QED BY <1>1, <1>2, <1>4, StepKinds DEF Inserts, DeleteAuthentications, Aside, DropToken,
                                       DropId, caches

LEMMA RequestsStep ==
    ASSUME Typed, [Next]_vars
    PROVE  RequestsTyped'
<1>1. UNCHANGED requestVars => RequestsTyped'
  BY DEF Typed, RequestsTyped, requestVars
<1> QED BY <1>1, Flow, StepKinds DEF Inserts, DeleteAuthentications, Aside, DropToken, DropId

LEMMA TypesStep ==
    ASSUME Typed, CopiesGranted, [Next]_vars
    PROVE  Typed'
BY DbStep, CachesStep, RequestsStep, HistoriesStep, NamesStep, RestStep DEF Typed

-----------------------------------------------------------------------------
(* Where the copies of an authentication come from.                        *)

\* The row of a new authentication.
Fresh(t, a) ==
    /\ issued' = issued + 1 /\ a.id = issued' /\ (t = a.id \/ t = Configured)
    /\ a.exp = granted'[a.id]
    /\ rows'[t] = a /\ \A u \in Token : u # t => rows'[u] = rows[u]

LEMMA RowOrigin ==
    ASSUME Typed, [Next]_vars, NEW t \in Token, NEW a \in Authentication, rows'[t] = a
    PROVE  \/ rows[t] = a
           \/ Fresh(t, a)
           \/ /\ rows[t] \in Authentication /\ rows[t].id = a.id
              /\ Within(a.exp, granted'[a.id])
<1>0. TypeOK /\ Shape /\ DbTyped /\ a # Nothing
  BY TypesTogether, AuthenticationFields DEF Typed
<1>1. ASSUME NEW u \in Token, NEW n \in Id, NEW p \in AnyProfile, NEW e \in Time \cup {Never},
             Inserts(u, n, p, e)
      PROVE  rows[t] = a \/ Fresh(t, a)
  <2>1. CASE t = u
    BY <1>0, <1>1, <2>1, InsertTyped DEF Fresh, Inserts
  <2>2. CASE t # u
    BY <1>0, <1>1, <2>2, InsertTyped
  <2> QED BY <2>1, <2>2
<1>2. ASSUME NEW u \in Token, DeleteAuthentications(u) PROVE rows[t] = a
  BY <1>0, <1>2 DEF DeleteAuthentications, DbTyped
<1>3. UNCHANGED db => rows[t] = a
  BY DEF db
<1>4. ASSUME NEW c \in Client, pc[c] = "expire", ExpiresRow(auth[c].id, ExpiryOf(c))
      PROVE  \/ rows[t] = a
             \/ /\ rows[t] \in Authentication /\ rows[t].id = a.id
                /\ Within(a.exp, granted'[a.id])
  <2> DEFINE i == auth[c].id
             e == ExpiryOf(c)
  <2>1. i \in Id /\ e \in Time /\ ExpiresRow(i, e)
    BY <1>0, <1>4, RequestFacts, ExpiryTyped
  <2>2. i \in Id => granted[i] \in Time \cup {Never}
    BY <1>0 DEF DbTyped
  <2> HIDE DEF i, e
  <2>3. /\ granted'[i] = Later(granted[i], e)
        /\ \/ rows'[t] = rows[t]
           \/ rows[t] \in Authentication /\ rows[t].id = i /\ rows'[t].id = i /\ rows'[t].exp = e
    BY <1>0, <2>1, ExpireTyped
  <2>4. Within(e, Later(granted[i], e))
    BY <2>1, <2>2, LaterTyped
  <2> QED BY <2>3, <2>4
<1> QED BY <1>1, <1>2, <1>3, <1>4, StepKinds, RequestsExpireRows DEF Aside, DropToken, DropId

LEMMA EntryOrigin ==
    ASSUME Typed, [Next]_vars, NEW k \in Cache, NEW t \in Token, NEW a \in Authentication,
           tokenEntry'[k][t] = a
    PROVE  \/ tokenEntry[k][t] = a
           \/ \E c \in Client : SetToken(c) /\ K(c) = k /\ req[c].token = t /\ auth[c] = a
<1>0. TypeOK /\ Shape /\ CachesTyped /\ a # Nothing
  BY TypesTogether, AuthenticationFields DEF Typed
<1>1. UNCHANGED tokenEntry => tokenEntry[k][t] = a
  OBVIOUS
<1>2. ASSUME NEW l \in Cache, NEW u \in Token, tokenEntry' = [tokenEntry EXCEPT ![l][u] = Nothing]
      PROVE  tokenEntry[k][t] = a
  BY <1>0, <1>2, TokenSet
<1>3. ASSUME NEW c \in Client, SetToken(c)
      PROVE  \/ tokenEntry[k][t] = a
             \/ K(c) = k /\ req[c].token = t /\ auth[c] = a
  <2>1. CASE tokenEntry' = [tokenEntry EXCEPT ![K(c)][req[c].token] = auth[c]]
    <3> DEFINE l == K(c)
               u == req[c].token
               b == auth[c]
    <3>1. l \in Cache /\ u \in Token /\ b \in Authentication
      BY <1>0, <1>3, RequestFacts DEF SetToken
    <3>2. tokenEntry' = [tokenEntry EXCEPT ![l][u] = b]
      BY <2>1
    <3> HIDE DEF l, u, b
    <3>3. \/ tokenEntry[k][t] = a
          \/ l = k /\ u = t /\ b = a
      BY <1>0, <3>1, <3>2, TokenSet
    <3> QED BY <3>3 DEF l, u, b
  <2> QED BY <1>1, <1>3, <2>1 DEF SetToken
<1>4. ASSUME NEW c \in Client, DeleteToken(c) PROVE tokenEntry[k][t] = a
  <2>1. K(c) \in Cache /\ req[c].token \in Token
    BY <1>0, <1>4, RequestFacts DEF DeleteToken
  <2> QED BY <1>1, <1>2, <1>4, <2>1 DEF DeleteToken
<1>5. ASSUME NEW c \in Client, Step(c) \/ Begins(c), ~SetToken(c), ~DeleteToken(c)
      PROVE  UNCHANGED tokenEntry
  BY <1>5 DEF Step, CacheGet, StoreRead, SetId, Admit, Refuse, ExpireRow, IdGet, DeleteId, Begins,
              Begin, caches
<1> QED BY <1>1, <1>2, <1>3, <1>4, <1>5, StepKinds
        DEF Inserts, DeleteAuthentications, Aside, DropToken, DropId, caches

LEMMA CarriedOrigin ==
    ASSUME Typed, [Next]_vars, NEW c \in Client, auth'[c] # Nothing
    PROVE  /\ req'[c] = req[c] /\ auth'[c] \in Authentication
           /\ \/ auth'[c] = auth[c]
              \/ /\ CacheGet(c) /\ pc'[c] = "check"
                 /\ auth'[c] = tokenEntry[K(c)][req[c].token]
              \/ /\ StoreRead(c) /\ pc'[c] = "setToken"
                 /\ auth'[c] = rows[req[c].token]
<1>1. auth'[c] \in Authentication
  BY RequestsStep DEF RequestsTyped
<1>2. UNCHANGED requestVars => req'[c] = req[c] /\ auth'[c] = auth[c]
  BY DEF requestVars
<1>3. ASSUME NEW d \in Client, d # c, Step(d) \/ Begins(d)
      PROVE  req'[c] = req[c] /\ auth'[c] = auth[c]
  BY <1>3, Flow DEF Others
<1>4. ASSUME Step(c) \/ Begins(c)
      PROVE  /\ req'[c] = req[c]
             /\ \/ auth'[c] = auth[c]
                \/ /\ CacheGet(c) /\ pc'[c] = "check"
                   /\ auth'[c] = tokenEntry[K(c)][req[c].token]
                \/ /\ StoreRead(c) /\ pc'[c] = "setToken"
                   /\ auth'[c] = rows[req[c].token]
  BY <1>4, Flow DEF Step, At, Finished
<1> QED BY <1>1, <1>2, <1>3, <1>4, StepKinds
        DEF Inserts, DeleteAuthentications, Aside, DropToken, DropId

LEMMA CopyOrigin ==
    ASSUME Typed, [Next]_vars, NEW t \in Token, NEW a \in Authentication, Copy(t, a)'
    PROVE  \/ Copy(t, a)
           \/ Fresh(t, a)
           \/ /\ Within(a.exp, granted'[a.id])
              /\ \E b \in Authentication : Copy(t, b) /\ b.id = a.id
<1>0. TypeOK /\ Shape /\ a # Nothing
  BY TypesTogether, AuthenticationFields
<1>1. ASSUME rows'[t] = a
      PROVE  \/ Copy(t, a)
             \/ Fresh(t, a)
             \/ /\ Within(a.exp, granted'[a.id])
                /\ \E b \in Authentication : Copy(t, b) /\ b.id = a.id
  <2>1. CASE rows[t] = a
    BY <2>1 DEF Copy
  <2>2. CASE rows[t] \in Authentication /\ rows[t].id = a.id /\ Within(a.exp, granted'[a.id])
    <3>1. Copy(t, rows[t])
      BY DEF Copy
    <3> QED BY <2>2, <3>1
  <2> QED BY <1>1, <2>1, <2>2, RowOrigin
<1>2. ASSUME NEW k \in Cache, tokenEntry'[k][t] = a PROVE Copy(t, a)
  BY <1>2, EntryOrigin DEF Copy
<1>3. ASSUME NEW c \in Client, auth'[c] = a, req'[c].token = t PROVE Copy(t, a)
  <2>1. req'[c] = req[c] /\ auth'[c] # Nothing
    BY <1>0, <1>3, CarriedOrigin
  <2>2. CASE auth'[c] = auth[c]
    BY <1>3, <2>1, <2>2 DEF Copy
  <2>3. CASE CacheGet(c) /\ auth'[c] = tokenEntry[K(c)][req[c].token]
    <3>1. K(c) \in Cache
      BY <1>0, <2>3, RequestFacts DEF CacheGet
    <3> QED BY <1>3, <2>1, <2>3, <3>1 DEF Copy
  <2>4. CASE auth'[c] = rows[req[c].token]
    BY <1>3, <2>1, <2>4 DEF Copy
  <2> QED BY <2>1, <2>2, <2>3, <2>4, CarriedOrigin
<1> QED BY <1>1, <1>2, <1>3 DEF Copy

\* The latest expiry granted only gets later.
LEMMA GrantedGrows ==
    ASSUME Typed, [Next]_vars, NEW i \in Id, i <= issued, NEW e \in Time \cup {Never},
           Within(e, granted[i])
    PROVE  Within(e, granted'[i])
<1>0. TypeOK /\ Shape /\ DbTyped
  BY TypesTogether DEF Typed
<1>1. ASSUME NEW u \in Token, NEW n \in Id, NEW p \in AnyProfile, NEW f \in Time \cup {Never},
             Inserts(u, n, p, f)
      PROVE  Within(e, granted'[i])
  <2>1. issued' = issued + 1 /\ \A j \in Id : j # issued' => granted'[j] = granted[j]
    BY <1>0, <1>1 DEF Inserts, DbTyped
  <2>2. i # issued'
    BY <1>0, <2>1 DEF DbTyped, Id
  <2> QED BY <2>1, <2>2
<1>2. UNCHANGED granted => Within(e, granted'[i])
  OBVIOUS
<1>3. ASSUME NEW c \in Client, pc[c] = "expire", ExpiresRow(auth[c].id, ExpiryOf(c))
      PROVE  Within(e, granted'[i])
  <2> DEFINE j == auth[c].id
             f == ExpiryOf(c)
  <2>1. j \in Id /\ f \in Time /\ ExpiresRow(j, f)
    BY <1>0, <1>3, RequestFacts, ExpiryTyped
  <2>2. granted[i] \in Time \cup {Never}
    BY <1>0 DEF DbTyped
  <2> HIDE DEF j, f
  <2>3. granted'[i] = granted[i] \/ granted'[i] = Later(granted[i], f)
    BY <1>0, <2>1, ExpireTyped
  <2>4. Within(granted[i], Later(granted[i], f)) /\ Later(granted[i], f) \in Time \cup {Never}
    BY <2>1, <2>2, LaterTyped
  <2> QED BY <2>2, <2>3, <2>4, AuthnAssumption DEF Within, Time
<1> QED BY <1>1, <1>2, <1>3, StepKinds, RequestsExpireRows
        DEF DeleteAuthentications, Aside, DropToken, DropId, db

LEMMA GrantedStep ==
    ASSUME Typed, CopiesGranted, [Next]_vars
    PROVE  CopiesGranted'
<1> SUFFICES ASSUME NEW t \in Token, NEW a \in Authentication, Copy(t, a)'
             PROVE  Granted(t, a)'
  BY DEF CopiesGranted
<1>0. a.id \in Id /\ a.exp \in Time \cup {Never}
  BY AuthenticationFields
<1>1. issued \in 0..MaxIds /\ issued' \in 0..MaxIds /\ issued <= issued' /\ MaxIds \in Nat
  BY DbStep, AuthnAssumption DEF Typed, DbTyped
<1>2. CASE Copy(t, a)
  <2>1. Granted(t, a)
    BY <1>2 DEF CopiesGranted
  <2>2. Within(a.exp, granted'[a.id])
    BY <1>0, <2>1, GrantedGrows DEF Granted
  <2> QED BY <1>0, <1>1, <2>1, <2>2 DEF Granted, Id
<1>3. CASE Fresh(t, a)
  <2>1. Within(a.exp, granted'[a.id])
    BY <1>0, <1>3, AuthnAssumption DEF Fresh, Within, Time
  <2> QED BY <1>1, <1>3, <2>1 DEF Fresh, Granted
<1>4. ASSUME Within(a.exp, granted'[a.id]), NEW b \in Authentication, Copy(t, b), b.id = a.id
      PROVE  Granted(t, a)'
  <2>1. Granted(t, b)
    BY <1>4 DEF CopiesGranted
  <2> QED BY <1>0, <1>1, <1>4, <2>1 DEF Granted, Id
<1> QED BY <1>2, <1>3, <1>4, CopyOrigin

-----------------------------------------------------------------------------
(* One token for each authentication.                                      *)

LEMMA NamedOrigin ==
    ASSUME Typed, CopiesGranted, [Next]_vars, NEW i \in Id, NEW t \in Token, Named(i, t)'
    PROVE  Named(i, t) \/ Holds(i, t)
<1>0. TypeOK /\ Shape /\ CachesTyped
  BY TypesTogether DEF Typed
<1>1. PICK k \in Cache : idEntry'[k][i] = t
  BY DEF Named
<1>2. idEntry[k][i] = t => Named(i, t)
  BY DEF Named
<1>3. ASSUME NEW l \in Cache, NEW j \in Id, idEntry' = [idEntry EXCEPT ![l][j] = Nothing]
      PROVE  idEntry[k][i] = t
  BY <1>0, <1>1, <1>3, IdSet, AuthnAssumption
<1>4. ASSUME NEW c \in Client, SetId(c) PROVE idEntry[k][i] = t \/ Holds(i, t)
  <2>1. CASE idEntry' = [idEntry EXCEPT ![K(c)][auth[c].id] = req[c].token]
    <3> DEFINE l == K(c)
               j == auth[c].id
               u == req[c].token
    <3>1. l \in Cache /\ j \in Id /\ u \in Token /\ auth[c] \in Authentication
      BY <1>0, <1>4, RequestFacts DEF SetId
    <3>2. idEntry' = [idEntry EXCEPT ![l][j] = u]
      BY <2>1
    <3>3. Holds(j, u)
      BY <3>1 DEF Holds, Copy
    <3> HIDE DEF l, j, u
    <3>4. idEntry[k][i] = t \/ (i = j /\ t = u)
      BY <1>0, <1>1, <3>1, <3>2, IdSet
    <3> QED BY <3>3, <3>4
  <2> QED BY <1>1, <1>4, <2>1 DEF SetId
<1>5. ASSUME NEW c \in Client, DeleteId(c) PROVE idEntry[k][i] = t
  <2>1. K(c) \in Cache /\ auth[c].id \in Id
    BY <1>0, <1>5, RequestFacts DEF DeleteId
  <2> QED BY <1>1, <1>3, <1>5, <2>1 DEF DeleteId
<1>6. ASSUME NEW c \in Client, Step(c) \/ Begins(c), ~SetId(c), ~DeleteId(c)
      PROVE  UNCHANGED idEntry
  BY <1>6 DEF Step, CacheGet, StoreRead, SetToken, Admit, Refuse, ExpireRow, IdGet, DeleteToken,
              Begins, Begin, caches
<1> QED BY <1>1, <1>2, <1>3, <1>4, <1>5, <1>6, StepKinds
        DEF Inserts, DeleteAuthentications, Aside, DropToken, DropId, caches

LEMMA HoldsOrigin ==
    ASSUME Typed, CopiesGranted, [Next]_vars, NEW i \in Id, NEW t \in Token, Holds(i, t)'
    PROVE  Holds(i, t) \/ \E a \in Authentication : a.id = i /\ Fresh(t, a)
<1>1. PICK a \in Authentication : Copy(t, a)' /\ a.id = i
  BY DEF Holds
<1> QED BY <1>1, CopyOrigin DEF Holds

\* A new authentication has no copies, and no entries.
LEMMA NothingNew ==
    ASSUME Typed, CopiesGranted, NEW i \in Id, i = issued + 1, NEW t \in Token
    PROVE  ~Holds(i, t) /\ ~Named(i, t)
<1>1. issued \in Nat
  BY DEF Typed, DbTyped
<1>2. ~Holds(i, t)
  BY <1>1 DEF Holds, CopiesGranted, Granted
<1>3. ~Named(i, t)
  BY <1>1 DEF Named, Typed, NamesTyped
<1> QED BY <1>2, <1>3

LEMMA OneTokenStep ==
    ASSUME Typed, CopiesGranted, OneToken, [Next]_vars
    PROVE  OneToken'
<1> SUFFICES ASSUME NEW i \in Id, NEW t \in Token, NEW u \in Token,
                    Holds(i, t)', Holds(i, u)' \/ Named(i, u)'
             PROVE  t = u
  BY DEF OneToken
<1>1. ASSUME NEW a \in Authentication, a.id = i, Fresh(t, a) PROVE t = u
  <2>1. i = issued + 1 /\ ~Holds(i, u) /\ ~Named(i, u)
    BY <1>1, NothingNew DEF Fresh
  <2>2. PICK b \in Authentication : b.id = i /\ Fresh(u, b)
    BY <2>1, HoldsOrigin, NamedOrigin
  <2>3. ASSUME t # u PROVE FALSE
    <3>1. rows[u] = b
      BY <1>1, <2>2, <2>3 DEF Fresh
    <3> QED BY <2>1, <2>2, <3>1 DEF Holds, Copy
  <2> QED BY <2>3
<1>2. ASSUME NEW a \in Authentication, a.id = i, Fresh(u, a), Holds(i, t) PROVE FALSE
  BY <1>2, NothingNew DEF Fresh
<1>3. CASE Holds(i, t) /\ (Holds(i, u) \/ Named(i, u))
  BY <1>3, Zenon DEF OneToken
<1> QED BY <1>1, <1>2, <1>3, HoldsOrigin, NamedOrigin

-----------------------------------------------------------------------------
(* The bootstrap.                                                          *)

LEMMA NoneSeenStep ==
    ASSUME Typed, NoneSeen, [Next]_vars
    PROVE  NoneSeen'
<1>0. TypeOK /\ Shape /\ DbTyped /\ RestTyped
  BY TypesTogether DEF Typed
<1>1. ASSUME UNCHANGED <<boot, newer>>,
             \A t \in Token : rows'[t] # Nothing =>
               /\ rows[t] # Nothing
               /\ rows'[t].id = rows[t].id /\ rows'[t].method = rows[t].method
      PROVE  NoneSeen'
  BY <1>1 DEF NoneSeen, TokenRows
<1>2. ASSUME NEW u \in Token, NEW n \in Id, NEW p \in AnyProfile, NEW e \in Time \cup {Never},
             Insert(u, n, p[1], e, p[2]),
             \A i \in Instance : boot'[i] = "empty" => boot[i] = "empty"
      PROVE  NoneSeen'
  <2> DEFINE a == [id |-> n, method |-> p[1], exp |-> e, meta |-> p[2]]
  <2>1. a.id = n /\ rows' = [rows EXCEPT ![u] = a]
    BY <1>2 DEF Insert
  <2> HIDE DEF a
  <2> SUFFICES ASSUME NEW i \in Instance, boot'[i] = "empty", NEW t \in TokenRows'
               PROVE  rows'[t].id \in newer'[i]
    BY DEF NoneSeen
  <2>2. newer'[i] = newer[i] \cup {n}
    BY <1>2 DEF Insert
  <2>3. t \in Token /\ rows'[t] # Nothing /\ rows'[t].method = "token"
    BY DEF TokenRows
  <2>4. CASE t = u
    BY <1>0, <2>1, <2>2, <2>4 DEF DbTyped
  <2>5. CASE t # u
    <3>1. rows'[t] = rows[t]
      BY <1>0, <2>1, <2>3, <2>5 DEF DbTyped
    <3>2. t \in TokenRows
      BY <2>3, <3>1 DEF TokenRows
    <3> QED BY <1>2, <2>2, <3>1, <3>2 DEF NoneSeen
  <2> QED BY <2>4, <2>5
<1>3. ASSUME NEW n \in Id, NEW p \in Profile, NEW e \in Expiry, CreateAuthentication(n, p, e)
      PROVE  NoneSeen'
  <2>1. n \in Token /\ p \in AnyProfile /\ e \in Time \cup {Never}
    BY AuthnAssumption DEF AnyProfile, Token
  <2> QED BY <1>2, <1>3, <2>1 DEF CreateAuthentication
<1>4. ASSUME NEW j \in Instance, BootstrapCreate(j) PROVE NoneSeen'
  <2>1. \A i \in Instance : boot'[i] = "empty" => boot[i] = "empty"
    BY <1>0, <1>4 DEF BootstrapCreate, RestTyped
  <2>2. PICK n \in Id, e \in Expiry, s \in BootScope :
               Insert(IF configured THEN Configured ELSE n, n, "token", e, s)
    BY <1>4 DEF BootstrapCreate
  <2> DEFINE u == IF configured THEN Configured ELSE n
             p == <<"token", s>>
  <2>3. u \in Token /\ p \in AnyProfile /\ p[1] = "token" /\ p[2] = s
        /\ e \in Time \cup {Never}
    BY AuthnAssumption DEF AnyProfile, Token
  <2>4. Insert(u, n, p[1], e, p[2])
    BY <2>2, <2>3
  <2> HIDE DEF u, p
  <2> QED BY <1>2, <2>1, <2>3, <2>4
<1>5. ASSUME NEW j \in Instance, BootstrapList(j) PROVE NoneSeen'
  <2> SUFFICES ASSUME NEW i \in Instance, boot'[i] = "empty", NEW t \in TokenRows'
               PROVE  rows'[t].id \in newer'[i]
    BY DEF NoneSeen
  <2>1. rows' = rows /\ t \in TokenRows
    BY <1>5 DEF BootstrapList, db, TokenRows
  <2>2. i # j
    BY <1>0, <1>5, <2>1 DEF BootstrapList, RestTyped, ListTokens
  <2>3. boot[i] = "empty" /\ newer'[i] = newer[i]
    BY <1>0, <1>5, <2>2 DEF BootstrapList, RestTyped
  <2> QED BY <2>1, <2>3 DEF NoneSeen
<1>6. ASSUME NEW j \in Instance, BootstrapRefused(j) PROVE NoneSeen'
  <2>1. rows' = rows /\ TokenRows' = TokenRows
    BY <1>6 DEF BootstrapRefused, db, TokenRows
  <2>2. \A i \in Instance : boot'[i] = "empty" => boot[i] = "empty" /\ newer'[i] = newer[i]
    BY <1>0, <1>6 DEF BootstrapRefused, RestTyped
  <2> QED BY <2>1, <2>2 DEF NoneSeen
<1>7. ASSUME NEW t \in Token, DeleteAuthentications(t) PROVE NoneSeen'
  <2>1. \A u \in Token : rows'[u] # Nothing => rows'[u] = rows[u]
    BY <1>0, <1>7 DEF DeleteAuthentications, DbTyped
  <2> QED BY <1>1, <1>7, <2>1 DEF DeleteAuthentications, bootVars
<1>8. ASSUME UNCHANGED <<boot, newer, rows>> PROVE NoneSeen'
  BY <1>1, <1>8
<1>9. ASSUME NEW c \in Client, Step(c) \/ Begins(c) PROVE NoneSeen'
  <2>1. UNCHANGED <<boot, newer>>
    BY <1>9 DEF Step, CacheGet, StoreRead, SetToken, SetId, Admit, Refuse, ExpireRow, IdGet,
                DeleteToken, DeleteId, Begins, Begin, Keep, bootVars
  <2>2. CASE pc[c] = "expire" /\ ExpiresRow(auth[c].id, ExpiryOf(c))
    <3>1. auth[c].id \in Id /\ ExpiryOf(c) \in Time
      BY <1>0, <2>2, RequestFacts, ExpiryTyped
    <3>2. \A t \in Token : rows'[t] # Nothing =>
            /\ rows[t] # Nothing
            /\ rows'[t].id = rows[t].id /\ rows'[t].method = rows[t].method
      BY <1>0, <2>2, <3>1, ExpireTyped, AuthenticationFields
    <3> QED BY <1>1, <2>1, <3>2
  <2> QED BY <1>8, <1>9, <2>1, <2>2, RequestsExpireRows DEF db
<1> QED BY <1>3, <1>4, <1>5, <1>6, <1>7, <1>8, <1>9
        DEF Next, DropToken, DropId, Tick, vars, db, bootVars

-----------------------------------------------------------------------------
(* How a request got where it is.                                          *)

Still(c) == pc'[c] = pc[c] /\ req'[c] = req[c] /\ auth'[c] = auth[c]

LEMMA StillOrMoved ==
    ASSUME Typed, [Next]_vars, NEW c \in Client
    PROVE  Still(c) \/ Step(c) \/ Begins(c)
<1>1. UNCHANGED requestVars => Still(c)
  BY DEF requestVars, Still
<1>2. ASSUME NEW d \in Client, d # c, Step(d) \/ Begins(d) PROVE Still(c)
  BY <1>2, Flow DEF Others, Still
<1> QED BY <1>1, <1>2, StepKinds DEF Inserts, DeleteAuthentications, Aside, DropToken, DropId

\* The row has been changed and the change noted.
Expired(c) ==
    /\ At(c, "idGet", req[c], auth[c])
    /\ ExpiresRow(auth[c].id, ExpiryOf(c))
    /\ settled' = [k \in Cache |-> settled[k] \ {auth[c].id}]
    /\ Noted(K(c), auth[c].id, Filling(K(c), auth[c].id) \/ Changing(K(c), auth[c].id))
    /\ after' = [d \in Client |-> after[d] \ {auth[c].id}]

LEMMA ChangesOrigin ==
    ASSUME Typed, [Next]_vars, NEW c \in Client, Changes(c)'
    PROVE  /\ req'[c] = req[c] /\ auth'[c] = auth[c]
           /\ \/ Changes(c) /\ Still(c)
              \/ pc[c] = "expire" /\ ExpireRow(c) /\ Expired(c)
              \/ IdGet(c) /\ Changes(c) /\ pc'[c] = "deleteToken"
              \/ DeleteToken(c) /\ Changes(c) /\ pc'[c] = "deleteId"
<1>1. CASE Still(c)
  BY <1>1 DEF Still, Changes
<1>2. CASE Begins(c)
  BY <1>2, Flow DEF At, Changes
<1>3. CASE CacheGet(c) \/ StoreRead(c) \/ SetToken(c) \/ SetId(c) \/ Admit(c) \/ Refuse(c)
           \/ DeleteId(c)
  BY <1>3, Flow DEF At, Finished, Changes
<1>4. CASE ExpireRow(c)
  <2>1. pc[c] = "expire" /\ (Expired(c) \/ Finished(c))
    BY <1>4, Flow DEF ExpireRow, Expired
  <2> QED BY <1>4, <2>1 DEF Finished, At, Changes, Expired
<1>5. CASE IdGet(c)
  <2>1. pc[c] = "idGet" /\ (At(c, "deleteToken", req[c], auth[c]) \/ Finished(c))
    BY <1>5, Flow DEF IdGet
  <2> QED BY <1>5, <2>1 DEF Finished, At, Changes
<1>6. CASE DeleteToken(c)
  <2>1. pc[c] = "deleteToken" /\ At(c, "deleteId", req[c], auth[c])
    BY <1>6, Flow DEF DeleteToken
  <2> QED BY <1>6, <2>1 DEF At, Changes
<1> QED BY <1>1, <1>2, <1>3, <1>4, <1>5, <1>6, StillOrMoved DEF Step

LEMMA FillsOrigin ==
    ASSUME Typed, [Next]_vars, NEW c \in Client, Fills(c)'
    PROVE  /\ req'[c] = req[c]
           /\ \/ Fills(c) /\ auth'[c] = auth[c]
              \/ /\ StoreRead(c)
                 /\ rows[req[c].token] \in Authentication /\ auth'[c] = rows[req[c].token]
                 /\ Noted(K(c), auth'[c].id, Changing(K(c), auth'[c].id))
<1>1. CASE Still(c)
  BY <1>1 DEF Still, Fills
<1>2. CASE Begins(c)
  BY <1>2, Flow DEF At, Fills
<1>3. CASE CacheGet(c) \/ SetId(c) \/ Admit(c) \/ Refuse(c) \/ ExpireRow(c) \/ IdGet(c)
           \/ DeleteToken(c) \/ DeleteId(c)
  BY <1>3, Flow DEF At, Finished, Fills
<1>4. CASE SetToken(c)
  <2>1. pc[c] = "setToken" /\ At(c, "setId", req[c], auth[c])
    BY <1>4, Flow DEF SetToken
  <2> QED BY <2>1 DEF At, Fills
<1>5. CASE StoreRead(c)
  BY <1>5, Flow DEF At, Finished, Fills
<1> QED BY <1>1, <1>2, <1>3, <1>4, <1>5, StillOrMoved DEF Step

LEMMA FillsEnd ==
    ASSUME Typed, [Next]_vars, NEW c \in Client, Fills(c)
    PROVE  \/ Fills(c)' /\ req'[c] = req[c] /\ auth'[c] = auth[c]
           \/ SetId(c)
<1>1. CASE Still(c)
  BY <1>1 DEF Still, Fills
<1>2. CASE SetToken(c)
  BY <1>2, Flow DEF At, Fills
<1>3. CASE Step(c) \/ Begins(c)
  BY <1>2, <1>3 DEF Step, Begins, Begin, Fills, CacheGet, StoreRead, Admit, Refuse, ExpireRow,
                    IdGet, DeleteToken, DeleteId
<1> QED BY <1>1, <1>3, StillOrMoved

LEMMA CheckOrigin ==
    ASSUME Typed, [Next]_vars, NEW c \in Client, pc'[c] = "check"
    PROVE  /\ req'[c] = req[c]
           /\ \/ pc[c] = "check" /\ auth'[c] = auth[c]
              \/ /\ CacheGet(c) /\ auth'[c] = tokenEntry[K(c)][req[c].token]
                 /\ auth'[c] \in Authentication
              \/ SetId(c) /\ auth'[c] = auth[c]
<1>1. CASE Still(c)
  BY <1>1 DEF Still
<1>2. CASE Begins(c)
  BY <1>2, Flow DEF At
<1>3. CASE StoreRead(c) \/ SetToken(c) \/ Admit(c) \/ Refuse(c) \/ ExpireRow(c) \/ IdGet(c)
           \/ DeleteToken(c) \/ DeleteId(c)
  BY <1>3, Flow DEF At, Finished
<1>4. CASE CacheGet(c) \/ SetId(c)
  BY <1>4, Flow DEF At
<1> QED BY <1>1, <1>2, <1>3, <1>4, StillOrMoved DEF Step

-----------------------------------------------------------------------------
(* Fills and changes apart.                                                *)

\* A lookup that begins to fill notes the changes under way, and a change that
\* begins notes the fills and the other changes.
LEMMA FillNotes ==
    ASSUME Typed, CopiesGranted, [Next]_vars, NEW c \in Client, NEW d \in Client, c # d,
           Changes(c), Still(c), StoreRead(d), auth'[d] \in Authentication,
           auth'[d].id = auth[c].id, K(c) = K(d),
           Noted(K(d), auth'[d].id, Changing(K(d), auth'[d].id))
    PROVE  auth[c].id \in overlap'[K(c)]
<1> DEFINE k == K(d)
           i == auth'[d].id
<1>1. Changing(k, i)
  BY DEF Changing, Changes
<1>2. k \in Cache /\ i \in Id
  BY TypesTogether, RequestFacts, AuthenticationFields DEF StoreRead
<1>3. overlap \in [Cache -> SUBSET Id]
  BY DEF Typed, HistoriesTyped
<1>4. overlap' = [overlap EXCEPT ![k] = @ \cup {i}]
  BY <1>1 DEF Noted
<1> HIDE DEF k, i
<1>5. i \in overlap'[k]
  BY <1>2, <1>3, <1>4
<1> QED BY <1>5 DEF k, i

LEMMA ChangeNotes ==
    ASSUME Typed, CopiesGranted, [Next]_vars, NEW c \in Client, NEW d \in Client, c # d,
           pc[c] = "expire", Expired(c), Changes(d) \/ Fills(d), Meet(c, d)
    PROVE  auth[c].id \in overlap'[K(c)]
<1> DEFINE k == K(c)
           i == auth[c].id
<1>1. Filling(k, i) \/ Changing(k, i)
  BY DEF Filling, Changing, Changes, Fills, Meet
<1>2. k \in Cache /\ i \in Id
  BY TypesTogether, RequestFacts
<1>3. overlap \in [Cache -> SUBSET Id]
  BY DEF Typed, HistoriesTyped
<1>4. overlap' = [overlap EXCEPT ![k] = @ \cup {i}]
  BY <1>1 DEF Noted, Expired
<1> HIDE DEF k, i
<1>5. i \in overlap'[k]
  BY <1>2, <1>3, <1>4
<1> QED BY <1>5 DEF k, i

LEMMA OverlapKept ==
    ASSUME Typed, CopiesGranted, [Next]_vars, NEW k \in Cache, NEW i, i \in overlap[k]
    PROVE  i \in overlap'[k]
BY HistoriesStep DEF OverlapGrows

\* One request moves at a time.
LEMMA OneMoves ==
    ASSUME Typed, [Next]_vars, NEW c \in Client, NEW d \in Client, c # d, Step(c)
    PROVE  Still(d)
BY Flow DEF Others, Still

LEMMA ApartStep ==
    ASSUME Typed, CopiesGranted, Apart, [Next]_vars
    PROVE  Apart'
<1> SUFFICES ASSUME NEW c \in Client, NEW d \in Client, c # d, Changes(c)',
                    Changes(d)' \/ Fills(d)', Meet(c, d)'
             PROVE  auth'[c].id \in overlap'[K(c)']
  BY DEF Apart
<1>1. req'[c] = req[c] /\ auth'[c] = auth[c] /\ req'[d] = req[d] /\ K(c)' = K(c) /\ K(d)' = K(d)
  BY ChangesOrigin, FillsOrigin DEF K
<1>2. K(c) \in Cache
  <2>1. pc[c] # "idle"
    BY ChangesOrigin DEF Changes
  <2> QED BY <2>1, TypesTogether, RequestFacts
<1>3. CASE pc[c] = "expire" /\ ExpireRow(c) /\ Expired(c)
  <2>1. Still(d)
    BY <1>3, OneMoves DEF Step
  <2>2. Changes(d) \/ Fills(d)
    BY <2>1 DEF Still, Changes, Fills
  <2>3. Meet(c, d)
    BY <1>1, <2>1 DEF Still, Meet
  <2> QED BY <1>1, <1>3, <2>2, <2>3, ChangeNotes
<1>4. CASE Changes(c)
  <2>1. CASE pc[d] = "expire" /\ ExpireRow(d) /\ Expired(d)
    <3>1. Still(c) /\ auth'[d] = auth[d]
      BY <2>1, OneMoves DEF Step, Expired, At
    <3>2. Meet(d, c)
      BY <1>1, <3>1 DEF Meet
    <3>3. auth[d].id \in overlap'[K(d)]
      BY <1>4, <2>1, <3>2, ChangeNotes
    <3> QED BY <1>1, <3>2, <3>3 DEF Meet
  <2>2. CASE /\ StoreRead(d) /\ auth'[d] \in Authentication
             /\ Noted(K(d), auth'[d].id, Changing(K(d), auth'[d].id))
    <3>1. Still(c)
      BY <2>2, OneMoves DEF Step
    <3>2. auth'[d].id = auth[c].id /\ K(c) = K(d)
      BY <1>1 DEF Meet
    <3> QED BY <1>1, <1>4, <2>2, <3>1, <3>2, FillNotes
  <2>3. CASE (Changes(d) \/ Fills(d)) /\ auth'[d] = auth[d]
    <3>1. Meet(c, d)
      BY <1>1, <2>3 DEF Meet
    <3>2. auth[c].id \in overlap[K(c)]
      BY <1>4, <2>3, <3>1 DEF Apart
    <3> QED BY <1>1, <1>2, <3>2, OverlapKept
  <2> QED BY <2>1, <2>2, <2>3, ChangesOrigin, FillsOrigin
<1> QED BY <1>3, <1>4, ChangesOrigin

-----------------------------------------------------------------------------
(* What a change finds in the cache.                                       *)

LEMMA EntryHeld ==
    ASSUME Typed, NEW k \in Cache, NEW t \in Token, tokenEntry[k][t] # Nothing
    PROVE  /\ tokenEntry[k][t] \in Authentication /\ tokenEntry[k][t].id \in Id
           /\ Holds(tokenEntry[k][t].id, t)
<1> DEFINE a == tokenEntry[k][t]
<1>1. a \in Authentication
  BY DEF Typed, CachesTyped
<1>2. Copy(t, a)
  BY DEF Copy
<1> HIDE DEF a
<1>3. a.id \in Id /\ Holds(a.id, t)
  BY <1>1, <1>2, AuthenticationFields DEF Holds
<1> QED BY <1>1, <1>3 DEF a

LEMMA CarriedHeld ==
    ASSUME Typed, NEW c \in Client, pc[c] \notin {"idle", "get", "read"}
    PROVE  /\ K(c) \in Cache /\ auth[c] \in Authentication /\ auth[c].id \in Id
           /\ req[c].token \in Token /\ Holds(auth[c].id, req[c].token)
<1> DEFINE a == auth[c]
           t == req[c].token
<1>1. K(c) \in Cache /\ a \in Authentication /\ a.id \in Id /\ t \in Token
  BY TypesTogether, RequestFacts
<1>2. Copy(t, a)
  BY DEF Copy
<1> HIDE DEF a, t
<1>3. Holds(a.id, t)
  BY <1>1, <1>2 DEF Holds
<1> QED BY <1>1, <1>3 DEF a, t

\* The entry that leads to a copy goes only when the copy does, or it is noted.
LEMMA NameKept ==
    ASSUME Typed, CopiesGranted, OneToken, EntryDeleted, [Next]_vars,
           NEW k \in Cache, NEW t \in Token, tokenEntry[k][t] # Nothing,
           NEW i, i = tokenEntry[k][t].id, idEntry[k][i] # Nothing
    PROVE  i \in overlap'[k] \/ idEntry'[k][i] # Nothing \/ (Filling(k, i) /\ UNCHANGED requestVars)
<1>0. i \in Id /\ Holds(i, t) /\ CachesTyped
  BY EntryHeld DEF Typed
<1>1. ASSUME NEW l \in Cache, NEW j \in Id, DropId(l, j)
      PROVE  \/ i \in overlap'[k]
             \/ idEntry'[k][i] # Nothing \/ (Filling(k, i) /\ UNCHANGED requestVars)
  <2>1. CASE l = k /\ j = i
    <3>1. UNCHANGED requestVars
      BY <1>1 DEF DropId
    <3>2. CASE tokenEntry[k][idEntry[k][i]] = Nothing
      <4>1. idEntry[k][i] \in Token /\ Named(i, idEntry[k][i])
        BY <1>0 DEF CachesTyped, Named
      <4>2. t = idEntry[k][i]
        BY <1>0, <4>1, Zenon DEF OneToken
      <4> QED BY <3>2, <4>2
    <3>3. CASE tokenEntry[k][idEntry[k][i]] # Nothing /\ ~Filling(k, i)
      <4>1. overlap' = [overlap EXCEPT ![k] = @ \cup {i}]
        BY <1>1, <2>1, <3>3 DEF DropId, Noted
      <4> QED BY <4>1 DEF Typed, HistoriesTyped
    <3> QED BY <3>1, <3>2, <3>3
  <2>2. CASE l # k \/ j # i
    <3>1. idEntry' = [idEntry EXCEPT ![l][j] = Nothing]
      BY <1>1 DEF DropId
    <3> QED BY <1>0, <2>2, <3>1, IdSet
  <2> QED BY <2>1, <2>2
<1>2. ASSUME NEW c \in Client, SetId(c) PROVE idEntry'[k][i] # Nothing
  <2>1. CASE idEntry' = [idEntry EXCEPT ![K(c)][auth[c].id] = req[c].token]
    <3> DEFINE l == K(c)
               j == auth[c].id
               u == req[c].token
    <3>1. l \in Cache /\ j \in Id /\ u \in Token
      BY <1>2, CarriedHeld DEF SetId
    <3>2. idEntry' = [idEntry EXCEPT ![l][j] = u]
      BY <2>1
    <3> HIDE DEF l, j, u
    <3> QED BY <1>0, <3>1, <3>2, IdSet, AuthnAssumption
  <2> QED BY <1>2, <2>1 DEF SetId
<1>3. ASSUME NEW c \in Client, DeleteId(c) PROVE i \in overlap'[k] \/ idEntry'[k][i] # Nothing
  <2>1. K(c) \in Cache /\ auth[c].id \in Id
    BY <1>3, CarriedHeld DEF DeleteId
  <2>2. CASE K(c) = k /\ auth[c].id = i
    BY <1>3, <2>2, OverlapKept DEF EntryDeleted, DeleteId
  <2>3. CASE K(c) # k \/ auth[c].id # i
    <3>1. idEntry' = [idEntry EXCEPT ![K(c)][auth[c].id] = Nothing] => idEntry'[k][i] = idEntry[k][i]
      BY <1>0, <2>1, <2>3, IdSet
    <3> QED BY <1>3, <3>1 DEF DeleteId
  <2> QED BY <2>2, <2>3
<1>4. ASSUME NEW c \in Client, Step(c) \/ Begins(c), ~SetId(c), ~DeleteId(c)
      PROVE  UNCHANGED idEntry
  BY <1>4 DEF Step, CacheGet, StoreRead, SetToken, Admit, Refuse, ExpireRow, IdGet, DeleteToken,
              Begins, Begin, caches
<1> QED BY <1>1, <1>2, <1>3, <1>4, StepKinds
        DEF Inserts, DeleteAuthentications, Aside, DropToken, caches

\* A lookup leaves, of the copy it made, the entry that leads to it.
LEMMA FillLeavesName ==
    ASSUME Typed, CopiesGranted, NEW c \in Client, SetId(c)
    PROVE  auth[c].id \in overlap'[K(c)] \/ idEntry'[K(c)][auth[c].id] # Nothing
<1> DEFINE l == K(c)
           j == auth[c].id
           u == req[c].token
<1>1. l \in Cache /\ j \in Id /\ u \in Token
  BY CarriedHeld DEF SetId
<1>2. \/ idEntry' = [idEntry EXCEPT ![l][j] = u]
      \/ overlap' = [overlap EXCEPT ![l] = @ \cup {j}]
  BY DEF SetId, Noted
<1>3. CachesTyped /\ overlap \in [Cache -> SUBSET Id]
  BY DEF Typed, HistoriesTyped
<1> HIDE DEF l, j, u
<1>4. j \in overlap'[l] \/ idEntry'[l][j] # Nothing
  BY <1>1, <1>2, <1>3, IdSet, AuthnAssumption
<1> QED BY <1>4 DEF l, j

LEMMA EntriesNamedStep ==
    ASSUME Typed, CopiesGranted, OneToken, EntriesNamed, EntryDeleted, [Next]_vars
    PROVE  EntriesNamed'
<1> SUFFICES ASSUME NEW k \in Cache, NEW t \in Token, tokenEntry'[k][t] # Nothing,
                    NEW i, i = tokenEntry'[k][t].id
             PROVE  i \in overlap'[k] \/ idEntry'[k][i] # Nothing \/ Filling(k, i)'
  BY DEF EntriesNamed
<1>1. tokenEntry'[k][t] \in Authentication
  BY CachesStep DEF CachesTyped
<1>2. ASSUME NEW c \in Client, SetToken(c), K(c) = k, auth[c] = tokenEntry'[k][t]
      PROVE  Filling(k, i)'
  BY <1>2, Flow DEF At, Filling, K
<1>3. CASE tokenEntry[k][t] = tokenEntry'[k][t]
  <2>1. CASE i \in overlap[k]
    BY <2>1, OverlapKept
  <2>2. UNCHANGED requestVars /\ Filling(k, i) => Filling(k, i)'
    BY DEF requestVars, Filling, K
  <2>3. CASE idEntry[k][i] # Nothing
    BY <1>3, <2>1, <2>2, <2>3, NameKept
  <2>4. ASSUME NEW c \in Client, Fills(c), K(c) = k, auth[c].id = i
        PROVE  i \in overlap'[k] \/ idEntry'[k][i] # Nothing \/ Filling(k, i)'
    <3>1. CASE Fills(c)' /\ req'[c] = req[c] /\ auth'[c] = auth[c]
      BY <2>4, <3>1 DEF Fills, Filling, K
    <3>2. CASE SetId(c)
      BY <2>4, <3>2, FillLeavesName
    <3> QED BY <2>4, <3>1, <3>2, FillsEnd
  <2> QED BY <1>3, <2>1, <2>3, <2>4 DEF EntriesNamed, Filling, Fills
<1> QED BY <1>1, <1>2, <1>3, EntryOrigin

\* A change takes from the cache every copy there is.
LEMMA TokenDeleted ==
    ASSUME Typed, CopiesGranted, OneToken, NEW c \in Client, DeleteToken(c),
           NEW t \in Token, tokenEntry'[K(c)][t] # Nothing, tokenEntry'[K(c)][t].id = auth[c].id
    PROVE  auth[c].id \in overlap'[K(c)]
<1> DEFINE k == K(c)
           i == auth[c].id
           u == req[c].token
<1>1. k \in Cache /\ i \in Id /\ u \in Token /\ Holds(i, u)
  BY CarriedHeld DEF DeleteToken
<1>2. \/ tokenEntry' = [tokenEntry EXCEPT ![k][u] = Nothing]
      \/ overlap' = [overlap EXCEPT ![k] = @ \cup {i}]
  BY DEF DeleteToken, Noted
<1>3. CachesTyped /\ overlap \in [Cache -> SUBSET Id]
  BY DEF Typed, HistoriesTyped
<1>4. tokenEntry'[k][t] # Nothing /\ tokenEntry'[k][t].id = i
  OBVIOUS
<1> HIDE DEF k, i, u
<1>5. CASE tokenEntry' = [tokenEntry EXCEPT ![k][u] = Nothing]
  <2>1. t # u /\ tokenEntry'[k][t] = tokenEntry[k][t]
    BY <1>1, <1>3, <1>4, <1>5, TokenSet
  <2>2. Holds(i, t)
    BY <1>1, <1>4, <2>1, EntryHeld
  <2>3. t = u
    BY <1>1, <2>2, Zenon DEF OneToken
  <2> QED BY <2>1, <2>3
<1>6. CASE overlap' = [overlap EXCEPT ![k] = @ \cup {i}]
  <2>1. i \in overlap'[k]
    BY <1>1, <1>3, <1>6
  <2> QED BY <2>1 DEF i, k
<1> QED BY <1>2, <1>5, <1>6

LEMMA EntryDeletedStep ==
    ASSUME Typed, CopiesGranted, OneToken, Apart, EntryDeleted, [Next]_vars
    PROVE  EntryDeleted'
<1> SUFFICES ASSUME NEW c \in Client, NEW t \in Token, pc'[c] = "deleteId",
                    tokenEntry'[K(c)'][t] # Nothing, tokenEntry'[K(c)'][t].id = auth'[c].id
             PROVE  auth'[c].id \in overlap'[K(c)']
  BY DEF EntryDeleted
<1>1. Changes(c)'
  BY DEF Changes
<1>2. req'[c] = req[c] /\ auth'[c] = auth[c] /\ K(c)' = K(c)
  BY <1>1, ChangesOrigin DEF K
<1>3. CASE Changes(c) /\ Still(c)
  <2>1. pc[c] = "deleteId" /\ K(c) \in Cache
    BY <1>3, CarriedHeld DEF Still
  <2>2. tokenEntry'[K(c)][t] \in Authentication
    BY <1>2, <2>1, CachesStep DEF CachesTyped
  <2>3. CASE tokenEntry[K(c)][t] = tokenEntry'[K(c)][t]
    <3>1. auth[c].id \in overlap[K(c)]
      BY <1>2, <2>1, <2>3 DEF EntryDeleted
    <3> QED BY <1>2, <2>1, <3>1, OverlapKept
  <2>4. ASSUME NEW d \in Client, SetToken(d), K(d) = K(c), auth[d] = tokenEntry'[K(c)][t]
        PROVE  auth[c].id \in overlap'[K(c)]
    <3>1. Fills(d) /\ Meet(c, d) /\ c # d
      BY <1>2, <2>1, <2>4 DEF SetToken, Fills, Meet
    <3>2. auth[c].id \in overlap[K(c)]
      BY <1>3, <3>1 DEF Apart
    <3> QED BY <2>1, <3>2, OverlapKept
  <2> QED BY <1>2, <2>1, <2>2, <2>3, <2>4, EntryOrigin
<1>4. CASE DeleteToken(c)
  BY <1>2, <1>4, TokenDeleted
<1> QED BY <1>1, <1>3, <1>4, ChangesOrigin DEF Expired, At

-----------------------------------------------------------------------------
(* After a change has returned.                                            *)

\* A change returns when no copy is left and none is being made, or the overlap
\* is noted.
LEMMA SettledClean ==
    ASSUME Typed, CopiesGranted, Apart, EntriesNamed, EntryDeleted, NEW c \in Client,
           IdGet(c) \/ DeleteId(c), Settle(c), [Next]_vars,
           auth[c].id \notin overlap'[K(c)]
    PROVE  /\ \A t \in Token : tokenEntry[K(c)][t] # Nothing => tokenEntry[K(c)][t].id # auth[c].id
           /\ \A d \in Client : ~(Fills(d) /\ Meet(c, d))
<1> DEFINE k == K(c)
           i == auth[c].id
<1>1. k \in Cache /\ i \in Id /\ Changes(c)
  BY CarriedHeld DEF IdGet, DeleteId, Changes
<1>2. i \notin overlap[k]
  BY <1>1, OverlapKept
<1>3. \A d \in Client : ~(Fills(d) /\ Meet(c, d))
  BY <1>1, <1>2 DEF Apart, Changes, Fills
<1>4. ~Filling(k, i)
  BY <1>3 DEF Filling, Fills, Meet
<1>5. CASE DeleteId(c)
  BY <1>2, <1>3, <1>5 DEF EntryDeleted, DeleteId
<1>6. CASE IdGet(c)
  <2>1. overlap \in [Cache -> SUBSET Id]
    BY DEF Typed, HistoriesTyped
  <2>2. pc'[c] = "idle"
    BY TypesTogether DEF Settle, Finish, Goto, Typed, RequestsTyped
  <2>3. \/ idEntry[k][i] = Nothing
        \/ overlap' = [overlap EXCEPT ![k] = @ \cup {i}]
    BY <1>6, <2>2 DEF IdGet, Noted, Goto, Typed, RequestsTyped
  <2> HIDE DEF k, i
  <2>4. overlap' = [overlap EXCEPT ![k] = @ \cup {i}] => i \in overlap'[k]
    BY <1>1, <2>1
  <2>5. idEntry[k][i] = Nothing
    BY <2>3, <2>4 DEF k, i
  <2>6. \A t \in Token : tokenEntry[k][t] # Nothing => tokenEntry[k][t].id # i
    BY <1>1, <1>2, <1>4, <2>5 DEF EntriesNamed
  <2> QED BY <1>3, <2>6 DEF k, i
<1> QED BY <1>5, <1>6

LEMMA SettledOrigin ==
    ASSUME Typed, CopiesGranted, [Next]_vars, NEW k \in Cache, NEW i, i \in settled'[k]
    PROVE  \/ i \in settled[k]
           \/ \E c \in Client : /\ IdGet(c) \/ DeleteId(c)
                                /\ Settle(c) /\ K(c) = k /\ auth[c].id = i
<1>0. settled \in [Cache -> SUBSET Id]
  BY DEF Typed, HistoriesTyped
<1>1. ASSUME NEW c \in Client, IdGet(c) \/ DeleteId(c), Settle(c)
      PROVE  i \in settled[k] \/ (K(c) = k /\ auth[c].id = i)
  <2>1. K(c) \in Cache
    BY <1>1, CarriedHeld DEF IdGet, DeleteId
  <2> QED BY <1>0, <1>1, <2>1 DEF Settle
<1>2. ASSUME NEW c \in Client, Step(c) \/ Begins(c)
      PROVE  \/ i \in settled[k]
             \/ (IdGet(c) \/ DeleteId(c)) /\ Settle(c)
  <2>1. CASE IdGet(c) \/ DeleteId(c)
    BY <2>1 DEF IdGet, DeleteId, histories
  <2>2. CASE ExpireRow(c)
    BY <1>0, <2>2 DEF ExpireRow, histories
  <2>3. CASE ~IdGet(c) /\ ~DeleteId(c) /\ ~ExpireRow(c)
    BY <1>2, <2>3 DEF Step, CacheGet, StoreRead, SetToken, SetId, Admit, Refuse, DeleteToken, Begins,
                      Begin, histories
  <2> QED BY <2>1, <2>2, <2>3
<1> QED BY <1>1, <1>2, StepKinds
        DEF Inserts, DeleteAuthentications, Aside, DropToken, DropId, histories

\* A copy agrees with its row until the expiry of the row is changed.
LEMMA AgreesStays ==
    ASSUME Typed, CopiesGranted, [Next]_vars, NEW t \in Token, NEW a \in Authentication,
           Copy(t, a), Agrees(t, a)
    PROVE  \/ Agrees(t, a)'
           \/ /\ \A k \in Cache : a.id \notin settled'[k]
              /\ \A d \in Client : a.id \notin after'[d]
<1>0. TypeOK /\ Shape /\ DbTyped /\ a.id \in Id /\ a.id <= issued
  BY TypesTogether, AuthenticationFields DEF Typed, CopiesGranted, Granted
<1>1. ASSUME rows'[t] = rows[t] \/ rows'[t] = Nothing PROVE Agrees(t, a)'
  BY <1>1 DEF Agrees
<1>2. ASSUME NEW u \in Token, NEW n \in Id, NEW p \in AnyProfile, NEW e \in Time \cup {Never},
             Inserts(u, n, p, e)
      PROVE  Agrees(t, a)'
  <2>1. CASE t = u
    <3>1. rows'[t].id = issued + 1
      BY <1>0, <1>2, <2>1, InsertTyped
    <3>2. rows'[t].id # a.id
      BY <1>0, <3>1 DEF DbTyped, Id
    <3> QED BY <3>2 DEF Agrees
  <2>2. CASE t # u
    BY <1>0, <1>1, <1>2, <2>2, InsertTyped
  <2> QED BY <2>1, <2>2
<1>3. ASSUME NEW u \in Token, DeleteAuthentications(u) PROVE Agrees(t, a)'
  BY <1>0, <1>1, <1>3 DEF DeleteAuthentications, DbTyped
<1>4. ASSUME NEW c \in Client, Expired(c), pc[c] = "expire"
      PROVE  \/ Agrees(t, a)'
             \/ /\ \A k \in Cache : a.id \notin settled'[k]
                /\ \A d \in Client : a.id \notin after'[d]
  <2> DEFINE i == auth[c].id
             e == ExpiryOf(c)
  <2>1. i \in Id /\ e \in Time /\ ExpiresRow(i, e)
    BY <1>0, <1>4, RequestFacts, ExpiryTyped DEF Expired
  <2>2. CASE a.id = i
    BY <1>4, <2>2 DEF Expired
  <2>3. CASE a.id # i
    <3> HIDE DEF i, e
    <3>1. rows'[t] = rows[t] \/ rows'[t].id = i
      BY <1>0, <2>1, ExpireTyped
    <3>2. rows'[t].id = i => Agrees(t, a)'
      BY <2>3 DEF Agrees
    <3> QED BY <1>1, <3>1, <3>2
  <2> QED BY <2>2, <2>3
<1>5. ASSUME NEW c \in Client, Step(c) \/ Begins(c)
      PROVE  \/ Agrees(t, a)'
             \/ /\ \A k \in Cache : a.id \notin settled'[k]
                /\ \A d \in Client : a.id \notin after'[d]
  <2>1. UNCHANGED db => rows'[t] = rows[t]
    BY DEF db
  <2>2. CASE pc[c] = "expire" /\ ExpireRow(c)
    <3>1. Expired(c) \/ UNCHANGED db
      BY <2>2, Flow DEF Expired
    <3> QED BY <1>1, <1>4, <2>1, <2>2, <3>1
  <2> QED BY <1>1, <1>5, <2>1, <2>2, RequestsExpireRows
<1> QED BY <1>1, <1>2, <1>3, <1>5, StepKinds DEF Aside, DropToken, DropId, db

LEMMA EntriesAgreeStep ==
    ASSUME Typed, CopiesGranted, Apart, EntriesNamed, EntryDeleted, EntriesAgree, FillsAgree,
           [Next]_vars
    PROVE  EntriesAgree'
<1>1. \A k \in Cache, t \in Token : tokenEntry'[k][t] # Nothing => tokenEntry'[k][t] \in Authentication
  BY CachesStep DEF CachesTyped
<1> SUFFICES ASSUME NEW k \in Cache, NEW t \in Token, NEW a \in Authentication,
                    tokenEntry'[k][t] = a, a.id \in settled'[k] \ overlap'[k]
             PROVE  Agrees(t, a)'
  BY <1>1 DEF EntriesAgree, Agrees
<1>2. a.id \in settled'[k] /\ a.id \notin overlap'[k] /\ a.id \notin overlap[k]
  BY OverlapKept
<1>3. Copy(t, a) /\ Agrees(t, a) => Agrees(t, a)'
  BY <1>2, AgreesStays
<1>4. CASE tokenEntry[k][t] = a
  <2>1. Copy(t, a)
    BY <1>4 DEF Copy
  <2>2. CASE a.id \in settled[k]
    BY <1>2, <1>3, <1>4, <2>1, <2>2, AuthenticationFields DEF EntriesAgree
  <2>3. ASSUME NEW c \in Client, IdGet(c) \/ DeleteId(c), Settle(c), K(c) = k, auth[c].id = a.id
        PROVE  FALSE
    BY <1>2, <1>4, <2>3, SettledClean, AuthenticationFields
  <2> QED BY <1>2, <2>2, <2>3, SettledOrigin
<1>5. ASSUME NEW c \in Client, SetToken(c), K(c) = k, req[c].token = t, auth[c] = a
      PROVE  Agrees(t, a)'
  <2>1. Copy(t, a)
    BY <1>5 DEF Copy
  <2>2. settled' = settled
    BY <1>5 DEF SetToken, histories
  <2> QED BY <1>2, <1>3, <1>5, <2>1, <2>2 DEF FillsAgree, Fills, SetToken
<1> QED BY <1>4, <1>5, EntryOrigin

LEMMA FillsAgreeStep ==
    ASSUME Typed, CopiesGranted, Apart, EntriesNamed, EntryDeleted, FillsAgree, [Next]_vars
    PROVE  FillsAgree'
<1>1. \A c \in Client : Fills(c)' => auth'[c] \in Authentication /\ K(c)' = K(c)
  BY RequestsStep, FillsOrigin DEF RequestsTyped, Fills, K
<1> SUFFICES ASSUME NEW c \in Client, Fills(c)', NEW a \in Authentication, auth'[c] = a,
                    a.id \in settled'[K(c)] \ overlap'[K(c)], NEW t, t = req[c].token
             PROVE  Agrees(t, a)'
  BY <1>1, FillsOrigin DEF FillsAgree, Agrees
<1>2. CASE Fills(c) /\ auth[c] = a
  <2>1. K(c) \in Cache /\ t \in Token /\ Copy(t, a)
    BY <1>2, CarriedHeld DEF Fills, Copy
  <2>2. a.id \in settled'[K(c)] /\ a.id \notin overlap'[K(c)] /\ a.id \notin overlap[K(c)]
    BY <2>1, OverlapKept
  <2>3. CASE a.id \in settled[K(c)]
    <3>1. Agrees(t, a)
      BY <1>2, <2>2, <2>3 DEF FillsAgree
    <3> QED BY <2>1, <2>2, <3>1, AgreesStays
  <2>4. ASSUME NEW d \in Client, IdGet(d) \/ DeleteId(d), Settle(d), K(d) = K(c),
               auth[d].id = a.id
        PROVE  FALSE
    BY <1>2, <2>2, <2>4, SettledClean DEF Meet
  <2> QED BY <2>1, <2>2, <2>3, <2>4, SettledOrigin
<1>3. CASE StoreRead(c) /\ rows[req[c].token] = a
  BY <1>3 DEF StoreRead, db, Agrees
<1> QED BY <1>2, <1>3, FillsOrigin

LEMMA GoingOn ==
    ASSUME Typed, NEW c \in Client, NEW d \in Client, Step(d), pc'[c] # "idle"
    PROVE  pc[c] # "idle" /\ req'[c] = req[c] /\ K(c)' = K(c) /\ K(c) \in Cache
<1>1. CASE c # d
  BY <1>1, Flow, TypesTogether, RequestFacts DEF Others, K
<1>2. CASE c = d
  <2>1. pc[c] # "idle"
    BY <1>2 DEF Step, CacheGet, StoreRead, SetToken, SetId, Admit, Refuse, ExpireRow, IdGet,
                DeleteToken, DeleteId
  <2>2. req'[c] = req[c]
    BY <1>2, Flow DEF Step, At, Finished
  <2> QED BY <2>1, <2>2, TypesTogether, RequestFacts DEF K
<1> QED BY <1>1, <1>2

\* What was settled stays so until the next change; what was when a request
\* began, likewise.
LEMMA HistoriesKept ==
    ASSUME Typed, NEW d \in Client, Step(d)
    PROVE  \/ Expired(d)
           \/ /\ \A k \in Cache : settled[k] \subseteq settled'[k]
              /\ \A c \in Client : after'[c] \subseteq after[c]
<1>0. settled \in [Cache -> SUBSET Id] /\ after \in [Client -> SUBSET Id]
  BY DEF Typed, HistoriesTyped
<1>1. ASSUME UNCHANGED settled \/ Settle(d) PROVE \A k \in Cache : settled[k] \subseteq settled'[k]
  BY <1>0, <1>1 DEF Settle
<1>2. ASSUME UNCHANGED after \/ Finish(d) PROVE \A c \in Client : after'[c] \subseteq after[c]
  BY <1>0, <1>2 DEF Finish
<1>3. CASE ExpireRow(d)
  <2>1. Expired(d) \/ (Finished(d) /\ UNCHANGED histories)
    BY <1>3, Flow DEF Expired
  <2>2. Finished(d) => Finish(d)
    BY <1>3 DEF ExpireRow, Finished, At, Goto, Typed, RequestsTyped
  <2> QED BY <1>1, <1>2, <2>1, <2>2 DEF histories
<1>4. CASE ~ExpireRow(d)
  <2>1. UNCHANGED settled \/ Settle(d)
    BY <1>4 DEF Step, CacheGet, StoreRead, SetToken, SetId, Admit, Refuse, IdGet, DeleteToken,
                DeleteId, histories
  <2>2. UNCHANGED after \/ Finish(d)
    BY <1>4 DEF Step, CacheGet, StoreRead, SetToken, SetId, Admit, Refuse, IdGet, DeleteToken,
                DeleteId, Settle
  <2> QED BY <1>1, <1>2, <2>1, <2>2
<1> QED BY <1>3, <1>4

LEMMA AfterStep ==
    ASSUME Typed, AfterSettled, [Next]_vars
    PROVE  /\ AfterSettled'
           /\ \A c \in Client : pc[c] # "idle" => after'[c] \subseteq after[c]
<1>0. settled \in [Cache -> SUBSET Id] /\ after \in [Client -> SUBSET Id]
  BY DEF Typed, HistoriesTyped
<1>1. CASE UNCHANGED <<requestVars, histories>>
  BY <1>1 DEF requestVars, histories, AfterSettled, K
<1>2. ASSUME NEW d \in Client, Begins(d)
      PROVE  /\ AfterSettled'
             /\ \A c \in Client : pc[c] # "idle" => after'[c] \subseteq after[c]
  <2>1. PICK i \in Instance, t \in Token : \E op, ns, e : Begin(d, i, t, op, ns, e)
    BY <1>2 DEF Begins
  <2>2. /\ pc[d] = "idle" /\ settled' = settled
        /\ after' = [after EXCEPT ![d] = settled[CacheOf[i]]]
    BY <2>1 DEF Begin, histories
  <2>3. K(d)' = CacheOf[i]
    BY <2>1 DEF Begin, K, Typed, RequestsTyped
  <2>4. \A c \in Client : c # d => pc'[c] = pc[c] /\ K(c)' = K(c) /\ after'[c] = after[c]
    BY <1>0, <1>2, <2>2, Flow DEF Others, K
  <2>5. after'[d] = settled'[K(d)']
    BY <1>0, <2>2, <2>3
  <2>6. AfterSettled'
    BY <2>2, <2>4, <2>5 DEF AfterSettled
  <2> QED BY <2>2, <2>4, <2>6
<1>3. ASSUME NEW d \in Client, Step(d)
      PROVE  /\ AfterSettled'
             /\ \A c \in Client : pc[c] # "idle" => after'[c] \subseteq after[c]
  <2>1. CASE Expired(d)
    <3>1. \A c \in Client : after'[c] = after[c] \ {auth[d].id}
      BY <2>1 DEF Expired
    <3>2. \A k \in Cache : settled'[k] = settled[k] \ {auth[d].id}
      BY <2>1 DEF Expired
    <3>3. AfterSettled'
      BY <1>3, <3>1, <3>2, GoingOn DEF AfterSettled
    <3> QED BY <3>1, <3>3
  <2>2. CASE /\ \A k \in Cache : settled[k] \subseteq settled'[k]
             /\ \A c \in Client : after'[c] \subseteq after[c]
    <3>1. AfterSettled'
      BY <1>3, <2>2, GoingOn DEF AfterSettled
    <3> QED BY <2>2, <3>1
  <2> QED BY <1>3, <2>1, <2>2, HistoriesKept
<1>4. ASSUME NEW k \in Cache, NEW i \in Id, DropId(k, i)
      PROVE  /\ AfterSettled'
             /\ \A c \in Client : pc[c] # "idle" => after'[c] \subseteq after[c]
  <2>1. UNCHANGED <<requestVars, settled>>
    BY <1>4 DEF DropId
  <2> QED BY <2>1 DEF requestVars, AfterSettled, K
<1> QED BY <1>1, <1>2, <1>3, <1>4, StepKinds DEF Inserts, DeleteAuthentications, Aside, DropToken

LEMMA ChecksAgreeStep ==
    ASSUME Typed, CopiesGranted, AfterSettled, EntriesAgree, FillsAgree, ChecksAgree, [Next]_vars
    PROVE  ChecksAgree'
<1>1. \A c \in Client : pc'[c] = "check" => auth'[c] \in Authentication /\ K(c)' = K(c)
  BY RequestsStep, CheckOrigin DEF RequestsTyped, K
<1> SUFFICES ASSUME NEW c \in Client, pc'[c] = "check", NEW a \in Authentication, auth'[c] = a,
                    a.id \in after'[c] \ overlap'[K(c)], NEW t, t = req[c].token
             PROVE  Agrees(t, a)'
  BY <1>1, CheckOrigin DEF ChecksAgree, Agrees
<1>2. pc[c] # "idle"
  BY CheckOrigin DEF CacheGet, SetId
<1>3. K(c) \in Cache /\ t \in Token
  BY <1>2, TypesTogether, RequestFacts
<1>4. a.id \in after[c] /\ a.id \in after'[c] /\ a.id \notin overlap[K(c)] /\ a.id \in settled[K(c)]
  BY <1>2, <1>3, AfterStep, OverlapKept DEF AfterSettled
<1>5. Copy(t, a) /\ Agrees(t, a) => Agrees(t, a)'
  BY <1>3, <1>4, AgreesStays
<1>6. CASE pc[c] = "check" /\ auth[c] = a
  BY <1>4, <1>5, <1>6 DEF ChecksAgree, Copy
<1>7. CASE CacheGet(c) /\ tokenEntry[K(c)][t] = a
  BY <1>3, <1>4, <1>5, <1>7, AuthenticationFields DEF EntriesAgree, Copy
<1>8. CASE SetId(c) /\ auth[c] = a
  BY <1>4, <1>5, <1>8 DEF FillsAgree, Fills, SetId, Copy
<1> QED BY <1>6, <1>7, <1>8, CheckOrigin

-----------------------------------------------------------------------------
(* The invariant and the theorems.                                         *)

LEMMA AuthnInit == Init => AuthnInv
<1> SUFFICES ASSUME Init PROVE AuthnInv
  OBVIOUS
<1> USE DEF Init
<1>1. DbTyped /\ CachesTyped /\ RequestsTyped /\ RestTyped
  BY AuthnAssumption DEF DbTyped, CachesTyped, RequestsTyped, RestTyped, Labels, Time
<1>2. HistoriesTyped
  BY DEF HistoriesTyped
<1>3. NamesTyped
  BY AuthnAssumption DEF NamesTyped
<1>4. \A t \in Token, a \in Authentication : ~Copy(t, a)
  BY AuthenticationFields DEF Copy
<1>5. CopiesGranted /\ OneToken
  BY <1>4 DEF CopiesGranted, OneToken, Holds
<1>6. NoneSeen
  BY DEF NoneSeen
<1>7. Apart /\ FillsAgree /\ ChecksAgree /\ AfterSettled
  BY DEF Apart, FillsAgree, ChecksAgree, AfterSettled, Changes, Fills
<1>8. EntriesNamed /\ EntriesAgree
  BY DEF EntriesNamed, EntriesAgree
<1>9. EntryDeleted
  BY DEF EntryDeleted
<1> QED BY <1>1, <1>2, <1>3, <1>5, <1>6, <1>7, <1>8, <1>9, TypesTogether
        DEF AuthnInv, Invalidation, Typed

LEMMA AuthnStep == AuthnInv /\ [Next]_vars => AuthnInv'
<1> SUFFICES ASSUME AuthnInv, [Next]_vars PROVE AuthnInv'
  OBVIOUS
<1>1. Typed /\ CopiesGranted /\ NoneSeen
  BY TypesTogether DEF AuthnInv
<1>2. /\ OneToken /\ Apart /\ EntriesNamed /\ EntryDeleted
      /\ EntriesAgree /\ FillsAgree /\ ChecksAgree /\ AfterSettled
  BY DEF AuthnInv, Invalidation
<1>3. (TypeOK /\ Shape)'
  <2>1. Typed'
    BY <1>1, TypesStep
  <2> QED BY <2>1, TypesTogether, PTL
<1>4. CopiesGranted' /\ NoneSeen'
  BY <1>1, GrantedStep, NoneSeenStep
<1>5. OneToken' /\ Apart' /\ EntriesNamed' /\ EntryDeleted'
  BY <1>1, <1>2, OneTokenStep, ApartStep, EntriesNamedStep, EntryDeletedStep
<1>6. EntriesAgree' /\ FillsAgree' /\ ChecksAgree' /\ AfterSettled'
  BY <1>1, <1>2, EntriesAgreeStep, FillsAgreeStep, ChecksAgreeStep, AfterStep
<1> QED BY <1>3, <1>4, <1>5, <1>6 DEF AuthnInv, Invalidation

\* Client tokens keep the inductive invariant: copies are within what was granted,
\* every authentication has one token, and the entries of a cache lead to its
\* copies and agree with the database once a change has returned (cache.go).
THEOREM AuthnInvariant == Spec => []AuthnInv
BY AuthnInit, AuthnStep, PTL DEF Spec

\* Rows, cache entries and requests always hold what the code can put in them; an
\* entry by identifier names a token of that authentication, and a request past
\* its lookup carries an authentication (cache.go, middleware.go).
THEOREM AuthnTypeCorrect == Spec => []TypeOK
BY AuthnInvariant, PTL DEF AuthnInv

\* A request is admitted only with an issued authentication, no later than the
\* latest expiry it was ever given, and for the namespace of its token alone,
\* with any caches, faults and concurrent logouts (middleware.go).
THEOREM GrantedOnlyAdmitted == Spec => AdmittedWithinGrant
<1>1. ASSUME AuthnInv, [Next]_vars
      PROVE  [\A c \in Client : pc[c] = "check" /\ Admit(c) =>
                LET a == auth[c] IN
                /\ a.id <= issued
                /\ granted[a.id] = Never \/ now <= granted[a.id]
                /\ a.method = "token" /\ a.meta \in Namespace =>
                     \A n \in req[c].namespaces : Normal(n) = a.meta]_vars
  <2> SUFFICES ASSUME NEW c \in Client, pc[c] = "check", Admit(c)
               PROVE  LET a == auth[c] IN
                      /\ a.id <= issued
                      /\ granted[a.id] = Never \/ now <= granted[a.id]
                      /\ a.method = "token" /\ a.meta \in Namespace =>
                           \A n \in req[c].namespaces : Normal(n) = a.meta
    OBVIOUS
  <2> DEFINE a == auth[c]
  <2>1. Typed /\ CopiesGranted
    BY <1>1, TypesTogether DEF AuthnInv
  <2>2. a \in Authentication /\ Granted(req[c].token, a)
    BY <2>1, CopyFacts DEF Typed, RequestsTyped
  <2>3. ~Passed(a.exp) /\ NamespaceMatches(a, req[c])
    BY DEF Admit, Admits
  <2>4. now \in Time
    BY <2>1 DEF Typed, RestTyped
  <2> HIDE DEF a
  <2>5. a.id \in Id /\ a.exp \in Time \cup {Never} /\ granted[a.id] \in Time \cup {Never}
    BY <2>1, <2>2, AuthenticationFields DEF Typed, DbTyped
  <2>6. a.id <= issued /\ (granted[a.id] = Never \/ now <= granted[a.id])
    BY <2>2, <2>3, <2>4, <2>5, AuthnAssumption DEF Granted, Within, Passed, Time
  <2>7. ASSUME a.method = "token", a.meta \in Namespace, NEW n \in req[c].namespaces
        PROVE  Normal(n) = a.meta
    <3>1. {Normal(m) : m \in req[c].namespaces} = {a.meta}
      BY <2>3, <2>7, AuthnAssumption DEF NamespaceMatches
    <3> QED BY <3>1
  <2> QED BY <2>6, <2>7 DEF a
<1> QED BY <1>1, AuthnInvariant, PTL DEF Spec, AdmittedWithinGrant

\* An instance creates its bootstrap token only when no static token exists but
\* those created while it was starting (bootstrap.go), however many start at once.
THEOREM BootstrapsAlone == Spec => BootstrapsOnlyWhenNone
<1>1. ASSUME AuthnInv, [Next]_vars
      PROVE  [\A i \in Instance : boot[i] = "empty" /\ boot'[i] = "up" =>
                \A t \in TokenRows : rows[t].id \in newer[i]]_vars
  BY <1>1 DEF AuthnInv, NoneSeen
<1> QED BY <1>1, AuthnInvariant, PTL DEF Spec, BootstrapsOnlyWhenNone

\* A request that begins after a change of expiry has returned from its cache is
\* judged by that change, except where a fill of the cache overlapped a change, an
\* access to the cache failed or the cache dropped the entry that leads to a copy
\* before the copy (ExpireAuthenticationByID of cache.go).
THEOREM LatestExpiryJudges == Spec => JudgedByLatestExpiry
<1>1. ASSUME AuthnInv, [Next]_vars
      PROVE  [\A c \in Client : pc[c] = "check" /\ pc'[c] # "check" =>
                LET i == auth[c].id IN
                i \in after[c] /\ rows[req[c].token] # Nothing =>
                    \/ auth[c].id # rows[req[c].token].id
                    \/ auth[c].exp = rows[req[c].token].exp
                    \/ i \in overlap[K(c)]]_vars
  BY <1>1 DEF AuthnInv, Invalidation, ChecksAgree, Agrees
<1> QED BY <1>1, AuthnInvariant, PTL DEF Spec, JudgedByLatestExpiry

=============================================================================
