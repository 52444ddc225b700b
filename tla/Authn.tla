------------------------------- MODULE Authn -------------------------------
(***************************************************************************)
(* Client tokens: the authentications in the database, the cache in front  *)
(* of them (internal/storage/authn/sql, internal/storage/authn/cache), the *)
(* interceptors that admit a request (internal/server/authn/middleware),   *)
(* logging out, and the bootstrap of the first token when an instance      *)
(* starts (internal/storage/authn/bootstrap.go).                           *)
(*                                                                         *)
(* Every access to the cache and every statement is a step.  The cache is  *)
(* reached through a key per token, with a copy of the authentication, and *)
(* a key per authentication, with its token; only the second leads a       *)
(* logout to the first.                                                    *)
(***************************************************************************)
EXTENDS Integers, FiniteSets

CONSTANTS
    Instance, Cache,
    CacheOf,      \* the cache of an instance: its own, or a shared one
    Client,       \* concurrent requests
    Configured,   \* the bootstrap token of the configuration
    Namespace, DefaultNamespace,
    Empty,        \* the namespace key of a request that names none
    Target,       \* what evaluations name: a namespace, or those of a batch
    Profile,      \* methods and metadata of the authentications to come
    BootScope,    \* what the configured metadata make of the bootstrap token
    Expiry,       \* the times they are given, and changed to
    NoScope,      \* a token without a namespace
    Blank,        \* a token whose namespace is only white space
    Nothing, Never,
    MaxIds,       \* bound: authentications
    MaxTime,      \* bound on the clock
    MaxChanges,   \* bound: requests to change an expiry
    MaxFaults     \* bound: failing accesses to the cache or the database

\* Identifiers, in the order they are given out.
Id == 1..MaxIds

\* A generated token is known by the authentication it was generated for.
Token == Id \cup {Configured}
Time == 0..MaxTime
Scope == Namespace \cup {NoScope, Blank}

\* An authentication: meta is the namespace of a static token and, for a
\* person who logged in with OIDC, whether the e-mail address is allowed.
Authentication ==
    [id : Id, method : {"token"}, exp : Time \cup {Never}, meta : Scope] \cup
    [id : Id, method : {"oidc"}, exp : Time \cup {Never}, meta : BOOLEAN]

ASSUME AuthnAssumption ==
    /\ CacheOf \in [Instance -> Cache]
    /\ MaxIds \in Nat /\ MaxTime \in Nat /\ MaxChanges \in Nat /\ MaxFaults \in Nat
    /\ Target \subseteq SUBSET (Namespace \cup {Empty})
    /\ BootScope \subseteq Scope
    /\ Profile \subseteq ({"token"} \X Scope) \cup ({"oidc"} \X BOOLEAN)
    /\ Expiry \subseteq Time \cup {Never}
    /\ Never \notin Nat
    /\ NoScope \notin Namespace /\ Blank \notin Namespace
    /\ Configured \notin Id
    /\ Nothing \notin Authentication \cup Token \cup Time \cup {Never}

VARIABLES
    rows,                   \* table authentications: by token
    issued,                 \* how many authentications there have been
    tokenEntry, idEntry,    \* the two kinds of entries of each cache
    now,
    pc, req, auth,          \* of each request: where it is, its parameters and
                            \* the authentication it carries
    boot, configured,       \* the start of each instance; is a token configured
    granted,                \* history: the latest expiry an authentication had
    settled,                \* history: by cache, those whose latest change of
                            \* expiry went through it and has returned
    overlap,                \* history: by cache, those filled during a change of
                            \* expiry, or left behind by a failing access
    after,                  \* history: those settled when a request began
    newer,                  \* history: issued since an instance has listed
    changes, faults

db == <<rows, issued, granted>>
caches == <<tokenEntry, idEntry>>
requestVars == <<pc, req, auth, after>>
bootVars == <<boot, configured, newer>>
histories == <<settled, overlap>>
vars == <<rows, issued, tokenEntry, idEntry, now, pc, req, auth, boot, configured,
          granted, settled, overlap, after, newer, changes, faults>>

Idle == [op |-> "none"]

Init ==
    /\ rows = [t \in Token |-> Nothing] /\ issued = 0
    /\ tokenEntry = [k \in Cache |-> [t \in Token |-> Nothing]]
    /\ idEntry = [k \in Cache |-> [i \in Id |-> Nothing]]
    /\ now = 0
    /\ pc = [c \in Client |-> "idle"]
    /\ req = [c \in Client |-> Idle]
    /\ auth = [c \in Client |-> Nothing]
    /\ boot = [i \in Instance |-> "down"] /\ configured \in BOOLEAN
    /\ granted = [i \in Id |-> 0]
    /\ settled = [k \in Cache |-> {}] /\ overlap = [k \in Cache |-> {}]
    /\ after = [c \in Client |-> {}]
    /\ newer = [i \in Instance |-> {}]
    /\ changes = 0 /\ faults = 0

-----------------------------------------------------------------------------
Later(e, f) == IF e = Never \/ f = Never THEN Never ELSE IF e < f THEN f ELSE e
Passed(e) == e # Never /\ e < now
Exists(i) == \E t \in Token : rows[t] # Nothing /\ rows[t].id = i
Fault == faults < MaxFaults /\ faults' = faults + 1

\* INSERT INTO authentications, with a new identifier; the token is unique.
Insert(t, n, method, e, meta) ==
    /\ n = issued + 1
    /\ rows[t] = Nothing
    /\ rows' = [rows EXCEPT ![t] = [id |-> n, method |-> method, exp |-> e, meta |-> meta]]
    /\ issued' = n
    /\ granted' = [granted EXCEPT ![n] = e]
    /\ newer' = [i \in Instance |-> IF boot'[i] = "empty" THEN newer[i] \cup {n} ELSE {}]

\* Somebody logs in, or is given a static token.
CreateAuthentication(n, p, e) ==
    /\ UNCHANGED boot
    /\ Insert(n, n, p[1], e, p[2])
    /\ UNCHANGED <<caches, now, requestVars, configured, histories, changes,
                   faults>>

\* DELETE: through the API, or by the cleanup.  The caches are not told.
DeleteAuthentications(t) ==
    /\ rows[t] # Nothing
    /\ rows' = [rows EXCEPT ![t] = Nothing]
    /\ UNCHANGED <<issued, granted, caches, now, requestVars, bootVars, histories,
                   changes, faults>>

-----------------------------------------------------------------------------
(* The start of an instance.                                               *)

TokenRows == {t \in Token : rows[t] # Nothing /\ rows[t].method = "token"}

\* Mutant of ListTokens: only tokens like the one to create are looked for.
ListTokensUnscoped == {t \in TokenRows : rows[t].meta = NoScope}

ListTokens == TokenRows

BootstrapList(i) ==
    /\ boot[i] = "down"
    /\ boot' = [boot EXCEPT ![i] = IF ListTokens # {} THEN "up" ELSE "empty"]
    /\ newer' = [newer EXCEPT ![i] = {}]
    /\ UNCHANGED <<db, caches, now, requestVars, configured, histories, changes,
                   faults>>

BootstrapCreate(i) ==
    /\ boot[i] = "empty"
    /\ boot' = [boot EXCEPT ![i] = "up"]
    /\ \E n \in Id, e \in Expiry, s \in BootScope :
         Insert(IF configured THEN Configured ELSE n, n, "token", e, s)
    /\ UNCHANGED <<caches, now, requestVars, configured, histories, changes,
                   faults>>

\* The configured token is there already, or the database fails: the instance
\* does not start, and is started again by whatever runs it.
BootstrapRefused(i) ==
    /\ boot[i] # "up"
    /\ \/ boot[i] = "empty" /\ configured /\ rows[Configured] # Nothing /\ UNCHANGED faults
       \/ Fault
    /\ boot' = [boot EXCEPT ![i] = "down"]
    /\ newer' = [newer EXCEPT ![i] = {}]
    /\ UNCHANGED <<db, caches, now, requestVars, configured, histories, changes>>

-----------------------------------------------------------------------------
(* A request: the cached lookup of its token.                              *)

K(c) == req[c].cache
Goto(c, l) == pc' = [pc EXCEPT ![c] = l]
Finish(c) ==
    /\ Goto(c, "idle")
    /\ req' = [req EXCEPT ![c] = Idle]
    /\ auth' = [auth EXCEPT ![c] = Nothing]
    /\ after' = [after EXCEPT ![c] = {}]
Keep == UNCHANGED <<now, bootVars, changes>>

\* Requests filling the cache k with i, and requests changing i through k.
Filling(k, i) == \E c \in Client :
    pc[c] \in {"setToken", "setId"} /\ K(c) = k /\ auth[c].id = i
Changing(k, i) == \E c \in Client :
    pc[c] \in {"idGet", "deleteToken", "deleteId"} /\ K(c) = k /\ auth[c].id = i

Noted(k, i, b) == overlap' = IF b THEN [overlap EXCEPT ![k] = @ \cup {i}] ELSE overlap

\* The token is one that was given out.
Begin(c, i, t, op, ns, e) ==
    /\ pc[c] = "idle" /\ boot[i] = "up"
    /\ t \in 1..issued \/ (t = Configured /\ configured)
    /\ changes' = IF op = "expire" THEN changes + 1 ELSE changes
    /\ changes' <= MaxChanges
    /\ req' = [req EXCEPT ![c] = [cache |-> CacheOf[i], token |-> t, op |-> op,
                                  namespaces |-> ns, exp |-> e]]
    /\ after' = [after EXCEPT ![c] = settled[CacheOf[i]]]
    /\ Goto(c, "get")
    /\ UNCHANGED <<db, caches, now, auth, bootVars, histories, faults>>

\* Mutant of CacheGet: what was found is put into the cache again.
CacheGetRefreshing(c) ==
    /\ pc[c] = "get"
    /\ \/ /\ tokenEntry[K(c)][req[c].token] # Nothing
          /\ auth' = [auth EXCEPT ![c] = tokenEntry[K(c)][req[c].token]]
          /\ Goto(c, "setToken") /\ UNCHANGED faults
       \/ /\ \/ tokenEntry[K(c)][req[c].token] = Nothing /\ UNCHANGED faults
             \/ tokenEntry[K(c)][req[c].token] # Nothing /\ Fault
          /\ Goto(c, "read") /\ UNCHANGED <<auth>>
    /\ UNCHANGED <<db, caches, req, after, histories>> /\ Keep

\* Mutant of CacheGet: a failing access is taken for a hit.
CacheGetNil(c) ==
    /\ pc[c] = "get"
    /\ auth' = [auth EXCEPT ![c] = tokenEntry[K(c)][req[c].token]]
    /\ Goto(c, "check")
    /\ UNCHANGED <<db, caches, req, after, histories, faults>> /\ Keep

CacheGet(c) ==
    /\ pc[c] = "get"
    /\ \/ /\ tokenEntry[K(c)][req[c].token] # Nothing
          /\ auth' = [auth EXCEPT ![c] = tokenEntry[K(c)][req[c].token]]
          /\ Goto(c, "check") /\ UNCHANGED faults
       \/ /\ \/ tokenEntry[K(c)][req[c].token] = Nothing /\ UNCHANGED faults
             \/ tokenEntry[K(c)][req[c].token] # Nothing /\ Fault
          /\ Goto(c, "read") /\ UNCHANGED <<auth>>
    /\ UNCHANGED <<db, caches, req, after, histories>> /\ Keep

StoreRead(c) ==
    /\ pc[c] = "read"
    /\ LET row == rows[req[c].token] IN
       \/ /\ row # Nothing
          /\ auth' = [auth EXCEPT ![c] = row]
          /\ Noted(K(c), row.id, Changing(K(c), row.id))
          /\ Goto(c, "setToken") /\ UNCHANGED <<req, after, faults>>
       \/ /\ \/ row = Nothing /\ UNCHANGED faults
             \/ row # Nothing /\ Fault
          /\ Finish(c) /\ UNCHANGED overlap
    /\ UNCHANGED <<db, caches, settled>> /\ Keep

SetToken(c) ==
    /\ pc[c] = "setToken"
    /\ \/ /\ tokenEntry' = [tokenEntry EXCEPT ![K(c)][req[c].token] = auth[c]]
          /\ UNCHANGED faults
       \/ Fault /\ UNCHANGED tokenEntry
    /\ Goto(c, "setId")
    /\ UNCHANGED <<db, idEntry, req, auth, after, histories>> /\ Keep

SetId(c) ==
    /\ pc[c] = "setId"
    /\ \/ /\ idEntry' = [idEntry EXCEPT ![K(c)][auth[c].id] = req[c].token]
          /\ UNCHANGED <<faults, overlap>>
       \/ /\ Fault /\ UNCHANGED idEntry
          /\ Noted(K(c), auth[c].id, TRUE)
    /\ Goto(c, "check")
    /\ UNCHANGED <<db, tokenEntry, req, auth, after, settled>> /\ Keep

-----------------------------------------------------------------------------
(* The interceptors.                                                       *)

EmailMatches(a) == a.method = "oidc" => a.meta

Normal(n) == IF n = Empty THEN DefaultNamespace ELSE n

\* Mutant of NamespaceMatches: one of the namespaces of a batch is enough.
NamespaceMatchesSome(a, r) ==
    a.method = "token" /\ a.meta # NoScope =>
        /\ r.op = "evaluate"
        /\ a.meta # Blank => a.meta \in {Normal(n) : n \in r.namespaces}

\* The flag and the evaluation server admit tokens with a namespace, for requests
\* of that namespace (here "evaluate"); the authentication servers do not.
NamespaceMatches(a, r) ==
    a.method = "token" /\ a.meta # NoScope =>
        /\ r.op = "evaluate"
        /\ a.meta # Blank => {Normal(n) : n \in r.namespaces} = {a.meta}

Admits(a, r) == ~Passed(a.exp) /\ EmailMatches(a) /\ NamespaceMatches(a, r)

\* An admitted evaluation is answered; logging out goes on.
Admit(c) ==
    /\ pc[c] = "check" /\ Admits(auth[c], req[c])
    /\ IF req[c].op = "expire" THEN Goto(c, "expire") /\ UNCHANGED <<req, auth, after>>
                               ELSE Finish(c)
    /\ UNCHANGED <<db, caches, histories, faults>> /\ Keep

Refuse(c) ==
    /\ pc[c] = "check" /\ ~Admits(auth[c], req[c])
    /\ Finish(c)
    /\ UNCHANGED <<db, caches, histories, faults>> /\ Keep

-----------------------------------------------------------------------------
(* ExpireAuthenticationSelf: with no time given, now.                      *)

ExpiryOf(c) == IF req[c].exp = Nothing THEN now ELSE req[c].exp

\* UPDATE authentications SET expires_at WHERE id, which may find no row.
ExpireRow(c) ==
    /\ pc[c] = "expire"
    /\ LET i == auth[c].id
           e == ExpiryOf(c)
       IN
       \/ /\ rows' = [t \in Token |-> IF rows[t] # Nothing /\ rows[t].id = i
                                      THEN [rows[t] EXCEPT !.exp = e] ELSE rows[t]]
          /\ granted' = [granted EXCEPT ![i] = Later(@, e)]
          /\ settled' = [k \in Cache |-> settled[k] \ {i}]
          /\ Noted(K(c), i, Filling(K(c), i) \/ Changing(K(c), i))
          /\ after' = [d \in Client |-> after[d] \ {i}]
          /\ Goto(c, "idGet") /\ UNCHANGED <<req, auth, faults>>
       \/ /\ Fault /\ Finish(c)
          /\ UNCHANGED <<rows, granted, histories>>
    /\ UNCHANGED <<issued, caches>> /\ Keep

\* The change has been made and its caller told so.
Settle(c) == settled' = [settled EXCEPT ![K(c)] = @ \cup {auth[c].id}] /\ Finish(c)

IdGet(c) ==
    /\ pc[c] = "idGet"
    /\ \/ /\ idEntry[K(c)][auth[c].id] # Nothing
          /\ Goto(c, "deleteToken") /\ UNCHANGED <<req, auth, after, faults, histories>>
       \/ /\ idEntry[K(c)][auth[c].id] = Nothing
          /\ Settle(c) /\ UNCHANGED <<faults, overlap>>
       \/ /\ idEntry[K(c)][auth[c].id] # Nothing /\ Fault
          /\ Settle(c) /\ Noted(K(c), auth[c].id, TRUE)
    /\ UNCHANGED <<db, caches>> /\ Keep

\* Mutant of DeleteToken: the entry of the token is left to its TTL.
DeleteTokenNever(c) ==
    /\ pc[c] = "deleteToken"
    /\ Goto(c, "deleteId")
    /\ UNCHANGED <<db, caches, req, auth, after, histories, faults>> /\ Keep

\* The entry of the authentication named the token this request came with.
DeleteToken(c) ==
    /\ pc[c] = "deleteToken"
    /\ \/ /\ tokenEntry' = [tokenEntry EXCEPT ![K(c)][req[c].token] = Nothing]
          /\ UNCHANGED <<faults, overlap>>
       \/ Fault /\ UNCHANGED tokenEntry /\ Noted(K(c), auth[c].id, TRUE)
    /\ Goto(c, "deleteId")
    /\ UNCHANGED <<db, idEntry, req, auth, after, settled>> /\ Keep

DeleteId(c) ==
    /\ pc[c] = "deleteId"
    /\ \/ /\ idEntry' = [idEntry EXCEPT ![K(c)][auth[c].id] = Nothing]
          /\ UNCHANGED faults
       \/ Fault /\ UNCHANGED idEntry
    /\ Settle(c)
    /\ UNCHANGED <<db, tokenEntry, overlap>> /\ Keep

-----------------------------------------------------------------------------
(* The environment: the TTL of the entries and the clock.                  *)

DropToken(k, t) ==
    /\ tokenEntry[k][t] # Nothing
    /\ tokenEntry' = [tokenEntry EXCEPT ![k][t] = Nothing]
    /\ UNCHANGED <<db, idEntry, now, requestVars, bootVars, histories, changes,
                   faults>>

\* It is set after the entry of the token and with the same TTL, but a cache that
\* is full may drop it first.
DropId(k, i) ==
    /\ idEntry[k][i] # Nothing
    /\ Noted(k, i, tokenEntry[k][idEntry[k][i]] # Nothing /\ ~Filling(k, i))
    /\ idEntry' = [idEntry EXCEPT ![k][i] = Nothing]
    /\ UNCHANGED <<db, tokenEntry, now, requestVars, bootVars, settled, changes,
                   faults>>

Tick ==
    /\ now < MaxTime /\ now' = now + 1
    /\ UNCHANGED <<db, caches, requestVars, bootVars, histories, changes, faults>>

-----------------------------------------------------------------------------
Step(c) ==
    \/ CacheGet(c) \/ StoreRead(c) \/ SetToken(c) \/ SetId(c) \/ Admit(c) \/ Refuse(c)
    \/ ExpireRow(c) \/ IdGet(c) \/ DeleteToken(c) \/ DeleteId(c)

Begins(c) == \E i \in Instance, t \in Token :
    \/ \E ns \in Target : Begin(c, i, t, "evaluate", ns, Nothing)
    \/ \E e \in (Expiry \ {Never}) \cup {Nothing} : Begin(c, i, t, "expire", {}, e)

Next ==
    \/ \E c \in Client : Step(c) \/ Begins(c)
    \/ \E n \in Id, p \in Profile, e \in Expiry : CreateAuthentication(n, p, e)
    \/ \E t \in Token : DeleteAuthentications(t)
    \/ \E i \in Instance : BootstrapList(i) \/ BootstrapCreate(i) \/ BootstrapRefused(i)
    \/ \E k \in Cache : (\E t \in Token : DropToken(k, t)) \/ (\E i \in Id : DropId(k, i))
    \/ Tick

\* A request is run to its end, and the cache drops an entry when its TTL is over.
Fairness ==
    /\ \A c \in Client : WF_vars(Step(c))
    /\ \A k \in Cache, t \in Token : WF_vars(DropToken(k, t))

Spec == Init /\ [][Next]_vars /\ Fairness

-----------------------------------------------------------------------------
(* What should hold.                                                       *)

\* Every variable holds what the code can put in it: in particular the entry of
\* an authentication names the token of that authentication, and a request that
\* is past its lookup carries one.
TypeOK ==
    /\ rows \in [Token -> Authentication \cup {Nothing}]
    /\ issued \in 0..MaxIds
    /\ tokenEntry \in [Cache -> [Token -> Authentication \cup {Nothing}]]
    /\ idEntry \in [Cache -> [Id -> Token \cup {Nothing}]]
    /\ now \in Time
    /\ pc \in [Client -> {"idle", "get", "read", "setToken", "setId", "check", "expire",
                          "idGet", "deleteToken", "deleteId"}]
    /\ auth \in [Client -> Authentication \cup {Nothing}]
    /\ \A c \in Client :
         /\ pc[c] = "idle" <=> req[c] = Idle
         /\ auth[c] # Nothing <=> pc[c] \notin {"idle", "get", "read"}
    /\ boot \in [Instance -> {"down", "empty", "up"}] /\ configured \in BOOLEAN
    /\ granted \in [Id -> Time \cup {Never}]
    /\ changes \in 0..MaxChanges /\ faults \in 0..MaxFaults
    /\ \A k \in Cache : settled[k] \cup overlap[k] \subseteq 1..issued
    /\ \A k \in Cache, i \in Id, t \in Token :
         idEntry[k][i] = t => i <= issued /\ (t = i \/ t = Configured)

\* A request is only ever admitted with an authentication that was issued, not
\* later than an expiry it once had, and, when its token is for one namespace,
\* for that namespace alone, whatever the caches hold and whoever changes the
\* expiry meanwhile (middleware.go, NamespaceMatchingInterceptor).
AdmittedWithinGrant ==
    [][\A c \in Client : pc[c] = "check" /\ Admit(c) =>
        LET a == auth[c] IN
        /\ a.id <= issued
        /\ granted[a.id] = Never \/ now <= granted[a.id]
        /\ a.method = "token" /\ a.meta \in Namespace =>
             \A n \in req[c].namespaces : Normal(n) = a.meta]_vars

\* A request that begins after a change of expiry, a logout say, has returned
\* from the same cache is judged by that change and not by an older copy, except
\* when a lookup filled the cache during a change, an access to the cache failed or
\* the cache dropped the entry of the authentication before that of the token
\* (ExpireAuthenticationByID, GetAuthenticationByClientToken of cache.go).
JudgedByLatestExpiry ==
    [][\A c \in Client : pc[c] = "check" /\ pc'[c] # "check" =>
        LET i == auth[c].id IN
        i \in after[c] /\ rows[req[c].token] # Nothing =>
            \/ auth[c].id # rows[req[c].token].id
            \/ auth[c].exp = rows[req[c].token].exp
            \/ i \in overlap[K(c)]]_vars

\* Once the database changes no more, every copy in a cache comes to be its row
\* for good: deleted and logged out authentications are not accepted for ever,
\* although a deletion does not invalidate them, a late fill may outlive an
\* invalidation, and requests with the token go on all the time (a hit does not
\* renew an entry: GetAuthenticationByClientToken of cache.go).
CopiesConverge ==
    <>[](\A k \in Cache, t \in Token : tokenEntry[k][t] \in {Nothing, rows[t]})

\* An instance creates its bootstrap token only when no static token exists but
\* those created while it was starting (Bootstrap of bootstrap.go).
BootstrapsOnlyWhenNone ==
    [][\A i \in Instance : boot[i] = "empty" /\ boot'[i] = "up" =>
        \A t \in TokenRows : rows[t].id \in newer[i]]_vars

=============================================================================
