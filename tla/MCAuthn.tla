------------------------------ MODULE MCAuthn ------------------------------
(* Two instances with one shared cache. *)
EXTENDS Authn

SharedCache == [i \in Instance |-> CHOOSE k \in Cache : TRUE]
\* Evaluations of a namespace, of the default one, and of both in a batch.
Targets == {{n} : n \in Namespace} \cup {{Empty}} \cup {{n, Empty} : n \in Namespace}
SomeProfiles ==
    {<<"token", s>> : s \in Namespace \cup {NoScope}} \cup {<<"oidc", FALSE>>}
BootScopes == {NoScope} \cup Namespace

Active == {c \in Client : pc[c] # "idle"}
Unscoped(a) == a = Nothing \/ a.meta = NoScope

\* Bound: requests come when every instance is up and one authentication was issued:
\* different ones meet nowhere in the caches, except that the configured token may
\* come back with another identifier, which only the proofs cover.
StartedFirst ==
    Active # {} => issued = 1 /\ \A i \in Instance : boot[i] = "up"

\* Bound: two requests at a time have a token for all namespaces and name the
\* default one, which the cache does not tell from any other.
PairsUnscoped ==
    Cardinality(Active) > 1 =>
        /\ ~configured
        /\ \A c \in Active : req[c].op = "evaluate" => req[c].namespaces = {Empty}
        /\ \A c \in Active : Unscoped(auth[c])
        /\ \A t \in Token : Unscoped(rows[t]) /\ \A k \in Cache : Unscoped(tokenEntry[k][t])

=============================================================================
