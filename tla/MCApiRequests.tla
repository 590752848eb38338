--------------------------- MODULE MCApiRequests ---------------------------
(* TLC instance of ApiRequests. *)
EXTENDS ApiRequests, TLC

CONSTANTS own, other, unknown     \* companies, their endpoints and keys

MCKeyOwner == own :> own @@ other :> other
MCEndpointOwner == own :> own @@ other :> other

Symmetry == Permutations(Callers)

\* Two questions in one instance: once another tenant takes part, the limiter of
\* Company always reaches Redis.
OthersTakePart ==
    \/ \E s \in Searches : session[s].company = other
    \/ \E c \in Callers : request[c].company = other
Explored == OthersTakePart => link.connected /\ granted = 0
=============================================================================
