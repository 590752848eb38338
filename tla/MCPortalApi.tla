---------------------------- MODULE MCPortalApi -----------------------------
(* TLC instance of PortalApi: the company portal has the longer times.  The
   store's mode explores one company user over a long time, the browser's
   mode that user and an administrator at one moment.                       *)
EXTENDS PortalApi, TLC

CONSTANTS a, b, u1, u3

MCIdle == [p \in Portals |-> IF p = "company" THEN 2 ELSE 1]
MCAbsolute == [p \in Portals |-> IF p = "company" THEN 3 ELSE 2]
MCCompanyOf == [u \in CompanyUsers |-> a]

OneUser ==
    \A u \in Users \ {u1} :
        ~user[u].exists /\ \A c \in Callers : call[c].op = "login" => call[c].user # u
Short == clock = 0 /\ \A u \in Users : user[u].password <= 1 /\ wrong[u] <= 1

\* What is explored in each mode.
Explored == IF Browsing THEN Short ELSE OneUser

Symmetry == Permutations(Callers) \cup Permutations(Tokens)
=============================================================================
