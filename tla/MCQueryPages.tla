---------------------------- MODULE MCQueryPages ----------------------------
(* TLC instance of QueryPages, in two scenes: a client walks through the pages
   of three records while a scheduled refresh and one started by hand overlap;
   or, without a client, API threads fill the caches of two records while
   scheduled refreshes follow each other.                                    *)
EXTENDS QueryPages

CONSTANTS r1, r2, r3

MCRecords == 1 .. 3
MCRank == [x \in MCRecords |-> x % 2]

Scene ==
    IF walk.state = "none" THEN source' \subseteq 1 .. 2 /\ proc'[r3] = "new"
    ELSE request' = request /\ proc'[r2] = "new"

MCSpec == PageInit /\ [][PageNext /\ Scene]_allVars /\ Fairness
=============================================================================
