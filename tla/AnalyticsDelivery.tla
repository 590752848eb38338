------------------------- MODULE AnalyticsDelivery -------------------------
(***************************************************************************)
(* What the analytics spool promises for an event once it is in the local  *)
(* file: it stays pending until it is a row of the tenant's database, and  *)
(* it becomes a row there once.                                            *)
(***************************************************************************)
EXTENDS Naturals

CONSTANT Events

VARIABLES
    pending,    \* events accepted for delivery and not delivered
    rows        \* number of rows of each event in the tenant's database

vars == <<pending, rows>>

Init ==
    /\ pending = {}
    /\ rows = [e \in Events |-> 0]

Accept(e) ==
    /\ e \notin pending
    /\ rows[e] = 0
    /\ pending' = pending \cup {e}
    /\ UNCHANGED rows

Deliver(batch) ==
    /\ batch \subseteq pending
    /\ pending' = pending \ batch
    /\ rows' = [e \in Events |-> IF e \in batch THEN 1 ELSE rows[e]]

Next ==
    \/ \E e \in Events : Accept(e)
    \/ \E batch \in SUBSET Events : Deliver(batch)

Spec == Init /\ [][Next]_vars
=============================================================================
