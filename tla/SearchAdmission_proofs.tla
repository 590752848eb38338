----------------------- MODULE SearchAdmission_proofs -----------------------
(***************************************************************************)
(* For any requests, queries and number of slots: the slots, the Events    *)
(* and the counters of a tenant's searches are exact at every moment, and  *)
(* no request that keeps a slot waits for one that has none.               *)
(*                                                                         *)
(* AdmissionInv is not inductive: it does not say which way a request of   *)
(* each kind goes, nor that an owner's Event stays registered until the    *)
(* owner withdraws it.  KindPaths and OwnersAreRegistered do.              *)
(*                                                                         *)
(* The second part is about what an admitted search then does.             *)
(***************************************************************************)
EXTENDS SearchAdmission, SearchPipeline, FiniteSetTheorems, SequenceTheorems, TLAPS

\* A compat request never asks for a second slot; a direct one has no outer one.
KindPaths ==
    \A r \in Requests :
        /\ req[r].kind = "compat" => req[r].pc # "slot"
        /\ req[r].kind = "direct" => req[r].pc \notin {"outer", "plan", "hydrate"}

\* The Event of an owner is the registered one until its finally block, and
\* who searches without owning one was woken by its owner; who waits waits for
\* another request.
OwnersAreRegistered ==
    \A r \in Requests :
        /\ req[r].pc = "wait" => req[r].leader \in Requests \ {r}
        /\ Owner(r) /\ req[r].pc \in {"slot", "search", "ok", "raised", "signal"} =>
               inflight[Key(r)] = r
        /\ ~Owner(r) /\ req[r].pc \in {"slot", "search"} => req[r].leader \in signalled

IInv == AdmissionInv /\ KindPaths /\ OwnersAreRegistered

USE SlotsAssumption, RequestsAssumption
-----------------------------------------------------------------------------
(* Counting. *)

\* Two sets of requests that agree everywhere but at r differ by one at most.
LEMMA CountOne ==
    ASSUME NEW S \in SUBSET Requests, NEW T \in SUBSET Requests, NEW r \in Requests,
           \A x \in Requests \ {r} : x \in S <=> x \in T
    PROVE  /\ Cardinality(S) \in Nat /\ Cardinality(T) \in Nat
           /\ (r \in S <=> r \in T) => Cardinality(T) = Cardinality(S)
           /\ r \notin S /\ r \in T => Cardinality(T) = Cardinality(S) + 1
           /\ r \in S /\ r \notin T => Cardinality(S) = Cardinality(T) + 1
<1>1. IsFiniteSet(S) /\ IsFiniteSet(T)
    BY FS_Subset
<1>2. Cardinality(S) \in Nat /\ Cardinality(T) \in Nat
    BY <1>1, FS_CardinalityType
<1>3. (r \in S <=> r \in T) => T = S
    OBVIOUS
<1>4. ASSUME r \notin S, r \in T PROVE Cardinality(T) = Cardinality(S) + 1
  <2>1. T = S \cup {r}
    BY <1>4
  <2>2. QED
    BY <1>1, <1>4, <2>1, FS_AddElement
<1>5. ASSUME r \in S, r \notin T PROVE Cardinality(S) = Cardinality(T) + 1
  <2>1. S = T \cup {r}
    BY <1>5
  <2>2. QED
    BY <1>1, <1>5, <2>1, FS_AddElement
<1>6. QED
    BY <1>2, <1>3, <1>4, <1>5

\* Keys are keys, and tell the kinds apart.
LEMMA KeyFacts ==
    ASSUME TypeOK, NEW r \in Requests
    PROVE  /\ Key(r) \in Keys
           /\ \A q \in Requests : Key(q) = Key(r) => req[q].kind = req[r].kind
BY DEF TypeOK, Key, CoalesceKey, Keys

-----------------------------------------------------------------------------
(* What a step does to the request that takes it. *)

\* Only r moves, and it keeps its kind and its query.
Moves(r) ==
    /\ \A x \in Requests \ {r} : req'[x] = req[x]
    /\ req'[r].kind = req[r].kind
    /\ req'[r].query = req[r].query

\* A step to another place moves only its request.
LEMMA GotoMoves ==
    ASSUME TypeOK, NEW r \in Requests, NEW pc \in PCs, Goto(r, pc)
    PROVE  /\ Moves(r) /\ req'[r].pc = pc /\ req'[r].leader = req[r].leader
           /\ req' \in [Requests -> [pc : PCs, kind : Kinds, query : Queries,
                                     leader : Requests \cup {None}]]
BY DEF TypeOK, Goto, Moves

\* So does the registration, which also decides whom the request follows.
LEMMA RegisterMoves ==
    ASSUME TypeOK, NEW r \in Requests, Register(r)
    PROVE  /\ Moves(r)
           /\ req'[r].pc = IF inflight[Key(r)] = None THEN Admitted(r) ELSE "wait"
           /\ req'[r].leader = IF inflight[Key(r)] = None THEN r ELSE inflight[Key(r)]
           /\ req' \in [Requests -> [pc : PCs, kind : Kinds, query : Queries,
                                     leader : Requests \cup {None}]]
           /\ inflight' = IF inflight[Key(r)] = None
                          THEN [inflight EXCEPT ![Key(r)] = r] ELSE inflight
<1>1. inflight[Key(r)] \in Requests \cup {None}
    BY KeyFacts DEF TypeOK
<1>2. Admitted(r) \in PCs
    BY DEF Admitted, PCs
<1>3. CASE inflight[Key(r)] = None
    BY <1>1, <1>2, <1>3 DEF TypeOK, Register, Moves
<1>4. CASE inflight[Key(r)] # None
    BY <1>1, <1>4 DEF TypeOK, Register, Moves, PCs
<1>5. QED
    BY <1>3, <1>4
-----------------------------------------------------------------------------
(* Every step of a request moves that request alone. *)

LEMMA StepMoves ==
    ASSUME TypeOK, NEW r \in Requests, Proceed(r) \/ Refused(r)
    PROVE  /\ Moves(r)
           /\ req' \in [Requests -> [pc : PCs, kind : Kinds, query : Queries,
                                     leader : Requests \cup {None}]]
           /\ ~Register(r) => req'[r].leader = req[r].leader
<1>1. CASE GateRefuses(r)
  <2>1. Goto(r, "answered")
    BY <1>1 DEF GateRefuses
  <2>2. QED
    BY <2>1, GotoMoves DEF PCs, Admitted
<1>2. CASE EnterDirect(r)
  <2>1. Goto(r, "register")
    BY <1>2 DEF EnterDirect, CountStarted
  <2>2. QED
    BY <2>1, GotoMoves DEF PCs, Admitted
<1>3. CASE EnterCompat(r)
  <2>1. Goto(r, "outer")
    BY <1>3 DEF EnterCompat
  <2>2. QED
    BY <2>1, GotoMoves DEF PCs, Admitted
<1>4. CASE TakeOuterSlot(r)
  <2>1. Goto(r, "plan")
    BY <1>4 DEF TakeOuterSlot
  <2>2. QED
    BY <2>1, GotoMoves DEF PCs, Admitted
<1>5. CASE AnswerFromDatabase(r)
  <2>1. Goto(r, "hydrate")
    BY <1>5 DEF AnswerFromDatabase
  <2>2. QED
    BY <2>1, GotoMoves DEF PCs, Admitted
<1>6. CASE EnterEngine(r)
  <2>1. Goto(r, "register")
    BY <1>6 DEF EnterEngine, CountStarted
  <2>2. QED
    BY <2>1, GotoMoves DEF PCs, Admitted
<1>7. CASE PlanRaises(r)
  <2>1. Goto(r, "hydrate")
    BY <1>7 DEF PlanRaises
  <2>2. QED
    BY <2>1, GotoMoves DEF PCs, Admitted
<1>8. CASE Wake(r)
  <2>1. Goto(r, Admitted(r))
    BY <1>8 DEF Wake
  <2>2. QED
    BY <2>1, GotoMoves DEF PCs, Admitted
<1>9. CASE TakeSlot(r)
  <2>1. Goto(r, "search")
    BY <1>9 DEF TakeSlot
  <2>2. QED
    BY <2>1, GotoMoves DEF PCs, Admitted
<1>10. CASE GateRaises(r)
  <2>1. Goto(r, "raised")
    BY <1>10 DEF GateRaises
  <2>2. QED
    BY <2>1, GotoMoves DEF PCs, Admitted
<1>11. CASE CountCompleted(r)
  <2>1. Goto(r, "signal")
    BY <1>11 DEF CountCompleted
  <2>2. QED
    BY <2>1, GotoMoves DEF PCs, Admitted
<1>12. CASE CountFailed(r)
  <2>1. Goto(r, "signal")
    BY <1>12 DEF CountFailed
  <2>2. QED
    BY <2>1, GotoMoves DEF PCs, Admitted
<1>13. CASE Signal(r)
  <2>1. Goto(r, "leave")
    BY <1>13 DEF Signal
  <2>2. QED
    BY <2>1, GotoMoves DEF PCs, Admitted
<1>14. CASE ReleaseOuterSlot(r)
  <2>1. Goto(r, "answered")
    BY <1>14 DEF ReleaseOuterSlot
  <2>2. QED
    BY <2>1, GotoMoves DEF PCs, Admitted
<1>15. CASE TimesOut(r)
  <2>1. Goto(r, "answered") \/ Goto(r, "raised")
    BY <1>15 DEF TimesOut
  <2>2. QED
    BY <2>1, GotoMoves DEF PCs
<1>16. CASE EngineReturns(r)
  <2>1. Goto(r, "ok") \/ Goto(r, "raised")
    BY <1>16 DEF EngineReturns
  <2>2. QED
    BY <2>1, GotoMoves DEF PCs
<1>17. CASE Leave(r)
  <2>1. Goto(r, "hydrate") \/ Goto(r, "answered")
    BY <1>17 DEF Leave
  <2>2. QED
    BY <2>1, GotoMoves DEF PCs
<1>18. CASE Register(r)
    BY <1>18, RegisterMoves
<1>19. QED
    BY <1>1, <1>2, <1>3, <1>4, <1>5, <1>6, <1>7, <1>8, <1>9, <1>10, <1>11, <1>12, <1>13, <1>14,
       <1>15, <1>16, <1>17, <1>18 DEF Proceed, Refused

\* How r counts as a holder of a slot and in the monitor before and after a step.
LEMMA CountsAgree ==
    ASSUME NEW r \in Requests, Moves(r)
    PROVE  /\ Holders \in SUBSET Requests /\ Holders' \in SUBSET Requests
           /\ Uncounted \in SUBSET Requests /\ Uncounted' \in SUBSET Requests
           /\ Active \in SUBSET Requests /\ Active' \in SUBSET Requests
           /\ \A x \in Requests \ {r} :
                /\ x \in Holders <=> x \in Holders'
                /\ x \in Uncounted <=> x \in Uncounted'
                /\ x \in Active <=> x \in Active'
BY DEF Moves, Holders, Uncounted, Active

(* The slots. *)

LEMMA StepSlots ==
    ASSUME TypeOK, KindPaths, SlotsBoundSearches, NEW r \in Requests, Proceed(r) \/ Refused(r)
    PROVE  SlotsBoundSearches' /\ free' \in 0 .. Slots
<1> DEFINE n == Cardinality(Holders)
           m == Cardinality(Holders')
           Keeps == /\ r \in Holders <=> r \in Holders'
                    /\ free' = free
           Takes == /\ r \notin Holders /\ r \in Holders'
                    /\ free > 0 /\ free' = free - 1
           Gives == /\ r \in Holders /\ r \notin Holders'
                    /\ free' = free + 1
<1>0. Moves(r) /\ req[r] \in [pc : PCs, kind : Kinds, query : Queries, leader : Requests \cup {None}]
    BY StepMoves DEF TypeOK
<1>a. SUFFICES Keeps \/ Takes \/ Gives
  <2>1. Searching' \subseteq Holders'
    BY DEF Searching, Holders, InsideOuter
  <2>2. free \in 0 .. Slots /\ free + n = Slots
    BY DEF TypeOK, SlotsBoundSearches
  <2>3. /\ n \in Nat /\ m \in Nat
        /\ (r \in Holders <=> r \in Holders') => m = n
        /\ r \notin Holders /\ r \in Holders' => m = n + 1
        /\ r \in Holders /\ r \notin Holders' => n = m + 1
    BY <1>0, CountsAgree, CountOne
  <2> HIDE DEF n, m
  <2>4. free' + m = Slots /\ free' \in 0 .. Slots
    BY <1>a, <2>2, <2>3
  <2>5. QED
    BY <2>1, <2>4 DEF SlotsBoundSearches, m
<1>1. CASE GateRefuses(r)
    BY <1>1, <1>0 DEF GateRefuses, Goto, Moves, TypeOK, PCs, Kinds, KindPaths, Holders, InsideOuter
<1>2. CASE EnterDirect(r)
    BY <1>2, <1>0 DEF EnterDirect, CountStarted, Goto, Moves, TypeOK, PCs, Kinds, KindPaths, Holders, InsideOuter
<1>3. CASE EnterCompat(r)
    BY <1>3, <1>0 DEF EnterCompat, Goto, Moves, TypeOK, PCs, Kinds, KindPaths, Holders, InsideOuter
<1>4. CASE TakeOuterSlot(r)
    BY <1>4, <1>0 DEF TakeOuterSlot, Goto, Moves, TypeOK, PCs, Kinds, KindPaths, Holders, InsideOuter
<1>5. CASE AnswerFromDatabase(r)
    BY <1>5, <1>0 DEF AnswerFromDatabase, Goto, Moves, TypeOK, PCs, Kinds, KindPaths, Holders, InsideOuter
<1>6. CASE EnterEngine(r)
    BY <1>6, <1>0 DEF EnterEngine, CountStarted, Goto, Moves, TypeOK, PCs, Kinds, KindPaths, Holders, InsideOuter
<1>7. CASE PlanRaises(r)
    BY <1>7, <1>0 DEF PlanRaises, Goto, Moves, TypeOK, PCs, Kinds, KindPaths, Holders, InsideOuter
<1>8. CASE Register(r)
    BY <1>8, <1>0, RegisterMoves DEF Register, Admitted, Moves, TypeOK, PCs, Kinds, KindPaths, Holders, InsideOuter
<1>9. CASE Wake(r)
    BY <1>9, <1>0 DEF Wake, Admitted, Goto, Moves, TypeOK, PCs, Kinds, KindPaths, Holders, InsideOuter
<1>10. CASE TakeSlot(r)
    BY <1>10, <1>0 DEF TakeSlot, Goto, Moves, TypeOK, PCs, Kinds, KindPaths, Holders, InsideOuter
<1>11. CASE GateRaises(r)
    BY <1>11, <1>0 DEF GateRaises, Goto, Moves, TypeOK, PCs, Kinds, KindPaths, Holders, InsideOuter
<1>12. CASE TimesOut(r)
    BY <1>12, <1>0 DEF TimesOut, Goto, Moves, TypeOK, PCs, Kinds, KindPaths, Holders, InsideOuter
<1>13. CASE EngineReturns(r)
    BY <1>13, <1>0 DEF EngineReturns, Goto, Moves, TypeOK, PCs, Kinds, KindPaths, Holders, InsideOuter
<1>14. CASE CountCompleted(r)
    BY <1>14, <1>0 DEF CountCompleted, Goto, Moves, TypeOK, PCs, Kinds, KindPaths, Holders, InsideOuter
<1>15. CASE CountFailed(r)
    BY <1>15, <1>0 DEF CountFailed, Goto, Moves, TypeOK, PCs, Kinds, KindPaths, Holders, InsideOuter
<1>16. CASE Signal(r)
    BY <1>16, <1>0 DEF Signal, Goto, Moves, TypeOK, PCs, Kinds, KindPaths, Holders, InsideOuter
<1>17. CASE Leave(r)
    BY <1>17, <1>0 DEF Leave, Goto, Moves, TypeOK, PCs, Kinds, KindPaths, Holders, InsideOuter
<1>18. CASE ReleaseOuterSlot(r)
    BY <1>18, <1>0 DEF ReleaseOuterSlot, Goto, Moves, TypeOK, PCs, Kinds, KindPaths, Holders, InsideOuter
<1>19. QED
    BY <1>1, <1>2, <1>3, <1>4, <1>5, <1>6, <1>7, <1>8, <1>9, <1>10, <1>11, <1>12, <1>13, <1>14,
       <1>15, <1>16, <1>17, <1>18 DEF Proceed, Refused

(* The counters. *)

LEMMA StepMonitor ==
    ASSUME TypeOK, MonitorBalances, NEW r \in Requests, Proceed(r) \/ Refused(r)
    PROVE  /\ MonitorBalances'
           /\ monitor' \in [active : Nat, started : Nat, completed : Nat,
                            failed : Nat, rejected : Nat]
<1> DEFINE u == Cardinality(Uncounted)
           v == Cardinality(Uncounted')
           a == Cardinality(Active)
           b == Cardinality(Active')
           Same == r \in Uncounted <=> r \in Uncounted'
           Stays == r \in Active <=> r \in Active'
           Plain == /\ Same /\ Stays
                    /\ monitor'.active = monitor.active
                    /\ monitor'.started - monitor.started
                         = (monitor'.completed + monitor'.failed)
                             - (monitor.completed + monitor.failed)
           Begins == /\ r \notin Uncounted /\ r \in Uncounted' /\ r \notin Active /\ r \in Active'
                     /\ monitor'.active = monitor.active + 1
                     /\ monitor'.started = monitor.started + 1
                     /\ monitor'.completed = monitor.completed /\ monitor'.failed = monitor.failed
           Counts == /\ r \in Uncounted /\ r \notin Uncounted' /\ Stays
                     /\ monitor'.active = monitor.active
                     /\ monitor'.started = monitor.started
                     /\ monitor'.completed + monitor'.failed = monitor.completed + monitor.failed + 1
           Leaves == /\ Same /\ r \in Active /\ r \notin Active'
                     /\ monitor'.active = monitor.active - 1
                     /\ monitor'.started = monitor.started
                     /\ monitor'.completed = monitor.completed /\ monitor'.failed = monitor.failed
           Typed == monitor' \in [active : Int, started : Nat, completed : Nat,
                                  failed : Nat, rejected : Nat]
<1>0. Moves(r) /\ req[r] \in [pc : PCs, kind : Kinds, query : Queries, leader : Requests \cup {None}]
      /\ monitor \in [active : Nat, started : Nat, completed : Nat, failed : Nat, rejected : Nat]
    BY StepMoves DEF TypeOK
<1>a. SUFFICES Typed /\ (Plain \/ Begins \/ Counts \/ Leaves)
  <2>1. /\ u \in Nat /\ v \in Nat /\ (Same => v = u)
        /\ r \notin Uncounted /\ r \in Uncounted' => v = u + 1
        /\ r \in Uncounted /\ r \notin Uncounted' => u = v + 1
    BY <1>0, CountsAgree, CountOne
  <2>2. /\ a \in Nat /\ b \in Nat /\ (Stays => b = a)
        /\ r \notin Active /\ r \in Active' => b = a + 1
        /\ r \in Active /\ r \notin Active' => a = b + 1
    BY <1>0, CountsAgree, CountOne
  <2>3. monitor.started = monitor.completed + monitor.failed + u /\ monitor.active = a
    BY DEF MonitorBalances
  <2> HIDE DEF u, v, a, b
  <2>4. monitor'.started = monitor'.completed + monitor'.failed + v
    BY <1>0, <1>a, <2>1, <2>3
  <2>5. monitor'.active = b
    BY <1>0, <1>a, <2>2, <2>3
  <2>6. monitor' \in [active : Nat, started : Nat, completed : Nat, failed : Nat, rejected : Nat]
    BY <1>a, <2>2, <2>5
  <2>7. QED
    BY <2>4, <2>5, <2>6 DEF MonitorBalances, v, b
<1>1. CASE GateRefuses(r)
    BY <1>1, <1>0 DEF GateRefuses, Goto, Moves, PCs, Uncounted, Active
<1>2. CASE EnterDirect(r)
  <2>1. monitor' = [monitor EXCEPT !.active = @ + 1, !.started = @ + 1]
    BY <1>2, <1>0 DEF EnterDirect, CountStarted
  <2>2. r \notin Uncounted /\ r \in Uncounted' /\ r \notin Active /\ r \in Active'
    BY <1>2, <1>0 DEF TypeOK, EnterDirect, CountStarted, Goto, PCs, Uncounted, Active
  <2>3. Typed
    <3>1. monitor.active + 1 \in Nat /\ monitor.started + 1 \in Nat
      BY <1>0
    <3>2. monitor' = [active |-> monitor.active + 1, started |-> monitor.started + 1, completed |-> monitor.completed,
                         failed |-> monitor.failed, rejected |-> monitor.rejected]
      BY <1>0, <2>1
    <3>3. QED
      BY <1>0, <3>1, <3>2
  <2>4. Begins
    BY <1>0, <2>1, <2>2
  <2>5. QED
    BY <2>3, <2>4
<1>3. CASE EnterCompat(r)
    BY <1>3, <1>0 DEF EnterCompat, Goto, Moves, PCs, Uncounted, Active
<1>4. CASE TakeOuterSlot(r)
    BY <1>4, <1>0 DEF TakeOuterSlot, Goto, Moves, PCs, Uncounted, Active
<1>5. CASE AnswerFromDatabase(r)
  <2>1. monitor' = [monitor EXCEPT !.started = @ + 1, !.completed = @ + 1]
    BY <1>5, <1>0 DEF AnswerFromDatabase
  <2>2. Same /\ Stays
    BY <1>5, <1>0 DEF TypeOK, AnswerFromDatabase, Goto, PCs, Uncounted, Active
  <2>3. Typed
    <3>1. monitor.completed + 1 \in Nat /\ monitor.started + 1 \in Nat
      BY <1>0
    <3>2. monitor' = [active |-> monitor.active, started |-> monitor.started + 1, completed |-> monitor.completed + 1,
                         failed |-> monitor.failed, rejected |-> monitor.rejected]
      BY <1>0, <2>1
    <3>3. QED
      BY <1>0, <3>1, <3>2
  <2>4. Plain
    BY <1>0, <2>1, <2>2
  <2>5. QED
    BY <2>3, <2>4
<1>6. CASE EnterEngine(r)
  <2>1. monitor' = [monitor EXCEPT !.active = @ + 1, !.started = @ + 1]
    BY <1>6, <1>0 DEF EnterEngine, CountStarted
  <2>2. r \notin Uncounted /\ r \in Uncounted' /\ r \notin Active /\ r \in Active'
    BY <1>6, <1>0 DEF TypeOK, EnterEngine, CountStarted, Goto, PCs, Uncounted, Active
  <2>3. Typed
    <3>1. monitor.active + 1 \in Nat /\ monitor.started + 1 \in Nat
      BY <1>0
    <3>2. monitor' = [active |-> monitor.active + 1, started |-> monitor.started + 1, completed |-> monitor.completed,
                         failed |-> monitor.failed, rejected |-> monitor.rejected]
      BY <1>0, <2>1
    <3>3. QED
      BY <1>0, <3>1, <3>2
  <2>4. Begins
    BY <1>0, <2>1, <2>2
  <2>5. QED
    BY <2>3, <2>4
<1>7. CASE PlanRaises(r)
    BY <1>7, <1>0 DEF PlanRaises, Goto, Moves, PCs, Uncounted, Active
<1>8. CASE Register(r)
    BY <1>8, <1>0, RegisterMoves DEF Register, Admitted, Moves, PCs, Uncounted, Active
<1>9. CASE Wake(r)
    BY <1>9, <1>0 DEF Wake, Admitted, Goto, Moves, PCs, Uncounted, Active
<1>10. CASE TakeSlot(r)
    BY <1>10, <1>0 DEF TakeSlot, Goto, Moves, PCs, Uncounted, Active
<1>11. CASE GateRaises(r)
    BY <1>11, <1>0 DEF GateRaises, Goto, Moves, PCs, Uncounted, Active
<1>12. CASE TimesOut(r)
    BY <1>12, <1>0 DEF TimesOut, Goto, Moves, PCs, Uncounted, Active
<1>13. CASE EngineReturns(r)
    BY <1>13, <1>0 DEF EngineReturns, Goto, Moves, PCs, Uncounted, Active
<1>14. CASE CountCompleted(r)
  <2>1. monitor' = [monitor EXCEPT !.completed = @ + 1]
    BY <1>14, <1>0 DEF CountCompleted
  <2>2. r \in Uncounted /\ r \notin Uncounted' /\ Stays
    BY <1>14, <1>0 DEF TypeOK, CountCompleted, Goto, PCs, Uncounted, Active
  <2>3. Typed
    BY <1>0, <2>1
  <2>4. Counts
    BY <1>0, <2>1, <2>2
  <2>5. QED
    BY <2>3, <2>4
<1>15. CASE CountFailed(r)
  <2>1. monitor' = [monitor EXCEPT !.failed = @ + 1]
    BY <1>15, <1>0 DEF CountFailed
  <2>2. r \in Uncounted /\ r \notin Uncounted' /\ Stays
    BY <1>15, <1>0 DEF TypeOK, CountFailed, Goto, PCs, Uncounted, Active
  <2>3. Typed
    BY <1>0, <2>1
  <2>4. Counts
    BY <1>0, <2>1, <2>2
  <2>5. QED
    BY <2>3, <2>4
<1>16. CASE Signal(r)
    BY <1>16, <1>0 DEF Signal, Goto, Moves, PCs, Uncounted, Active
<1>17. CASE Leave(r)
  <2>1. monitor' = [monitor EXCEPT !.active = @ - 1]
    BY <1>17, <1>0 DEF Leave
  <2>2. Same /\ r \in Active /\ r \notin Active'
    BY <1>17, <1>0 DEF TypeOK, Leave, Goto, PCs, Uncounted, Active
  <2>3. Typed
    BY <1>0, <2>1
  <2>4. Leaves
    BY <1>0, <2>1, <2>2
  <2>5. QED
    BY <2>3, <2>4
<1>18. CASE ReleaseOuterSlot(r)
    BY <1>18, <1>0 DEF ReleaseOuterSlot, Goto, Moves, PCs, Uncounted, Active
<1>19. QED
    BY <1>1, <1>2, <1>3, <1>4, <1>5, <1>6, <1>7, <1>8, <1>9, <1>10, <1>11, <1>12, <1>13, <1>14,
       <1>15, <1>16, <1>17, <1>18 DEF Proceed, Refused

(* The ways of the two kinds. *)

LEMMA StepPaths ==
    ASSUME TypeOK, KindPaths, NEW r \in Requests, Proceed(r) \/ Refused(r)
    PROVE  KindPaths'
<1>0. Moves(r) /\ req[r] \in [pc : PCs, kind : Kinds, query : Queries, leader : Requests \cup {None}]
    BY StepMoves DEF TypeOK
<1>a. SUFFICES /\ req[r].kind = "compat" => req'[r].pc # "slot"
               /\ req[r].kind = "direct" => req'[r].pc \notin {"outer", "plan", "hydrate"}
    BY <1>0, <1>a DEF Moves, KindPaths
<1>1. CASE GateRefuses(r)
    BY <1>1, <1>0 DEF GateRefuses, Goto, TypeOK, Kinds, KindPaths
<1>2. CASE EnterDirect(r)
    BY <1>2, <1>0 DEF EnterDirect, CountStarted, Goto, TypeOK, Kinds, KindPaths
<1>3. CASE EnterCompat(r)
    BY <1>3, <1>0 DEF EnterCompat, Goto, TypeOK, Kinds, KindPaths
<1>4. CASE TakeOuterSlot(r)
    BY <1>4, <1>0 DEF TakeOuterSlot, Goto, TypeOK, Kinds, KindPaths
<1>5. CASE AnswerFromDatabase(r)
    BY <1>5, <1>0 DEF AnswerFromDatabase, Goto, TypeOK, Kinds, KindPaths
<1>6. CASE EnterEngine(r)
    BY <1>6, <1>0 DEF EnterEngine, CountStarted, Goto, TypeOK, Kinds, KindPaths
<1>7. CASE PlanRaises(r)
    BY <1>7, <1>0 DEF PlanRaises, Goto, TypeOK, Kinds, KindPaths
<1>8. CASE Register(r)
    BY <1>8, <1>0, RegisterMoves DEF Admitted, Kinds
<1>9. CASE Wake(r)
    BY <1>9, <1>0 DEF Wake, Admitted, Goto, TypeOK, Kinds, KindPaths
<1>10. CASE TakeSlot(r)
    BY <1>10, <1>0 DEF TakeSlot, Goto, TypeOK, Kinds, KindPaths
<1>11. CASE GateRaises(r)
    BY <1>11, <1>0 DEF GateRaises, Goto, TypeOK, Kinds, KindPaths
<1>12. CASE TimesOut(r)
    BY <1>12, <1>0 DEF TimesOut, Goto, TypeOK, Kinds, KindPaths
<1>13. CASE EngineReturns(r)
    BY <1>13, <1>0 DEF EngineReturns, Goto, TypeOK, Kinds, KindPaths
<1>14. CASE CountCompleted(r)
    BY <1>14, <1>0 DEF CountCompleted, Goto, TypeOK, Kinds, KindPaths
<1>15. CASE CountFailed(r)
    BY <1>15, <1>0 DEF CountFailed, Goto, TypeOK, Kinds, KindPaths
<1>16. CASE Signal(r)
    BY <1>16, <1>0 DEF Signal, Goto, TypeOK, Kinds, KindPaths
<1>17. CASE Leave(r)
    BY <1>17, <1>0 DEF Leave, Goto, TypeOK, Kinds, KindPaths
<1>18. CASE ReleaseOuterSlot(r)
    BY <1>18, <1>0 DEF ReleaseOuterSlot, Goto, TypeOK, Kinds, KindPaths
<1>19. QED
    BY <1>1, <1>2, <1>3, <1>4, <1>5, <1>6, <1>7, <1>8, <1>9, <1>10, <1>11, <1>12, <1>13, <1>14,
       <1>15, <1>16, <1>17, <1>18 DEF Proceed, Refused

(* The Events. *)

\* What holds of Events in one state: who is registered, who waits for whom,
\* and who may search.
EventsInv == WaitedForIsRunning /\ OwnersAreRegistered

\* A step that leaves the Events alone keeps all this, if it does not bring its
\* request to a wait, take an owner past its finally block, or let one search
\* that was not woken.
LEMMA QuietStep ==
    ASSUME TypeOK, EventsInv, NEW r \in Requests, Moves(r),
           req'[r].leader = req[r].leader,
           inflight' = inflight, signalled' = signalled,
           req'[r].pc = "wait" => req[r].pc = "wait",
           req[r].pc \in {"slot", "search", "ok", "raised", "signal"} =>
               req'[r].pc \in {"slot", "search", "ok", "raised", "signal"},
           req'[r].pc \in {"slot", "search", "ok", "raised", "signal"} /\ Owner(r) =>
               inflight[Key(r)] = r,
           req'[r].pc \in {"slot", "search"} /\ ~Owner(r) => req[r].leader \in signalled
    PROVE  EventsInv'
<1>1. \A x \in Requests : Key(x)' = Key(x) /\ Owner(x)' = Owner(x)
    BY DEF Moves, Key, Owner
<1>2. \A x \in Requests \ {r} : req'[x] = req[x]
    BY DEF Moves
<1>3. \A k \in Keys : inflight[k] \in Requests \cup {None}
    BY DEF TypeOK
<1>4. WaitedForIsRunning'
    BY <1>1, <1>2, <1>3 DEF EventsInv, WaitedForIsRunning
<1>5. OwnersAreRegistered'
    BY <1>1, <1>2 DEF EventsInv, OwnersAreRegistered
<1>6. QED
    BY <1>4, <1>5 DEF EventsInv

\* An owner is registered from the moment it owns.
LEMMA StepEvents ==
    ASSUME TypeOK, EventsInv, NEW r \in Requests, Proceed(r) \/ Refused(r)
    PROVE  EventsInv' /\ inflight' \in [Keys -> Requests \cup {None}]
                      /\ signalled' \in SUBSET Requests
<1>0. /\ Moves(r) /\ req[r] \in [pc : PCs, kind : Kinds, query : Queries, leader : Requests \cup {None}]
      /\ inflight \in [Keys -> Requests \cup {None}] /\ signalled \in SUBSET Requests
      /\ ~Register(r) => req'[r].leader = req[r].leader
      /\ Key(r) \in Keys
    BY StepMoves, KeyFacts DEF TypeOK
<1>b. \A x \in Requests : Key(x)' = Key(x)
    BY <1>0 DEF Moves, Key
<1>1. CASE GateRefuses(r)
  <2>1. inflight' = inflight /\ signalled' = signalled
    BY <1>1 DEF GateRefuses
  <2>2. QED
    BY <1>0, <1>1, <2>1, QuietStep DEF GateRefuses, Goto, TypeOK, EventsInv, OwnersAreRegistered, Register
<1>2. CASE EnterDirect(r)
  <2>1. inflight' = inflight /\ signalled' = signalled
    BY <1>2 DEF EnterDirect
  <2>2. QED
    BY <1>0, <1>2, <2>1, QuietStep DEF EnterDirect, CountStarted, Goto, TypeOK, EventsInv, OwnersAreRegistered, Register
<1>3. CASE EnterCompat(r)
  <2>1. inflight' = inflight /\ signalled' = signalled
    BY <1>3 DEF EnterCompat
  <2>2. QED
    BY <1>0, <1>3, <2>1, QuietStep DEF EnterCompat, Goto, TypeOK, EventsInv, OwnersAreRegistered, Register
<1>4. CASE TakeOuterSlot(r)
  <2>1. inflight' = inflight /\ signalled' = signalled
    BY <1>4 DEF TakeOuterSlot
  <2>2. QED
    BY <1>0, <1>4, <2>1, QuietStep DEF TakeOuterSlot, Goto, TypeOK, EventsInv, OwnersAreRegistered, Register
<1>5. CASE AnswerFromDatabase(r)
  <2>1. inflight' = inflight /\ signalled' = signalled
    BY <1>5 DEF AnswerFromDatabase
  <2>2. QED
    BY <1>0, <1>5, <2>1, QuietStep DEF AnswerFromDatabase, Goto, TypeOK, EventsInv, OwnersAreRegistered, Register
<1>6. CASE EnterEngine(r)
  <2>1. inflight' = inflight /\ signalled' = signalled
    BY <1>6 DEF EnterEngine
  <2>2. QED
    BY <1>0, <1>6, <2>1, QuietStep DEF EnterEngine, CountStarted, Goto, TypeOK, EventsInv, OwnersAreRegistered, Register
<1>7. CASE PlanRaises(r)
  <2>1. inflight' = inflight /\ signalled' = signalled
    BY <1>7 DEF PlanRaises
  <2>2. QED
    BY <1>0, <1>7, <2>1, QuietStep DEF PlanRaises, Goto, TypeOK, EventsInv, OwnersAreRegistered, Register
<1>8. CASE Register(r)
  <2>1. CASE inflight[Key(r)] = None
    <3>1. /\ inflight' = [inflight EXCEPT ![Key(r)] = r] /\ signalled' = signalled
          /\ req'[r].leader = r /\ req'[r].pc \in {"slot", "search"}
      BY <1>8, <2>1, RegisterMoves DEF Register, Admitted
    <3>2. \A x \in Requests \ {r} : req'[x] = req[x] /\ Key(x)' = Key(x) /\ Owner(x)' = Owner(x)
      BY <1>0, <1>b DEF Moves, Owner
    <3>3. Owner(r)' /\ Key(r)' = Key(r)
      BY <1>b, <3>1 DEF Owner
    <3>4. \A k \in Keys : inflight'[k] = IF k = Key(r) THEN r ELSE inflight[k]
      BY <1>0, <3>1
    <3>5. WaitedForIsRunning'
      <4>1. ASSUME NEW k \in Keys, NEW o \in Requests, inflight'[k] = o
            PROVE  /\ Owner(o)' /\ Key(o)' = k
                   /\ req'[o].pc \in {"slot", "search", "ok", "raised", "signal"}
        <5>1. CASE k = Key(r)
          BY <3>1, <3>3, <3>4, <4>1, <5>1
        <5>2. CASE k # Key(r)
          <6>1. inflight[k] = o /\ o # None
            BY <3>4, <4>1, <5>2
          <6>2. /\ Owner(o) /\ Key(o) = k
                /\ req[o].pc \in {"slot", "search", "ok", "raised", "signal"}
            BY <6>1 DEF EventsInv, WaitedForIsRunning
          <6>3. QED
            BY <3>2, <5>2, <6>2
        <5>3. QED
          BY <5>1, <5>2
      <4>2. ASSUME NEW x \in Requests, req'[x].pc = "wait"
            PROVE  req'[x].leader \in signalled' \/ inflight'[Key(x)'] = req'[x].leader
        <5>1. x # r /\ req'[x] = req[x] /\ Key(x)' = Key(x) /\ Key(x) \in Keys
          BY <3>1, <3>2, <4>2, KeyFacts
        <5>2. req[x].leader \in signalled \/ inflight[Key(x)] = req[x].leader
          BY <4>2, <5>1 DEF EventsInv, WaitedForIsRunning
        <5>3. req[x].leader # None
          BY <4>2, <5>1 DEF EventsInv, OwnersAreRegistered
        <5>4. QED
          BY <2>1, <3>1, <3>4, <5>1, <5>2, <5>3
      <4>3. \A k \in Keys : inflight'[k] \in Requests \cup {None}
        BY <1>0, <3>4
      <4>4. QED
        BY <4>1, <4>2, <4>3 DEF WaitedForIsRunning, Owner, Key
    <3>6. OwnersAreRegistered'
      <4>1. \A x \in Requests \ {r} : Owner(x) /\ req[x].pc \in {"slot", "search", "ok", "raised", "signal"} =>
               Key(x) # Key(r)
        BY <2>1 DEF EventsInv, OwnersAreRegistered
      <4>2. \A x \in Requests : Key(x) \in Keys
        BY KeyFacts
      <4>3. QED
        BY <3>1, <3>2, <3>3, <3>4, <4>1, <4>2 DEF EventsInv, OwnersAreRegistered
    <3>7. QED
      BY <1>0, <3>1, <3>5, <3>6 DEF EventsInv
  <2>2. CASE inflight[Key(r)] # None
    <3>1. /\ inflight' = inflight /\ signalled' = signalled
          /\ req'[r].leader = inflight[Key(r)] /\ req'[r].pc = "wait" /\ req[r].pc = "register"
      BY <1>8, <2>2, RegisterMoves DEF Register
    <3>2. \A x \in Requests \ {r} : req'[x] = req[x] /\ Key(x)' = Key(x) /\ Owner(x)' = Owner(x)
      BY <1>0, <1>b DEF Moves, Owner
    <3>3. \A k \in Keys : inflight[k] # r
      BY <1>0, <3>1 DEF EventsInv, WaitedForIsRunning
    <3>4. WaitedForIsRunning'
      BY <1>0, <1>b, <3>1, <3>2, <3>3 DEF EventsInv, WaitedForIsRunning
    <3>5. OwnersAreRegistered'
      BY <1>0, <2>2, <3>1, <3>2, <3>3 DEF EventsInv, OwnersAreRegistered
    <3>6. QED
      BY <1>0, <3>1, <3>4, <3>5 DEF EventsInv
  <2>3. QED
    BY <2>1, <2>2
<1>9. CASE Wake(r)
  <2>1. inflight' = inflight /\ signalled' = signalled
    BY <1>9 DEF Wake
  <2>2. /\ req[r].pc = "wait" /\ req'[r].pc \in {"slot", "search"}
        /\ req'[r].leader = req[r].leader /\ req[r].leader \in signalled
    BY <1>0, <1>9 DEF Wake, Admitted, Goto, TypeOK
  <2>3. ~Owner(r)
    BY <2>2 DEF EventsInv, OwnersAreRegistered, Owner
  <2>4. QED
    BY <1>0, <2>1, <2>2, <2>3, QuietStep
<1>10. CASE TakeSlot(r)
  <2>1. inflight' = inflight /\ signalled' = signalled
    BY <1>10 DEF TakeSlot
  <2>2. QED
    BY <1>0, <1>10, <2>1, QuietStep DEF TakeSlot, Goto, TypeOK, EventsInv, OwnersAreRegistered, Register
<1>11. CASE GateRaises(r)
  <2>1. inflight' = inflight /\ signalled' = signalled
    BY <1>11 DEF GateRaises
  <2>2. QED
    BY <1>0, <1>11, <2>1, QuietStep DEF GateRaises, Goto, TypeOK, EventsInv, OwnersAreRegistered, Register
<1>12. CASE TimesOut(r)
  <2>1. inflight' = inflight /\ signalled' = signalled
    BY <1>12 DEF TimesOut
  <2>2. /\ req'[r].leader = req[r].leader
        /\ \/ req[r].pc = "wait" /\ req'[r].pc = "raised"
           \/ req[r].pc = "slot" /\ req'[r].pc = "raised"
           \/ req[r].pc = "outer" /\ req'[r].pc = "answered"
    BY <1>0, <1>12 DEF TimesOut, Goto, TypeOK
  <2>3. Owner(r) => req[r].pc # "wait"
    BY DEF EventsInv, OwnersAreRegistered, Owner
  <2>4. Owner(r) /\ req[r].pc = "slot" => inflight[Key(r)] = r
    BY DEF EventsInv, OwnersAreRegistered
  <2>5. QED
    BY <1>0, <2>1, <2>2, <2>3, <2>4, QuietStep
<1>13. CASE EngineReturns(r)
  <2>1. inflight' = inflight /\ signalled' = signalled
    BY <1>13 DEF EngineReturns
  <2>2. QED
    BY <1>0, <1>13, <2>1, QuietStep DEF EngineReturns, Goto, TypeOK, EventsInv, OwnersAreRegistered, Register
<1>14. CASE CountCompleted(r)
  <2>1. inflight' = inflight /\ signalled' = signalled
    BY <1>14 DEF CountCompleted
  <2>2. QED
    BY <1>0, <1>14, <2>1, QuietStep DEF CountCompleted, Goto, TypeOK, EventsInv, OwnersAreRegistered, Register
<1>15. CASE CountFailed(r)
  <2>1. inflight' = inflight /\ signalled' = signalled
    BY <1>15 DEF CountFailed
  <2>2. QED
    BY <1>0, <1>15, <2>1, QuietStep DEF CountFailed, Goto, TypeOK, EventsInv, OwnersAreRegistered, Register
<1>16. CASE Signal(r)
  <2>1. /\ req[r].pc = "signal" /\ req'[r].pc = "leave" /\ req'[r].leader = req[r].leader
    BY <1>0, <1>16 DEF TypeOK, Signal, Goto
  <2>2. \A x \in Requests : Owner(x)' = Owner(x)
    BY <1>0, <2>1 DEF Moves, Owner
  <2>3. \A x \in Requests \ {r} : req'[x] = req[x]
    BY <1>0 DEF Moves
  <2>4. CASE Owner(r)
    <3>1. inflight[Key(r)] = r
      BY <2>1, <2>4 DEF EventsInv, OwnersAreRegistered
    <3>2. signalled' = signalled \cup {r} /\ inflight' = [inflight EXCEPT ![Key(r)] = None]
      BY <1>16, <2>4, <3>1 DEF Signal
    <3>3. \A k \in Keys : inflight'[k] = IF k = Key(r) THEN None ELSE inflight[k]
      BY <1>0, <3>2
    <3>4. \A k \in Keys : inflight[k] = r => k = Key(r)
      BY DEF EventsInv, WaitedForIsRunning
    <3>5. WaitedForIsRunning'
      BY <1>0, <1>b, <2>1, <2>2, <2>3, <3>1, <3>2, <3>3, <3>4, KeyFacts DEF EventsInv, WaitedForIsRunning
    <3>6. OwnersAreRegistered'
      <4>1. ASSUME NEW x \in Requests \ {r} PROVE Key(x) \in Keys /\ (inflight[Key(x)] = x => Key(x) # Key(r))
        BY <3>1, KeyFacts
      <4>2. QED
        BY <1>b, <2>1, <2>2, <2>3, <3>2, <3>3, <4>1 DEF EventsInv, OwnersAreRegistered
    <3>7. QED
      BY <1>0, <3>2, <3>5, <3>6 DEF EventsInv
  <2>5. CASE ~Owner(r)
    <3>1. signalled' = signalled /\ inflight' = inflight
      BY <1>16, <2>5 DEF Signal
    <3>2. \A k \in Keys : inflight[k] # r
      BY <1>0, <2>5 DEF EventsInv, WaitedForIsRunning
    <3>3. WaitedForIsRunning'
      BY <1>0, <1>b, <2>1, <2>2, <2>3, <3>1, <3>2 DEF EventsInv, WaitedForIsRunning
    <3>4. OwnersAreRegistered'
      BY <1>b, <2>1, <2>2, <2>3, <3>1 DEF EventsInv, OwnersAreRegistered
    <3>5. QED
      BY <1>0, <3>1, <3>3, <3>4 DEF EventsInv
  <2>6. QED
    BY <2>4, <2>5
<1>17. CASE Leave(r)
  <2>1. inflight' = inflight /\ signalled' = signalled
    BY <1>17 DEF Leave
  <2>2. QED
    BY <1>0, <1>17, <2>1, QuietStep DEF Leave, Goto, TypeOK, EventsInv, OwnersAreRegistered, Register
<1>18. CASE ReleaseOuterSlot(r)
  <2>1. inflight' = inflight /\ signalled' = signalled
    BY <1>18 DEF ReleaseOuterSlot
  <2>2. QED
    BY <1>0, <1>18, <2>1, QuietStep DEF ReleaseOuterSlot, Goto, TypeOK, EventsInv, OwnersAreRegistered, Register
<1>19. QED
    BY <1>1, <1>2, <1>3, <1>4, <1>5, <1>6, <1>7, <1>8, <1>9, <1>10, <1>11, <1>12, <1>13, <1>14,
       <1>15, <1>16, <1>17, <1>18 DEF Proceed, Refused

-----------------------------------------------------------------------------
(* The invariant. *)

\* Two owners of one key that have not yet withdrawn their Events are the same.
LEMMA IdenticalFollow ==
    ASSUME OwnersAreRegistered
    PROVE  IdenticalSearchesFollow
BY DEF OwnersAreRegistered, IdenticalSearchesFollow, Searching

\* Nobody has a slot, an Event or a count when the service starts.
LEMMA InitIInv ==
    ASSUME Init
    PROVE  IInv
<1>1. \A r \in Requests : req[r].pc = "new" /\ req[r].leader = None
    BY DEF Init
<1>2. TypeOK
    BY DEF Init, TypeOK, PCs
<1>3. Holders = {} /\ Uncounted = {} /\ Active = {} /\ Searching = {}
    BY <1>1 DEF Holders, Uncounted, Active, Searching, InsideOuter
<1>4. SlotsBoundSearches
    BY <1>3, FS_EmptySet DEF Init, SlotsBoundSearches
<1>5. MonitorBalances
    BY <1>3, FS_EmptySet DEF Init, MonitorBalances
<1>6. WaitedForIsRunning
    BY <1>1 DEF Init, WaitedForIsRunning
<1>7. KindPaths /\ OwnersAreRegistered
    BY <1>1 DEF KindPaths, OwnersAreRegistered
<1>8. QED
    BY <1>2, <1>4, <1>5, <1>6, <1>7, IdenticalFollow DEF IInv, AdmissionInv

\* No step of any request disturbs it.
LEMMA NextIInv ==
    ASSUME IInv, [Next]_vars
    PROVE  IInv'
<1>1. CASE UNCHANGED vars
    BY <1>1 DEF vars, IInv, AdmissionInv, TypeOK, SlotsBoundSearches, IdenticalSearchesFollow,
                WaitedForIsRunning, MonitorBalances, KindPaths, OwnersAreRegistered,
                Holders, Searching, Uncounted, Active, Owner, Key
<1>2. CASE Next
  <2>1. PICK r \in Requests : Proceed(r) \/ Refused(r)
    BY <1>2 DEF Next
  <2>2. TypeOK /\ KindPaths /\ EventsInv /\ SlotsBoundSearches /\ MonitorBalances
    BY DEF IInv, AdmissionInv, EventsInv
  <2>3. SlotsBoundSearches' /\ free' \in 0 .. Slots
    BY <2>1, <2>2, StepSlots
  <2>4. /\ MonitorBalances'
        /\ monitor' \in [active : Nat, started : Nat, completed : Nat, failed : Nat, rejected : Nat]
    BY <2>1, <2>2, StepMonitor
  <2>5. EventsInv' /\ inflight' \in [Keys -> Requests \cup {None}] /\ signalled' \in SUBSET Requests
    BY <2>1, <2>2, StepEvents
  <2>6. KindPaths'
    BY <2>1, <2>2, StepPaths
  <2>7. TypeOK'
    BY <2>1, <2>2, <2>3, <2>4, <2>5, StepMoves DEF TypeOK
  <2>8. IdenticalSearchesFollow'
    BY <2>5 DEF EventsInv, OwnersAreRegistered, IdenticalSearchesFollow, Searching
  <2>9. QED
    BY <2>3, <2>4, <2>5, <2>6, <2>7, <2>8 DEF IInv, AdmissionInv, EventsInv
<1>3. QED
    BY <1>1, <1>2

\* A follower that keeps a slot is a compat request; so is its owner, which has
\* the same key, and a compat request past its registration has its slot.
LEMMA NoCircle ==
    ASSUME IInv
    PROVE  NoCircularWait
<1> SUFFICES ASSUME NEW r \in Requests, req[r].pc = "wait", r \in Holders,
                    req[r].leader \notin signalled
             PROVE  req[r].leader \in Holders
    BY DEF NoCircularWait
<1> DEFINE o == req[r].leader
<1>1. TypeOK /\ WaitedForIsRunning /\ KindPaths /\ OwnersAreRegistered
    BY DEF IInv, AdmissionInv
<1>2. o \in Requests /\ inflight[Key(r)] = o /\ Key(r) \in Keys
    BY <1>1, KeyFacts DEF WaitedForIsRunning, OwnersAreRegistered
<1>3. Key(o) = Key(r) /\ req[o].pc \in {"slot", "search", "ok", "raised", "signal"}
    BY <1>1, <1>2 DEF WaitedForIsRunning
<1>4. req[r].kind = "compat"
    BY DEF Holders
<1>5. req[o].kind = "compat"
    BY <1>1, <1>2, <1>3, <1>4, KeyFacts
<1>6. QED
    BY <1>1, <1>2, <1>3, <1>5 DEF KindPaths, Holders, InsideOuter

-----------------------------------------------------------------------------
\* The inductive invariant of search_capacity_slot, run_engine_search and
\* _coalesce: AdmissionInv, the ways of the two kinds and registered owners.
THEOREM AdmissionInvariance == Spec => []IInv
BY InitIInv, NextIInv, PTL DEF Spec

\* However many requests interleave and whichever of them time out, are refused
\* or raise: the semaphore's count is Slots less the requests inside, the
\* monitor's counters balance, every registered Event is still to be set, and
\* identical searches run one behind the other.
THEOREM AdmissionHolds == Spec => []AdmissionInv
<1>1. IInv => AdmissionInv
    BY DEF IInv
<1>2. QED
    BY <1>1, AdmissionInvariance, PTL

\* filter_results keeps its slot while it waits for an identical search; the
\* request it waits for has its slot already, so the two waits form no circle.
THEOREM WaitsDoNotCircle == Spec => []NoCircularWait
BY NoCircle, AdmissionInvariance, PTL
-----------------------------------------------------------------------------
(***************************************************************************)
(* What an admitted search does (SearchPipeline), for any searches,        *)
(* queries, generations and size of the memory cache: what a cache gives   *)
(* a search fits the engine that runs it, and is not degraded.             *)
(*                                                                         *)
(* ReuseIsSound is not inductive: an entry fits whoever finds it because   *)
(* it was stored under a key that names the catalogue or the index it came *)
(* from (GoodPlans, GoodResults), and a search carries its engine's        *)
(* generation from its start to its end, across promotions.                *)
(***************************************************************************)

\* Results, plans and the keys of their caches.
Results == [gen : Generations, rev : Nat, fault : {"none", "plan", "retrieval", "ranking"}]
Plans == [catalog : Generations, route : Routes, rewritten : BOOLEAN]
Typed == QueryTexts \union {NoValue}
ResultKeys == [gen : Generations, rev : Nat, q : Typed]
PlanKeys == [catalog : Generations, q : Typed]

\* What either cache of plans may hold, and the cache of results.
GoodPlans ==
  {e \in [key : PlanKeys, value : Plans] :
      e.value.catalog = e.key.catalog /\ e.value.route # "fallback"}
GoodResults ==
  {e \in [key : ResultKeys, value : Results] :
      /\ e.value.gen = e.key.gen /\ e.value.rev <= e.key.rev
      /\ e.value.fault = "none"}

\* A result a search may hold: read from its engine's index as it is or was.
Fits(s) ==
  /\ search[s].result \in Results
  /\ search[s].result.gen = search[s].gen
  /\ search[s].result.rev <= revision[search[s].gen]

\* A plan is of the engine's catalogue; a hit is a whole result.
SearchIsSound(s) ==
  /\ DOMAIN search[s] = {"pc", "gen", "q", "plan", "result", "hit"}
  /\ search[s].gen \in Generations /\ search[s].q \in Typed
  /\ search[s].plan # NoValue => search[s].plan \in Plans /\ search[s].plan.catalog = search[s].gen
  /\ search[s].result # NoValue => Fits(s)
  /\ search[s].pc \in {"rank", "store"} => Fits(s)
  /\ search[s].pc = "new" => search[s].result = NoValue /\ search[s].plan = NoValue
  /\ search[s].hit => search[s].pc = "served" /\ Fits(s) /\ search[s].result.fault = "none"

\* What every search carries.
SearchesAreSound ==
  /\ search = [s \in Searches |-> search[s]]
  /\ \A s \in Searches : SearchIsSound(s)

\* What the caches hold.
CachesAreGood ==
  /\ memory \in [Generations -> Seq(GoodPlans)]
  /\ sharedPlans \subseteq GoodPlans
  /\ results \subseteq GoodResults

\* The engine searches are routed to, and the revisions of the indexes.
Engines == current \in Generations /\ revision \in [Generations -> Nat]

\* The inductive invariant.
PipelineInv == SearchesAreSound /\ CachesAreGood /\ Engines
-----------------------------------------------------------------------------
\* A sequence without one of its elements.
LEMMA OneLess ==
  ASSUME NEW T, NEW s \in Seq(T), NEW i \in DOMAIN s
  PROVE  RemoveAt(s, i) \in Seq(T)
  <1>1. Len(s) \in Nat /\ DOMAIN s = 1 .. Len(s) /\ i \in 1 .. Len(s)
        /\ \A j \in 1 .. Len(s) : s[j] \in T
    OBVIOUS
  <1>2. SubSeq(s, 1, i - 1) \in Seq(T)
    <2>1. 1 \in Int /\ i - 1 \in Int /\ \A j \in 1 .. (i - 1) : s[j] \in T
      BY <1>1
    <2> QED
      BY <2>1, SubSeqProperties
  <1>3. SubSeq(s, i + 1, Len(s)) \in Seq(T)
    <2>1. i + 1 \in Int /\ Len(s) \in Int /\ \A j \in (i + 1) .. Len(s) : j \in 1 .. Len(s)
      BY <1>1
    <2>2. \A j \in (i + 1) .. Len(s) : s[j] \in T
      BY <1>1, <2>1
    <2> QED
      BY <2>1, <2>2, SubSeqProperties
  <1> QED
    BY <1>2, <1>3, ConcatProperties DEF RemoveAt

\* The LRU holds what it held, and the plan that is put in.
LEMMA WithoutKeeps ==
  ASSUME NEW T, NEW s \in Seq(T), NEW key
  PROVE  Without(s, key) \in Seq(T)
  <1> DEFINE at == {i \in DOMAIN s : s[i].key = key}
  <1>1. CASE at = {}
    BY <1>1 DEF Without
  <1>2. CASE at # {}
    <2>1. PICK i \in DOMAIN s : i = CHOOSE j \in at : TRUE
      BY <1>2
    <2>2. Without(s, key) = RemoveAt(s, i)
      BY <1>2, <2>1 DEF Without
    <2> QED
      BY <2>2, OneLess
  <1> QED
    BY <1>1, <1>2

\* What _cache_memory_plan leaves in the LRU are plans as before and the new one.
LEMMA RememberKeeps ==
  ASSUME NEW T, NEW s \in Seq(T), NEW key, NEW plan, [key |-> key, value |-> plan] \in T
  PROVE  Remember(s, key, plan) \in Seq(T)
  <1>1. PICK e \in T : e = [key |-> key, value |-> plan]
    OBVIOUS
  <1>2. PICK all \in Seq(T) : all = Append(Without(s, key), e)
    <2>1. PICK w \in Seq(T) : w = Without(s, key)
      BY WithoutKeeps
    <2>2. Append(w, e) \in Seq(T)
      BY <2>1
    <2> QED
      BY <2>1, <2>2
  <1>3. Len(all) \in Nat /\ \A j \in 1 .. Len(all) : all[j] \in T
    OBVIOUS
  <1>4. PICK m \in Nat : m = Len(all) - (IF Len(all) > QUERY_PLAN_CACHE_SIZE
                                         THEN QUERY_PLAN_CACHE_SIZE ELSE Len(all)) + 1
                         /\ m >= 1
    <2>1. PICK n \in Nat : n = Len(all)
      BY <1>3
    <2>2. PICK size \in Nat : size = QUERY_PLAN_CACHE_SIZE
      BY PipelineAssumption
    <2>3. n - (IF n > size THEN size ELSE n) + 1 \in Nat
          /\ n - (IF n > size THEN size ELSE n) + 1 >= 1
      OBVIOUS
    <2> QED
      BY <2>1, <2>2, <2>3
  <1>5. Remember(s, key, plan) = SubSeq(all, m, Len(all))
    BY <1>1, <1>2, <1>4 DEF Remember
  <1>6. m \in Int /\ Len(all) \in Int /\ \A j \in m .. Len(all) : j \in 1 .. Len(all)
    BY <1>3, <1>4
  <1>7. \A j \in m .. Len(all) : all[j] \in T
    BY <1>3, <1>6
  <1> QED
    BY <1>5, <1>6, <1>7, SubSeqProperties

\* What a change to some fields of a search leaves alone.
LEMMA SetKeeps ==
  ASSUME SearchesAreSound, NEW s \in Searches, NEW c, Set(s, c)
  PROVE  /\ search' = [r \in Searches |-> search'[r]]
         /\ \A r \in Searches : r # s => search'[r] = search[r]
         /\ DOMAIN search'[s] = {"pc", "gen", "q", "plan", "result", "hit"}
         /\ \A f \in {"pc", "gen", "q", "plan", "result", "hit"} :
               search'[s][f] = IF f \in DOMAIN c THEN c[f] ELSE search[s][f]
  <1>1. DOMAIN search = Searches
        /\ DOMAIN search[s] = {"pc", "gen", "q", "plan", "result", "hit"}
    BY DEF SearchesAreSound, SearchIsSound
  <1>2. search' = [search EXCEPT ![s] = [f \in DOMAIN search[s] |->
                       IF f \in DOMAIN c THEN c[f] ELSE search[s][f]]]
    BY DEF Set
  <1>3. /\ search' = [r \in Searches |-> search'[r]]
        /\ \A r \in Searches : r # s => search'[r] = search[r]
    BY <1>1, <1>2
  <1>4. search'[s] = [f \in {"pc", "gen", "q", "plan", "result", "hit"} |->
                         IF f \in DOMAIN c THEN c[f] ELSE search[s][f]]
    BY <1>1, <1>2
  <1> QED
    BY <1>3, <1>4

\* The other searches stay as they are.
LEMMA OthersAreSound ==
  ASSUME SearchesAreSound, NEW s \in Searches, revision' = revision,
         search' = [r \in Searches |-> search'[r]],
         \A r \in Searches : r # s => search'[r] = search[r],
         SearchIsSound(s)'
  PROVE  SearchesAreSound'
  <1>1. \A r \in Searches : r # s => SearchIsSound(r)'
    BY DEF SearchesAreSound, SearchIsSound, Fits
  <1> QED
    BY <1>1 DEF SearchesAreSound

\* A search that only gets further on its way, to a step that has no result.
LEMMA OnlyTheStep ==
  ASSUME SearchesAreSound, NEW s \in Searches, revision' = revision, NEW p,
         Set(s, [pc |-> p]), p \notin {"rank", "store", "new"},
         search[s].pc # "served"
  PROVE  SearchesAreSound'
  <1> DEFINE c == [pc |-> p]
  <1>1. DOMAIN c = {"pc"} /\ c["pc"] = p /\ Set(s, c)
    OBVIOUS
  <1> HIDE DEF c
  <1>2. /\ search' = [r \in Searches |-> search'[r]]
        /\ \A r \in Searches : r # s => search'[r] = search[r]
        /\ DOMAIN search'[s] = {"pc", "gen", "q", "plan", "result", "hit"}
        /\ \A f \in {"pc", "gen", "q", "plan", "result", "hit"} :
              search'[s][f] = IF f \in DOMAIN c THEN c[f] ELSE search[s][f]
    BY <1>1, SetKeeps
  <1>3. /\ search'[s].pc = p /\ search'[s].gen = search[s].gen /\ search'[s].q = search[s].q
        /\ search'[s].plan = search[s].plan /\ search'[s].result = search[s].result
        /\ search'[s].hit = search[s].hit
    BY <1>1, <1>2
  <1>4. SearchIsSound(s)'
    BY <1>2, <1>3 DEF SearchesAreSound, SearchIsSound, Fits
  <1> QED
    BY <1>2, <1>4, OthersAreSound

\* A search that has read its result, or has ended without one.
LEMMA ResultIsRead ==
  ASSUME SearchesAreSound, Engines, NEW s \in Searches, revision' = revision, NEW p, NEW r,
         Set(s, [pc |-> p, plan |-> NoValue, result |-> r]), p # "new", search[s].pc # "served",
         \/ /\ r \in Results /\ r.gen = search[s].gen /\ r.rev <= revision[search[s].gen]
         \/ r = NoValue /\ p \notin {"rank", "store"}
  PROVE  SearchesAreSound'
  <1> DEFINE c == [pc |-> p, plan |-> NoValue, result |-> r]
  <1>1. /\ DOMAIN c = {"pc", "plan", "result"} /\ c["pc"] = p /\ c["plan"] = NoValue
        /\ c["result"] = r /\ Set(s, c)
    OBVIOUS
  <1> HIDE DEF c
  <1>2. /\ search' = [t \in Searches |-> search'[t]]
        /\ \A t \in Searches : t # s => search'[t] = search[t]
        /\ DOMAIN search'[s] = {"pc", "gen", "q", "plan", "result", "hit"}
        /\ \A f \in {"pc", "gen", "q", "plan", "result", "hit"} :
              search'[s][f] = IF f \in DOMAIN c THEN c[f] ELSE search[s][f]
    BY <1>1, SetKeeps
  <1>3. /\ search'[s].pc = p /\ search'[s].gen = search[s].gen /\ search'[s].q = search[s].q
        /\ search'[s].plan = NoValue /\ search'[s].result = r /\ search'[s].hit = search[s].hit
    BY <1>1, <1>2
  <1>4. SearchIsSound(s)
    BY DEF SearchesAreSound
  <1>5. search[s].gen \in Generations /\ search[s].q \in Typed /\ ~search[s].hit
    BY <1>4 DEF SearchIsSound
  <1>6. SearchIsSound(s)'
    <2>1. CASE r \in Results /\ r.gen = search[s].gen /\ r.rev <= revision[search[s].gen]
      <3>1. Fits(s)'
        BY <1>3, <2>1 DEF Fits
      <3> QED
        BY <1>2, <1>3, <1>5, <3>1 DEF SearchIsSound
    <2>2. CASE r = NoValue /\ p \notin {"rank", "store"}
      BY <1>2, <1>3, <1>5, <2>2 DEF SearchIsSound
    <2> QED
      BY <2>1, <2>2
  <1> QED
    BY <1>2, <1>6, OthersAreSound

\* A search that took over a plan, or made one.
LEMMA PlanIsTaken ==
  ASSUME SearchesAreSound, NEW s \in Searches, revision' = revision, NEW p \in Plans,
         Set(s, [pc |-> "planned", plan |-> p]), p.catalog = search[s].gen,
         search[s].pc # "served"
  PROVE  SearchesAreSound'
  <1> DEFINE c == [pc |-> "planned", plan |-> p]
  <1>1. DOMAIN c = {"pc", "plan"} /\ c["pc"] = "planned" /\ c["plan"] = p /\ Set(s, c)
    OBVIOUS
  <1> HIDE DEF c
  <1>2. /\ search' = [t \in Searches |-> search'[t]]
        /\ \A t \in Searches : t # s => search'[t] = search[t]
        /\ DOMAIN search'[s] = {"pc", "gen", "q", "plan", "result", "hit"}
        /\ \A f \in {"pc", "gen", "q", "plan", "result", "hit"} :
              search'[s][f] = IF f \in DOMAIN c THEN c[f] ELSE search[s][f]
    BY <1>1, SetKeeps
  <1>3. /\ search'[s].pc = "planned" /\ search'[s].gen = search[s].gen
        /\ search'[s].q = search[s].q /\ search'[s].plan = p
        /\ search'[s].result = search[s].result /\ search'[s].hit = search[s].hit
    BY <1>1, <1>2
  <1>4. SearchIsSound(s)'
    BY <1>2, <1>3 DEF SearchesAreSound, SearchIsSound, Fits
  <1> QED
    BY <1>2, <1>4, OthersAreSound

\* The key of a search's plan, and what is kept under it.
LEMMA PlanOfKey ==
  ASSUME NEW g \in Generations, NEW q \in Typed
  PROVE  /\ PlanKey(g, q) \in PlanKeys /\ PlanKey(g, q).catalog = g
         /\ \A e \in GoodPlans : e.key = PlanKey(g, q) =>
               e.value \in Plans /\ e.value.catalog = g /\ e.value.route # "fallback"
         /\ \A plan \in Plans : plan.catalog = g /\ plan.route # "fallback" =>
               [key |-> PlanKey(g, q), value |-> plan] \in GoodPlans
  <1>1. PlanKey(g, q) \in PlanKeys /\ PlanKey(g, q).catalog = g
    BY DEF PlanKey, PlanKeys
  <1>2. \A e \in GoodPlans : e.key \in PlanKeys /\ e.value \in Plans
            /\ e.value.catalog = e.key.catalog /\ e.value.route # "fallback"
    BY DEF GoodPlans
  <1>3. ASSUME NEW plan \in Plans, plan.catalog = g, plan.route # "fallback"
        PROVE  [key |-> PlanKey(g, q), value |-> plan] \in GoodPlans
    <2>1. PICK key \in PlanKeys : key = PlanKey(g, q) /\ key.catalog = g
      BY <1>1
    <2>2. [key |-> key, value |-> plan] \in GoodPlans
      BY <1>3, <2>1 DEF GoodPlans
    <2> QED
      BY <2>1, <2>2
  <1> QED
    BY <1>1, <1>2, <1>3

\* A store of Redis holds what it held, and what is put in.
LEMMA StoreKeeps ==
  ASSUME NEW T, NEW entries, entries \subseteq T, NEW key, NEW value,
         [key |-> key, value |-> value] \in T, NEW after,
         after \in StoredIn(entries, key, value)
  PROVE  after \subseteq T
  <1>1. after = entries
        \/ after = (entries \ Found(entries, key)) \cup {[key |-> key, value |-> value]}
    BY DEF StoredIn
  <1> QED
    BY <1>1

------------------------------------------------------------------------------
(* The steps of a search.                                                   *)

LEMMA StartStep ==
  ASSUME PipelineInv, NEW s \in Searches, Start(s)
  PROVE  PipelineInv'
  <1>1. PICK q \in QueryTexts : Set(s, [pc |-> "lookup", gen |-> current, q |-> q])
    BY DEF Start
  <1>2. /\ search[s].pc = "new" /\ SearchesAreSound /\ current \in Generations
        /\ UNCHANGED <<current, revision, memory, sharedPlans, results>>
    BY DEF Start, PipelineInv, Engines
  <1> DEFINE c == [pc |-> "lookup", gen |-> current, q |-> q]
  <1>3. /\ DOMAIN c = {"pc", "gen", "q"} /\ c["pc"] = "lookup" /\ c["gen"] = current
        /\ c["q"] = q /\ Set(s, c)
    BY <1>1
  <1> HIDE DEF c
  <1>4. /\ search' = [t \in Searches |-> search'[t]]
        /\ \A t \in Searches : t # s => search'[t] = search[t]
        /\ DOMAIN search'[s] = {"pc", "gen", "q", "plan", "result", "hit"}
        /\ \A f \in {"pc", "gen", "q", "plan", "result", "hit"} :
              search'[s][f] = IF f \in DOMAIN c THEN c[f] ELSE search[s][f]
    BY <1>2, <1>3, SetKeeps
  <1>5. /\ search'[s].pc = "lookup" /\ search'[s].gen = current /\ search'[s].q = q
        /\ search'[s].plan = search[s].plan /\ search'[s].result = search[s].result
        /\ search'[s].hit = search[s].hit
    BY <1>3, <1>4
  <1>6. SearchIsSound(s)
    BY <1>2 DEF SearchesAreSound
  <1>7. search[s].result = NoValue /\ search[s].plan = NoValue /\ ~search[s].hit
    BY <1>2, <1>6 DEF SearchIsSound
  <1>8. SearchIsSound(s)'
    BY <1>2, <1>4, <1>5, <1>7 DEF SearchIsSound, Typed
  <1>9. SearchesAreSound'
    BY <1>2, <1>4, <1>8, OthersAreSound
  <1> QED
    BY <1>2, <1>9 DEF PipelineInv, CachesAreGood, Engines

\* What is kept under the key a search looks up was read from its engine's
\* index, at this revision or before.
LEMMA ResultHitStep ==
  ASSUME PipelineInv, NEW s \in Searches, ResultHit(s)
  PROVE  PipelineInv'
  <1>1. PICK e \in Found(results, ResultKey(Gen(s), Query(s))) :
            Set(s, [pc |-> "served", result |-> e.value, hit |-> TRUE])
    BY DEF ResultHit
  <1>2. /\ search[s].pc = "lookup" /\ SearchesAreSound /\ SearchIsSound(s)
        /\ UNCHANGED <<current, revision, memory, sharedPlans, results>>
        /\ results \subseteq GoodResults /\ search[s].gen \in Generations
    BY DEF ResultHit, PipelineInv, CachesAreGood, SearchesAreSound, SearchIsSound
  <1>3. e \in GoodResults /\ e.key = ResultKey(Gen(s), Query(s))
    BY <1>1, <1>2 DEF Found
  <1>4. /\ e.value \in Results /\ e.value.gen = e.key.gen /\ e.value.rev <= e.key.rev
        /\ e.value.fault = "none"
    BY <1>3 DEF GoodResults
  <1>5. e.key.gen = search[s].gen /\ e.key.rev = revision[search[s].gen]
    BY <1>3 DEF ResultKey, Gen
  <1>6. PICK v \in Results : v = e.value
    BY <1>4
  <1>7. v.gen = search[s].gen /\ v.rev <= revision[search[s].gen] /\ v.fault = "none"
    BY <1>4, <1>5, <1>6
  <1> DEFINE c == [pc |-> "served", result |-> v, hit |-> TRUE]
  <1>8. /\ DOMAIN c = {"pc", "result", "hit"} /\ c["pc"] = "served" /\ c["result"] = v
        /\ c["hit"] = TRUE /\ Set(s, c)
    BY <1>1, <1>6
  <1> HIDE DEF c
  <1>9. /\ search' = [t \in Searches |-> search'[t]]
        /\ \A t \in Searches : t # s => search'[t] = search[t]
        /\ DOMAIN search'[s] = {"pc", "gen", "q", "plan", "result", "hit"}
        /\ \A f \in {"pc", "gen", "q", "plan", "result", "hit"} :
              search'[s][f] = IF f \in DOMAIN c THEN c[f] ELSE search[s][f]
    BY <1>2, <1>8, SetKeeps
  <1>10. /\ search'[s].pc = "served" /\ search'[s].gen = search[s].gen
         /\ search'[s].q = search[s].q /\ search'[s].plan = search[s].plan
         /\ search'[s].result = v /\ search'[s].hit = TRUE
    BY <1>8, <1>9
  <1>11. Fits(s)'
    BY <1>2, <1>7, <1>10 DEF Fits
  <1>12. SearchIsSound(s)'
    BY <1>2, <1>7, <1>9, <1>10, <1>11 DEF SearchIsSound
  <1>13. SearchesAreSound'
    BY <1>2, <1>9, <1>12, OthersAreSound
  <1> QED
    BY <1>2, <1>13 DEF PipelineInv, CachesAreGood, Engines

\* The steps that only take a search further.
LEMMA WalkingSteps ==
  ASSUME PipelineInv, NEW s \in Searches, ResultMiss(s) \/ Route(s) \/ Await(s)
  PROVE  PipelineInv'
  <1>1. /\ SearchesAreSound /\ search[s].pc # "served"
        /\ UNCHANGED <<current, revision, memory, sharedPlans, results>>
    BY DEF ResultMiss, Route, Await, PipelineInv
  <1>2. PICK p : Set(s, [pc |-> p]) /\ p \notin {"rank", "store", "new"}
    <2>1. CASE ResultMiss(s)
      BY <2>1 DEF ResultMiss
    <2>2. CASE Await(s)
      BY <2>2 DEF Await
    <2>3. CASE Route(s)
      <3>1. PICK p : p = CASE search[s].plan.route = "deterministic_filter" -> "browse"
                          [] search[s].plan.rewritten -> "retrieve"
                          [] OTHER -> "await"
        OBVIOUS
      <3>2. p \in {"browse", "retrieve", "await"}
        BY <3>1
      <3>3. Set(s, [pc |-> p])
        BY <2>3, <3>1 DEF Route
      <3> QED
        BY <3>2, <3>3
    <2> QED
      BY <2>1, <2>2, <2>3
  <1>3. SearchesAreSound'
    BY <1>1, <1>2, OnlyTheStep
  <1> QED
    BY <1>1, <1>3 DEF PipelineInv, CachesAreGood, Engines

\* _cached_plan from memory: the plan was made from this engine's catalogue.
LEMMA PlanHitStep ==
  ASSUME PipelineInv, NEW s \in Searches, PlanHit(s)
  PROVE  PipelineInv'
  <1>1. PICK i \in MemoryOf(Gen(s), PlanKey(Gen(s), Query(s))) :
           /\ Set(s, [pc |-> "planned", plan |-> memory[Gen(s)][i].value])
           /\ memory' = [memory EXCEPT ![Gen(s)] = Append(RemoveAt(@, i), memory[Gen(s)][i])]
    BY DEF PlanHit
  <1>2. /\ SearchesAreSound /\ search[s].pc = "plan" /\ search[s].gen \in Generations
        /\ search[s].q \in Typed /\ memory \in [Generations -> Seq(GoodPlans)]
        /\ UNCHANGED <<current, revision, sharedPlans, results>>
    BY DEF PlanHit, PipelineInv, CachesAreGood, SearchesAreSound, SearchIsSound
  <1>3. PICK g \in Generations : g = search[s].gen /\ g = Gen(s)
    BY <1>2 DEF Gen
  <1>4. PICK kept \in Seq(GoodPlans) : kept = memory[g]
    BY <1>2
  <1>5. i \in DOMAIN kept /\ kept[i].key = PlanKey(g, search[s].q)
    BY <1>1, <1>3, <1>4 DEF MemoryOf, Query
  <1>6. PICK e \in GoodPlans : e = kept[i]
    BY <1>5
  <1>7. PICK p \in Plans : p = e.value /\ p.catalog = g
    BY <1>2, <1>5, <1>6, PlanOfKey
  <1>8. SearchesAreSound'
    <2>1. Set(s, [pc |-> "planned", plan |-> p])
      BY <1>1, <1>3, <1>4, <1>6, <1>7
    <2> QED
      BY <1>2, <1>3, <1>7, <2>1, PlanIsTaken
  <1>9. memory' \in [Generations -> Seq(GoodPlans)]
    <2>1. PICK less \in Seq(GoodPlans) : less = RemoveAt(kept, i)
      BY <1>5, OneLess
    <2>2. Append(less, e) \in Seq(GoodPlans)
      BY <2>1
    <2>3. memory' = [memory EXCEPT ![g] = Append(less, e)]
      BY <1>1, <1>3, <1>4, <1>6, <2>1
    <2> QED
      BY <1>2, <2>2, <2>3
  <1> QED
    BY <1>2, <1>8, <1>9 DEF PipelineInv, CachesAreGood, Engines

\* _cached_plan from Redis: the fingerprint in the key is the engine's own.
LEMMA SharedPlanHitStep ==
  ASSUME PipelineInv, NEW s \in Searches, SharedPlanHit(s)
  PROVE  PipelineInv'
  <1>1. PICK e \in Found(sharedPlans, PlanKey(Gen(s), Query(s))) :
           /\ Set(s, [pc |-> "planned", plan |-> e.value])
           /\ memory' = [memory EXCEPT ![Gen(s)] =
                            Remember(@, PlanKey(Gen(s), Query(s)), e.value)]
    BY DEF SharedPlanHit
  <1>2. /\ SearchesAreSound /\ search[s].pc = "plan" /\ search[s].gen \in Generations
        /\ search[s].q \in Typed /\ memory \in [Generations -> Seq(GoodPlans)]
        /\ sharedPlans \subseteq GoodPlans
        /\ UNCHANGED <<current, revision, sharedPlans, results>>
    BY DEF SharedPlanHit, PipelineInv, CachesAreGood, SearchesAreSound, SearchIsSound
  <1>3. PICK g \in Generations : g = search[s].gen /\ g = Gen(s)
    BY <1>2 DEF Gen
  <1>4. PICK key : key = PlanKey(g, search[s].q)
    OBVIOUS
  <1>5. e \in GoodPlans /\ e.key = PlanKey(g, search[s].q)
    BY <1>1, <1>2, <1>3 DEF Found, Query
  <1>6. PICK p \in Plans : p = e.value /\ p.catalog = g /\ p.route # "fallback"
    BY <1>2, <1>5, PlanOfKey
  <1>7. SearchesAreSound'
    <2>1. Set(s, [pc |-> "planned", plan |-> p])
      BY <1>1, <1>6
    <2> QED
      BY <1>2, <1>3, <1>6, <2>1, PlanIsTaken
  <1>8. memory' \in [Generations -> Seq(GoodPlans)]
    <2>1. [key |-> key, value |-> p] \in GoodPlans
      BY <1>2, <1>4, <1>6, PlanOfKey
    <2>2. memory[g] \in Seq(GoodPlans)
      BY <1>2
    <2>3. Remember(memory[g], key, p) \in Seq(GoodPlans)
      BY <2>1, <2>2, RememberKeeps
    <2>4. memory' = [memory EXCEPT ![g] = Remember(memory[g], key, p)]
      BY <1>1, <1>3, <1>4, <1>6 DEF Query
    <2> QED
      BY <1>2, <2>3, <2>4
  <1> QED
    BY <1>2, <1>7, <1>8 DEF PipelineInv, CachesAreGood, Engines

\* No plan is found; the memory keeps the others.
LEMMA PlanMissStep ==
  ASSUME PipelineInv, NEW s \in Searches, PlanMiss(s)
  PROVE  PipelineInv'
  <1>1. /\ SearchesAreSound /\ search[s].pc = "plan" /\ Gen(s) \in Generations
        /\ memory \in [Generations -> Seq(GoodPlans)]
        /\ Set(s, [pc |-> "planning"])
        /\ UNCHANGED <<current, revision, sharedPlans, results>>
    BY DEF PlanMiss, PipelineInv, CachesAreGood, SearchesAreSound, SearchIsSound, Gen
  <1>2. memory' = [memory EXCEPT ![Gen(s)] =
                      Without(memory[Gen(s)], PlanKey(Gen(s), Query(s)))]
    BY DEF PlanMiss
  <1>3. Without(memory[Gen(s)], PlanKey(Gen(s), Query(s))) \in Seq(GoodPlans)
    <2>1. memory[Gen(s)] \in Seq(GoodPlans)
      BY <1>1
    <2> QED
      BY <2>1, WithoutKeeps
  <1>4. memory' \in [Generations -> Seq(GoodPlans)]
    BY <1>1, <1>2, <1>3
  <1>5. SearchesAreSound'
    <2>1. "planning" \notin {"rank", "store", "new"}
      OBVIOUS
    <2> QED
      BY <1>1, <2>1, OnlyTheStep
  <1> QED
    BY <1>1, <1>4, <1>5 DEF PipelineInv, CachesAreGood, Engines

\* A plan that is made is the engine's, and a default one is not cached.
LEMMA MakePlanStep ==
  ASSUME PipelineInv, NEW s \in Searches, MakePlan(s)
  PROVE  PipelineInv'
  <1>1. PICK route \in Routes, rewritten \in BOOLEAN :
           /\ Set(s, [pc |-> "planned",
                      plan |-> [catalog |-> Gen(s), route |-> route, rewritten |-> rewritten]])
           /\ CachePlan(s, [catalog |-> Gen(s), route |-> route, rewritten |-> rewritten])
    BY DEF MakePlan
  <1>2. /\ SearchesAreSound /\ search[s].pc = "planning" /\ search[s].gen \in Generations
        /\ search[s].q \in Typed /\ memory \in [Generations -> Seq(GoodPlans)]
        /\ sharedPlans \subseteq GoodPlans
        /\ UNCHANGED <<current, revision, results>>
    BY DEF MakePlan, PipelineInv, CachesAreGood, SearchesAreSound, SearchIsSound
  <1>3. PICK g \in Generations : g = search[s].gen /\ g = Gen(s)
    BY <1>2 DEF Gen
  <1>4. PICK p \in Plans : /\ p = [catalog |-> g, route |-> route, rewritten |-> rewritten]
                           /\ p.catalog = g
    <2>1. [catalog |-> g, route |-> route, rewritten |-> rewritten] \in Plans
      BY DEF Plans
    <2> QED
      BY <2>1
  <1>5. Set(s, [pc |-> "planned", plan |-> p]) /\ CachePlan(s, p)
    BY <1>1, <1>3, <1>4
  <1>6. SearchesAreSound'
    BY <1>2, <1>3, <1>4, <1>5, PlanIsTaken
  <1>7. memory' \in [Generations -> Seq(GoodPlans)] /\ sharedPlans' \subseteq GoodPlans
    <2>1. CASE p.route = "fallback"
      BY <1>2, <1>5, <2>1 DEF CachePlan
    <2>2. CASE p.route # "fallback"
      <3>1. PICK key : key = PlanKey(g, search[s].q)
        OBVIOUS
      <3>2. [key |-> key, value |-> p] \in GoodPlans
        BY <1>2, <1>4, <2>2, <3>1, PlanOfKey
      <3>3. /\ memory' = [memory EXCEPT ![g] = Remember(memory[g], key, p)]
            /\ sharedPlans' \in StoredIn(sharedPlans, key, p)
        BY <1>3, <1>5, <2>2, <3>1 DEF CachePlan, Query
      <3>4. Remember(memory[g], key, p) \in Seq(GoodPlans)
        <4>1. memory[g] \in Seq(GoodPlans)
          BY <1>2
        <4> QED
          BY <3>2, <4>1, RememberKeeps
      <3>5. sharedPlans' \subseteq GoodPlans
        BY <1>2, <3>2, <3>3, StoreKeeps
      <3> QED
        BY <1>2, <3>3, <3>4, <3>5
    <2> QED
      BY <2>1, <2>2
  <1> QED
    BY <1>2, <1>6, <1>7 DEF PipelineInv, CachesAreGood, Engines

\* What is read from the index of the engine.
LEMMA ReadFits ==
  ASSUME PipelineInv, NEW s \in Searches
  PROVE  /\ ReadResult(s) \in Results /\ ReadResult(s).gen = search[s].gen
         /\ ReadResult(s).rev <= revision[search[s].gen]
  <1>1. search[s].gen \in Generations /\ revision \in [Generations -> Nat]
    BY DEF PipelineInv, SearchesAreSound, SearchIsSound, Engines
  <1>2. PICK f \in {"none", "plan", "retrieval", "ranking"} :
           f = IF search[s].plan.route = "fallback" THEN "plan" ELSE "none"
    OBVIOUS
  <1>3. PICK v \in Nat : v = revision[search[s].gen]
    BY <1>1
  <1>4. ReadResult(s) = [gen |-> search[s].gen, rev |-> v, fault |-> f]
    BY <1>2, <1>3 DEF ReadResult, Gen
  <1>5. [gen |-> search[s].gen, rev |-> v, fault |-> f] \in Results
    BY <1>1 DEF Results
  <1> QED
    BY <1>3, <1>4, <1>5

\* A fault changes nothing of where a result was read.
LEMMA FaultyFits ==
  ASSUME NEW r \in Results, NEW f \in {"retrieval", "ranking"}
  PROVE  Faulty(r, f) \in Results /\ Faulty(r, f).gen = r.gen /\ Faulty(r, f).rev = r.rev
  <1>1. CASE r.fault = "none"
    <2>1. Faulty(r, f) = [r EXCEPT !.fault = f]
      BY <1>1 DEF Faulty
    <2>2. r = [gen |-> r.gen, rev |-> r.rev, fault |-> r.fault]
          /\ r.gen \in Generations /\ r.rev \in Nat
      BY DEF Results
    <2>3. [r EXCEPT !.fault = f] = [gen |-> r.gen, rev |-> r.rev, fault |-> f]
      BY <2>2
    <2>4. [gen |-> r.gen, rev |-> r.rev, fault |-> f] \in Results
      BY <2>2 DEF Results
    <2> QED
      BY <2>1, <2>3, <2>4
  <1>2. CASE r.fault # "none"
    BY <1>2 DEF Faulty
  <1> QED
    BY <1>1, <1>2

\* Both searches and the semantic path read the engine's own index.
LEMMA ReadingSteps ==
  ASSUME PipelineInv, NEW s \in Searches, Browse(s) \/ Retrieve(s) \/ FetchFails(s)
  PROVE  PipelineInv'
  <1>1. /\ SearchesAreSound /\ Engines /\ search[s].pc # "served" /\ revision' = revision
        /\ UNCHANGED <<current, revision, memory, sharedPlans, results>>
    BY DEF Browse, Retrieve, FetchFails, PipelineInv
  <1>2. PICK r \in Results : r = ReadResult(s) /\ r.gen = search[s].gen
                             /\ r.rev <= revision[search[s].gen]
    BY ReadFits
  <1>3. PICK x \in Results : x = Faulty(r, "retrieval") /\ x.gen = search[s].gen
                             /\ x.rev <= revision[search[s].gen]
    BY <1>2, FaultyFits
  <1>4. \/ Set(s, [pc |-> "store", plan |-> NoValue, result |-> r])
        \/ Set(s, [pc |-> "rank", plan |-> NoValue, result |-> r])
        \/ Set(s, [pc |-> "rank", plan |-> NoValue, result |-> x])
        \/ Set(s, [pc |-> "failed", plan |-> NoValue, result |-> NoValue])
    <2>1. CASE Browse(s)
      BY <1>2, <2>1 DEF Browse, Read
    <2>2. CASE FetchFails(s)
      BY <2>2 DEF FetchFails, End
    <2>3. CASE Retrieve(s)
      <3>1. PICK vector \in BOOLEAN, lexical \in BOOLEAN :
              Set(s, IF vector \/ lexical
                     THEN Read("rank", IF vector /\ lexical THEN r ELSE x)
                     ELSE End("failed"))
        BY <1>2, <1>3, <2>3 DEF Retrieve
      <3>2. CASE vector /\ lexical
        BY <3>1, <3>2 DEF Read
      <3>3. CASE (vector \/ lexical) /\ ~(vector /\ lexical)
        BY <3>1, <3>3 DEF Read
      <3>4. CASE ~(vector \/ lexical)
        BY <3>1, <3>4 DEF End
      <3> QED
        BY <3>2, <3>3, <3>4
    <2> QED
      BY <2>1, <2>2, <2>3
  <1>5. SearchesAreSound'
    <2>1. CASE Set(s, [pc |-> "store", plan |-> NoValue, result |-> r])
      BY <1>1, <1>2, <2>1, ResultIsRead
    <2>2. CASE Set(s, [pc |-> "rank", plan |-> NoValue, result |-> r])
      BY <1>1, <1>2, <2>2, ResultIsRead
    <2>3. CASE Set(s, [pc |-> "rank", plan |-> NoValue, result |-> x])
      BY <1>1, <1>3, <2>3, ResultIsRead
    <2>4. CASE Set(s, [pc |-> "failed", plan |-> NoValue, result |-> NoValue])
      BY <1>1, <2>4, ResultIsRead
    <2> QED
      BY <1>4, <2>1, <2>2, <2>3, <2>4
  <1> QED
    BY <1>1, <1>5 DEF PipelineInv, CachesAreGood, Engines

\* The ranking changes what went wrong, never where the result was read.
LEMMA RankStep ==
  ASSUME PipelineInv, NEW s \in Searches, Rank(s)
  PROVE  PipelineInv'
  <1>1. /\ SearchesAreSound /\ SearchIsSound(s) /\ search[s].pc = "rank"
        /\ UNCHANGED <<current, revision, memory, sharedPlans, results>>
    BY DEF Rank, PipelineInv, SearchesAreSound
  <1>2. Fits(s) /\ ~search[s].hit
    BY <1>1 DEF SearchIsSound
  <1>3. PICK r : r \in {search[s].result, Faulty(search[s].result, "ranking")}
                 /\ Set(s, [pc |-> "store", result |-> r])
    BY DEF Rank
  <1>4. r \in Results /\ r.gen = search[s].gen /\ r.rev <= revision[search[s].gen]
    BY <1>2, <1>3, FaultyFits DEF Fits
  <1> DEFINE c == [pc |-> "store", result |-> r]
  <1>5. DOMAIN c = {"pc", "result"} /\ c["pc"] = "store" /\ c["result"] = r /\ Set(s, c)
    BY <1>3
  <1> HIDE DEF c
  <1>6. /\ search' = [t \in Searches |-> search'[t]]
        /\ \A t \in Searches : t # s => search'[t] = search[t]
        /\ DOMAIN search'[s] = {"pc", "gen", "q", "plan", "result", "hit"}
        /\ \A f \in {"pc", "gen", "q", "plan", "result", "hit"} :
              search'[s][f] = IF f \in DOMAIN c THEN c[f] ELSE search[s][f]
    BY <1>1, <1>5, SetKeeps
  <1>7. /\ search'[s].pc = "store" /\ search'[s].gen = search[s].gen
        /\ search'[s].q = search[s].q /\ search'[s].plan = search[s].plan
        /\ search'[s].result = r /\ search'[s].hit = search[s].hit
    BY <1>5, <1>6
  <1>8. Fits(s)'
    BY <1>1, <1>4, <1>7 DEF Fits
  <1>9. SearchIsSound(s)'
    BY <1>1, <1>2, <1>6, <1>7, <1>8 DEF SearchIsSound
  <1>10. SearchesAreSound'
    BY <1>1, <1>6, <1>9, OthersAreSound
  <1> QED
    BY <1>1, <1>10 DEF PipelineInv, CachesAreGood, Engines

\* A result is kept under the key the index has by the time it is stored.
LEMMA StoreStep ==
  ASSUME PipelineInv, NEW s \in Searches, Store(s)
  PROVE  PipelineInv'
  <1>1. /\ SearchesAreSound /\ SearchIsSound(s) /\ search[s].pc = "store" /\ Engines
        /\ Set(s, [pc |-> "served", plan |-> NoValue, result |-> NoValue])
        /\ UNCHANGED <<current, revision, memory, sharedPlans>>
        /\ results \subseteq GoodResults
    BY DEF Store, PipelineInv, SearchesAreSound, End, CachesAreGood
  <1>2. SearchesAreSound'
    BY <1>1, ResultIsRead
  <1>3. Fits(s) /\ search[s].gen \in Generations /\ search[s].q \in Typed
    BY <1>1 DEF SearchIsSound
  <1>4. results' \subseteq GoodResults
    <2>1. CASE ~Cacheable(search[s].result)
      BY <1>1, <2>1 DEF Store
    <2>2. CASE Cacheable(search[s].result)
      <3>1. PICK v \in Results : v = search[s].result
        BY <1>3 DEF Fits
      <3>2. v.fault = "none" /\ v.gen = search[s].gen /\ v.rev <= revision[search[s].gen]
        BY <1>3, <2>2, <3>1 DEF Cacheable, Fits
      <3>3. revision[search[s].gen] \in Nat
        BY <1>1, <1>3 DEF Engines
      <3>4. PICK key \in ResultKeys : /\ key = ResultKey(Gen(s), Query(s))
                                      /\ key.gen = search[s].gen
                                      /\ key.rev = revision[search[s].gen]
        <4>1. PICK n \in Nat : n = revision[search[s].gen]
          BY <3>3
        <4>2. [gen |-> search[s].gen, rev |-> n, q |-> search[s].q] \in ResultKeys
          BY <1>3 DEF ResultKeys
        <4>3. ResultKey(Gen(s), Query(s)) = [gen |-> search[s].gen, rev |-> n, q |-> search[s].q]
          BY <4>1 DEF ResultKey, Gen, Query
        <4> QED
          BY <4>1, <4>2, <4>3
      <3>5. [key |-> key, value |-> v] \in GoodResults
        BY <3>2, <3>4 DEF GoodResults
      <3>6. results' \in StoredIn(results, key, v)
        BY <2>2, <3>1, <3>4 DEF Store
      <3> QED
        BY <1>1, <3>5, <3>6, StoreKeeps
    <2> QED
      BY <2>1, <2>2
  <1> QED
    BY <1>1, <1>2, <1>4 DEF PipelineInv, CachesAreGood, Engines

------------------------------------------------------------------------------
(* What happens around the searches.                                        *)

LEMMA OtherSteps ==
  ASSUME PipelineInv,
         \/ \E s \in Searches : Prefetch(s)
         \/ Promote \/ \E g \in Generations : Close(g)
         \/ UNCHANGED pipelineVars
  PROVE  PipelineInv'
  <1>1. UNCHANGED <<search, revision, memory, sharedPlans, results>>
        /\ (current' = current \/ current' \in Generations)
    BY DEF Prefetch, Launch, Embed, Embedded, Promote, Close, pipelineVars
  <1>2. SearchesAreSound'
    BY <1>1 DEF PipelineInv, SearchesAreSound, SearchIsSound, Fits
  <1> QED
    BY <1>1, <1>2 DEF PipelineInv, CachesAreGood, Engines

\* A revision only grows: what was read before is older.
LEMMA InPlaceIngestionStep ==
  ASSUME PipelineInv, NEW g \in Generations, InPlaceIngestion(g)
  PROVE  PipelineInv'
  <1>1. /\ UNCHANGED <<search, current, memory, sharedPlans, results>>
        /\ revision \in [Generations -> Nat]
        /\ revision' = [revision EXCEPT ![g] = @ + 1]
    BY DEF InPlaceIngestion, PipelineInv, Engines
  <1>2. /\ revision' \in [Generations -> Nat]
        /\ \A h \in Generations : revision[h] <= revision'[h]
    BY <1>1
  <1>3. \A s \in Searches : SearchIsSound(s)'
    <2> SUFFICES ASSUME NEW s \in Searches PROVE SearchIsSound(s)'
      OBVIOUS
    <2>1. SearchIsSound(s) /\ search[s].gen \in Generations
      BY DEF PipelineInv, SearchesAreSound, SearchIsSound
    <2>2. Fits(s) => Fits(s)'
      <3> SUFFICES ASSUME Fits(s) PROVE Fits(s)'
        OBVIOUS
      <3>1. search[s].result.rev \in Nat
        BY DEF Fits, Results
      <3>2. /\ search[s].result.rev <= revision[search[s].gen]
            /\ revision[search[s].gen] <= revision'[search[s].gen]
            /\ revision[search[s].gen] \in Nat /\ revision'[search[s].gen] \in Nat
        BY <1>1, <1>2, <2>1 DEF Fits
      <3>3. search[s].result.rev <= revision'[search[s].gen]
        BY <3>1, <3>2
      <3> QED
        BY <1>1, <3>3 DEF Fits
    <2> QED
      BY <1>1, <2>1, <2>2 DEF SearchIsSound
  <1> QED
    BY <1>1, <1>2, <1>3 DEF PipelineInv, SearchesAreSound, CachesAreGood, Engines

\* A restart ends the requests and the memory; the shared caches stay.
LEMMA RestartStep ==
  ASSUME PipelineInv, Restart
  PROVE  PipelineInv'
  <1>1. /\ UNCHANGED <<current, revision, sharedPlans, results>>
        /\ memory' = [g \in Generations |-> <<>>]
        /\ search' = [s \in Searches |->
              IF search[s].pc \in Ended \cup {"new"} THEN search[s]
              ELSE [search[s] EXCEPT !.pc = "failed", !.plan = NoValue, !.result = NoValue]]
    BY DEF Restart
  <1>2. memory' \in [Generations -> Seq(GoodPlans)]
    <2>1. <<>> \in Seq(GoodPlans)
      OBVIOUS
    <2> QED
      BY <1>1, <2>1
  <1>3. \A s \in Searches : SearchIsSound(s)'
    <2> SUFFICES ASSUME NEW s \in Searches PROVE SearchIsSound(s)'
      OBVIOUS
    <2>1. SearchIsSound(s)
      BY DEF PipelineInv, SearchesAreSound
    <2>2. CASE search[s].pc \in Ended \cup {"new"}
      <3>1. search'[s] = search[s]
        BY <1>1, <2>2
      <3> QED
        BY <1>1, <2>1, <3>1 DEF SearchIsSound, Fits
    <2>3. CASE ~(search[s].pc \in Ended \cup {"new"})
      <3>1. search'[s] = [search[s] EXCEPT !.pc = "failed", !.plan = NoValue, !.result = NoValue]
        BY <1>1, <2>3
      <3>2. /\ "pc" \in DOMAIN search[s] /\ "gen" \in DOMAIN search[s] /\ "q" \in DOMAIN search[s]
            /\ "plan" \in DOMAIN search[s] /\ "result" \in DOMAIN search[s]
            /\ "hit" \in DOMAIN search[s] /\ DOMAIN search'[s] = DOMAIN search[s]
        BY <2>1, <3>1 DEF SearchIsSound
      <3>3. /\ search'[s].pc = "failed" /\ search'[s].plan = NoValue /\ search'[s].result = NoValue
            /\ search'[s].gen = search[s].gen /\ search'[s].q = search[s].q
            /\ search'[s].hit = search[s].hit
        BY <3>1, <3>2
      <3>4. ~search[s].hit
        BY <2>1, <2>3 DEF SearchIsSound, Ended
      <3> QED
        BY <2>1, <3>2, <3>3, <3>4 DEF SearchIsSound
    <2> QED
      BY <2>2, <2>3
  <1>4. search' = [s \in Searches |-> search'[s]]
    BY <1>1
  <1> QED
    BY <1>1, <1>2, <1>3, <1>4 DEF PipelineInv, SearchesAreSound, CachesAreGood, Engines

\* The invariant holds in the initial states.
LEMMA InitPipeline == PipelineInit => PipelineInv
  <1> SUFFICES ASSUME PipelineInit PROVE PipelineInv
    OBVIOUS
  <1>1. Engines
    BY PipelineAssumption DEF PipelineInit, Engines
  <1>2. CachesAreGood
    BY DEF PipelineInit, CachesAreGood
  <1>3. /\ DOMAIN NewSearch = {"pc", "gen", "q", "plan", "result", "hit"}
        /\ NewSearch.pc = "new" /\ NewSearch.gen = 1 /\ NewSearch.q = NoValue
        /\ NewSearch.plan = NoValue /\ NewSearch.result = NoValue /\ NewSearch.hit = FALSE
    BY DEF NewSearch
  <1>4. \A s \in Searches : SearchIsSound(s)
    <2> SUFFICES ASSUME NEW s \in Searches PROVE SearchIsSound(s)
      OBVIOUS
    <2>1. search[s] = NewSearch
      BY DEF PipelineInit
    <2> QED
      BY <1>3, <2>1, PipelineAssumption DEF SearchIsSound, Typed
  <1> QED
    BY <1>1, <1>2, <1>4 DEF PipelineInv, SearchesAreSound, PipelineInit

\* Every step keeps the invariant.
LEMMA NextPipeline == PipelineInv /\ [PipelineNext]_pipelineVars => PipelineInv'
  <1> SUFFICES ASSUME PipelineInv, [PipelineNext]_pipelineVars PROVE PipelineInv'
    OBVIOUS
  <1>1. ASSUME NEW s \in Searches, Start(s) \/ Step(s) PROVE PipelineInv'
    <2>1. CASE Start(s) \/ ResultHit(s) \/ PlanHit(s) \/ SharedPlanHit(s)
      BY <2>1, StartStep, ResultHitStep, PlanHitStep, SharedPlanHitStep
    <2>2. CASE ResultMiss(s) \/ Route(s) \/ Await(s)
      BY <2>2, WalkingSteps
    <2>3. CASE PlanMiss(s) \/ MakePlan(s) \/ Rank(s) \/ Store(s)
      BY <2>3, PlanMissStep, MakePlanStep, RankStep, StoreStep
    <2>4. CASE Browse(s) \/ Retrieve(s) \/ FetchFails(s)
      BY <2>4, ReadingSteps
    <2> QED
      BY <1>1, <2>1, <2>2, <2>3, <2>4 DEF Step
  <1>2. CASE Restart
    BY <1>2, RestartStep
  <1>3. CASE \E g \in Generations : InPlaceIngestion(g)
    BY <1>3, InPlaceIngestionStep
  <1>4. CASE \/ \E s \in Searches : Prefetch(s)
             \/ Promote \/ \E g \in Generations : Close(g)
             \/ UNCHANGED pipelineVars
    BY <1>4, OtherSteps
  <1> QED
    BY <1>1, <1>2, <1>3, <1>4 DEF PipelineNext

\* _result_cache_key, _query_cache_key and what is stored under them: whatever is
\* promoted, restarted, ingested in place or fails while searches run, a search
\* uses only plans of its own engine's catalogue and results read from its own
\* index, and nothing degraded is given to another search.
THEOREM ReuseHolds == PipelineSpec => []ReuseIsSound
  <1>1. PipelineInv => ReuseIsSound
    <2> SUFFICES ASSUME PipelineInv PROVE ReuseIsSound
      OBVIOUS
    <2>1. \A s \in Searches : search[s].hit => search[s].result.fault = "none"
      BY DEF PipelineInv, SearchesAreSound, SearchIsSound
    <2>2. \A e \in sharedPlans : e.value.route # "fallback"
      BY DEF PipelineInv, CachesAreGood, GoodPlans
    <2>3. \A g \in Generations : \A i \in DOMAIN memory[g] : memory[g][i].value.route # "fallback"
      <3> SUFFICES ASSUME NEW g \in Generations, NEW i \in DOMAIN memory[g]
                   PROVE  memory[g][i].value.route # "fallback"
        OBVIOUS
      <3>1. memory[g] \in Seq(GoodPlans)
        BY DEF PipelineInv, CachesAreGood
      <3>2. memory[g][i] \in GoodPlans
        BY <3>1
      <3> QED
        BY <3>2 DEF GoodPlans
    <2>4. ReusedFitsEngine
      BY DEF PipelineInv, SearchesAreSound, SearchIsSound, Fits, ReusedFitsEngine, Gen
    <2> QED
      BY <2>1, <2>2, <2>3, <2>4 DEF ReuseIsSound, NothingDegradedIsReused
  <1> QED
    BY <1>1, InitPipeline, NextPipeline, PTL DEF PipelineSpec
=============================================================================
