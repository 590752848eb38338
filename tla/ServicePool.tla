---------------------------- MODULE ServicePool ----------------------------
(***************************************************************************)
(* TenantServicePool (api/tenants.py): the per-tenant search services of   *)
(* the API process, kept in LRU order and bounded by max_services, swapped *)
(* by the admin operations, and closed after a grace period once no search *)
(* is running on them.                                                     *)
(*                                                                         *)
(* A service is the number of its construction.  `get` holds _lock through *)
(* the whole lookup, build and eviction, so it is one step; it closes what *)
(* it collected after it has released the lock, and the caller starts to   *)
(* use (and to count as active on) the returned service later still.       *)
(*                                                                         *)
(* Time is kept as countdowns: Tick is one unit of time.monotonic().       *)
(***************************************************************************)
EXTENDS Naturals, FiniteSets, Sequences, SequencesExt

CONSTANTS
    Tenants,        \* companies of the registry
    Requests,       \* request threads of the API
    MaxServices,    \* API_TENANT_ENGINE_CACHE_SIZE
    Grace,          \* SERVICE_RETIRE_GRACE_SECONDS in ticks
    HandOff,        \* longest time, in ticks, between `get` and the start of
                    \* the search on the service it returned
    MaxBuilds       \* bound on the number of services built

ASSUME MaxServicesAssumption == MaxServices \in Nat \ {0}
ASSUME GraceAssumption == Grace \in Nat /\ HandOff \in Nat /\ HandOff < Grace
ASSUME MaxBuildsAssumption == MaxBuilds \in Nat

NoService == 0

VARIABLES
    routed,     \* _services: the service of each tenant, or NoService
    order,      \* _services: the loaded tenants, least recently used first
    retired,    \* _retired_services: service and time left of its grace
    built,      \* number of services built
    closed,     \* services whose close() has run
    failures,   \* _service_failures: tenants whose last build in `get` raised;
                \* readiness_checks reports those that are not loaded as down
    lost,       \* services that were collected for closing and never closed
    req,        \* request threads
    admin       \* the operation that holds _reload_lock (at most one) and the
                \* candidate it has built

vars == <<routed, order, retired, built, closed, failures, lost, req, admin>>

Service == 1 .. built

IdleReq == [pc |-> "idle", svc |-> NoService, age |-> 0, closing |-> {}]

TypeOK ==
    /\ routed \in [Tenants -> Nat]
    /\ order \in Seq(Tenants)
    /\ retired \in SUBSET [svc : Nat \ {NoService}, left : 0 .. Grace]
    /\ built \in Nat
    /\ closed \in SUBSET Nat
    /\ failures \in SUBSET Tenants
    /\ lost \in SUBSET Nat
    /\ req \in [Requests -> [pc : {"idle", "handoff", "active", "tail"}, svc : Nat,
                             age : 0 .. HandOff, closing : SUBSET Nat]]
    /\ admin \in SUBSET [tenant : Tenants, svc : Nat]

Init ==
    /\ routed = [t \in Tenants |-> NoService]
    /\ order = <<>>
    /\ retired = {}
    /\ built = 0
    /\ closed = {}
    /\ failures = {}
    /\ lost = {}
    /\ req = [r \in Requests |-> IdleReq]
    /\ admin = {}

-----------------------------------------------------------------------------
\* monitor_status()["active"] of service s.
ActiveOn(s) == {r \in Requests : req[r].pc = "active" /\ req[r].svc = s}

\* _collect_retired_locked: grace over and no search running.
Collectable(e) == e.left = 0 /\ ActiveOn(e.svc) = {}

Collected == {e.svc : e \in {x \in retired : Collectable(x)}}
Retained == {e \in retired : ~Collectable(e)}

\* Fault: a replaced service is closable at once.
Retire_NoGrace(services) == {[svc |-> s, left |-> 0] : s \in services}

\* _retire_locked.
Retire(services) == {[svc |-> s, left |-> Grace] : s \in services}

MoveToEnd(t) == Append(RemoveFirst(order, t), t)

HandOut(r, s) ==
    req' = [req EXCEPT ![r] = [pc |-> "handoff", svc |-> s, age |-> 0, closing |-> Collected]]

\* Fault: a hit returns before the retired services are looked at.
GetHit_SkipsCollect(r, t) ==
    /\ req[r].pc = "idle"
    /\ routed[t] # NoService
    /\ order' = MoveToEnd(t)
    /\ req' = [req EXCEPT ![r] = [IdleReq EXCEPT !.pc = "handoff", !.svc = routed[t]]]
    /\ UNCHANGED <<routed, retired, built, closed, failures, lost, admin>>

\* get, the tenant is loaded.
GetHit(r, t) ==
    /\ req[r].pc = "idle"
    /\ routed[t] # NoService
    /\ order' = MoveToEnd(t)
    /\ retired' = Retained
    /\ HandOut(r, routed[t])
    /\ UNCHANGED <<routed, built, closed, failures, lost, admin>>

\* popitem(last=False) as often as excess says, and _retire_locked.
Evict(longer, excess, t) ==
    LET evicted == {longer[i] : i \in 1 .. excess} IN
    /\ order' = SubSeq(longer, excess + 1, Len(longer))
    /\ routed' = [u \in Tenants |-> IF u = t THEN built + 1
                                    ELSE IF u \in evicted THEN NoService
                                    ELSE routed[u]]
    /\ retired' = Retained \cup Retire({routed[u] : u \in evicted})

\* Fault: one eviction per miss, an "if" for the "while".
Excess_One(n) == IF n > MaxServices THEN 1 ELSE 0

\* How many of n loaded services are too many.
Excess(n) == IF n > MaxServices THEN n - MaxServices ELSE 0

\* get, the tenant is not loaded: build on the active generation, insert, and
\* evict from the front while there are more than max_services.
GetMiss(r, t) ==
    /\ req[r].pc = "idle"
    /\ routed[t] = NoService
    /\ built < MaxBuilds
    /\ built' = built + 1
    /\ Evict(Append(order, t), Excess(Len(order) + 1), t)
    /\ failures' = failures \ {t}
    /\ HandOut(r, built + 1)
    /\ UNCHANGED <<closed, lost, admin>>

\* get, the build raises: the exception leaves with the lock, and what was
\* collected is in no list any more and is not closed.
GetFails(r, t) ==
    /\ req[r].pc = "idle"
    /\ routed[t] = NoService
    /\ retired' = Retained
    /\ failures' = failures \cup {t}
    /\ lost' = lost \cup Collected
    /\ UNCHANGED <<routed, order, built, closed, req, admin>>

\* get closes one of the services it collected, before it returns.
CloseOne(r) ==
    /\ req[r].pc = "handoff"
    /\ \E s \in req[r].closing :
         /\ closed' = closed \cup {s}
         /\ req' = [req EXCEPT ![r].closing = @ \ {s}]
    /\ UNCHANGED <<routed, order, retired, built, failures, lost, admin>>

\* run_engine_search counts the request as active ...
BeginSearch(r) ==
    /\ req[r].pc = "handoff"
    /\ req[r].closing = {}
    /\ req' = [req EXCEPT ![r].pc = "active", ![r].age = 0]
    /\ UNCHANGED <<routed, order, retired, built, closed, failures, lost, admin>>

\* ... or a request that needs no search (a cursor, a 503 at the gate, a
\* status call) is over.
NoSearch(r) ==
    /\ req[r].pc = "handoff"
    /\ req[r].closing = {}
    /\ req' = [req EXCEPT ![r] = IdleReq]
    /\ UNCHANGED <<routed, order, retired, built, closed, failures, lost, admin>>

\* The search is no longer counted; the response, the session and the
\* analytics event are still to be made.
EndSearch(r) ==
    /\ req[r].pc = "active"
    /\ req' = [req EXCEPT ![r].pc = "tail"]
    /\ UNCHANGED <<routed, order, retired, built, closed, failures, lost, admin>>

Respond(r) ==
    /\ req[r].pc = "tail"
    /\ req' = [req EXCEPT ![r] = IdleReq]
    /\ UNCHANGED <<routed, order, retired, built, closed, failures, lost, admin>>

-----------------------------------------------------------------------------
(* reload_generation, activate_candidate and rollback_generation treat the *)
(* pool alike: build outside _lock, then swap under it.                    *)

AdminBuild(t) ==
    /\ admin = {}
    /\ built < MaxBuilds
    /\ built' = built + 1
    /\ admin' = {[tenant |-> t, svc |-> built + 1]}
    /\ UNCHANGED <<routed, order, retired, closed, failures, lost, req>>

\* Not ready, or the manifest cannot be updated: the candidate is closed.
AdminRejects(a) ==
    /\ a \in admin
    /\ closed' = closed \cup {a.svc}
    /\ admin' = {}
    /\ UNCHANGED <<routed, order, retired, built, failures, lost, req>>

\* The swap retires the previous service and evicts nothing.
AdminSwap(a) ==
    /\ a \in admin
    /\ routed' = [routed EXCEPT ![a.tenant] = a.svc]
    /\ order' = MoveToEnd(a.tenant)
    /\ retired' = retired \cup Retire({routed[a.tenant]} \ {NoService})
    /\ admin' = {}
    /\ UNCHANGED <<built, closed, failures, lost, req>>

\* One unit of time.  Nobody holds a service for longer than HandOff before
\* the search on it begins.
Tick ==
    /\ \A r \in Requests : req[r].pc = "handoff" => req[r].age < HandOff
    /\ retired' = {[e EXCEPT !.left = IF @ > 0 THEN @ - 1 ELSE 0] : e \in retired}
    /\ req' = [r \in Requests |->
                 IF req[r].pc = "handoff" THEN [req[r] EXCEPT !.age = @ + 1] ELSE req[r]]
    /\ UNCHANGED <<routed, order, built, closed, failures, lost, admin>>

\* close(): the server has drained its requests before the lifespan ends.
Shutdown ==
    /\ \A r \in Requests : req[r].pc = "idle"
    /\ admin = {}
    /\ closed' = closed \cup ({routed[t] : t \in Tenants} \ {NoService})
                        \cup {e.svc : e \in retired}
    /\ routed' = [t \in Tenants |-> NoService]
    /\ order' = <<>>
    /\ retired' = {}
    /\ UNCHANGED <<built, failures, lost, req, admin>>

-----------------------------------------------------------------------------
RequestStep(r) == CloseOne(r) \/ BeginSearch(r) \/ NoSearch(r) \/ EndSearch(r) \/ Respond(r)

Get(r, t) == GetHit(r, t) \/ GetMiss(r, t) \/ GetFails(r, t)

Next ==
    \/ \E r \in Requests : RequestStep(r)
    \/ \E r \in Requests, t \in Tenants : Get(r, t)
    \/ \E t \in Tenants : AdminBuild(t)
    \/ \E a \in admin : AdminRejects(a) \/ AdminSwap(a)
    \/ Tick \/ Shutdown

Spec == Init /\ [][Next]_vars

\* Requests that are being served go on, time passes, and requests for some
\* tenant keep coming.
FairSpec ==
    /\ Spec
    /\ WF_vars(Tick)
    /\ \A r \in Requests : /\ WF_vars(RequestStep(r))
                           /\ WF_vars(\E t \in Tenants : Get(r, t))

-----------------------------------------------------------------------------
Routed == {routed[t] : t \in Tenants} \ {NoService}
Retired == {e.svc : e \in retired}
Closing == UNION {req[r].closing : r \in Requests}
Candidate == {a.svc : a \in admin}

\* "prevents another tenant's cache miss from closing that service in this
\* hand-off window or while a long search is still running" (_retire_locked):
\* a service that a request was just given, or is searching on, is neither
\* closed nor about to be closed.
NoCloseInUse ==
    \A r \in Requests : req[r].pc \in {"handoff", "active"} =>
        req[r].svc \notin closed \cup Closing \cup lost

\* Every service that was ever built is in exactly one place: routed for one
\* tenant, retired once, held by one admin operation, being closed by one
\* request, closed, or lost by a failed build in `get`.  So none is closed
\* twice, served after it was retired, or retired twice.
EachServiceInOnePlace ==
    /\ Routed \cup Retired \cup Candidate \cup Closing \cup closed \cup lost = Service
    /\ \A t, u \in Tenants : routed[t] = routed[u] /\ t # u => routed[t] = NoService
    /\ \A e, f \in retired : e.svc = f.svc => e = f
    /\ \A r, q \in Requests : r # q => req[r].closing \cap req[q].closing = {}
    /\ Routed \cap (Retired \cup Candidate \cup Closing \cup closed \cup lost) = {}
    /\ Retired \cap (Candidate \cup Closing \cup closed \cup lost) = {}
    /\ Candidate \cap (Closing \cup closed \cup lost) = {}
    /\ Closing \cap (closed \cup lost) = {}
    /\ closed \cap lost = {}

\* The LRU order lists exactly the loaded tenants, each once (part of the
\* inductive invariant): an eviction always finds a service to retire.
OrderListsLoaded ==
    /\ {order[i] : i \in DOMAIN order} = {t \in Tenants : routed[t] # NoService}
    /\ \A i, j \in DOMAIN order : order[i] = order[j] => i = j

\* What get, the admin operations and close keep between them: a service that
\* leaves _services is retired exactly once, is closed at most once, and not
\* while a request has it.
PoolIsConsistent ==
    /\ TypeOK
    /\ OrderListsLoaded
    /\ EachServiceInOnePlace
    /\ NoCloseInUse

\* Only a swap for a tenant that is not loaded can exceed max_services, and
\* the next cache miss brings the pool back to the bound.
MissRestoresBound ==
    [][ (\E t \in Tenants : routed[t] = NoService /\ routed'[t] # NoService)
          /\ admin' = admin => Len(order') <= MaxServices ]_vars

\* A retired service is closed once requests keep coming (or it is lost by a
\* failed build): its memory and its connections are given back.
RetiredIsClosed ==
    \A s \in 1 .. MaxBuilds : s \in Retired ~> s \in closed \cup lost

\* The class promises "an LRU memory bound".
PoolIsBounded == Len(order) <= MaxServices
=============================================================================
