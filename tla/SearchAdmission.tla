-------------------------- MODULE SearchAdmission --------------------------
(***************************************************************************)
(* How one tenant's ProductSearchService (api/service.py) lets searches    *)
(* in: the bounded capacity slots, the coalescing of identical searches,   *)
(* and the monitor counters.                                               *)
(*                                                                         *)
(* A "direct" request is _start_search: it calls run_engine_search, which  *)
(* takes a slot around the engine call.  A "compat" request is Gainr's     *)
(* filter_results: it takes a slot around the whole request and calls      *)
(* run_engine_search(capacity_acquired=True), or, for a deterministic      *)
(* plan, answers from the database without the engine.                     *)
(*                                                                         *)
(* Each request of Requests is made once.  An Event of _inflight_searches  *)
(* is named after the request that created it.  The consistency gate is    *)
(* read anew at every check and may be closed at any of them; what it      *)
(* protects is the subject of IndexGenerations.                            *)
(***************************************************************************)
EXTENDS Naturals, FiniteSets

CONSTANTS
    Requests,   \* requests made to this tenant
    Queries,    \* normalised query texts
    Slots,      \* max_concurrent_searches
    None        \* no Event

ASSUME SlotsAssumption == Slots \in Nat \ {0}
ASSUME RequestsAssumption == IsFiniteSet(Requests) /\ None \notin Requests

Kinds == {"direct", "compat"}

\* Fault: the key leaves out the keyword arguments.
CoalesceKey_QueryOnly(kind, query) == <<"direct", query>>

\* _coalesce_key: the query and the keyword arguments, which differ between
\* the two kinds (limit alone, or ranking_window, planned_result ... as well).
CoalesceKey(kind, query) == <<kind, query>>

VARIABLES
    req,        \* the requests
    free,       \* value of _search_slots
    inflight,   \* _inflight_searches
    signalled,  \* the Events that are set
    monitor     \* _monitor_active, _started, _completed, _failed, _rejected

vars == <<req, free, inflight, signalled, monitor>>

Keys == Kinds \X Queries

PCs == {"new", "outer", "plan", "register", "wait", "slot", "search",
        "ok", "raised", "signal", "leave", "hydrate", "answered"}

TypeOK ==
    /\ req \in [Requests -> [pc : PCs, kind : Kinds, query : Queries,
                             leader : Requests \cup {None}]]
    /\ free \in 0 .. Slots
    /\ inflight \in [Keys -> Requests \cup {None}]
    /\ signalled \in SUBSET Requests
    /\ monitor \in [active : Nat, started : Nat, completed : Nat,
                    failed : Nat, rejected : Nat]

Init ==
    /\ req \in [Requests -> [pc : {"new"}, kind : Kinds, query : Queries, leader : {None}]]
    /\ free = Slots
    /\ inflight = [k \in Keys |-> None]
    /\ signalled = {}
    /\ monitor = [active |-> 0, started |-> 0, completed |-> 0, failed |-> 0, rejected |-> 0]

Key(r) == CoalesceKey(req[r].kind, req[r].query)
Owner(r) == req[r].leader = r
Goto(r, pc) == req' = [req EXCEPT ![r].pc = pc]

-----------------------------------------------------------------------------
\* The first read of the gate, in run_engine_search or search_capacity_slot,
\* finds the index being refreshed.
GateRefuses(r) ==
    /\ req[r].pc = "new"
    /\ Goto(r, "answered")
    /\ UNCHANGED <<free, inflight, signalled, monitor>>

\* run_engine_search past its gate: the request counts as active.
CountStarted(r) ==
    /\ monitor' = [monitor EXCEPT !.active = @ + 1, !.started = @ + 1]
    /\ Goto(r, "register")

EnterDirect(r) ==
    /\ req[r].pc = "new" /\ req[r].kind = "direct"
    /\ CountStarted(r)
    /\ UNCHANGED <<free, inflight, signalled>>

\* filter_results: search_capacity_slot around the whole request.
EnterCompat(r) ==
    /\ req[r].pc = "new" /\ req[r].kind = "compat"
    /\ Goto(r, "outer")
    /\ UNCHANGED <<free, inflight, signalled, monitor>>

TakeOuterSlot(r) ==
    /\ req[r].pc = "outer"
    /\ free > 0
    /\ free' = free - 1
    /\ Goto(r, "plan")
    /\ UNCHANGED <<inflight, signalled, monitor>>

\* The plan is a deterministic filter: record_external_search counts it.
AnswerFromDatabase(r) ==
    /\ req[r].pc = "plan"
    /\ monitor' = [monitor EXCEPT !.started = @ + 1, !.completed = @ + 1]
    /\ Goto(r, "hydrate")
    /\ UNCHANGED <<free, inflight, signalled>>

EnterEngine(r) ==
    /\ req[r].pc = "plan"
    /\ CountStarted(r)
    /\ UNCHANGED <<free, inflight, signalled>>

\* Planning raises, the database filter raises, or the gate has closed.
PlanRaises(r) ==
    /\ req[r].pc = "plan"
    /\ Goto(r, "hydrate")
    /\ UNCHANGED <<free, inflight, signalled, monitor>>

\* The engine call comes next, for a direct request inside a slot.
Admitted(r) == IF req[r].kind = "compat" THEN "search" ELSE "slot"

\* Under _coalesce_lock: become the owner of the key, or follow its owner.
Register(r) ==
    /\ req[r].pc = "register"
    /\ IF inflight[Key(r)] = None
       THEN /\ inflight' = [inflight EXCEPT ![Key(r)] = r]
            /\ req' = [req EXCEPT ![r].pc = Admitted(r), ![r].leader = r]
       ELSE /\ req' = [req EXCEPT ![r].pc = "wait", ![r].leader = inflight[Key(r)]]
            /\ UNCHANGED inflight
    /\ UNCHANGED <<free, signalled, monitor>>

\* A follower searches for itself once the Event is set: the result cache
\* answers it when the owner succeeded.
Wake(r) ==
    /\ req[r].pc = "wait"
    /\ req[r].leader \in signalled
    /\ Goto(r, Admitted(r))
    /\ UNCHANGED <<free, inflight, signalled, monitor>>

TakeSlot(r) ==
    /\ req[r].pc = "slot"
    /\ free > 0
    /\ free' = free - 1
    /\ Goto(r, "search")
    /\ UNCHANGED <<inflight, signalled, monitor>>

\* The second read of the gate, in search_capacity_slot.
GateRaises(r) ==
    /\ req[r].pc = "slot"
    /\ Goto(r, "raised")
    /\ UNCHANGED <<free, inflight, signalled, monitor>>

\* The timeouts of the Event (at least 10 s) and of the slots.
TimesOut(r) ==
    /\ \/ req[r].pc = "wait" /\ req[r].leader \notin signalled
       \/ req[r].pc \in {"slot", "outer"} /\ free = 0
    /\ monitor' = [monitor EXCEPT !.rejected = @ + 1]
    /\ Goto(r, IF req[r].pc = "outer" THEN "answered" ELSE "raised")
    /\ UNCHANGED <<free, inflight, signalled>>

\* engine.search returns or raises; a direct request leaves its slot.
EngineReturns(r) ==
    /\ req[r].pc = "search"
    /\ \E outcome \in {"ok", "raised"} : Goto(r, outcome)
    /\ free' = IF req[r].kind = "direct" THEN free + 1 ELSE free
    /\ UNCHANGED <<inflight, signalled, monitor>>

\* The else and the except branches.
CountCompleted(r) ==
    /\ req[r].pc = "ok"
    /\ monitor' = [monitor EXCEPT !.completed = @ + 1]
    /\ Goto(r, "signal")
    /\ UNCHANGED <<free, inflight, signalled>>

\* Fault: the error path leaves without the finally block's first half.
CountFailed_SkipsSignal(r) ==
    /\ req[r].pc = "raised"
    /\ monitor' = [monitor EXCEPT !.failed = @ + 1]
    /\ Goto(r, "leave")
    /\ UNCHANGED <<free, inflight, signalled>>

CountFailed(r) ==
    /\ req[r].pc = "raised"
    /\ monitor' = [monitor EXCEPT !.failed = @ + 1]
    /\ Goto(r, "signal")
    /\ UNCHANGED <<free, inflight, signalled>>

\* finally: the owner withdraws its Event, if it is still the one that is
\* registered, and sets it, under _coalesce_lock ...
Signal(r) ==
    /\ req[r].pc = "signal"
    /\ IF Owner(r)
       THEN /\ inflight' = [inflight EXCEPT ![Key(r)] = IF @ = r THEN None ELSE @]
            /\ signalled' = signalled \cup {r}
       ELSE UNCHANGED <<inflight, signalled>>
    /\ Goto(r, "leave")
    /\ UNCHANGED <<free, monitor>>

\* ... and the request is no longer active.
Leave(r) ==
    /\ req[r].pc = "leave"
    /\ monitor' = [monitor EXCEPT !.active = @ - 1]
    /\ Goto(r, IF req[r].kind = "compat" THEN "hydrate" ELSE "answered")
    /\ UNCHANGED <<free, inflight, signalled>>

\* A compat request has hydrated its page, or an exception passes through:
\* search_capacity_slot gives the slot back.
ReleaseOuterSlot(r) ==
    /\ req[r].pc = "hydrate"
    /\ free' = free + 1
    /\ Goto(r, "answered")
    /\ UNCHANGED <<inflight, signalled, monitor>>

-----------------------------------------------------------------------------
\* The steps a request takes when the gate is open and nothing times out.
Proceed(r) ==
    \/ EnterDirect(r) \/ EnterCompat(r)
    \/ TakeOuterSlot(r) \/ AnswerFromDatabase(r) \/ EnterEngine(r) \/ PlanRaises(r)
    \/ Register(r) \/ Wake(r) \/ TakeSlot(r)
    \/ EngineReturns(r) \/ CountCompleted(r) \/ CountFailed(r)
    \/ Signal(r) \/ Leave(r) \/ ReleaseOuterSlot(r)

Refused(r) == GateRefuses(r) \/ GateRaises(r) \/ TimesOut(r)

Next == \E r \in Requests : Proceed(r) \/ Refused(r)

Spec == Init /\ [][Next]_vars

\* Request threads run.  No gate is assumed to close and no timeout to expire.
FairSpec == Spec /\ \A r \in Requests : WF_vars(Proceed(r))

-----------------------------------------------------------------------------
Searching == {r \in Requests : req[r].pc = "search"}

\* Where a compat request is inside its slot.
InsideOuter == {"plan", "register", "wait", "search", "ok", "raised", "signal",
                "leave", "hydrate"}

\* The requests that hold a slot.
Holders == {r \in Requests : IF req[r].kind = "compat" THEN req[r].pc \in InsideOuter
                                                       ELSE req[r].pc = "search"}

\* The slots bound the engine calls of a tenant, whichever of the two kinds
\* they come from, and every way out of a request gives its slot back:
\* BoundedSemaphore's count is exact at every moment.
SlotsBoundSearches ==
    /\ Searching \subseteq Holders
    /\ free + Cardinality(Holders) = Slots

\* Two identical searches run in the engine together only when at most one of
\* them is the owner: a follower starts after its owner's search has ended.
IdenticalSearchesFollow ==
    \A r, q \in Searching : r # q /\ Key(r) = Key(q) =>
        \/ req[r].leader \in signalled
        \/ req[q].leader \in signalled

\* An Event that is registered belongs to a request that is still on its way
\* to the finally block that sets it, and every follower waits for such an
\* Event: nobody waits for a request that has left, on any error path.
WaitedForIsRunning ==
    /\ \A k \in Keys : inflight[k] # None =>
         /\ Owner(inflight[k]) /\ Key(inflight[k]) = k
         /\ req[inflight[k]].pc \in {"slot", "search", "ok", "raised", "signal"}
    /\ \A r \in Requests : req[r].pc = "wait" =>
         req[r].leader \in signalled \/ inflight[Key(r)] = req[r].leader

\* A request that keeps a slot while it waits for an identical search waits
\* for one that has its slot already: the two waits cannot form a circle.
NoCircularWait ==
    \A r \in Requests : req[r].pc = "wait" /\ r \in Holders =>
        req[r].leader \in signalled \cup Holders

\* monitor_status: every search that was started is active, completed or
\* failed, and the active count that keeps a retired service open covers
\* every request between its two counting steps.
Uncounted == {r \in Requests : req[r].pc \in {"register", "wait", "slot", "search", "ok", "raised"}}
Active == Uncounted \cup {r \in Requests : req[r].pc \in {"signal", "leave"}}

MonitorBalances ==
    /\ monitor.started = monitor.completed + monitor.failed + Cardinality(Uncounted)
    /\ monitor.active = Cardinality(Active)

\* Every request is answered although no refusal is assumed to come: waiting
\* for slots and for identical searches makes progress by itself.
EveryRequestAnswered == \A r \in Requests : <>(req[r].pc = "answered")

\* What holds between the threads at every moment, on every error path: slots,
\* identical searches, Events and counters.
AdmissionInv ==
    /\ TypeOK
    /\ SlotsBoundSearches
    /\ IdenticalSearchesFollow
    /\ WaitedForIsRunning
    /\ MonitorBalances
=============================================================================
