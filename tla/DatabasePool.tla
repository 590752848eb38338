---------------------------- MODULE DatabasePool ----------------------------
(***************************************************************************)
(* A tenant engine's DatabaseConnectionPool (storage/database.py): request *)
(* threads check connections out, readiness requests validate the idle     *)
(* ones, and the end of the service closes the pool.                       *)
(*                                                                         *)
(* _lock covers only _created and _closed; the idle queue has its own lock *)
(* and is used between, and _closed is read without any.                   *)
(*                                                                         *)
(* A connection's health is not kept: at every test it may be found broken *)
(* or alive (a ping is skipped while the last validation is recent, so a   *)
(* broken one may pass), and every use may fail.  Which idle connection a  *)
(* caller gets does not matter here: the LifoQueue is a set.               *)
(***************************************************************************)
EXTENDS Naturals, FiniteSets

CONSTANTS
    Workers,    \* threads that use connection()
    Checkers,   \* readiness requests in validate_idle_connections
    Conns,      \* connection objects
    MinSize,    \* pool_min_size
    MaxSize,    \* pool_max_size
    None        \* no connection

ASSUME SizeAssumption == MinSize \in Nat /\ MaxSize \in Nat \ {0} /\ MinSize <= MaxSize
ASSUME ConnsAssumption == IsFiniteSet(Conns) /\ None \notin Conns
ASSUME PartiesAssumption ==
    IsFiniteSet(Workers) /\ IsFiniteSet(Checkers) /\ Workers \cap Checkers = {}

VARIABLES
    idle,       \* _idle
    created,    \* _created
    closed,     \* _closed
    open,       \* connections whose socket is open
    worker,     \* the checkouts
    checker,    \* the validations
    closer,     \* how far close() is
    late        \* connections that were put back after _closed was set

vars == <<idle, created, closed, open, worker, checker, closer, late>>

WorkerStates == {"idle", "get", "reserve", "connect", "wait", "check", "use", "put"}
CheckerStates == {"idle", "drain", "ping", "return", "put", "refill", "reserve",
                  "connect", "added", "putNew"}

IdleWorker == [pc |-> "idle", conn |-> None]
IdleChecker == [pc |-> "idle", drained |-> {}, healthy |-> {}, conn |-> None]

TypeOK ==
    /\ idle \in SUBSET Conns
    /\ created \in 0 .. MaxSize
    /\ closed \in BOOLEAN
    /\ open \in SUBSET Conns
    /\ worker \in [Workers -> [pc : WorkerStates, conn : Conns \cup {None}]]
    /\ checker \in [Checkers -> [pc : CheckerStates, drained : SUBSET Conns,
                                 healthy : SUBSET Conns, conn : Conns \cup {None}]]
    /\ closer \in {"open", "drain", "done"}
    /\ late \in SUBSET Conns

\* __init__ fills the pool up to its minimum.
Init ==
    /\ idle \in {C \in SUBSET Conns : Cardinality(C) = MinSize}
    /\ created = MinSize
    /\ closed = FALSE
    /\ open = idle
    /\ worker = [w \in Workers |-> IdleWorker]
    /\ checker = [k \in Checkers |-> IdleChecker]
    /\ closer = "open"
    /\ late = {}

-----------------------------------------------------------------------------
(* The counter and the sockets. *)

\* _reserve.
MayReserve == ~closed /\ created < MaxSize

\* _unreserve.
Unreserved == IF created > 0 THEN created - 1 ELSE 0

\* _discard.
Discard(c) ==
    /\ open' = open \ {c}
    /\ created' = Unreserved

\* _idle.put blocks at maxsize.
PutIdle(c) ==
    /\ Cardinality(idle) < MaxSize
    /\ idle' = idle \cup {c}
    /\ late' = IF closed THEN late \cup {c} ELSE late \ {c}

-----------------------------------------------------------------------------
(* connection(): _acquire, the caller's body, and the return. *)

Go(w, pc, c) == worker' = [worker EXCEPT ![w] = [pc |-> pc, conn |-> c]]

Checkout(w) ==
    /\ worker[w].pc = "idle"
    /\ Go(w, "get", None)
    /\ UNCHANGED <<idle, created, closed, open, checker, closer, late>>

\* get_nowait, or the blocking get: an idle connection is taken.
Get(w) ==
    /\ worker[w].pc \in {"get", "wait"}
    /\ \E c \in idle : idle' = idle \ {c} /\ Go(w, "check", c)
    /\ UNCHANGED <<created, closed, open, checker, closer, late>>

Miss(w) ==
    /\ worker[w].pc = "get"
    /\ idle = {}
    /\ Go(w, "reserve", None)
    /\ UNCHANGED <<idle, created, closed, open, checker, closer, late>>

Reserve(w) ==
    /\ worker[w].pc = "reserve"
    /\ IF MayReserve
       THEN created' = created + 1 /\ Go(w, "connect", None)
       ELSE UNCHANGED created /\ Go(w, "wait", None)
    /\ UNCHANGED <<idle, closed, open, checker, closer, late>>

Connect(w) ==
    /\ worker[w].pc = "connect"
    /\ \E c \in Conns \ open : open' = open \cup {c} /\ Go(w, "use", c)
    /\ UNCHANGED <<idle, created, closed, checker, closer, late>>

\* Fault: the slot of a connection that could not be opened is not given back.
ConnectFails_KeepsSlot(w) ==
    /\ worker[w].pc = "connect"
    /\ Go(w, "idle", None)
    /\ UNCHANGED <<idle, created, closed, open, checker, closer, late>>

ConnectFails(w) ==
    /\ worker[w].pc = "connect"
    /\ created' = Unreserved
    /\ Go(w, "idle", None)
    /\ UNCHANGED <<idle, closed, open, checker, closer, late>>

\* TimeoutError at the deadline.
WaitTimesOut(w) ==
    /\ worker[w].pc = "wait"
    /\ Go(w, "idle", None)
    /\ UNCHANGED <<idle, created, closed, open, checker, closer, late>>

\* _usable: in use, or discarded and the loop starts over.
CheckPasses(w) ==
    /\ worker[w].pc = "check"
    /\ Go(w, "use", worker[w].conn)
    /\ UNCHANGED <<idle, created, closed, open, checker, closer, late>>

CheckFails(w) ==
    /\ worker[w].pc = "check"
    /\ Discard(worker[w].conn)
    /\ Go(w, "get", None)
    /\ UNCHANGED <<idle, closed, checker, closer, late>>

\* The body raises, or ends on a connection that is not open any more, or on
\* a closed pool: the connection is discarded.
BodyRaises(w) ==
    /\ worker[w].pc = "use"
    /\ Discard(worker[w].conn)
    /\ Go(w, "idle", None)
    /\ UNCHANGED <<idle, closed, checker, closer, late>>

\* The body ends and _closed is read as False; the put is a step of its own.
BodyReturns(w) ==
    /\ worker[w].pc = "use"
    /\ ~closed
    /\ Go(w, "put", worker[w].conn)
    /\ UNCHANGED <<idle, created, closed, open, checker, closer, late>>

PutBack(w) ==
    /\ worker[w].pc = "put"
    /\ PutIdle(worker[w].conn)
    /\ Go(w, "idle", None)
    /\ UNCHANGED <<created, closed, open, checker, closer>>

-----------------------------------------------------------------------------
(* validate_idle_connections. *)

Become(k, state) == checker' = [checker EXCEPT ![k] = state]

ValidateBegin(k) ==
    /\ checker[k].pc = "idle"
    /\ Become(k, [IdleChecker EXCEPT !.pc = "drain"])
    /\ UNCHANGED <<idle, created, closed, open, worker, closer, late>>

\* get_nowait until the queue is empty.
Drain(k) ==
    /\ checker[k].pc = "drain"
    /\ \E c \in idle : /\ idle' = idle \ {c}
                       /\ Become(k, [checker[k] EXCEPT !.drained = @ \cup {c}])
    /\ UNCHANGED <<created, closed, open, worker, closer, late>>

DrainEnds(k) ==
    /\ checker[k].pc = "drain"
    /\ idle = {}
    /\ Become(k, [checker[k] EXCEPT !.pc = "ping"])
    /\ UNCHANGED <<idle, created, closed, open, worker, closer, late>>

PingPasses(k, c) ==
    /\ checker[k].pc = "ping"
    /\ c \in checker[k].drained
    /\ Become(k, [checker[k] EXCEPT !.drained = @ \ {c}, !.healthy = @ \cup {c}])
    /\ UNCHANGED <<idle, created, closed, open, worker, closer, late>>

PingFails(k, c) ==
    /\ checker[k].pc = "ping"
    /\ c \in checker[k].drained
    /\ Discard(c)
    /\ Become(k, [checker[k] EXCEPT !.drained = @ \ {c}])
    /\ UNCHANGED <<idle, closed, worker, closer, late>>

PingsEnd(k) ==
    /\ checker[k].pc = "ping"
    /\ checker[k].drained = {}
    /\ Become(k, [checker[k] EXCEPT !.pc = "return"])
    /\ UNCHANGED <<idle, created, closed, open, worker, closer, late>>

\* A healthy connection goes back unless the pool was closed meanwhile; again
\* the test and the put are two steps.
ReturnHealthy(k, c) ==
    /\ checker[k].pc = "return"
    /\ c \in checker[k].healthy
    /\ IF closed
       THEN Discard(c) /\ Become(k, [checker[k] EXCEPT !.healthy = @ \ {c}])
       ELSE /\ Become(k, [checker[k] EXCEPT !.pc = "put", !.healthy = @ \ {c}, !.conn = c])
            /\ UNCHANGED <<created, open>>
    /\ UNCHANGED <<idle, closed, worker, closer, late>>

PutHealthy(k) ==
    /\ checker[k].pc = "put"
    /\ PutIdle(checker[k].conn)
    /\ Become(k, [checker[k] EXCEPT !.pc = "return", !.conn = None])
    /\ UNCHANGED <<created, closed, open, worker, closer>>

\* The pool is below its minimum, or the validation ends.
Refill(k) ==
    /\ \/ checker[k].pc = "return" /\ checker[k].healthy = {}
       \/ checker[k].pc = "refill"
    /\ Become(k, IF ~closed /\ created < MinSize
                 THEN [IdleChecker EXCEPT !.pc = "reserve"]
                 ELSE IdleChecker)
    /\ UNCHANGED <<idle, created, closed, open, worker, closer, late>>

\* _create_reserved; "Database connection pool is full" ends the refill.
RefillReserve(k) ==
    /\ checker[k].pc = "reserve"
    /\ IF MayReserve
       THEN created' = created + 1 /\ Become(k, [IdleChecker EXCEPT !.pc = "connect"])
       ELSE UNCHANGED created /\ Become(k, IdleChecker)
    /\ UNCHANGED <<idle, closed, open, worker, closer, late>>

RefillConnect(k) ==
    /\ checker[k].pc = "connect"
    /\ \E c \in Conns \ open :
         /\ open' = open \cup {c}
         /\ Become(k, [IdleChecker EXCEPT !.pc = "added", !.conn = c])
    /\ UNCHANGED <<idle, created, closed, worker, closer, late>>

RefillFails(k) ==
    /\ checker[k].pc = "connect"
    /\ created' = Unreserved
    /\ Become(k, IdleChecker)
    /\ UNCHANGED <<idle, closed, open, worker, closer, late>>

RefillAdds(k) ==
    /\ checker[k].pc = "added"
    /\ IF closed
       THEN Discard(checker[k].conn) /\ Become(k, IdleChecker)
       ELSE Become(k, [checker[k] EXCEPT !.pc = "putNew"]) /\ UNCHANGED <<created, open>>
    /\ UNCHANGED <<idle, closed, worker, closer, late>>

PutNew(k) ==
    /\ checker[k].pc = "putNew"
    /\ PutIdle(checker[k].conn)
    /\ Become(k, [IdleChecker EXCEPT !.pc = "refill"])
    /\ UNCHANGED <<created, closed, open, worker, closer>>

-----------------------------------------------------------------------------
(* close(). *)

CloseBegin ==
    /\ closer = "open"
    /\ closed' = TRUE
    /\ closer' = "drain"
    /\ UNCHANGED <<idle, created, open, worker, checker, late>>

CloseDrain ==
    /\ closer = "drain"
    /\ \E c \in idle : idle' = idle \ {c} /\ Discard(c)
    /\ UNCHANGED <<closed, worker, checker, closer, late>>

CloseEnds ==
    /\ closer = "drain"
    /\ idle = {}
    /\ closer' = "done"
    /\ UNCHANGED <<idle, created, closed, open, worker, checker, late>>

-----------------------------------------------------------------------------
WorkerStep(w) ==
    \/ Checkout(w) \/ Get(w) \/ Miss(w) \/ Reserve(w) \/ Connect(w) \/ ConnectFails(w)
    \/ WaitTimesOut(w) \/ CheckPasses(w) \/ CheckFails(w)
    \/ BodyRaises(w) \/ BodyReturns(w) \/ PutBack(w)

CheckerStep(k) ==
    \/ ValidateBegin(k) \/ Drain(k) \/ DrainEnds(k) \/ PingsEnd(k) \/ PutHealthy(k)
    \/ \E c \in Conns : PingPasses(k, c) \/ PingFails(k, c) \/ ReturnHealthy(k, c)
    \/ Refill(k) \/ RefillReserve(k) \/ RefillConnect(k) \/ RefillFails(k)
    \/ RefillAdds(k) \/ PutNew(k)

Next ==
    \/ \E w \in Workers : WorkerStep(w)
    \/ \E k \in Checkers : CheckerStep(k)
    \/ CloseBegin \/ CloseDrain \/ CloseEnds

Spec == Init /\ [][Next]_vars

-----------------------------------------------------------------------------
\* What each party holds.
HeldBy(w) == {worker[w].conn} \ {None}
HeldIn(k) == checker[k].drained \cup checker[k].healthy \cup ({checker[k].conn} \ {None})
Held == UNION ({HeldBy(w) : w \in Workers} \cup {HeldIn(k) : k \in Checkers})

\* A connection that is open is idle or in the hands of one party: no two
\* requests ever share one, and one that was handed back is not used on.
OneHolder ==
    /\ open = idle \cup Held
    /\ idle \cap Held = {}
    /\ \A w, v \in Workers : w # v => HeldBy(w) \cap HeldBy(v) = {}
    /\ \A k, j \in Checkers : k # j => HeldIn(k) \cap HeldIn(j) = {}
    /\ \A w \in Workers, k \in Checkers : HeldBy(w) \cap HeldIn(k) = {}
    /\ \A k \in Checkers : /\ checker[k].drained \cap checker[k].healthy = {}
                           /\ checker[k].conn \notin checker[k].drained \cup checker[k].healthy

Connecting == {w \in Workers : worker[w].pc = "connect"} \cup
              {k \in Checkers : checker[k].pc = "connect"}

\* _created counts the open connections and the ones being opened, on every
\* path through errors, timeouts, validation and close: a slot is neither
\* lost for good nor given out twice.
CreatedIsExact == created = Cardinality(open) + Cardinality(Connecting)

\* The put of a returned connection finds room: the blocking put of a full
\* LifoQueue, which has no timeout, is never reached.
PutNeverBlocks ==
    (\/ \E w \in Workers : worker[w].pc = "put"
     \/ \E k \in Checkers : checker[k].pc \in {"put", "putNew"})
        => Cardinality(idle) < MaxSize

\* close() leaves no connection in the pool but those whose holder had read
\* _closed before it was set and put them back after the queue was emptied.
CloseDrains == closer = "done" => idle \subseteq late

\* The pool's books as a whole: what its operations keep between them, whatever
\* raises, times out or is closed in the middle.
PoolIsExact ==
    /\ TypeOK
    /\ OneHolder
    /\ CreatedIsExact
    /\ PutNeverBlocks
    /\ CloseDrains

\* "Validate every currently idle connection without blocking checkouts"
\* (validate_idle_connections): a checkout waits on a full pool only for other
\* checkouts.
ValidationBlocksNobody ==
    \A w \in Workers : worker[w].pc = "wait" /\ idle = {} /\ created = MaxSize =>
        \E v \in Workers : worker[v].conn # None \/ worker[v].pc = "connect"
=============================================================================
