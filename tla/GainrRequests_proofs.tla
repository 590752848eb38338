------------------------ MODULE GainrRequests_proofs ------------------------
(***************************************************************************)
(* For any pool size, threads and readiness requests: the books of a       *)
(* tenant's connection pool are exact, and every step of the GAINR service *)
(* is one of the pool's operations or leaves the pool alone.               *)
(*                                                                         *)
(* PoolIsExact is not inductive: it does not say at which points a party   *)
(* holds what.  HoldsWhatItHas does.  The two kinds of party do the same   *)
(* to the pool, which is what Effect says; the pool's invariant follows    *)
(* from the effects alone.                                                 *)
(*                                                                         *)
(* Every search is recorded once: what it has left is counted over the     *)
(* events, the refused events, the queue and the job in hand.              *)
(*                                                                         *)
(* Recent searches survive each other: what prepending makes of a list is  *)
(* proved from the order of the positions that stay.                       *)
(*                                                                         *)
(* Answers: what the statements test of a row is what the request asks of  *)
(* it, filter by filter; a thread's finished statements have found what a  *)
(* resting catalog has, and rows that were on sale since the request began *)
(* otherwise.                                                              *)
(*                                                                         *)
(* Diagnostics: the labels that block and those still to be counted make   *)
(* up the labels that recover something.                                   *)
(***************************************************************************)
EXTENDS GainrRequests, FiniteSetTheorems, FunctionTheorems, SequenceTheorems, TLAPS

Parties == Workers \cup Checkers

\* What a party holds, and whether it is opening a connection.
Hold(p) == IF p \in Workers THEN HeldBy(p) ELSE HeldIn(p)

\* An open connection is idle or with exactly one party.
PartiesHold ==
    /\ idle \subseteq open
    /\ \A p \in Parties : Hold(p) \subseteq open /\ Hold(p) \cap idle = {}
    /\ \A c \in open : c \in idle \/ \E p \in Parties : c \in Hold(p)
    /\ \A p, q1 \in Parties : p # q1 => Hold(p) \cap Hold(q1) = {}

\* At which points a party has a connection in hand.
HoldsWhatItHas ==
    /\ \A w \in Workers : worker[w].conn # None <=> worker[w].pc \in {"check", "use", "put"}
    /\ \A k \in Checkers :
         /\ checker[k].conn # None <=> checker[k].pc \in {"put", "added", "putNew"}
         /\ checker[k].drained # {} => checker[k].pc \in {"drain", "ping"}
         /\ checker[k].healthy # {} => checker[k].pc \in {"ping", "return", "put"}
         /\ checker[k].drained \cap checker[k].healthy = {}
         /\ checker[k].conn \notin checker[k].drained \cup checker[k].healthy

\* The inductive invariant.
PoolIInv ==
    /\ TypeOK /\ HoldsWhatItHas /\ PartiesHold /\ CreatedIsExact /\ CloseDrains
    /\ closed = (closer # "open")

USE SizeAssumption, ConnsAssumption, PartiesAssumption
-----------------------------------------------------------------------------
(* Sets and their sizes. *)

\* Two subsets of a finite set that agree but at x differ by one at most.
LEMMA CountOne ==
    ASSUME NEW U, IsFiniteSet(U), NEW S \in SUBSET U, NEW T \in SUBSET U, NEW r,
           \A x \in U \ {r} : x \in S <=> x \in T
    PROVE  /\ Cardinality(S) \in Nat /\ Cardinality(T) \in Nat
           /\ (r \in S <=> r \in T) => Cardinality(T) = Cardinality(S)
           /\ r \notin S /\ r \in T => Cardinality(T) = Cardinality(S) + 1
           /\ r \in S /\ r \notin T => Cardinality(S) = Cardinality(T) + 1
<1>1. IsFiniteSet(S) /\ IsFiniteSet(T)
    BY FS_Subset
<1>2. Cardinality(S) \in Nat /\ Cardinality(T) \in Nat
    BY <1>1, FS_CardinalityType
<1>3. (r \in S <=> r \in T) => T = S
    OBVIOUS
<1>4. ASSUME r \notin S, r \in T PROVE Cardinality(T) = Cardinality(S) + 1
  <2>1. T = S \cup {r}
    BY <1>4
  <2>2. QED
    BY <1>1, <1>4, <2>1, FS_AddElement
<1>5. ASSUME r \in S, r \notin T PROVE Cardinality(S) = Cardinality(T) + 1
  <2>1. S = T \cup {r}
    BY <1>5
  <2>2. QED
    BY <1>1, <1>5, <2>1, FS_AddElement
<1>6. QED
    BY <1>2, <1>3, <1>4, <1>5

\* The parties.
LEMMA PartyFacts ==
    /\ IsFiniteSet(Parties) /\ Connecting \in SUBSET Parties
    /\ \A w \in Workers : Hold(w) = HeldBy(w) /\ (w \in Connecting <=> worker[w].pc = "connect")
    /\ \A k \in Checkers : Hold(k) = HeldIn(k) /\ (k \in Connecting <=> checker[k].pc = "connect")
<1>1. IsFiniteSet(Parties)
    BY FS_Union DEF Parties
<1>2. QED
    BY <1>1 DEF Parties, Connecting, Hold

-----------------------------------------------------------------------------
(* What a party does to the pool. *)

\* Only p moves.
Alone(p) == \A x \in Parties \ {p} : /\ Hold(x)' = Hold(x)
                                     /\ x \in Connecting' <=> x \in Connecting

Still(p) == p \in Connecting' <=> p \in Connecting

Keeps(p) ==
    /\ Hold(p)' = Hold(p)
    /\ UNCHANGED <<idle, open, late>>
    /\ \/ Still(p) /\ UNCHANGED created
       \/ p \notin Connecting /\ p \in Connecting' /\ MayReserve /\ created' = created + 1
       \/ p \in Connecting /\ p \notin Connecting' /\ created' = Unreserved

Takes(p) ==
    \E c \in idle : /\ Hold(p)' = Hold(p) \cup {c}
                    /\ idle' = idle \ {c}
                    /\ Still(p) /\ UNCHANGED <<created, open, late>>

Puts(p) ==
    \E c \in Hold(p) : /\ Hold(p)' = Hold(p) \ {c}
                       /\ PutIdle(c)
                       /\ Still(p) /\ UNCHANGED <<created, open>>

Opens(p) ==
    \E c \in Conns \ open : /\ Hold(p)' = Hold(p) \cup {c}
                            /\ open' = open \cup {c}
                            /\ p \in Connecting /\ p \notin Connecting'
                            /\ UNCHANGED <<idle, created, late>>

Drops(p) ==
    \E c \in Hold(p) : /\ Hold(p)' = Hold(p) \ {c}
                       /\ Discard(c)
                       /\ Still(p) /\ UNCHANGED <<idle, late>>

Effect(p) == Keeps(p) \/ Takes(p) \/ Puts(p) \/ Opens(p) \/ Drops(p)

\* The part of the invariant that does not look into a party.
Books ==
    /\ idle \in SUBSET Conns /\ open \in SUBSET Conns /\ late \in SUBSET Conns
    /\ created \in 0 .. MaxSize
    /\ PartiesHold /\ CreatedIsExact /\ CloseDrains
    /\ closed \in BOOLEAN /\ closed = (closer # "open")

\* A connection that is opened or discarded changes the number of open ones by
\* one, a party that begins or ends to connect the number of those.
LEMMA EffectCounts ==
    ASSUME Books, NEW p \in Parties, Alone(p), Effect(p)
    PROVE  CreatedIsExact' /\ created' \in 0 .. MaxSize
<1> DEFINE n == Cardinality(open)
           m == Cardinality(open')
           a == Cardinality(Connecting)
           b == Cardinality(Connecting')
<1>1. created = n + a /\ created \in 0 .. MaxSize /\ open \in SUBSET Conns
    BY DEF Books, CreatedIsExact
<1>2. Connecting \in SUBSET Parties /\ Connecting' \in SUBSET Parties /\ IsFiniteSet(Parties)
  <2>1. Connecting' \in SUBSET Parties
    BY DEF Connecting, Parties
  <2>2. QED
    BY <2>1, PartyFacts
<1>3. /\ a \in Nat /\ b \in Nat /\ (Still(p) => b = a)
      /\ p \notin Connecting /\ p \in Connecting' => b = a + 1
      /\ p \in Connecting /\ p \notin Connecting' => a = b + 1
    BY <1>2, CountOne DEF Alone, Still
<1>4. n \in Nat
    BY <1>1, FS_Subset, FS_CardinalityType
<1>5. ASSUME open' = open PROVE m = n
    BY <1>5
<1>6. ASSUME NEW c \in Conns \ open, open' = open \cup {c} PROVE m = n + 1
    BY <1>1, <1>6, FS_Subset, FS_AddElement
<1>7. ASSUME NEW c \in open, open' = open \ {c} PROVE n = m + 1 /\ m \in Nat
  <2>1. open' \in SUBSET Conns /\ c \notin open' /\ \A x \in Conns \ {c} : x \in open' <=> x \in open
    BY <1>1, <1>7
  <2>2. QED
    BY <1>1, <1>7, <2>1, CountOne
<1>8. SUFFICES created' = m + b /\ created' \in 0 .. MaxSize
    BY DEF CreatedIsExact
<1> HIDE DEF n, m, a, b
<1>9. CASE Keeps(p)
    BY <1>1, <1>3, <1>4, <1>5, <1>9 DEF Keeps, MayReserve, Unreserved
<1>10. CASE Takes(p) \/ Puts(p)
    BY <1>1, <1>3, <1>5, <1>10 DEF Takes, Puts
<1>11. CASE Opens(p)
    BY <1>1, <1>3, <1>4, <1>6, <1>11 DEF Opens
<1>12. CASE Drops(p)
  <2>1. PICK c \in Hold(p) : Discard(c) /\ Still(p)
    BY <1>12 DEF Drops
  <2>2. c \in open
    BY <2>1 DEF Books, PartiesHold
  <2>3. QED
    BY <1>1, <1>3, <1>4, <1>7, <2>1, <2>2 DEF Discard, Unreserved
<1>13. QED
    BY <1>9, <1>10, <1>11, <1>12 DEF Effect

\* A connection passes between the queue, one party and the outside.
LEMMA EffectHolds ==
    ASSUME Books, NEW p \in Parties, Alone(p), Effect(p)
    PROVE  /\ PartiesHold'
           /\ idle' \in SUBSET Conns /\ open' \in SUBSET Conns
<1>1. /\ idle \subseteq open
      /\ \A x \in Parties : Hold(x) \subseteq open /\ Hold(x) \cap idle = {}
      /\ \A c \in open : c \in idle \/ \E x \in Parties : c \in Hold(x)
      /\ \A x, y \in Parties : x # y => Hold(x) \cap Hold(y) = {}
      /\ idle \in SUBSET Conns /\ open \in SUBSET Conns
    BY DEF Books, PartiesHold
<1>2. \A x \in Parties \ {p} : Hold(x)' = Hold(x)
    BY DEF Alone
<1>3. CASE Keeps(p)
    BY <1>1, <1>2, <1>3 DEF Keeps, PartiesHold
<1>4. CASE Takes(p)
  <2>1. PICK c \in idle : Hold(p)' = Hold(p) \cup {c} /\ idle' = idle \ {c} /\ open' = open
    BY <1>4 DEF Takes
  <2>2. QED
    BY <1>1, <1>2, <2>1 DEF PartiesHold
<1>5. CASE Puts(p)
  <2>1. PICK c \in Hold(p) : Hold(p)' = Hold(p) \ {c} /\ idle' = idle \cup {c} /\ open' = open
    BY <1>5 DEF Puts, PutIdle
  <2>2. QED
    BY <1>1, <1>2, <2>1 DEF PartiesHold
<1>6. CASE Opens(p)
  <2>1. PICK c \in Conns \ open : Hold(p)' = Hold(p) \cup {c} /\ idle' = idle /\ open' = open \cup {c}
    BY <1>6 DEF Opens
  <2>2. QED
    BY <1>1, <1>2, <2>1 DEF PartiesHold
<1>7. CASE Drops(p)
  <2>1. PICK c \in Hold(p) : Hold(p)' = Hold(p) \ {c} /\ idle' = idle /\ open' = open \ {c}
    BY <1>7 DEF Drops, Discard
  <2>2. QED
    BY <1>1, <1>2, <2>1 DEF PartiesHold
<1>8. QED
    BY <1>3, <1>4, <1>5, <1>6, <1>7 DEF Effect

\* After close() has emptied the queue only late connections come back.
LEMMA EffectBooks ==
    ASSUME Books, NEW p \in Parties, Alone(p), Effect(p), UNCHANGED <<closed, closer>>
    PROVE  Books'
<1>1. late' \in SUBSET Conns /\ CloseDrains'
  <2>1. CASE Puts(p)
    <3>1. PICK c \in Hold(p) : PutIdle(c)
      BY <2>1 DEF Puts
    <3>2. c \in Conns
      BY <3>1 DEF Books, PartiesHold
    <3>3. QED
      BY <3>1, <3>2 DEF PutIdle, Books, CloseDrains
  <2>2. CASE Keeps(p) \/ Takes(p) \/ Opens(p) \/ Drops(p)
    BY <2>2 DEF Keeps, Takes, Opens, Drops, Books, CloseDrains
  <2>3. QED
    BY <2>1, <2>2 DEF Effect
<1>2. QED
    BY <1>1, EffectCounts, EffectHolds DEF Books
-----------------------------------------------------------------------------
(* connection(). *)

\* A thread goes on with a connection in hand, or without one.
LEMMA GoMoves ==
    ASSUME TypeOK, HoldsWhatItHas, NEW w \in Workers, NEW pc \in WorkerStates,
           NEW c \in Conns \cup {None}, Go(w, pc, c), checker' = checker,
           c # None <=> pc \in {"check", "use", "put"}
    PROVE  /\ worker' \in [Workers -> [pc : WorkerStates, conn : Conns \cup {None}]]
           /\ HoldsWhatItHas' /\ Alone(w)
           /\ Hold(w)' = {c} \ {None} /\ (w \in Connecting' <=> pc = "connect")
<1>1. worker' = [worker EXCEPT ![w] = [pc |-> pc, conn |-> c]]
    BY DEF Go
<1>2. /\ worker'[w] = [pc |-> pc, conn |-> c]
      /\ \A x \in Workers \ {w} : worker'[x] = worker[x]
      /\ worker' \in [Workers -> [pc : WorkerStates, conn : Conns \cup {None}]]
    BY <1>1 DEF TypeOK
<1>3. HoldsWhatItHas'
    BY <1>2 DEF HoldsWhatItHas
<1>4. Alone(w)
    BY <1>2 DEF Alone, Parties, Hold, HeldBy, HeldIn, Connecting
<1>5. Hold(w)' = {c} \ {None} /\ (w \in Connecting' <=> pc = "connect")
    BY <1>2 DEF Hold, HeldBy, Connecting
<1>6. QED
    BY <1>2, <1>3, <1>4, <1>5

\* What a thread has in hand where it is.
LEMMA WorkerHas ==
    ASSUME TypeOK, HoldsWhatItHas, NEW w \in Workers
    PROVE  /\ Hold(w) = {worker[w].conn} \ {None}
           /\ w \in Connecting <=> worker[w].pc = "connect"
           /\ worker[w].conn \in Conns \cup {None}
           /\ worker[w].pc \in {"check", "use", "put"} => worker[w].conn \in Conns
           /\ worker[w].pc \notin {"check", "use", "put"} => Hold(w) = {}
           /\ w \in Parties
BY PartyFacts DEF TypeOK, HoldsWhatItHas, HeldBy, Parties

\* Every step of connection() is one of the effects.
LEMMA WorkerEffect ==
    ASSUME PoolIInv, NEW w \in Workers, WorkerStep(w)
    PROVE  /\ worker' \in [Workers -> [pc : WorkerStates, conn : Conns \cup {None}]]
           /\ HoldsWhatItHas' /\ Alone(w) /\ Effect(w)
           /\ UNCHANGED <<closed, closer, checker>>
<1>0. /\ TypeOK /\ HoldsWhatItHas /\ idle \in SUBSET Conns
    BY DEF PoolIInv, TypeOK
<1>1. CASE Checkout(w)
  <2>1. Go(w, "get", None) /\ worker[w].pc = "idle"
        /\ UNCHANGED <<idle, created, closed, open, checker, closer, late>>
    BY <1>1 DEF Checkout
  <2>2. /\ worker' \in [Workers -> [pc : WorkerStates, conn : Conns \cup {None}]]
        /\ HoldsWhatItHas' /\ Alone(w)
        /\ Hold(w)' = {} /\ w \notin Connecting'
    BY <1>0, <2>1, GoMoves DEF WorkerStates
  <2>3. Hold(w) = {} /\ w \notin Connecting
    BY <1>0, <2>1, WorkerHas
  <2>4. QED
    BY <2>1, <2>2, <2>3 DEF Effect, Keeps, Still
<1>2. CASE Get(w)
  <2>1. PICK c \in idle : idle' = idle \ {c} /\ Go(w, "check", c)
    BY <1>2 DEF Get
  <2>2. worker[w].pc \in {"get", "wait"} /\ UNCHANGED <<created, closed, open, checker, closer, late>>
    BY <1>2 DEF Get
  <2>3. c \in Conns /\ c # None
    BY <1>0
  <2>4. QED
    BY <1>0, <2>1, <2>2, <2>3, GoMoves, WorkerHas DEF WorkerStates, Effect, Takes, Still
<1>3. CASE Miss(w)
  <2>1. Go(w, "reserve", None) /\ worker[w].pc = "get"
        /\ UNCHANGED <<idle, created, closed, open, checker, closer, late>>
    BY <1>3 DEF Miss
  <2>2. /\ worker' \in [Workers -> [pc : WorkerStates, conn : Conns \cup {None}]]
        /\ HoldsWhatItHas' /\ Alone(w)
        /\ Hold(w)' = {} /\ w \notin Connecting'
    BY <1>0, <2>1, GoMoves DEF WorkerStates
  <2>3. Hold(w) = {} /\ w \notin Connecting
    BY <1>0, <2>1, WorkerHas
  <2>4. QED
    BY <2>1, <2>2, <2>3 DEF Effect, Keeps, Still
<1>4. CASE Reserve(w)
  <2>1. worker[w].pc = "reserve" /\ UNCHANGED <<idle, closed, open, checker, closer, late>>
    BY <1>4 DEF Reserve
  <2>2. CASE MayReserve
    <3>1. created' = created + 1 /\ Go(w, "connect", None)
      BY <1>4, <2>2 DEF Reserve
    <3>2. QED
      BY <1>0, <2>1, <2>2, <3>1, GoMoves, WorkerHas DEF WorkerStates, Effect, Keeps
  <2>3. CASE ~MayReserve
    <3>1. created' = created /\ Go(w, "wait", None)
      BY <1>4, <2>3 DEF Reserve
    <3>2. /\ worker' \in [Workers -> [pc : WorkerStates, conn : Conns \cup {None}]]
          /\ HoldsWhatItHas' /\ Alone(w)
          /\ Hold(w)' = {} /\ w \notin Connecting'
      BY <1>0, <2>1, <3>1, GoMoves DEF WorkerStates
    <3>3. Hold(w) = {} /\ w \notin Connecting
      BY <1>0, <2>1, <3>1, WorkerHas
    <3>4. QED
      BY <2>1, <3>1, <3>2, <3>3 DEF Effect, Keeps, Still
  <2>4. QED
    BY <2>2, <2>3
<1>5. CASE Connect(w)
  <2>1. PICK c \in Conns \ open : open' = open \cup {c} /\ Go(w, "use", c)
    BY <1>5 DEF Connect
  <2>2. worker[w].pc = "connect" /\ UNCHANGED <<idle, created, closed, checker, closer, late>>
    BY <1>5 DEF Connect
  <2>3. QED
    BY <1>0, <2>1, <2>2, GoMoves, WorkerHas DEF WorkerStates, Effect, Opens
<1>6. CASE ConnectFails(w)
  <2>1. worker[w].pc = "connect" /\ created' = Unreserved /\ Go(w, "idle", None)
        /\ UNCHANGED <<idle, closed, open, checker, closer, late>>
    BY <1>6 DEF ConnectFails
  <2>2. /\ worker' \in [Workers -> [pc : WorkerStates, conn : Conns \cup {None}]]
        /\ HoldsWhatItHas' /\ Alone(w)
        /\ Hold(w)' = {} /\ w \notin Connecting'
    BY <1>0, <2>1, GoMoves DEF WorkerStates
  <2>3. Hold(w) = {} /\ w \in Connecting
    BY <1>0, <2>1, WorkerHas
  <2>4. QED
    BY <2>1, <2>2, <2>3 DEF Effect, Keeps, Still
<1>7. CASE WaitTimesOut(w)
  <2>1. Go(w, "idle", None) /\ worker[w].pc = "wait"
        /\ UNCHANGED <<idle, created, closed, open, checker, closer, late>>
    BY <1>7 DEF WaitTimesOut
  <2>2. /\ worker' \in [Workers -> [pc : WorkerStates, conn : Conns \cup {None}]]
        /\ HoldsWhatItHas' /\ Alone(w)
        /\ Hold(w)' = {} /\ w \notin Connecting'
    BY <1>0, <2>1, GoMoves DEF WorkerStates
  <2>3. Hold(w) = {} /\ w \notin Connecting
    BY <1>0, <2>1, WorkerHas
  <2>4. QED
    BY <2>1, <2>2, <2>3 DEF Effect, Keeps, Still
<1>8. CASE CheckPasses(w)
  <2>1. Go(w, "use", worker[w].conn) /\ worker[w].pc = "check"
        /\ UNCHANGED <<idle, created, closed, open, checker, closer, late>>
    BY <1>8 DEF CheckPasses
  <2>2. QED
    BY <1>0, <2>1, GoMoves, WorkerHas DEF WorkerStates, Effect, Keeps, Still
<1>9. CASE CheckFails(w)
  <2>1. Go(w, "get", None) /\ worker[w].pc = "check" /\ Discard(worker[w].conn)
        /\ UNCHANGED <<idle, closed, checker, closer, late>>
    BY <1>9 DEF CheckFails
  <2>2. QED
    BY <1>0, <2>1, GoMoves, WorkerHas DEF WorkerStates, Effect, Drops, Still
<1>10. CASE BodyRaises(w)
  <2>1. Go(w, "idle", None) /\ worker[w].pc = "use" /\ Discard(worker[w].conn)
        /\ UNCHANGED <<idle, closed, checker, closer, late>>
    BY <1>10 DEF BodyRaises
  <2>2. QED
    BY <1>0, <2>1, GoMoves, WorkerHas DEF WorkerStates, Effect, Drops, Still
<1>11. CASE BodyReturns(w)
  <2>1. Go(w, "put", worker[w].conn) /\ worker[w].pc = "use"
        /\ UNCHANGED <<idle, created, closed, open, checker, closer, late>>
    BY <1>11 DEF BodyReturns
  <2>2. QED
    BY <1>0, <2>1, GoMoves, WorkerHas DEF WorkerStates, Effect, Keeps, Still
<1>12. CASE PutBack(w)
  <2>1. Go(w, "idle", None) /\ worker[w].pc = "put" /\ PutIdle(worker[w].conn)
        /\ UNCHANGED <<created, closed, open, checker, closer>>
    BY <1>12 DEF PutBack
  <2>2. QED
    BY <1>0, <2>1, GoMoves, WorkerHas DEF WorkerStates, Effect, Puts, Still
<1>13. QED
    BY <1>1, <1>2, <1>3, <1>4, <1>5, <1>6, <1>7, <1>8, <1>9, <1>10, <1>11, <1>12 DEF WorkerStep
-----------------------------------------------------------------------------
(* validate_idle_connections. *)

CheckerRecord == [pc : CheckerStates, drained : SUBSET Conns, healthy : SUBSET Conns,
                  conn : Conns \cup {None}]


\* A validation whose parts are where they belong.
InPlace(pc, d, h, c) ==
    /\ pc \in CheckerStates /\ d \in SUBSET Conns /\ h \in SUBSET Conns /\ c \in Conns \cup {None}
    /\ c # None <=> pc \in {"put", "added", "putNew"}
    /\ d # {} => pc \in {"drain", "ping"}
    /\ h # {} => pc \in {"ping", "return", "put"}
    /\ d \cap h = {} /\ c \notin d \cup h

Record(pc, d, h, c) == [pc |-> pc, drained |-> d, healthy |-> h, conn |-> c]

\* A validation goes on with its parts in place.
LEMMA BecomeMoves ==
    ASSUME TypeOK, HoldsWhatItHas, NEW k \in Checkers, NEW pc, NEW d, NEW h, NEW c,
           Become(k, Record(pc, d, h, c)), worker' = worker, InPlace(pc, d, h, c)
    PROVE  /\ checker' \in [Checkers -> CheckerRecord]
           /\ HoldsWhatItHas' /\ Alone(k)
           /\ Hold(k)' = d \cup h \cup ({c} \ {None}) /\ (k \in Connecting' <=> pc = "connect")
<1>0. PICK t : t = Record(pc, d, h, c)
    OBVIOUS
<1>1. checker' = [checker EXCEPT ![k] = t]
    BY <1>0 DEF Become
<1>2. t \in CheckerRecord /\ t.pc = pc /\ t.drained = d /\ t.healthy = h /\ t.conn = c
    BY <1>0 DEF Record, CheckerRecord, InPlace
<1>3. /\ checker'[k] = t
      /\ \A x \in Checkers \ {k} : checker'[x] = checker[x]
      /\ checker' \in [Checkers -> CheckerRecord]
    BY <1>1, <1>2 DEF TypeOK, CheckerRecord
<1>4. HoldsWhatItHas'
    BY <1>2, <1>3 DEF HoldsWhatItHas, InPlace
<1>5. Alone(k)
    BY <1>3 DEF Alone, Parties, Hold, HeldBy, HeldIn, Connecting
<1>6. Hold(k)' = d \cup h \cup ({c} \ {None}) /\ (k \in Connecting' <=> pc = "connect")
    BY <1>2, <1>3 DEF Hold, HeldIn, Connecting
<1>7. QED
    BY <1>3, <1>4, <1>5, <1>6

\* What a validation has in hand where it is.
LEMMA CheckerHas ==
    ASSUME TypeOK, HoldsWhatItHas, NEW k \in Checkers
    PROVE  \E pc, d, h, c :
             /\ checker[k] = Record(pc, d, h, c) /\ InPlace(pc, d, h, c)
             /\ Hold(k) = d \cup h \cup ({c} \ {None})
             /\ k \in Connecting <=> pc = "connect"
             /\ k \in Parties
<1>1. PICK t : t = checker[k]
    OBVIOUS
<1>2. t \in CheckerRecord
    BY <1>1 DEF TypeOK, CheckerRecord
<1>3. t = Record(t.pc, t.drained, t.healthy, t.conn)
    BY <1>2 DEF CheckerRecord, Record
<1>4. InPlace(t.pc, t.drained, t.healthy, t.conn)
    BY <1>1, <1>2 DEF InPlace, HoldsWhatItHas, CheckerRecord
<1>5. Hold(k) = t.drained \cup t.healthy \cup ({t.conn} \ {None}) /\ k \in Parties
      /\ (k \in Connecting <=> t.pc = "connect")
    BY <1>1, PartyFacts DEF HeldIn, Parties
<1>6. QED
    BY <1>1, <1>3, <1>4, <1>5

\* Every step of validate_idle_connections is one of the effects.
LEMMA CheckerEffect ==
    ASSUME PoolIInv, NEW k \in Checkers, CheckerStep(k)
    PROVE  /\ checker' \in [Checkers -> CheckerRecord]
           /\ HoldsWhatItHas' /\ Alone(k) /\ Effect(k)
           /\ UNCHANGED <<closed, closer, worker>>
<1>0. TypeOK /\ HoldsWhatItHas /\ idle \in SUBSET Conns /\ open \in SUBSET Conns
      /\ k \in Parties /\ Hold(k) \cap idle = {} /\ Hold(k) \subseteq open
    BY DEF PoolIInv, TypeOK, PartiesHold, Parties
<1>1. PICK p, d, h, c : /\ checker[k] = Record(p, d, h, c) /\ InPlace(p, d, h, c)
                        /\ Hold(k) = d \cup h \cup ({c} \ {None})
                        /\ k \in Connecting <=> p = "connect"
    BY <1>0, CheckerHas
<1>2. checker[k].pc = p /\ checker[k].drained = d /\ checker[k].healthy = h /\ checker[k].conn = c
    BY <1>1 DEF Record
<1>3. CASE ValidateBegin(k)
  <2>1. p = "idle" /\ UNCHANGED <<idle, created, closed, open, closer, late>>
    BY <1>3, <1>2 DEF ValidateBegin
  <2>2. Become(k, [IdleChecker EXCEPT !.pc = "drain"]) /\ worker' = worker
    BY <1>3 DEF ValidateBegin
  <2>3. [IdleChecker EXCEPT !.pc = "drain"] = Record("drain", {}, {}, None)
    BY <1>1, <2>1 DEF Record, IdleChecker
  <2>4. InPlace("drain", {}, {}, None)
    BY <1>0, <1>1, <2>1 DEF InPlace, CheckerStates
  <2>5. Become(k, Record("drain", {}, {}, None))
    BY <2>2, <2>3
  <2>6. /\ checker' \in [Checkers -> CheckerRecord] /\ HoldsWhatItHas' /\ Alone(k)
        /\ Hold(k)' = {}
        /\ k \in Connecting' <=> "drain" = "connect"
    BY <1>0, <2>2, <2>5, <2>4, BecomeMoves
  <2>7. QED
    BY <1>0, <1>1, <2>1, <2>2, <2>6 DEF Effect, Keeps, Still, InPlace
<1>4. CASE Drain(k)
  <2>1. PICK x \in idle : idle' = idle \ {x} /\ Become(k, [checker[k] EXCEPT !.drained = @ \cup {x}])
    BY <1>4, <1>2 DEF Drain
  <2>2. p = "drain" /\ UNCHANGED <<created, closed, open, closer, late>>
    BY <1>4, <1>2 DEF Drain
  <2>3. Become(k, [checker[k] EXCEPT !.drained = @ \cup {x}]) /\ worker' = worker
    BY <2>1, <1>4 DEF Drain
  <2>4. [checker[k] EXCEPT !.drained = @ \cup {x}] = Record("drain", d \cup {x}, h, c)
    BY <1>1, <2>2 DEF Record, IdleChecker
  <2>5. InPlace("drain", d \cup {x}, h, c)
    BY <1>0, <1>1, <2>1, <2>2 DEF InPlace, CheckerStates
  <2>6. Become(k, Record("drain", d \cup {x}, h, c))
    BY <2>3, <2>4
  <2>7. /\ checker' \in [Checkers -> CheckerRecord] /\ HoldsWhatItHas' /\ Alone(k)
        /\ Hold(k)' = (d \cup {x}) \cup h \cup ({c} \ {None})
        /\ k \in Connecting' <=> "drain" = "connect"
    BY <1>0, <2>3, <2>6, <2>5, BecomeMoves
  <2>8. QED
    BY <1>0, <1>1, <2>1, <2>2, <2>3, <2>7 DEF Effect, Takes, Still, InPlace
<1>5. CASE DrainEnds(k)
  <2>1. p = "drain" /\ UNCHANGED <<idle, created, closed, open, closer, late>>
    BY <1>5, <1>2 DEF DrainEnds
  <2>2. Become(k, [checker[k] EXCEPT !.pc = "ping"]) /\ worker' = worker
    BY <1>5 DEF DrainEnds
  <2>3. [checker[k] EXCEPT !.pc = "ping"] = Record("ping", d, h, c)
    BY <1>1, <2>1 DEF Record, IdleChecker
  <2>4. InPlace("ping", d, h, c)
    BY <1>0, <1>1, <2>1 DEF InPlace, CheckerStates
  <2>5. Become(k, Record("ping", d, h, c))
    BY <2>2, <2>3
  <2>6. /\ checker' \in [Checkers -> CheckerRecord] /\ HoldsWhatItHas' /\ Alone(k)
        /\ Hold(k)' = d \cup h \cup ({c} \ {None})
        /\ k \in Connecting' <=> "ping" = "connect"
    BY <1>0, <2>2, <2>5, <2>4, BecomeMoves
  <2>7. QED
    BY <1>0, <1>1, <2>1, <2>2, <2>6 DEF Effect, Keeps, Still, InPlace
<1>6. CASE PingsEnd(k)
  <2>1. p = "ping" /\ d = {} /\ UNCHANGED <<idle, created, closed, open, closer, late>>
    BY <1>6, <1>2 DEF PingsEnd
  <2>2. Become(k, [checker[k] EXCEPT !.pc = "return"]) /\ worker' = worker
    BY <1>6 DEF PingsEnd
  <2>3. [checker[k] EXCEPT !.pc = "return"] = Record("return", d, h, c)
    BY <1>1, <2>1 DEF Record, IdleChecker
  <2>4. InPlace("return", d, h, c)
    BY <1>0, <1>1, <2>1 DEF InPlace, CheckerStates
  <2>5. Become(k, Record("return", d, h, c))
    BY <2>2, <2>3
  <2>6. /\ checker' \in [Checkers -> CheckerRecord] /\ HoldsWhatItHas' /\ Alone(k)
        /\ Hold(k)' = d \cup h \cup ({c} \ {None})
        /\ k \in Connecting' <=> "return" = "connect"
    BY <1>0, <2>2, <2>5, <2>4, BecomeMoves
  <2>7. QED
    BY <1>0, <1>1, <2>1, <2>2, <2>6 DEF Effect, Keeps, Still, InPlace
<1>7. CASE PutHealthy(k)
  <2>1. p = "put" /\ PutIdle(c) /\ UNCHANGED <<created, closed, open, closer>>
    BY <1>7, <1>2 DEF PutHealthy
  <2>2. Become(k, [checker[k] EXCEPT !.pc = "return", !.conn = None]) /\ worker' = worker
    BY <1>7 DEF PutHealthy
  <2>3. PICK s, t : s = checker[k] /\ t = [s EXCEPT !.pc = "return", !.conn = None]
    OBVIOUS
  <2>4. s = [pc |-> s.pc, drained |-> s.drained, healthy |-> s.healthy, conn |-> s.conn]
    BY <1>1, <2>3 DEF Record
  <2>5. t = [pc |-> "return", drained |-> s.drained, healthy |-> s.healthy, conn |-> None]
    BY <2>3, <2>4
  <2>6. s.pc = p /\ s.drained = d /\ s.healthy = h /\ s.conn = c
    BY <1>2, <2>3, Zenon
  <2>7. t = Record("return", d, h, None)
    BY <2>1, <2>5, <2>6, Zenon DEF Record
  <2>8. InPlace("return", d, h, None)
    BY <1>0, <1>1, <2>1 DEF InPlace, CheckerStates
  <2>9. Become(k, Record("return", d, h, None))
    BY <2>2, <2>3, <2>7, <2>6
  <2>10. /\ checker' \in [Checkers -> CheckerRecord] /\ HoldsWhatItHas' /\ Alone(k)
         /\ Hold(k)' = d \cup h \cup ({None} \ {None})
         /\ k \in Connecting' <=> "return" = "connect"
    BY <1>0, <2>2, <2>9, <2>8, BecomeMoves
  <2>11. QED
    BY <1>0, <1>1, <2>1, <2>2, <2>10 DEF Effect, Puts, Still, InPlace
<1>8. CASE \E x \in Conns : PingPasses(k, x)
  <2>1. PICK x \in d : Become(k, [checker[k] EXCEPT !.drained = @ \ {x}, !.healthy = @ \cup {x}])
    BY <1>8, <1>2 DEF PingPasses
  <2>2. p = "ping" /\ UNCHANGED <<idle, created, closed, open, closer, late>>
    BY <1>8, <1>2 DEF PingPasses
  <2>3. Become(k, [checker[k] EXCEPT !.drained = @ \ {x}, !.healthy = @ \cup {x}]) /\ worker' = worker
    BY <2>1, <1>8 DEF PingPasses
  <2>4. PICK s, t : s = checker[k] /\ t = [s EXCEPT !.drained = s.drained \ {x}, !.healthy = s.healthy \cup {x}]
    OBVIOUS
  <2>5. s = [pc |-> s.pc, drained |-> s.drained, healthy |-> s.healthy, conn |-> s.conn]
    BY <1>1, <2>4 DEF Record
  <2>6. t = [pc |-> s.pc, drained |-> s.drained \ {x},
            healthy |-> s.healthy \cup {x}, conn |-> s.conn]
    BY <2>4, <2>5
  <2>7. s.pc = p /\ s.drained = d /\ s.healthy = h /\ s.conn = c
    BY <1>2, <2>4, Zenon
  <2>8. t = Record("ping", d \ {x}, h \cup {x}, c)
    BY <2>2, <2>6, <2>7, Zenon DEF Record
  <2>9. InPlace("ping", d \ {x}, h \cup {x}, c)
    BY <1>0, <1>1, <2>1, <2>2 DEF InPlace, CheckerStates
  <2>10. Become(k, Record("ping", d \ {x}, h \cup {x}, c))
    BY <2>3, <2>4, <2>8, <2>7
  <2>11. /\ checker' \in [Checkers -> CheckerRecord] /\ HoldsWhatItHas' /\ Alone(k)
         /\ Hold(k)' = (d \ {x}) \cup (h \cup {x}) \cup ({c} \ {None})
         /\ k \in Connecting' <=> "ping" = "connect"
    BY <1>0, <2>3, <2>10, <2>9, BecomeMoves
  <2>12. QED
    BY <1>0, <1>1, <2>1, <2>2, <2>3, <2>11 DEF Effect, Keeps, Still, InPlace
<1>9. CASE \E x \in Conns : PingFails(k, x)
  <2>1. PICK x \in d : Discard(x) /\ Become(k, [checker[k] EXCEPT !.drained = @ \ {x}])
    BY <1>9, <1>2 DEF PingFails
  <2>2. p = "ping" /\ UNCHANGED <<idle, closed, closer, late>>
    BY <1>9, <1>2 DEF PingFails
  <2>3. Become(k, [checker[k] EXCEPT !.drained = @ \ {x}]) /\ worker' = worker
    BY <2>1, <1>9 DEF PingFails
  <2>4. [checker[k] EXCEPT !.drained = @ \ {x}] = Record("ping", d \ {x}, h, c)
    BY <1>1, <2>2 DEF Record, IdleChecker
  <2>5. InPlace("ping", d \ {x}, h, c)
    BY <1>0, <1>1, <2>1, <2>2 DEF InPlace, CheckerStates
  <2>6. Become(k, Record("ping", d \ {x}, h, c))
    BY <2>3, <2>4
  <2>7. /\ checker' \in [Checkers -> CheckerRecord] /\ HoldsWhatItHas' /\ Alone(k)
        /\ Hold(k)' = (d \ {x}) \cup h \cup ({c} \ {None})
        /\ k \in Connecting' <=> "ping" = "connect"
    BY <1>0, <2>3, <2>6, <2>5, BecomeMoves
  <2>8. QED
    BY <1>0, <1>1, <2>1, <2>2, <2>3, <2>7 DEF Effect, Drops, Still, InPlace
<1>10. CASE \E x \in Conns : ReturnHealthy(k, x)
  <2>1. CASE closed
    <3>1. PICK x \in h : Discard(x) /\ Become(k, [checker[k] EXCEPT !.healthy = @ \ {x}])
      BY <2>1, <1>10, <1>2 DEF ReturnHealthy
    <3>2. p = "return" /\ UNCHANGED <<idle, closed, closer, late>>
      BY <2>1, <1>10, <1>2 DEF ReturnHealthy
    <3>3. Become(k, [checker[k] EXCEPT !.healthy = @ \ {x}]) /\ worker' = worker
      BY <3>1, <2>1, <1>10 DEF ReturnHealthy
    <3>4. [checker[k] EXCEPT !.healthy = @ \ {x}] = Record("return", d, h \ {x}, c)
      BY <1>1, <3>2 DEF Record, IdleChecker
    <3>5. InPlace("return", d, h \ {x}, c)
      BY <1>0, <1>1, <3>1, <3>2 DEF InPlace, CheckerStates
    <3>6. Become(k, Record("return", d, h \ {x}, c))
      BY <3>3, <3>4
    <3>7. /\ checker' \in [Checkers -> CheckerRecord] /\ HoldsWhatItHas' /\ Alone(k)
          /\ Hold(k)' = d \cup (h \ {x}) \cup ({c} \ {None})
          /\ k \in Connecting' <=> "return" = "connect"
      BY <1>0, <3>3, <3>6, <3>5, BecomeMoves
    <3>8. QED
      BY <1>0, <1>1, <3>1, <3>2, <3>3, <3>7, <1>10 DEF Effect, Drops, Still, InPlace
  <2>2. CASE ~closed
    <3>1. PICK x \in h : Become(k, [checker[k] EXCEPT !.pc = "put", !.healthy = @ \ {x}, !.conn = x])
      BY <2>2, <1>10, <1>2 DEF ReturnHealthy
    <3>2. p = "return" /\ UNCHANGED <<idle, created, closed, open, closer, late>>
      BY <2>2, <1>10, <1>2 DEF ReturnHealthy
    <3>3. Become(k, [checker[k] EXCEPT !.pc = "put", !.healthy = @ \ {x}, !.conn = x]) /\ worker' = worker
      BY <3>1, <2>2, <1>10 DEF ReturnHealthy
    <3>4. PICK s, t : s = checker[k] /\ t = [s EXCEPT !.pc = "put", !.healthy = s.healthy \ {x}, !.conn = x]
      OBVIOUS
    <3>5. s = [pc |-> s.pc, drained |-> s.drained, healthy |-> s.healthy, conn |-> s.conn]
      BY <1>1, <3>4 DEF Record
    <3>6. t = [pc |-> "put", drained |-> s.drained, healthy |-> s.healthy \ {x}, conn |-> x]
      BY <3>4, <3>5
    <3>7. s.pc = p /\ s.drained = d /\ s.healthy = h /\ s.conn = c
      BY <1>2, <3>4, Zenon
    <3>8. t = Record("put", d, h \ {x}, x)
      BY <3>2, <3>6, <3>7, Zenon DEF Record
    <3>9. InPlace("put", d, h \ {x}, x)
      BY <1>0, <1>1, <3>1, <3>2 DEF InPlace, CheckerStates
    <3>10. Become(k, Record("put", d, h \ {x}, x))
      BY <3>3, <3>4, <3>8, <3>7
    <3>11. /\ checker' \in [Checkers -> CheckerRecord] /\ HoldsWhatItHas' /\ Alone(k)
           /\ Hold(k)' = d \cup (h \ {x}) \cup ({x} \ {None})
           /\ k \in Connecting' <=> "put" = "connect"
      BY <1>0, <3>3, <3>10, <3>9, BecomeMoves
    <3>12. QED
      BY <1>0, <1>1, <3>1, <3>2, <3>3, <3>11, <1>10 DEF Effect, Keeps, Still, InPlace
  <2>3. QED
    BY <2>1, <2>2
<1>11. CASE Refill(k)
  <2>1. CASE ~closed /\ created < MinSize
    <3>1. p \in {"refill", "return"} /\ (p = "return" => h = {}) /\ UNCHANGED <<idle, created, closed, open, closer, late>>
      BY <2>1, <1>11, <1>2 DEF Refill
    <3>2. Become(k, [IdleChecker EXCEPT !.pc = "reserve"]) /\ worker' = worker
      BY <2>1, <1>11 DEF Refill
    <3>3. [IdleChecker EXCEPT !.pc = "reserve"] = Record("reserve", {}, {}, None)
      BY <1>1, <3>1 DEF Record, IdleChecker
    <3>4. InPlace("reserve", {}, {}, None)
      BY <1>0, <1>1, <3>1 DEF InPlace, CheckerStates
    <3>5. Become(k, Record("reserve", {}, {}, None))
      BY <3>2, <3>3
    <3>6. /\ checker' \in [Checkers -> CheckerRecord] /\ HoldsWhatItHas' /\ Alone(k)
          /\ Hold(k)' = {}
          /\ k \in Connecting' <=> "reserve" = "connect"
      BY <1>0, <3>2, <3>5, <3>4, BecomeMoves
    <3>7. QED
      BY <1>0, <1>1, <3>1, <3>2, <3>6, <1>11 DEF Effect, Keeps, Still, InPlace
  <2>2. CASE ~(~closed /\ created < MinSize)
    <3>1. p \in {"refill", "return"} /\ (p = "return" => h = {}) /\ UNCHANGED <<idle, created, closed, open, closer, late>>
      BY <2>2, <1>11, <1>2 DEF Refill
    <3>2. Become(k, IdleChecker) /\ worker' = worker
      BY <2>2, <1>11 DEF Refill
    <3>3. IdleChecker = Record("idle", {}, {}, None)
      BY <1>1, <3>1 DEF Record, IdleChecker
    <3>4. InPlace("idle", {}, {}, None)
      BY <1>0, <1>1, <3>1 DEF InPlace, CheckerStates
    <3>5. Become(k, Record("idle", {}, {}, None))
      BY <3>2, <3>3
    <3>6. /\ checker' \in [Checkers -> CheckerRecord] /\ HoldsWhatItHas' /\ Alone(k)
          /\ Hold(k)' = {}
          /\ k \in Connecting' <=> "idle" = "connect"
      BY <1>0, <3>2, <3>5, <3>4, BecomeMoves
    <3>7. QED
      BY <1>0, <1>1, <3>1, <3>2, <3>6, <1>11 DEF Effect, Keeps, Still, InPlace
  <2>3. QED
    BY <2>1, <2>2
<1>12. CASE RefillReserve(k)
  <2>1. CASE MayReserve
    <3>1. p = "reserve" /\ MayReserve /\ created' = created + 1 /\ UNCHANGED <<idle, closed, open, closer, late>>
      BY <2>1, <1>12, <1>2 DEF RefillReserve
    <3>2. Become(k, [IdleChecker EXCEPT !.pc = "connect"]) /\ worker' = worker
      BY <2>1, <1>12 DEF RefillReserve
    <3>3. [IdleChecker EXCEPT !.pc = "connect"] = Record("connect", {}, {}, None)
      BY <1>1, <3>1 DEF Record, IdleChecker
    <3>4. InPlace("connect", {}, {}, None)
      BY <1>0, <1>1, <3>1 DEF InPlace, CheckerStates
    <3>5. Become(k, Record("connect", {}, {}, None))
      BY <3>2, <3>3
    <3>6. /\ checker' \in [Checkers -> CheckerRecord] /\ HoldsWhatItHas' /\ Alone(k)
          /\ Hold(k)' = {}
          /\ k \in Connecting' <=> "connect" = "connect"
      BY <1>0, <3>2, <3>5, <3>4, BecomeMoves
    <3>7. QED
      BY <1>0, <1>1, <3>1, <3>2, <3>6, <1>12 DEF Effect, Keeps, Still, InPlace
  <2>2. CASE ~MayReserve
    <3>1. p = "reserve" /\ UNCHANGED <<idle, created, closed, open, closer, late>>
      BY <2>2, <1>12, <1>2 DEF RefillReserve
    <3>2. Become(k, IdleChecker) /\ worker' = worker
      BY <2>2, <1>12 DEF RefillReserve
    <3>3. IdleChecker = Record("idle", {}, {}, None)
      BY <1>1, <3>1 DEF Record, IdleChecker
    <3>4. InPlace("idle", {}, {}, None)
      BY <1>0, <1>1, <3>1 DEF InPlace, CheckerStates
    <3>5. Become(k, Record("idle", {}, {}, None))
      BY <3>2, <3>3
    <3>6. /\ checker' \in [Checkers -> CheckerRecord] /\ HoldsWhatItHas' /\ Alone(k)
          /\ Hold(k)' = {}
          /\ k \in Connecting' <=> "idle" = "connect"
      BY <1>0, <3>2, <3>5, <3>4, BecomeMoves
    <3>7. QED
      BY <1>0, <1>1, <3>1, <3>2, <3>6, <1>12 DEF Effect, Keeps, Still, InPlace
  <2>3. QED
    BY <2>1, <2>2
<1>13. CASE RefillConnect(k)
  <2>1. PICK x \in Conns \ open : open' = open \cup {x} /\ Become(k, [IdleChecker EXCEPT !.pc = "added", !.conn = x])
    BY <1>13, <1>2 DEF RefillConnect
  <2>2. p = "connect" /\ UNCHANGED <<idle, created, closed, closer, late>>
    BY <1>13, <1>2 DEF RefillConnect
  <2>3. Become(k, [IdleChecker EXCEPT !.pc = "added", !.conn = x]) /\ worker' = worker
    BY <2>1, <1>13 DEF RefillConnect
  <2>4. PICK t : t = [IdleChecker EXCEPT !.pc = "added", !.conn = x]
    OBVIOUS
  <2>5. t = Record("added", {}, {}, x)
    BY <1>1, <2>2, <2>4 DEF Record, IdleChecker
  <2>6. InPlace("added", {}, {}, x)
    BY <1>0, <1>1, <2>1, <2>2 DEF InPlace, CheckerStates
  <2>7. Become(k, Record("added", {}, {}, x))
    BY <2>3, <2>4, <2>5
  <2>8. /\ checker' \in [Checkers -> CheckerRecord] /\ HoldsWhatItHas' /\ Alone(k)
        /\ Hold(k)' = {} \cup {} \cup ({x} \ {None})
        /\ k \in Connecting' <=> "added" = "connect"
    BY <1>0, <2>3, <2>7, <2>6, BecomeMoves
  <2>9. QED
    BY <1>0, <1>1, <2>1, <2>2, <2>3, <2>8 DEF Effect, Opens, InPlace
<1>14. CASE RefillFails(k)
  <2>1. p = "connect" /\ created' = Unreserved /\ UNCHANGED <<idle, closed, open, closer, late>>
    BY <1>14, <1>2 DEF RefillFails
  <2>2. Become(k, IdleChecker) /\ worker' = worker
    BY <1>14 DEF RefillFails
  <2>3. IdleChecker = Record("idle", {}, {}, None)
    BY <1>1, <2>1 DEF Record, IdleChecker
  <2>4. InPlace("idle", {}, {}, None)
    BY <1>0, <1>1, <2>1 DEF InPlace, CheckerStates
  <2>5. Become(k, Record("idle", {}, {}, None))
    BY <2>2, <2>3
  <2>6. /\ checker' \in [Checkers -> CheckerRecord] /\ HoldsWhatItHas' /\ Alone(k)
        /\ Hold(k)' = {}
        /\ k \in Connecting' <=> "idle" = "connect"
    BY <1>0, <2>2, <2>5, <2>4, BecomeMoves
  <2>7. QED
    BY <1>0, <1>1, <2>1, <2>2, <2>6 DEF Effect, Keeps, InPlace
<1>15. CASE RefillAdds(k)
  <2>1. CASE closed
    <3>1. p = "added" /\ Discard(c) /\ UNCHANGED <<idle, closed, closer, late>>
      BY <2>1, <1>15, <1>2 DEF RefillAdds
    <3>2. Become(k, IdleChecker) /\ worker' = worker
      BY <2>1, <1>15 DEF RefillAdds
    <3>3. IdleChecker = Record("idle", {}, {}, None)
      BY <1>1, <3>1 DEF Record, IdleChecker
    <3>4. InPlace("idle", {}, {}, None)
      BY <1>0, <1>1, <3>1 DEF InPlace, CheckerStates
    <3>5. Become(k, Record("idle", {}, {}, None))
      BY <3>2, <3>3
    <3>6. /\ checker' \in [Checkers -> CheckerRecord] /\ HoldsWhatItHas' /\ Alone(k)
          /\ Hold(k)' = {}
          /\ k \in Connecting' <=> "idle" = "connect"
      BY <1>0, <3>2, <3>5, <3>4, BecomeMoves
    <3>7. QED
      BY <1>0, <1>1, <3>1, <3>2, <3>6, <1>15 DEF Effect, Drops, Still, InPlace
  <2>2. CASE ~closed
    <3>1. p = "added" /\ UNCHANGED <<idle, created, closed, open, closer, late>>
      BY <2>2, <1>15, <1>2 DEF RefillAdds
    <3>2. Become(k, [checker[k] EXCEPT !.pc = "putNew"]) /\ worker' = worker
      BY <2>2, <1>15 DEF RefillAdds
    <3>3. [checker[k] EXCEPT !.pc = "putNew"] = Record("putNew", d, h, c)
      BY <1>1, <3>1 DEF Record, IdleChecker
    <3>4. InPlace("putNew", d, h, c)
      BY <1>0, <1>1, <3>1 DEF InPlace, CheckerStates
    <3>5. Become(k, Record("putNew", d, h, c))
      BY <3>2, <3>3
    <3>6. /\ checker' \in [Checkers -> CheckerRecord] /\ HoldsWhatItHas' /\ Alone(k)
          /\ Hold(k)' = d \cup h \cup ({c} \ {None})
          /\ k \in Connecting' <=> "putNew" = "connect"
      BY <1>0, <3>2, <3>5, <3>4, BecomeMoves
    <3>7. QED
      BY <1>0, <1>1, <3>1, <3>2, <3>6, <1>15 DEF Effect, Keeps, Still, InPlace
  <2>3. QED
    BY <2>1, <2>2
<1>16. CASE PutNew(k)
  <2>1. p = "putNew" /\ PutIdle(c) /\ UNCHANGED <<created, closed, open, closer>>
    BY <1>16, <1>2 DEF PutNew
  <2>2. Become(k, [IdleChecker EXCEPT !.pc = "refill"]) /\ worker' = worker
    BY <1>16 DEF PutNew
  <2>3. [IdleChecker EXCEPT !.pc = "refill"] = Record("refill", {}, {}, None)
    BY <1>1, <2>1 DEF Record, IdleChecker
  <2>4. InPlace("refill", {}, {}, None)
    BY <1>0, <1>1, <2>1 DEF InPlace, CheckerStates
  <2>5. Become(k, Record("refill", {}, {}, None))
    BY <2>2, <2>3
  <2>6. /\ checker' \in [Checkers -> CheckerRecord] /\ HoldsWhatItHas' /\ Alone(k)
        /\ Hold(k)' = {}
        /\ k \in Connecting' <=> "refill" = "connect"
    BY <1>0, <2>2, <2>5, <2>4, BecomeMoves
  <2>7. QED
    BY <1>0, <1>1, <2>1, <2>2, <2>6 DEF Effect, Puts, Still, InPlace
<1>17. QED
    BY <1>3, <1>4, <1>5, <1>6, <1>7, <1>8, <1>9, <1>10, <1>11, <1>12, <1>13, <1>14, <1>15, <1>16 DEF CheckerStep
-----------------------------------------------------------------------------
(* The invariant, and what it says of the pool. *)

\* The invariant holds the books.
LEMMA BooksOfInvariant ==
    ASSUME PoolIInv PROVE Books
BY DEF PoolIInv, TypeOK, Books

\* At the start the open connections are idle and no party holds one.
LEMMA PoolStarts == ASSUME Init PROVE PoolIInv
<1>1. /\ idle \in SUBSET Conns /\ Cardinality(idle) = MinSize /\ created = MinSize
      /\ open = idle /\ closed = FALSE /\ closer = "open" /\ late = {}
      /\ worker = [w \in Workers |-> IdleWorker] /\ checker = [k \in Checkers |-> IdleChecker]
    BY DEF Init
<1>2. \A w \in Workers : worker[w].pc = "idle" /\ worker[w].conn = None
    BY <1>1 DEF IdleWorker
<1>3. \A k \in Checkers : /\ checker[k].pc = "idle" /\ checker[k].conn = None
                          /\ checker[k].drained = {} /\ checker[k].healthy = {}
    BY <1>1 DEF IdleChecker
<1>4. HoldsWhatItHas
    BY <1>2, <1>3 DEF HoldsWhatItHas
<1>5. Connecting = {} /\ \A p \in Parties : Hold(p) = {}
    BY <1>2, <1>3 DEF Connecting, Hold, HeldBy, HeldIn, Parties
<1>6. PartiesHold
    BY <1>1, <1>5 DEF PartiesHold
<1>7. CreatedIsExact
    BY <1>1, <1>5, FS_EmptySet DEF CreatedIsExact
<1>8. TypeOK
  <2>1. worker \in [Workers -> [pc : WorkerStates, conn : Conns \cup {None}]]
    BY <1>1 DEF IdleWorker, WorkerStates
  <2>2. checker \in [Checkers -> CheckerRecord]
    BY <1>1 DEF IdleChecker, CheckerStates, CheckerRecord
  <2>3. created \in 0 .. MaxSize
    BY <1>1
  <2>4. closed \in BOOLEAN
    BY <1>1
  <2>5. QED
    BY <1>1, <2>1, <2>2, <2>3, <2>4, Zenon DEF TypeOK, CheckerRecord
<1>9. QED
    BY <1>1, <1>4, <1>6, <1>7, <1>8 DEF PoolIInv, CloseDrains

\* close() discards what is idle; nobody else's connection is touched.
LEMMA CloseDrainSteps == ASSUME PoolIInv, CloseDrain PROVE PoolIInv'
<1>1. PICK c \in idle : idle' = idle \ {c} /\ Discard(c)
    BY DEF CloseDrain
<1>2. UNCHANGED <<closed, worker, checker, closer, late>> /\ closer = "drain"
    BY DEF CloseDrain
<1>3. /\ idle \in SUBSET Conns /\ open \in SUBSET Conns /\ c \in open
      /\ created = Cardinality(open) + Cardinality(Connecting) /\ created \in 0 .. MaxSize
    BY <1>1 DEF PoolIInv, TypeOK, PartiesHold, CreatedIsExact
<1>4. open' = open \ {c} /\ created' = Unreserved
    BY <1>1 DEF Discard
<1>5. HoldsWhatItHas' /\ Connecting' = Connecting /\ \A p \in Parties : Hold(p)' = Hold(p)
    BY <1>2 DEF PoolIInv, HoldsWhatItHas, Connecting, Hold, HeldBy, HeldIn
<1>6. PartiesHold'
    BY <1>1, <1>4, <1>5 DEF PoolIInv, PartiesHold
<1>7. Cardinality(open) = Cardinality(open') + 1 /\ Cardinality(open') \in Nat
    BY <1>3, <1>4, CountOne
<1>8. Cardinality(Connecting) \in Nat
    BY PartyFacts, FS_Subset, FS_CardinalityType
<1>9. created' = Cardinality(open') + Cardinality(Connecting) /\ created' \in 0 .. MaxSize
    BY <1>3, <1>4, <1>7, <1>8 DEF Unreserved
<1>10. CreatedIsExact'
    BY <1>5, <1>9 DEF CreatedIsExact
<1>11. TypeOK' /\ CloseDrains' /\ (closed = (closer # "open"))'
    BY <1>1, <1>2, <1>3, <1>4, <1>9 DEF PoolIInv, TypeOK, CloseDrains
<1>12. QED
    BY <1>5, <1>6, <1>10, <1>11 DEF PoolIInv

\* Every step of the pool keeps the invariant.
LEMMA PoolSteps == ASSUME PoolIInv, [Next]_vars PROVE PoolIInv'
<1>0. Books /\ TypeOK
    BY BooksOfInvariant DEF PoolIInv
<1>1. ASSUME NEW w \in Workers, WorkerStep(w) PROVE PoolIInv'
  <2>1. /\ worker' \in [Workers -> [pc : WorkerStates, conn : Conns \cup {None}]]
        /\ HoldsWhatItHas' /\ Alone(w) /\ Effect(w)
        /\ UNCHANGED <<closed, closer, checker>>
    BY <1>1, WorkerEffect
  <2>2. Books'
    BY <1>0, <2>1, EffectBooks DEF Parties
  <2>3. checker' \in [Checkers -> CheckerRecord] /\ closer' \in {"open", "drain", "done"}
    BY <1>0, <2>1 DEF TypeOK, CheckerRecord
  <2>4. QED
    BY <2>1, <2>2, <2>3 DEF PoolIInv, TypeOK, Books, CheckerRecord
<1>2. ASSUME NEW k \in Checkers, CheckerStep(k) PROVE PoolIInv'
  <2>1. /\ checker' \in [Checkers -> CheckerRecord]
        /\ HoldsWhatItHas' /\ Alone(k) /\ Effect(k)
        /\ UNCHANGED <<closed, closer, worker>>
    BY <1>2, CheckerEffect
  <2>2. Books'
    BY <1>0, <2>1, EffectBooks DEF Parties
  <2>3. /\ worker' \in [Workers -> [pc : WorkerStates, conn : Conns \cup {None}]]
        /\ closer' \in {"open", "drain", "done"}
    BY <1>0, <2>1 DEF TypeOK
  <2>4. QED
    BY <2>1, <2>2, <2>3 DEF PoolIInv, TypeOK, Books, CheckerRecord
<1>3. ASSUME CloseBegin \/ CloseEnds \/ UNCHANGED vars PROVE PoolIInv'
  <2>1. /\ UNCHANGED <<idle, created, open, worker, checker, late>>
        /\ closed' = (closer' # "open") /\ closer' \in {"open", "drain", "done"}
        /\ closer' = "done" => closer = "done" \/ idle = {}
    BY <1>3 DEF CloseBegin, CloseEnds, vars, PoolIInv, TypeOK
  <2>2. HoldsWhatItHas' /\ Connecting' = Connecting /\ \A p \in Parties : Hold(p)' = Hold(p)
    BY <2>1 DEF PoolIInv, HoldsWhatItHas, Connecting, Hold, HeldBy, HeldIn
  <2>3. PartiesHold' /\ CreatedIsExact'
    BY <2>1, <2>2 DEF PoolIInv, PartiesHold, CreatedIsExact
  <2>4. TypeOK' /\ CloseDrains'
    BY <2>1 DEF PoolIInv, TypeOK, CloseDrains
  <2>5. QED
    BY <2>1, <2>2, <2>3, <2>4 DEF PoolIInv
<1>4. QED
    BY <1>1, <1>2, <1>3, CloseDrainSteps DEF Next

\* A connection that is about to be put back is open and not idle, so the
\* queue is not full.
LEMMA RoomToPut ==
    ASSUME PoolIInv, NEW p \in Parties, NEW c \in Hold(p)
    PROVE  Cardinality(idle) < MaxSize
<1>1. /\ idle \in SUBSET Conns /\ open \in SUBSET Conns /\ idle \subseteq open
      /\ c \in open /\ c \notin idle
      /\ created = Cardinality(open) + Cardinality(Connecting) /\ created \in 0 .. MaxSize
    BY DEF PoolIInv, TypeOK, PartiesHold, CreatedIsExact
<1>2. Cardinality(Connecting) \in Nat
    BY PartyFacts, FS_Subset, FS_CardinalityType
<1>3. IsFiniteSet(open) /\ IsFiniteSet(idle) /\ Cardinality(open) \in Nat /\ Cardinality(idle) \in Nat
    BY <1>1, FS_Subset, FS_CardinalityType
<1>4. Cardinality(idle) < Cardinality(open)
  <2>1. Cardinality(idle) <= Cardinality(open) /\ (Cardinality(idle) = Cardinality(open) => idle = open)
    BY <1>1, <1>3, FS_Subset
  <2>2. QED
    BY <1>1, <1>3, <2>1
<1>5. QED
    BY <1>1, <1>2, <1>3, <1>4

\* What the invariant says is what PoolIsExact asks.
LEMMA InvariantIsExact == ASSUME PoolIInv PROVE PoolIsExact
<1>1. TypeOK /\ HoldsWhatItHas /\ PartiesHold /\ CreatedIsExact /\ CloseDrains
    BY DEF PoolIInv
<1>2. /\ \A w \in Workers : w \in Parties /\ Hold(w) = HeldBy(w)
      /\ \A k \in Checkers : k \in Parties /\ Hold(k) = HeldIn(k)
    BY PartyFacts DEF Parties
<1>3. OneHolder
  <2>1. \A c : c \in Held <=> \E p \in Parties : c \in Hold(p)
    BY <1>2 DEF Held, Parties
  <2>2. open = idle \cup Held /\ idle \cap Held = {}
    BY <1>1, <2>1 DEF PartiesHold
  <2>3. /\ \A w, v \in Workers : w # v => HeldBy(w) \cap HeldBy(v) = {}
        /\ \A k, j \in Checkers : k # j => HeldIn(k) \cap HeldIn(j) = {}
    BY <1>1, <1>2 DEF PartiesHold
  <2>4. \A w \in Workers, k \in Checkers : HeldBy(w) \cap HeldIn(k) = {}
    BY <1>1, <1>2 DEF PartiesHold
  <2>5. QED
    BY <1>1, <2>2, <2>3, <2>4 DEF OneHolder, HoldsWhatItHas
<1>4. PutNeverBlocks
  <2>1. ASSUME NEW w \in Workers, worker[w].pc = "put" PROVE Cardinality(idle) < MaxSize
    <3>1. worker[w].conn \in Hold(w) /\ w \in Parties
      BY <1>1, <1>2, <2>1 DEF HoldsWhatItHas, HeldBy
    <3>2. QED
      BY <3>1, RoomToPut
  <2>2. ASSUME NEW k \in Checkers, checker[k].pc \in {"put", "putNew"}
        PROVE  Cardinality(idle) < MaxSize
    <3>1. checker[k].conn \in Hold(k) /\ k \in Parties
      BY <1>1, <1>2, <2>2 DEF HoldsWhatItHas, HeldIn
    <3>2. QED
      BY <3>1, RoomToPut
  <2>3. QED
    BY <2>1, <2>2 DEF PutNeverBlocks
<1>5. QED
    BY <1>1, <1>3, <1>4 DEF PoolIsExact
\* The pool by itself, whatever its callers do.
THEOREM PoolInvariance == Spec => []PoolIInv
<1>1. Init => PoolIInv
    BY PoolStarts
<1>2. PoolIInv /\ [Next]_vars => PoolIInv'
    BY PoolSteps
<1>3. QED
    BY <1>1, <1>2, PTL DEF Spec

\* No connection is shared, lost or counted twice, and no put finds the queue
\* full, for any size of the pool and any callers of connection(),
\* validate_idle_connections and close().
THEOREM PoolHolds == Spec => []PoolIsExact
<1>1. PoolIInv => PoolIsExact
    BY InvariantIsExact
<1>2. QED
    BY <1>1, PoolInvariance, PTL

-----------------------------------------------------------------------------
(* The GAINR service over the pool. *)

USE LoadsAssumption

\* What a request or the diagnostics worker does between its reads leaves the
\* pool alone.
LEMMA RequestsLeavePool ==
    ASSUME (\E r \in Requests : RequestStep(r)) \/ DiagStep
    PROVE  UNCHANGED <<poolVars, load>>
<1>1. ASSUME NEW r, RequestStep(r) PROVE UNCHANGED <<poolVars, load>>
  <2>1. CASE StartList(r)
    BY <2>1 DEF StartList, catalogVars
  <2>2. CASE StartSearch(r)
    BY <2>2 DEF StartSearch, catalogVars
  <2>3. CASE EngineRaises(r)
    BY <2>3 DEF EngineRaises, catalogVars
  <2>4. CASE BeginRead(r)
    BY <2>4 DEF BeginRead, catalogVars
  <2>5. CASE ReadAgain(r)
    BY <2>5 DEF ReadAgain, catalogVars
  <2>6. CASE ReadRaises(r)
    BY <2>6 DEF ReadRaises, catalogVars
  <2>7. CASE ReadReturns(r)
    BY <2>7 DEF ReadReturns, catalogVars
  <2>8. CASE Remember(r)
    BY <2>8 DEF Remember, catalogVars
  <2>9. CASE Exec(r)
    BY <2>9 DEF Exec, catalogVars
  <2>10. CASE Respond(r)
    BY <2>10 DEF Respond, catalogVars
  <2>11. CASE Fail(r)
    BY <2>11 DEF Fail, catalogVars
  <2>12. CASE \E ranking \in load.rankings : EngineReturns(r, ranking)
    BY <2>12 DEF EngineReturns, catalogVars
  <2>13. CASE \E i \in {1, 2} : Query(r, i)
    BY <2>13 DEF Query, catalogVars
  <2>14. QED
    BY <1>1, <2>1, <2>2, <2>3, <2>4, <2>5, <2>6, <2>7, <2>8, <2>9, <2>10, <2>11, <2>12, <2>13 DEF RequestStep
<1>2. ASSUME DiagStep PROVE UNCHANGED <<poolVars, load>>
    BY <1>2 DEF DiagStep, DiagTake, DiagAsk, DiagQuery, DiagRead, DiagRecord, catalogVars
<1>3. QED
    BY <1>1, <1>2

\* The service only uses the pool through its operations: every step of
\* GainrNext is a step of the pool, by a thread or a validation that the pool
\* knows, or does not touch it.
LEMMA GainrStepsPool ==
    ASSUME load \in Loads, [GainrNext]_allVars
    PROVE  [Next]_vars /\ load' \in Loads
<1>1. CASE (\E r \in Requests : RequestStep(r)) \/ DiagStep
    BY <1>1, RequestsLeavePool DEF poolVars, vars
<1>2. CASE \E w \in Workers : ReadStep(w)
  <2>1. PICK w \in Workers : ReadStep(w)
    BY <1>2
  <2>2. WorkerStep(w)
    BY <2>1 DEF ReadStep, WorkerStep
  <2>3. load' = load
    BY <2>1 DEF ReadStep, catalogVars
  <2>4. QED
    BY <2>2, <2>3 DEF Next
<1>3. CASE \E a \in Ads, status \in {"on", "off", "deleted"} : SwitchAd(a, status)
    BY <1>3 DEF SwitchAd, poolVars, vars
<1>4. CASE Etl \/ (\E key \in DOMAIN lists : ListExpires(key))
    BY <1>4 DEF Etl, ListExpires, poolVars, vars, catalogVars
<1>5. CASE CompatClose \/ CompatStop \/ CompatGivesUp \/ StoreClose
    BY <1>5 DEF CompatClose, CompatStop, CompatGivesUp, StoreClose, poolVars, vars, catalogVars
<1>6. CASE EngineClose
    BY <1>6 DEF EngineClose, Next, catalogVars
<1>7. CASE /\ \/ \E w \in load.free : WorkerStep(w)
              \/ \E k \in load.checks : CheckerStep(k)
              \/ CloseDrain \/ CloseEnds
           /\ UNCHANGED gainrVars
  <2>1. load.free \subseteq Workers /\ load.checks \subseteq Checkers
    OBVIOUS
  <2>2. load' = load
    BY <1>7 DEF gainrVars, catalogVars
  <2>3. Next
    BY <1>7, <2>1 DEF Next
  <2>4. QED
    BY <2>2, <2>3
<1>8. CASE UNCHANGED allVars
    BY <1>8 DEF allVars, gainrVars, catalogVars, poolVars, vars
<1>9. QED
    BY <1>1, <1>2, <1>3, <1>4, <1>5, <1>6, <1>7, <1>8 DEF GainrNext

\* The service runs the pool: seen through the pool's variables, every
\* behaviour of the GAINR service is a behaviour of DatabasePool.
THEOREM GainrUsesPool == GainrSpec => Spec
<1>1. GainrInit => Init /\ load \in Loads
    BY DEF GainrInit
<1>2. load \in Loads /\ [GainrNext]_allVars => [Next]_vars /\ (load \in Loads)'
    BY GainrStepsPool
<1>3. QED
    BY <1>1, <1>2, PTL DEF GainrSpec, Spec

\* So the books are exact whatever requests, diagnostics, readiness requests
\* and the end of the service do at the same time.
THEOREM GainrPoolHolds == GainrSpec => []PoolIsExact
BY GainrUsesPool, PoolHolds, PTL

-----------------------------------------------------------------------------
(* Every search is recorded once. *)

\* The fields of a request's state that matter here.
IsState(x) == "pc" \in DOMAIN x /\ "mode" \in DOMAIN x

\* Where a request has ended, and where the worker has a job.
Over == {"answered", "failed"}
AtWork == {"ask", "count", "counted", "unknown"}

\* What the queue holds.
Jobs == Requests \cup {Stop}

\* What the records are made of.
RecordTypes ==
    /\ load \in Loads
    /\ req = [r \in Requests |-> req[r]] /\ \A r \in Requests : IsState(req[r])
    /\ "pc" \in DOMAIN diag /\ "job" \in DOMAIN diag
    /\ queue \in Seq(Jobs)
    /\ events \in [Requests -> Nat] /\ refused \in [Requests -> Nat]
    /\ storeOpen \in BOOLEAN

\* The worker has a job exactly while it is at work on one.
JobInHand ==
    /\ diag.pc \in AtWork => diag.job \in Requests
    /\ diag.pc \in {"off", "get", "stopped"} => diag.job = None
    /\ diag.pc \in AtWork \cup {"off", "get", "stopped"}

\* The stop mark is put once, into an empty queue, after which nothing is.
StopIsLast ==
    /\ \A i \in 1 .. Len(queue) : queue[i] = Stop => queue = <<Stop>>
    /\ closing \in {"open", "drain"} =>
         diag.pc # "stopped" /\ \A i \in 1 .. Len(queue) : queue[i] # Stop
    /\ diag.pc = "stopped" => queue = <<>>

\* How often a job is in a queue.
Times(s, r) == Cardinality({i \in 1 .. Len(s) : s[i] = r})

\* What each search has left so far, and that it is no list.
SearchesCounted ==
    \A r \in load.searches :
        /\ events[r] + refused[r] + Pending(r) = IF req[r].pc \in Over THEN 1 ELSE 0
        /\ req[r].mode # "list"

\* The inductive invariant of the records.
RecordInv ==
    /\ RecordTypes
    /\ JobInHand
    /\ StopIsLast
    /\ SearchesCounted
    /\ \A r \in Requests : refused[r] > 0 => ~storeOpen

USE RequestsAssumption

\* It contains what the run checks.
LEMMA RecordsImply == RecordInv => ZeroResultsRecordedOnce
<1> SUFFICES ASSUME RecordInv PROVE ZeroResultsRecordedOnce
    OBVIOUS
<1>2. \A r \in load.searches :
        events[r] + refused[r] + Pending(r) = IF req[r].pc \in {"answered", "failed"} THEN 1 ELSE 0
    BY Zenon DEF RecordInv, SearchesCounted, Over
<1>3. diag.pc = "stopped" => queue = <<>>
    BY DEF RecordInv, StopIsLast
<1>4. QED
    BY <1>2, <1>3, Zenon DEF RecordInv, ZeroResultsRecordedOnce

\* A job put at the end of a queue is in it once more.
LEMMA TimesAppend ==
    ASSUME NEW s \in Seq(Jobs), NEW x \in Jobs, NEW r
    PROVE  /\ Times(s, r) \in Nat
           /\ Times(Append(s, x), r) = IF x = r THEN Times(s, r) + 1 ELSE Times(s, r)
<1> DEFINE S == {i \in 1 .. Len(s) : s[i] = r}
           T == {i \in 1 .. Len(Append(s, x)) : Append(s, x)[i] = r}
<1>1. Len(s) \in Nat
    OBVIOUS
<1>2. IsFiniteSet(1 .. Len(s))
    BY <1>1, FS_Interval
<1>3. IsFiniteSet(S) /\ Cardinality(S) \in Nat
    BY <1>1, <1>2, FS_Subset, FS_CardinalityType
<1>4. /\ Len(Append(s, x)) = Len(s) + 1
      /\ \A i \in 1 .. Len(s) : Append(s, x)[i] = s[i]
      /\ Append(s, x)[Len(s) + 1] = x
    BY <1>1
<1>5. T = IF x = r THEN S \cup {Len(s) + 1} ELSE S
    BY <1>1, <1>4
<1>6. Len(s) + 1 \notin S
    BY <1>1
<1>7. Cardinality(T) = IF x = r THEN Cardinality(S) + 1 ELSE Cardinality(S)
    BY <1>3, <1>5, <1>6, FS_AddElement
<1>8. QED
    BY <1>3, <1>7 DEF Times

\* The head of a queue is in its tail once less.
LEMMA TimesTail ==
    ASSUME NEW s \in Seq(Jobs), s # <<>>, NEW r
    PROVE  /\ Times(s, r) \in Nat /\ Times(Tail(s), r) \in Nat
           /\ Times(s, r) = IF Head(s) = r THEN Times(Tail(s), r) + 1 ELSE Times(Tail(s), r)
<1> DEFINE S == {i \in 1 .. Len(s) : s[i] = r}
           T == {i \in 1 .. Len(Tail(s)) : Tail(s)[i] = r}
           f == [i \in T |-> i + 1]
<1>1. /\ Len(s) \in Nat \ {0} /\ Len(Tail(s)) = Len(s) - 1
      /\ \A i \in 1 .. (Len(s) - 1) : Tail(s)[i] = s[i + 1]
      /\ Head(s) = s[1]
    OBVIOUS
<1>2. IsFiniteSet(1 .. Len(s)) /\ IsFiniteSet(1 .. (Len(s) - 1))
    BY <1>1, FS_Interval
<1>3. /\ IsFiniteSet(S) /\ Cardinality(S) \in Nat
      /\ IsFiniteSet(T) /\ Cardinality(T) \in Nat
    BY <1>1, <1>2, FS_Subset, FS_CardinalityType
<1>4. \A i \in T : i \in Nat /\ i + 1 \in S \ {1}
    BY <1>1
<1>5. \A j \in S \ {1} : j - 1 \in T /\ (j - 1) + 1 = j
    BY <1>1
<1>6. ExistsBijection(T, S \ {1})
  <2>1. f \in [T -> S \ {1}]
    BY <1>4
  <2>2. \A i, j \in T : f[i] = f[j] => i = j
    BY <1>4
  <2>3. \A j \in S \ {1} : \E i \in T : f[i] = j
    BY <1>5
  <2>4. f \in Bijection(T, S \ {1})
    BY <2>1, <2>2, <2>3, Fun_IsBij
  <2> HIDE DEF S, T, f
  <2>5. QED
    BY <2>4 DEF ExistsBijection
<1> HIDE DEF S, T, f
<1>7. Cardinality(S \ {1}) = Cardinality(T)
    BY <1>3, <1>6, FS_Bijection
<1> USE DEF S, T
<1>8. 1 \in S <=> Head(s) = r
    BY <1>1
<1>9. Cardinality(S \ {1}) = IF 1 \in S THEN Cardinality(S) - 1 ELSE Cardinality(S)
    BY <1>3, FS_RemoveElement
<1>10. PICK a \in Nat, b \in Nat : a = Cardinality(S) /\ b = Cardinality(T)
    BY <1>3
<1>11. b = IF Head(s) = r THEN a - 1 ELSE a
    BY <1>7, <1>8, <1>9, <1>10
<1>12. a = IF Head(s) = r THEN b + 1 ELSE b
    BY <1>11
<1>13. QED
    BY <1>3, <1>10, <1>12 DEF Times

\* A search's jobs are those in the queue and the one in hand.
LEMMA PendingJobs ==
    ASSUME RecordInv, NEW r
    PROVE  /\ Times(queue, r) \in Nat
           /\ Pending(r) = Times(queue, r) + (IF diag.job = r THEN 1 ELSE 0)
           /\ Pending(r)' = Times(queue', r) + (IF diag'.job = r THEN 1 ELSE 0)
<1>1. queue \in Seq(Jobs) /\ Stop \in Jobs
    BY DEF RecordInv, RecordTypes, Jobs
<1>2. Times(queue, r) \in Nat
    BY <1>1, TimesAppend
<1>3. Pending(r) = Times(queue, r) + (IF diag.job = r THEN 1 ELSE 0)
    BY DEF Pending, Times
<1>4. Pending(r)' = Times(queue', r) + (IF diag'.job = r THEN 1 ELSE 0)
    BY DEF Pending, Times
<1>5. QED
    BY <1>2, <1>3, <1>4

\* A step that concerns neither requests nor records.
LEMMA OthersKeep ==
    ASSUME RecordInv, UNCHANGED <<load, req, queue, diag, closing, storeOpen, events, refused>>
    PROVE  RecordInv'
<1>1. RecordTypes' /\ JobInHand' /\ StopIsLast'
    BY DEF RecordInv, RecordTypes, JobInHand, StopIsLast, IsState
<1>2. SearchesCounted'
    BY Zenon DEF RecordInv, SearchesCounted, Pending
<1>3. QED
    BY <1>1, <1>2 DEF RecordInv

\* A request goes on, or ends without being a search.
LEMMA RequestMoves ==
    ASSUME RecordInv, NEW r \in Requests, NEW x, IsState(x), req' = [req EXCEPT ![r] = x],
           req[r].pc \notin Over, r \in load.searches => x.pc \notin Over /\ x.mode # "list",
           UNCHANGED <<load, queue, diag, closing, storeOpen, events, refused>>
    PROVE  RecordInv'
<1>1. /\ req' = [s \in Requests |-> req'[s]]
      /\ \A s \in Requests : req'[s] = IF s = r THEN x ELSE req[s]
    BY DEF RecordInv, RecordTypes
<1>2. RecordTypes'
    BY <1>1 DEF RecordInv, RecordTypes, IsState
<1>3. JobInHand' /\ StopIsLast' /\ \A s \in Requests : refused'[s] > 0 => ~storeOpen'
    BY DEF RecordInv, JobInHand, StopIsLast
<1>4. SearchesCounted'
  <2>1. SUFFICES ASSUME NEW s \in load.searches
                 PROVE  /\ events[s] + refused[s] + Pending(s) =
                             IF req'[s].pc \in Over THEN 1 ELSE 0
                        /\ req'[s].mode # "list"
    BY DEF SearchesCounted, Pending
  <2>2. /\ events[s] + refused[s] + Pending(s) = IF req[s].pc \in Over THEN 1 ELSE 0
        /\ req[s].mode # "list" /\ s \in Requests
    BY <2>1 DEF RecordInv, SearchesCounted, RecordTypes
  <2>3. CASE s = r
    BY <1>1, <2>1, <2>2, <2>3
  <2>4. CASE s # r
    BY <1>1, <2>2, <2>4
  <2>5. QED
    BY <2>3, <2>4
<1>5. QED
    BY <1>2, <1>3, <1>4 DEF RecordInv

\* The steps of a request up to its answer.
GoesOn(r) ==
    \/ StartList(r) \/ StartSearch(r) \/ EngineRaises(r)
    \/ \E ranking \in load.rankings : EngineReturns(r, ranking)
    \/ BeginRead(r) \/ ReadAgain(r) \/ ReadRaises(r) \/ ReadReturns(r)
    \/ Remember(r) \/ Exec(r)

\* Where they lead: a search is not over, and only remember_search comes before
\* the event.
LEMMA RequestGoesTo ==
    ASSUME RecordInv, NEW r \in Requests, GoesOn(r)
    PROVE  \E x : /\ IsState(x) /\ req' = [req EXCEPT ![r] = x]
                  /\ r \in load.searches => x.pc \notin Over /\ x.mode # "list"
                  /\ x.pc = "record" => Remember(r) \/ Exec(r)
<1>1. IsState(req[r]) /\ (r \in load.searches => req[r].mode # "list" /\ r \notin load.lists)
  BY DEF RecordInv, RecordTypes, SearchesCounted
<1>2. CASE StartList(r)
  <2>1. r \in load.lists
    BY <1>2 DEF StartList
  <2>2. \/ req' = [req EXCEPT ![r] = [Idle EXCEPT !.pc = "answered", !.mode = "list"]]
        \/ req' = [req EXCEPT ![r] = [Idle EXCEPT !.pc = "read", !.mode = "list"]]
    BY <1>2 DEF StartList, Step
  <2>3. \A p : LET x == [Idle EXCEPT !.pc = p, !.mode = "list"] IN IsState(x) /\ x.pc = p
    BY DEF Idle, IsState
  <2>4. QED
    BY <1>1, <2>1, <2>2, <2>3
<1>3. CASE StartSearch(r)
  <2>1. \/ req' = [req EXCEPT ![r] = [Idle EXCEPT !.pc = "read", !.mode = "catalog"]]
        \/ req' = [req EXCEPT ![r] = [Idle EXCEPT !.pc = "engine"]]
    BY <1>3 DEF StartSearch, Step
  <2>2. LET x == [Idle EXCEPT !.pc = "read", !.mode = "catalog"]
        IN  IsState(x) /\ x.pc = "read" /\ x.mode = "catalog"
    BY DEF Idle, IsState
  <2>3. LET x == [Idle EXCEPT !.pc = "engine"]
        IN  IsState(x) /\ x.pc = "engine" /\ x.mode = "none"
    BY DEF Idle, IsState
  <2>4. QED
    BY <2>1, <2>2, <2>3 DEF Over
<1>4. CASE EngineRaises(r)
  <2>1. req' = [req EXCEPT ![r] = [req[r] EXCEPT !.pc = "failing"]]
    BY <1>4 DEF EngineRaises, Step
  <2>2. LET x == [req[r] EXCEPT !.pc = "failing"]
        IN  IsState(x) /\ x.pc = "failing" /\ x.mode = req[r].mode
    BY <1>1 DEF IsState
  <2>3. QED
    BY <1>1, <2>1, <2>2 DEF Over
<1>5. CASE \E ranking \in load.rankings : EngineReturns(r, ranking)
  <2>0. PICK p \in {"remember", "read"} : \E ids, n :
          \/ req' = [req EXCEPT ![r] = [Idle EXCEPT !.pc = p, !.mode = "ranked", !.ranked = ids]]
          \/ req' = [req EXCEPT ![r] = [Idle EXCEPT !.pc = p, !.mode = "rows", !.ranked = ids,
                                                    !.total = n]]
    BY <1>5 DEF EngineReturns, Step
  <2>1. PICK ids, n :
          \/ req' = [req EXCEPT ![r] = [Idle EXCEPT !.pc = p, !.mode = "ranked", !.ranked = ids]]
          \/ req' = [req EXCEPT ![r] = [Idle EXCEPT !.pc = p, !.mode = "rows", !.ranked = ids,
                                                    !.total = n]]
    BY <2>0
  <2>2. LET x == [Idle EXCEPT !.pc = p, !.mode = "ranked", !.ranked = ids]
        IN  IsState(x) /\ x.pc = p /\ x.mode = "ranked"
    BY DEF Idle, IsState
  <2>3. LET x == [Idle EXCEPT !.pc = p, !.mode = "rows", !.ranked = ids, !.total = n]
        IN  IsState(x) /\ x.pc = p /\ x.mode = "rows"
    BY DEF Idle, IsState
  <2>4. QED
    BY <2>1, <2>2, <2>3 DEF Over
<1>6. CASE BeginRead(r)
  <2>1. PICK b : req' = [req EXCEPT ![r] = [req[r] EXCEPT !.pc = "reading", !.attempt = @ + 1,
                                                          !.parallel = b]]
    BY <1>6 DEF BeginRead, Step
  <2>2. LET x == [req[r] EXCEPT !.pc = "reading", !.attempt = @ + 1, !.parallel = b]
        IN  IsState(x) /\ x.pc = "reading" /\ x.mode = req[r].mode
    BY <1>1 DEF IsState
  <2>3. QED
    BY <1>1, <2>1, <2>2 DEF Over
<1>7. CASE ReadAgain(r)
  <2>1. req' = [req EXCEPT ![r] = [req[r] EXCEPT !.pc = "read", !.parallel = FALSE]]
    BY <1>7 DEF ReadAgain, Step
  <2>2. LET x == [req[r] EXCEPT !.pc = "read", !.parallel = FALSE]
        IN  IsState(x) /\ x.pc = "read" /\ x.mode = req[r].mode
    BY <1>1 DEF IsState
  <2>3. QED
    BY <1>1, <2>1, <2>2 DEF Over
<1>8. CASE ReadRaises(r)
  <2>1. PICK p, x : /\ p = IF req[r].mode = "list" THEN "failed" ELSE "failing"
                    /\ x = [Idle EXCEPT !.pc = p, !.mode = req[r].mode]
                    /\ req' = [req EXCEPT ![r] = x]
    BY <1>8 DEF ReadRaises, Step
  <2>2. IsState(x) /\ x.pc = p /\ x.mode = req[r].mode
    BY <2>1 DEF Idle, IsState
  <2>3. x.pc # "record" /\ (r \in load.searches => x.pc \notin Over /\ x.mode # "list")
    BY <1>1, <2>1, <2>2 DEF Over
  <2>4. req' = [req EXCEPT ![r] = x] /\ IsState(x)
    BY <2>1, <2>2
  <2>5. QED
    BY <2>3, <2>4
<1>9. CASE ReadReturns(r)
  <2>1. CASE req[r].mode = "list"
    <3>1. req' = [req EXCEPT ![r] = [Idle EXCEPT !.pc = "answered", !.mode = "list"]]
      BY <1>9, <2>1 DEF ReadReturns, Step
    <3>2. LET x == [Idle EXCEPT !.pc = "answered", !.mode = "list"]
          IN  IsState(x) /\ x.pc = "answered"
      BY DEF Idle, IsState
    <3>3. QED
      BY <1>1, <2>1, <3>1, <3>2
  <2>2. CASE req[r].mode # "list"
    <3>1. PICK rows, n :
            req' = [req EXCEPT ![r] = [req[r] EXCEPT !.pc = "remember", !.rows = rows,
                                                     !.attempt = 0, !.parallel = FALSE,
                                                     !.total = n]]
      BY <1>9, <2>2 DEF ReadReturns, Step
    <3>2. LET x == [req[r] EXCEPT !.pc = "remember", !.rows = rows, !.attempt = 0,
                                  !.parallel = FALSE, !.total = n]
          IN  IsState(x) /\ x.pc = "remember" /\ x.mode = req[r].mode
      BY <1>1 DEF IsState
    <3>3. QED
      BY <1>1, <3>1, <3>2 DEF Over
  <2>3. QED
    BY <2>1, <2>2
<1>10. CASE Remember(r)
  <2>1. \/ req' = [req EXCEPT ![r] = [req[r] EXCEPT !.pc = "watch", !.copy = recent]]
        \/ req' = [req EXCEPT ![r] = [req[r] EXCEPT !.pc = "record"]]
    BY <1>10 DEF Remember, Step
  <2>2. LET x == [req[r] EXCEPT !.pc = "watch", !.copy = recent]
        IN  IsState(x) /\ x.pc = "watch" /\ x.mode = req[r].mode
    BY <1>1 DEF IsState
  <2>3. LET x == [req[r] EXCEPT !.pc = "record"]
        IN  IsState(x) /\ x.pc = "record" /\ x.mode = req[r].mode
    BY <1>1 DEF IsState
  <2>4. QED
    BY <1>1, <1>10, <2>1, <2>2, <2>3 DEF Over
<1>11. CASE Exec(r)
  BY <1>1, <1>11 DEF Exec, Step, IsState, Over
<1>12. QED
  BY <1>2, <1>3, <1>4, <1>5, <1>6, <1>7, <1>8, <1>9, <1>10, <1>11 DEF GoesOn

\* They keep the records.
LEMMA RequestKeeps ==
    ASSUME RecordInv, NEW r \in Requests, GoesOn(r)
    PROVE  RecordInv'
<1>1. UNCHANGED <<load, queue, diag, closing, storeOpen, events, refused>>
    BY DEF GoesOn, StartList, StartSearch, EngineRaises, EngineReturns, BeginRead, ReadAgain,
           ReadRaises, ReadReturns, Remember, Exec, catalogVars, closeVars
<1>2. req[r].pc \notin Over
    BY DEF GoesOn, StartList, StartSearch, Begins, EngineRaises, EngineReturns, BeginRead,
           ReadAgain, ReadRaises, ReadReturns, ReadOver, Remember, Exec, Over
<1>3. QED
    BY <1>1, <1>2, RequestGoesTo, RequestMoves

\* Submitting an event adds one to the events of a request, or to the refused
\* ones once the store is closed.
LEMMA SubmitCounts ==
    ASSUME RecordInv, NEW r \in Requests, Submit(r)
    PROVE  /\ events' \in [Requests -> Nat] /\ refused' \in [Requests -> Nat]
           /\ \A s \in Requests :
                events'[s] + refused'[s] = events[s] + refused[s] + (IF s = r THEN 1 ELSE 0)
           /\ \A s \in Requests : refused'[s] > 0 => ~storeOpen
<1>1. events \in [Requests -> Nat] /\ refused \in [Requests -> Nat]
    BY DEF RecordInv, RecordTypes
<1>2. CASE storeOpen
  <2>1. events' = [events EXCEPT ![r] = @ + 1] /\ refused' = refused
    BY <1>2 DEF Submit
  <2>2. \A s \in Requests : /\ events'[s] = IF s = r THEN events[s] + 1 ELSE events[s]
                            /\ events[s] \in Nat /\ refused[s] \in Nat
    BY <1>1, <2>1
  <2>3. events' \in [Requests -> Nat]
    BY <1>1, <2>1
  <2>4. QED
    BY <1>1, <2>1, <2>2, <2>3 DEF RecordInv
<1>3. CASE ~storeOpen
  <2>1. refused' = [refused EXCEPT ![r] = @ + 1] /\ events' = events
    BY <1>3 DEF Submit
  <2>2. \A s \in Requests : /\ refused'[s] = IF s = r THEN refused[s] + 1 ELSE refused[s]
                            /\ events[s] \in Nat /\ refused[s] \in Nat
    BY <1>1, <2>1
  <2>3. refused' \in [Requests -> Nat]
    BY <1>1, <2>1
  <2>4. QED
    BY <1>1, <1>3, <2>1, <2>2, <2>3
<1>4. QED
    BY <1>2, <1>3

\* A search ends with one event or one job.
LEMMA EndKeeps ==
    ASSUME RecordInv, NEW r \in Requests, Respond(r) \/ Fail(r)
    PROVE  RecordInv'
<1>1. UNCHANGED <<load, closing, storeOpen>>
    BY DEF Respond, Fail, catalogVars, closeVars
<1>2. /\ IsState(req[r]) /\ req = [s \in Requests |-> req[s]]
      /\ "pc" \in DOMAIN diag /\ "job" \in DOMAIN diag
      /\ queue \in Seq(Jobs)
      /\ events \in [Requests -> Nat] /\ refused \in [Requests -> Nat]
      /\ load.searches \subseteq Requests
    BY DEF RecordInv, RecordTypes
<1>3. PICK p \in Over : req' = [req EXCEPT ![r] = [req[r] EXCEPT !.pc = p]]
  <2>1. "answered" \in Over /\ "failed" \in Over
    BY DEF Over
  <2>2. QED
    BY <2>1 DEF Respond, Fail, Step
<1>4. PICK x : x = [req[r] EXCEPT !.pc = p] /\ IsState(x) /\ x.pc = p /\ x.mode = req[r].mode
  <2>1. /\ IsState([req[r] EXCEPT !.pc = p])
        /\ [req[r] EXCEPT !.pc = p].pc = p /\ [req[r] EXCEPT !.pc = p].mode = req[r].mode
    BY <1>2 DEF IsState
  <2>2. QED
    BY <2>1
<1>5. /\ req' = [s \in Requests |-> req'[s]]
      /\ \A s \in Requests : req'[s] = IF s = r THEN x ELSE req[s]
    BY <1>2, <1>3, <1>4
<1>6. req[r].pc \notin Over
    BY DEF Respond, Fail, Over
<1>7. /\ "pc" \in DOMAIN diag' /\ "job" \in DOMAIN diag' /\ diag'.job = diag.job
      /\ diag'.pc = diag.pc \/ (diag.pc = "off" /\ diag'.pc = "get")
    BY <1>2 DEF Respond, Fail
<1>8. JobInHand'
    BY <1>7 DEF RecordInv, JobInHand, AtWork
<1>9. CASE queue' = queue /\ Submit(r)
  <2>1. /\ events' \in [Requests -> Nat] /\ refused' \in [Requests -> Nat]
        /\ \A s \in Requests :
             events'[s] + refused'[s] = events[s] + refused[s] + (IF s = r THEN 1 ELSE 0)
        /\ \A s \in Requests : refused'[s] > 0 => ~storeOpen'
    BY <1>1, <1>9, SubmitCounts
  <2>2. RecordTypes'
    BY <1>1, <1>2, <1>4, <1>5, <1>7, <1>9, <2>1 DEF RecordInv, RecordTypes, IsState
  <2>3. StopIsLast'
    BY <1>1, <1>7, <1>9 DEF RecordInv, StopIsLast
  <2>4. SearchesCounted'
    <3>1. SUFFICES ASSUME NEW s \in load.searches
                   PROVE  /\ events'[s] + refused'[s] + Pending(s)' =
                               IF req'[s].pc \in Over THEN 1 ELSE 0
                          /\ req'[s].mode # "list"
      BY <1>1 DEF SearchesCounted
    <3>2. /\ events[s] + refused[s] + Pending(s) = IF req[s].pc \in Over THEN 1 ELSE 0
          /\ req[s].mode # "list" /\ s \in Requests
      BY <1>2, <3>1 DEF RecordInv, SearchesCounted
    <3>3. Pending(s)' = Pending(s) /\ Pending(s) \in Nat
      BY <1>7, <1>9, PendingJobs
    <3>4. PICK a \in Nat, b \in Nat, n \in Nat : a = events[s] /\ b = refused[s] /\ n = Pending(s)
      BY <1>2, <3>2, <3>3
    <3>5. events'[s] + refused'[s] = a + b + (IF s = r THEN 1 ELSE 0)
      BY <2>1, <3>2, <3>4
    <3>6. PICK y \in Nat : y = events'[s] + refused'[s]
      BY <2>1, <3>2
    <3>7. a + b + n = IF req[s].pc \in Over THEN 1 ELSE 0
      BY <3>2, <3>4
    <3>8. CASE s = r
      <4>1. a + b + n = 0 /\ y = a + b + 1
        BY <1>6, <3>5, <3>6, <3>7, <3>8
      <4>2. y + n = 1
        BY <4>1
      <4>3. req'[s].pc \in Over /\ req'[s].mode # "list"
        BY <1>4, <1>5, <3>2, <3>8
      <4>4. QED
        BY <3>3, <3>4, <3>6, <4>2, <4>3
    <3>9. CASE s # r
      <4>1. y + n = IF req[s].pc \in Over THEN 1 ELSE 0
        BY <3>5, <3>6, <3>7, <3>9
      <4>2. QED
        BY <1>5, <3>2, <3>3, <3>4, <3>6, <3>9, <4>1
    <3>10. QED
      BY <3>8, <3>9
  <2>5. QED
    BY <1>8, <2>1, <2>2, <2>3, <2>4 DEF RecordInv
<1>10. CASE queue' = Append(queue, r) /\ UNCHANGED <<events, refused>> /\ closing = "open"
  <2>1. r \in Jobs /\ r # Stop
    BY DEF Jobs
  <2>2. queue' \in Seq(Jobs)
    BY <1>2, <1>10, <2>1
  <2>3. RecordTypes'
    BY <1>1, <1>2, <1>4, <1>5, <1>7, <1>10, <2>2 DEF RecordInv, RecordTypes, IsState
  <2>4. StopIsLast'
    <3>1. diag.pc # "stopped" /\ \A i \in 1 .. Len(queue) : queue[i] # Stop
      BY <1>10 DEF RecordInv, StopIsLast
    <3>2. \A i \in 1 .. Len(queue') : queue'[i] # Stop
      BY <1>2, <1>10, <2>1, <3>1
    <3>3. diag'.pc # "stopped"
      BY <1>7, <3>1
    <3>4. QED
      BY <3>2, <3>3 DEF StopIsLast
  <2>5. SearchesCounted'
    <3>1. SUFFICES ASSUME NEW s \in load.searches
                   PROVE  /\ events[s] + refused[s] + Pending(s)' =
                               IF req'[s].pc \in Over THEN 1 ELSE 0
                          /\ req'[s].mode # "list"
      BY <1>1, <1>10 DEF SearchesCounted
    <3>2. /\ events[s] + refused[s] + Pending(s) = IF req[s].pc \in Over THEN 1 ELSE 0
          /\ req[s].mode # "list" /\ s \in Requests
      BY <1>2, <3>1 DEF RecordInv, SearchesCounted
    <3>3. /\ Times(queue, s) \in Nat
          /\ Times(queue', s) = IF r = s THEN Times(queue, s) + 1 ELSE Times(queue, s)
      BY <1>2, <1>10, <2>1, TimesAppend
    <3>4. PICK n \in Nat : n = Pending(s) /\ Pending(s)' = IF r = s THEN n + 1 ELSE n
      <4>1. PICK k \in Nat : k = Times(queue, s)
        BY <3>3
      <4>2. Pending(s) = k + (IF diag.job = s THEN 1 ELSE 0)
        BY <4>1, PendingJobs
      <4>3. Pending(s)' = (IF r = s THEN k + 1 ELSE k) + (IF diag.job = s THEN 1 ELSE 0)
        BY <1>7, <3>3, <4>1, PendingJobs
      <4>4. QED
        BY <4>2, <4>3
    <3>5. PICK a \in Nat, b \in Nat : a = events[s] /\ b = refused[s]
      BY <1>2, <3>2
    <3>6. a + b + n = IF req[s].pc \in Over THEN 1 ELSE 0
      BY <3>2, <3>4, <3>5
    <3>7. CASE s = r
      <4>1. a + b + (n + 1) = 1
        BY <1>6, <3>6, <3>7
      <4>2. req'[s].pc \in Over /\ req'[s].mode # "list"
        BY <1>4, <1>5, <3>2, <3>7
      <4>3. QED
        BY <3>4, <3>5, <3>7, <4>1, <4>2
    <3>8. CASE s # r
      BY <1>5, <3>2, <3>4, <3>8
    <3>9. QED
      BY <3>7, <3>8
  <2>6. QED
    BY <1>1, <1>8, <1>10, <2>3, <2>4, <2>5 DEF RecordInv
<1>11. QED
    BY <1>9, <1>10 DEF Respond, Fail, MayEnqueue

\* The worker goes on with the job it has.
LEMMA DiagGoesOn ==
    ASSUME RecordInv, DiagAsk \/ DiagQuery \/ DiagRead
    PROVE  RecordInv'
<1>1. UNCHANGED <<load, req, queue, closing, storeOpen, events, refused>>
    BY DEF DiagAsk, DiagQuery, DiagRead, catalogVars, closeVars
<1>2. "pc" \in DOMAIN diag /\ "job" \in DOMAIN diag
    BY DEF RecordInv, RecordTypes
<1>3. /\ "pc" \in DOMAIN diag' /\ "job" \in DOMAIN diag' /\ diag'.job = diag.job
      /\ diag'.pc = diag.pc \/ (diag.pc \in AtWork /\ diag'.pc \in AtWork)
  <2>1. CASE DiagAsk
    <3>1. PICK n : diag' = [diag EXCEPT !.pc = "count", !.attempt = n, !.blocking = {}]
      BY <2>1 DEF DiagAsk, Diag
    <3>2. QED
      BY <1>2, <2>1, <3>1 DEF DiagAsk, AtWork
  <2>2. CASE DiagQuery
    <3>1. diag' = diag \/ \E b : diag' = [diag EXCEPT !.blocking = b]
      BY <2>2 DEF DiagQuery, Diag
    <3>2. QED
      BY <1>2, <3>1
  <2>3. CASE DiagRead
    <3>1. \/ diag' = [diag EXCEPT !.pc = "counted"] \/ diag' = [diag EXCEPT !.pc = "ask"]
          \/ diag' = [diag EXCEPT !.pc = "unknown", !.blocking = {}]
      BY <2>3 DEF DiagRead, Diag
    <3>2. diag.pc = "count"
      BY <2>3 DEF DiagRead
    <3>3. QED
      BY <1>2, <3>1, <3>2 DEF AtWork
  <2>4. QED
    BY <2>1, <2>2, <2>3
<1>4. RecordTypes'
    BY <1>1, <1>3 DEF RecordInv, RecordTypes, IsState
<1>5. JobInHand'
    BY <1>3 DEF RecordInv, JobInHand, AtWork
<1>6. StopIsLast'
    BY <1>1, <1>3 DEF RecordInv, StopIsLast, AtWork
<1>7. SearchesCounted'
  <2>1. \A s : Pending(s)' = Pending(s)
    BY <1>1, <1>3 DEF Pending
  <2>2. QED
    BY <1>1, <2>1, Zenon DEF RecordInv, SearchesCounted
<1>8. QED
    BY <1>1, <1>4, <1>5, <1>6, <1>7 DEF RecordInv

\* The worker takes the oldest job, or the stop mark, which was the only one.
LEMMA DiagTakes ==
    ASSUME RecordInv, DiagTake
    PROVE  RecordInv'
<1>1. /\ UNCHANGED <<load, req, closing, storeOpen, events, refused>>
      /\ diag.pc = "get" /\ queue # <<>> /\ queue' = Tail(queue)
    BY DEF DiagTake, catalogVars, closeVars
<1>2. /\ "pc" \in DOMAIN diag /\ "job" \in DOMAIN diag /\ diag.job = None
      /\ queue \in Seq(Jobs)
    BY <1>1 DEF RecordInv, RecordTypes, JobInHand
<1>3. PICK h \in Jobs : h = Head(queue)
    BY <1>1, <1>2
<1>4. /\ "pc" \in DOMAIN diag' /\ "job" \in DOMAIN diag'
      /\ h = Stop => diag'.pc = "stopped" /\ diag'.job = None
      /\ h # Stop => diag'.pc = "ask" /\ diag'.job = h /\ h \in Requests
  <2>1. diag' = IF h = Stop THEN [diag EXCEPT !.pc = "stopped"]
                ELSE [diag EXCEPT !.pc = "ask", !.job = h, !.attempt = 0]
    BY <1>3 DEF DiagTake, Diag
  <2>2. CASE h = Stop
    BY <1>2, <2>1, <2>2
  <2>3. CASE h # Stop
    BY <1>2, <1>3, <2>1, <2>3 DEF Jobs
  <2>4. QED
    BY <2>2, <2>3
<1>5. queue' \in Seq(Jobs)
    BY <1>1, <1>2
<1>6. RecordTypes'
    BY <1>1, <1>4, <1>5 DEF RecordInv, RecordTypes, IsState
<1>7. JobInHand'
    BY <1>4 DEF JobInHand, AtWork
<1>8. StopIsLast'
  <2>1. /\ Len(queue) \in Nat \ {0} /\ Len(queue') = Len(queue) - 1
        /\ h = queue[1]
        /\ \A i \in 1 .. (Len(queue) - 1) : queue'[i] = queue[i + 1]
    BY <1>1, <1>2, <1>3
  <2>2. \A i \in 1 .. Len(queue') : queue'[i] # Stop
    <3>1. SUFFICES ASSUME NEW i \in 1 .. Len(queue'), queue'[i] = Stop PROVE FALSE
      OBVIOUS
    <3>2. i + 1 \in 1 .. Len(queue) /\ queue[i + 1] = Stop /\ Len(queue) > 1
      BY <2>1, <3>1
    <3>3. queue = <<Stop>>
      BY <3>2 DEF RecordInv, StopIsLast
    <3>4. Len(<<Stop>>) = 1
      OBVIOUS
    <3>5. QED
      BY <3>2, <3>3, <3>4
  <2>3. CASE h = Stop
    <3>1. 1 \in 1 .. Len(queue) /\ queue[1] = Stop
      BY <2>1, <2>3
    <3>2. queue = <<Stop>> /\ closing \notin {"open", "drain"}
      BY <3>1 DEF RecordInv, StopIsLast
    <3>3. Tail(<<Stop>>) = <<>>
      OBVIOUS
    <3>4. queue' = <<>>
      BY <1>1, <3>2, <3>3
    <3>5. QED
      BY <1>1, <2>2, <3>2, <3>4 DEF StopIsLast
  <2>4. CASE h # Stop
    BY <1>1, <1>4, <2>2, <2>4 DEF StopIsLast
  <2>5. QED
    BY <2>3, <2>4
<1>9. SearchesCounted'
  <2>1. ASSUME NEW s \in Requests PROVE Pending(s)' = Pending(s)
    <3>1. /\ Times(queue, s) \in Nat /\ Times(queue', s) \in Nat
          /\ Times(queue, s) = IF h = s THEN Times(queue', s) + 1 ELSE Times(queue', s)
      BY <1>1, <1>2, <1>3, TimesTail
    <3>2. PICK k \in Nat : k = Times(queue', s)
      BY <3>1
    <3>3. Pending(s) = IF h = s THEN k + 1 ELSE k
      <4>1. diag.job # s
        BY <1>2
      <4>2. Pending(s) = Times(queue, s) + 0
        BY <4>1, PendingJobs
      <4>3. QED
        BY <3>1, <3>2, <4>2
    <3>4. Pending(s)' = k + (IF diag'.job = s THEN 1 ELSE 0)
      BY <3>2, PendingJobs
    <3>5. diag'.job = s <=> h = s
      BY <1>4
    <3>6. QED
      BY <3>3, <3>4, <3>5
  <2>2. load.searches \subseteq Requests
    BY DEF RecordInv, RecordTypes
  <2>3. \A s \in load.searches : Pending(s)' = Pending(s)
    BY <2>1, <2>2
  <2>4. QED
    BY <1>1, <2>3, Zenon DEF RecordInv, SearchesCounted
<1>10. QED
    BY <1>1, <1>6, <1>7, <1>8, <1>9 DEF RecordInv

\* The worker's event takes the place of its job.
LEMMA DiagRecords ==
    ASSUME RecordInv, DiagRecord
    PROVE  RecordInv'
<1>1. /\ UNCHANGED <<load, req, queue, closing, storeOpen>>
      /\ diag.pc \in {"counted", "unknown"} /\ Submit(diag.job)
      /\ diag' = [diag EXCEPT !.pc = "get", !.job = None, !.blocking = {}]
    BY DEF DiagRecord, Diag, catalogVars, closeVars
<1>2. PICK r \in Requests : r = diag.job
    BY <1>1 DEF RecordInv, JobInHand, AtWork
<1>3. /\ events' \in [Requests -> Nat] /\ refused' \in [Requests -> Nat]
      /\ \A s \in Requests :
           events'[s] + refused'[s] = events[s] + refused[s] + (IF s = r THEN 1 ELSE 0)
      /\ \A s \in Requests : refused'[s] > 0 => ~storeOpen
    BY <1>1, <1>2, SubmitCounts
<1>4. "pc" \in DOMAIN diag' /\ "job" \in DOMAIN diag' /\ diag'.pc = "get" /\ diag'.job = None
    BY <1>1 DEF RecordInv, RecordTypes
<1>5. RecordTypes'
    BY <1>1, <1>3, <1>4 DEF RecordInv, RecordTypes, IsState
<1>6. JobInHand' /\ StopIsLast'
    BY <1>1, <1>4 DEF RecordInv, JobInHand, StopIsLast, AtWork
<1>7. SearchesCounted'
  <2>1. SUFFICES ASSUME NEW s \in load.searches
                 PROVE  events'[s] + refused'[s] + Pending(s)' = events[s] + refused[s] + Pending(s)
    BY <1>1, Zenon DEF RecordInv, SearchesCounted
  <2>2. s \in Requests
    BY <2>1 DEF RecordInv, RecordTypes
  <2>3. PICK a \in Nat, b \in Nat, k \in Nat : a = events[s] /\ b = refused[s] /\ k = Times(queue, s)
    BY <2>2, PendingJobs DEF RecordInv, RecordTypes
  <2>4. Pending(s) = k + (IF s = r THEN 1 ELSE 0)
    BY <1>2, <2>3, PendingJobs
  <2>5. Pending(s)' = k
    <3>1. Pending(s)' = k + 0
      BY <1>1, <1>4, <2>2, <2>3, PendingJobs
    <3>2. QED
      BY <3>1
  <2>6. PICK y \in Nat : y = events'[s] + refused'[s]
    BY <1>3, <2>2
  <2>7. y = a + b + (IF s = r THEN 1 ELSE 0)
    BY <1>3, <2>2, <2>3, <2>6
  <2>8. y + k = a + b + (k + (IF s = r THEN 1 ELSE 0))
    BY <2>7
  <2>9. QED
    BY <2>3, <2>4, <2>5, <2>6, <2>8
<1>8. QED
    BY <1>1, <1>3, <1>5, <1>6, <1>7 DEF RecordInv

\* Closing: the stop mark finds the queue empty, and the store stays closed.
LEMMA CloseKeeps ==
    ASSUME RecordInv, CompatClose \/ CompatStop \/ CompatGivesUp \/ StoreClose \/ EngineClose
    PROVE  RecordInv'
<1>1. /\ UNCHANGED <<load, req, diag, events, refused>>
      /\ storeOpen' = storeOpen \/ storeOpen' = FALSE
    BY DEF CompatClose, CompatStop, CompatGivesUp, StoreClose, EngineClose, catalogVars
<1>2. CASE CompatStop
  <2>1. /\ closing = "drain" /\ closing' = "join" /\ queue' = Append(queue, Stop)
        /\ Unfinished = 0
    BY <1>2 DEF CompatStop, CloseStep
  <2>2. queue \in Seq(Jobs) /\ Stop \in Jobs /\ Len(queue) \in Nat
    BY DEF RecordInv, RecordTypes, Jobs
  <2>3. Len(queue) = 0
    BY <2>1, <2>2 DEF Unfinished
  <2>4. queue = <<>>
    BY <2>2, <2>3
  <2>5. Append(<<>>, Stop) = <<Stop>>
    OBVIOUS
  <2>6. queue' = <<Stop>> /\ queue' \in Seq(Jobs)
    BY <2>1, <2>2, <2>4, <2>5
  <2>7. RecordTypes' /\ JobInHand'
    BY <1>1, <2>6 DEF RecordInv, RecordTypes, JobInHand, IsState
  <2>8. StopIsLast'
    BY <1>1, <2>1, <2>6 DEF RecordInv, StopIsLast
  <2>9. SearchesCounted'
    <3>1. ASSUME NEW s \in Requests PROVE Pending(s)' = Pending(s)
      <4>1. Times(queue', s) = Times(queue, s)
        BY <2>1, <2>2, TimesAppend
      <4>2. QED
        BY <1>1, <4>1, PendingJobs
    <3>2. load.searches \subseteq Requests
      BY DEF RecordInv, RecordTypes
    <3>3. \A s \in load.searches : Pending(s)' = Pending(s)
      BY <3>1, <3>2
    <3>4. QED
      BY <1>1, <3>3, Zenon DEF RecordInv, SearchesCounted
  <2>10. QED
    BY <1>1, <2>7, <2>8, <2>9 DEF RecordInv
<1>3. CASE ~CompatStop
  <2>1. /\ queue' = queue
        /\ closing' \in {"open", "drain"} => closing \in {"open", "drain"}
    BY <1>3 DEF CompatClose, CompatGivesUp, StoreClose, EngineClose, CloseStep
  <2>2. RecordTypes' /\ JobInHand' /\ StopIsLast'
    BY <1>1, <2>1 DEF RecordInv, RecordTypes, JobInHand, StopIsLast, IsState
  <2>3. \A s : Pending(s)' = Pending(s)
    BY <1>1, <2>1 DEF Pending
  <2>4. SearchesCounted'
    BY <1>1, <2>3, Zenon DEF RecordInv, SearchesCounted
  <2>5. QED
    BY <1>1, <2>2, <2>4 DEF RecordInv
<1>4. QED
    BY <1>2, <1>3

\* At first there is nothing to record.
LEMMA RecordsStart == GainrInit => RecordInv
<1> SUFFICES ASSUME GainrInit PROVE RecordInv
    OBVIOUS
<1>1. RecordTypes
  <2>1. IsState(Idle)
    BY DEF Idle, IsState
  <2>2. "pc" \in DOMAIN diag /\ "job" \in DOMAIN diag
    BY DEF GainrInit
  <2>3. QED
    BY <2>1, <2>2 DEF GainrInit, RecordTypes
<1>2. JobInHand /\ StopIsLast
    BY DEF GainrInit, JobInHand, StopIsLast, AtWork
<1>3. SearchesCounted
  <2>1. SUFFICES ASSUME NEW s \in load.searches
                 PROVE  /\ events[s] + refused[s] + Pending(s) =
                             IF req[s].pc \in Over THEN 1 ELSE 0
                        /\ req[s].mode # "list"
    BY DEF SearchesCounted
  <2>2. s \in Requests
    BY <2>1 DEF GainrInit
  <2>3. req[s].pc \notin Over /\ req[s].mode # "list"
    BY <2>2 DEF GainrInit, Idle, Over
  <2>4. {i \in 1 .. Len(queue) : queue[i] = s} = {}
    BY DEF GainrInit
  <2>5. Pending(s) = 0
    BY <2>2, <2>4, FS_EmptySet DEF GainrInit, Pending
  <2>6. QED
    BY <2>2, <2>3, <2>5 DEF GainrInit
<1>4. QED
    BY <1>1, <1>2, <1>3 DEF RecordInv, GainrInit

\* Every step keeps the records.
LEMMA RecordsNext ==
    ASSUME RecordInv, [GainrNext]_allVars
    PROVE  RecordInv'
<1>1. ASSUME NEW r \in Requests, RequestStep(r) PROVE RecordInv'
  <2>1. CASE Respond(r) \/ Fail(r)
    BY <2>1, EndKeeps
  <2>2. CASE \E i \in {1, 2} : Query(r, i)
    <3>1. UNCHANGED <<load, req, queue, diag, closing, storeOpen, events, refused>>
      BY <2>2 DEF Query, catalogVars, closeVars
    <3>2. QED
      BY <3>1, OthersKeep
  <2>3. CASE GoesOn(r)
    BY <2>3, RequestKeeps
  <2>4. QED
    BY <1>1, <2>1, <2>2, <2>3 DEF RequestStep, GoesOn
<1>2. CASE DiagStep
    BY <1>2, DiagTakes, DiagGoesOn, DiagRecords DEF DiagStep
<1>3. CASE CompatClose \/ CompatStop \/ CompatGivesUp \/ StoreClose \/ EngineClose
    BY <1>3, CloseKeeps
<1>4. CASE \/ \E w \in Workers : ReadStep(w)
           \/ \E a \in Ads, status \in {"on", "off", "deleted"} : SwitchAd(a, status)
           \/ Etl \/ \E key \in DOMAIN lists : ListExpires(key)
           \/ UNCHANGED gainrVars
           \/ UNCHANGED allVars
  <2>1. UNCHANGED <<load, req, queue, diag, closing, storeOpen, events, refused>>
    BY <1>4 DEF ReadStep, SwitchAd, Etl, ListExpires, allVars, gainrVars, catalogVars, closeVars
  <2>2. QED
    BY <2>1, OthersKeep
<1>5. QED
    BY <1>1, <1>2, <1>3, <1>4 DEF GainrNext

\* Every search that ends leaves exactly one event, one that the closed store
\* refused, or one job, which is never behind the stop mark: close() loses only
\* what its deadline cuts off (_defer_zero_result_analytics,
\* _run_zero_result_diagnostics, close).
THEOREM RecordsHold == GainrSpec => []ZeroResultsRecordedOnce
<1>1. RecordInv /\ [GainrNext]_allVars => RecordInv'
    BY RecordsNext
<1>2. QED
    BY <1>1, RecordsStart, RecordsImply, PTL DEF GainrSpec
-----------------------------------------------------------------------------
(* Recent searches are kept. *)

\* The positions of a list that hold another term, and an order of them.
Kept(list, term) == {i \in DOMAIN list : list[i] # term}
Ascending(f, n) == \A i, j \in 1 .. n : i < j => f[i] < f[j]

\* One term, which is in the list once or not at all, leaves an ascending list of
\* the positions of the others.
LEMMA OrderOfKept ==
    ASSUME NEW T, NEW list \in Seq(T), NEW term, IsInjective(list)
    PROVE  LET n == Cardinality(Kept(list, term))
           IN  /\ n \in Nat /\ (n = Len(list) \/ n = Len(list) - 1)
               /\ \E f \in Bijection(1 .. n, Kept(list, term)) : Ascending(f, n)
<1> DEFINE l == Len(list)
<1>1. l \in Nat /\ DOMAIN list = 1 .. l
    OBVIOUS
<1>2. /\ IsFiniteSet(1 .. l)
      /\ Cardinality(1 .. l) = l
    <2>1. /\ 1 \in Int /\ l \in Int
          /\ (IF 1 > l THEN 0 ELSE l - 1 + 1) = l
      BY <1>1
    <2>2. QED
      BY <2>1, FS_Interval
<1>3. CASE \A i \in 1 .. l : list[i] # term
    <2>1. Kept(list, term) = 1 .. l
      BY <1>1, <1>3 DEF Kept
    <2>2. [i \in 1 .. l |-> i] \in Bijection(1 .. l, 1 .. l)
      BY <1>1 DEF Bijection, Injection, Surjection, IsInjective
    <2>3. Ascending([i \in 1 .. l |-> i], l)
      BY <1>1 DEF Ascending
    <2>4. QED
      BY <1>1, <1>2, <2>1, <2>2, <2>3
<1>4. CASE \E i \in 1 .. l : list[i] = term
    <2>1. PICK p \in 1 .. l : list[p] = term
      BY <1>4
    <2>2. Kept(list, term) = (1 .. l) \ {p}
      BY <1>1, <2>1 DEF Kept, IsInjective
    <2>3. Cardinality((1 .. l) \ {p}) = l - 1
      <3>1. PICK U : U = 1 .. l
        OBVIOUS
      <3>2. IsFiniteSet(U) /\ p \in U /\ Cardinality(U) = l
        BY <1>2, <2>1, <3>1
      <3>3. Cardinality(U \ {p}) = Cardinality(U) - 1
        BY <3>2, FS_RemoveElement
      <3>4. QED
        BY <3>1, <3>2, <3>3
    <2> DEFINE f == [i \in 1 .. (l - 1) |-> IF i < p THEN i ELSE i + 1]
    <2>4. f \in [1 .. (l - 1) -> (1 .. l) \ {p}]
      BY <1>1
    <2>5. \A a, b \in 1 .. (l - 1) : f[a] = f[b] => a = b
      BY <1>1
    <2>6. ASSUME NEW m \in (1 .. l) \ {p} PROVE \E i \in 1 .. (l - 1) : f[i] = m
      <3>1. CASE m < p
        <4>1. m \in 1 .. (l - 1) /\ f[m] = m
          BY <1>1, <3>1
        <4>2. QED
          BY <4>1
      <3>2. CASE m > p
        <4>1. m - 1 \in 1 .. (l - 1) /\ f[m - 1] = m
          BY <1>1, <3>2
        <4>2. QED
          BY <4>1
      <3>3. QED
        BY <1>1, <3>1, <3>2
    <2>7. Ascending(f, l - 1)
      BY <1>1 DEF Ascending
    <2>8. DOMAIN f = 1 .. (l - 1)
      OBVIOUS
    <2> HIDE DEF f
    <2>9. f \in Bijection(1 .. (l - 1), (1 .. l) \ {p})
      BY <2>4, <2>5, <2>6, <2>8 DEF Bijection, Injection, Surjection, IsInjective
    <2>10. l - 1 \in Nat
      BY <1>1, <2>1
    <2>11. QED
      BY <2>2, <2>3, <2>7, <2>9, <2>10
<1>5. QED
    BY <1>3, <1>4

\* A list of the other terms of a list.
HasOthers(o, list, term) ==
    /\ Len(o) = Len(list) \/ Len(o) = Len(list) - 1
    /\ \A i \in 1 .. Len(o) : o[i] # term
    /\ \A i, j \in 1 .. Len(o) : o[i] = o[j] => i = j
    /\ \A i \in 1 .. Len(list) : list[i] # term => \E j \in 1 .. Len(o) : o[j] = list[i]

\* What is left of a list without an entry.
LEMMA OthersAreKept ==
    ASSUME NEW T, NEW list \in Seq(T), NEW term, IsInjective(list)
    PROVE  Others(list, term) \in Seq(T) /\ HasOthers(Others(list, term), list, term)
<1>1. PICK S : S = Range(list) \ {term}
    OBVIOUS
<1>2. PICK K : K = {i \in DOMAIN list : list[i] \in S}
    OBVIOUS
<1>3. PICK n : n = Cardinality(K)
    OBVIOUS
<1>4. PICK at : at = CHOOSE g \in Bijection(1 .. n, K) : \A i, j \in 1 .. n : i < j => g[i] < g[j]
    OBVIOUS
<1>5. K = Kept(list, term)
  <2>1. \A i \in DOMAIN list : list[i] \in S <=> list[i] # term
    BY <1>1 DEF Range
  <2>2. QED
    BY <1>2, <2>1 DEF Kept
<1>6. /\ n \in Nat /\ (n = Len(list) \/ n = Len(list) - 1)
      /\ \E g \in Bijection(1 .. n, K) : Ascending(g, n)
    BY <1>3, <1>5, OrderOfKept
<1>7. at \in Bijection(1 .. n, Kept(list, term))
  <2>1. \E g \in Bijection(1 .. n, K) : \A i, j \in 1 .. n : i < j => g[i] < g[j]
    BY <1>6 DEF Ascending
  <2>2. QED
    BY <1>4, <1>5, <2>1
<1>8. Others(list, term) = [i \in 1 .. n |-> list[at[i]]]
  <2>1. Others(list, term) = Among(list, S)
    BY <1>1 DEF Others
  <2>2. Among(list, S) = [i \in 1 .. n |-> list[at[i]]]
    BY <1>2, <1>3, <1>4 DEF Among
  <2>3. QED
    BY <2>1, <2>2
<1>9. /\ \A i \in 1 .. n : at[i] \in DOMAIN list /\ list[at[i]] # term
      /\ \A i, j \in 1 .. n : at[i] = at[j] => i = j
      /\ \A m \in DOMAIN list : list[m] # term => \E i \in 1 .. n : at[i] = m
    <2>1. at \in [1 .. n -> Kept(list, term)]
      BY <1>7 DEF Bijection, Injection
    <2>2. \A i, j \in 1 .. n : at[i] = at[j] => i = j
      BY <1>7, <2>1 DEF Bijection, Injection, IsInjective
    <2>3. \A m \in Kept(list, term) : \E i \in 1 .. n : at[i] = m
      BY <1>7, <2>1 DEF Bijection, Surjection
    <2>4. QED
      BY <2>1, <2>2, <2>3 DEF Kept
<1>10. PICK o : o = [i \in 1 .. n |-> list[at[i]]]
    OBVIOUS
<1>11. /\ o \in Seq(T) /\ Len(o) = n /\ \A i \in 1 .. n : o[i] = list[at[i]]
    BY <1>6, <1>9, <1>10
<1>12. \A i, j \in 1 .. n : o[i] = o[j] => i = j
    BY <1>9, <1>11 DEF IsInjective
<1>13. \A m \in 1 .. Len(list) : list[m] # term => \E i \in 1 .. n : o[i] = list[m]
    BY <1>9, <1>11
<1>14. \A i \in 1 .. n : o[i] # term
    BY <1>9, <1>11
<1>15. HasOthers(o, list, term)
    BY <1>6, <1>11, <1>12, <1>13, <1>14 DEF HasOthers
<1>16. QED
    BY <1>8, <1>10, <1>11, <1>15

\* What prepending a term makes of a list of recent searches.
Renewed(r, list, term) ==
    /\ Len(r) <= RecentLimit /\ IsInjective(r) /\ term \in Range(r)
    /\ \A x \in Range(list) : x \in Range(r) \/ Len(r) = RecentLimit
    /\ Len(list) = RecentLimit => Len(r) = RecentLimit

\* An entry put in front of what is left of a list.
LEMMA PrependedRenews ==
    ASSUME NEW T, NEW list \in Seq(T), NEW term \in T, IsInjective(list)
    PROVE  Prepended(list, term) \in Seq(T) /\ Renewed(Prepended(list, term), list, term)
<1> USE RecentAssumption
<1>1. PICK o \in Seq(T) : o = Others(list, term) /\ HasOthers(o, list, term)
    BY OthersAreKept
<1>2. PICK all \in Seq(T) : all = <<term>> \o o
    <2>1. <<term>> \in Seq(T)
      OBVIOUS
    <2>2. <<term>> \o o \in Seq(T)
      BY <1>1, <2>1
    <2>3. QED
      BY <2>2
<1>3. /\ Len(list) \in Nat /\ Len(o) \in Nat /\ Len(all) = Len(o) + 1 /\ all[1] = term
      /\ \A i \in 2 .. Len(all) : i - 1 \in 1 .. Len(o) /\ all[i] = o[i - 1]
    BY <1>2
<1>4. PICK k : k = Min({RecentLimit, Len(all)})
    OBVIOUS
<1>5. k \in 1 .. Len(all) /\ k <= RecentLimit /\ (k = RecentLimit \/ k = Len(all))
    <2>1. \E x \in {RecentLimit, Len(all)} : \A y \in {RecentLimit, Len(all)} : x =< y
      BY <1>3
    <2>2. /\ k \in {RecentLimit, Len(all)}
          /\ \A y \in {RecentLimit, Len(all)} : k =< y
      BY <1>4, <2>1 DEF Min
    <2>3. QED
      BY <1>3, <2>2
<1>6. PICK r : r = SubSeq(all, 1, k)
    OBVIOUS
<1>7. r \in Seq(T) /\ Len(r) = k /\ \A i \in 1 .. k : r[i] = all[i]
    BY <1>3, <1>5, <1>6
<1>8. \A i, j \in 1 .. Len(all) : all[i] = all[j] => i = j
    <2>1. SUFFICES ASSUME NEW i \in 1 .. Len(all), NEW j \in 1 .. Len(all), all[i] = all[j]
                   PROVE  i = j
      OBVIOUS
    <2>2. i = 1 \/ i \in 2 .. Len(all)
      BY <1>3
    <2>3. j = 1 \/ j \in 2 .. Len(all)
      BY <1>3
    <2>4. CASE i = 1 /\ j \in 2 .. Len(all)
      BY <1>1, <1>3, <2>1, <2>4 DEF HasOthers
    <2>5. CASE j = 1 /\ i \in 2 .. Len(all)
      BY <1>1, <1>3, <2>1, <2>5 DEF HasOthers
    <2>6. CASE i \in 2 .. Len(all) /\ j \in 2 .. Len(all)
      <3>1. /\ i - 1 \in 1 .. Len(o) /\ all[i] = o[i - 1]
            /\ j - 1 \in 1 .. Len(o) /\ all[j] = o[j - 1]
        BY <1>3, <2>6
      <3>2. o[i - 1] = o[j - 1]
        BY <2>1, <3>1
      <3>3. \A a, b \in 1 .. Len(o) : o[a] = o[b] => a = b
        BY <1>1 DEF HasOthers
      <3>4. i - 1 = j - 1
        BY <3>1, <3>2, <3>3
      <3>5. QED
        BY <2>6, <3>4
    <2>7. QED
      BY <2>2, <2>3, <2>4, <2>5, <2>6
<1>9. DOMAIN r = 1 .. k /\ DOMAIN list = 1 .. Len(list)
    BY <1>3, <1>7
<1>10. IsInjective(r)
    <2>1. \A i \in 1 .. k : i \in 1 .. Len(all)
      BY <1>3, <1>5
    <2>2. QED
      BY <1>7, <1>8, <1>9, <2>1 DEF IsInjective
<1>11. term \in Range(r)
    <2>1. 1 \in 1 .. k
      BY <1>5
    <2>2. QED
      BY <1>3, <1>7, <1>9, <2>1 DEF Range
<1>12. ASSUME NEW x \in Range(list), Len(r) # RecentLimit PROVE x \in Range(r)
    <2>1. k = Len(all)
      BY <1>5, <1>7, <1>12
    <2>2. CASE x = term
      BY <1>11, <2>2
    <2>3. CASE x # term
      <3>1. PICK i \in 1 .. Len(list) : list[i] = x
        BY <1>9 DEF Range
      <3>2. PICK j \in 1 .. Len(o) : o[j] = x
        BY <1>1, <2>3, <3>1 DEF HasOthers
      <3>3. j + 1 \in 2 .. Len(all) /\ (j + 1) - 1 = j /\ j + 1 \in 1 .. k
        BY <1>3, <2>1
      <3>4. r[j + 1] = x
        BY <1>3, <1>7, <3>2, <3>3
      <3>5. QED
        BY <1>9, <3>3, <3>4 DEF Range
    <2>4. QED
      BY <2>2, <2>3
<1>13. Len(list) = RecentLimit => Len(r) = RecentLimit
    BY <1>1, <1>3, <1>5, <1>7 DEF HasOthers
<1>14. Renewed(r, list, term)
    BY <1>5, <1>7, <1>10, <1>11, <1>12, <1>13 DEF Renewed
<1>15. Prepended(list, term) = r
    BY <1>1, <1>2, <1>4, <1>6 DEF Prepended
<1>16. QED
    BY <1>7, <1>14, <1>15

\* The terms that are searched for.
Terms == {q(r).term : r \in Requests}

\* A search that is past remember_search.
Remembered(r) == req[r].pc \in {"record", "answered"}

\* The inductive invariant of the recent searches.
RecentInv ==
    /\ recent \in Seq(Terms) /\ Len(recent) <= RecentLimit /\ IsInjective(recent)
    /\ \A r \in load.searches : Remembered(r) /\ Remembers(r) =>
         q(r).term \in Range(recent) \/ Len(recent) = RecentLimit

\* Where the list stays, and no search passes remember_search that is remembered.
LEMMA RecentQuiet ==
    ASSUME RecentInv, UNCHANGED <<load, recent>>,
           \A r \in load.searches : Remembered(r)' /\ Remembers(r) => Remembered(r)
    PROVE  RecentInv'
<1>1. Terms' = Terms /\ \A r : Remembers(r)' = Remembers(r) /\ q(r)' = q(r)
    BY DEF Terms, Remembers, q
<1>2. QED
    BY <1>1 DEF RecentInv

\* Where a term is prepended, and only its search passes remember_search.
LEMMA RecentRenewed ==
    ASSUME RecentInv, NEW r \in Requests, recent' = Prepended(recent, q(r).term),
           UNCHANGED load, \A s \in load.searches \ {r} : Remembered(s)' => Remembered(s)
    PROVE  RecentInv'
<1>1. Terms' = Terms /\ \A s : Remembers(s)' = Remembers(s) /\ q(s)' = q(s)
    BY DEF Terms, Remembers, q
<1>2. q(r).term \in Terms
    BY DEF Terms
<1>3. recent' \in Seq(Terms) /\ Renewed(recent', recent, q(r).term)
    BY <1>2, PrependedRenews DEF RecentInv
<1>4. ASSUME NEW s \in load.searches, Remembered(s)', Remembers(s)
      PROVE  q(s).term \in Range(recent') \/ Len(recent') = RecentLimit
    <2>1. CASE s = r
      BY <1>3, <2>1 DEF Renewed
    <2>2. CASE s # r
      <3>1. q(s).term \in Range(recent) \/ Len(recent) = RecentLimit
        BY <1>4, <2>2 DEF RecentInv
      <3>2. QED
        BY <1>3, <3>1 DEF Renewed
    <2>3. QED
      BY <2>1, <2>2
<1>5. QED
    BY <1>1, <1>3, <1>4 DEF RecentInv, Renewed

\* A request's steps keep the list.
LEMMA RecentGoesOn ==
    ASSUME RecordInv, RecentInv, NEW r \in Requests, RequestStep(r)
    PROVE  RecentInv'
<1>1. load' = load
    BY DEF RequestStep, StartList, StartSearch, EngineRaises, EngineReturns, BeginRead, ReadAgain,
           ReadRaises, ReadReturns, Query, Remember, Exec, Respond, Fail, catalogVars
<1>2. req = [s \in Requests |-> req[s]] /\ IsState(req[r]) /\ load.searches \subseteq Requests
    BY LoadsAssumption DEF RecordInv, RecordTypes
<1>3. CASE Remember(r) \/ Exec(r)
    <2>1. \A s \in load.searches \ {r} : Remembered(s)' => Remembered(s)
      <3>1. PICK x : req' = [req EXCEPT ![r] = x]
        BY <1>3 DEF Remember, Exec, Step
      <3>2. QED
        BY <1>2, <3>1 DEF Remembered
    <2>2. CASE recent' = Prepended(recent, q(r).term)
      BY <1>1, <2>1, <2>2, RecentRenewed
    <2>3. CASE recent' = recent /\ (~Remembers(r) \/ ~Remembered(r)')
      BY <1>1, <2>1, <2>3, RecentQuiet
    <2>4. \/ recent' = Prepended(recent, q(r).term)
          \/ recent' = recent /\ ~Remembers(r)
          \/ /\ recent' = recent
             /\ \/ req' = [req EXCEPT ![r] = [req[r] EXCEPT !.pc = "watch", !.copy = recent]]
                \/ req' = [req EXCEPT ![r] = [req[r] EXCEPT !.pc = "remember", !.copy = <<>>]]
      BY <1>3 DEF Remember, Exec, Step
    <2>5. CASE \/ req' = [req EXCEPT ![r] = [req[r] EXCEPT !.pc = "watch", !.copy = recent]]
               \/ req' = [req EXCEPT ![r] = [req[r] EXCEPT !.pc = "remember", !.copy = <<>>]]
      <3>1. req'[r].pc = "watch" \/ req'[r].pc = "remember"
        BY <1>2, <2>5 DEF IsState
      <3>2. ~Remembered(r)'
        BY <3>1 DEF Remembered
      <3>3. QED
        BY <2>2, <2>3, <2>4, <3>2
    <2>6. QED
      BY <2>2, <2>3, <2>4, <2>5
<1>4. CASE ~(Remember(r) \/ Exec(r))
    <2>1. recent' = recent
      BY <1>4 DEF RequestStep, StartList, StartSearch, EngineRaises, EngineReturns, BeginRead,
                  ReadAgain, ReadRaises, ReadReturns, Query, Respond, Fail
    <2>2. CASE GoesOn(r)
      <3>1. PICK x : /\ IsState(x) /\ req' = [req EXCEPT ![r] = x]
                     /\ r \in load.searches => x.pc \notin Over /\ x.mode # "list"
                     /\ x.pc = "record" => Remember(r) \/ Exec(r)
        BY <2>2, RequestGoesTo
      <3>2. \A s \in load.searches : Remembered(s)' => Remembered(s)
        BY <1>2, <1>4, <3>1 DEF Remembered, Over
      <3>3. QED
        BY <1>1, <2>1, <3>2, RecentQuiet
    <2>3. CASE Respond(r)
      <3>1. req[r].pc = "record" /\ req' = [req EXCEPT ![r] = [req[r] EXCEPT !.pc = "answered"]]
        BY <2>3 DEF Respond, Step
      <3>2. \A s \in load.searches : Remembered(s)' => Remembered(s)
        BY <1>2, <3>1 DEF Remembered
      <3>3. QED
        BY <1>1, <2>1, <3>2, RecentQuiet
    <2>4. CASE Fail(r)
      <3>1. req' = [req EXCEPT ![r] = [req[r] EXCEPT !.pc = "failed"]]
        BY <2>4 DEF Fail, Step
      <3>2. req'[r].pc = "failed"
        BY <1>2, <3>1 DEF IsState
      <3>3. \A s \in load.searches : Remembered(s)' => Remembered(s)
        BY <1>2, <3>1, <3>2 DEF Remembered
      <3>4. QED
        BY <1>1, <2>1, <3>3, RecentQuiet
    <2>5. CASE \E i \in {1, 2} : Query(r, i)
      <3>1. req' = req
        BY <2>5 DEF Query
      <3>2. QED
        BY <1>1, <2>1, <3>1, RecentQuiet DEF Remembered
    <2>6. QED
      BY <2>2, <2>3, <2>4, <2>5 DEF RequestStep, GoesOn
<1>5. QED
    BY <1>3, <1>4

\* Every step keeps the list.
LEMMA RecentNext ==
    ASSUME RecordInv, RecentInv, [GainrNext]_allVars
    PROVE  RecentInv'
<1>1. ASSUME NEW r \in Requests, RequestStep(r) PROVE RecentInv'
    BY <1>1, RecentGoesOn
<1>2. CASE \/ \E w \in Workers : ReadStep(w)
           \/ DiagStep
           \/ \E a \in Ads, status \in {"on", "off", "deleted"} : SwitchAd(a, status)
           \/ Etl \/ \E key \in DOMAIN lists : ListExpires(key)
           \/ CompatClose \/ CompatStop \/ CompatGivesUp \/ StoreClose \/ EngineClose
           \/ UNCHANGED gainrVars
           \/ UNCHANGED allVars
  <2>1. UNCHANGED <<load, recent, req>>
    BY <1>2 DEF ReadStep, DiagStep, DiagTake, DiagAsk, DiagQuery, DiagRead, DiagRecord, SwitchAd,
                Etl, ListExpires, CompatClose, CompatStop, CompatGivesUp, StoreClose, EngineClose,
                allVars, gainrVars, catalogVars
  <2>2. QED
    BY <2>1, RecentQuiet DEF Remembered
<1>3. QED
    BY <1>1, <1>2 DEF GainrNext

\* At first there are none.
LEMMA RecentStarts == GainrInit => RecentInv
<1> SUFFICES ASSUME GainrInit PROVE RecentInv
    OBVIOUS
<1>2. recent = <<>> /\ \A r \in Requests : req[r].pc = "idle"
    BY DEF GainrInit, Idle
<1>3. recent \in Seq(Terms) /\ Len(recent) <= RecentLimit /\ IsInjective(recent)
    BY <1>2, RecentAssumption DEF IsInjective
<1>4. load.searches \subseteq Requests
    BY LoadsAssumption DEF GainrInit
<1>5. QED
    BY <1>2, <1>3, <1>4 DEF RecentInv, Remembered

\* Concurrent searches of one user do not push each other out, with and without
\* Redis: once a search is past remember_search its term is among the recent ones
\* or the list is full, and no term is there twice, for any number of searches and
\* any limit (remember_search, prepend_unique_json_item).
THEOREM RecentHolds == GainrSpec => []RecentSearchesKept
<1>1. RecordInv /\ [GainrNext]_allVars => RecordInv'
    BY RecordsNext
<1>2. RecordInv /\ RecentInv /\ [GainrNext]_allVars => RecentInv'
    BY RecentNext
<1>3. RecentInv => RecentSearchesKept
    BY DEF RecentInv, RecentSearchesKept, Remembered
<1>4. QED
    BY <1>1, <1>2, <1>3, RecordsStart, RecentStarts, PTL DEF GainrSpec

-----------------------------------------------------------------------------
(* What a request's filters ask for. *)

\* The only function without arguments.
LEMMA EmptyFunction ==
    ASSUME NEW f, f = [k \in DOMAIN f |-> f[k]]
    PROVE  f = <<>> <=> DOMAIN f = {}
OBVIOUS

\* The columns that a planner's filters are about.
InferredNames == LocationNames \cup CategoryNames \cup {"rental_duration", "user_gender"}

\* What the plan of a request looks like, with a term or without.
LEMMA PlanIsSound ==
    ASSUME NEW x, IsRequest(x)
    PROVE  LET plan == PlanFor(x)
           IN  /\ plan.categorical = [k \in DOMAIN plan.categorical |-> plan.categorical[k]]
               /\ \A k \in DOMAIN plan.categorical :
                    k \in InferredNames /\ plan.categorical[k] # {}
               /\ DOMAIN plan.fee \subseteq Bounds /\ plan.fee \in [DOMAIN plan.fee -> Nat]
               /\ plan.type \in {"1", "2"} /\ plan.sort \in SortOrders
<1>1. CASE x.term = NoTerm
  <2>1. PlanFor(x) = EmptyPlan
    BY <1>1 DEF PlanFor
  <2>2. /\ <<>> = [k \in DOMAIN <<>> |-> <<>>[k]] /\ DOMAIN <<>> = {}
        /\ <<>> \in [{} -> Nat]
    OBVIOUS
  <2>3. QED
    BY <2>1, <2>2 DEF EmptyPlan, SortOrders
<1>2. CASE x.term # NoTerm
  <2>1. x.term \in DOMAIN PlanOf /\ PlanFor(x) = PlanOf[x.term]
    BY <1>2 DEF IsRequest, PlanFor
  <2>2. QED
    BY <2>1, PlansAssumption DEF InferredNames
<1>3. QED
    BY <1>1, <1>2

\* The categorical filters that a request searches by.
Filter(x) == Effective(x).categorical

\* Where a filter of a request comes from: the client, or the plan.
LEMMA FilterComesFrom ==
    ASSUME NEW x, IsRequest(x)
    PROVE  /\ Filter(x) = [k \in DOMAIN Filter(x) |-> Filter(x)[k]]
           /\ \A k : k \in DOMAIN Filter(x) <=>
                \/ k \in DOMAIN x.explicit
                \/ /\ k \in DOMAIN PlanFor(x).categorical /\ k \notin LocationNames
                   /\ \A c \in DOMAIN x.explicit : k \notin Cleared[c]
           /\ \A k \in DOMAIN x.explicit : Filter(x)[k] = x.explicit[k]
           /\ \A k \in DOMAIN Filter(x) \ DOMAIN x.explicit :
                Filter(x)[k] = PlanFor(x).categorical[k]
<1>1. PICK given : given = x.explicit
    OBVIOUS
<1>2. PICK plan : plan = PlanFor(x).categorical
    OBVIOUS
<1>3. PICK dropped : dropped = LocationNames \cup UNION {Cleared[c] : c \in DOMAIN given}
    OBVIOUS
<1>4. \A k : k \in dropped <=> k \in LocationNames \/ \E c \in DOMAIN given : k \in Cleared[c]
    BY <1>3
<1>5. Filter(x) = Override(given, Without(plan, dropped))
    BY <1>1, <1>2, <1>3 DEF Filter, Effective
<1>6. QED
    BY <1>1, <1>2, <1>4, <1>5 DEF Override, Without

\* A condition of the filters, and of all of them in a group of columns.
Passes(f, k, a) == Column[a][k] \in f[k]

\* No filter is empty, and each belongs to one group of columns.
LEMMA FiltersAreGrouped ==
    ASSUME NEW x, IsRequest(x), NEW k \in DOMAIN Filter(x)
    PROVE  Filter(x)[k] # {} /\ \E g \in DOMAIN Groups : k \in Groups[g]
<1>1. CASE k \in DOMAIN x.explicit
  <2>1. k \in DOMAIN Cleared /\ x.explicit[k] # {}
    BY <1>1 DEF IsRequest
  <2>2. k \in {"city_id", "main_category_id", "subcategory_id", "locality_id", "rental_duration"}
    BY <2>1 DEF Cleared
  <2>3. Filter(x)[k] # {}
    BY <1>1, <2>1, FilterComesFrom
  <2>4. QED
    BY <2>2, <2>3 DEF Groups, CategoryColumns, LocationColumns
<1>2. CASE k \notin DOMAIN x.explicit
  <2>1. k \in DOMAIN PlanFor(x).categorical /\ Filter(x)[k] = PlanFor(x).categorical[k]
    BY <1>2, FilterComesFrom
  <2>2. k \in InferredNames /\ Filter(x)[k] # {}
    BY <2>1, PlanIsSound
  <2>3. QED
    BY <2>2 DEF Groups, InferredNames, CategoryColumns, LocationColumns, CategoryNames,
                LocationNames
<1>3. QED
    BY <1>1, <1>2

\* What the client and the plan say of a group.
Chosen(x, g) == DOMAIN x.explicit \cap Groups[g]
Inferred(x, g) ==
    IF g = "location" THEN {} ELSE DOMAIN PlanFor(x).categorical \cap Groups[g]

\* In a group where the client chose something, that is all there is.
LEMMA GroupIsChosen ==
    ASSUME NEW x, IsRequest(x), NEW g \in DOMAIN Groups
    PROVE  DOMAIN Filter(x) \cap Groups[g] =
             IF Chosen(x, g) # {} THEN Chosen(x, g) ELSE Inferred(x, g)
<1>1. g \in {"category", "location", "duration", "gender"}
    BY DEF Groups
<1>2. \A c \in DOMAIN x.explicit :
        c \in {"city_id", "main_category_id", "subcategory_id", "locality_id", "rental_duration"}
    BY DEF IsRequest, Cleared
<1>3. \A k \in DOMAIN PlanFor(x).categorical : k \in InferredNames
    BY PlanIsSound
<1>4. CASE g = "category"
  <2>1. Groups[g] = {"main_category_name", "subcategory_name", "main_category_id", "subcategory_id"}
    BY <1>4 DEF Groups, CategoryColumns, CategoryNames
  <2>2. \A c \in DOMAIN x.explicit :
          /\ c \in Groups[g] <=> c \in {"main_category_id", "subcategory_id"}
          /\ c \in Groups[g] => Cleared[c] = {"main_category_name", "subcategory_name"}
          /\ c \notin Groups[g] => Cleared[c] \cap Groups[g] = {}
    BY <1>2, <2>1 DEF Cleared, CategoryNames, LocationNames
  <2>3. \A k \in DOMAIN PlanFor(x).categorical :
          k \in Groups[g] => k \in {"main_category_name", "subcategory_name"}
    BY <1>3, <2>1 DEF InferredNames, LocationNames, CategoryNames
  <2>4. Groups[g] \cap LocationNames = {}
    BY <2>1 DEF LocationNames
  <2>5. QED
    BY <1>4, <2>2, <2>3, <2>4, FilterComesFrom DEF Chosen, Inferred
<1>5. CASE g = "location"
  <2>1. Groups[g] = {"state_name", "city_name", "locality_name", "state_id", "city_id", "locality_id"}
    BY <1>5 DEF Groups, LocationColumns, LocationNames
  <2>2. \A k \in DOMAIN PlanFor(x).categorical : k \in Groups[g] => k \in LocationNames
    BY <1>3, <2>1 DEF InferredNames, LocationNames, CategoryNames
  <2>3. QED
    BY <1>5, <2>2, FilterComesFrom DEF Chosen, Inferred
<1>6. CASE g = "duration"
  <2>1. Groups[g] = {"rental_duration"}
    BY <1>6 DEF Groups
  <2>2. \A c \in DOMAIN x.explicit :
          /\ c \in Groups[g] => "rental_duration" \in Cleared[c]
          /\ c \notin Groups[g] => Cleared[c] \cap Groups[g] = {}
    BY <1>2, <2>1 DEF Cleared, CategoryNames, LocationNames
  <2>3. Groups[g] \cap LocationNames = {}
    BY <2>1 DEF LocationNames
  <2>4. QED
    BY <1>6, <2>1, <2>2, <2>3, FilterComesFrom DEF Chosen, Inferred
<1>7. CASE g = "gender"
  <2>1. Groups[g] = {"user_gender"}
    BY <1>7 DEF Groups
  <2>2. \A c \in DOMAIN x.explicit : c \notin Groups[g] /\ Cleared[c] \cap Groups[g] = {}
    BY <1>2, <2>1 DEF Cleared, CategoryNames, LocationNames
  <2>3. Groups[g] \cap LocationNames = {}
    BY <2>1 DEF LocationNames
  <2>4. QED
    BY <1>7, <2>2, <2>3, FilterComesFrom DEF Chosen, Inferred
<1>8. QED
    BY <1>1, <1>4, <1>5, <1>6, <1>7

\* So an ad passes the filters of a group when it has what was asked of it.
LEMMA GroupAsks ==
    ASSUME NEW x, IsRequest(x), NEW g \in DOMAIN Groups, NEW a
    PROVE  (\A k \in DOMAIN Filter(x) \cap Groups[g] : Passes(Filter(x), k, a)) <=> Asks(x, g, a)
<1>1. DOMAIN Filter(x) \cap Groups[g] =
        IF Chosen(x, g) # {} THEN Chosen(x, g) ELSE Inferred(x, g)
    BY GroupIsChosen
<1>2. Asks(x, g, a) <=>
        IF Chosen(x, g) # {} THEN \A k \in Chosen(x, g) : Column[a][k] \in x.explicit[k]
        ELSE \A k \in Inferred(x, g) : Column[a][k] \in PlanFor(x).categorical[k]
    BY DEF Asks, Chosen, Inferred
<1>3. CASE Chosen(x, g) # {}
  <2>1. \A k \in Chosen(x, g) : Filter(x)[k] = x.explicit[k]
    BY FilterComesFrom DEF Chosen
  <2>2. QED
    BY <1>1, <1>2, <1>3, <2>1 DEF Passes
<1>4. CASE Chosen(x, g) = {}
  <2>1. \A k \in Inferred(x, g) : k \in DOMAIN Filter(x) /\ k \notin DOMAIN x.explicit
    BY <1>1, <1>4 DEF Chosen, Inferred
  <2>2. \A k \in Inferred(x, g) : Filter(x)[k] = PlanFor(x).categorical[k]
    BY <2>1, FilterComesFrom
  <2>3. QED
    BY <1>1, <1>2, <1>4, <2>2 DEF Passes
<1>5. QED
    BY <1>3, <1>4

\* What a request leaves out: a group of columns, or one of the other filters.
LeftOut(left) ==
    CASE left = "category" -> CategoryColumns
      [] left = "location" -> LocationColumns
      [] OTHER -> {}

\* The columns of the groups do not overlap.
LEMMA GroupsAreApart ==
    ASSUME NEW g \in DOMAIN Groups, NEW h \in DOMAIN Groups, g # h
    PROVE  Groups[g] \cap Groups[h] = {}
<1>1. /\ g \in {"category", "location", "duration", "gender"}
      /\ h \in {"category", "location", "duration", "gender"}
    BY DEF Groups
<1>2. QED
    BY <1>1 DEF Groups, CategoryColumns, LocationColumns, CategoryNames, LocationNames

\* So a filter is left out with its group alone.
LEMMA LeftOutIsAGroup ==
    ASSUME NEW left, NEW g \in DOMAIN Groups
    PROVE  IF g = left THEN Groups[g] \subseteq LeftOut(left) \/ g \in {"duration", "gender"}
           ELSE Groups[g] \cap LeftOut(left) = {}
<1>1. Groups["category"] = CategoryColumns /\ Groups["location"] = LocationColumns
    BY DEF Groups
<1>2. "category" \in DOMAIN Groups /\ "location" \in DOMAIN Groups
    BY DEF Groups
<1>3. DOMAIN Groups = {"category", "location", "duration", "gender"}
    BY DEF Groups
<1>4. LeftOut(left) = IF left \in {"category", "location"} THEN Groups[left] ELSE {}
    BY <1>1 DEF LeftOut
<1>5. QED
    BY <1>2, <1>3, <1>4, GroupsAreApart

\* The five labels.
LabelNames == {"category", "location", "ad_type", "price", "attributes"}

\* The filters that are left hold of an ad that has what the groups ask.
LEMMA FiltersHoldOfGroups ==
    ASSUME NEW x, IsRequest(x), NEW left, left \notin {"duration", "gender"}, NEW a
    PROVE  Holds(Without(Filter(x), LeftOut(left)), a)
             <=> \A g \in DOMAIN Groups \ {left} : Asks(x, g, a)
<1>1. PICK f : f = Filter(x)
    OBVIOUS
<1>2. \A k \in DOMAIN f : f[k] # {} /\ \E g \in DOMAIN Groups : k \in Groups[g]
    BY <1>1, FiltersAreGrouped
<1>3. \A g \in DOMAIN Groups :
        (\A k \in DOMAIN f \cap Groups[g] : Passes(f, k, a)) <=> Asks(x, g, a)
    BY <1>1, GroupAsks
<1>4. \A g \in DOMAIN Groups :
        IF g = left THEN Groups[g] \subseteq LeftOut(left)
        ELSE Groups[g] \cap LeftOut(left) = {}
    BY LeftOutIsAGroup
<1>5. Holds(Without(f, LeftOut(left)), a) <=> \A k \in DOMAIN f \ LeftOut(left) : Passes(f, k, a)
    BY <1>2 DEF Holds, Without, Passes
<1>6. (\A k \in DOMAIN f \ LeftOut(left) : Passes(f, k, a))
        <=> \A g \in DOMAIN Groups \ {left} : \A k \in DOMAIN f \cap Groups[g] : Passes(f, k, a)
    BY <1>2, <1>4
<1>7. QED
    BY <1>1, <1>3, <1>5, <1>6

\* No filter is left where only the text is left to search by.
LEMMA NothingIsLeft ==
    ASSUME NEW x, IsRequest(x), NEW left, left \notin {"duration", "gender"}
    PROVE  Without(Filter(x), LeftOut(left)) = <<>> <=> OnlyText(x, {left})
<1>1. PICK f : f = Filter(x)
    OBVIOUS
<1>2. \A k \in DOMAIN f : \E g \in DOMAIN Groups : k \in Groups[g]
    BY <1>1, FiltersAreGrouped
<1>3. \A g \in DOMAIN Groups :
        IF g = left THEN Groups[g] \subseteq LeftOut(left)
        ELSE Groups[g] \cap LeftOut(left) = {}
    BY LeftOutIsAGroup
<1>4. PICK h : h = Without(f, LeftOut(left))
    OBVIOUS
<1>5. h = [k \in DOMAIN h |-> h[k]] /\ DOMAIN h = DOMAIN f \ LeftOut(left)
    BY <1>4 DEF Without
<1>6. h = <<>> <=> DOMAIN h = {}
    BY <1>5, EmptyFunction
<1>7. DOMAIN h = {} <=> \A g \in DOMAIN Groups \ {left} : DOMAIN f \cap Groups[g] = {}
    BY <1>2, <1>3, <1>5
<1>8. ASSUME NEW g \in DOMAIN Groups
      PROVE  DOMAIN f \cap Groups[g] = {} <=>
               /\ DOMAIN x.explicit \cap Groups[g] = {}
               /\ g = "location" \/ DOMAIN PlanFor(x).categorical \cap Groups[g] = {}
  <2>1. DOMAIN f \cap Groups[g] = IF Chosen(x, g) # {} THEN Chosen(x, g) ELSE Inferred(x, g)
    BY <1>1, GroupIsChosen
  <2>2. QED
    BY <2>1 DEF Chosen, Inferred
<1>9. QED
    BY <1>1, <1>4, <1>6, <1>7, <1>8 DEF OnlyText

\* The price asked for: the client's bounds before the plan's.
LEMMA PriceIsAsked ==
    ASSUME NEW x, IsRequest(x), NEW a \in Ads, NEW types, Column[a]["type"] \in types
    PROVE  PricePasses(Effective(x), types, a) <=> AsksPrice(x, a)
<1>1. PICK fee : fee = Effective(x).fee
    OBVIOUS
<1>2. PICK given : given = x.fee
    OBVIOUS
<1>3. PICK plan : plan = PlanFor(x).fee
    OBVIOUS
<1>4. fee = Override(given, plan)
    BY <1>1, <1>2, <1>3 DEF Effective
<1>5. /\ DOMAIN fee = DOMAIN given \cup DOMAIN plan
      /\ fee = [b \in DOMAIN fee |-> fee[b]]
      /\ \A b \in DOMAIN fee : fee[b] = IF b \in DOMAIN given THEN given[b] ELSE plan[b]
    BY <1>4 DEF Override
<1>6. fee = <<>> <=> DOMAIN fee = {}
    BY <1>5, EmptyFunction
<1>7. Column[a]["fee"] \in Nat
    BY AdsAssumption
<1>8. InRange(Effective(x), a) <=>
        /\ Priced(a)
        /\ "min" \in DOMAIN fee => Column[a]["fee"] >= fee["min"]
        /\ "max" \in DOMAIN fee => Column[a]["fee"] <= fee["max"]
    BY <1>1 DEF InRange
<1>9. PricePasses(Effective(x), types, a) <=>
        \/ DOMAIN fee = {}
        \/ InRange(Effective(x), a)
        \/ Wanted(a) /\ ~Priced(a)
    BY <1>1, <1>6 DEF PricePasses, Wanted
<1>10. AsksPrice(x, a) <=>
        \/ DOMAIN fee = {}
        \/ Wanted(a) /\ ~Priced(a)
        \/ /\ Priced(a)
           /\ "min" \in DOMAIN fee => Column[a]["fee"] >= fee["min"]
           /\ "max" \in DOMAIN fee => Column[a]["fee"] <= fee["max"]
    BY <1>2, <1>3, <1>5 DEF AsksPrice
<1>11. QED
    BY <1>8, <1>9, <1>10

\* The filters on the row itself.
LEMMA DirectIsAsked ==
    ASSUME NEW x, IsRequest(x), NEW a, NEW gone
    PROVE  Holds(Without(x.direct, gone), a)
             <=> /\ "category_type" \in gone \/ AsksDirect(x, "category_type", a)
                 /\ "is_rent_negotiable" \in gone \/ AsksDirect(x, "is_rent_negotiable", a)
                 /\ "attribute" \in gone \/ AsksDirect(x, "attribute", a)
<1>1. DOMAIN x.direct \subseteq {"category_type", "is_rent_negotiable", "attribute"}
    BY DEF IsRequest
<1>2. QED
    BY <1>1 DEF Holds, Without, AsksDirect

\* The ad types asked for.
LEMMA TypesAreKnown ==
    ASSUME NEW x, IsRequest(x)
    PROVE  Types(x) \subseteq {"1", "2"}
<1>1. PlanFor(x).type \in {"1", "2"} /\ x.types \subseteq {"1", "2"}
    BY PlanIsSound DEF IsRequest
<1>2. QED
    BY <1>1 DEF Types

\* What is left of the direct filters without a label.
DirectOut(label) ==
    CASE label = "category" -> {"category_type"}
      [] label = "price" -> {"is_rent_negotiable"}
      [] label = "attributes" -> {"attribute"}
      [] OTHER -> {}

\* A request without one of its filters, part by part.
LEMMA RelaxedParts ==
    ASSUME NEW x, IsRequest(x), NEW label \in LabelNames
    PROVE  LET v == Relaxed(x, label)
           IN  /\ v.f.categorical = Without(Filter(x), LeftOut(label))
               /\ v.f.fee = IF label = "price" THEN <<>> ELSE Effective(x).fee
               /\ v.direct = Without(x.direct, DirectOut(label))
               /\ v.types = IF label = "ad_type" THEN {"1", "2"} ELSE Types(x)
<1>1. PICK f : f = Effective(x)
    OBVIOUS
<1>2. /\ f = [categorical |-> f.categorical, fee |-> f.fee]
      /\ Without(f.categorical, {}) = f.categorical
  <2>1. f.categorical = [k \in DOMAIN f.categorical |-> f.categorical[k]]
    BY <1>1, FilterComesFrom DEF Filter
  <2>2. QED
    BY <1>1, <2>1 DEF Effective, Without
<1>3. Without(x.direct, {}) = x.direct
    BY DEF Without, IsRequest
<1>4. label \in {"category", "location", "ad_type", "price", "attributes"}
    BY DEF LabelNames
<1>5. CASE label = "category"
    BY <1>1, <1>2, <1>5 DEF Relaxed, LeftOut, DirectOut, Filter
<1>6. CASE label = "location"
    BY <1>1, <1>2, <1>3, <1>6 DEF Relaxed, LeftOut, DirectOut, Filter
<1>7. CASE label = "ad_type"
    BY <1>1, <1>2, <1>3, <1>7 DEF Relaxed, LeftOut, DirectOut, Filter
<1>8. CASE label = "price"
    BY <1>1, <1>2, <1>8 DEF Relaxed, LeftOut, DirectOut, Filter
<1>9. CASE label = "attributes"
    BY <1>1, <1>2, <1>9 DEF Relaxed, LeftOut, DirectOut, Filter
<1>10. QED
    BY <1>4, <1>5, <1>6, <1>7, <1>8, <1>9

\* An ad passes the conditions of the request without one filter exactly when it
\* has what the request asks for but for that filter.
LEMMA RelaxedAsks ==
    ASSUME NEW x, IsRequest(x), NEW label \in LabelNames, NEW a \in Ads
    PROVE  LET v == Relaxed(x, label)
           IN  /\ Matches(v.f, v.direct, v.types, a) <=> Answers(x, {label}, a)
               /\ TextPasses(v.f, x.term, a)
                    <=> (x.term # NoTerm /\ OnlyText(x, {label}) => x.term \in Mentions[a])
<1>1. PICK v : v = Relaxed(x, label)
    OBVIOUS
<1>2. /\ v.f.categorical = Without(Filter(x), LeftOut(label))
      /\ v.f.fee = IF label = "price" THEN <<>> ELSE Effective(x).fee
      /\ v.direct = Without(x.direct, DirectOut(label))
      /\ v.types = IF label = "ad_type" THEN {"1", "2"} ELSE Types(x)
    BY <1>1, RelaxedParts
<1>3. Holds(v.f.categorical, a) <=> \A g \in DOMAIN Groups \ {label} : Asks(x, g, a)
    BY <1>2, FiltersHoldOfGroups DEF LabelNames
<1>4. Holds(v.direct, a)
        <=> /\ label = "category" \/ AsksDirect(x, "category_type", a)
            /\ label = "price" \/ AsksDirect(x, "is_rent_negotiable", a)
            /\ label = "attributes" \/ AsksDirect(x, "attribute", a)
  <2>1. /\ "category_type" \in DirectOut(label) <=> label = "category"
        /\ "is_rent_negotiable" \in DirectOut(label) <=> label = "price"
        /\ "attribute" \in DirectOut(label) <=> label = "attributes"
    BY DEF DirectOut
  <2>2. QED
    BY <1>2, <2>1, DirectIsAsked
<1>5. Column[a]["type"] \in v.types <=> label = "ad_type" \/ Column[a]["type"] \in Types(x)
    BY <1>2, AdsAssumption
<1>6. Column[a]["type"] \in v.types =>
        (PricePasses(v.f, v.types, a) <=> label = "price" \/ AsksPrice(x, a))
  <2>1. SUFFICES ASSUME Column[a]["type"] \in v.types
                 PROVE PricePasses(v.f, v.types, a) <=> label = "price" \/ AsksPrice(x, a)
    OBVIOUS
  <2>2. CASE label = "price"
    BY <1>2, <2>2 DEF PricePasses
  <2>3. CASE label # "price"
    <3>1. v.f.fee = Effective(x).fee
      BY <1>2, <2>3
    <3>2. PricePasses(v.f, v.types, a) <=> PricePasses(Effective(x), v.types, a)
      BY <3>1 DEF PricePasses, InRange
    <3>3. QED
      BY <2>1, <2>3, <3>2, PriceIsAsked
  <2>4. QED
    BY <2>2, <2>3
<1>7. Matches(v.f, v.direct, v.types, a) <=> Answers(x, {label}, a)
    BY <1>3, <1>4, <1>5, <1>6 DEF Matches, Answers
<1>8. v.f.categorical = <<>> <=> OnlyText(x, {label})
    BY <1>2, NothingIsLeft DEF LabelNames
<1>9. QED
    BY <1>1, <1>7, <1>8 DEF TextPasses

\* The same with all filters.
LEMMA PlainAsks ==
    ASSUME NEW x, IsRequest(x), NEW a \in Ads
    PROVE  /\ Matches(Effective(x), x.direct, Types(x), a) <=> Answers(x, {}, a)
           /\ TextPasses(Effective(x), x.term, a)
                <=> (x.term # NoTerm /\ OnlyText(x, {}) => x.term \in Mentions[a])
<1>1. Without(Filter(x), LeftOut("none")) = Filter(x)
    BY FilterComesFrom DEF LeftOut, Without
<1>2. Without(x.direct, {}) = x.direct
    BY DEF Without, IsRequest
<1>3. DOMAIN Groups \ {"none"} = DOMAIN Groups
    BY DEF Groups
<1>4. Holds(Filter(x), a) <=> \A g \in DOMAIN Groups : Asks(x, g, a)
    BY <1>1, <1>3, FiltersHoldOfGroups
<1>5. Holds(x.direct, a)
        <=> /\ AsksDirect(x, "category_type", a)
            /\ AsksDirect(x, "is_rent_negotiable", a)
            /\ AsksDirect(x, "attribute", a)
    BY <1>2, DirectIsAsked
<1>6. Column[a]["type"] \in Types(x) =>
        (PricePasses(Effective(x), Types(x), a) <=> AsksPrice(x, a))
    BY PriceIsAsked
<1>7. Matches(Effective(x), x.direct, Types(x), a) <=> Answers(x, {}, a)
    BY <1>4, <1>5, <1>6 DEF Matches, Answers, Filter
<1>8. Filter(x) = <<>> <=> OnlyText(x, {"none"})
    BY <1>1, NothingIsLeft
<1>9. OnlyText(x, {"none"}) <=> OnlyText(x, {})
    BY <1>3 DEF OnlyText
<1>10. QED
    BY <1>7, <1>8, <1>9 DEF TextPasses, Filter

\* The names that are swapped for their ids, and what the ids are.
Swapped(f) ==
    {n \in CategoryNames \cap DOMAIN f.categorical :
       /\ IdOf[n] \notin DOMAIN f.categorical
       /\ \E name \in DOMAIN CategoryIds[n] : f.categorical[n] = {name}}

\* A name in a filter and its id select the same ads.
LEMMA IndexedFilters ==
    ASSUME NEW x, IsRequest(x), NEW a \in Ads
    PROVE  LET f == Indexed(Effective(x))
           IN  /\ f.fee = Effective(x).fee
               /\ f.categorical = <<>> <=> Filter(x) = <<>>
               /\ Holds(f.categorical, a) <=> Holds(Filter(x), a)
<1>1. PICK e : e = Effective(x)
    OBVIOUS
<1>2. e = [categorical |-> e.categorical, fee |-> e.fee] /\ e.categorical = Filter(x)
    BY <1>1 DEF Effective, Filter
<1>3. PICK old : old = Filter(x)
    OBVIOUS
<1>4. PICK swapped : swapped = Swapped(e)
    OBVIOUS
<1>5. PICK ids : ids = [k \in {IdOf[n] : n \in swapped} |->
                          LET n == CHOOSE m \in swapped : IdOf[m] = k
                          IN  {CategoryIds[n][CHOOSE name \in e.categorical[n] : TRUE]}]
    OBVIOUS
<1>6. PICK new : new = Override(ids, Without(old, swapped))
    OBVIOUS
<1>7. Indexed(e) = [e EXCEPT !.categorical = new]
    BY <1>2, <1>3, <1>4, <1>5, <1>6 DEF Indexed, Swapped
<1>8. Indexed(e).categorical = new /\ Indexed(e).fee = e.fee
    BY <1>2, <1>7
<1>9. \A n \in swapped : /\ n \in CategoryNames /\ n \in DOMAIN old /\ IdOf[n] \notin DOMAIN old
                        /\ \E name \in DOMAIN CategoryIds[n] : old[n] = {name}
    BY <1>2, <1>3, <1>4 DEF Swapped
<1>10. \A n, m \in CategoryNames : IdOf[n] = IdOf[m] => n = m
    BY DEF CategoryNames, IdOf
<1>11. ASSUME NEW n \in swapped
       PROVE  /\ IdOf[n] \in DOMAIN ids /\ ids[IdOf[n]] # {} /\ old[n] # {}
              /\ Column[a][IdOf[n]] \in ids[IdOf[n]] <=> Column[a][n] \in old[n]
  <2>1. PICK name \in DOMAIN CategoryIds[n] : old[n] = {name}
    BY <1>9
  <2>2. (CHOOSE m \in swapped : IdOf[m] = IdOf[n]) = n
    <3>1. \E m \in swapped : IdOf[m] = IdOf[n]
      BY <1>11
    <3>2. PICK m : m = CHOOSE l \in swapped : IdOf[l] = IdOf[n]
      OBVIOUS
    <3>3. m \in swapped /\ IdOf[m] = IdOf[n]
      BY <3>1, <3>2
    <3>4. m = n
      BY <1>9, <1>10, <3>3
    <3>5. QED
      BY <3>2, <3>4
  <2>3. (CHOOSE u \in old[n] : TRUE) = name
    BY <2>1
  <2>4. IdOf[n] \in DOMAIN ids /\ ids[IdOf[n]] = {CategoryIds[n][name]}
    BY <1>2, <1>3, <1>5, <2>2, <2>3
  <2>5. Column[a][n] = name <=> Column[a][IdOf[n]] = CategoryIds[n][name]
    BY <1>9, CategoryAssumption
  <2>6. QED
    BY <2>1, <2>4, <2>5
<1>12. /\ new = [k \in DOMAIN new |-> new[k]]
       /\ DOMAIN new = DOMAIN ids \cup (DOMAIN old \ swapped)
       /\ \A k \in DOMAIN ids : new[k] = ids[k]
       /\ \A k \in (DOMAIN old \ swapped) \ DOMAIN ids : new[k] = old[k]
    BY <1>6 DEF Override, Without
<1>13. \A k \in DOMAIN ids : \E n \in swapped : k = IdOf[n]
    BY <1>5
<1>14. \A k \in DOMAIN old : k \notin DOMAIN ids
    BY <1>9, <1>13
<1>15. Holds(new, a) <=> Holds(old, a)
  <2>1. ASSUME Holds(new, a), NEW k \in DOMAIN old PROVE old[k] = {} \/ Column[a][k] \in old[k]
    <3>1. CASE k \in swapped
      <4>1. /\ IdOf[k] \in DOMAIN ids /\ ids[IdOf[k]] # {}
            /\ Column[a][IdOf[k]] \in ids[IdOf[k]] <=> Column[a][k] \in old[k]
        BY <1>11, <3>1
      <4>2. Column[a][IdOf[k]] \in ids[IdOf[k]]
        BY <1>12, <2>1, <4>1 DEF Holds
      <4>3. QED
        BY <4>1, <4>2
    <3>2. CASE k \notin swapped
      <4>1. k \in DOMAIN new /\ new[k] = old[k]
        BY <1>12, <1>14, <3>2
      <4>2. QED
        BY <2>1, <4>1 DEF Holds
    <3>3. QED
      BY <3>1, <3>2
  <2>2. ASSUME Holds(old, a), NEW k \in DOMAIN new PROVE new[k] = {} \/ Column[a][k] \in new[k]
    <3>1. CASE k \in DOMAIN ids
      <4>1. PICK n \in swapped : k = IdOf[n]
        BY <1>13, <3>1
      <4>2. old[n] # {} /\ n \in DOMAIN old
        BY <1>9, <1>11
      <4>3. Column[a][n] \in old[n]
        BY <2>2, <4>2 DEF Holds
      <4>4. Column[a][IdOf[n]] \in ids[IdOf[n]]
        BY <1>11, <4>3
      <4>5. QED
        BY <1>12, <3>1, <4>1, <4>4
    <3>2. CASE k \notin DOMAIN ids
      <4>1. k \in DOMAIN old /\ new[k] = old[k]
        BY <1>12, <3>2
      <4>2. QED
        BY <2>2, <4>1 DEF Holds
    <3>3. QED
      BY <3>1, <3>2
  <2>3. QED
    BY <2>1, <2>2 DEF Holds
<1>16. new = <<>> <=> old = <<>>
  <2>1. new = <<>> <=> DOMAIN new = {}
    BY <1>12, EmptyFunction
  <2>2. old = <<>> <=> DOMAIN old = {}
    BY <1>3, FilterComesFrom, EmptyFunction
  <2>3. DOMAIN new = {} <=> DOMAIN old = {}
    BY <1>9, <1>11, <1>12, <1>13
  <2>4. QED
    BY <2>1, <2>2, <2>3
<1>17. QED
    BY <1>1, <1>3, <1>8, <1>15, <1>16

\* So a catalog read finds what the request asks for.
LEMMA IndexedAsks ==
    ASSUME NEW x, IsRequest(x), NEW a \in Ads
    PROVE  LET f == Indexed(Effective(x))
           IN  /\ Matches(f, x.direct, Types(x), a) /\ TextPasses(f, x.term, a)
                    <=> AnswersCatalog(x, {}, a)
<1>1. PICK f : f = Indexed(Effective(x))
    OBVIOUS
<1>2. /\ f.fee = Effective(x).fee
      /\ f.categorical = <<>> <=> Effective(x).categorical = <<>>
      /\ Holds(f.categorical, a) <=> Holds(Effective(x).categorical, a)
    BY <1>1, IndexedFilters DEF Filter
<1>3. Matches(f, x.direct, Types(x), a) <=> Matches(Effective(x), x.direct, Types(x), a)
    BY <1>2 DEF Matches, PricePasses, InRange
<1>4. TextPasses(f, x.term, a) <=> TextPasses(Effective(x), x.term, a)
    BY <1>2 DEF TextPasses
<1>5. QED
    BY <1>1, <1>3, <1>4, PlainAsks DEF AnswersCatalog

-----------------------------------------------------------------------------
(* Parts and orders of sequences. *)

\* R orders the elements of S strictly, one after the other.
IsOrder(R, S) ==
    /\ R \subseteq S \X S
    /\ \A x, y \in S : x # y => <<x, y>> \in R \/ <<y, x>> \in R
    /\ \A x \in S : <<x, x>> \notin R
    /\ \A x, y, z \in S : <<x, y>> \in R /\ <<y, z>> \in R => <<x, z>> \in R

\* How many come before an element.
Place(R, S, x) == Cardinality({y \in S : <<y, x>> \in R})

\* Places are different, within the set's size and grow with the order.
LEMMA PlacesGrow ==
    ASSUME NEW S, IsFiniteSet(S), NEW R, IsOrder(R, S)
    PROVE  /\ \A x \in S : Place(R, S, x) \in 0 .. (Cardinality(S) - 1)
           /\ \A x, z \in S : <<x, z>> \in R => Place(R, S, x) < Place(R, S, z)
<1>1. Cardinality(S) \in Nat
    BY FS_CardinalityType
<1>2. ASSUME NEW x \in S PROVE Place(R, S, x) \in 0 .. (Cardinality(S) - 1)
  <2>1. PICK P : P = {y \in S : <<y, x>> \in R}
    OBVIOUS
  <2>2. P \subseteq S \ {x}
    BY <2>1 DEF IsOrder
  <2>3. IsFiniteSet(S \ {x}) /\ Cardinality(S \ {x}) = Cardinality(S) - 1
    BY FS_RemoveElement
  <2>4. IsFiniteSet(P) /\ Cardinality(P) <= Cardinality(S) - 1
    BY <2>2, <2>3, FS_Subset
  <2>5. Cardinality(P) \in Nat
    BY <2>4, FS_CardinalityType
  <2>6. QED
    BY <1>1, <2>1, <2>4, <2>5 DEF Place
<1>3. ASSUME NEW x \in S, NEW z \in S, <<x, z>> \in R PROVE Place(R, S, x) < Place(R, S, z)
  <2>1. PICK P : P = {y \in S : <<y, x>> \in R}
    OBVIOUS
  <2>2. PICK Q : Q = {y \in S : <<y, z>> \in R}
    OBVIOUS
  <2>3. P \subseteq Q /\ Q \subseteq S /\ x \in Q /\ x \notin P
    BY <1>3, <2>1, <2>2 DEF IsOrder
  <2>4. IsFiniteSet(P) /\ IsFiniteSet(Q)
    BY <2>3, FS_Subset
  <2>5. Cardinality(P) \in Nat /\ Cardinality(Q) \in Nat
    BY <2>4, FS_CardinalityType
  <2>6. Cardinality(P) <= Cardinality(Q) /\ (Cardinality(Q) = Cardinality(P) => Q = P)
    BY <2>3, <2>4, FS_Subset
  <2>7. QED
    BY <2>1, <2>2, <2>3, <2>5, <2>6 DEF Place
<1>4. QED
    BY <1>2, <1>3

\* The numbers up to n.
LEMMA UpTo ==
    ASSUME NEW n \in Nat
    PROVE  IsFiniteSet(1 .. n) /\ Cardinality(1 .. n) = n
<1>1. 1 \in Int /\ n \in Int /\ (IF 1 > n THEN 0 ELSE n - 1 + 1) = n
    OBVIOUS
<1>2. QED
    BY <1>1, FS_Interval

\* A finite set can be listed in an order.
LEMMA ListExists ==
    ASSUME NEW S, IsFiniteSet(S), NEW R, IsOrder(R, S)
    PROVE  \E f \in Bijection(1 .. Cardinality(S), S) :
              \A i, j \in 1 .. Cardinality(S) : i < j => <<f[i], f[j]>> \in R
<1>1. PICK n \in Nat : n = Cardinality(S)
    BY FS_CardinalityType
<1>2. PICK place : place = [x \in S |-> Place(R, S, x) + 1]
    OBVIOUS
<1>3. place \in [S -> 1 .. n] /\ \A x, z \in S : <<x, z>> \in R => place[x] < place[z]
  <2>1. /\ \A x \in S : Place(R, S, x) \in 0 .. (n - 1)
        /\ \A x, z \in S : <<x, z>> \in R => Place(R, S, x) < Place(R, S, z)
    BY <1>1, PlacesGrow
  <2>2. \A x \in S : Place(R, S, x) \in Int /\ place[x] = Place(R, S, x) + 1 /\ place[x] \in 1 .. n
    BY <1>1, <1>2, <2>1
  <2>3. place \in [S -> 1 .. n]
    BY <1>2, <2>2
  <2>4. QED
    BY <2>1, <2>2, <2>3
<1>4. \A x, z \in S : place[x] = place[z] => x = z
  <2>1. SUFFICES ASSUME NEW x \in S, NEW z \in S, x # z PROVE place[x] # place[z]
    OBVIOUS
  <2>2. <<x, z>> \in R \/ <<z, x>> \in R
    BY <2>1 DEF IsOrder
  <2>3. place[x] \in Int /\ place[z] \in Int /\ (place[x] < place[z] \/ place[z] < place[x])
    BY <1>3, <2>2
  <2>4. QED
    BY <2>3
<1>5. place \in Injection(S, 1 .. n)
    BY <1>3, <1>4 DEF Injection, IsInjective
<1>6. IsFiniteSet(1 .. n) /\ Cardinality(1 .. n) = n
    BY UpTo
<1>7. place \in Surjection(S, 1 .. n)
    BY <1>1, <1>5, <1>6, FS_Injection
<1>8. \A i \in 1 .. n : \E x \in S : place[x] = i
    BY <1>7 DEF Surjection
<1>9. PICK f : f = [i \in 1 .. n |-> CHOOSE x \in S : place[x] = i]
    OBVIOUS
<1>10. \A i \in 1 .. n : f[i] \in S /\ place[f[i]] = i
    BY <1>8, <1>9
<1>11. \A x \in S : place[x] \in 1 .. n /\ f[place[x]] = x
    BY <1>3, <1>4, <1>10
<1>12. f \in Bijection(1 .. n, S)
  <2>1. f \in [1 .. n -> S]
    BY <1>9, <1>10
  <2>2. \A i, j \in 1 .. n : f[i] = f[j] => i = j
    BY <1>10
  <2>3. QED
    BY <1>11, <2>1, <2>2 DEF Bijection, Injection, Surjection, IsInjective
<1>13. ASSUME NEW i \in 1 .. n, NEW j \in 1 .. n, i < j PROVE <<f[i], f[j]>> \in R
  <2>1. f[i] \in S /\ f[j] \in S /\ place[f[i]] = i /\ place[f[j]] = j
    BY <1>10
  <2>2. f[i] # f[j]
    BY <1>13, <2>1
  <2>3. ~(<<f[j], f[i]>> \in R)
    BY <1>3, <1>13, <2>1
  <2>4. QED
    BY <2>1, <2>2, <2>3 DEF IsOrder
<1>14. QED
    BY <1>1, <1>12, <1>13

\* A part of a sequence holds what the sequence holds, and is no longer.
LEMMA AmongIsPart ==
    ASSUME NEW T, NEW s \in Seq(T), NEW S
    PROVE  /\ Among(s, S) \in Seq(T) /\ Len(Among(s, S)) <= Len(s)
           /\ \A x \in Range(Among(s, S)) : x \in S /\ x \in Range(s)
<1>1. Len(s) \in Nat /\ DOMAIN s = 1 .. Len(s)
    OBVIOUS
<1>2. PICK at : at = {i \in DOMAIN s : s[i] \in S}
    OBVIOUS
<1>3. PICK n : n = Cardinality(at)
    OBVIOUS
<1>4. at \subseteq 1 .. Len(s) /\ \A i \in at : s[i] \in S /\ s[i] \in T
    BY <1>1, <1>2
<1>5. IsFiniteSet(at) /\ n \in Nat /\ n <= Len(s)
  <2>1. PICK all : all = 1 .. Len(s)
    OBVIOUS
  <2>2. IsFiniteSet(all) /\ Cardinality(all) = Len(s) /\ at \in SUBSET all
    BY <1>1, <1>4, <2>1, UpTo
  <2>3. IsFiniteSet(at) /\ Cardinality(at) <= Cardinality(all)
    BY <2>2, FS_Subset
  <2>4. Cardinality(at) \in Nat
    BY <2>3, FS_CardinalityType
  <2>5. QED
    BY <1>3, <2>2, <2>3, <2>4
<1>6. PICK f : f = CHOOSE g \in Bijection(1 .. n, at) : \A i, j \in 1 .. n : i < j => g[i] < g[j]
    OBVIOUS
<1>7. f \in [1 .. n -> at]
  <2>1. PICK R : R = {p \in at \X at : p[1] < p[2]}
    OBVIOUS
  <2>2. \A i, j \in at : <<i, j>> \in R <=> i < j
    BY <2>1
  <2>3. IsOrder(R, at)
    <3>1. R \subseteq at \X at
      BY <2>1
    <3>2. \A i \in at : i \in Nat
      BY <1>1, <1>4
    <3>3. QED
      BY <2>2, <3>1, <3>2 DEF IsOrder
  <2>4. \E g \in Bijection(1 .. n, at) : \A i, j \in 1 .. n : i < j => <<g[i], g[j]>> \in R
    BY <1>3, <1>5, <2>3, ListExists
  <2>5. \E g \in Bijection(1 .. n, at) : \A i, j \in 1 .. n : i < j => g[i] < g[j]
    <3>1. PICK g \in Bijection(1 .. n, at) : \A i, j \in 1 .. n : i < j => <<g[i], g[j]>> \in R
      BY <2>4
    <3>2. g \in [1 .. n -> at]
      BY DEF Bijection, Injection
    <3>3. \A i, j \in 1 .. n : i < j => g[i] < g[j]
      BY <2>2, <3>1, <3>2
    <3>4. QED
      BY <3>3
  <2>6. f \in Bijection(1 .. n, at)
    BY <1>6, <2>5
  <2>7. QED
    BY <2>6 DEF Bijection, Injection
<1>8. Among(s, S) = [i \in 1 .. n |-> s[f[i]]]
    BY <1>2, <1>3, <1>6 DEF Among
<1>9. PICK u : u = [i \in 1 .. n |-> s[f[i]]]
    OBVIOUS
<1>10. u \in Seq(T) /\ Len(u) = n /\ DOMAIN u = 1 .. n /\ \A i \in 1 .. n : u[i] = s[f[i]]
  <2>1. \A i \in 1 .. n : f[i] \in at /\ s[f[i]] \in T
    BY <1>4, <1>7
  <2>2. u \in [1 .. n -> T]
    BY <1>9, <2>1
  <2>3. u \in Seq(T) /\ Len(u) = n
    BY <1>5, <2>2
  <2>4. QED
    BY <1>9, <2>3
<1>11. \A x \in Range(u) : x \in S /\ x \in Range(s)
  <2>1. SUFFICES ASSUME NEW x \in Range(u) PROVE x \in S /\ x \in Range(s)
    OBVIOUS
  <2>2. PICK i \in 1 .. n : x = u[i]
    BY <1>10 DEF Range
  <2>3. f[i] \in at /\ x = s[f[i]]
    BY <1>7, <1>10, <2>2
  <2>4. f[i] \in DOMAIN s /\ x \in S
    BY <1>4, <2>3
  <2>5. QED
    BY <2>3, <2>4 DEF Range
<1>12. QED
    BY <1>5, <1>8, <1>9, <1>10, <1>11

\* The order of a catalog read lists the ads one after the other.
LEMMA BeforeOrders ==
    ASSUME NEW order \in SortOrders, NEW S \in SUBSET Ads
    PROVE  IsOrder({p \in S \X S : Before(order, p[1], p[2])}, S)
<1>1. PICK R : R = {p \in S \X S : Before(order, p[1], p[2])}
    OBVIOUS
<1>2. \A a, b \in S : <<a, b>> \in R <=> Before(order, a, b)
    BY <1>1
<1>3. \A a \in S : a \in Nat /\ Column[a]["fee"] \in Nat
    BY AdsAssumption
<1>4. order \in {"recent", "price_asc", "price_desc"}
    BY DEF SortOrders
<1>5. PICK fee : fee = [a \in S |-> Column[a]["fee"]]
    OBVIOUS
<1>6. fee \in [S -> Nat] /\ \A a \in S : (Priced(a) <=> fee[a] > 1) /\ fee[a] = Column[a]["fee"]
    BY <1>3, <1>5 DEF Priced
<1>7. /\ \A a, b \in S : a # b => Before(order, a, b) \/ Before(order, b, a)
      /\ \A a \in S : ~Before(order, a, a)
      /\ \A a, b, c \in S : Before(order, a, b) /\ Before(order, b, c) => Before(order, a, c)
  <2>1. CASE order = "recent"
    <3>1. \A a, b \in S : Before(order, a, b) <=> a > b
      BY <1>3, <2>1 DEF Before
    <3>2. QED
      BY <1>3, <3>1
  <2>2. CASE order = "price_asc"
    <3>1. \A a, b \in S : Before(order, a, b) <=>
            IF fee[a] > 1 /\ fee[b] > 1 THEN fee[a] < fee[b] \/ (fee[a] = fee[b] /\ a > b)
            ELSE IF fee[a] > 1 \/ fee[b] > 1 THEN fee[a] > 1 ELSE a > b
      BY <1>3, <1>6, <2>2 DEF Before
    <3>2. QED
      BY <1>3, <1>6, <3>1
  <2>3. CASE order = "price_desc"
    <3>1. \A a, b \in S : Before(order, a, b) <=>
            IF fee[a] > 1 /\ fee[b] > 1 THEN fee[a] > fee[b] \/ (fee[a] = fee[b] /\ a > b)
            ELSE IF fee[a] > 1 \/ fee[b] > 1 THEN fee[a] > 1 ELSE a > b
      BY <1>3, <1>6, <2>3 DEF Before
    <3>2. QED
      BY <1>3, <1>6, <3>1
  <2>4. QED
    BY <1>4, <2>1, <2>2, <2>3
<1>8. R \subseteq S \X S
    BY <1>1
<1>9. IsOrder(R, S)
    BY <1>2, <1>7, <1>8 DEF IsOrder
<1>10. QED
    BY <1>1, <1>9

\* So it is a list of those ads and no others.
LEMMA OrderedLists ==
    ASSUME NEW order \in SortOrders, NEW S \in SUBSET Ads
    PROVE  Ordered(order, S) \in Seq(S)
<1>1. PICK n : n = Cardinality(S)
    OBVIOUS
<1>2. IsFiniteSet(S) /\ n \in Nat
  <2>1. IsFiniteSet(S)
    BY AdsAssumption, FS_Subset
  <2>2. QED
    BY <1>1, <2>1, FS_CardinalityType
<1>3. PICK R : R = {p \in S \X S : Before(order, p[1], p[2])}
    OBVIOUS
<1>4. \A a, b \in S : <<a, b>> \in R => Before(order, a, b)
    BY <1>3
<1>5. PICK g \in Bijection(1 .. n, S) : \A i, j \in 1 .. n : i < j => <<g[i], g[j]>> \in R
    BY <1>1, <1>2, <1>3, BeforeOrders, ListExists
<1>6. g \in [1 .. n -> S]
    BY DEF Bijection, Injection
<1>7. \A i, j \in 1 .. n : i < j => Before(order, g[i], g[j])
    BY <1>4, <1>5, <1>6
<1>8. Ordered(order, S) \in Bijection(1 .. n, S)
    BY <1>1, <1>5, <1>7 DEF Ordered
<1>9. Ordered(order, S) \in [1 .. n -> S]
    BY <1>8 DEF Bijection, Injection
<1>10. QED
    BY <1>2, <1>9

\* A page of a list.
LEMMA PageIsPart ==
    ASSUME NEW T, NEW s \in Seq(T), NEW page \in Nat \ {0}
    PROVE  /\ PageOf(s, page) \in Seq(T) /\ Len(PageOf(s, page)) <= Len(s)
           /\ \A x \in Range(PageOf(s, page)) : x \in Range(s)
           /\ s = <<>> => PageOf(s, page) = <<>>
           /\ page = 1 /\ PageOf(s, page) = <<>> => Len(s) = 0
<1>1. Len(s) \in Nat
    OBVIOUS
<1>2. PICK from \in Nat : from = (page - 1) * PageSize
  <2>1. page - 1 \in Nat /\ PageSize \in Nat
    BY PageSizeAssumption
  <2>2. QED
    BY <2>1
<1>3. PICK end \in Nat : end = page * PageSize
    BY PageSizeAssumption
<1>4. from \in Nat /\ end \in Nat
    BY <1>2, <1>3
<1>5. PICK to : to = Min({end, Len(s)})
    OBVIOUS
<1>6. to \in Nat /\ to <= Len(s) /\ (to = end \/ to = Len(s)) /\ to <= end
  <2>1. \E x \in {end, Len(s)} : \A y \in {end, Len(s)} : x =< y
    BY <1>1, <1>3
  <2>2. to \in {end, Len(s)} /\ \A y \in {end, Len(s)} : to =< y
    BY <1>5, <2>1 DEF Min
  <2>3. QED
    BY <1>1, <1>4, <2>2
<1>7. PICK u : u = SubSeq(s, from + 1, to)
    OBVIOUS
<1>8. PageOf(s, page) = u
    BY <1>2, <1>3, <1>5, <1>7 DEF PageOf
<1>9. /\ u \in Seq(T) /\ Len(u) = IF from < to THEN to - from ELSE 0
      /\ \A i \in 1 .. Len(u) : u[i] = s[i + from]
  <2>1. from + 1 \in Int /\ to \in Int /\ \A i \in (from + 1) .. to : s[i] \in T
    BY <1>1, <1>4, <1>6
  <2>2. /\ SubSeq(s, from + 1, to) \in Seq(T)
        /\ Len(SubSeq(s, from + 1, to)) = IF from + 1 <= to THEN to - (from + 1) + 1 ELSE 0
        /\ \A i \in 1 .. (to - (from + 1) + 1) : SubSeq(s, from + 1, to)[i] = s[from + 1 + i - 1]
    BY <2>1, SubSeqProperties
  <2>3. u \in Seq(T) /\ Len(u) = IF from < to THEN to - from ELSE 0
    BY <1>4, <1>6, <1>7, <2>2
  <2>4. \A i \in 1 .. Len(u) : i \in 1 .. (to - (from + 1) + 1) /\ from + 1 + i - 1 = i + from
    BY <1>4, <1>6, <2>3
  <2>5. QED
    BY <1>7, <2>2, <2>3, <2>4
<1>10. \A i \in 1 .. Len(u) : i + from \in DOMAIN s
    BY <1>1, <1>4, <1>6, <1>9
<1>11. DOMAIN u = 1 .. Len(u)
    BY <1>9
<1>12. Len(u) <= Len(s)
    BY <1>1, <1>4, <1>6, <1>9
<1>13. \A x \in Range(u) : x \in Range(s)
    BY <1>9, <1>10, <1>11 DEF Range
<1>14. s = <<>> => u = <<>>
    BY <1>1, <1>4, <1>6, <1>9
<1>15. page = 1 /\ u = <<>> => Len(s) = 0
  <2>1. SUFFICES ASSUME page = 1, u = <<>> PROVE Len(s) = 0
    OBVIOUS
  <2>2. from = 0 /\ end = PageSize /\ end \in Nat /\ end >= 1
    BY <1>2, <1>3, <2>1, PageSizeAssumption
  <2>3. Len(u) = 0
    BY <2>1
  <2>4. to <= 0
    BY <1>6, <1>9, <2>2, <2>3
  <2>5. QED
    BY <1>1, <1>6, <2>2, <2>4
<1>16. QED
    BY <1>8, <1>9, <1>12, <1>13, <1>14, <1>15

-----------------------------------------------------------------------------
(* What a search has read is what it asked for. *)

Modes == {"catalog", "ranked", "rows"}

\* A search is past its reads.
Read == {"remember", "watch", "record", "answered"}

\* What a read of a resting catalog finds.
Hits(r) == {a \in OnSale : AnswersCatalog(q(r), {}, a)}
RankedHits(r, ranked) == Among(ranked, {a \in OnSale : Answers(q(r), {}, a)})

\* Rows that may be shown, and the rows that a resting catalog has.
GoodRows(r, mode, ranked, rows) ==
    /\ \A a \in Range(rows) : a \in seen[r] /\ Answers(q(r), {}, a)
    /\ steady[r] =>
         /\ mode = "catalog" => rows = PageOf(Ordered(Order(q(r)), Hits(r)), q(r).page)
         /\ mode = "ranked" => rows = PageOf(RankedHits(r, ranked), q(r).page)
         /\ mode = "rows" => rows = RankedHits(r, ranked)

GoodTotal(r, mode, ranked, total) ==
    steady[r] =>
        /\ mode = "catalog" => total = Cardinality(Hits(r))
        /\ mode = "ranked" => total = Len(RankedHits(r, ranked))

\* How far a thread of a search has come, and what its statements have found.
PartRead(r, mode, ranked, parallel, i, rd) ==
    /\ mode = "catalog" /\ parallel /\ i = 1 =>
         /\ rd.todo \in {<<"total">>, <<>>}
         /\ rd.todo = <<>> => GoodTotal(r, mode, ranked, rd.total)
    /\ mode = "catalog" /\ parallel /\ i = 2 =>
         /\ rd.todo \in {<<"rows">>, <<>>}
         /\ rd.todo = <<>> => GoodRows(r, mode, ranked, rd.rows)
    /\ mode = "catalog" /\ ~parallel =>
         /\ rd.todo \in {<<"total", "rows">>, <<"rows">>, <<>>}
         /\ rd.todo # <<"total", "rows">> => GoodTotal(r, mode, ranked, rd.total)
         /\ rd.todo = <<>> => GoodRows(r, mode, ranked, rd.rows)
    /\ mode = "ranked" =>
         /\ rd.todo \in {<<"page">>, <<"count">>, <<>>}
         /\ rd.todo = <<"page">> => rd.rows = <<>>
         /\ rd.todo # <<"page">> => GoodRows(r, mode, ranked, rd.rows)
         /\ rd.todo = <<>> => GoodTotal(r, mode, ranked, rd.total)
    /\ mode = "rows" =>
         /\ rd.todo \in {<<"ids">>, <<>>}
         /\ rd.todo = <<>> => GoodRows(r, mode, ranked, rd.rows)

\* A thread of a search reads only while the search does.
ThreadRead(r, i) ==
    LET rd == read[Thread(r, i)]
    IN  /\ DOMAIN rd = DOMAIN NoRead
        /\ rd.st # "none" => req[r].pc = "reading" /\ i \in Used(r)
        /\ rd.st = "done" => rd.todo = <<>>
        /\ req[r].pc = "reading" /\ i \in Used(r) =>
             PartRead(r, req[r].mode, req[r].ranked, req[r].parallel, i, rd)

\* What a search knows.
SearchKnows(r) ==
    LET x == req[r]
    IN  /\ DOMAIN x = DOMAIN Idle
        /\ x.pc \in {"read", "reading"} \cup Read =>
             /\ x.mode \in Modes /\ x.ranked \in Seq(Ads)
             /\ x.mode = "rows" => x.total \in Nat /\ Len(x.ranked) <= x.total
        /\ x.pc = "reading" => x.parallel \in BOOLEAN /\ (x.parallel => x.mode = "catalog")
        /\ x.pc \in Read =>
             /\ GoodRows(r, x.mode, x.ranked, x.rows)
             /\ GoodTotal(r, x.mode, x.ranked, x.total)
        /\ Active(r) => OnSale \subseteq seen[r]

SearchInv(r) == SearchKnows(r) /\ ThreadRead(r, 1) /\ ThreadRead(r, 2)

\* The inductive invariant of the answers.
AnswerInv ==
    /\ ready \subseteq Ads
    /\ read = [w \in Workers |-> read[w]]
    /\ seen = [r \in Requests |-> seen[r]] /\ steady = [r \in Requests |-> steady[r]]
    /\ \A r \in load.searches : SearchInv(r)

\* A job's request has been answered.
IsOver(r) == req[r].pc = "answered"

Blocking(r) == {g \in Range(Variants(q(r))) : Recovers(r, g)}

\* The inductive invariant of the diagnostics: what has been counted so far.
DiagInv ==
    /\ changes \in Nat
    /\ DOMAIN diag = {"pc", "job", "attempt", "blocking"}
    /\ read = [w \in Workers |-> read[w]] /\ DOMAIN read[DiagThread] = DOMAIN NoRead
    /\ \A i \in 1 .. Len(queue) : queue[i] # Stop => IsOver(queue[i])
    /\ diag.pc \in AtWork => IsOver(diag.job)
    /\ read[DiagThread].st # "none" => diag.pc = "count"
    /\ diag.pc = "count" =>
         LET rd == read[DiagThread]
         IN  /\ rd.todo \in Seq(Range(Variants(q(diag.job))))
             /\ rd.st = "done" => rd.todo = <<>>
             /\ changes = 0 =>
                  Blocking(diag.job) =
                    diag.blocking \cup {g \in Range(rd.todo) : Recovers(diag.job, g)}
    /\ diag.pc = "counted" /\ changes = 0 => diag.blocking = Blocking(diag.job)

\* What the statements test is what the request asks for.
LEMMA FoundIsAsked ==
    ASSUME load \in Loads, ready \subseteq Ads, NEW r \in Requests
    PROVE  /\ IsRequest(q(r)) /\ Order(q(r)) \in SortOrders
           /\ Found(r) = Hits(r) /\ Hits(r) \in SUBSET Ads /\ Hits(r) \in SUBSET OnSale
           /\ FoundRanked(r) = RankedHits(r, req[r].ranked)
<1>1. IsRequest(q(r))
    BY LoadsAssumption DEF q
<1>2. Order(q(r)) \in SortOrders
    BY <1>1, PlanIsSound DEF Order, IsRequest
<1>3. OnSale \subseteq Ads
    BY DEF OnSale
<1>4. Found(r) = Hits(r)
    BY <1>1, <1>3, IndexedAsks DEF Found, Hits
<1>5. FoundRanked(r) = RankedHits(r, req[r].ranked)
  <2>1. {a \in OnSale : Matches(Effective(q(r)), q(r).direct, Types(q(r)), a)} =
          {a \in OnSale : Answers(q(r), {}, a)}
    BY <1>1, <1>3, PlainAsks
  <2>2. QED
    BY <2>1 DEF FoundRanked, RankedHits
<1>6. QED
    BY <1>1, <1>2, <1>3, <1>4, <1>5 DEF Hits

\* The rows of a catalog read.
LEMMA CatalogRows ==
    ASSUME load \in Loads, ready \subseteq Ads, NEW r \in Requests, NEW ranked,
           OnSale \subseteq seen[r]
    PROVE  LET rows == PageOf(Ordered(Order(q(r)), Found(r)), q(r).page)
           IN  GoodRows(r, "catalog", ranked, rows)
<1>1. PICK all : all = Ordered(Order(q(r)), Hits(r))
    OBVIOUS
<1>2. all \in Seq(Hits(r)) /\ q(r).page \in Nat \ {0}
    BY <1>1, FoundIsAsked, OrderedLists DEF IsRequest
<1>3. PICK rows : rows = PageOf(all, q(r).page)
    OBVIOUS
<1>4. rows \in Seq(Hits(r))
    BY <1>2, <1>3, PageIsPart
<1>5. \A a \in Range(rows) : a \in Hits(r)
    BY <1>4 DEF Range
<1>6. \A a \in Range(rows) : a \in seen[r] /\ Answers(q(r), {}, a)
    BY <1>5 DEF Hits, AnswersCatalog
<1>7. rows = PageOf(Ordered(Order(q(r)), Found(r)), q(r).page)
    BY <1>1, <1>3, FoundIsAsked
<1>8. QED
    BY <1>1, <1>3, <1>6, <1>7 DEF GoodRows

\* The rows of a ranked list, and a page of them.
LEMMA RankedRows ==
    ASSUME load \in Loads, ready \subseteq Ads, NEW r \in Requests, req[r].ranked \in Seq(Ads),
           OnSale \subseteq seen[r]
    PROVE  LET rows == PageOf(FoundRanked(r), q(r).page)
           IN  /\ GoodRows(r, "ranked", req[r].ranked, rows)
               /\ GoodRows(r, "rows", req[r].ranked, FoundRanked(r))
               /\ rows = <<>> /\ q(r).page = 1 => Len(FoundRanked(r)) = 0
               /\ Len(FoundRanked(r)) \in Nat /\ Len(FoundRanked(r)) <= Len(req[r].ranked)
<1>1. PICK good : good = {a \in OnSale : Answers(q(r), {}, a)}
    OBVIOUS
<1>2. PICK all : all = Among(req[r].ranked, good)
    OBVIOUS
<1>3. all = FoundRanked(r) /\ all = RankedHits(r, req[r].ranked)
    BY <1>1, <1>2, FoundIsAsked DEF RankedHits
<1>4. /\ all \in Seq(Ads) /\ Len(all) <= Len(req[r].ranked)
      /\ \A a \in Range(all) : a \in good
    BY <1>2, AmongIsPart
<1>5. q(r).page \in Nat \ {0}
    BY FoundIsAsked DEF IsRequest
<1>6. PICK rows : rows = PageOf(all, q(r).page)
    OBVIOUS
<1>7. /\ \A a \in Range(rows) : a \in Range(all)
      /\ q(r).page = 1 /\ rows = <<>> => Len(all) = 0
    BY <1>4, <1>5, <1>6, PageIsPart
<1>8. /\ \A a \in Range(rows) : a \in seen[r] /\ Answers(q(r), {}, a)
      /\ \A a \in Range(all) : a \in seen[r] /\ Answers(q(r), {}, a)
    BY <1>1, <1>4, <1>7
<1>9. GoodRows(r, "ranked", req[r].ranked, rows) /\ GoodRows(r, "rows", req[r].ranked, all)
    BY <1>3, <1>6, <1>8 DEF GoodRows
<1>10. Len(all) \in Nat
    BY <1>4
<1>11. QED
    BY <1>3, <1>4, <1>6, <1>7, <1>9, <1>10

\* What is good stays good while the catalog rests, and is only history after.
LEMMA GoodStays ==
    ASSUME NEW r, load' = load, \A a \in seen[r] : a \in seen'[r],
           steady'[r] => steady[r] /\ ad' = ad /\ ready' = ready,
           NEW mode, NEW ranked, NEW rows, NEW total
    PROVE  /\ GoodRows(r, mode, ranked, rows) => GoodRows(r, mode, ranked, rows)'
           /\ GoodTotal(r, mode, ranked, total) => GoodTotal(r, mode, ranked, total)'
<1>1. q(r)' = q(r)
    BY DEF q
<1>2. steady'[r] => Hits(r)' = Hits(r) /\ RankedHits(r, ranked)' = RankedHits(r, ranked)
    BY <1>1 DEF Hits, RankedHits, OnSale
<1>3. GoodRows(r, mode, ranked, rows) => GoodRows(r, mode, ranked, rows)'
    BY <1>1, <1>2 DEF GoodRows
<1>4. GoodTotal(r, mode, ranked, total) => GoodTotal(r, mode, ranked, total)'
    BY <1>2 DEF GoodTotal
<1>5. QED
    BY <1>3, <1>4

\* So does what a thread has found.
LEMMA PartStays ==
    ASSUME NEW r, load' = load, \A a \in seen[r] : a \in seen'[r],
           steady'[r] => steady[r] /\ ad' = ad /\ ready' = ready,
           NEW mode, NEW ranked, NEW parallel, NEW i, NEW rd,
           PartRead(r, mode, ranked, parallel, i, rd)
    PROVE  PartRead(r, mode, ranked, parallel, i, rd)'
<1>1. /\ GoodRows(r, mode, ranked, rd.rows) => GoodRows(r, mode, ranked, rd.rows)'
      /\ GoodTotal(r, mode, ranked, rd.total) => GoodTotal(r, mode, ranked, rd.total)'
    BY GoodStays
<1>2. QED
    BY <1>1 DEF PartRead

\* One statement of a search's thread.
LEMMA StatementFinds ==
    ASSUME load \in Loads, ready \subseteq Ads, NEW r \in Requests,
           req[r].mode \in Modes, req[r].ranked \in Seq(Ads), req[r].parallel \in BOOLEAN,
           req[r].parallel => req[r].mode = "catalog",
           OnSale \subseteq seen[r], NEW i \in {1, 2}, NEW rd, DOMAIN rd = DOMAIN NoRead,
           rd.todo # <<>>, PartRead(r, req[r].mode, req[r].ranked, req[r].parallel, i, rd)
    PROVE  LET x == Executed(r, Head(rd.todo), rd)
           IN  /\ DOMAIN x = DOMAIN NoRead /\ x.st = rd.st
               /\ PartRead(r, req[r].mode, req[r].ranked, req[r].parallel, i, x)
<1>1. PICK s : s = Head(rd.todo)
    OBVIOUS
<1>2. PICK x : x = Executed(r, s, rd)
    OBVIOUS
<1>3. DOMAIN rd = {"st", "todo", "total", "rows"}
    BY DEF NoRead
<1>4. PICK mode, ranked, parallel :
        mode = req[r].mode /\ ranked = req[r].ranked /\ parallel = req[r].parallel
    OBVIOUS
<1>5. PICK rest : rest = [rd EXCEPT !.todo = Tail(rd.todo)]
    OBVIOUS
<1>6. /\ DOMAIN rest = DOMAIN NoRead /\ rest.st = rd.st /\ rest.todo = Tail(rd.todo)
      /\ rest.rows = rd.rows /\ rest.total = rd.total
    BY <1>3, <1>5 DEF NoRead
<1>7. Found(r) = Hits(r) /\ FoundRanked(r) = RankedHits(r, ranked)
    BY <1>4, FoundIsAsked
<1>8. ASSUME s = "total"
      PROVE  /\ DOMAIN x = DOMAIN NoRead /\ x.st = rd.st /\ x.todo = Tail(rd.todo)
             /\ x.rows = rd.rows /\ GoodTotal(r, "catalog", ranked, x.total)
  <2>1. x = [rest EXCEPT !.total = Cardinality(Found(r))]
    BY <1>2, <1>5, <1>8 DEF Executed
  <2>2. /\ DOMAIN x = DOMAIN NoRead /\ x.st = rd.st /\ x.todo = Tail(rd.todo)
        /\ x.rows = rd.rows /\ x.total = Cardinality(Hits(r))
    BY <1>3, <1>6, <1>7, <2>1 DEF NoRead
  <2>3. QED
    BY <2>2 DEF GoodTotal
<1>9. ASSUME s = "rows"
      PROVE  /\ DOMAIN x = DOMAIN NoRead /\ x.st = rd.st /\ x.todo = Tail(rd.todo)
             /\ x.total = rd.total /\ GoodRows(r, "catalog", ranked, x.rows)
  <2>1. PICK rows : rows = PageOf(Ordered(Order(q(r)), Found(r)), q(r).page)
    OBVIOUS
  <2>2. x = [rest EXCEPT !.rows = rows]
    BY <1>2, <1>5, <1>9, <2>1 DEF Executed
  <2>3. /\ DOMAIN x = DOMAIN NoRead /\ x.st = rd.st /\ x.todo = Tail(rd.todo)
        /\ x.total = rd.total /\ x.rows = rows
    BY <1>3, <1>6, <2>2 DEF NoRead
  <2>4. GoodRows(r, "catalog", ranked, rows)
    BY <2>1, CatalogRows
  <2>5. QED
    BY <2>3, <2>4
<1>10. ASSUME s = "page", rd.todo = <<"page">>, rd.rows = <<>>, mode = "ranked"
       PROVE  /\ DOMAIN x = DOMAIN NoRead /\ x.st = rd.st
              /\ GoodRows(r, mode, ranked, x.rows)
              /\ \/ x.todo = <<"count">>
                 \/ x.todo = <<>> /\ GoodTotal(r, mode, ranked, x.total)
  <2>1. PICK rows : rows = PageOf(FoundRanked(r), q(r).page)
    OBVIOUS
  <2>2. /\ GoodRows(r, mode, ranked, rows)
        /\ rows = <<>> /\ q(r).page = 1 => Len(FoundRanked(r)) = 0
    BY <1>4, <1>10, <2>1, RankedRows
  <2>3. q(r).page \in Nat \ {0}
    BY FoundIsAsked DEF IsRequest
  <2>4. CASE rows = <<>> /\ q(r).page > 1
    <3>1. x = [rest EXCEPT !.todo = <<"count">>]
      BY <1>2, <1>5, <1>10, <2>1, <2>4 DEF Executed
    <3>2. DOMAIN x = DOMAIN NoRead /\ x.st = rd.st /\ x.todo = <<"count">> /\ x.rows = rows
      BY <1>3, <1>6, <1>10, <2>4, <3>1 DEF NoRead
    <3>3. QED
      BY <2>2, <3>2
  <2>5. CASE ~(rows = <<>> /\ q(r).page > 1)
    <3>1. x = [rest EXCEPT !.rows = rows,
                           !.total = IF rows = <<>> THEN 0 ELSE Len(FoundRanked(r))]
      BY <1>2, <1>5, <1>10, <2>1, <2>5 DEF Executed
    <3>2. /\ DOMAIN x = DOMAIN NoRead /\ x.st = rd.st /\ x.todo = Tail(rd.todo)
          /\ x.rows = rows /\ x.total = IF rows = <<>> THEN 0 ELSE Len(FoundRanked(r))
      BY <1>3, <1>6, <3>1 DEF NoRead
    <3>3. x.todo = <<>>
      BY <1>10, <3>2
    <3>4. x.total = Len(FoundRanked(r))
      BY <2>2, <2>3, <2>5, <3>2
    <3>5. GoodTotal(r, mode, ranked, x.total)
      BY <1>7, <1>10, <3>4 DEF GoodTotal
    <3>6. QED
      BY <2>2, <3>2, <3>3, <3>5
  <2>6. QED
    BY <2>4, <2>5
<1>11. ASSUME s = "count", mode = "ranked"
       PROVE  /\ DOMAIN x = DOMAIN NoRead /\ x.st = rd.st /\ x.todo = Tail(rd.todo)
              /\ x.rows = rd.rows /\ GoodTotal(r, mode, ranked, x.total)
  <2>1. x = [rest EXCEPT !.total = Len(FoundRanked(r))]
    BY <1>2, <1>5, <1>11 DEF Executed
  <2>2. /\ DOMAIN x = DOMAIN NoRead /\ x.st = rd.st /\ x.todo = Tail(rd.todo)
        /\ x.rows = rd.rows /\ x.total = Len(FoundRanked(r))
    BY <1>3, <1>6, <2>1 DEF NoRead
  <2>3. QED
    BY <1>7, <1>11, <2>2 DEF GoodTotal
<1>12. ASSUME s = "ids"
       PROVE  /\ DOMAIN x = DOMAIN NoRead /\ x.st = rd.st /\ x.todo = Tail(rd.todo)
              /\ GoodRows(r, "rows", ranked, x.rows)
  <2>1. x = [rest EXCEPT !.rows = FoundRanked(r)]
    BY <1>2, <1>5, <1>12 DEF Executed
  <2>2. /\ DOMAIN x = DOMAIN NoRead /\ x.st = rd.st /\ x.todo = Tail(rd.todo)
        /\ x.rows = FoundRanked(r)
    BY <1>3, <1>6, <2>1 DEF NoRead
  <2>3. QED
    BY <1>4, <2>2, RankedRows
<1>13. PartRead(r, mode, ranked, parallel, i, rd)
    BY <1>4
<1>14. CASE mode = "catalog" /\ parallel
  <2>1. CASE i = 1
    <3>1. rd.todo = <<"total">>
      BY <1>13, <1>14, <2>1 DEF PartRead
    <3>2. s = "total" /\ Tail(rd.todo) = <<>>
      BY <1>1, <3>1
    <3>3. /\ DOMAIN x = DOMAIN NoRead /\ x.st = rd.st /\ x.todo = <<>>
          /\ GoodTotal(r, mode, ranked, x.total)
      BY <1>8, <1>14, <3>2
    <3>4. PartRead(r, mode, ranked, parallel, i, x)
      BY <1>14, <2>1, <3>3 DEF PartRead
    <3>5. QED
      BY <1>1, <1>2, <1>4, <3>3, <3>4
  <2>2. CASE i = 2
    <3>1. rd.todo = <<"rows">>
      BY <1>13, <1>14, <2>2 DEF PartRead
    <3>2. s = "rows" /\ Tail(rd.todo) = <<>>
      BY <1>1, <3>1
    <3>3. /\ DOMAIN x = DOMAIN NoRead /\ x.st = rd.st /\ x.todo = <<>>
          /\ GoodRows(r, mode, ranked, x.rows)
      BY <1>9, <1>14, <3>2
    <3>4. PartRead(r, mode, ranked, parallel, i, x)
      BY <1>14, <2>2, <3>3 DEF PartRead
    <3>5. QED
      BY <1>1, <1>2, <1>4, <3>3, <3>4
  <2>3. QED
    BY <2>1, <2>2
<1>15. CASE mode = "catalog" /\ ~parallel
  <2>1. CASE rd.todo = <<"total", "rows">>
    <3>1. s = "total" /\ Tail(rd.todo) = <<"rows">>
      BY <1>1, <2>1
    <3>2. /\ DOMAIN x = DOMAIN NoRead /\ x.st = rd.st /\ x.todo = <<"rows">>
          /\ GoodTotal(r, mode, ranked, x.total)
      BY <1>8, <1>15, <3>1
    <3>3. PartRead(r, mode, ranked, parallel, i, x)
      BY <1>15, <3>2 DEF PartRead
    <3>4. QED
      BY <1>1, <1>2, <1>4, <3>2, <3>3
  <2>2. CASE rd.todo = <<"rows">>
    <3>1. s = "rows" /\ Tail(rd.todo) = <<>> /\ rd.todo # <<"total", "rows">>
      BY <1>1, <2>2
    <3>2. /\ DOMAIN x = DOMAIN NoRead /\ x.st = rd.st /\ x.todo = <<>>
          /\ x.total = rd.total /\ GoodRows(r, mode, ranked, x.rows)
      BY <1>9, <1>15, <3>1
    <3>3. GoodTotal(r, mode, ranked, rd.total)
      BY <1>13, <1>15, <3>1 DEF PartRead
    <3>4. PartRead(r, mode, ranked, parallel, i, x)
      BY <1>15, <3>2, <3>3 DEF PartRead
    <3>5. QED
      BY <1>1, <1>2, <1>4, <3>2, <3>4
  <2>3. QED
    BY <1>13, <1>15, <2>1, <2>2 DEF PartRead
<1>16. CASE mode = "ranked"
  <2>1. CASE rd.todo = <<"page">>
    <3>1. s = "page" /\ rd.rows = <<>>
      BY <1>1, <1>13, <1>16, <2>1 DEF PartRead
    <3>2. /\ DOMAIN x = DOMAIN NoRead /\ x.st = rd.st
          /\ GoodRows(r, mode, ranked, x.rows)
          /\ \/ x.todo = <<"count">>
             \/ x.todo = <<>> /\ GoodTotal(r, mode, ranked, x.total)
      BY <1>10, <1>16, <2>1, <3>1
    <3>3. <<"count">> # <<"page">> /\ <<"count">> # <<>> /\ <<"page">> # <<>>
      OBVIOUS
    <3>4. PartRead(r, mode, ranked, parallel, i, x)
      BY <1>16, <3>2, <3>3 DEF PartRead
    <3>5. QED
      BY <1>1, <1>2, <1>4, <3>2, <3>4
  <2>2. CASE rd.todo = <<"count">>
    <3>1. s = "count" /\ Tail(rd.todo) = <<>> /\ rd.todo # <<"page">>
      BY <1>1, <2>2
    <3>2. /\ DOMAIN x = DOMAIN NoRead /\ x.st = rd.st /\ x.todo = <<>>
          /\ x.rows = rd.rows /\ GoodTotal(r, mode, ranked, x.total)
      BY <1>11, <1>16, <3>1
    <3>3. GoodRows(r, mode, ranked, rd.rows)
      BY <1>13, <1>16, <3>1 DEF PartRead
    <3>4. PartRead(r, mode, ranked, parallel, i, x)
      BY <1>16, <3>2, <3>3 DEF PartRead
    <3>5. QED
      BY <1>1, <1>2, <1>4, <3>2, <3>4
  <2>3. QED
    BY <1>13, <1>16, <2>1, <2>2 DEF PartRead
<1>17. CASE mode = "rows"
  <2>1. rd.todo = <<"ids">>
    BY <1>13, <1>17 DEF PartRead
  <2>2. s = "ids" /\ Tail(rd.todo) = <<>>
    BY <1>1, <2>1
  <2>3. /\ DOMAIN x = DOMAIN NoRead /\ x.st = rd.st /\ x.todo = <<>>
        /\ GoodRows(r, mode, ranked, x.rows)
    BY <1>12, <1>17, <2>2
  <2>4. PartRead(r, mode, ranked, parallel, i, x)
    BY <1>17, <2>3 DEF PartRead
  <2>5. QED
    BY <1>1, <1>2, <1>4, <2>3, <2>4
<1>18. parallel \/ ~parallel
    OBVIOUS
<1>19. QED
    BY <1>4, <1>14, <1>15, <1>16, <1>17, <1>18 DEF Modes

\* Threads are not shared.
LEMMA ThreadsApart ==
    /\ \A r \in Requests : Thread(r, 1) \in Workers /\ Thread(r, 2) \in Workers
    /\ \A r, s \in Requests : \A i, j \in {1, 2} : Thread(r, i) = Thread(s, j) => r = s /\ i = j
    /\ DiagThread \in Workers /\ \A r \in Requests : \A i \in {1, 2} : Thread(r, i) # DiagThread
<1>1. ASSUME NEW r \in Requests PROVE Thread(r, 1) \in Workers /\ Thread(r, 2) \in Workers
  <2>1. ThreadsOf[r] \in Workers \X Workers
    BY ThreadsAssumption
  <2>2. QED
    BY <2>1 DEF Thread
<1>2. QED
    BY <1>1, ThreadsAssumption DEF Thread

\* What a search knows stays where nothing of its own changes.
LEMMA SearchStays ==
    ASSUME NEW r \in Requests, SearchInv(r), load' = load, req'[r] = req[r],
           read'[Thread(r, 1)] = read[Thread(r, 1)], read'[Thread(r, 2)] = read[Thread(r, 2)],
           \A a \in seen[r] : a \in seen'[r],
           steady'[r] => steady[r] /\ ad' = ad /\ ready' = ready,
           Active(r) => OnSale' \subseteq seen'[r]
    PROVE  SearchInv(r)'
<1>1. PICK x, one, two : x = req[r] /\ one = read[Thread(r, 1)] /\ two = read[Thread(r, 2)]
    OBVIOUS
<1>2. x = req'[r] /\ one = read'[Thread(r, 1)] /\ two = read'[Thread(r, 2)]
    BY <1>1
<1>3. /\ Used(r)' = Used(r) /\ Active(r)' = Active(r)
      /\ Thread(r, 1)' = Thread(r, 1) /\ Thread(r, 2)' = Thread(r, 2)
    BY DEF Used, Active, Thread
<1>4. /\ GoodRows(r, x.mode, x.ranked, x.rows) => GoodRows(r, x.mode, x.ranked, x.rows)'
      /\ GoodTotal(r, x.mode, x.ranked, x.total) => GoodTotal(r, x.mode, x.ranked, x.total)'
    BY GoodStays
<1>5. /\ PartRead(r, x.mode, x.ranked, x.parallel, 1, one)
           => PartRead(r, x.mode, x.ranked, x.parallel, 1, one)'
      /\ PartRead(r, x.mode, x.ranked, x.parallel, 2, two)
           => PartRead(r, x.mode, x.ranked, x.parallel, 2, two)'
    BY PartStays
<1>6. SearchKnows(r)'
    BY <1>1, <1>2, <1>3, <1>4 DEF SearchInv, SearchKnows
<1>7. ThreadRead(r, 1)' /\ ThreadRead(r, 2)'
    BY <1>1, <1>2, <1>3, <1>5 DEF SearchInv, ThreadRead
<1>8. QED
    BY <1>6, <1>7 DEF SearchInv

\* A step of one request.
LEMMA OneSteps ==
    ASSUME RecordInv, AnswerInv, NEW r \in Requests,
           \A s \in Requests \ {r} : /\ req'[s] = req[s] /\ seen'[s] = seen[s]
                                    /\ steady'[s] = steady[s],
           UNCHANGED <<load, ad, ready>>,
           read' = [w \in Workers |-> read'[w]],
           \A w \in Workers : read'[w] = read[w] \/ w \in {Thread(r, 1), Thread(r, 2)},
           seen' = [s \in Requests |-> seen'[s]], steady' = [s \in Requests |-> steady'[s]],
           r \in load.searches => SearchInv(r)'
    PROVE  AnswerInv'
<1>1. ASSUME NEW s \in load.searches PROVE SearchInv(s)'
  <2>1. CASE s = r
    BY <1>1, <2>1
  <2>2. CASE s # r
    <3>1. s \in Requests /\ SearchInv(s)
      BY LoadsAssumption DEF RecordInv, RecordTypes, AnswerInv
    <3>2. /\ read'[Thread(s, 1)] = read[Thread(s, 1)]
          /\ read'[Thread(s, 2)] = read[Thread(s, 2)]
      BY <2>2, <3>1, ThreadsApart
    <3>3. Active(s) => OnSale \subseteq seen[s]
      BY <3>1 DEF SearchInv, SearchKnows
    <3>4. OnSale' = OnSale
      BY DEF OnSale
    <3>5. QED
      BY <2>2, <3>1, <3>2, <3>3, <3>4, SearchStays
  <2>3. QED
    BY <2>1, <2>2
<1>2. QED
    BY <1>1 DEF AnswerInv

\* The search's own state after a step: the catalog rests meanwhile.
LEMMA SearchMoves ==
    ASSUME RecordInv, AnswerInv, NEW r \in load.searches, NEW x, req' = [req EXCEPT ![r] = x],
           UNCHANGED <<load, ad, ready, read, seen, steady>>,
           Active(r), DOMAIN x = DOMAIN Idle, req[r].pc # "reading", x.pc # "reading",
           x.pc \in {"read"} \cup Read =>
             /\ x.mode \in Modes /\ x.ranked \in Seq(Ads)
             /\ x.mode = "rows" => x.total \in Nat /\ Len(x.ranked) <= x.total,
           x.pc \in Read =>
             /\ GoodRows(r, x.mode, x.ranked, x.rows)
             /\ GoodTotal(r, x.mode, x.ranked, x.total)
    PROVE  AnswerInv'
<1>1. r \in Requests /\ SearchInv(r)
    BY LoadsAssumption DEF RecordInv, RecordTypes, AnswerInv
<1>2. x = req'[r]
    BY <1>1 DEF RecordInv, RecordTypes
<1>3. /\ GoodRows(r, x.mode, x.ranked, x.rows) => GoodRows(r, x.mode, x.ranked, x.rows)'
      /\ GoodTotal(r, x.mode, x.ranked, x.total) => GoodTotal(r, x.mode, x.ranked, x.total)'
    BY GoodStays
<1>4. OnSale' = OnSale /\ OnSale \subseteq seen[r]
    BY <1>1 DEF OnSale, SearchInv, SearchKnows
<1>5. SearchKnows(r)'
    BY <1>2, <1>3, <1>4 DEF SearchKnows
<1>6. ThreadRead(r, 1)' /\ ThreadRead(r, 2)'
    BY <1>1, <1>2 DEF SearchInv, ThreadRead, Thread
<1>7. SearchInv(r)'
    BY <1>5, <1>6 DEF SearchInv
<1>8. /\ \A s \in Requests \ {r} : req'[s] = req[s]
      /\ read' = [w \in Workers |-> read'[w]]
      /\ seen' = [s \in Requests |-> seen'[s]] /\ steady' = [s \in Requests |-> steady'[s]]
    BY DEF AnswerInv, RecordInv, RecordTypes
<1>9. QED
    BY <1>1, <1>7, <1>8, OneSteps

\* A request starts on the catalog as it is now.
LEMMA AnswerBegins ==
    ASSUME RecordInv, AnswerInv, NEW r \in Requests, StartList(r) \/ StartSearch(r)
    PROVE  AnswerInv'
<1>1. /\ req[r].pc = "idle" /\ UNCHANGED <<load, ad, ready, read>>
      /\ seen' = [seen EXCEPT ![r] = OnSale] /\ steady' = [steady EXCEPT ![r] = TRUE]
    BY DEF StartList, StartSearch, Begins, catalogVars
<1>2. \A s \in Requests \ {r} : req'[s] = req[s] /\ seen'[s] = seen[s] /\ steady'[s] = steady[s]
    BY <1>1 DEF StartList, StartSearch, Step, RecordInv, RecordTypes, AnswerInv
<1>3. /\ seen' = [s \in Requests |-> seen'[s]] /\ steady' = [s \in Requests |-> steady'[s]]
      /\ seen'[r] = OnSale
    BY <1>1 DEF AnswerInv
<1>4. ASSUME r \in load.searches PROVE SearchInv(r)'
  <2>1. StartSearch(r) /\ SearchInv(r)
    BY <1>4, LoadsAssumption DEF RecordInv, RecordTypes, AnswerInv, StartList
  <2>2. PICK x : /\ req' = [req EXCEPT ![r] = x]
                 /\ \/ x = [Idle EXCEPT !.pc = "read", !.mode = "catalog"]
                    \/ x = [Idle EXCEPT !.pc = "engine"]
    BY <2>1 DEF StartSearch, Step
  <2>3. /\ DOMAIN x = DOMAIN Idle /\ x.ranked = <<>>
        /\ x.pc = "engine" \/ (x.pc = "read" /\ x.mode = "catalog")
    BY <2>2 DEF Idle
  <2>4. x = req'[r]
    BY <2>2 DEF RecordInv, RecordTypes
  <2>5. OnSale' \subseteq seen'[r]
    BY <1>1, <1>3 DEF OnSale
  <2>6. <<>> \in Seq(Ads)
    OBVIOUS
  <2>7. SearchKnows(r)'
    BY <2>3, <2>4, <2>5, <2>6 DEF SearchKnows, Modes, Read
  <2>8. ThreadRead(r, 1)' /\ ThreadRead(r, 2)'
    BY <1>1, <2>1, <2>3, <2>4 DEF SearchInv, ThreadRead, Thread
  <2>9. QED
    BY <2>7, <2>8 DEF SearchInv
<1>5. read' = [w \in Workers |-> read'[w]]
    BY <1>1 DEF AnswerInv
<1>6. QED
    BY <1>1, <1>2, <1>3, <1>4, <1>5, OneSteps

\* Nothing is left of an empty list.
LEMMA NothingOfNothing ==
    ASSUME NEW page \in Nat \ {0}, NEW S
    PROVE  Among(<<>>, S) = <<>> /\ PageOf(<<>>, page) = <<>>
<1>1. <<>> \in Seq(Ads) /\ Len(<<>>) = 0
    OBVIOUS
<1>2. Among(<<>>, S) \in Seq(Ads) /\ Len(Among(<<>>, S)) <= 0
    BY <1>1, AmongIsPart
<1>3. Among(<<>>, S) = <<>>
    BY <1>2
<1>4. QED
    BY <1>1, <1>3, PageIsPart

\* The engine's ranking decides what is read, if anything is.
LEMMA EngineAnswers ==
    ASSUME RecordInv, AnswerInv, NEW r \in Requests,
           NEW ranking \in load.rankings, EngineReturns(r, ranking), r \in load.searches
    PROVE  AnswerInv'
<1>1. /\ req[r].pc = "engine" /\ UNCHANGED <<load, ad, ready, read, seen, steady>>
      /\ ranking \in Seq(Ads) /\ load \in Loads /\ ready \subseteq Ads
    BY LoadsAssumption DEF EngineReturns, catalogVars, RecordInv, RecordTypes, AnswerInv
<1>2. q(r).page \in Nat \ {0}
    BY <1>1, FoundIsAsked DEF IsRequest
<1>3. PICK rows : rows = InEngineRows(r, ranking)
    OBVIOUS
<1>4. rows \in Seq(Ads)
  <2>1. EngineRows(r, ranking) \in Seq(Ads)
    BY <1>1 DEF EngineRows
  <2>2. QED
    BY <1>3, <2>1, AmongIsPart DEF InEngineRows
<1>5. PICK slice : slice = PageOf(rows, q(r).page)
    OBVIOUS
<1>6. slice \in Seq(Ads) /\ Len(slice) <= Len(rows) /\ Len(rows) \in Nat
    BY <1>2, <1>4, <1>5, PageIsPart
<1>7. RankedHits(r, <<>>) = <<>> /\ PageOf(<<>>, q(r).page) = <<>>
    BY <1>2, NothingOfNothing DEF RankedHits
<1>8. /\ GoodRows(r, "ranked", <<>>, <<>>) /\ GoodTotal(r, "ranked", <<>>, 0)
      /\ GoodRows(r, "rows", <<>>, <<>>) /\ \A n : GoodTotal(r, "rows", <<>>, n)
    BY <1>7 DEF GoodRows, GoodTotal, Range
<1>9. Active(r)
    BY <1>1 DEF Active
<1>10. PICK p, x :
         /\ req' = [req EXCEPT ![r] = x]
         /\ \/ /\ p = IF ranking = <<>> THEN "remember" ELSE "read"
               /\ x = [Idle EXCEPT !.pc = p, !.mode = "ranked", !.ranked = ranking]
            \/ /\ p = IF slice = <<>> THEN "remember" ELSE "read"
               /\ x = [Idle EXCEPT !.pc = p, !.mode = "rows", !.ranked = slice,
                                   !.total = Len(rows)]
    BY <1>3, <1>5 DEF EngineReturns, Step
<1>11. CASE /\ p = IF ranking = <<>> THEN "remember" ELSE "read"
            /\ x = [Idle EXCEPT !.pc = p, !.mode = "ranked", !.ranked = ranking]
  <2>1. /\ DOMAIN x = DOMAIN Idle /\ x.pc = p /\ x.mode = "ranked" /\ x.ranked = ranking
        /\ x.rows = <<>> /\ x.total = 0
    BY <1>11 DEF Idle
  <2>2. p = "read" \/ (p = "remember" /\ ranking = <<>>)
    BY <1>11
  <2>3. x.pc \in Read => /\ GoodRows(r, x.mode, x.ranked, x.rows)
                         /\ GoodTotal(r, x.mode, x.ranked, x.total)
    BY <1>8, <2>1, <2>2 DEF Read
  <2>4. x.mode \in Modes /\ x.ranked \in Seq(Ads) /\ x.mode # "rows" /\ x.pc # "reading"
    BY <1>1, <2>1, <2>2 DEF Modes
  <2>5. QED
    BY <1>1, <1>9, <1>10, <2>1, <2>3, <2>4, SearchMoves
<1>12. CASE /\ p = IF slice = <<>> THEN "remember" ELSE "read"
            /\ x = [Idle EXCEPT !.pc = p, !.mode = "rows", !.ranked = slice,
                                !.total = Len(rows)]
  <2>1. /\ DOMAIN x = DOMAIN Idle /\ x.pc = p /\ x.mode = "rows" /\ x.ranked = slice
        /\ x.rows = <<>> /\ x.total = Len(rows)
    BY <1>12 DEF Idle
  <2>2. p = "read" \/ (p = "remember" /\ slice = <<>>)
    BY <1>12
  <2>3. x.pc \in Read => /\ GoodRows(r, x.mode, x.ranked, x.rows)
                         /\ GoodTotal(r, x.mode, x.ranked, x.total)
    BY <1>8, <2>1, <2>2 DEF Read
  <2>4. /\ x.mode \in Modes /\ x.ranked \in Seq(Ads) /\ x.pc # "reading"
        /\ x.total \in Nat /\ Len(x.ranked) <= x.total
    BY <1>6, <2>1, <2>2 DEF Modes
  <2>5. QED
    BY <1>1, <1>9, <1>10, <2>1, <2>3, <2>4, SearchMoves
<1>13. QED
    BY <1>10, <1>11, <1>12

\* What is left of a read that is over.
LEMMA ReadIsOver ==
    ASSUME RecordInv, AnswerInv, NEW r \in load.searches, NEW x, req' = [req EXCEPT ![r] = x],
           ReadOver(r), UNCHANGED <<load, ad, ready, seen, steady>>,
           DOMAIN x = DOMAIN Idle, x.pc # "reading",
           x.pc \in {"read"} \cup Read =>
             /\ x.mode \in Modes /\ x.ranked \in Seq(Ads)
             /\ x.mode = "rows" => x.total \in Nat /\ Len(x.ranked) <= x.total,
           x.pc \in Read =>
             /\ GoodRows(r, x.mode, x.ranked, x.rows)
             /\ GoodTotal(r, x.mode, x.ranked, x.total)
    PROVE  AnswerInv'
<1>1. r \in Requests /\ SearchInv(r)
    BY LoadsAssumption DEF RecordInv, RecordTypes, AnswerInv
<1>2. x = req'[r]
    BY <1>1 DEF RecordInv, RecordTypes
<1>3. /\ GoodRows(r, x.mode, x.ranked, x.rows) => GoodRows(r, x.mode, x.ranked, x.rows)'
      /\ GoodTotal(r, x.mode, x.ranked, x.total) => GoodTotal(r, x.mode, x.ranked, x.total)'
    BY GoodStays
<1>4. OnSale' = OnSale /\ OnSale \subseteq seen[r] /\ req[r].pc = "reading"
    BY <1>1 DEF OnSale, SearchInv, SearchKnows, Active, ReadOver
<1>5. SearchKnows(r)'
    BY <1>2, <1>3, <1>4 DEF SearchKnows
<1>6. read' = [w \in Workers |-> IF \E i \in Used(r) : w = Thread(r, i) THEN NoRead ELSE read[w]]
    BY DEF ReadOver
<1>7. Used(r) \subseteq {1, 2}
    BY DEF Used
<1>8. ASSUME NEW i \in {1, 2} PROVE ThreadRead(r, i)'
  <2>1. PICK w \in Workers : w = Thread(r, i)
    BY <1>1, ThreadsApart
  <2>2. read'[w].st = "none" /\ DOMAIN read'[w] = DOMAIN NoRead
    <3>1. CASE i \in Used(r)
      <4>1. read'[w] = NoRead
        BY <1>6, <2>1, <3>1
      <4>2. QED
        BY <4>1 DEF NoRead
    <3>2. CASE i \notin Used(r)
      <4>1. ~\E j \in Used(r) : w = Thread(r, j)
        BY <1>1, <1>7, <2>1, <3>2, ThreadsApart
      <4>2. read'[w] = read[w]
        BY <1>6, <4>1
      <4>3. ThreadRead(r, i)
        BY <1>1 DEF SearchInv
      <4>4. QED
        BY <2>1, <3>2, <4>2, <4>3 DEF ThreadRead
    <3>3. QED
      BY <3>1, <3>2
  <2>3. Thread(r, i)' = w
    BY <2>1 DEF Thread
  <2>4. QED
    BY <1>2, <2>2, <2>3 DEF ThreadRead
<1>9. SearchInv(r)'
    BY <1>5, <1>8 DEF SearchInv
<1>10. /\ \A s \in Requests \ {r} : req'[s] = req[s]
       /\ seen' = [s \in Requests |-> seen'[s]] /\ steady' = [s \in Requests |-> steady'[s]]
       /\ read' = [w \in Workers |-> read'[w]]
    BY <1>6 DEF AnswerInv, RecordInv, RecordTypes
<1>11. \A w \in Workers : read'[w] = read[w] \/ w \in {Thread(r, 1), Thread(r, 2)}
    BY <1>6, <1>7
<1>12. QED
    BY <1>1, <1>9, <1>10, <1>11, OneSteps

\* A read that failed is repeated, or raised; one that returned is the answer.
LEMMA AnswerReads ==
    ASSUME RecordInv, AnswerInv, NEW r \in load.searches,
           ReadAgain(r) \/ ReadRaises(r) \/ ReadReturns(r)
    PROVE  AnswerInv'
<1>1. /\ r \in Requests /\ SearchInv(r) /\ ReadOver(r) /\ req[r].mode # "list"
      /\ UNCHANGED <<load, ad, ready, seen, steady>>
    BY LoadsAssumption DEF RecordInv, RecordTypes, AnswerInv, SearchesCounted, ReadAgain,
       ReadRaises, ReadReturns, catalogVars
<1>2. req[r].pc = "reading"
    BY <1>1 DEF ReadOver
<1>3. PICK old : old = req[r]
    OBVIOUS
<1>4. /\ DOMAIN old = {"pc", "mode", "ranked", "total", "rows", "attempt", "parallel", "copy"}
      /\ old.mode \in Modes /\ old.ranked \in Seq(Ads)
      /\ old.mode = "rows" => old.total \in Nat /\ Len(old.ranked) <= old.total
      /\ old.parallel \in BOOLEAN /\ (old.parallel => old.mode = "catalog")
    BY <1>1, <1>2, <1>3 DEF SearchInv, SearchKnows, Idle
<1>5. CASE ReadAgain(r)
  <2>1. PICK x : x = [old EXCEPT !.pc = "read", !.parallel = FALSE]
    OBVIOUS
  <2>2. /\ DOMAIN x = DOMAIN Idle /\ x.pc = "read" /\ x.mode = old.mode
        /\ x.ranked = old.ranked /\ x.total = old.total
    BY <1>4, <2>1 DEF Idle
  <2>3. req' = [req EXCEPT ![r] = x]
    BY <1>3, <1>5, <2>1 DEF ReadAgain, Step
  <2>4. x.pc \notin Read /\ x.pc # "reading"
    BY <2>2 DEF Read
  <2>5. QED
    BY <1>1, <1>4, <2>2, <2>3, <2>4, ReadIsOver
<1>6. CASE ReadRaises(r)
  <2>1. PICK x : x = [Idle EXCEPT !.pc = "failing", !.mode = old.mode]
    OBVIOUS
  <2>2. DOMAIN x = DOMAIN Idle /\ x.pc = "failing"
    BY <2>1 DEF Idle
  <2>3. req' = [req EXCEPT ![r] = x]
    BY <1>1, <1>3, <1>6, <2>1 DEF ReadRaises, Step
  <2>4. x.pc \notin Read \cup {"read"} /\ x.pc # "reading"
    BY <2>2 DEF Read
  <2>5. QED
    BY <1>1, <2>2, <2>3, <2>4, ReadIsOver
<1>7. CASE ReadReturns(r)
  <2>1. PICK one, two : one = read[Thread(r, 1)] /\ two = read[Thread(r, 2)]
    OBVIOUS
  <2>2. PICK rows : rows = IF old.parallel THEN two.rows ELSE one.rows
    OBVIOUS
  <2>3. PICK n : n = IF old.mode = "rows" THEN old.total ELSE one.total
    OBVIOUS
  <2>4. PICK x : x = [old EXCEPT !.pc = "remember", !.rows = rows, !.attempt = 0,
                                 !.parallel = FALSE, !.total = n]
    OBVIOUS
  <2>5. req' = [req EXCEPT ![r] = x]
    BY <1>1, <1>3, <1>7, <2>1, <2>2, <2>3, <2>4 DEF ReadReturns, Step
  <2>6. /\ DOMAIN x = DOMAIN Idle /\ x.pc = "remember" /\ x.mode = old.mode
        /\ x.ranked = old.ranked /\ x.total = n /\ x.rows = rows
    BY <1>4, <2>4 DEF Idle
  <2>7. /\ 1 \in Used(r) /\ (old.parallel => 2 \in Used(r))
        /\ one.st = "done" /\ (old.parallel => two.st = "done")
    <3>1. Used(r) = IF old.parallel THEN {1, 2} ELSE {1}
      BY <1>3 DEF Used
    <3>2. IF one.st = "done" /\ old.parallel THEN two.st = "done" ELSE one.st = "done"
      BY <1>3, <1>7, <2>1 DEF ReadReturns, Outcome
    <3>3. QED
      BY <3>1, <3>2
  <2>8. /\ one.todo = <<>> /\ PartRead(r, old.mode, old.ranked, old.parallel, 1, one)
        /\ old.parallel =>
             two.todo = <<>> /\ PartRead(r, old.mode, old.ranked, old.parallel, 2, two)
    BY <1>1, <1>2, <1>3, <2>1, <2>7 DEF SearchInv, ThreadRead
  <2>9. <<>> # <<"total", "rows">> /\ <<>> # <<"page">>
    OBVIOUS
  <2>10. GoodRows(r, old.mode, old.ranked, rows)
    BY <1>4, <2>2, <2>8, <2>9 DEF PartRead, Modes
  <2>11. GoodTotal(r, old.mode, old.ranked, n)
    <3>1. CASE old.mode = "rows"
      BY <3>1 DEF GoodTotal
    <3>2. CASE old.mode # "rows"
      BY <1>4, <2>3, <2>8, <2>9, <3>2 DEF PartRead, Modes
    <3>3. QED
      BY <3>1, <3>2
  <2>12. x.pc # "reading"
    BY <2>6
  <2>13. /\ x.mode \in Modes /\ x.ranked \in Seq(Ads)
         /\ x.mode = "rows" => x.total \in Nat /\ Len(x.ranked) <= x.total
    BY <1>4, <2>3, <2>6
  <2>14. QED
    BY <1>1, <2>5, <2>6, <2>10, <2>11, <2>12, <2>13, ReadIsOver
<1>8. QED
    BY <1>5, <1>6, <1>7

\* The other steps of a search but the read itself: only how far it is changes.
LEMMA AnswerGoesOn ==
    ASSUME RecordInv, AnswerInv, NEW r \in load.searches,
           EngineRaises(r) \/ Remember(r) \/ Exec(r) \/ Respond(r) \/ Fail(r)
    PROVE  AnswerInv'
<1>1. r \in Requests /\ SearchInv(r)
    BY LoadsAssumption DEF RecordInv, RecordTypes, AnswerInv
<1>2. PICK old : old = req[r]
    OBVIOUS
<1>3. DOMAIN old = {"pc", "mode", "ranked", "total", "rows", "attempt", "parallel", "copy"}
    BY <1>1, <1>2 DEF SearchInv, SearchKnows, Idle
<1>4. PICK p, c, x :
        /\ x = [old EXCEPT !.pc = p, !.copy = c]
        /\ req' = [req EXCEPT ![r] = x]
        /\ p \in {"failing", "failed"} \/ (old.pc \in Read /\ p \in Read)
  <2>1. CASE EngineRaises(r) \/ Fail(r)
    <3>1. PICK p \in {"failing", "failed"} : req' = [req EXCEPT ![r] = [old EXCEPT !.pc = p]]
      BY <1>2, <2>1 DEF EngineRaises, Fail, Step
    <3>2. [old EXCEPT !.pc = p] = [old EXCEPT !.pc = p, !.copy = old.copy]
      BY <1>3
    <3>3. QED
      BY <3>1, <3>2
  <2>2. CASE Respond(r) \/ (Remember(r) /\ ~(Remembers(r) /\ load.redis))
    <3>1. PICK p \in {"record", "answered"} :
            old.pc \in Read /\ req' = [req EXCEPT ![r] = [old EXCEPT !.pc = p]]
      BY <1>2, <2>2 DEF Respond, Remember, Step, Read
    <3>2. [old EXCEPT !.pc = p] = [old EXCEPT !.pc = p, !.copy = old.copy]
      BY <1>3
    <3>3. QED
      BY <3>1, <3>2 DEF Read
  <2>3. CASE Exec(r)
    <3>1. /\ old.pc \in Read
          /\ \/ req' = [req EXCEPT ![r] = [old EXCEPT !.pc = "record", !.copy = <<>>]]
             \/ req' = [req EXCEPT ![r] = [old EXCEPT !.pc = "remember", !.copy = <<>>]]
      BY <1>2, <2>3 DEF Exec, Step, Read
    <3>2. QED
      BY <3>1 DEF Read
  <2>4. CASE Remember(r) /\ Remembers(r) /\ load.redis
    <3>1. /\ old.pc \in Read
          /\ req' = [req EXCEPT ![r] = [old EXCEPT !.pc = "watch", !.copy = recent]]
      BY <1>2, <2>4 DEF Remember, Step, Read
    <3>2. QED
      BY <3>1 DEF Read
  <2>5. QED
    BY <2>1, <2>2, <2>3, <2>4
<1>5. /\ DOMAIN x = DOMAIN Idle /\ x.pc = p /\ x.mode = old.mode /\ x.ranked = old.ranked
      /\ x.rows = old.rows /\ x.total = old.total
    BY <1>3, <1>4 DEF Idle
<1>6. /\ UNCHANGED <<load, ad, ready, read, seen, steady>> /\ old.pc # "reading" /\ Active(r)
    BY <1>2 DEF EngineRaises, Remember, Exec, Respond, Fail, catalogVars, Active
<1>7. x.pc # "reading" /\ x.pc # "read" /\ (x.pc \in Read => old.pc \in Read)
    BY <1>4, <1>5 DEF Read
<1>8. old.pc \in Read =>
        /\ old.mode \in Modes /\ old.ranked \in Seq(Ads)
        /\ old.mode = "rows" => old.total \in Nat /\ Len(old.ranked) <= old.total
        /\ GoodRows(r, old.mode, old.ranked, old.rows)
        /\ GoodTotal(r, old.mode, old.ranked, old.total)
    BY <1>1, <1>2 DEF SearchInv, SearchKnows
<1>9. /\ x.pc \in {"read"} \cup Read =>
           /\ x.mode \in Modes /\ x.ranked \in Seq(Ads)
           /\ x.mode = "rows" => x.total \in Nat /\ Len(x.ranked) <= x.total
      /\ x.pc \in Read =>
           /\ GoodRows(r, x.mode, x.ranked, x.rows)
           /\ GoodTotal(r, x.mode, x.ranked, x.total)
    BY <1>5, <1>7, <1>8
<1>10. QED
    BY <1>2, <1>4, <1>5, <1>6, <1>7, <1>9, SearchMoves

\* A read begins with all its statements to do.
LEMMA AnswerReadBegins ==
    ASSUME RecordInv, AnswerInv, NEW r \in load.searches, BeginRead(r)
    PROVE  SearchInv(r)'
<1>1. r \in Requests /\ SearchInv(r)
    BY LoadsAssumption DEF RecordInv, RecordTypes, AnswerInv
<1>2. PICK old : old = req[r]
    OBVIOUS
<1>3. /\ DOMAIN old = {"pc", "mode", "ranked", "total", "rows", "attempt", "parallel", "copy"}
      /\ old.pc = "read" /\ old.mode \in Modes /\ old.ranked \in Seq(Ads)
      /\ old.mode = "rows" => old.total \in Nat /\ Len(old.ranked) <= old.total
    BY <1>1, <1>2 DEF SearchInv, SearchKnows, Idle, BeginRead
<1>4. PICK parallel \in BOOLEAN : parallel <=> (old.mode = "catalog" /\ slots > 0)
    OBVIOUS
<1>5. PICK x : x = [old EXCEPT !.pc = "reading", !.attempt = old.attempt + 1,
                               !.parallel = parallel]
    OBVIOUS
<1>6. req' = [req EXCEPT ![r] = x]
    BY <1>2, <1>4, <1>5 DEF BeginRead, Step
<1>7. /\ DOMAIN x = DOMAIN Idle /\ x.pc = "reading" /\ x.mode = old.mode
      /\ x.ranked = old.ranked /\ x.total = old.total /\ x.parallel = parallel
    BY <1>3, <1>5 DEF Idle
<1>8. x = req'[r]
    BY <1>1, <1>6 DEF RecordInv, RecordTypes
<1>9. UNCHANGED <<load, ad, ready, seen, steady>>
    BY DEF BeginRead, catalogVars
<1>10. OnSale' \subseteq seen'[r]
  <2>1. Active(r)
    BY <1>2, <1>3 DEF Active
  <2>2. QED
    BY <1>1, <1>9, <2>1 DEF SearchInv, SearchKnows, OnSale
<1>11. SearchKnows(r)'
    BY <1>3, <1>4, <1>7, <1>8, <1>10 DEF SearchKnows, Read
<1>12. PICK one, two : one = Thread(r, 1) /\ two = Thread(r, 2)
    OBVIOUS
<1>13. one \in Workers /\ two \in Workers /\ one # two
    BY <1>1, <1>12, ThreadsApart
<1>14. Used(r)' = IF parallel THEN {1, 2} ELSE {1}
    BY <1>7, <1>8 DEF Used
<1>15. read[two].st = "none" /\ DOMAIN read[two] = DOMAIN NoRead
    BY <1>1, <1>2, <1>3, <1>12 DEF SearchInv, ThreadRead
<1>16. \A todo : /\ DOMAIN Wanting(todo) = DOMAIN NoRead /\ Wanting(todo).st = "wanted"
                 /\ Wanting(todo).todo = todo /\ Wanting(todo).rows = <<>>
    BY DEF Wanting, NoRead
<1>17. Thread(r, 1)' = one /\ Thread(r, 2)' = two
    BY <1>12 DEF Thread
<1>18. <<"total">> # <<>> /\ <<"rows">> # <<>> /\ <<"total", "rows">> # <<>>
       /\ <<"page">> # <<>> /\ <<"ids">> # <<>>
    OBVIOUS
<1>19. CASE parallel
  <2>1. read' = [read EXCEPT ![one] = Wanting(<<"total">>), ![two] = Wanting(<<"rows">>)]
    BY <1>2, <1>4, <1>12, <1>19 DEF BeginRead
  <2>2. read'[one] = Wanting(<<"total">>) /\ read'[two] = Wanting(<<"rows">>)
    BY <1>13, <2>1 DEF AnswerInv
  <2>3. /\ PartRead(r, x.mode, x.ranked, x.parallel, 1, Wanting(<<"total">>))'
        /\ PartRead(r, x.mode, x.ranked, x.parallel, 2, Wanting(<<"rows">>))'
    BY <1>4, <1>7, <1>16, <1>18, <1>19 DEF PartRead
  <2>4. ThreadRead(r, 1)'
    BY <1>7, <1>8, <1>14, <1>16, <1>17, <1>19, <2>2, <2>3 DEF ThreadRead
  <2>5. ThreadRead(r, 2)'
    BY <1>7, <1>8, <1>14, <1>16, <1>17, <1>19, <2>2, <2>3 DEF ThreadRead
  <2>6. QED
    BY <1>11, <2>4, <2>5 DEF SearchInv
<1>20. CASE ~parallel
  <2>1. PICK todo : todo = Statements(old.mode)
    OBVIOUS
  <2>2. read' = [read EXCEPT ![one] = Wanting(todo)]
    BY <1>2, <1>4, <1>12, <1>20, <2>1 DEF BeginRead
  <2>3. read'[one] = Wanting(todo) /\ read'[two] = read[two]
    BY <1>13, <2>2 DEF AnswerInv
  <2>4. /\ old.mode = "catalog" => todo = <<"total", "rows">>
        /\ old.mode = "ranked" => todo = <<"page">>
        /\ old.mode = "rows" => todo = <<"ids">>
    BY <2>1 DEF Statements
  <2>5. PartRead(r, x.mode, x.ranked, x.parallel, 1, Wanting(todo))'
    BY <1>7, <1>16, <1>18, <1>20, <2>4 DEF PartRead
  <2>6. ThreadRead(r, 1)'
    BY <1>7, <1>8, <1>14, <1>16, <1>17, <1>20, <2>3, <2>5 DEF ThreadRead
  <2>7. ThreadRead(r, 2)'
    BY <1>8, <1>14, <1>15, <1>17, <1>20, <2>3 DEF ThreadRead
  <2>8. QED
    BY <1>11, <2>6, <2>7 DEF SearchInv
<1>21. QED
    BY <1>19, <1>20

\* A statement finds what it asks for.
LEMMA AnswerQueries ==
    ASSUME RecordInv, AnswerInv, NEW r \in load.searches, NEW i \in {1, 2}, Query(r, i)
    PROVE  SearchInv(r)'
<1>1. /\ r \in Requests /\ load \in Loads /\ ready \subseteq Ads
      /\ SearchInv(r) /\ UNCHANGED <<load, ad, ready, req, seen, steady>>
    BY LoadsAssumption DEF RecordInv, RecordTypes, AnswerInv, Query, catalogVars
<1>2. PICK w \in Workers : w = Thread(r, i)
    BY <1>1, ThreadsApart
<1>3. PICK rd : rd = read[w]
    OBVIOUS
<1>4. PICK new : new = Executed(r, Head(rd.todo), rd)
    OBVIOUS
<1>5. rd.st = "open" /\ rd.todo # <<>> /\ read' = [read EXCEPT ![w] = new]
    BY <1>2, <1>3, <1>4 DEF Query
<1>6. read'[w] = new /\ \A v \in Workers \ {w} : read'[v] = read[v]
    BY <1>5 DEF AnswerInv
<1>7. PICK x : x = req[r]
    OBVIOUS
<1>8. /\ x.pc = "reading" /\ i \in Used(r) /\ DOMAIN rd = DOMAIN NoRead
      /\ PartRead(r, x.mode, x.ranked, x.parallel, i, rd)
    BY <1>1, <1>2, <1>3, <1>5, <1>7 DEF SearchInv, ThreadRead
<1>9. /\ x.mode \in Modes /\ x.ranked \in Seq(Ads) /\ x.parallel \in BOOLEAN
      /\ x.parallel => x.mode = "catalog"
      /\ OnSale \subseteq seen[r]
    BY <1>1, <1>7, <1>8 DEF SearchInv, SearchKnows, Active
<1>10. /\ DOMAIN new = DOMAIN NoRead /\ new.st = "open"
       /\ PartRead(r, x.mode, x.ranked, x.parallel, i, new)
    BY <1>1, <1>4, <1>5, <1>7, <1>8, <1>9, StatementFinds
<1>11. PartRead(r, x.mode, x.ranked, x.parallel, i, new)'
    BY <1>1, <1>10, PartStays
<1>12. x = req'[r] /\ Used(r)' = Used(r) /\ Thread(r, i)' = w
    BY <1>1, <1>2, <1>7 DEF Used, Thread
<1>13. ThreadRead(r, i)'
    BY <1>6, <1>8, <1>10, <1>11, <1>12 DEF ThreadRead
<1>14. ASSUME NEW j \in {1, 2}, j # i PROVE ThreadRead(r, j)'
  <2>1. PICK v : v = Thread(r, j)
    OBVIOUS
  <2>2. read'[v] = read[v] /\ Thread(r, j)' = v
    BY <1>1, <1>2, <1>6, <1>14, <2>1, ThreadsApart DEF Thread
  <2>3. PICK other : other = read[v]
    OBVIOUS
  <2>4. ThreadRead(r, j)
    BY <1>1, <1>14 DEF SearchInv
  <2>5. PartRead(r, x.mode, x.ranked, x.parallel, j, other)
          => PartRead(r, x.mode, x.ranked, x.parallel, j, other)'
    BY <1>1, PartStays
  <2>6. QED
    BY <1>7, <1>12, <2>1, <2>2, <2>3, <2>4, <2>5 DEF ThreadRead
<1>15. SearchKnows(r)'
  <2>1. /\ GoodRows(r, x.mode, x.ranked, x.rows) => GoodRows(r, x.mode, x.ranked, x.rows)'
        /\ GoodTotal(r, x.mode, x.ranked, x.total) => GoodTotal(r, x.mode, x.ranked, x.total)'
    BY <1>1, GoodStays
  <2>2. OnSale' = OnSale /\ Active(r)' = Active(r)
    BY <1>1 DEF OnSale, Active
  <2>3. QED
    BY <1>1, <1>7, <1>12, <2>1, <2>2 DEF SearchInv, SearchKnows
<1>16. ThreadRead(r, 1)' /\ ThreadRead(r, 2)'
    BY <1>13, <1>14
<1>17. QED
    BY <1>15, <1>16 DEF SearchInv

\* What a request's step may touch.
LEMMA RequestTouches ==
    ASSUME RecordInv, AnswerInv, NEW r \in Requests, RequestStep(r),
           ~(StartList(r) \/ StartSearch(r))
    PROVE  /\ \A s \in Requests \ {r} : req'[s] = req[s]
           /\ UNCHANGED <<load, ad, ready, seen, steady>>
           /\ read' = [w \in Workers |-> read'[w]]
           /\ \A w \in Workers : read'[w] = read[w] \/ w \in {Thread(r, 1), Thread(r, 2)}
<1>1. UNCHANGED <<load, ad, ready, seen, steady>>
    BY DEF RequestStep, EngineRaises, EngineReturns, BeginRead, ReadAgain, ReadRaises,
           ReadReturns, Query, Remember, Exec, Respond, Fail, catalogVars
<1>2. req = [s \in Requests |-> req[s]] /\ read = [w \in Workers |-> read[w]]
    BY DEF RecordInv, RecordTypes, AnswerInv
<1>3. \A s \in Requests \ {r} : req'[s] = req[s]
  <2>1. req' = req \/ \E x : req' = [req EXCEPT ![r] = x]
    BY DEF RequestStep, EngineRaises, EngineReturns, BeginRead, ReadAgain, ReadRaises,
           ReadReturns, Query, Remember, Exec, Respond, Fail, Step
  <2>2. QED
    BY <1>2, <2>1
<1>4. \/ read' = read
      \/ \E i \in {1, 2} : \E x : read' = [read EXCEPT ![Thread(r, i)] = x]
      \/ \E x, y : read' = [read EXCEPT ![Thread(r, 1)] = x, ![Thread(r, 2)] = y]
      \/ ReadOver(r)
  <2>1. CASE BeginRead(r)
    <3>1. \/ read' = [read EXCEPT ![Thread(r, 1)] = Wanting(<<"total">>),
                                 ![Thread(r, 2)] = Wanting(<<"rows">>)]
          \/ read' = [read EXCEPT ![Thread(r, 1)] = Wanting(Statements(req[r].mode))]
      BY <2>1 DEF BeginRead
    <3>2. QED
      BY <3>1, Zenon
  <2>2. CASE ReadAgain(r) \/ ReadRaises(r) \/ ReadReturns(r)
    BY <2>2 DEF ReadAgain, ReadRaises, ReadReturns
  <2>3. CASE \E i \in {1, 2} : Query(r, i)
    <3>1. PICK i \in {1, 2} : Query(r, i)
      BY <2>3
    <3>2. read' = [read EXCEPT ![Thread(r, i)] =
                     Executed(r, Head(read[Thread(r, i)].todo), read[Thread(r, i)])]
      BY <3>1 DEF Query
    <3>3. QED
      BY <3>2, Zenon
  <2>4. CASE \/ EngineRaises(r) \/ (\E ranking \in load.rankings : EngineReturns(r, ranking))
             \/ Remember(r) \/ Exec(r) \/ Respond(r) \/ Fail(r)
    BY <2>4 DEF EngineRaises, EngineReturns, Remember, Exec, Respond, Fail
  <2>5. QED
    BY <2>1, <2>2, <2>3, <2>4 DEF RequestStep
<1>5. CASE read' = read
    BY <1>2, <1>5, <1>1, <1>3
<1>6. CASE ReadOver(r)
  <2>1. read' = [w \in Workers |-> IF \E i \in Used(r) : w = Thread(r, i) THEN NoRead ELSE read[w]]
    BY <1>6 DEF ReadOver
  <2>2. Used(r) \subseteq {1, 2}
    BY DEF Used
  <2>3. QED
    BY <1>1, <1>3, <2>1, <2>2
<1>7. CASE \E i \in {1, 2} : \E x : read' = [read EXCEPT ![Thread(r, i)] = x]
    BY <1>1, <1>2, <1>3, <1>7
<1>8. CASE \E x, y : read' = [read EXCEPT ![Thread(r, 1)] = x, ![Thread(r, 2)] = y]
    BY <1>1, <1>2, <1>3, <1>8
<1>9. QED
    BY <1>4, <1>5, <1>6, <1>7, <1>8

\* The steps of a request.
LEMMA AnswerRequests ==
    ASSUME RecordInv, AnswerInv, NEW r \in Requests, RequestStep(r)
    PROVE  AnswerInv'
<1>1. CASE StartList(r) \/ StartSearch(r)
    BY <1>1, AnswerBegins
<1>2. CASE ~(StartList(r) \/ StartSearch(r))
  <2>1. /\ \A s \in Requests \ {r} : /\ req'[s] = req[s] /\ seen'[s] = seen[s]
                                    /\ steady'[s] = steady[s]
        /\ UNCHANGED <<load, ad, ready>>
        /\ read' = [w \in Workers |-> read'[w]]
        /\ \A w \in Workers : read'[w] = read[w] \/ w \in {Thread(r, 1), Thread(r, 2)}
        /\ seen' = [s \in Requests |-> seen'[s]] /\ steady' = [s \in Requests |-> steady'[s]]
    BY <1>2, RequestTouches DEF AnswerInv
  <2>2. CASE r \notin load.searches
    BY <2>1, <2>2, OneSteps
  <2>3. CASE r \in load.searches /\ (BeginRead(r) \/ \E i \in {1, 2} : Query(r, i))
    <3>1. SearchInv(r)'
      BY <2>3, AnswerReadBegins, AnswerQueries
    <3>2. QED
      BY <2>1, <3>1, OneSteps
  <2>4. CASE /\ r \in load.searches
             /\ \E ranking \in load.rankings : EngineReturns(r, ranking)
    BY <2>4, EngineAnswers
  <2>5. CASE r \in load.searches /\ (ReadAgain(r) \/ ReadRaises(r) \/ ReadReturns(r))
    BY <2>5, AnswerReads
  <2>6. CASE /\ r \in load.searches
             /\ EngineRaises(r) \/ Remember(r) \/ Exec(r) \/ Respond(r) \/ Fail(r)
    BY <2>6, AnswerGoesOn
  <2>7. QED
    BY <1>2, <2>2, <2>3, <2>4, <2>5, <2>6 DEF RequestStep
<1>3. QED
    BY <1>1, <1>2

\* What a step of the pool makes of a read.
LEMMA ReadStepMarks ==
    ASSUME NEW w \in Workers, ReadStep(w), read = [v \in Workers |-> read[v]],
           DOMAIN read[w] = DOMAIN NoRead
    PROVE  \/ read' = read
           \/ /\ read[w].st # "none"
              /\ DOMAIN read'[w] = DOMAIN NoRead /\ read'[w].st # "none"
              /\ read'[w].st = "done" => read[w].todo = <<>>
              /\ read'[w].todo = read[w].todo /\ read'[w].total = read[w].total
              /\ read'[w].rows = read[w].rows
              /\ read' = [v \in Workers |-> read'[v]]
              /\ \A v \in Workers \ {w} : read'[v] = read[v]
<1>1. /\ read[w].st \in {"wanted", "open"}
      /\ \/ read' = read
         \/ \E st \in {"open", "error", "lost"} : Mark(w, st)
         \/ read[w].todo = <<>> /\ Mark(w, "done")
    BY DEF ReadStep
<1>2. CASE \E st \in {"open", "error", "lost", "done"} :
             Mark(w, st) /\ (st = "done" => read[w].todo = <<>>)
  <2>1. PICK st \in {"open", "error", "lost", "done"} :
          Mark(w, st) /\ (st = "done" => read[w].todo = <<>>)
    BY <1>2
  <2>2. PICK rd : rd = read[w]
    OBVIOUS
  <2>3. PICK new : new = [rd EXCEPT !.st = st]
    OBVIOUS
  <2>4. read' = [read EXCEPT ![w] = new]
    BY <2>1, <2>2, <2>3 DEF Mark
  <2>5. /\ read'[w] = new /\ read' = [v \in Workers |-> read'[v]]
        /\ \A v \in Workers \ {w} : read'[v] = read[v]
    BY <2>4
  <2>6. /\ DOMAIN new = DOMAIN NoRead /\ new.st = st /\ new.todo = rd.todo
        /\ new.total = rd.total /\ new.rows = rd.rows
    BY <2>2, <2>3 DEF NoRead
  <2>7. QED
    BY <1>1, <2>1, <2>2, <2>5, <2>6
<1>3. QED
    BY <1>1, <1>2

\* The pool's steps leave what was found.
LEMMA AnswerPool ==
    ASSUME RecordInv, AnswerInv, NEW w \in Workers, ReadStep(w)
    PROVE  AnswerInv'
<1>1. UNCHANGED <<load, ad, ready, req, seen, steady>>
    BY DEF ReadStep, catalogVars
<1>2. \A r \in load.searches : r \in Requests /\ SearchInv(r)
    BY LoadsAssumption DEF RecordInv, RecordTypes, AnswerInv
<1>3. OnSale' = OnSale
    BY <1>1 DEF OnSale
<1>4. \A r \in load.searches : Active(r) => OnSale' \subseteq seen'[r]
    BY <1>1, <1>2, <1>3 DEF SearchInv, SearchKnows
<1>5. CASE read' = read
  <2>1. \A r \in load.searches : SearchInv(r)'
    BY <1>1, <1>2, <1>4, <1>5, SearchStays
  <2>2. QED
    BY <1>1, <1>5, <2>1 DEF AnswerInv
<1>6. CASE \A r \in load.searches : w # Thread(r, 1) /\ w # Thread(r, 2)
  <2>1. /\ read' = [v \in Workers |-> read'[v]] /\ \A v \in Workers \ {w} : read'[v] = read[v]
    <3>1. read' = read \/ \E st : Mark(w, st)
      BY DEF ReadStep
    <3>2. QED
      BY <3>1 DEF AnswerInv, Mark
  <2>2. \A r \in load.searches : SearchInv(r)'
    <3>1. SUFFICES ASSUME NEW r \in load.searches PROVE SearchInv(r)'
      OBVIOUS
    <3>2. /\ read'[Thread(r, 1)] = read[Thread(r, 1)]
          /\ read'[Thread(r, 2)] = read[Thread(r, 2)]
      BY <1>2, <1>6, <2>1, ThreadsApart
    <3>3. QED
      BY <1>1, <1>2, <1>4, <3>2, SearchStays
  <2>3. QED
    BY <1>1, <2>1, <2>2 DEF AnswerInv
<1>7. ASSUME NEW r \in load.searches, NEW i \in {1, 2}, w = Thread(r, i), read' # read
      PROVE  AnswerInv'
  <2>1. DOMAIN read[w] = DOMAIN NoRead /\ ThreadRead(r, i)
    BY <1>2, <1>7 DEF SearchInv, ThreadRead
  <2>2. PICK rd, new : rd = read[w] /\ new = read'[w]
    OBVIOUS
  <2>3. /\ rd.st # "none" /\ DOMAIN new = DOMAIN NoRead /\ new.st # "none"
        /\ new.st = "done" => rd.todo = <<>>
        /\ new.todo = rd.todo /\ new.total = rd.total /\ new.rows = rd.rows
        /\ read' = [v \in Workers |-> read'[v]]
        /\ \A v \in Workers \ {w} : read'[v] = read[v]
    BY <1>7, <2>1, <2>2, ReadStepMarks DEF AnswerInv
  <2>4. PICK x : x = req[r]
    OBVIOUS
  <2>5. x.pc = "reading" /\ i \in Used(r) /\ PartRead(r, x.mode, x.ranked, x.parallel, i, rd)
    BY <1>7, <2>1, <2>2, <2>3, <2>4 DEF ThreadRead
  <2>6. PartRead(r, x.mode, x.ranked, x.parallel, i, new)
    BY <2>3, <2>5 DEF PartRead
  <2>7. PartRead(r, x.mode, x.ranked, x.parallel, i, new)'
    BY <1>1, <2>6, PartStays
  <2>8. x = req'[r] /\ Used(r)' = Used(r) /\ Thread(r, i)' = w
    BY <1>1, <1>7, <2>4 DEF Used, Thread
  <2>9. ThreadRead(r, i)'
    BY <2>2, <2>3, <2>5, <2>7, <2>8 DEF ThreadRead
  <2>10. ASSUME NEW j \in {1, 2}, j # i PROVE ThreadRead(r, j)'
    <3>1. PICK v : v = Thread(r, j)
      OBVIOUS
    <3>2. read'[v] = read[v] /\ Thread(r, j)' = v
      BY <1>2, <1>7, <2>3, <2>10, <3>1, ThreadsApart DEF Thread
    <3>3. PICK other : other = read[v]
      OBVIOUS
    <3>4. ThreadRead(r, j)
      BY <1>2, <2>10 DEF SearchInv
    <3>5. PartRead(r, x.mode, x.ranked, x.parallel, j, other)
            => PartRead(r, x.mode, x.ranked, x.parallel, j, other)'
      BY <1>1, PartStays
    <3>6. QED
      BY <2>4, <2>8, <3>1, <3>2, <3>3, <3>4, <3>5 DEF ThreadRead
  <2>11. SearchKnows(r)'
    <3>1. /\ GoodRows(r, x.mode, x.ranked, x.rows) => GoodRows(r, x.mode, x.ranked, x.rows)'
          /\ GoodTotal(r, x.mode, x.ranked, x.total) => GoodTotal(r, x.mode, x.ranked, x.total)'
      BY <1>1, GoodStays
    <3>2. Active(r)' = Active(r)
      BY <1>1 DEF Active
    <3>3. QED
      BY <1>1, <1>2, <1>3, <2>4, <2>8, <3>1, <3>2 DEF SearchInv, SearchKnows
  <2>12. SearchInv(r)'
    BY <2>9, <2>10, <2>11 DEF SearchInv
  <2>13. /\ \A s \in Requests \ {r} : /\ req'[s] = req[s] /\ seen'[s] = seen[s]
                                     /\ steady'[s] = steady[s]
         /\ seen' = [s \in Requests |-> seen'[s]] /\ steady' = [s \in Requests |-> steady'[s]]
    BY <1>1 DEF AnswerInv
  <2>14. \A v \in Workers : read'[v] = read[v] \/ v \in {Thread(r, 1), Thread(r, 2)}
    BY <1>7, <2>3
  <2>15. QED
    BY <1>1, <1>2, <2>3, <2>12, <2>13, <2>14, OneSteps
<1>8. QED
    BY <1>5, <1>6, <1>7

\* The catalog changes.
LEMMA AnswerCatalog ==
    ASSUME RecordInv, AnswerInv, Etl \/ \E a \in Ads, status \in {"on", "off", "deleted"} : SwitchAd(a, status)
    PROVE  AnswerInv'
<1>1. /\ UNCHANGED <<load, req, read>> /\ ready' \subseteq Ads /\ Observed(OnSale')
  <2>1. CASE Etl
    <3>1. OnSale' = ready'
      BY <2>1 DEF Etl, OnSale
    <3>2. QED
      BY <2>1, <3>1 DEF Etl
  <2>2. CASE \E a \in Ads, status \in {"on", "off", "deleted"} : SwitchAd(a, status)
    <3>1. PICK a \in Ads, status \in {"on", "off", "deleted"} : SwitchAd(a, status)
      BY <2>2
    <3>2. UNCHANGED <<load, req, read, ready>> /\ Observed({b \in ready : ad'[b] = "on"})
      BY <3>1 DEF SwitchAd
    <3>3. OnSale' = {b \in ready : ad'[b] = "on"}
      BY <3>2 DEF OnSale
    <3>4. QED
      BY <3>2, <3>3 DEF AnswerInv
  <2>3. QED
    BY <2>1, <2>2
<1>2. \A r \in Requests : seen'[r] = IF Active(r) THEN seen[r] \cup OnSale' ELSE seen[r]
    BY <1>1 DEF Observed
<1>3. \A r \in Requests : steady'[r] => req[r].pc = "idle"
    BY <1>1 DEF Observed
<1>4. ASSUME NEW r \in load.searches PROVE SearchInv(r)'
  <2>1. r \in Requests /\ SearchInv(r)
    BY LoadsAssumption DEF RecordInv, RecordTypes, AnswerInv
  <2>2. CASE req[r].pc # "idle"
    <3>1. ~steady'[r]
      BY <1>3, <2>1, <2>2
    <3>2. (\A a \in seen[r] : a \in seen'[r]) /\ (Active(r) => OnSale' \subseteq seen'[r])
      BY <1>2, <2>1
    <3>3. QED
      BY <1>1, <2>1, <3>1, <3>2, SearchStays
  <2>3. CASE req[r].pc = "idle"
    <3>1. SearchKnows(r)'
      BY <1>1, <2>1, <2>3 DEF SearchInv, SearchKnows, Active, Read
    <3>2. ThreadRead(r, 1)' /\ ThreadRead(r, 2)'
      BY <1>1, <2>1, <2>3 DEF SearchInv, ThreadRead, Thread
    <3>3. QED
      BY <3>1, <3>2 DEF SearchInv
  <2>4. QED
    BY <2>2, <2>3
<1>5. seen' = [r \in Requests |-> seen'[r]] /\ steady' = [r \in Requests |-> steady'[r]]
    BY <1>1 DEF Observed
<1>6. QED
    BY <1>1, <1>4, <1>5 DEF AnswerInv

\* Where neither requests nor the catalog nor their threads change.
LEMMA AnswerQuiet ==
    ASSUME RecordInv, AnswerInv, UNCHANGED <<load, ad, ready, req, seen, steady>>,
           read' = [w \in Workers |-> read'[w]],
           \A w \in Workers \ {DiagThread} : read'[w] = read[w]
    PROVE  AnswerInv'
<1>1. OnSale' = OnSale
    BY DEF OnSale
<1>2. ASSUME NEW r \in load.searches PROVE SearchInv(r)'
  <2>1. r \in Requests /\ SearchInv(r)
    BY LoadsAssumption DEF RecordInv, RecordTypes, AnswerInv
  <2>2. /\ read'[Thread(r, 1)] = read[Thread(r, 1)]
        /\ read'[Thread(r, 2)] = read[Thread(r, 2)]
    BY <2>1, ThreadsApart
  <2>3. Active(r) => OnSale' \subseteq seen'[r]
    BY <1>1, <2>1 DEF SearchInv, SearchKnows
  <2>4. QED
    BY <2>1, <2>2, <2>3, SearchStays
<1>3. QED
    BY <1>2 DEF AnswerInv

\* Every step keeps the answers.
LEMMA AnswerNext ==
    ASSUME RecordInv, AnswerInv, [GainrNext]_allVars
    PROVE  AnswerInv'
<1>1. ASSUME NEW r \in Requests, RequestStep(r) PROVE AnswerInv'
    BY <1>1, AnswerRequests
<1>2. ASSUME NEW w \in Workers, ReadStep(w) PROVE AnswerInv'
    BY <1>2, AnswerPool
<1>3. CASE Etl \/ \E a \in Ads, status \in {"on", "off", "deleted"} : SwitchAd(a, status)
    BY <1>3, AnswerCatalog
<1>4. CASE DiagStep
  <2>1. UNCHANGED <<load, ad, ready, req, seen, steady>>
    BY <1>4 DEF DiagStep, DiagTake, DiagAsk, DiagQuery, DiagRead, DiagRecord, catalogVars
  <2>2. read' = read \/ \E x : read' = [read EXCEPT ![DiagThread] = x]
    <3>1. CASE DiagTake \/ DiagRecord
      BY <3>1 DEF DiagTake, DiagRecord
    <3>2. CASE DiagAsk
      BY <3>2 DEF DiagAsk
    <3>3. CASE DiagRead
      BY <3>3 DEF DiagRead
    <3>4. CASE DiagQuery
      <4>1. read' = [read EXCEPT ![DiagThread] = [read[DiagThread] EXCEPT
                                    !.todo = Tail(read[DiagThread].todo)]]
        BY <3>4 DEF DiagQuery
      <4>2. QED
        BY <4>1
    <3>5. QED
      BY <1>4, <3>1, <3>2, <3>3, <3>4 DEF DiagStep
  <2>3. /\ read' = [w \in Workers |-> read'[w]]
        /\ \A w \in Workers \ {DiagThread} : read'[w] = read[w]
    BY <2>2 DEF AnswerInv
  <2>4. QED
    BY <2>1, <2>3, AnswerQuiet
<1>5. CASE \/ \E key \in DOMAIN lists : ListExpires(key)
           \/ CompatClose \/ CompatStop \/ CompatGivesUp \/ StoreClose \/ EngineClose
           \/ UNCHANGED gainrVars
           \/ UNCHANGED allVars
  <2>1. UNCHANGED <<load, ad, ready, req, read, seen, steady>>
    BY <1>5 DEF ListExpires, CompatClose, CompatStop, CompatGivesUp, StoreClose, EngineClose,
                allVars, gainrVars, catalogVars
  <2>2. QED
    BY <2>1, AnswerQuiet DEF AnswerInv
<1>6. QED
    BY <1>1, <1>2, <1>3, <1>4, <1>5 DEF GainrNext

\* At first there is no search.
LEMMA AnswerStarts == GainrInit => AnswerInv
<1> SUFFICES ASSUME GainrInit PROVE AnswerInv
    OBVIOUS
<1>1. /\ load \in Loads /\ load.searches \subseteq Requests /\ ready = Ads
      /\ req = [r \in Requests |-> Idle] /\ read = [w \in Workers |-> NoRead]
      /\ seen = [r \in Requests |-> {}] /\ steady = [r \in Requests |-> TRUE]
    BY LoadsAssumption DEF GainrInit
<1>2. ASSUME NEW r \in load.searches PROVE SearchInv(r)
  <2>1. req[r] = Idle /\ req[r].pc = "idle"
    BY <1>1, <1>2 DEF Idle
  <2>2. SearchKnows(r)
    BY <2>1 DEF SearchKnows, Active, Read
  <2>3. ASSUME NEW i \in {1, 2} PROVE ThreadRead(r, i)
    <3>1. read[Thread(r, i)] = NoRead
      BY <1>1, <1>2, ThreadsApart
    <3>2. NoRead.st = "none"
      BY DEF NoRead
    <3>3. QED
      BY <2>1, <3>1, <3>2 DEF ThreadRead
  <2>4. QED
    BY <2>2, <2>3 DEF SearchInv
<1>3. QED
    BY <1>1, <1>2 DEF AnswerInv

\* What the invariant says of an answer.
LEMMA AnswersAreGood ==
    ASSUME RecordInv, AnswerInv
    PROVE  CardsAreEligible /\ PageIsExact
<1>1. ASSUME NEW r \in Answered
      PROVE  /\ r \in Requests /\ load \in Loads /\ ready \subseteq Ads
             /\ req[r].mode \in Modes /\ req[r].ranked \in Seq(Ads)
             /\ req[r].mode = "rows" => req[r].total \in Nat /\ Len(req[r].ranked) <= req[r].total
             /\ GoodRows(r, req[r].mode, req[r].ranked, req[r].rows)
             /\ GoodTotal(r, req[r].mode, req[r].ranked, req[r].total)
  <2>1. r \in load.searches /\ req[r].pc = "answered" /\ SearchInv(r)
    BY <1>1 DEF Answered, AnswerInv
  <2>2. QED
    BY <2>1, LoadsAssumption DEF RecordInv, RecordTypes, AnswerInv, SearchInv, SearchKnows, Read
<1>2. CardsAreEligible
    BY <1>1 DEF CardsAreEligible, GoodRows
<1>3. ASSUME NEW r \in Answered, steady[r]
      PROVE  /\ req[r].mode = "catalog" =>
                  /\ req[r].rows = PageOf(Ordered(Order(q(r)), Hits(r)), q(r).page)
                  /\ req[r].total = Cardinality(Hits(r))
             /\ req[r].mode = "ranked" =>
                  /\ req[r].rows = PageOf(RankedHits(r, req[r].ranked), q(r).page)
                  /\ req[r].total = Len(RankedHits(r, req[r].ranked))
             /\ req[r].mode = "rows" =>
                  /\ req[r].rows = RankedHits(r, req[r].ranked)
                  /\ req[r].total >= Len(RankedHits(r, req[r].ranked))
             /\ req[r].mode \in Modes
  <2>1. req[r].mode = "rows" => req[r].total >= Len(RankedHits(r, req[r].ranked))
    <3>1. SUFFICES ASSUME req[r].mode = "rows"
                   PROVE  req[r].total >= Len(RankedHits(r, req[r].ranked))
      OBVIOUS
    <3>2. PICK all, n : all = RankedHits(r, req[r].ranked) /\ n = req[r].total
      OBVIOUS
    <3>3. all \in Seq(Ads) /\ Len(all) <= Len(req[r].ranked)
      BY <1>1, <1>3, <3>2, AmongIsPart DEF RankedHits
    <3>4. Len(all) \in Nat /\ Len(req[r].ranked) \in Nat /\ n \in Nat /\ Len(req[r].ranked) <= n
      BY <1>1, <1>3, <3>1, <3>2, <3>3
    <3>5. n >= Len(all)
      BY <3>3, <3>4
    <3>6. QED
      BY <3>2, <3>5
  <2>2. QED
    BY <1>1, <1>3, <2>1 DEF GoodRows, GoodTotal
<1>4. PageIsExact
    BY <1>3 DEF PageIsExact, Hits, RankedHits, Modes
<1>5. QED
    BY <1>2, <1>4

\* Every card of an answer was on sale, in both tables, while the request ran, and
\* has what the client asked for, for any catalog, plans, filters and changes of the
\* catalog: the client's filters win over the text in their group, and neither a
\* stale ranking nor the ETL's delay lets another ad through, on the catalog, the
\* ranked and the engine-row path and after a retry (_effective_plan,
\* _indexed_catalog_filters, _where_clause, hydrate_*).
THEOREM CardsHold == GainrSpec => []CardsAreEligible
<1>1. RecordInv /\ [GainrNext]_allVars => RecordInv'
    BY RecordsNext
<1>2. RecordInv /\ AnswerInv /\ [GainrNext]_allVars => AnswerInv'
    BY AnswerNext
<1>3. RecordInv /\ AnswerInv => CardsAreEligible
    BY AnswersAreGood
<1>4. QED
    BY <1>1, <1>2, <1>3, RecordsStart, AnswerStarts, PTL DEF GainrSpec

\* While the catalog rests, a page holds exactly the matching ads at its positions,
\* in order, and the total counts them all, for any page size, ranking and plan,
\* with one connection or two, whatever reads were lost and repeated
\* (search_catalog, hydrate_ranked_page, hydrate_filtered).
THEOREM PageHolds == GainrSpec => []PageIsExact
<1>1. RecordInv /\ [GainrNext]_allVars => RecordInv'
    BY RecordsNext
<1>2. RecordInv /\ AnswerInv /\ [GainrNext]_allVars => AnswerInv'
    BY AnswerNext
<1>3. RecordInv /\ AnswerInv => PageIsExact
    BY AnswersAreGood
<1>4. QED
    BY <1>1, <1>2, <1>3, RecordsStart, AnswerStarts, PTL DEF GainrSpec

-----------------------------------------------------------------------------
(* What the diagnostics find. *)

\* What relaxed variants there are, and when one recovers an ad.
LEMMA BlockingIsAsked ==
    ASSUME load \in Loads, ready \subseteq Ads, NEW r \in Requests
    PROVE  /\ Variants(q(r)) \in Seq(Range(Variants(q(r))))
           /\ Blocking(r) =
                {g \in Range(Variants(q(r))) : \E a \in OnSale :
                   IF req[r].mode = "catalog" THEN AnswersCatalog(q(r), {g}, a)
                   ELSE Answers(q(r), {g}, a) /\ a \in Range(req[r].ranked)}
<1>1. IsRequest(q(r))
    BY LoadsAssumption DEF q
<1>2. PICK x : x = q(r)
    OBVIOUS
<1>3. Labels \in Seq(LabelNames)
    BY DEF Labels, LabelNames
<1>4. Variants(x) \in Seq(LabelNames) /\ \A g \in Range(Variants(x)) : g \in LabelNames
  <2>1. PICK v : v = Variants(x)
    OBVIOUS
  <2>2. v \in Seq(LabelNames)
    BY <1>3, <2>1, AmongIsPart DEF Variants
  <2>3. \A g \in Range(v) : g \in LabelNames
    BY <2>2 DEF Range
  <2>4. QED
    BY <2>1, <2>2, <2>3
<1>5. Variants(x) \in Seq(Range(Variants(x)))
  <2>1. PICK v : v = Variants(x)
    OBVIOUS
  <2>2. v \in Seq(LabelNames)
    BY <1>4, <2>1
  <2>3. v \in [1 .. Len(v) -> Range(v)] /\ Len(v) \in Nat
    BY <2>2 DEF Range
  <2>4. v \in Seq(Range(v))
    BY <2>3
  <2>5. QED
    BY <2>1, <2>4
<1>6. OnSale \subseteq Ads
    BY DEF OnSale
<1>7. ASSUME NEW g \in LabelNames
      PROVE  Recovers(r, g) <=>
               \E a \in OnSale :
                 IF req[r].mode = "catalog" THEN AnswersCatalog(x, {g}, a)
                 ELSE Answers(x, {g}, a) /\ a \in Range(req[r].ranked)
  <2>1. PICK v : v = Relaxed(x, g)
    OBVIOUS
  <2>2. \A a \in OnSale :
          /\ Matches(v.f, v.direct, v.types, a) <=> Answers(x, {g}, a)
          /\ TextPasses(v.f, x.term, a)
               <=> (x.term # NoTerm /\ OnlyText(x, {g}) => x.term \in Mentions[a])
    BY <1>1, <1>2, <1>6, <2>1, RelaxedAsks
  <2>3. \A a : AnswersCatalog(x, {g}, a) <=>
          /\ Answers(x, {g}, a)
          /\ (x.term # NoTerm /\ OnlyText(x, {g}) => x.term \in Mentions[a])
    BY DEF AnswersCatalog
  <2>4. CASE req[r].mode = "catalog"
    <3>1. Recovers(r, g) <=> \E a \in OnSale : /\ Matches(v.f, v.direct, v.types, a)
                                               /\ TextPasses(v.f, x.term, a)
      BY <1>2, <2>1, <2>4 DEF Recovers
    <3>2. QED
      BY <2>2, <2>3, <2>4, <3>1
  <2>5. CASE req[r].mode # "catalog"
    <3>1. Recovers(r, g) <=>
            \E a \in OnSale \cap Range(req[r].ranked) : Matches(v.f, v.direct, v.types, a)
      BY <1>2, <2>1, <2>5 DEF Recovers
    <3>2. QED
      BY <2>2, <2>5, <3>1
  <2>6. QED
    BY <2>4, <2>5
<1>8. QED
    BY <1>2, <1>4, <1>5, <1>7 DEF Blocking

\* What a variant recovers depends on the request and the catalog alone.
LEMMA RecoversStays ==
    ASSUME NEW r, NEW g, UNCHANGED <<load, ad, ready>>, req'[r] = req[r]
    PROVE  Recovers(r, g)' = Recovers(r, g)
<1>1. q(r)' = q(r) /\ OnSale' = OnSale
    BY DEF q, OnSale
<1>2. QED
    BY <1>1 DEF Recovers

\* Nothing of the diagnostics changes, and no request that is over.
LEMMA DiagQuiet ==
    ASSUME RecordInv, DiagInv, UNCHANGED <<load, diag>>,
           \A i \in 1 .. Len(queue') : \/ \E j \in 1 .. Len(queue) : queue'[i] = queue[j]
                                       \/ queue'[i] = Stop \/ req'[queue'[i]].pc = "answered",
           queue' \in Seq(Jobs),
           \A r \in Requests : IsOver(r) => req'[r] = req[r],
           changes' \in Nat,
           changes' = 0 => changes = 0 /\ UNCHANGED <<ad, ready>>,
           read' = [w \in Workers |-> read'[w]], DOMAIN read'[DiagThread] = DOMAIN NoRead,
           read'[DiagThread].todo = read[DiagThread].todo,
           read'[DiagThread].st # "none" => read[DiagThread].st # "none",
           read'[DiagThread].st = "done" =>
             read[DiagThread].st = "done" \/ read[DiagThread].todo = <<>>
    PROVE  DiagInv'
<1>1. \A i \in 1 .. Len(queue') : queue'[i] # Stop => req'[queue'[i]].pc = "answered"
  <2>1. SUFFICES ASSUME NEW i \in 1 .. Len(queue'), queue'[i] # Stop
                 PROVE  req'[queue'[i]].pc = "answered"
    OBVIOUS
  <2>2. queue \in Seq(Jobs)
    BY DEF RecordInv, RecordTypes
  <2>3. CASE \E j \in 1 .. Len(queue) : queue'[i] = queue[j]
    <3>1. PICK j \in 1 .. Len(queue) : queue'[i] = queue[j]
      BY <2>3
    <3>2. IsOver(queue[j]) /\ queue[j] \in Jobs
      BY <2>1, <2>2, <3>1 DEF DiagInv
    <3>3. queue[j] \in Requests
      BY <2>1, <3>1, <3>2 DEF Jobs
    <3>4. req[queue[j]].pc = "answered" /\ req'[queue[j]] = req[queue[j]]
      BY <3>2, <3>3 DEF IsOver
    <3>5. QED
      BY <3>1, <3>4
  <2>4. QED
    BY <2>1, <2>3
<1>2. ASSUME diag.pc \in AtWork
      PROVE  /\ diag.job \in Requests /\ IsOver(diag.job) /\ IsOver(diag.job)'
             /\ req'[diag.job] = req[diag.job]
  <2>1. diag.job \in Requests /\ IsOver(diag.job)
    BY <1>2 DEF RecordInv, JobInHand, DiagInv
  <2>2. QED
    BY <2>1 DEF IsOver
<1>3. ASSUME diag.pc \in AtWork, changes' = 0
      PROVE  /\ changes = 0 /\ Blocking(diag.job)' = Blocking(diag.job)
             /\ \A g : Recovers(diag.job, g)' = Recovers(diag.job, g)
  <2>1. PICK r : r = diag.job /\ req'[r] = req[r]
    BY <1>2, <1>3
  <2>2. \A g : Recovers(r, g)' = Recovers(r, g)
    BY <1>3, <2>1, RecoversStays
  <2>3. Blocking(r)' = Blocking(r)
    BY <2>2 DEF Blocking, q
  <2>4. r = diag'.job
    BY <2>1
  <2>5. QED
    BY <1>3, <2>1, <2>2, <2>3, <2>4
<1>4. ASSUME diag.pc = "count"
      PROVE  LET rd == read'[DiagThread]
             IN  /\ rd.todo \in Seq(Range(Variants(q(diag.job)')))
                 /\ rd.st = "done" => rd.todo = <<>>
                 /\ changes' = 0 =>
                      Blocking(diag.job)' =
                        diag.blocking \cup {g \in Range(rd.todo) : Recovers(diag.job, g)'}
  <2>1. diag.pc \in AtWork
    BY <1>4 DEF AtWork
  <2>2. q(diag.job)' = q(diag.job)
    BY DEF q
  <2>3. QED
    BY <1>3, <1>4, <2>1, <2>2 DEF DiagInv
<1>5. diag.pc = "counted" /\ changes' = 0 => diag.blocking = Blocking(diag.job)'
  <2>1. diag.pc = "counted" => diag.pc \in AtWork
    BY DEF AtWork
  <2>2. QED
    BY <1>3, <2>1 DEF DiagInv
<1>6. diag.pc \in AtWork => IsOver(diag.job)'
    BY <1>2
<1>7. /\ changes' \in Nat /\ DOMAIN diag' = {"pc", "job", "attempt", "blocking"}
      /\ read'[DiagThread].st # "none" => diag'.pc = "count"
    BY DEF DiagInv
<1>8. QED
    BY <1>1, <1>4, <1>5, <1>6, <1>7 DEF DiagInv, IsOver

\* The requests.
LEMMA DiagRequests ==
    ASSUME RecordInv, AnswerInv, DiagInv, NEW r \in Requests, RequestStep(r)
    PROVE  DiagInv'
<1>1. UNCHANGED <<load, ad, ready, changes>>
    BY DEF RequestStep, StartList, StartSearch, EngineRaises, EngineReturns, BeginRead, ReadAgain,
           ReadRaises, ReadReturns, Query, Remember, Exec, Respond, Fail, catalogVars
<1>2. /\ read' = [w \in Workers |-> read'[w]] /\ read'[DiagThread] = read[DiagThread]
      /\ \A s \in Requests \ {r} : req'[s] = req[s]
  <2>1. CASE StartList(r) \/ StartSearch(r)
    BY <2>1 DEF StartList, StartSearch, Step, AnswerInv, RecordInv, RecordTypes
  <2>2. CASE ~(StartList(r) \/ StartSearch(r))
    BY <2>2, RequestTouches, ThreadsApart
  <2>3. QED
    BY <2>1, <2>2
<1>3. \A s \in Requests : IsOver(s) => req'[s] = req[s]
  <2>1. IsOver(r) => req' = req
    BY DEF RequestStep, StartList, StartSearch, Begins, EngineRaises, EngineReturns, BeginRead,
           ReadAgain, ReadRaises, ReadReturns, ReadOver, Query, Remember, Exec, Respond, Fail,
           IsOver
  <2>2. QED
    BY <1>2, <2>1
<1>4. queue \in Seq(Jobs)
    BY DEF RecordInv, RecordTypes
<1>5. CASE ~Respond(r)
  <2>1. UNCHANGED <<queue, diag>>
    BY <1>5 DEF RequestStep, StartList, StartSearch, EngineRaises, EngineReturns, BeginRead,
           ReadAgain, ReadRaises, ReadReturns, Query, Remember, Exec, Fail
  <2>2. QED
    BY <1>1, <1>2, <1>3, <1>4, <2>1, DiagQuiet DEF DiagInv
<1>6. CASE Respond(r)
  <2>1. /\ req' = [req EXCEPT ![r] = [req[r] EXCEPT !.pc = "answered"]]
        /\ queue' = queue \/ queue' = Append(queue, r)
        /\ diag' = diag \/ (diag.pc = "off" /\ diag' = [diag EXCEPT !.pc = "get"])
    BY <1>6 DEF Respond, Step
  <2>2. req'[r].pc = "answered"
    BY <2>1 DEF RecordInv, RecordTypes, IsState
  <2>3. r \in Jobs
    BY DEF Jobs
  <2>4. /\ queue' \in Seq(Jobs)
        /\ \A i \in 1 .. Len(queue') :
             (\E j \in 1 .. Len(queue) : queue'[i] = queue[j]) \/ queue'[i] = r
    <3>1. CASE queue' = queue
      BY <1>4, <3>1
    <3>2. CASE queue' = Append(queue, r)
      BY <1>4, <2>3, <3>2
    <3>3. QED
      BY <2>1, <3>1, <3>2
  <2>5. CASE diag' = diag
    BY <1>1, <1>2, <1>3, <2>2, <2>4, <2>5, DiagQuiet DEF DiagInv
  <2>6. CASE diag.pc = "off" /\ diag' = [diag EXCEPT !.pc = "get"]
    <3>1. DOMAIN diag' = {"pc", "job", "attempt", "blocking"} /\ diag'.pc = "get"
      BY <2>6 DEF DiagInv
    <3>2. read'[DiagThread].st = "none" /\ DOMAIN read'[DiagThread] = DOMAIN NoRead
      BY <1>2, <2>6 DEF DiagInv
    <3>3. ASSUME NEW i \in 1 .. Len(queue'), queue'[i] # Stop
          PROVE  req'[queue'[i]].pc = "answered"
      <4>1. CASE queue'[i] = r
        BY <2>2, <4>1
      <4>2. CASE \E j \in 1 .. Len(queue) : queue'[i] = queue[j]
        <5>1. PICK j \in 1 .. Len(queue) : queue'[i] = queue[j]
          BY <4>2
        <5>2. queue[j] \in Requests /\ IsOver(queue[j])
          BY <1>4, <3>3, <5>1 DEF DiagInv, Jobs
        <5>3. req'[queue[j]] = req[queue[j]] /\ req[queue[j]].pc = "answered"
          BY <1>3, <5>2 DEF IsOver
        <5>4. QED
          BY <5>1, <5>3
      <4>3. QED
        BY <2>4, <4>1, <4>2
    <3>4. diag'.pc \notin AtWork /\ changes' \in Nat
      BY <1>1, <3>1 DEF AtWork, DiagInv
    <3>5. QED
      BY <1>2, <3>1, <3>2, <3>3, <3>4 DEF DiagInv, IsOver
  <2>7. QED
    BY <2>1, <2>5, <2>6
<1>7. QED
    BY <1>5, <1>6

\* The pool under a count.
LEMMA DiagPool ==
    ASSUME RecordInv, AnswerInv, DiagInv, NEW w \in Workers, ReadStep(w)
    PROVE  DiagInv'
<1>1. UNCHANGED <<load, ad, ready, changes, req, queue, diag>>
    BY DEF ReadStep, catalogVars
<1>2. queue \in Seq(Jobs)
    BY DEF RecordInv, RecordTypes
<1>3. CASE w # DiagThread \/ read' = read
  <2>1. /\ read' = [v \in Workers |-> read'[v]]
        /\ read'[DiagThread] = read[DiagThread]
    <3>1. read' = read \/ \E st : Mark(w, st)
      BY DEF ReadStep
    <3>2. QED
      BY <1>3, <3>1, ThreadsApart DEF DiagInv, Mark
  <2>2. QED
    BY <1>1, <1>2, <2>1, DiagQuiet DEF DiagInv
<1>4. CASE w = DiagThread /\ read' # read
  <2>1. /\ read[w].st # "none"
        /\ DOMAIN read'[w] = DOMAIN NoRead /\ read'[w].st # "none"
        /\ read'[w].st = "done" => read[w].todo = <<>>
        /\ read'[w].todo = read[w].todo
        /\ read' = [v \in Workers |-> read'[v]]
    BY <1>4, ReadStepMarks DEF DiagInv
  <2>2. QED
    BY <1>1, <1>2, <1>4, <2>1, DiagQuiet DEF DiagInv
<1>5. QED
    BY <1>3, <1>4

\* The catalog changes: nothing is claimed from then on.
LEMMA DiagCatalog ==
    ASSUME RecordInv, DiagInv,
           Etl \/ \E a \in Ads, status \in {"on", "off", "deleted"} : SwitchAd(a, status)
    PROVE  DiagInv'
<1>1. UNCHANGED <<load, req, read, queue, diag>> /\ changes' = changes + 1
    BY DEF Etl, SwitchAd
<1>2. changes' \in Nat /\ changes' # 0 /\ queue \in Seq(Jobs)
    BY <1>1 DEF DiagInv, RecordInv, RecordTypes
<1>3. QED
    BY <1>1, <1>2, DiagQuiet DEF DiagInv

\* The worker takes a job, asks for its variants, and ends with it.
LEMMA DiagWorks ==
    ASSUME RecordInv, AnswerInv, DiagInv, DiagTake \/ DiagAsk \/ DiagRead \/ DiagRecord
    PROVE  DiagInv'
<1>1. UNCHANGED <<load, ad, ready, changes, req>> /\ changes \in Nat
    BY DEF DiagTake, DiagAsk, DiagRead, DiagRecord, catalogVars, DiagInv
<1>2. /\ queue \in Seq(Jobs) /\ DOMAIN diag = {"pc", "job", "attempt", "blocking"}
      /\ read = [w \in Workers |-> read[w]] /\ DOMAIN read[DiagThread] = DOMAIN NoRead
      /\ DiagThread \in Workers
      /\ \A i \in 1 .. Len(queue) : queue[i] # Stop => IsOver(queue[i])
    BY ThreadsApart DEF RecordInv, RecordTypes, DiagInv
<1>3. \A r, g : /\ IsOver(r)' = IsOver(r) /\ Recovers(r, g)' = Recovers(r, g)
                /\ Blocking(r)' = Blocking(r) /\ q(r)' = q(r)
  <2>1. \A r, g : Recovers(r, g)' = Recovers(r, g)
    BY <1>1, RecoversStays
  <2>2. QED
    BY <1>1, <2>1 DEF IsOver, Blocking, q
<1>4. CASE DiagTake
  <2>1. /\ diag.pc = "get" /\ queue # <<>> /\ queue' = Tail(queue) /\ read' = read
        /\ \/ Head(queue) = Stop /\ diag' = [diag EXCEPT !.pc = "stopped"]
           \/ /\ Head(queue) # Stop
              /\ diag' = [diag EXCEPT !.pc = "ask", !.job = Head(queue), !.attempt = 0]
    BY <1>4 DEF DiagTake, Diag
  <2>2. read[DiagThread].st = "none"
    BY <2>1 DEF DiagInv
  <2>3. Len(queue) \in Nat /\ 1 \in 1 .. Len(queue) /\ Head(queue) = queue[1]
    BY <1>2, <2>1
  <2>4. \A i \in 1 .. Len(queue') : i + 1 \in 1 .. Len(queue) /\ queue'[i] = queue[i + 1]
    BY <1>2, <2>1, <2>3
  <2>5. \A i \in 1 .. Len(queue') : queue'[i] # Stop => IsOver(queue'[i])
    BY <1>2, <2>4
  <2>6. /\ DOMAIN diag' = {"pc", "job", "attempt", "blocking"}
        /\ diag'.pc = "stopped" \/ (diag'.pc = "ask" /\ IsOver(diag'.job))
    BY <1>2, <2>1, <2>3
  <2>7. QED
    BY <1>1, <1>2, <1>3, <2>1, <2>2, <2>5, <2>6 DEF DiagInv, AtWork, IsOver
<1>5. CASE DiagAsk
  <2>1. PICK job \in Requests : job = diag.job
    BY <1>5 DEF DiagAsk, RecordInv, JobInHand, AtWork
  <2>2. PICK todo : todo = Variants(q(job))
    OBVIOUS
  <2>3. PICK n : diag' = [diag EXCEPT !.pc = "count", !.attempt = n, !.blocking = {}]
    BY <1>5 DEF DiagAsk, Diag
  <2>4. diag.pc = "ask" /\ queue' = queue /\ read' = [read EXCEPT ![DiagThread] = Wanting(todo)]
    BY <1>5, <2>1, <2>2 DEF DiagAsk
  <2>5. /\ DOMAIN diag' = {"pc", "job", "attempt", "blocking"} /\ diag'.pc = "count"
        /\ diag'.job = job /\ diag'.blocking = {}
    BY <1>2, <2>1, <2>3
  <2>6. /\ read' = [w \in Workers |-> read'[w]] /\ read'[DiagThread] = Wanting(todo)
        /\ DOMAIN Wanting(todo) = DOMAIN NoRead /\ Wanting(todo).st = "wanted"
        /\ Wanting(todo).todo = todo
    BY <1>2, <2>4 DEF Wanting, NoRead
  <2>7. todo \in Seq(Range(todo))
    BY <2>1, <2>2, BlockingIsAsked DEF RecordInv, RecordTypes, AnswerInv
  <2>8. Blocking(job) = {g \in Range(todo) : Recovers(job, g)}
    BY <2>2 DEF Blocking
  <2>9. IsOver(job)
    BY <2>1, <2>4 DEF DiagInv, AtWork
  <2>10. QED
    BY <1>1, <1>2, <1>3, <2>2, <2>4, <2>5, <2>6, <2>7, <2>8, <2>9 DEF DiagInv, AtWork, IsOver
<1>6. CASE DiagRead
  <2>1. /\ diag.pc = "count" /\ queue' = queue
        /\ read' = [read EXCEPT ![DiagThread] = NoRead]
        /\ \/ read[DiagThread].st = "done" /\ diag' = [diag EXCEPT !.pc = "counted"]
           \/ diag' = [diag EXCEPT !.pc = "ask"]
           \/ diag' = [diag EXCEPT !.pc = "unknown", !.blocking = {}]
    BY <1>6 DEF DiagRead, Diag
  <2>2. PICK job : job = diag.job
    OBVIOUS
  <2>3. IsOver(job)
    BY <2>1, <2>2 DEF DiagInv, AtWork
  <2>4. /\ DOMAIN diag' = {"pc", "job", "attempt", "blocking"} /\ diag'.job = job
        /\ \/ /\ read[DiagThread].st = "done"
              /\ diag'.pc = "counted" /\ diag'.blocking = diag.blocking
           \/ diag'.pc \in {"ask", "unknown"}
    BY <1>2, <2>1, <2>2
  <2>5. read[DiagThread].st = "done" /\ changes = 0 => diag.blocking = Blocking(job)
    <3>1. PICK todo : todo = read[DiagThread].todo
      OBVIOUS
    <3>2. /\ read[DiagThread].st = "done" => todo = <<>>
          /\ changes = 0 => Blocking(job) =
                              diag.blocking \cup {g \in Range(todo) : Recovers(job, g)}
      BY <2>1, <2>2, <3>1 DEF DiagInv
    <3>3. Range(<<>>) = {}
      BY DEF Range
    <3>4. QED
      BY <3>2, <3>3
  <2>6. /\ read' = [w \in Workers |-> read'[w]] /\ read'[DiagThread] = NoRead
        /\ NoRead.st = "none"
    BY <1>2, <2>1 DEF NoRead
  <2>7. QED
    BY <1>1, <1>2, <1>3, <2>1, <2>3, <2>4, <2>5, <2>6 DEF DiagInv, AtWork, IsOver
<1>7. CASE DiagRecord
  <2>1. /\ diag.pc \in {"counted", "unknown"} /\ queue' = queue /\ read' = read
        /\ diag' = [diag EXCEPT !.pc = "get", !.job = None, !.blocking = {}]
    BY <1>7 DEF DiagRecord, Diag
  <2>2. DOMAIN diag' = {"pc", "job", "attempt", "blocking"} /\ diag'.pc = "get"
    BY <1>2, <2>1
  <2>3. read[DiagThread].st = "none"
    BY <2>1 DEF DiagInv
  <2>4. QED
    BY <1>1, <1>2, <1>3, <2>1, <2>2, <2>3 DEF DiagInv, AtWork, IsOver
<1>8. QED
    BY <1>4, <1>5, <1>6, <1>7

\* One variant is counted.
LEMMA DiagCounts ==
    ASSUME RecordInv, AnswerInv, DiagInv, DiagQuery
    PROVE  DiagInv'
<1>1. UNCHANGED <<load, ad, ready, changes, req, queue>>
    BY DEF DiagQuery, catalogVars
<1>2. PICK rd, job : rd = read[DiagThread] /\ job = diag.job
    OBVIOUS
<1>3. /\ rd.st = "open" /\ rd.todo # <<>>
      /\ read' = [read EXCEPT ![DiagThread] = [rd EXCEPT !.todo = Tail(rd.todo)]]
      /\ diag' = IF Recovers(job, Head(rd.todo))
                 THEN [diag EXCEPT !.blocking = diag.blocking \cup {Head(rd.todo)}] ELSE diag
    BY <1>2 DEF DiagQuery, Diag
<1>4. /\ read = [w \in Workers |-> read[w]] /\ DOMAIN rd = DOMAIN NoRead
      /\ DOMAIN diag = {"pc", "job", "attempt", "blocking"} /\ DiagThread \in Workers
      /\ diag.pc = "count" /\ IsOver(job) /\ changes \in Nat
      /\ rd.todo \in Seq(Range(Variants(q(job))))
      /\ changes = 0 => Blocking(job) =
                          diag.blocking \cup {g \in Range(rd.todo) : Recovers(job, g)}
    BY <1>2, <1>3, ThreadsApart DEF DiagInv, AtWork
<1>5. PICK new : new = [rd EXCEPT !.todo = Tail(rd.todo)]
    OBVIOUS
<1>6. /\ read' = [w \in Workers |-> read'[w]] /\ read'[DiagThread] = new
      /\ DOMAIN new = DOMAIN NoRead /\ new.st = "open" /\ new.todo = Tail(rd.todo)
    BY <1>3, <1>4, <1>5 DEF NoRead
<1>7. PICK todo, label : todo = Tail(rd.todo) /\ label = Head(rd.todo)
    OBVIOUS
<1>8. /\ todo \in Seq(Range(Variants(q(job))))
      /\ Range(rd.todo) = {label} \cup Range(todo)
  <2>1. PICK T : T = Range(Variants(q(job)))
    OBVIOUS
  <2>2. PICK s \in Seq(T) : s = rd.todo
    BY <1>4, <2>1
  <2>3. s # <<>> /\ todo = Tail(s) /\ label = s[1]
    BY <1>3, <1>7, <2>2
  <2>4. /\ todo \in Seq(T) /\ Len(todo) = Len(s) - 1 /\ Len(s) \in Nat /\ Len(s) >= 1
        /\ \A i \in 1 .. Len(todo) : todo[i] = s[i + 1]
    BY <2>3
  <2>5. DOMAIN s = 1 .. Len(s) /\ DOMAIN todo = 1 .. Len(todo)
    BY <2>4
  <2>6. \A i \in 1 .. Len(s) : i = 1 \/ (i - 1 \in 1 .. Len(todo) /\ s[i] = todo[i - 1])
    BY <2>4
  <2>7. Range(s) \subseteq {label} \cup Range(todo)
    <3>1. SUFFICES ASSUME NEW x \in Range(s) PROVE x = label \/ x \in Range(todo)
      OBVIOUS
    <3>2. PICK i \in 1 .. Len(s) : x = s[i]
      BY <2>5 DEF Range
    <3>3. CASE i = 1
      BY <2>3, <3>2, <3>3
    <3>4. CASE i - 1 \in 1 .. Len(todo) /\ s[i] = todo[i - 1]
      BY <2>5, <3>2, <3>4 DEF Range
    <3>5. QED
      BY <2>6, <3>3, <3>4
  <2>8. \A i \in 1 .. Len(todo) : i + 1 \in 1 .. Len(s)
    BY <2>4
  <2>9. 1 \in 1 .. Len(s)
    BY <2>4
  <2>10. {label} \cup Range(todo) \subseteq Range(s)
    BY <2>3, <2>4, <2>5, <2>8, <2>9 DEF Range
  <2>11. QED
    BY <2>1, <2>2, <2>4, <2>7, <2>10
<1>9. /\ DOMAIN diag' = {"pc", "job", "attempt", "blocking"} /\ diag'.pc = "count"
      /\ diag'.job = job
      /\ diag'.blocking = diag.blocking \cup (IF Recovers(job, label) THEN {label} ELSE {})
  <2>1. CASE Recovers(job, label)
    BY <1>2, <1>3, <1>4, <1>7, <2>1
  <2>2. CASE ~Recovers(job, label)
    BY <1>2, <1>3, <1>4, <1>7, <2>2
  <2>3. QED
    BY <2>1, <2>2
<1>10. changes = 0 => Blocking(job) =
                        diag'.blocking \cup {g \in Range(todo) : Recovers(job, g)}
    BY <1>4, <1>8, <1>9
<1>11. \A g : /\ IsOver(job)' = IsOver(job) /\ Recovers(job, g)' = Recovers(job, g)
              /\ Blocking(job)' = Blocking(job) /\ q(job)' = q(job)
  <2>1. \A g : Recovers(job, g)' = Recovers(job, g)
    BY <1>1, RecoversStays
  <2>2. QED
    BY <1>1, <2>1 DEF IsOver, Blocking, q
<1>12. \A i \in 1 .. Len(queue) : queue[i] # Stop => IsOver(queue[i])
    BY DEF DiagInv
<1>13. QED
    BY <1>1, <1>4, <1>6, <1>7, <1>8, <1>9, <1>10, <1>11, <1>12 DEF DiagInv, AtWork, IsOver

\* Every step keeps what the diagnostics found.
LEMMA DiagNext ==
    ASSUME RecordInv, AnswerInv, DiagInv, [GainrNext]_allVars
    PROVE  DiagInv'
<1>1. ASSUME NEW r \in Requests, RequestStep(r) PROVE DiagInv'
    BY <1>1, DiagRequests
<1>2. ASSUME NEW w \in Workers, ReadStep(w) PROVE DiagInv'
    BY <1>2, DiagPool
<1>3. CASE Etl \/ \E a \in Ads, status \in {"on", "off", "deleted"} : SwitchAd(a, status)
    BY <1>3, DiagCatalog
<1>4. CASE DiagStep
    BY <1>4, DiagWorks, DiagCounts DEF DiagStep
<1>5. CASE \/ \E key \in DOMAIN lists : ListExpires(key)
           \/ CompatClose \/ CompatStop \/ CompatGivesUp \/ StoreClose \/ EngineClose
           \/ UNCHANGED gainrVars
           \/ UNCHANGED allVars
  <2>1. UNCHANGED <<load, ad, ready, changes, req, read, diag>>
    BY <1>5 DEF ListExpires, CompatClose, CompatStop, CompatGivesUp, StoreClose, EngineClose,
                allVars, gainrVars, catalogVars
  <2>2. queue' = queue \/ queue' = Append(queue, Stop)
    BY <1>5 DEF ListExpires, CompatClose, CompatStop, CompatGivesUp, StoreClose, EngineClose,
                allVars, gainrVars, catalogVars
  <2>3. queue \in Seq(Jobs) /\ Stop \in Jobs
    BY DEF RecordInv, RecordTypes, Jobs
  <2>4. /\ queue' \in Seq(Jobs)
        /\ \A i \in 1 .. Len(queue') :
             (\E j \in 1 .. Len(queue) : queue'[i] = queue[j]) \/ queue'[i] = Stop
    <3>1. CASE queue' = queue
      BY <2>3, <3>1
    <3>2. CASE queue' = Append(queue, Stop)
      BY <2>3, <3>2
    <3>3. QED
      BY <2>2, <3>1, <3>2
  <2>5. QED
    BY <2>1, <2>4, DiagQuiet DEF DiagInv
<1>6. QED
    BY <1>1, <1>2, <1>3, <1>4, <1>5 DEF GainrNext

\* At first there is nothing to find.
LEMMA DiagStarts == GainrInit => DiagInv
<1> SUFFICES ASSUME GainrInit PROVE DiagInv
    OBVIOUS
<1>1. /\ changes = 0 /\ queue = <<>> /\ read = [w \in Workers |-> NoRead]
      /\ diag = [pc |-> "off", job |-> None, attempt |-> 0, blocking |-> {}]
    BY DEF GainrInit
<1>2. read[DiagThread] = NoRead /\ NoRead.st = "none"
    BY <1>1, ThreadsApart DEF NoRead
<1>3. QED
    BY <1>1, <1>2 DEF DiagInv, AtWork

\* While the catalog rests, a filter is named as blocking exactly when the search
\* without that one filter would find an ad, for any catalog, plan and filters, and
\* after a count that was lost and repeated (_zero_result_filter_diagnostics,
\* count_filter_variants).
THEOREM DiagnosisHolds == GainrSpec => []DiagnosisIsTrue
<1>1. RecordInv /\ [GainrNext]_allVars => RecordInv'
    BY RecordsNext
<1>2. RecordInv /\ AnswerInv /\ [GainrNext]_allVars => AnswerInv'
    BY AnswerNext
<1>3. RecordInv /\ AnswerInv /\ DiagInv /\ [GainrNext]_allVars => DiagInv'
    BY DiagNext
<1>4. RecordInv /\ AnswerInv /\ DiagInv => DiagnosisIsTrue
  <2>1. SUFFICES ASSUME RecordInv, AnswerInv, DiagInv, diag.pc = "counted", changes = 0
                 PROVE  diag.blocking =
                          {g \in Range(Variants(q(diag.job))) : \E a \in OnSale :
                             IF req[diag.job].mode = "catalog"
                             THEN AnswersCatalog(q(diag.job), {g}, a)
                             ELSE /\ Answers(q(diag.job), {g}, a)
                                  /\ a \in Range(req[diag.job].ranked)}
    BY DEF DiagnosisIsTrue
  <2>2. diag.job \in Requests /\ load \in Loads /\ ready \subseteq Ads
    BY <2>1 DEF RecordInv, RecordTypes, JobInHand, AtWork, AnswerInv
  <2>3. diag.blocking = Blocking(diag.job)
    BY <2>1 DEF DiagInv
  <2>4. QED
    BY <2>2, <2>3, BlockingIsAsked
<1>5. QED
    BY <1>1, <1>2, <1>3, <1>4, RecordsStart, AnswerStarts, DiagStarts, PTL DEF GainrSpec

=============================================================================
