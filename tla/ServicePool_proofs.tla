------------------------- MODULE ServicePool_proofs -------------------------
(***************************************************************************)
(* For any tenants, request threads, cache size and grace period: the      *)
(* books of TenantServicePool are consistent, and a cache miss restores    *)
(* the bound.                                                              *)
(*                                                                         *)
(* PoolIsConsistent is not inductive: that the service of a request is not *)
(* closed says nothing of why `get` of another request does not collect    *)
(* it next.  Safe does: it is routed, or it was retired after the request  *)
(* got it, so that its grace outlasts the hand-off.  This is where         *)
(* HandOff < Grace is used.                                                *)
(***************************************************************************)
EXTENDS ServicePool, SequenceTheorems, TLAPS

\* The order as a set, and that it has no repetitions.
Elements(s) == {s[i] : i \in DOMAIN s}
Distinct(s) == \A i, j \in DOMAIN s : s[i] = s[j] => i = j

ReqRecord == [pc : {"idle", "handoff", "active", "tail"}, svc : Nat, age : 0 .. HandOff,
              closing : SUBSET Nat]

\* Only a request in `get` still has services to close, and one admin
\* operation runs at a time (_reload_lock).
Hands ==
    /\ \A r \in Requests : req[r].closing # {} => req[r].pc = "handoff"
    /\ \A a, b \in admin : a = b

\* Where the service of a request is: still routed, or retired for no longer
\* than the request has had it; while a search runs on it, routed or retired.
Safe(r) ==
    /\ req[r].pc = "handoff" =>
         \/ req[r].svc \in Routed
         \/ \E e \in retired : e.svc = req[r].svc /\ e.left + req[r].age >= Grace
    /\ req[r].pc = "active" => req[r].svc \in Routed \cup Retired

InUse == \A r \in Requests : Safe(r)

\* The inductive invariant.
PoolIInv == TypeOK /\ OrderListsLoaded /\ EachServiceInOnePlace /\ Hands /\ InUse

USE MaxServicesAssumption, GraceAssumption, MaxBuildsAssumption
-----------------------------------------------------------------------------
(* Sequences without repetitions. *)

\* What is left of a sequence without its first x elements.
LEMMA Rest ==
    ASSUME NEW T, NEW s \in Seq(T), NEW x \in 0 .. Len(s)
    PROVE  /\ SubSeq(s, x + 1, Len(s)) \in Seq(T)
           /\ Len(SubSeq(s, x + 1, Len(s))) = Len(s) - x
           /\ \A i \in 1 .. Len(s) - x : SubSeq(s, x + 1, Len(s))[i] = s[i + x]
<1> DEFINE b == SubSeq(s, x + 1, Len(s))
<1>1. PICK n \in Nat : n = Len(s) /\ x \in Nat /\ x <= n
    OBVIOUS
<1>2. x + 1 \in Int /\ n \in Int /\ \A i \in x + 1 .. n : s[i] \in T
    BY <1>1
<1>3. /\ b \in Seq(T) /\ Len(b) = IF x + 1 <= n THEN n - (x + 1) + 1 ELSE 0
      /\ \A i \in 1 .. n - (x + 1) + 1 : b[i] = s[(x + 1) + i - 1]
    BY <1>1, <1>2, SubSeqProperties
<1> HIDE DEF b
<1>4. Len(b) = n - x
  <2>1. CASE x + 1 <= n
    BY <1>1, <1>3, <2>1
  <2>2. CASE ~(x + 1 <= n)
    <3>1. x = n
      BY <1>1, <2>2
    <3>2. QED
      BY <1>1, <1>3, <2>2, <3>1
  <2>3. QED
    BY <2>1, <2>2
<1>5. ASSUME NEW i \in 1 .. n - x PROVE b[i] = s[i + x]
  <2>1. (x + 1) + i - 1 = i + x /\ i \in 1 .. n - (x + 1) + 1
    BY <1>1
  <2>2. QED
    BY <1>3, <2>1
<1>6. b \in Seq(T) /\ Len(b) = Len(s) - x /\ \A i \in 1 .. Len(s) - x : b[i] = s[i + x]
    BY <1>1, <1>3, <1>4, <1>5
<1>7. QED
    BY <1>6 DEF b

\* The element at k is the one that RemoveFirst takes out.
LEMMA RemoveOne ==
    ASSUME NEW T, NEW s \in Seq(T), NEW e, Distinct(s), NEW k \in 1 .. Len(s), s[k] = e
    PROVE  RemoveFirst(s, e) = RemoveAt(s, k)
<1>1. DOMAIN s = 1 .. Len(s) /\ Len(s) \in Nat
    OBVIOUS
<1>2. {i \in 1 .. Len(s) : s[i] = e} = {k}
    BY <1>1 DEF Distinct
<1>3. Min({k}) = k
    BY DEF Min
<1>4. SelectInSeq(s, LAMBDA v : v = e) = k
    BY <1>2, <1>3 DEF SelectInSeq
<1>5. QED
    BY <1>4 DEF RemoveFirst

\* A sequence without the element at k.
LEMMA RemoveIndex ==
    ASSUME NEW T, NEW s \in Seq(T), NEW k \in 1 .. Len(s), Distinct(s)
    PROVE  /\ RemoveAt(s, k) \in Seq(T)
           /\ Len(RemoveAt(s, k)) = Len(s) - 1
           /\ Elements(RemoveAt(s, k)) = Elements(s) \ {s[k]}
           /\ Distinct(RemoveAt(s, k))
<1> DEFINE a == SubSeq(s, 1, k - 1)
           b == SubSeq(s, k + 1, Len(s))
           r == a \o b
<1>0. Len(s) \in Nat /\ k \in Nat /\ k >= 1 /\ k <= Len(s) /\ DOMAIN s = 1 .. Len(s)
    OBVIOUS
<1>1. a \in Seq(T) /\ Len(a) = k - 1 /\ \A i \in 1 .. k - 1 : a[i] = s[i]
    BY <1>0
<1>2. b \in Seq(T) /\ Len(b) = Len(s) - k /\ \A i \in 1 .. Len(s) - k : b[i] = s[i + k]
  <2>1. k \in 0 .. Len(s)
    BY <1>0
  <2>2. QED
    BY <2>1, Rest
<1> HIDE DEF a, b
<1>3. /\ r \in Seq(T) /\ Len(r) = Len(s) - 1 /\ DOMAIN r = 1 .. Len(s) - 1
      /\ \A i \in 1 .. Len(s) - 1 : r[i] = IF i < k THEN s[i] ELSE s[i + 1]
  <2>1. /\ r \in Seq(T) /\ Len(r) = Len(a) + Len(b)
        /\ \A i \in 1 .. Len(a) + Len(b) : r[i] = IF i <= Len(a) THEN a[i] ELSE b[i - Len(a)]
    BY <1>1, <1>2, ConcatProperties
  <2> HIDE DEF r
  <2>2. Len(r) = Len(s) - 1 /\ DOMAIN r = 1 .. Len(s) - 1
    BY <1>0, <1>1, <1>2, <2>1
  <2>3. ASSUME NEW i \in 1 .. Len(s) - 1 PROVE r[i] = IF i < k THEN s[i] ELSE s[i + 1]
    <3>1. i \in 1 .. Len(a) + Len(b) /\ Len(a) = k - 1
      BY <1>0, <1>1, <1>2
    <3>2. r[i] = IF i <= Len(a) THEN a[i] ELSE b[i - Len(a)]
      BY <2>1, <3>1
    <3>3. CASE i < k
      <4>1. i <= Len(a) /\ i \in 1 .. k - 1
        BY <1>0, <3>1, <3>3
      <4>2. QED
        BY <1>1, <3>2, <3>3, <4>1
    <3>4. CASE i >= k
      <4>1. i - (k - 1) \in 1 .. Len(s) - k /\ (i - (k - 1)) + k = i + 1
        BY <1>0, <3>4
      <4>2. ~(i <= Len(a)) /\ i - Len(a) = i - (k - 1)
        BY <1>0, <3>1, <3>4
      <4>3. r[i] = b[i - (k - 1)]
        BY <3>2, <4>2
      <4>4. QED
        BY <1>0, <1>2, <3>4, <4>1, <4>3
    <3>5. QED
      BY <1>0, <3>3, <3>4
  <2>4. QED
    BY <2>1, <2>2, <2>3
<1>4. RemoveAt(s, k) = r
    BY DEF RemoveAt, a, b
<1> HIDE DEF r
<1>5. Distinct(r)
  <2>1. SUFFICES ASSUME NEW i \in 1 .. Len(s) - 1, NEW j \in 1 .. Len(s) - 1, r[i] = r[j]
                 PROVE  i = j
    BY <1>3 DEF Distinct
  <2>2. PICK m, n \in DOMAIN s : /\ m = IF i < k THEN i ELSE i + 1
                                 /\ n = IF j < k THEN j ELSE j + 1
    BY <1>0
  <2>3. r[i] = s[m] /\ r[j] = s[n]
    BY <1>3, <2>2
  <2>4. m = n
    BY <2>1, <2>3 DEF Distinct
  <2>5. QED
    BY <1>0, <2>2, <2>4
<1>6. ASSUME NEW j \in DOMAIN s, j # k PROVE s[j] \in Elements(r)
  <2>1. CASE j < k
    BY <1>0, <1>3, <1>6, <2>1 DEF Elements
  <2>2. CASE j > k
    <3>1. j - 1 \in DOMAIN r /\ r[j - 1] = s[j]
      BY <1>0, <1>3, <1>6, <2>2
    <3>2. QED
      BY <3>1 DEF Elements
  <2>3. QED
    BY <1>0, <1>6, <2>1, <2>2
<1>7. ASSUME NEW i \in DOMAIN r PROVE r[i] \in Elements(s) /\ r[i] # s[k]
    BY <1>0, <1>3, <1>7 DEF Elements, Distinct
<1>8. Elements(r) = Elements(s) \ {s[k]}
    BY <1>0, <1>6, <1>7 DEF Elements
<1>9. QED
    BY <1>3, <1>4, <1>5, <1>8

\* A sequence and one more element.
LEMMA AddLast ==
    ASSUME NEW T, NEW s \in Seq(T), NEW e \in T, Distinct(s), e \notin Elements(s)
    PROVE  /\ Append(s, e) \in Seq(T) /\ Distinct(Append(s, e))
           /\ Elements(Append(s, e)) = Elements(s) \cup {e}
           /\ Len(Append(s, e)) = Len(s) + 1 /\ Append(s, e)[Len(s) + 1] = e
           /\ \A i \in 1 .. Len(s) : Append(s, e)[i] = s[i]
<1> DEFINE r == Append(s, e)
<1>1. /\ r \in Seq(T) /\ Len(r) = Len(s) + 1 /\ r[Len(s) + 1] = e /\ Len(s) \in Nat
      /\ \A i \in 1 .. Len(s) : r[i] = s[i]
      /\ DOMAIN r = 1 .. Len(s) + 1 /\ DOMAIN s = 1 .. Len(s)
    OBVIOUS
<1> HIDE DEF r
<1>2. \A i \in 1 .. Len(s) : r[i] # e
    BY <1>1 DEF Elements
<1>3. Distinct(r)
  <2>1. SUFFICES ASSUME NEW i \in 1 .. Len(s) + 1, NEW j \in 1 .. Len(s) + 1, r[i] = r[j]
                 PROVE  i = j
    BY <1>1 DEF Distinct
  <2>2. CASE i \in 1 .. Len(s) /\ j \in 1 .. Len(s)
    BY <1>1, <2>1, <2>2 DEF Distinct
  <2>3. CASE i = Len(s) + 1 \/ j = Len(s) + 1
    BY <1>1, <1>2, <2>1, <2>3
  <2>4. QED
    BY <1>1, <2>2, <2>3
<1>4. Elements(r) = Elements(s) \cup {e}
  <2>1. ASSUME NEW i \in DOMAIN r PROVE r[i] \in Elements(s) \cup {e}
    BY <1>1 DEF Elements
  <2>2. ASSUME NEW i \in DOMAIN s PROVE s[i] \in Elements(r)
    BY <1>1 DEF Elements
  <2>3. e \in Elements(r)
    BY <1>1 DEF Elements
  <2>4. QED
    BY <2>1, <2>2, <2>3 DEF Elements
<1>5. QED
    BY <1>1, <1>3, <1>4 DEF r

\* The first x elements are taken off.
LEMMA DropFront ==
    ASSUME NEW T, NEW s \in Seq(T), NEW x \in 0 .. Len(s), Distinct(s)
    PROVE  /\ SubSeq(s, x + 1, Len(s)) \in Seq(T)
           /\ Len(SubSeq(s, x + 1, Len(s))) = Len(s) - x
           /\ Distinct(SubSeq(s, x + 1, Len(s)))
           /\ Elements(SubSeq(s, x + 1, Len(s))) = Elements(s) \ {s[i] : i \in 1 .. x}
<1> DEFINE r == SubSeq(s, x + 1, Len(s))
<1>1. /\ r \in Seq(T) /\ Len(r) = Len(s) - x /\ DOMAIN r = 1 .. Len(s) - x
      /\ \A i \in 1 .. Len(s) - x : r[i] = s[i + x]
    BY Rest
<1>2. DOMAIN s = 1 .. Len(s) /\ Len(s) \in Nat /\ x \in Nat /\ x <= Len(s)
    OBVIOUS
<1> HIDE DEF r
<1>3. \A i \in DOMAIN r : i + x \in DOMAIN s /\ i + x > x
    BY <1>1, <1>2
<1>4. Distinct(r)
    BY <1>1, <1>2, <1>3 DEF Distinct
<1>5. ASSUME NEW i \in DOMAIN r PROVE r[i] \in Elements(s) \ {s[j] : j \in 1 .. x}
  <2>1. r[i] = s[i + x] /\ i + x \in DOMAIN s /\ i + x > x
    BY <1>1, <1>3
  <2>2. \A j \in 1 .. x : s[j] # s[i + x]
    <3>1. SUFFICES ASSUME NEW j \in 1 .. x, s[j] = s[i + x] PROVE FALSE
      OBVIOUS
    <3>2. j \in DOMAIN s
      BY <1>2
    <3>3. j = i + x
      BY <2>1, <3>1, <3>2 DEF Distinct
    <3>4. QED
      BY <1>2, <2>1, <3>3
  <2>3. QED
    BY <2>1, <2>2 DEF Elements
<1>6. ASSUME NEW j \in DOMAIN s, s[j] \notin {s[i] : i \in 1 .. x} PROVE s[j] \in Elements(r)
  <2>1. j - x \in DOMAIN r /\ (j - x) + x = j
    BY <1>1, <1>2, <1>6
  <2>2. r[j - x] = s[j]
    BY <1>1, <2>1
  <2>3. QED
    BY <2>1, <2>2 DEF Elements
<1>7. Elements(r) = Elements(s) \ {s[i] : i \in 1 .. x}
    BY <1>5, <1>6 DEF Elements
<1>8. QED
    BY <1>1, <1>4, <1>7 DEF r

\* move_to_end.
LEMMA MovedToEnd ==
    ASSUME order \in Seq(Tenants), Distinct(order), NEW t \in Tenants
    PROVE  /\ MoveToEnd(t) \in Seq(Tenants) /\ Distinct(MoveToEnd(t))
           /\ Elements(MoveToEnd(t)) = Elements(order) \cup {t}
<1>1. PICK r : r = RemoveFirst(order, t)
    OBVIOUS
<1>2. r \in Seq(Tenants) /\ Distinct(r) /\ Elements(r) = Elements(order) \ {t}
  <2>1. CASE \E k \in 1 .. Len(order) : order[k] = t
    <3>1. PICK k \in 1 .. Len(order) : order[k] = t
      BY <2>1
    <3>2. QED
      BY <1>1, <3>1, RemoveOne, RemoveIndex
  <2>2. CASE ~\E k \in 1 .. Len(order) : order[k] = t
    <3>1. r = order
      BY <1>1, <2>2 DEF RemoveFirst
    <3>2. t \notin Elements(order)
      BY <2>2 DEF Elements
    <3>3. QED
      BY <3>1, <3>2
  <2>3. QED
    BY <2>1, <2>2
<1>3. QED
    BY <1>1, <1>2, AddLast DEF MoveToEnd

-----------------------------------------------------------------------------
(* The parts of a step. *)

\* One request moves.
LEMMA RequestMoves ==
    ASSUME TypeOK, NEW r \in Requests, NEW y \in ReqRecord, req' = [req EXCEPT ![r] = y]
    PROVE  /\ req' \in [Requests -> ReqRecord] /\ req'[r] = y
           /\ \A x \in Requests \ {r} : req'[x] = req[x]
           /\ \A c : c \in Closing' <=>
                       c \in y.closing \/ \E x \in Requests \ {r} : c \in req[x].closing
<1>1. /\ req' \in [Requests -> ReqRecord] /\ req'[r] = y
      /\ \A x \in Requests \ {r} : req'[x] = req[x]
    BY DEF TypeOK, ReqRecord
<1>2. QED
    BY <1>1 DEF Closing

\* The services that `get` collects leave the retired ones.
LEMMA CollectMoves ==
    ASSUME PoolIInv
    PROVE  /\ Retained \subseteq retired /\ Collected \subseteq Retired /\ Collected \subseteq Nat
           /\ {e.svc : e \in Retained} = Retired \ Collected
           /\ \A e \in retired : e.left > 0 \/ ActiveOn(e.svc) # {} => e \in Retained
<1>1. \A e \in retired : e.svc \in Nat /\ e.left \in Nat
    BY DEF PoolIInv, TypeOK
<1>2. \A e, f \in retired : e.svc = f.svc => e = f
    BY DEF PoolIInv, EachServiceInOnePlace
<1>3. QED
    BY <1>1, <1>2 DEF Retained, Collected, Retired, Collectable

\* What is routed stays so or is retired with its whole grace; what is retired
\* stays so while its grace lasts or a search runs on it.
Kept ==
    /\ \A s \in Routed : s \in Routed' \/ [svc |-> s, left |-> Grace] \in retired'
    /\ \A e \in retired : e.left > 0 \/ ActiveOn(e.svc) # {} => e \in retired'

\* So the service of a request that does not move stays where it may be used.
LEMMA StaysSafe ==
    ASSUME PoolIInv, Kept, NEW x \in Requests, req'[x] = req[x]
    PROVE  Safe(x)'
<1>1. req[x].age \in 0 .. HandOff /\ req[x].svc \in Nat
    BY DEF PoolIInv, TypeOK
<1>2. \A e \in retired : e.left \in Nat
    BY DEF PoolIInv, TypeOK
<1>3. Safe(x)
    BY DEF PoolIInv, InUse
<1>4. \A s \in Routed : s \in Routed' \/ \E e \in retired' : e.svc = s /\ e.left = Grace
    BY DEF Kept
<1>5. ASSUME req[x].pc = "handoff"
      PROVE  \/ req[x].svc \in Routed'
             \/ \E e \in retired' : e.svc = req[x].svc /\ e.left + req[x].age >= Grace
  <2>1. CASE req[x].svc \in Routed
    <3>1. CASE req[x].svc \in Routed'
      BY <3>1
    <3>2. CASE \E e \in retired' : e.svc = req[x].svc /\ e.left = Grace
      BY <1>1, <3>2
    <3>3. QED
      BY <1>4, <2>1, <3>1, <3>2
  <2>2. CASE \E e \in retired : e.svc = req[x].svc /\ e.left + req[x].age >= Grace
    <3>1. PICK e \in retired : e.svc = req[x].svc /\ e.left + req[x].age >= Grace
      BY <2>2
    <3>2. e.left > 0
      BY <1>1, <1>2, <3>1
    <3>3. e \in retired'
      BY <3>2 DEF Kept
    <3>4. QED
      BY <3>1, <3>3
  <2>3. QED
    BY <1>3, <1>5, <2>1, <2>2 DEF Safe
<1>6. ASSUME req[x].pc = "active" PROVE req[x].svc \in Routed' \cup Retired'
  <2>1. CASE req[x].svc \in Routed
    BY <1>4, <2>1 DEF Retired
  <2>2. CASE req[x].svc \in Retired
    <3>1. PICK e \in retired : e.svc = req[x].svc
      BY <2>2 DEF Retired
    <3>2. x \in ActiveOn(e.svc)
      BY <1>6, <3>1 DEF ActiveOn
    <3>3. e \in retired'
      BY <3>2 DEF Kept
    <3>4. QED
      BY <3>1, <3>3 DEF Retired
  <2>3. QED
    BY <1>3, <1>6, <2>1, <2>2 DEF Safe
<1>7. QED
    BY <1>5, <1>6 DEF Safe

\* The end of `get`: the caller has its service, and what to close first.
LEMMA HandedOut ==
    ASSUME PoolIInv, NEW r \in Requests, NEW s \in Nat, req[r].pc = "idle", HandOut(r, s)
    PROVE  /\ req' \in [Requests -> ReqRecord] /\ \A x \in Requests \ {r} : req'[x] = req[x]
           /\ req'[r].pc = "handoff" /\ req'[r].svc = s /\ req'[r].age = 0
           /\ Closing' = Closing \cup Collected
           /\ \A x, z \in Requests : x # z => req'[x].closing \cap req'[z].closing = {}
           /\ \A x \in Requests : req'[x].closing # {} => req'[x].pc = "handoff"
<1>1. PICK y : y = [pc |-> "handoff", svc |-> s, age |-> 0, closing |-> Collected]
    OBVIOUS
<1>2. Collected \subseteq Nat /\ Collected \subseteq Retired
    BY CollectMoves
<1>3. y \in ReqRecord /\ y.pc = "handoff" /\ y.svc = s /\ y.age = 0 /\ y.closing = Collected
    BY <1>1, <1>2 DEF ReqRecord
<1>4. TypeOK /\ req' = [req EXCEPT ![r] = y]
    BY <1>1 DEF HandOut, PoolIInv
<1>5. /\ req' \in [Requests -> ReqRecord] /\ req'[r] = y
      /\ \A x \in Requests \ {r} : req'[x] = req[x]
      /\ \A c : c \in Closing' <=>
                  c \in y.closing \/ \E x \in Requests \ {r} : c \in req[x].closing
    BY <1>3, <1>4, RequestMoves
<1>6. req[r].closing = {} /\ \A x \in Requests : req[x].closing # {} => req[x].pc = "handoff"
    BY DEF PoolIInv, Hands
<1>7. Closing' = Closing \cup Collected
    BY <1>3, <1>5, <1>6 DEF Closing
<1>8. Retired \cap Closing = {} /\ \A x, z \in Requests : x # z => req[x].closing \cap req[z].closing = {}
    BY DEF PoolIInv, EachServiceInOnePlace
<1>9. \A x \in Requests : req[x].closing \cap Collected = {}
    BY <1>2, <1>8 DEF Closing
<1>10. \A x, z \in Requests : x # z => req'[x].closing \cap req'[z].closing = {}
    BY <1>3, <1>5, <1>8, <1>9
<1>11. QED
    BY <1>3, <1>5, <1>6, <1>7, <1>10

\* `get` on a tenant that is loaded.
LEMMA GetHitSteps ==
    ASSUME PoolIInv, NEW r \in Requests, NEW t \in Tenants, GetHit(r, t)
    PROVE  PoolIInv'
<1>1. /\ req[r].pc = "idle" /\ routed[t] # NoService /\ order' = MoveToEnd(t)
      /\ retired' = Retained /\ HandOut(r, routed[t])
      /\ UNCHANGED <<routed, built, closed, failures, lost, admin>>
    BY DEF GetHit
<1>2. TypeOK /\ OrderListsLoaded /\ EachServiceInOnePlace /\ Hands /\ routed[t] \in Nat
      /\ routed[t] \in Routed
    BY <1>1 DEF PoolIInv, TypeOK, Routed
<1>3. /\ req' \in [Requests -> ReqRecord] /\ \A x \in Requests \ {r} : req'[x] = req[x]
      /\ req'[r].pc = "handoff" /\ req'[r].svc = routed[t] /\ req'[r].age = 0
      /\ Closing' = Closing \cup Collected
      /\ \A x, z \in Requests : x # z => req'[x].closing \cap req'[z].closing = {}
      /\ \A x \in Requests : req'[x].closing # {} => req'[x].pc = "handoff"
    BY <1>1, <1>2, HandedOut
<1>4. /\ Routed' = Routed /\ Candidate' = Candidate /\ Service' = Service
      /\ Retired' = Retired \ Collected /\ Collected \subseteq Retired /\ Retained \subseteq retired
    BY <1>1, CollectMoves DEF Routed, Candidate, Service, Retired
<1>5. EachServiceInOnePlace'
    BY <1>1, <1>2, <1>3, <1>4 DEF EachServiceInOnePlace
<1>6. Kept
    BY <1>1, <1>4, CollectMoves DEF Kept
<1>7. InUse'
    BY <1>2, <1>3, <1>4, <1>6, StaysSafe DEF InUse, Safe
<1>8. OrderListsLoaded' /\ order' \in Seq(Tenants)
  <2>1. /\ order \in Seq(Tenants) /\ Distinct(order)
        /\ Elements(order) = {u \in Tenants : routed[u] # NoService}
    BY <1>2 DEF OrderListsLoaded, Elements, Distinct, TypeOK
  <2>2. order' \in Seq(Tenants) /\ Distinct(order') /\ Elements(order') = Elements(order) \cup {t}
    BY <1>1, <2>1, MovedToEnd
  <2>3. Elements(order') = {u \in Tenants : routed'[u] # NoService}
    BY <1>1, <2>1, <2>2
  <2>4. QED
    BY <2>2, <2>3 DEF OrderListsLoaded, Elements, Distinct
<1>9. TypeOK'
    BY <1>1, <1>2, <1>3, <1>4, <1>8 DEF TypeOK, ReqRecord
<1>10. Hands'
    BY <1>1, <1>2, <1>3 DEF Hands
<1>11. QED
    BY <1>5, <1>7, <1>8, <1>9, <1>10 DEF PoolIInv

\* `get` when the build raises.
LEMMA GetFailsSteps ==
    ASSUME PoolIInv, NEW r \in Requests, NEW t \in Tenants, GetFails(r, t)
    PROVE  PoolIInv'
<1>1. /\ retired' = Retained /\ failures' = failures \cup {t} /\ lost' = lost \cup Collected
      /\ UNCHANGED <<routed, order, built, closed, req, admin>>
    BY DEF GetFails
<1>2. TypeOK /\ OrderListsLoaded /\ EachServiceInOnePlace /\ Hands
    BY DEF PoolIInv
<1>3. /\ Routed' = Routed /\ Candidate' = Candidate /\ Service' = Service /\ Closing' = Closing
      /\ Retired' = Retired \ Collected /\ Collected \subseteq Retired /\ Retained \subseteq retired
      /\ Collected \subseteq Nat
    BY <1>1, CollectMoves DEF Routed, Candidate, Service, Retired, Closing
<1>4. EachServiceInOnePlace'
    BY <1>1, <1>2, <1>3 DEF EachServiceInOnePlace
<1>5. Kept
    BY <1>1, <1>3, CollectMoves DEF Kept
<1>6. InUse'
    BY <1>1, <1>5, StaysSafe DEF InUse
<1>7. TypeOK' /\ OrderListsLoaded' /\ Hands'
    BY <1>1, <1>2, <1>3 DEF TypeOK, OrderListsLoaded, Hands
<1>8. QED
    BY <1>4, <1>6, <1>7 DEF PoolIInv

\* _retire_locked enters each service once, with its whole grace.
LEMMA RetireServices ==
    ASSUME NEW S
    PROVE  /\ {e.svc : e \in Retire(S)} = S
           /\ \A e \in Retire(S) : e.svc \in S /\ e = [svc |-> e.svc, left |-> Grace]
           /\ \A v \in S : [svc |-> v, left |-> Grace] \in Retire(S)
<1>1. \A e \in Retire(S) : e.svc \in S /\ e = [svc |-> e.svc, left |-> Grace]
    BY DEF Retire
<1>2. \A v \in S : [svc |-> v, left |-> Grace] \in Retire(S) /\ [svc |-> v, left |-> Grace].svc = v
    BY DEF Retire
<1>3. \A v \in S : \E e \in Retire(S) : e.svc = v
    BY <1>2
<1>4. QED
    BY <1>1, <1>2, <1>3

\* The tenants that a miss evicts are loaded, the new one is not among them,
\* and what stays is within the bound.
LEMMA Evicted ==
    ASSUME PoolIInv, NEW t \in Tenants, routed[t] = NoService,
           Evict(Append(order, t), Excess(Len(order) + 1), t)
    PROVE  /\ order' \in Seq(Tenants) /\ Distinct(order') /\ Len(order') <= MaxServices
           /\ \E E \in SUBSET (Tenants \ {t}) :
                /\ \A u \in E : routed[u] # NoService
                /\ Elements(order') = (Elements(order) \cup {t}) \ E
                /\ routed' = [u \in Tenants |-> IF u = t THEN built + 1
                                                ELSE IF u \in E THEN NoService ELSE routed[u]]
                /\ retired' = Retained \cup Retire({routed[u] : u \in E})
<1>1. /\ order \in Seq(Tenants) /\ Distinct(order)
      /\ Elements(order) = {u \in Tenants : routed[u] # NoService}
    BY DEF PoolIInv, OrderListsLoaded, Elements, Distinct, TypeOK
<1>2. PICK l, n, x : l = Append(order, t) /\ n = Len(order) /\ x = Excess(n + 1)
    OBVIOUS
<1>3. t \notin Elements(order) /\ n \in Nat
    BY <1>1, <1>2
<1>4. /\ l \in Seq(Tenants) /\ Distinct(l) /\ Elements(l) = Elements(order) \cup {t}
      /\ Len(l) = n + 1 /\ l[n + 1] = t /\ \A i \in 1 .. n : l[i] = order[i]
    BY <1>1, <1>2, <1>3, AddLast
<1>5. x \in Nat /\ x <= n /\ (n + 1) - x <= MaxServices
    BY <1>2, <1>3 DEF Excess
<1>6. PICK E : E = {l[i] : i \in 1 .. x}
    OBVIOUS
<1>7. \A i \in 1 .. x : i \in 1 .. n /\ i \in DOMAIN order
    BY <1>1, <1>2, <1>3, <1>5
<1>8. E \subseteq Elements(order)
    BY <1>4, <1>6, <1>7 DEF Elements
<1>9. /\ order' = SubSeq(l, x + 1, Len(l))
      /\ routed' = [u \in Tenants |-> IF u = t THEN built + 1
                                      ELSE IF u \in E THEN NoService ELSE routed[u]]
      /\ retired' = Retained \cup Retire({routed[u] : u \in E})
    BY <1>2, <1>6 DEF Evict
<1>10. x \in 0 .. Len(l)
    BY <1>3, <1>4, <1>5
<1>11. /\ order' \in Seq(Tenants) /\ Distinct(order') /\ Len(order') = Len(l) - x
       /\ Elements(order') = Elements(l) \ E
  <2>1. PICK o : o = SubSeq(l, x + 1, Len(l))
    OBVIOUS
  <2>0. l \in Seq(Tenants) /\ Distinct(l) /\ x \in 0 .. Len(l)
    BY <1>4, <1>10
  <2>2. /\ o \in Seq(Tenants) /\ Distinct(o) /\ Len(o) = Len(l) - x
        /\ Elements(o) = Elements(l) \ {l[i] : i \in 1 .. x}
    BY <2>0, <2>1, DropFront, Zenon
  <2>3. QED
    BY <1>6, <1>9, <2>1, <2>2
<1>12. Len(order') <= MaxServices
  <2>1. Len(order') = (n + 1) - x
    BY <1>4, <1>11
  <2>2. QED
    BY <1>5, <2>1, Zenon
<1>13. E \in SUBSET (Tenants \ {t}) /\ \A u \in E : routed[u] # NoService
    BY <1>1, <1>3, <1>8
<1>14. Elements(order') = (Elements(order) \cup {t}) \ E
    BY <1>4, <1>11
<1>15. QED
    BY <1>9, <1>11, <1>12, <1>13, <1>14

\* `get` on a tenant that is not loaded.
LEMMA GetMissSteps ==
    ASSUME PoolIInv, NEW r \in Requests, NEW t \in Tenants, GetMiss(r, t)
    PROVE  PoolIInv'
<1>1. /\ req[r].pc = "idle" /\ routed[t] = NoService /\ built' = built + 1
      /\ Evict(Append(order, t), Excess(Len(order) + 1), t)
      /\ failures' = failures \ {t} /\ HandOut(r, built + 1)
      /\ UNCHANGED <<closed, lost, admin>>
    BY DEF GetMiss
<1>2. /\ TypeOK /\ OrderListsLoaded /\ EachServiceInOnePlace /\ Hands
      /\ built \in Nat /\ built + 1 \in Nat /\ routed \in [Tenants -> Nat]
    BY DEF PoolIInv, TypeOK
<1>3. /\ req' \in [Requests -> ReqRecord] /\ \A x \in Requests \ {r} : req'[x] = req[x]
      /\ req'[r].pc = "handoff" /\ req'[r].svc = built + 1 /\ req'[r].age = 0
      /\ Closing' = Closing \cup Collected
      /\ \A x, z \in Requests : x # z => req'[x].closing \cap req'[z].closing = {}
      /\ \A x \in Requests : req'[x].closing # {} => req'[x].pc = "handoff"
    BY <1>1, <1>2, HandedOut
<1>4. PICK E \in SUBSET (Tenants \ {t}) :
        /\ \A u \in E : routed[u] # NoService
        /\ Elements(order') = (Elements(order) \cup {t}) \ E
        /\ routed' = [u \in Tenants |-> IF u = t THEN built + 1
                                        ELSE IF u \in E THEN NoService ELSE routed[u]]
        /\ retired' = Retained \cup Retire({routed[u] : u \in E})
    BY <1>1, Evicted
<1>5. PICK S : S = {routed[u] : u \in E}
    OBVIOUS
<1>6. /\ S \subseteq Routed /\ NoService \notin S /\ S \subseteq Nat
      /\ \A u \in Tenants : routed[u] \in S <=> u \in E
    BY <1>2, <1>4, <1>5 DEF Routed, EachServiceInOnePlace
<1>7. Retired' = (Retired \ Collected) \cup S
  <2>1. {e.svc : e \in Retire(S)} = S
    BY RetireServices
  <2>2. {e.svc : e \in Retained} = Retired \ Collected
    BY CollectMoves
  <2>3. retired' = Retained \cup Retire(S)
    BY <1>4, <1>5
  <2>4. QED
    BY <2>1, <2>2, <2>3 DEF Retired
<1>8. /\ \A u \in Tenants : routed'[u] = IF u = t THEN built + 1
                                         ELSE IF u \in E THEN NoService ELSE routed[u]
      /\ routed' \in [Tenants -> Nat]
    BY <1>2, <1>4 DEF NoService
<1>9. Routed' = (Routed \ S) \cup {built + 1}
    BY <1>1, <1>2, <1>6, <1>8 DEF Routed, NoService
<1>10. /\ Candidate' = Candidate /\ Service' = Service \cup {built + 1}
       /\ built + 1 \notin Service
    BY <1>1, <1>2 DEF Candidate, Service
<1>11. Collected \subseteq Retired /\ Retained \subseteq retired
    BY CollectMoves
<1>12. EachServiceInOnePlace'
  <2>1. \A u, v \in Tenants : routed'[u] = routed'[v] /\ u # v => routed'[u] = NoService
    <3>1. \A u \in Tenants : routed[u] # built + 1
      BY <1>2, <1>10 DEF EachServiceInOnePlace, Routed, NoService
    <3>2. QED
      BY <1>2, <1>8, <3>1 DEF EachServiceInOnePlace
  <2>2. \A e, f \in retired' : e.svc = f.svc => e = f
    <3>1. \A e \in Retire(S) : e.svc \in S /\ e = [svc |-> e.svc, left |-> Grace]
      BY RetireServices
    <3>2. \A e \in Retained : e.svc \in Retired
      BY <1>11 DEF Retired
    <3>3. S \cap Retired = {}
      BY <1>2, <1>6 DEF EachServiceInOnePlace
    <3>4. \A e, f \in Retained : e.svc = f.svc => e = f
      BY <1>2, <1>11 DEF EachServiceInOnePlace
    <3>5. QED
      BY <1>4, <1>5, <3>1, <3>2, <3>3, <3>4
  <2>3. /\ Routed \cup Retired \cup Candidate \cup Closing \cup closed \cup lost = Service
        /\ Routed \cap (Retired \cup Candidate \cup Closing \cup closed \cup lost) = {}
        /\ Retired \cap (Candidate \cup Closing \cup closed \cup lost) = {}
        /\ Candidate \cap (Closing \cup closed \cup lost) = {}
        /\ Closing \cap (closed \cup lost) = {}
        /\ closed \cap lost = {}
    BY <1>2 DEF EachServiceInOnePlace
  <2>4. PICK b : b = built + 1
    OBVIOUS
  <2>5. /\ Routed' = (Routed \ S) \cup {b} /\ Retired' = (Retired \ Collected) \cup S
        /\ Candidate' = Candidate /\ Closing' = Closing \cup Collected
        /\ Service' = Service \cup {b} /\ b \notin Service /\ closed' = closed /\ lost' = lost
        /\ Collected \subseteq Retired /\ S \subseteq Routed
    BY <1>1, <1>3, <1>6, <1>7, <1>9, <1>10, <1>11, <2>4
  <2>6. Routed' \cup Retired' \cup Candidate' \cup Closing' \cup closed' \cup lost' = Service'
    BY <2>3, <2>5, Zenon
  <2>7. /\ Routed' \cap (Retired' \cup Candidate' \cup Closing' \cup closed' \cup lost') = {}
        /\ Retired' \cap (Candidate' \cup Closing' \cup closed' \cup lost') = {}
    BY <2>3, <2>5
  <2>8. /\ Candidate' \cap (Closing' \cup closed' \cup lost') = {}
        /\ Closing' \cap (closed' \cup lost') = {}
        /\ closed' \cap lost' = {}
    BY <2>3, <2>5
  <2>9. QED
    BY <1>3, <2>1, <2>2, <2>6, <2>7, <2>8 DEF EachServiceInOnePlace
<1>13. Kept
  <2>1. \A s \in Routed : s \in Routed' \/ [svc |-> s, left |-> Grace] \in retired'
    BY <1>4, <1>5, <1>9 DEF Retire
  <2>2. QED
    BY <1>4, <2>1, CollectMoves DEF Kept
<1>14. InUse'
  <2>1. built + 1 \in Routed'
    BY <1>9
  <2>2. \A x \in Requests \ {r} : Safe(x)'
    BY <1>3, <1>13, StaysSafe
  <2>3. Safe(r)'
    BY <1>3, <2>1 DEF Safe
  <2>4. QED
    BY <2>2, <2>3 DEF InUse
<1>15. OrderListsLoaded' /\ order' \in Seq(Tenants)
  <2>1. Elements(order) = {u \in Tenants : routed[u] # NoService}
    BY <1>2 DEF OrderListsLoaded, Elements
  <2>2. order' \in Seq(Tenants) /\ Distinct(order')
    BY <1>1, Evicted
  <2>3. Elements(order') = {u \in Tenants : routed'[u] # NoService}
    BY <1>2, <1>4, <1>8, <2>1 DEF NoService
  <2>4. QED
    BY <2>2, <2>3 DEF OrderListsLoaded, Elements, Distinct
<1>16. retired' \in SUBSET [svc : Nat \ {NoService}, left : 0 .. Grace]
  <2>1. Retire(S) \in SUBSET [svc : Nat \ {NoService}, left : 0 .. Grace]
    BY <1>6 DEF Retire
  <2>2. QED
    BY <1>2, <1>4, <1>5, <1>11, <2>1 DEF TypeOK
<1>17. TypeOK'
    BY <1>1, <1>2, <1>3, <1>8, <1>15, <1>16 DEF TypeOK, ReqRecord
<1>18. Hands'
    BY <1>1, <1>2, <1>3 DEF Hands
<1>19. QED
    BY <1>12, <1>14, <1>15, <1>17, <1>18 DEF PoolIInv

-----------------------------------------------------------------------------
(* The rest of a request. *)

\* A request that has nothing to close moves on.
LEMMA QuietMove ==
    ASSUME PoolIInv, NEW r \in Requests, NEW y \in ReqRecord, req' = [req EXCEPT ![r] = y],
           req[r].closing = {}, y.closing = {}, y.pc # "handoff",
           y.pc = "active" => y.svc \in Routed \cup Retired,
           UNCHANGED <<routed, order, retired, built, closed, failures, lost, admin>>
    PROVE  PoolIInv'
<1>1. TypeOK /\ OrderListsLoaded /\ EachServiceInOnePlace /\ Hands
    BY DEF PoolIInv
<1>2. /\ req' \in [Requests -> ReqRecord] /\ req'[r] = y
      /\ \A x \in Requests \ {r} : req'[x] = req[x]
      /\ \A c : c \in Closing' <=>
                  c \in y.closing \/ \E x \in Requests \ {r} : c \in req[x].closing
    BY <1>1, RequestMoves
<1>3. Closing' = Closing
    BY <1>2 DEF Closing
<1>4. Routed' = Routed /\ Retired' = Retired /\ Candidate' = Candidate /\ Service' = Service
    BY DEF Routed, Retired, Candidate, Service
<1>5. \A x, z \in Requests : x # z => req'[x].closing \cap req'[z].closing = {}
    BY <1>1, <1>2 DEF EachServiceInOnePlace
<1>6. EachServiceInOnePlace'
    BY <1>1, <1>3, <1>4, <1>5 DEF EachServiceInOnePlace
<1>7. Kept
    BY <1>4 DEF Kept
<1>8. InUse'
  <2>1. \A x \in Requests \ {r} : Safe(x)'
    BY <1>2, <1>7, StaysSafe
  <2>2. Safe(r)'
    BY <1>2, <1>4 DEF Safe
  <2>3. QED
    BY <2>1, <2>2 DEF InUse
<1>9. TypeOK' /\ OrderListsLoaded'
    BY <1>1, <1>2 DEF TypeOK, OrderListsLoaded, ReqRecord
<1>10. Hands'
    BY <1>1, <1>2 DEF Hands
<1>11. QED
    BY <1>6, <1>8, <1>9, <1>10 DEF PoolIInv

\* BeginSearch, NoSearch, EndSearch and Respond.
LEMMA SearchSteps ==
    ASSUME PoolIInv, NEW r \in Requests,
           BeginSearch(r) \/ NoSearch(r) \/ EndSearch(r) \/ Respond(r)
    PROVE  PoolIInv'
<1>1. PICK y : y = req[r]
    OBVIOUS
<1>2. /\ y \in ReqRecord /\ y.closing = {}
      /\ y.pc \in {"handoff", "active"} => y.svc \in Routed \cup Retired
  <2>1. y \in ReqRecord /\ (y.closing # {} => y.pc = "handoff") /\ Safe(r)
    BY <1>1 DEF PoolIInv, TypeOK, Hands, InUse, ReqRecord
  <2>2. y.closing = {}
    BY <1>1, <2>1 DEF BeginSearch, NoSearch, EndSearch, Respond
  <2>3. y.pc \in {"handoff", "active"} => y.svc \in Routed \cup Retired
    BY <1>1, <2>1 DEF Safe, Retired
  <2>4. QED
    BY <2>1, <2>2, <2>3
<1>3. UNCHANGED <<routed, order, retired, built, closed, failures, lost, admin>>
    BY DEF BeginSearch, NoSearch, EndSearch, Respond
<1>4. CASE BeginSearch(r)
  <2>1. PICK z : z = [pc |-> "active", svc |-> y.svc, age |-> 0, closing |-> y.closing]
    OBVIOUS
  <2>2. req' = [req EXCEPT ![r] = z]
    <3>1. req' = [req EXCEPT ![r].pc = "active", ![r].age = 0]
      BY <1>4 DEF BeginSearch
    <3>2. req \in [Requests -> ReqRecord]
      BY DEF PoolIInv, TypeOK, ReqRecord
    <3>3. req'[r] = [[y EXCEPT !.pc = "active"] EXCEPT !.age = 0]
      BY <1>1, <3>1, <3>2
    <3>4. req'[r] = z
      BY <1>2, <2>1, <3>3 DEF ReqRecord
    <3>5. QED
      BY <3>1, <3>2, <3>4
  <2>3. z \in ReqRecord /\ z.pc = "active" /\ z.svc = y.svc /\ z.closing = {}
    BY <1>2, <2>1 DEF ReqRecord
  <2>4. y.pc = "handoff"
    BY <1>1, <1>4 DEF BeginSearch
  <2>5. QED
    BY <1>1, <1>2, <1>3, <2>2, <2>3, <2>4, QuietMove
<1>5. CASE NoSearch(r) \/ Respond(r)
  <2>1. req' = [req EXCEPT ![r] = IdleReq]
    BY <1>5 DEF NoSearch, Respond
  <2>2. IdleReq \in ReqRecord /\ IdleReq.pc = "idle" /\ IdleReq.closing = {}
    BY DEF IdleReq, ReqRecord, NoService
  <2>3. QED
    BY <1>1, <1>2, <1>3, <2>1, <2>2, QuietMove
<1>6. CASE EndSearch(r)
  <2>1. PICK z : z = [y EXCEPT !.pc = "tail"]
    OBVIOUS
  <2>2. req' = [req EXCEPT ![r] = z]
    BY <1>1, <1>6, <2>1 DEF EndSearch
  <2>3. z \in ReqRecord /\ z.pc = "tail" /\ z.closing = {}
    BY <1>2, <2>1 DEF ReqRecord
  <2>4. QED
    BY <1>1, <1>2, <1>3, <2>2, <2>3, QuietMove
<1>7. QED
    BY <1>4, <1>5, <1>6

\* A collected service is closed.
LEMMA CloseOneSteps ==
    ASSUME PoolIInv, NEW r \in Requests, CloseOne(r)
    PROVE  PoolIInv'
<1>1. PICK s \in req[r].closing : /\ closed' = closed \cup {s}
                                  /\ req' = [req EXCEPT ![r].closing = @ \ {s}]
    BY DEF CloseOne
<1>2. /\ req[r].pc = "handoff" /\ UNCHANGED <<routed, order, retired, built, failures, lost, admin>>
      /\ TypeOK /\ OrderListsLoaded /\ EachServiceInOnePlace /\ Hands /\ InUse
    BY DEF CloseOne, PoolIInv
<1>3. PICK y, z : y = req[r] /\ z = [y EXCEPT !.closing = y.closing \ {s}]
    OBVIOUS
<1>4. y \in ReqRecord /\ req' = [req EXCEPT ![r] = z]
    BY <1>1, <1>2, <1>3 DEF TypeOK, ReqRecord
<1>5. /\ z \in ReqRecord /\ z.pc = y.pc /\ z.svc = y.svc /\ z.age = y.age
      /\ z.closing = y.closing \ {s}
    BY <1>3, <1>4 DEF ReqRecord
<1>6. /\ req' \in [Requests -> ReqRecord] /\ req'[r] = z
      /\ \A x \in Requests \ {r} : req'[x] = req[x]
      /\ \A c : c \in Closing' <=>
                  c \in z.closing \/ \E x \in Requests \ {r} : c \in req[x].closing
    BY <1>2, <1>4, <1>5, RequestMoves
<1>7. /\ \A x, v \in Requests : x # v => req[x].closing \cap req[v].closing = {}
      /\ s \in y.closing /\ s \in Nat
    BY <1>1, <1>2, <1>3, <1>4 DEF EachServiceInOnePlace, ReqRecord
<1>8. Closing' = Closing \ {s} /\ s \in Closing
    BY <1>3, <1>5, <1>6, <1>7 DEF Closing
<1>9. Routed' = Routed /\ Retired' = Retired /\ Candidate' = Candidate /\ Service' = Service
    BY <1>2 DEF Routed, Retired, Candidate, Service
<1>10. \A x, v \in Requests : x # v => req'[x].closing \cap req'[v].closing = {}
  <2>1. \A x \in Requests : req'[x].closing \subseteq req[x].closing
    BY <1>3, <1>5, <1>6
  <2>2. QED
    BY <1>7, <2>1
<1>11. EachServiceInOnePlace'
    BY <1>1, <1>2, <1>8, <1>9, <1>10 DEF EachServiceInOnePlace
<1>12. Kept
    BY <1>2, <1>9 DEF Kept
<1>13. InUse'
  <2>1. \A x \in Requests \ {r} : Safe(x)'
    BY <1>6, <1>12, StaysSafe
  <2>2. Safe(r)
    BY <1>2 DEF InUse
  <2>3. Safe(r)'
    BY <1>2, <1>3, <1>5, <1>6, <1>9, <2>2 DEF Safe
  <2>4. QED
    BY <2>1, <2>3 DEF InUse
<1>14. TypeOK' /\ OrderListsLoaded'
    BY <1>1, <1>2, <1>6, <1>7 DEF TypeOK, OrderListsLoaded, ReqRecord
<1>15. Hands'
    BY <1>2, <1>3, <1>5, <1>6 DEF Hands
<1>16. QED
    BY <1>11, <1>13, <1>14, <1>15 DEF PoolIInv

-----------------------------------------------------------------------------
(* The admin operations, time, and the end. *)

\* A candidate is built, or closed because it is not ready.
LEMMA CandidateSteps ==
    ASSUME PoolIInv, (\E t \in Tenants : AdminBuild(t)) \/ (\E a \in admin : AdminRejects(a))
    PROVE  PoolIInv'
<1>1. TypeOK /\ OrderListsLoaded /\ EachServiceInOnePlace /\ Hands /\ built \in Nat
    BY DEF PoolIInv, TypeOK
<1>2. UNCHANGED <<routed, order, retired, failures, lost, req>>
    BY DEF AdminBuild, AdminRejects
<1>3. Routed' = Routed /\ Retired' = Retired /\ Closing' = Closing
    BY <1>2 DEF Routed, Retired, Closing
<1>4. Kept
    BY <1>2, <1>3 DEF Kept
<1>5. InUse'
    BY <1>2, <1>4, StaysSafe DEF InUse
<1>6. OrderListsLoaded'
    BY <1>1, <1>2 DEF OrderListsLoaded
<1>7. CASE \E t \in Tenants : AdminBuild(t)
  <2>1. PICK t \in Tenants : AdminBuild(t)
    BY <1>7
  <2>2. /\ admin = {} /\ built' = built + 1 /\ closed' = closed
        /\ admin' = {[tenant |-> t, svc |-> built + 1]}
    BY <2>1 DEF AdminBuild
  <2>3. PICK b : b = built + 1
    OBVIOUS
  <2>4. Candidate = {} /\ Candidate' = {b} /\ Service' = Service \cup {b} /\ b \notin Service
    BY <1>1, <2>2, <2>3 DEF Candidate, Service
  <2>5. EachServiceInOnePlace'
    BY <1>1, <1>2, <1>3, <2>2, <2>4 DEF EachServiceInOnePlace
  <2>6. TypeOK' /\ Hands'
    BY <1>1, <1>2, <2>2 DEF TypeOK, Hands
  <2>7. QED
    BY <1>5, <1>6, <2>5, <2>6 DEF PoolIInv
<1>8. CASE \E a \in admin : AdminRejects(a)
  <2>1. PICK a \in admin : closed' = closed \cup {a.svc} /\ admin' = {} /\ built' = built
    BY <1>8 DEF AdminRejects
  <2>2. /\ Candidate = {a.svc} /\ Candidate' = {} /\ Service' = Service /\ a.svc \in Nat
    BY <1>1, <2>1 DEF Candidate, Service, Hands, TypeOK
  <2>3. EachServiceInOnePlace'
    BY <1>1, <1>2, <1>3, <2>1, <2>2 DEF EachServiceInOnePlace
  <2>4. TypeOK' /\ Hands'
    BY <1>1, <1>2, <2>1, <2>2 DEF TypeOK, Hands
  <2>5. QED
    BY <1>5, <1>6, <2>3, <2>4 DEF PoolIInv
<1>9. QED
    BY <1>7, <1>8

\* The candidate takes the place of the routed service, which is retired.
LEMMA AdminSwapSteps ==
    ASSUME PoolIInv, NEW a \in admin, AdminSwap(a)
    PROVE  PoolIInv'
<1>1. /\ TypeOK /\ OrderListsLoaded /\ EachServiceInOnePlace /\ Hands
      /\ a \in [tenant : Tenants, svc : Nat] /\ routed \in [Tenants -> Nat]
    BY DEF PoolIInv, TypeOK
<1>2. PICK t, b, S : /\ t \in Tenants /\ b \in Nat /\ t = a.tenant /\ b = a.svc
                     /\ S = {routed[a.tenant]} \ {NoService}
    BY <1>1
<1>3. /\ routed' = [routed EXCEPT ![t] = b] /\ order' = MoveToEnd(t)
      /\ retired' = retired \cup Retire(S) /\ admin' = {}
      /\ UNCHANGED <<built, closed, failures, lost, req>>
    BY <1>2 DEF AdminSwap
<1>4. /\ routed' \in [Tenants -> Nat] /\ routed'[t] = b
      /\ \A u \in Tenants \ {t} : routed'[u] = routed[u]
    BY <1>1, <1>2, <1>3
<1>5. Candidate = {b} /\ Candidate' = {} /\ Service' = Service /\ Closing' = Closing
    BY <1>1, <1>2, <1>3 DEF Candidate, Service, Hands, Closing
<1>6. b # NoService /\ b \notin Routed
    BY <1>1, <1>5 DEF EachServiceInOnePlace, Service, NoService
<1>7. S \subseteq Routed /\ S = {routed[t]} \ {NoService} /\ S \subseteq Nat /\ NoService \notin S
    BY <1>1, <1>2 DEF Routed
<1>8. Routed' = (Routed \ S) \cup {b}
    BY <1>1, <1>4, <1>6, <1>7 DEF Routed, EachServiceInOnePlace
<1>9. Retired' = Retired \cup S
    BY <1>3, RetireServices DEF Retired
<1>10. EachServiceInOnePlace'
  <2>1. \A u, v \in Tenants : routed'[u] = routed'[v] /\ u # v => routed'[u] = NoService
    BY <1>1, <1>4, <1>6 DEF EachServiceInOnePlace, Routed
  <2>2. \A e, f \in retired' : e.svc = f.svc => e = f
    <3>1. \A e \in Retire(S) : e.svc \in S /\ e = [svc |-> e.svc, left |-> Grace]
      BY RetireServices
    <3>2. \A e \in retired : e.svc \in Retired
      BY DEF Retired
    <3>3. S \cap Retired = {} /\ \A e, f \in retired : e.svc = f.svc => e = f
      BY <1>1, <1>7 DEF EachServiceInOnePlace
    <3>4. QED
      BY <1>3, <3>1, <3>2, <3>3
  <2>3. /\ Routed' \cup Retired' \cup Candidate' \cup Closing' \cup closed' \cup lost' = Service'
        /\ Routed' \cap (Retired' \cup Candidate' \cup Closing' \cup closed' \cup lost') = {}
        /\ Retired' \cap (Candidate' \cup Closing' \cup closed' \cup lost') = {}
    BY <1>1, <1>3, <1>5, <1>6, <1>7, <1>8, <1>9 DEF EachServiceInOnePlace
  <2>4. /\ Candidate' \cap (Closing' \cup closed' \cup lost') = {}
        /\ Closing' \cap (closed' \cup lost') = {} /\ closed' \cap lost' = {}
        /\ \A x, z \in Requests : x # z => req'[x].closing \cap req'[z].closing = {}
    BY <1>1, <1>3, <1>5 DEF EachServiceInOnePlace
  <2>5. QED
    BY <2>1, <2>2, <2>3, <2>4 DEF EachServiceInOnePlace
<1>11. Kept
  <2>1. \A s \in Routed : s \in Routed' \/ [svc |-> s, left |-> Grace] \in retired'
    BY <1>3, <1>8, RetireServices
  <2>2. QED
    BY <1>3, <2>1 DEF Kept
<1>12. InUse'
    BY <1>3, <1>11, StaysSafe DEF InUse
<1>13. OrderListsLoaded' /\ order' \in Seq(Tenants)
  <2>1. /\ order \in Seq(Tenants) /\ Distinct(order)
        /\ Elements(order) = {u \in Tenants : routed[u] # NoService}
    BY <1>1 DEF OrderListsLoaded, Elements, Distinct, TypeOK
  <2>2. order' \in Seq(Tenants) /\ Distinct(order') /\ Elements(order') = Elements(order) \cup {t}
    BY <1>2, <1>3, <2>1, MovedToEnd
  <2>3. Elements(order') = {u \in Tenants : routed'[u] # NoService}
    BY <1>2, <1>4, <1>6, <2>1, <2>2
  <2>4. QED
    BY <2>2, <2>3 DEF OrderListsLoaded, Elements, Distinct
<1>14. retired' \in SUBSET [svc : Nat \ {NoService}, left : 0 .. Grace]
  <2>1. Retire(S) \in SUBSET [svc : Nat \ {NoService}, left : 0 .. Grace]
    BY <1>7 DEF Retire
  <2>2. QED
    BY <1>1, <1>3, <2>1 DEF TypeOK
<1>15. TypeOK' /\ Hands'
    BY <1>1, <1>3, <1>4, <1>13, <1>14 DEF TypeOK, Hands
<1>16. QED
    BY <1>10, <1>12, <1>13, <1>15 DEF PoolIInv

\* Time passes alike for the grace of a service and the hand-off of a request.
LEMMA TickSteps ==
    ASSUME PoolIInv, Tick
    PROVE  PoolIInv'
<1>1. /\ TypeOK /\ OrderListsLoaded /\ EachServiceInOnePlace /\ Hands /\ InUse
      /\ UNCHANGED <<routed, order, built, closed, failures, lost, admin>>
    BY DEF PoolIInv, Tick
<1> DEFINE Less(e) == [svc |-> e.svc, left |-> IF e.left > 0 THEN e.left - 1 ELSE 0]
<1>2. \A e \in retired : /\ e \in [svc : Nat \ {NoService}, left : 0 .. Grace]
                         /\ [e EXCEPT !.left = IF @ > 0 THEN @ - 1 ELSE 0] = Less(e)
    BY <1>1 DEF TypeOK
<1>3. retired' = {Less(e) : e \in retired}
  <2>1. retired' = {[e EXCEPT !.left = IF @ > 0 THEN @ - 1 ELSE 0] : e \in retired}
    BY DEF Tick
  <2> HIDE DEF Less
  <2>2. \A f : f \in retired' <=> \E e \in retired : f = Less(e)
    BY <1>2, <2>1
  <2>3. QED
    BY <2>2
<1>4. \A e \in retired : /\ Less(e).svc = e.svc
                         /\ Less(e).left = IF e.left > 0 THEN e.left - 1 ELSE 0
                         /\ Less(e) \in [svc : Nat \ {NoService}, left : 0 .. Grace]
  <2>1. SUFFICES ASSUME NEW e \in retired
                 PROVE  Less(e) \in [svc : Nat \ {NoService}, left : 0 .. Grace]
    OBVIOUS
  <2>2. e.svc \in Nat \ {NoService} /\ e.left \in 0 .. Grace
    BY <1>2
  <2>3. (IF e.left > 0 THEN e.left - 1 ELSE 0) \in 0 .. Grace
    BY <2>2
  <2>4. QED
    BY <2>2, <2>3
<1> HIDE DEF Less
<1>5. Retired' = Retired
    BY <1>3, <1>4 DEF Retired
<1>6. \A e, f \in retired' : e.svc = f.svc => e = f
  <2>1. \A e, f \in retired : e.svc = f.svc => e = f
    BY <1>1 DEF EachServiceInOnePlace
  <2>2. QED
    BY <1>3, <1>4, <2>1
<1>7. \A x \in Requests : /\ req[x] \in ReqRecord
                          /\ req[x].pc = "handoff" => req[x].age < HandOff
    BY <1>1 DEF TypeOK, Tick, ReqRecord
<1>8. req' = [x \in Requests |->
                IF req[x].pc = "handoff" THEN [req[x] EXCEPT !.age = @ + 1] ELSE req[x]]
    BY DEF Tick
<1>9. \A x \in Requests : /\ req'[x] \in ReqRecord /\ req'[x].pc = req[x].pc
                          /\ req'[x].svc = req[x].svc /\ req'[x].closing = req[x].closing
                          /\ req[x].pc = "handoff" => req'[x].age = req[x].age + 1
  <2>1. SUFFICES ASSUME NEW x \in Requests
                 PROVE  /\ req'[x] \in ReqRecord /\ req'[x].pc = req[x].pc
                        /\ req'[x].svc = req[x].svc /\ req'[x].closing = req[x].closing
                        /\ req[x].pc = "handoff" => req'[x].age = req[x].age + 1
    OBVIOUS
  <2>2. PICK y, z : y = req[x] /\ z = req'[x]
    OBVIOUS
  <2>3. y \in ReqRecord /\ (y.pc = "handoff" => y.age < HandOff)
    BY <1>7, <2>2
  <2>4. z = IF y.pc = "handoff" THEN [y EXCEPT !.age = y.age + 1] ELSE y
    BY <1>8, <2>2
  <2>5. /\ z \in ReqRecord /\ z.pc = y.pc /\ z.svc = y.svc /\ z.closing = y.closing
        /\ y.pc = "handoff" => z.age = y.age + 1
    BY <2>3, <2>4 DEF ReqRecord
  <2>6. QED
    BY <2>2, <2>5
<1>10. req' \in [Requests -> ReqRecord]
    BY <1>8, <1>9
<1>11. Closing' = Closing /\ Routed' = Routed /\ Candidate' = Candidate /\ Service' = Service
    BY <1>1, <1>9 DEF Closing, Routed, Candidate, Service
<1>12. \A x, z \in Requests : x # z => req'[x].closing \cap req'[z].closing = {}
    BY <1>1, <1>9 DEF EachServiceInOnePlace
<1>13. EachServiceInOnePlace'
    BY <1>1, <1>5, <1>6, <1>11, <1>12 DEF EachServiceInOnePlace
<1>14. ASSUME NEW x \in Requests PROVE Safe(x)'
  <2>1. Safe(x) /\ req[x].age \in Nat
    BY <1>1, <1>7 DEF InUse, ReqRecord
  <2>2. ASSUME req[x].pc = "handoff", NEW e \in retired, e.svc = req[x].svc,
               e.left + req[x].age >= Grace
        PROVE  \E f \in retired' : f.svc = req'[x].svc /\ f.left + req'[x].age >= Grace
    <3>1. PICK l, g \in Nat : l = e.left /\ g = req[x].age /\ g < HandOff
      BY <1>2, <1>7, <2>1, <2>2
    <3>2. Less(e).left = l - 1 /\ l > 0
      BY <1>4, <2>2, <3>1
    <3>3. Less(e).left + req'[x].age >= Grace
      BY <1>9, <2>2, <3>1, <3>2
    <3>4. QED
      BY <1>3, <1>4, <1>9, <2>2, <3>3
  <2>3. QED
    BY <1>5, <1>9, <1>11, <2>1, <2>2 DEF Safe
<1>15. TypeOK' /\ OrderListsLoaded'
  <2>1. retired' \in SUBSET [svc : Nat \ {NoService}, left : 0 .. Grace]
    BY <1>3, <1>4
  <2>2. QED
    BY <1>1, <1>10, <2>1 DEF TypeOK, OrderListsLoaded, ReqRecord
<1>16. Hands'
    BY <1>1, <1>9 DEF Hands
<1>17. QED
    BY <1>13, <1>14, <1>15, <1>16 DEF PoolIInv, InUse

\* close() closes what is routed or retired, once.
LEMMA ShutdownSteps ==
    ASSUME PoolIInv, Shutdown
    PROVE  PoolIInv'
<1>1. /\ TypeOK /\ EachServiceInOnePlace /\ Hands
      /\ \A x \in Requests : req[x].pc = "idle"
      /\ admin = {} /\ closed' = closed \cup Routed \cup Retired
      /\ routed' = [t \in Tenants |-> NoService] /\ order' = <<>> /\ retired' = {}
      /\ UNCHANGED <<built, failures, lost, req, admin>>
    BY DEF PoolIInv, Shutdown, Routed, Retired
<1>2. /\ Routed' = {} /\ Retired' = {} /\ Closing' = Closing /\ Candidate' = Candidate
      /\ Service' = Service
    BY <1>1 DEF Routed, Retired, Closing, Candidate, Service
<1>3. EachServiceInOnePlace'
    BY <1>1, <1>2 DEF EachServiceInOnePlace
<1>4. InUse'
    BY <1>1 DEF InUse, Safe
<1>5. Routed \subseteq Nat /\ Retired \subseteq Nat
    BY <1>1 DEF TypeOK, Routed, Retired
<1>6. TypeOK'
    BY <1>1, <1>5 DEF TypeOK, NoService
<1>7. OrderListsLoaded'
    BY <1>1 DEF OrderListsLoaded
<1>8. Hands'
    BY <1>1 DEF Hands
<1>9. QED
    BY <1>3, <1>4, <1>6, <1>7, <1>8 DEF PoolIInv

-----------------------------------------------------------------------------
(* The theorems. *)

\* An empty pool.
LEMMA PoolStarts == ASSUME Init PROVE PoolIInv
<1>1. /\ routed = [t \in Tenants |-> NoService] /\ order = <<>> /\ retired = {} /\ built = 0
      /\ closed = {} /\ failures = {} /\ lost = {} /\ admin = {}
      /\ \A r \in Requests : req[r] = IdleReq
    BY DEF Init
<1>2. \A r \in Requests : req[r].pc = "idle" /\ req[r].closing = {}
    BY <1>1 DEF IdleReq
<1>3. Routed = {} /\ Retired = {} /\ Candidate = {} /\ Closing = {} /\ Service = {}
    BY <1>1, <1>2 DEF Routed, Retired, Candidate, Closing, Service
<1>4. EachServiceInOnePlace
    BY <1>1, <1>2, <1>3 DEF EachServiceInOnePlace
<1>5. TypeOK
  <2>1. req \in [Requests -> ReqRecord]
    BY DEF Init, IdleReq, ReqRecord, NoService
  <2>2. QED
    BY <1>1, <2>1 DEF TypeOK, ReqRecord, NoService
<1>6. OrderListsLoaded /\ Hands /\ InUse
    BY <1>1, <1>2 DEF OrderListsLoaded, Hands, InUse, Safe
<1>7. QED
    BY <1>4, <1>5, <1>6 DEF PoolIInv

\* Every step keeps the invariant.
LEMMA PoolSteps == ASSUME PoolIInv, [Next]_vars PROVE PoolIInv'
<1>1. CASE UNCHANGED vars
  <2>1. /\ Routed' = Routed /\ Retired' = Retired /\ Candidate' = Candidate
        /\ Closing' = Closing /\ Service' = Service
    BY <1>1 DEF vars, Routed, Retired, Candidate, Closing, Service
  <2>2. EachServiceInOnePlace' /\ InUse'
    BY <1>1, <2>1 DEF vars, PoolIInv, EachServiceInOnePlace, InUse, Safe
  <2>3. QED
    BY <1>1, <2>2 DEF vars, PoolIInv, TypeOK, OrderListsLoaded, Hands
<1>2. CASE \E r \in Requests : RequestStep(r)
    BY <1>2, CloseOneSteps, SearchSteps DEF RequestStep
<1>3. CASE \E r \in Requests, t \in Tenants : Get(r, t)
    BY <1>3, GetHitSteps, GetMissSteps, GetFailsSteps DEF Get
<1>4. CASE (\E t \in Tenants : AdminBuild(t)) \/ (\E a \in admin : AdminRejects(a) \/ AdminSwap(a))
    BY <1>4, CandidateSteps, AdminSwapSteps
<1>5. CASE Tick \/ Shutdown
    BY <1>5, TickSteps, ShutdownSteps
<1>6. QED
    BY <1>1, <1>2, <1>3, <1>4, <1>5 DEF Next

\* What a request was just given, or searches on, is routed or retired, so it
\* is neither closed nor about to be.
LEMMA InvariantIsConsistent == ASSUME PoolIInv PROVE PoolIsConsistent
<1>1. \A r \in Requests : req[r].pc \in {"handoff", "active"} => req[r].svc \in Routed \cup Retired
    BY DEF PoolIInv, InUse, Safe, Retired
<1>2. (Routed \cup Retired) \cap (closed \cup Closing \cup lost) = {}
    BY DEF PoolIInv, EachServiceInOnePlace
<1>3. NoCloseInUse
    BY <1>1, <1>2 DEF NoCloseInUse
<1>4. QED
    BY <1>3 DEF PoolIsConsistent, PoolIInv

\* The inductive invariant of TenantServicePool.
THEOREM PoolInvariance == Spec => []PoolIInv
<1>1. Init => PoolIInv
    BY PoolStarts
<1>2. PoolIInv /\ [Next]_vars => PoolIInv'
    BY PoolSteps
<1>3. QED
    BY <1>1, <1>2, PTL DEF Spec

\* For any tenants, request threads, cache size and grace: a service is in one
\* place, is closed at most once, and is not closed in the hand-off of `get`
\* or under a running search, provided the hand-off is shorter than the grace.
THEOREM PoolHolds == Spec => []PoolIsConsistent
<1>1. PoolIInv => PoolIsConsistent
    BY InvariantIsConsistent
<1>2. QED
    BY <1>1, PoolInvariance, PTL

\* A cache miss leaves at most max_services loaded, however far the swaps of
\* the admin operations went beyond the bound before.
THEOREM MissesRestoreBound == Spec => MissRestoresBound
<1> DEFINE Loads == \E t \in Tenants : routed[t] = NoService /\ routed'[t] # NoService
<1>1. ASSUME PoolIInv, [Next]_vars, Loads, admin' = admin PROVE Len(order') <= MaxServices
  <2>1. PICK t \in Tenants : routed[t] = NoService /\ routed'[t] # NoService
    BY <1>1
  <2>2. CASE UNCHANGED vars
    BY <2>1, <2>2 DEF vars
  <2>3. CASE \E r \in Requests : RequestStep(r)
    BY <2>1, <2>3 DEF RequestStep, CloseOne, BeginSearch, NoSearch, EndSearch, Respond
  <2>4. CASE \E r \in Requests, u \in Tenants : GetHit(r, u) \/ GetFails(r, u)
    BY <2>1, <2>4 DEF GetHit, GetFails
  <2>5. CASE \E r \in Requests, u \in Tenants : GetMiss(r, u)
    BY <1>1, <2>5, Evicted DEF GetMiss
  <2>6. CASE \E u \in Tenants : AdminBuild(u)
    BY <2>1, <2>6 DEF AdminBuild
  <2>7. CASE \E a \in admin : AdminRejects(a) \/ AdminSwap(a)
    BY <1>1, <2>7 DEF AdminRejects, AdminSwap
  <2>8. CASE Tick
    BY <2>1, <2>8 DEF Tick
  <2>9. CASE Shutdown
    BY <2>1, <2>9 DEF Shutdown
  <2>10. QED
    BY <1>1, <2>2, <2>3, <2>4, <2>5, <2>6, <2>7, <2>8, <2>9 DEF Next, Get
<1>2. PoolIInv /\ [Next]_vars => [Loads /\ admin' = admin => Len(order') <= MaxServices]_vars
    BY <1>1
<1>3. QED
    BY <1>2, PoolInvariance, PTL DEF Spec, MissRestoresBound
=============================================================================
