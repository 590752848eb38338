----------------------- MODULE AnalyticsSpool_proofs -----------------------
(***************************************************************************)
(* The spool and its uploaders implement AnalyticsDelivery, and the stores *)
(* account for every event, for any events, stores, uploaders, queue       *)
(* capacity and batch size.                                                *)
(***************************************************************************)
EXTENDS AnalyticsSpool, FiniteSetTheorems, FunctionTheorems, TLAPS

USE CapacityAssumption, BatchSizeAssumption, StopAssumption

\* What DeliveryInv says of the database and of the stores.
DatabaseInv == DatabaseTypes /\ IdsAreUnique /\ SentIsCommitted /\ OneRowAtMost
StoreInv == StoreTypes /\ UnspooledIsUnplaced /\ HeldOnce

\* DeliveryInv is the conjunction of the two.
LEMMA InvSplits == DeliveryInv <=> DatabaseInv /\ StoreInv
  BY DEF DeliveryInv, DatabaseInv, StoreInv

\* A step that leaves the database alone keeps what the invariant says of it.
LEMMA DatabaseUnchanged ==
    ASSUME DatabaseInv, UNCHANGED database
    PROVE  DatabaseInv' /\ \A e \in Events : Placed(e)' <=> Placed(e)
  <1>1. Rows' = Rows
    BY DEF database, Rows
  <1> QED BY <1>1 DEF DatabaseInv, database, DatabaseTypes, IdsAreUnique,
                      SentIsCommitted, OneRowAtMost, Placed

-----------------------------------------------------------------------------
(* The stores. *)

\* The steps that change neither the queues, the workers nor the submits.
LEMMA QuietStep ==
    ASSUME DeliveryInv, UNCHANGED <<queue, worker, submit, target, database>>
    PROVE  DeliveryInv'
  <1>1. DatabaseInv' /\ \A e \in Events : Placed(e)' <=> Placed(e)
    BY InvSplits, DatabaseUnchanged
  <1>2. StoreInv'
    BY <1>1, InvSplits DEF StoreInv, StoreTypes, UnspooledIsUnplaced, HeldOnce, Held
  <1> QED BY <1>1, <1>2, InvSplits DEF DatabaseInv, StoreInv, DeliveryInv

\* submit counts or refuses the event: nothing of it is held yet.
LEMMA SubmitCheckKeeps ==
    ASSUME DeliveryInv, NEW s \in Stores, NEW e \in Events, SubmitCheck(e, s)
    PROVE  DeliveryInv'
  <1>1. DatabaseInv' /\ \A d \in Events : Placed(d)' <=> Placed(d)
    BY InvSplits, DatabaseUnchanged DEF SubmitCheck
  <1>2. StoreTypes' /\ submit'[e] \in {"counted", "refused"}
    BY DEF DeliveryInv, StoreTypes, SubmitCheck
  <1>3. /\ \A d \in Events \ {e} : submit'[d] = submit[d] /\ target'[d] = target[d]
        /\ submit[e] = "new" /\ UNCHANGED <<queue, worker>>
    BY DEF DeliveryInv, StoreTypes, SubmitCheck
  <1>4. \A t \in Stores : ~Held(e, t)
    BY <1>3 DEF DeliveryInv, UnspooledIsUnplaced
  <1>5. UnspooledIsUnplaced'
    BY <1>1, <1>2, <1>3, <1>4 DEF DeliveryInv, UnspooledIsUnplaced, Held
  <1>6. HeldOnce'
    BY <1>3 DEF DeliveryInv, HeldOnce
  <1> QED BY <1>1, <1>2, <1>5, <1>6 DEF DatabaseInv, DeliveryInv

\* The event is put at the end of the queue, or dropped.
LEMMA SubmitPutKeeps ==
    ASSUME DeliveryInv, NEW s \in Stores, NEW e \in Events, SubmitPut(e, s)
    PROVE  DeliveryInv'
  <1>1. DatabaseInv' /\ \A d \in Events : Placed(d)' <=> Placed(d)
    BY InvSplits, DatabaseUnchanged DEF SubmitPut
  <1>2. /\ submit[e] = "counted" /\ target[e] = s /\ UNCHANGED <<worker, target>>
        /\ StoreTypes
    BY DEF DeliveryInv, SubmitPut
  <1>3. /\ \A t \in Stores : ~Held(e, t)
        /\ ~Placed(e)
    BY <1>2 DEF DeliveryInv, UnspooledIsUnplaced
  <1>4. CASE Enqueue(e, s)
    <2>1. /\ queue' = [queue EXCEPT ![s] = Append(queue[s], e)]
          /\ submit' = [submit EXCEPT ![e] = "accepted"]
      BY <1>4 DEF Enqueue
    <2>2. StoreTypes'
      BY <1>2, <2>1 DEF StoreTypes
    <2>3. \A d \in Events, t \in Stores : Held(d, t)' => Held(d, t) \/ (d = e /\ t = s)
      BY <1>2, <2>1 DEF StoreTypes, Held
    <2>4. UnspooledIsUnplaced'
      BY <1>1, <1>2, <1>3, <2>1, <2>3 DEF DeliveryInv, UnspooledIsUnplaced, StoreTypes
    <2>5. HeldOnce'
      BY <1>2, <1>3, <2>1 DEF DeliveryInv, HeldOnce, StoreTypes, Held
    <2> QED BY <1>1, <2>2, <2>4, <2>5 DEF DatabaseInv, DeliveryInv
  <1>5. CASE submit' = [submit EXCEPT ![e] = "refused"] /\ UNCHANGED queue
    <2>1. StoreTypes'
      BY <1>2, <1>5 DEF StoreTypes
    <2>2. UnspooledIsUnplaced'
      BY <1>1, <1>2, <1>3, <1>5 DEF DeliveryInv, UnspooledIsUnplaced, StoreTypes, Held
    <2>3. HeldOnce'
      BY <1>2, <1>5 DEF DeliveryInv, HeldOnce
    <2> QED BY <1>1, <2>1, <2>2, <2>3 DEF DatabaseInv, DeliveryInv
  <1> QED BY <1>4, <1>5 DEF SubmitPut

\* The worker takes the head of the queue.
LEMMA WorkerGetKeeps ==
    ASSUME DeliveryInv, NEW s \in Stores, WorkerGet(s)
    PROVE  DeliveryInv'
  <1>1. DatabaseInv' /\ \A d \in Events : Placed(d)' <=> Placed(d)
    BY InvSplits, DatabaseUnchanged DEF WorkerGet
  <1> DEFINE q == queue[s]
             w == IF Head(q) = Stop THEN "stopped" ELSE Head(q)
  <1>2. /\ queue' = [queue EXCEPT ![s] = Tail(q)]
        /\ worker' = [worker EXCEPT ![s] = w]
        /\ UNCHANGED <<submit, target>>
        /\ q # <<>>
    BY DEF WorkerGet, submits
  <1>3. StoreTypes /\ q \in Seq(Events \cup {Stop})
    BY DEF DeliveryInv, StoreTypes
  <1>4. Head(q) = q[1] /\ q[1] \in Events \cup {Stop} /\ 1 \in DOMAIN q
    BY <1>2, <1>3
  <1>5. /\ Tail(q) \in Seq(Events \cup {Stop})
        /\ \A i \in DOMAIN Tail(q) : i + 1 \in DOMAIN q /\ i + 1 # 1 /\ Tail(q)[i] = q[i + 1]
        /\ DOMAIN Tail(q) \subseteq Nat
    BY <1>2, <1>3
  <1>6. w \in Events \cup {"stopped"} /\ (w \in Events => w = q[1])
    BY <1>4
  <1> HIDE DEF w
  <1>7. StoreTypes'
    BY <1>2, <1>3, <1>5, <1>6 DEF StoreTypes
  <1>8. \A d \in Events, t \in Stores : Held(d, t)' => Held(d, t)
    BY <1>2, <1>3, <1>4, <1>5, <1>6 DEF StoreTypes, Held
  <1>9. UnspooledIsUnplaced'
    BY <1>1, <1>2, <1>8 DEF DeliveryInv, UnspooledIsUnplaced
  <1>10. HeldOnce'
    <2> SUFFICES ASSUME NEW t \in Stores,
                        NEW i \in DOMAIN queue'[t], NEW j \in DOMAIN queue'[t],
                        queue'[t][i] \in Events
                 PROVE  /\ queue'[t][i] = queue'[t][j] => i = j
                        /\ queue'[t][i] # worker'[t]
      BY DEF HeldOnce
    <2>1. CASE t # s
      BY <1>2, <1>3, <2>1 DEF DeliveryInv, HeldOnce, StoreTypes
    <2>2. CASE t = s
      <3>1. queue'[t] = Tail(q) /\ worker'[t] = w
        BY <1>2, <1>3, <2>2 DEF StoreTypes
      <3>2. /\ Tail(q)[i] = q[i + 1] /\ Tail(q)[j] = q[j + 1]
            /\ i + 1 \in DOMAIN q /\ j + 1 \in DOMAIN q /\ i \in Nat /\ j \in Nat
            /\ i + 1 # 1
        BY <1>5, <3>1
      <3>3. /\ q[i + 1] = q[j + 1] => i + 1 = j + 1
            /\ q[i + 1] # q[1]
        BY <1>4, <3>1, <3>2 DEF DeliveryInv, HeldOnce
      <3>4. w # q[i + 1]
        BY <1>6, <3>1, <3>2, <3>3
      <3> QED BY <3>1, <3>2, <3>3, <3>4
    <2> QED BY <2>1, <2>2
  <1> QED BY <1>1, <1>7, <1>9, <1>10 DEF DatabaseInv, DeliveryInv

\* The write fails: the event is held no more.
LEMMA WorkerFailsKeeps ==
    ASSUME DeliveryInv, NEW s \in Stores, NEW e \in Events, WorkerFails(s, e)
    PROVE  DeliveryInv'
  <1>1. DatabaseInv' /\ \A d \in Events : Placed(d)' <=> Placed(d)
    BY InvSplits, DatabaseUnchanged DEF WorkerFails
  <1>2. /\ worker[s] = e /\ worker' = [worker EXCEPT ![s] = "idle"]
        /\ submit' = [submit EXCEPT ![e] = "failed"]
        /\ UNCHANGED <<queue, target>> /\ StoreTypes
    BY DEF WorkerFails, DeliveryInv
  <1>3. StoreTypes'
    BY <1>2 DEF StoreTypes
  <1>4. \A d \in Events, t \in Stores : Held(d, t)' => Held(d, t) /\ d # e
    <2>1. target[e] = s /\ \A t \in Stores : Held(e, t) => t = s
      BY <1>2 DEF DeliveryInv, UnspooledIsUnplaced, Held
    <2>2. \A i \in DOMAIN queue[s] : queue[s][i] # e
      BY <1>2 DEF DeliveryInv, HeldOnce
    <2> QED BY <1>2, <2>1, <2>2 DEF Held, StoreTypes
  <1>5. UnspooledIsUnplaced'
    BY <1>1, <1>2, <1>4 DEF DeliveryInv, UnspooledIsUnplaced, StoreTypes
  <1>6. HeldOnce'
    BY <1>2 DEF DeliveryInv, HeldOnce, StoreTypes
  <1> QED BY <1>1, <1>3, <1>5, <1>6 DEF DatabaseInv, DeliveryInv

\* The stop mark is no event.
LEMMA PutStopKeeps ==
    ASSUME DeliveryInv, NEW s \in Stores, PutStop(s)
    PROVE  DeliveryInv'
  <1>1. CASE UNCHANGED queue
    BY <1>1, QuietStep DEF PutStop, submits
  <1>2. CASE queue' = [queue EXCEPT ![s] = Append(queue[s], Stop)]
    <2>1. DatabaseInv' /\ \A d \in Events : Placed(d)' <=> Placed(d)
      BY InvSplits, DatabaseUnchanged DEF PutStop
    <2>2. UNCHANGED <<worker, submit, target>> /\ StoreTypes
      BY DEF PutStop, submits, DeliveryInv
    <2>3. StoreTypes'
      BY <1>2, <2>2 DEF StoreTypes
    <2>4. \A d \in Events, t \in Stores : Held(d, t)' => Held(d, t)
      BY <1>2, <2>2 DEF StoreTypes, Held
    <2>5. UnspooledIsUnplaced'
      BY <2>1, <2>2, <2>4 DEF DeliveryInv, UnspooledIsUnplaced
    <2>6. HeldOnce'
      BY <1>2, <2>2 DEF DeliveryInv, HeldOnce, StoreTypes
    <2> QED BY <2>1, <2>3, <2>5, <2>6 DEF DatabaseInv, DeliveryInv
  <1> QED BY <1>1, <1>2 DEF PutStop

\* After the end of the process no store holds anything.
LEMMA CrashKeeps ==
    ASSUME DeliveryInv, Crash
    PROVE  DeliveryInv'
  <1>1. DatabaseInv' /\ \A d \in Events : Placed(d)' <=> Placed(d)
    BY InvSplits, DatabaseUnchanged DEF Crash
  <1>2. /\ StoreTypes /\ UNCHANGED target
        /\ queue' = [t \in Stores |-> <<>>]
        /\ worker' = [t \in Stores |-> IF phase[t] = "unborn" THEN worker[t] ELSE "stopped"]
        /\ submit' = [d \in Events |-> IF submit[d] = "counted" THEN "gone" ELSE submit[d]]
    BY DEF Crash, DeliveryInv
  <1>3. StoreTypes'
    BY <1>2 DEF StoreTypes
  <1>4. \A d \in Events, t \in Stores : Held(d, t)' => Held(d, t)
    BY <1>2 DEF Held, StoreTypes
  <1>5. UnspooledIsUnplaced'
    BY <1>1, <1>2, <1>4 DEF DeliveryInv, UnspooledIsUnplaced, StoreTypes
  <1>6. HeldOnce'
    BY <1>2 DEF HeldOnce
  <1> QED BY <1>1, <1>3, <1>5, <1>6 DEF DatabaseInv, DeliveryInv

\* The event the worker held is a row with a new id.
LEMMA WorkerSpoolsKeeps ==
    ASSUME DeliveryInv, NEW s \in Stores, NEW e \in Events, WorkerSpools(s, e)
    PROVE  /\ DeliveryInv'
           /\ ~InFile(e) /\ rows[e] = 0 /\ UNCHANGED rows
           /\ \A d \in Events : InFile(d)' <=> InFile(d) \/ d = e
  <1> DEFINE new == [id |-> lastId + 1, event |-> e]
  <1>1. /\ Held(e, s) /\ submit[e] = "accepted" /\ target[e] = s
        /\ ~Placed(e) /\ StoreTypes /\ DatabaseTypes
    BY DEF WorkerSpools, DeliveryInv, UnspooledIsUnplaced, Held
  <1>2. ~InFile(e) /\ rows[e] = 0
    BY <1>1 DEF Placed, Rows, InFile
  <1>3. /\ file' = file \cup {new} /\ lastId' = lastId + 1
        /\ worker' = [worker EXCEPT ![s] = "idle"] /\ worker[s] = e
        /\ UNCHANGED <<queue, submit, target, rows, up>>
    BY <1>2 DEF WorkerSpools, NextId, submits
  <1>4. new \in Row /\ new.id = lastId + 1 /\ new.event = e
    BY <1>1 DEF DatabaseTypes, Row
  <1> HIDE DEF new
  <1>5. DatabaseTypes' /\ StoreTypes'
    BY <1>1, <1>3, <1>4 DEF DatabaseTypes, StoreTypes
  <1>6. Rows' = Rows \cup {new}
    BY <1>3 DEF Rows
  <1>7. Rows \subseteq Row
    BY <1>1 DEF Rows, DatabaseTypes
  <1>8. IdsAreUnique'
    BY <1>1, <1>3, <1>4, <1>6, <1>7 DEF DeliveryInv, IdsAreUnique, DatabaseTypes, Row
  <1>9. SentIsCommitted' /\ OneRowAtMost'
    BY <1>3 DEF DeliveryInv, SentIsCommitted, OneRowAtMost
  <1>10. \A d \in Events : Placed(d)' <=> Placed(d) \/ d = e
    BY <1>3, <1>4, <1>6 DEF Placed
  <1>11. \A d \in Events, t \in Stores : Held(d, t)' => Held(d, t) /\ d # e
    <2>1. \A t \in Stores : Held(e, t) => t = s
      BY <1>1 DEF DeliveryInv, UnspooledIsUnplaced
    <2>2. \A i \in DOMAIN queue[s] : queue[s][i] # e
      BY <1>3 DEF DeliveryInv, HeldOnce
    <2> QED BY <1>1, <1>3, <2>1, <2>2 DEF Held, StoreTypes
  <1>12. UnspooledIsUnplaced'
    BY <1>1, <1>3, <1>10, <1>11 DEF DeliveryInv, UnspooledIsUnplaced
  <1>13. HeldOnce'
    BY <1>1, <1>3 DEF DeliveryInv, HeldOnce, StoreTypes
  <1>14. \A d \in Events : InFile(d)' <=> InFile(d) \/ d = e
    BY <1>3, <1>4 DEF InFile
  <1> QED BY <1>2, <1>3, <1>5, <1>8, <1>9, <1>12, <1>13, <1>14 DEF DeliveryInv

-----------------------------------------------------------------------------
(* The uploaders. *)

\* A delivery step shows no row that was not there, and gives a row in the
\* database only to events that have one in the file or in a batch.
LEMMA DeliveryStep ==
    ASSUME DeliveryInv, UNCHANGED <<stores, submits, lastId>>,
           DatabaseTypes', SentIsCommitted', OneRowAtMost',
           Rows' \subseteq Rows,
           \A e \in Events : rows'[e] # 0 => Placed(e)
    PROVE  DeliveryInv'
  <1>1. \A e \in Events : Placed(e)' => Placed(e)
    BY DEF Placed
  <1>2. UNCHANGED <<queue, worker, submit, target>>
    BY DEF stores, submits
  <1>3. StoreTypes' /\ HeldOnce'
    BY <1>2 DEF DeliveryInv, StoreTypes, HeldOnce
  <1>4. UnspooledIsUnplaced'
    BY <1>1, <1>2 DEF DeliveryInv, UnspooledIsUnplaced, Held
  <1>5. IdsAreUnique'
    BY DEF DeliveryInv, IdsAreUnique
  <1> QED BY <1>3, <1>4, <1>5 DEF DeliveryInv

\* The steps that change one uploader's own state, to a batch of the file's
\* rows that is not about to be deleted.
LEMMA UploaderStep ==
    ASSUME DeliveryInv, UNCHANGED <<stores, submits, file, lastId, rows>>,
           NEW u \in Uploaders,
           NEW x \in [pc : {"idle", "select", "write"}, cutoff : Nat, batch : SUBSET file],
           up' = [up EXCEPT ![u] = x]
    PROVE  DeliveryInv'
  <1>1. file \in SUBSET Row /\ x.batch \subseteq file /\ x.pc # "delete"
    BY DEF DeliveryInv, DatabaseTypes
  <1>2. x \in [pc : {"idle", "select", "write", "delete"}, cutoff : Nat, batch : SUBSET Row]
    BY <1>1
  <1>3. DatabaseTypes'
    BY <1>2 DEF DeliveryInv, DatabaseTypes
  <1>4. /\ up'[u] = x
        /\ \A v \in Uploaders : v # u => up'[v] = up[v]
    BY DEF DeliveryInv, DatabaseTypes
  <1>5. SentIsCommitted' /\ OneRowAtMost'
    BY <1>1, <1>4 DEF DeliveryInv, SentIsCommitted, OneRowAtMost
  <1>6. Rows' \subseteq Rows
    BY <1>1, <1>4 DEF Rows
  <1> QED BY <1>3, <1>5, <1>6, DeliveryStep DEF Placed

\* A delivery starts with the highest id as its cutoff.
LEMMA DeliverBeginKeeps ==
    ASSUME DeliveryInv, NEW u \in Uploaders, DeliverBegin(u)
    PROVE  DeliveryInv'
  <1>1. PICK last \in file :
          up' = [up EXCEPT ![u] = [pc |-> "select", cutoff |-> last.id, batch |-> {}]]
    BY DEF DeliverBegin
  <1>2. last.id \in Nat
    BY DEF DeliveryInv, DatabaseTypes, Row
  <1>3. [pc |-> "select", cutoff |-> last.id, batch |-> {}]
           \in [pc : {"idle", "select", "write"}, cutoff : Nat, batch : SUBSET file]
    BY <1>2
  <1> QED BY <1>1, <1>3, UploaderStep DEF DeliverBegin

\* The batch is taken from the file, or the delivery is over.
LEMMA DeliverSelectKeeps ==
    ASSUME DeliveryInv, NEW u \in Uploaders, DeliverSelect(u)
    PROVE  DeliveryInv'
  <1> DEFINE x == IF Selected(u) = {} THEN IdleUp
                  ELSE [up[u] EXCEPT !.pc = "write", !.batch = Selected(u)]
  <1>1. up' = [up EXCEPT ![u] = x]
    BY DEF DeliverSelect
  <1>2. Selected(u) \subseteq file
    BY DEF Selected, FirstRows
  <1>3. up[u] \in [pc : {"idle", "select", "write", "delete"}, cutoff : Nat,
                   batch : SUBSET Row]
    BY DEF DeliveryInv, DatabaseTypes
  <1>4. x \in [pc : {"idle", "select", "write"}, cutoff : Nat, batch : SUBSET file]
    BY <1>2, <1>3 DEF IdleUp
  <1> HIDE DEF x
  <1> QED BY <1>1, <1>4, UploaderStep DEF DeliverSelect

\* A delivery that dies forgets its batch.
LEMMA DeliverFailsKeeps ==
    ASSUME DeliveryInv, NEW u \in Uploaders, DeliverFails(u)
    PROVE  DeliveryInv'
  <1>1. IdleUp \in [pc : {"idle", "select", "write"}, cutoff : Nat, batch : SUBSET file]
    BY DEF IdleUp
  <1> QED BY <1>1, UploaderStep DEF DeliverFails

\* The events that a commit of u gives their row.
Fresh(u) == {e \in Events : rows[e] = 0 /\ \E r \in up[u].batch : r.event = e}

\* A commit, seen or not, delivers the batch's events that had no row; they
\* are in the file.
LEMMA CommitKeeps ==
    ASSUME DeliveryInv, NEW u \in Uploaders, DeliverCommit(u) \/ DeliverCommitUnseen(u)
    PROVE  /\ DeliveryInv'
           /\ UNCHANGED file
           /\ \A e \in Fresh(u) : InFile(e)
           /\ rows' = [e \in Events |-> IF e \in Fresh(u) THEN 1 ELSE rows[e]]
  <1> DEFINE b == up[u].batch
  <1>1. /\ DatabaseTypes /\ UNCHANGED <<stores, submits, file, lastId>>
        /\ rows' = [e \in Events |-> IF \E r \in b : r.event = e THEN 1 ELSE rows[e]]
    BY DEF DeliverCommit, DeliverCommitUnseen, Upsert, DeliveryInv
  <1>2. b \subseteq Row
    BY <1>1 DEF DatabaseTypes
  <1>3. /\ up' \in [Uploaders -> [pc : {"idle", "select", "write", "delete"}, cutoff : Nat,
                                   batch : SUBSET Row]]
        /\ up'[u].batch \subseteq b
        /\ \A v \in Uploaders : v # u => up'[v] = up[v]
    <2>1. CASE DeliverCommit(u)
      BY <1>1, <2>1 DEF DeliverCommit, DatabaseTypes
    <2>2. CASE DeliverCommitUnseen(u)
      BY <1>1, <2>2 DEF DeliverCommitUnseen, DatabaseTypes, IdleUp
    <2> QED BY <2>1, <2>2
  <1>4. rows' \in [Events -> Nat] /\ OneRowAtMost'
    BY <1>1 DEF DeliveryInv, DatabaseTypes, OneRowAtMost
  <1>5. DatabaseTypes'
    BY <1>1, <1>3, <1>4 DEF DatabaseTypes
  <1>6. SentIsCommitted'
    <2> SUFFICES ASSUME NEW v \in Uploaders, NEW r \in up'[v].batch
                 PROVE  /\ r \in file \/ rows'[r.event] = 1
                        /\ up'[v].pc = "delete" => rows'[r.event] = 1
      BY <1>1 DEF SentIsCommitted
    <2>1. r \in Row /\ r.event \in Events
      BY <1>3 DEF Row
    <2>2. rows[r.event] = 1 => rows'[r.event] = 1
      BY <1>1, <2>1
    <2>3. CASE v = u
      BY <1>1, <1>3, <2>1, <2>3
    <2>4. CASE v # u
      BY <1>3, <2>2, <2>4 DEF DeliveryInv, SentIsCommitted
    <2> QED BY <2>3, <2>4
  <1>7. Rows' \subseteq Rows
    BY <1>1, <1>3 DEF Rows
  <1>8. \A e \in Events : rows'[e] # 0 => Placed(e)
    BY <1>1 DEF Placed, Rows
  <1>9. DeliveryInv'
    BY <1>1, <1>4, <1>5, <1>6, <1>7, <1>8, DeliveryStep
  <1>10. \A e \in Fresh(u) : InFile(e)
    BY DEF Fresh, InFile, DeliveryInv, SentIsCommitted
  <1>11. rows' = [e \in Events |-> IF e \in Fresh(u) THEN 1 ELSE rows[e]]
    <2>1. \A e \in Events : (\E r \in b : r.event = e) => e \in Fresh(u) \/ rows[e] = 1
      BY DEF Fresh, DeliveryInv, OneRowAtMost
    <2>2. \A e \in Fresh(u) : \E r \in b : r.event = e
      BY DEF Fresh
    <2> QED BY <1>1, <2>1, <2>2
  <1> QED BY <1>1, <1>9, <1>10, <1>11

\* The delete removes rows of the batch and no others, as ids are not used
\* twice: all of them are in the database.
LEMMA DeliverDeleteKeeps ==
    ASSUME DeliveryInv, NEW u \in Uploaders, DeliverDelete(u)
    PROVE  /\ DeliveryInv'
           /\ UNCHANGED rows
           /\ \A r \in file \ file' : rows[r.event] = 1
           /\ file' \subseteq file
  <1> DEFINE b == up[u].batch
  <1>1. /\ DatabaseTypes /\ UNCHANGED <<stores, submits, lastId, rows>>
        /\ up[u].pc = "delete"
        /\ file' = {r \in file : r.id \notin {x.id : x \in b}}
        /\ up' = [up EXCEPT ![u] = [up[u] EXCEPT !.pc = "select", !.batch = {}]]
    BY DEF DeliverDelete, DeliveryInv
  <1>2. \A r \in file \ file' : rows[r.event] = 1
    <2> SUFFICES ASSUME NEW r \in file, NEW x \in b, x.id = r.id
                 PROVE  rows[r.event] = 1
      BY <1>1
    <2>1. r \in Rows /\ x \in Rows
      BY DEF Rows
    <2>2. x = r
      BY <2>1 DEF DeliveryInv, IdsAreUnique
    <2> QED BY <1>1, <2>2 DEF DeliveryInv, SentIsCommitted
  <1>3. file' \subseteq file
    BY <1>1
  <1>4. /\ up' \in [Uploaders -> [pc : {"idle", "select", "write", "delete"}, cutoff : Nat,
                                   batch : SUBSET Row]]
        /\ up'[u].batch = {}
        /\ \A v \in Uploaders : v # u => up'[v] = up[v]
    BY <1>1 DEF DatabaseTypes
  <1>5. DatabaseTypes' /\ OneRowAtMost'
    BY <1>1, <1>3, <1>4 DEF DatabaseTypes, DeliveryInv, OneRowAtMost
  <1>6. SentIsCommitted'
    BY <1>1, <1>2, <1>4 DEF DeliveryInv, SentIsCommitted
  <1>7. Rows' \subseteq Rows
    BY <1>3, <1>4 DEF Rows
  <1>8. DeliveryInv'
    BY <1>1, <1>5, <1>6, <1>7, DeliveryStep DEF Placed
  <1> QED BY <1>1, <1>2, <1>3, <1>8

-----------------------------------------------------------------------------
(* The specification. *)

\* At first nothing is held, in the file or in the database.
LEMMA InitDelivery == Init => DeliveryInv
  <1> SUFFICES ASSUME Init PROVE DeliveryInv
    OBVIOUS
  <1>1. Rows = {}
    BY DEF Init, Rows, IdleUp
  <1>2. StoreTypes /\ DatabaseTypes
    BY DEF Init, StoreTypes, DatabaseTypes, IdleUp
  <1>3. \A e \in Events : ~Placed(e) /\ \A s \in Stores : ~Held(e, s)
    BY <1>1, StopAssumption DEF Init, Placed, Held
  <1>4. UnspooledIsUnplaced
    BY <1>3 DEF UnspooledIsUnplaced
  <1>5. HeldOnce
    BY DEF Init, HeldOnce
  <1>6. IdsAreUnique
    BY <1>1 DEF IdsAreUnique
  <1>7. SentIsCommitted /\ OneRowAtMost
    BY DEF Init, SentIsCommitted, OneRowAtMost, IdleUp
  <1> QED BY <1>2, <1>4, <1>5, <1>6, <1>7 DEF DeliveryInv

\* The state function that stands for AnalyticsDelivery's pending.
Pending == {e \in Events : InFile(e) /\ rows[e] = 0}

\* Every step keeps the invariant, and is a step of AnalyticsDelivery or
\* leaves its variables alone.
LEMMA StepDelivers ==
    ASSUME DeliveryInv, [Next]_vars
    PROVE  DeliveryInv' /\ (Delivery!Next \/ UNCHANGED <<Pending, rows>>)
  <1> DEFINE Quiet == UNCHANGED <<file, rows>>
  <1>1. Quiet => UNCHANGED <<Pending, rows>>
    BY DEF Pending, InFile
  <1>2. CASE UNCHANGED vars
    <2>1. UNCHANGED <<queue, worker, submit, target, database>> /\ Quiet
      BY <1>2 DEF vars, stores, submits, database
    <2> QED BY <1>1, <2>1, QuietStep
  <1>3. ASSUME NEW s \in Stores, StoreStep(s)
        PROVE  DeliveryInv' /\ (Delivery!Next \/ UNCHANGED <<Pending, rows>>)
    <2>1. CASE Open(s) \/ CloseBegin(s) \/ FlushEnds(s)
      <3>1. UNCHANGED <<queue, worker, submit, target, database>> /\ Quiet
        BY <2>1 DEF Open, CloseBegin, FlushEnds, submits, database
      <3> QED BY <1>1, <3>1, QuietStep
    <2>2. CASE WorkerGet(s)
      <3>1. Quiet
        BY <2>2 DEF WorkerGet, database
      <3> QED BY <1>1, <2>2, <3>1, WorkerGetKeeps
    <2>3. CASE PutStop(s)
      <3>1. Quiet
        BY <2>3 DEF PutStop, database
      <3> QED BY <1>1, <2>3, <3>1, PutStopKeeps
    <2>4. ASSUME NEW e \in Events, SubmitCheck(e, s) \/ SubmitPut(e, s) \/ WorkerFails(s, e)
          PROVE  DeliveryInv' /\ UNCHANGED <<Pending, rows>>
      <3>1. Quiet
        BY <2>4 DEF SubmitCheck, SubmitPut, WorkerFails, database
      <3> QED BY <1>1, <2>4, <3>1, SubmitCheckKeeps, SubmitPutKeeps, WorkerFailsKeeps
    <2>5. ASSUME NEW e \in Events, WorkerSpools(s, e)
          PROVE  DeliveryInv' /\ Delivery!Next
      <3>1. /\ DeliveryInv' /\ ~InFile(e) /\ rows[e] = 0 /\ UNCHANGED rows
            /\ \A d \in Events : InFile(d)' <=> InFile(d) \/ d = e
        BY <2>5, WorkerSpoolsKeeps
      <3>2. e \notin Pending /\ Pending' = Pending \cup {e}
        BY <3>1 DEF Pending
      <3>3. Delivery!Accept(e)
        BY <3>1, <3>2 DEF Delivery!Accept, Pending
      <3> QED BY <3>1, <3>3 DEF Delivery!Next
    <2> QED BY <1>3, <2>1, <2>2, <2>3, <2>4, <2>5 DEF StoreStep
  <1>4. CASE Crash
    <2>1. Quiet
      BY <1>4 DEF Crash, database
    <2> QED BY <1>1, <1>4, <2>1, CrashKeeps
  <1>5. ASSUME NEW u \in Uploaders, DeliverStep(u)
        PROVE  DeliveryInv' /\ (Delivery!Next \/ UNCHANGED <<Pending, rows>>)
    <2>1. CASE DeliverBegin(u) \/ DeliverSelect(u) \/ DeliverFails(u)
      <3>1. Quiet
        BY <2>1 DEF DeliverBegin, DeliverSelect, DeliverFails
      <3> QED BY <1>1, <2>1, <3>1, DeliverBeginKeeps, DeliverSelectKeeps, DeliverFailsKeeps
    <2>2. CASE DeliverCommit(u) \/ DeliverCommitUnseen(u)
      <3>1. /\ DeliveryInv' /\ UNCHANGED file
            /\ \A e \in Fresh(u) : InFile(e)
            /\ rows' = [e \in Events |-> IF e \in Fresh(u) THEN 1 ELSE rows[e]]
        BY <2>2, CommitKeeps
      <3>2. Fresh(u) \subseteq Pending /\ Fresh(u) \in SUBSET Events
        BY <3>1 DEF Fresh, Pending
      <3>3. Pending' = Pending \ Fresh(u)
        BY <3>1 DEF Pending, InFile
      <3>4. PICK batch \in SUBSET Events : batch = Fresh(u)
        BY <3>2
      <3>5. Delivery!Deliver(batch)
        BY <3>1, <3>2, <3>3, <3>4 DEF Delivery!Deliver, Pending
      <3>6. Delivery!Next
        BY <3>5 DEF Delivery!Next
      <3> QED BY <3>1, <3>6
    <2>3. CASE DeliverDelete(u)
      <3>1. /\ DeliveryInv' /\ UNCHANGED rows /\ file' \subseteq file
            /\ \A r \in file \ file' : rows[r.event] = 1
        BY <2>3, DeliverDeleteKeeps
      <3>2. Pending' = Pending
        BY <3>1 DEF Pending, InFile
      <3> QED BY <3>1, <3>2
    <2> QED BY <1>5, <2>1, <2>2, <2>3 DEF DeliverStep
  <1> QED BY <1>2, <1>3, <1>4, <1>5 DEF Next

\* DeliveryInv holds in every reachable state of the spool.
THEOREM DeliveryInvariance == Spec => []DeliveryInv
  <1>1. DeliveryInv /\ [Next]_vars => DeliveryInv'
    BY StepDelivers
  <1> QED BY InitDelivery, <1>1, PTL DEF Spec

\* write_search_analytics_events and deliver_search_analytics_spool deliver
\* what is in the file exactly once, whatever overlaps, dies or loses the
\* answer to its commit: the spool implements AnalyticsDelivery.
THEOREM SpoolDeliversOnce == Spec => DeliversOnce
  <1>1. Init => Delivery!Init
    BY DEF Init, Delivery!Init, InFile
  <1>2. DeliveryInv /\ [Next]_vars => [Delivery!Next]_(Delivery!vars)
    BY StepDelivers DEF Delivery!vars, Pending
  <1> QED BY DeliveryInvariance, <1>1, <1>2, PTL DEF Spec, DeliversOnce, Delivery!Spec

-----------------------------------------------------------------------------
(* The books of the stores. *)

\* What Balance adds up: the queued events, the one in work, and those
\* between submit's two steps.
Queued(s) == {i \in DOMAIN queue[s] : queue[s][i] # Stop}
InWork(s) == {worker[s]} \cap Events
Counted(s) == {e \in Events : submit[e] = "counted" /\ target[e] = s}

\* status() of one store.
Balance(s) ==
    count[s].submitted =
        count[s].spooled + count[s].failed + count[s].dropped
        + Cardinality(Queued(s)) + Cardinality(InWork(s)) + Cardinality(Counted(s))

\* The part of TypeOK that DeliveryInv does not have.
BookTypes ==
    /\ phase \in [Stores -> {"unborn", "open", "flush", "stop", "closed", "dead"}]
    /\ \A s \in Stores : Len(queue[s]) <= Capacity
    /\ timedOut \in SUBSET Stores
    /\ count \in [Stores -> [submitted : Nat, spooled : Nat, failed : Nat, dropped : Nat]]
    /\ late \in SUBSET Events

\* The stop mark is put last, so a store that is not closed has none and its
\* worker runs.
StopsWhenClosed ==
    \A s \in Stores : phase[s] \notin {"closed", "dead"} =>
        worker[s] # "stopped" /\ \A i \in DOMAIN queue[s] : queue[s][i] # Stop

\* Events are submitted to stores that exist.
SentToBorn ==
    \A e \in Events : submit[e] \in {"counted", "accepted"} =>
        target[e] \in Stores /\ phase[target[e]] # "unborn"

\* Finitely many calls of submit are under way, however many events there are.
CountedIsFinite == \A s \in Stores : IsFiniteSet(Counted(s))

\* The inductive invariant of the books.
SpoolIInv ==
    /\ DeliveryInv
    /\ BookTypes
    /\ StopsWhenClosed
    /\ SentToBorn
    /\ CountedIsFinite
    /\ AcceptedIsAccountedFor
    /\ CountersAddUp

\* CountersAddUp in these words.
LEMMA BooksBalance == CountersAddUp <=> \A s \in Stores : phase[s] # "dead" => Balance(s)
  BY DEF CountersAddUp, Balance, Queued, InWork, Counted

\* Putting an item at the end of a queue adds one event, or none if it is the
\* stop mark.
LEMMA QueuedAppend ==
    ASSUME NEW q \in Seq(Events \cup {Stop}), NEW x \in Events \cup {Stop},
           NEW S, S = {i \in DOMAIN q : q[i] # Stop},
           NEW T, T = {i \in DOMAIN Append(q, x) : Append(q, x)[i] # Stop}
    PROVE  /\ IsFiniteSet(S) /\ Cardinality(S) \in Nat
           /\ Cardinality(T) = IF x = Stop THEN Cardinality(S) ELSE Cardinality(S) + 1
  <1>1. DOMAIN q = 1 .. Len(q) /\ Len(q) \in Nat
    OBVIOUS
  <1>2. IsFiniteSet(1 .. Len(q))
    BY <1>1, FS_Interval
  <1>3. IsFiniteSet(S) /\ Cardinality(S) \in Nat
    BY <1>1, <1>2, FS_Subset, FS_CardinalityType
  <1>4. /\ DOMAIN Append(q, x) = 1 .. (Len(q) + 1)
        /\ \A i \in 1 .. Len(q) : Append(q, x)[i] = q[i]
        /\ Append(q, x)[Len(q) + 1] = x
    BY <1>1
  <1>5. T = IF x = Stop THEN S ELSE S \cup {Len(q) + 1}
    BY <1>1, <1>4
  <1>6. Len(q) + 1 \notin S
    BY <1>1
  <1> QED BY <1>3, <1>5, <1>6, FS_AddElement

\* Taking the head of a queue takes one event, or none if it is the stop mark.
LEMMA QueuedTail ==
    ASSUME NEW q \in Seq(Events \cup {Stop}), q # <<>>,
           NEW S, S = {i \in DOMAIN q : q[i] # Stop},
           NEW T, T = {i \in DOMAIN Tail(q) : Tail(q)[i] # Stop}
    PROVE  /\ Cardinality(S) \in Nat /\ Cardinality(T) \in Nat
           /\ Cardinality(S) = IF Head(q) = Stop THEN Cardinality(T) ELSE Cardinality(T) + 1
  <1>1. /\ DOMAIN q = 1 .. Len(q) /\ Len(q) \in Nat \ {0}
        /\ DOMAIN Tail(q) = 1 .. (Len(q) - 1)
        /\ \A i \in 1 .. (Len(q) - 1) : Tail(q)[i] = q[i + 1]
        /\ Head(q) = q[1]
    OBVIOUS
  <1>2. IsFiniteSet(1 .. Len(q)) /\ IsFiniteSet(1 .. (Len(q) - 1))
    BY <1>1, FS_Interval
  <1>3. /\ IsFiniteSet(S) /\ Cardinality(S) \in Nat
        /\ IsFiniteSet(T) /\ Cardinality(T) \in Nat
    BY <1>1, <1>2, FS_Subset, FS_CardinalityType
  <1> DEFINE f == [i \in T |-> i + 1]
  <1>4. \A i \in T : i \in Nat /\ i + 1 \in S \ {1}
    BY <1>1
  <1>5. \A j \in S \ {1} : j - 1 \in T /\ (j - 1) + 1 = j
    BY <1>1
  <1>6. f \in Bijection(T, S \ {1})
    <2>1. f \in [T -> S \ {1}]
      BY <1>4
    <2>2. \A i, j \in T : f[i] = f[j] => i = j
      BY <1>4
    <2>3. \A j \in S \ {1} : \E i \in T : f[i] = j
      BY <1>5
    <2> QED BY <2>1, <2>2, <2>3, Fun_IsBij
  <1>7. Cardinality(S \ {1}) = Cardinality(T)
    BY <1>3, <1>6, FS_Bijection DEF ExistsBijection
  <1>8. 1 \in S <=> Head(q) # Stop
    BY <1>1
  <1>9. Cardinality(S \ {1}) = IF 1 \in S THEN Cardinality(S) - 1 ELSE Cardinality(S)
    BY <1>3, FS_RemoveElement
  <1>10. CASE Head(q) = Stop
    BY <1>3, <1>7, <1>8, <1>9, <1>10
  <1>11. CASE Head(q) # Stop
    <2>1. Cardinality(T) = Cardinality(S) - 1
      BY <1>7, <1>8, <1>9, <1>11
    <2>2. PICK a \in Nat, b \in Nat : a = Cardinality(S) /\ b = Cardinality(T)
      BY <1>3
    <2>3. a = b + 1
      BY <2>1, <2>2
    <2> QED BY <1>11, <2>2, <2>3
  <1> QED BY <1>3, <1>10, <1>11

\* The steps that change nothing of the stores and the submits.
Uploads == \E u \in Uploaders : DeliverStep(u)

\* A delivery leaves the stores and the submits alone.
LEMMA UploadsAreApart == Uploads => UNCHANGED <<stores, submits>>
  BY DEF Uploads, DeliverStep, DeliverBegin, DeliverSelect, DeliverCommit, DeliverDelete,
         DeliverCommitUnseen, DeliverFails

\* The counters of the stores.
Counts == [submitted : Nat, spooled : Nat, failed : Nat, dropped : Nat]

\* Counting one event changes one counter of one store.
LEMMA OneMore ==
    ASSUME NEW c \in [Stores -> Counts], NEW s \in Stores,
           NEW d,
           \/ d = [c EXCEPT ![s].submitted = @ + 1]
           \/ d = [c EXCEPT ![s].spooled = @ + 1]
           \/ d = [c EXCEPT ![s].failed = @ + 1]
           \/ d = [c EXCEPT ![s].dropped = @ + 1]
    PROVE  /\ d \in [Stores -> Counts]
           /\ \A t \in Stores : t # s => d[t] = c[t]
  <1>1. PICK r \in Counts : r = c[s]
    OBVIOUS
  <1>2. PICK x \in Counts : d = [c EXCEPT ![s] = x]
    <2>1. /\ [r EXCEPT !.submitted = r.submitted + 1] \in Counts
          /\ [r EXCEPT !.spooled = r.spooled + 1] \in Counts
          /\ [r EXCEPT !.failed = r.failed + 1] \in Counts
          /\ [r EXCEPT !.dropped = r.dropped + 1] \in Counts
      BY DEF Counts
    <2> QED BY <1>1, <2>1
  <1> QED BY <1>2

\* The types are kept; the queue's bound is tested by put.
LEMMA TypesKept ==
    ASSUME SpoolIInv, [Next]_vars
    PROVE  BookTypes'
  <1> USE DEF SpoolIInv, BookTypes
  <1>1. StoreTypes
    BY DEF DeliveryInv
  <1>2. CASE UNCHANGED vars \/ Uploads
    BY <1>2, UploadsAreApart DEF vars, stores, submits
  <1>3. ASSUME NEW s \in Stores, Open(s) \/ CloseBegin(s) \/ FlushEnds(s)
        PROVE  BookTypes'
    BY <1>3 DEF Open, CloseBegin, FlushEnds, submits
  <1>4. ASSUME NEW s \in Stores, WorkerGet(s)
        PROVE  BookTypes'
    <2>1. queue[s] \in Seq(Events \cup {Stop}) /\ queue[s] # <<>>
      BY <1>1, <1>4 DEF StoreTypes, WorkerGet
    <2>2. Len(Tail(queue[s])) <= Capacity
      BY <2>1
    <2> QED BY <1>1, <1>4, <2>2 DEF WorkerGet, submits, StoreTypes
  <1>5. ASSUME NEW s \in Stores, PutStop(s)
        PROVE  BookTypes'
    <2>1. queue[s] \in Seq(Events \cup {Stop})
      BY <1>1 DEF StoreTypes
    <2>2. Len(queue[s]) < Capacity => Len(Append(queue[s], Stop)) <= Capacity
      BY <2>1
    <2>3. phase' \in [Stores -> {"unborn", "open", "flush", "stop", "closed", "dead"}]
          /\ timedOut' \in SUBSET Stores
      BY <1>5 DEF PutStop
    <2>4. \A t \in Stores : Len(queue'[t]) <= Capacity
      BY <1>1, <1>5, <2>2 DEF PutStop, StoreTypes
    <2> QED BY <1>5, <2>3, <2>4 DEF PutStop, submits
  <1>6. ASSUME NEW s \in Stores, NEW e \in Events, SubmitCheck(e, s)
        PROVE  BookTypes'
    <2>1. count' \in [Stores -> [submitted : Nat, spooled : Nat, failed : Nat, dropped : Nat]]
      <3>1. count' = [count EXCEPT ![s].submitted = @ + 1] \/ count' = count
        BY <1>6 DEF SubmitCheck
      <3> QED BY <3>1, OneMore DEF Counts
    <2> QED BY <1>6, <2>1 DEF SubmitCheck
  <1>7. ASSUME NEW s \in Stores, NEW e \in Events, SubmitPut(e, s)
        PROVE  BookTypes'
    <2>1. queue[s] \in Seq(Events \cup {Stop})
      BY <1>1 DEF StoreTypes
    <2>2. Len(queue[s]) < Capacity => Len(Append(queue[s], e)) <= Capacity
      BY <2>1
    <2>3. \A t \in Stores : Len(queue'[t]) <= Capacity
      BY <1>1, <1>7, <2>2 DEF SubmitPut, Enqueue, StoreTypes
    <2>4. count' \in [Stores -> [submitted : Nat, spooled : Nat, failed : Nat, dropped : Nat]]
      <3>1. count' = [count EXCEPT ![s].dropped = @ + 1] \/ count' = count
        BY <1>7 DEF SubmitPut, Enqueue
      <3> QED BY <3>1, OneMore DEF Counts
    <2>5. late' \in SUBSET Events
      BY <1>7 DEF SubmitPut, Enqueue
    <2> QED BY <1>7, <2>3, <2>4, <2>5 DEF SubmitPut
  <1>8. ASSUME NEW s \in Stores, NEW e \in Events, WorkerSpools(s, e) \/ WorkerFails(s, e)
        PROVE  BookTypes'
    <2>1. count' \in [Stores -> [submitted : Nat, spooled : Nat, failed : Nat, dropped : Nat]]
      BY <1>8, OneMore DEF WorkerSpools, WorkerFails, Counts
    <2> QED BY <1>8, <2>1 DEF WorkerSpools, WorkerFails, submits
  <1>9. CASE Crash
    <2>1. phase' \in [Stores -> {"unborn", "open", "flush", "stop", "closed", "dead"}]
      BY <1>9 DEF Crash
    <2>2. \A t \in Stores : queue'[t] = <<>>
      BY <1>9 DEF Crash
    <2> QED BY <1>9, <2>1, <2>2 DEF Crash
  <1> QED BY <1>2, <1>3, <1>4, <1>5, <1>6, <1>7, <1>8, <1>9 DEF Next, StoreStep, Uploads

\* Only close puts a stop mark, when it has set the phase, and only the mark
\* stops a worker.
LEMMA StopsKept ==
    ASSUME SpoolIInv, [Next]_vars
    PROVE  StopsWhenClosed'
  <1> USE DEF SpoolIInv, StopsWhenClosed
  <1>1. StoreTypes /\ BookTypes
    BY DEF DeliveryInv
  <1>2. CASE UNCHANGED vars \/ Uploads
    BY <1>2, UploadsAreApart DEF vars, stores
  <1>3. ASSUME NEW s \in Stores, Open(s) \/ CloseBegin(s) \/ FlushEnds(s)
        PROVE  StopsWhenClosed'
    BY <1>1, <1>3 DEF Open, CloseBegin, FlushEnds, BookTypes
  <1>4. ASSUME NEW s \in Stores, WorkerGet(s)
        PROVE  StopsWhenClosed'
    <2>1. queue[s] \in Seq(Events \cup {Stop}) /\ queue[s] # <<>>
      BY <1>1, <1>4 DEF StoreTypes, WorkerGet
    <2>2. /\ Head(queue[s]) = queue[s][1] /\ 1 \in DOMAIN queue[s]
          /\ queue[s][1] \in Events \cup {Stop}
          /\ \A i \in DOMAIN Tail(queue[s]) : /\ i + 1 \in DOMAIN queue[s]
                                              /\ Tail(queue[s])[i] = queue[s][i + 1]
      BY <2>1
    <2> QED BY <1>1, <1>4, <2>2, StopAssumption DEF WorkerGet, StoreTypes
  <1>5. ASSUME NEW s \in Stores, PutStop(s)
        PROVE  StopsWhenClosed'
    BY <1>1, <1>5 DEF PutStop, BookTypes, StoreTypes
  <1>6. ASSUME NEW s \in Stores, NEW e \in Events, SubmitCheck(e, s)
        PROVE  StopsWhenClosed'
    BY <1>6 DEF SubmitCheck
  <1>7. ASSUME NEW s \in Stores, NEW e \in Events, SubmitPut(e, s)
        PROVE  StopsWhenClosed'
    <2>1. queue[s] \in Seq(Events \cup {Stop})
      BY <1>1 DEF StoreTypes
    <2>2. \A i \in DOMAIN Append(queue[s], e) :
             \/ Append(queue[s], e)[i] = e
             \/ i \in DOMAIN queue[s] /\ Append(queue[s], e)[i] = queue[s][i]
      BY <2>1
    <2>3. CASE Enqueue(e, s)
      <3>1. e # Stop
        BY StopAssumption
      <3>2. queue' = [queue EXCEPT ![s] = Append(queue[s], e)]
        BY <2>3 DEF Enqueue
      <3> QED BY <1>1, <1>7, <2>2, <3>1, <3>2 DEF SubmitPut, StoreTypes
    <2>4. CASE UNCHANGED queue
      BY <1>7, <2>4 DEF SubmitPut
    <2> QED BY <1>7, <2>3, <2>4 DEF SubmitPut
  <1>8. ASSUME NEW s \in Stores, NEW e \in Events, WorkerSpools(s, e) \/ WorkerFails(s, e)
        PROVE  StopsWhenClosed'
    BY <1>1, <1>8 DEF WorkerSpools, WorkerFails, StoreTypes
  <1>9. CASE Crash
    <2>1. \A t \in Stores : /\ queue'[t] = <<>>
                            /\ phase'[t] # "dead" => phase[t] = "unborn" /\ worker'[t] = worker[t]
      BY <1>9 DEF Crash
    <2>2. \A t \in Stores : \A i \in DOMAIN queue'[t] : queue'[t][i] # Stop
      BY <2>1
    <2> QED BY <2>1, <2>2
  <1> QED BY <1>2, <1>3, <1>4, <1>5, <1>6, <1>7, <1>8, <1>9 DEF Next, StoreStep, Uploads

\* submit is called on stores that run, and no store is unborn again.
LEMMA SentKept ==
    ASSUME SpoolIInv, [Next]_vars
    PROVE  SentToBorn'
  <1> USE DEF SpoolIInv, SentToBorn
  <1>1. StoreTypes /\ BookTypes
    BY DEF DeliveryInv
  <1>2. CASE UNCHANGED vars \/ Uploads
    BY <1>2, UploadsAreApart DEF vars, stores, submits
  <1>3. ASSUME NEW s \in Stores,
               Open(s) \/ CloseBegin(s) \/ FlushEnds(s) \/ WorkerGet(s) \/ PutStop(s)
        PROVE  SentToBorn'
    BY <1>1, <1>3 DEF Open, CloseBegin, FlushEnds, WorkerGet, PutStop, BookTypes, submits
  <1>4. ASSUME NEW s \in Stores, NEW e \in Events, SubmitCheck(e, s)
        PROVE  SentToBorn'
    BY <1>1, <1>4 DEF SubmitCheck, StoreTypes, Running
  <1>5. ASSUME NEW s \in Stores, NEW e \in Events, SubmitPut(e, s)
        PROVE  SentToBorn'
    BY <1>1, <1>5 DEF SubmitPut, Enqueue, StoreTypes
  <1>6. ASSUME NEW s \in Stores, NEW e \in Events, WorkerSpools(s, e) \/ WorkerFails(s, e)
        PROVE  SentToBorn'
    BY <1>1, <1>6 DEF WorkerSpools, WorkerFails, StoreTypes, submits
  <1>7. CASE Crash
    BY <1>1, <1>7 DEF Crash, BookTypes, StoreTypes
  <1> QED BY <1>2, <1>3, <1>4, <1>5, <1>6, <1>7 DEF Next, StoreStep, Uploads

\* d is in q ahead of the stop mark.
Ahead(d, q) == \E i \in DOMAIN q : q[i] = d /\ \A j \in 1 .. i : q[j] # Stop

\* What is put behind an event does not matter to it.
LEMMA AheadAppend ==
    ASSUME NEW q \in Seq(Events \cup {Stop}), NEW x \in Events \cup {Stop}, NEW d, Ahead(d, q)
    PROVE  Ahead(d, Append(q, x))
  <1>1. PICK i \in DOMAIN q : q[i] = d /\ \A j \in 1 .. i : q[j] # Stop
    BY DEF Ahead
  <1>2. /\ i \in DOMAIN Append(q, x)
        /\ \A j \in 1 .. i : Append(q, x)[j] = q[j]
        /\ Append(q, x)[i] = q[i]
    OBVIOUS
  <1> QED BY <1>1, <1>2 DEF Ahead

\* An event that is put in a queue without a stop mark is ahead of it.
LEMMA AheadLast ==
    ASSUME NEW q \in Seq(Events \cup {Stop}), NEW d \in Events,
           \A i \in DOMAIN q : q[i] # Stop
    PROVE  Ahead(d, Append(q, d))
  <1>1. DOMAIN q = 1 .. Len(q) /\ Len(q) \in Nat
    OBVIOUS
  <1>2. /\ Len(q) + 1 \in DOMAIN Append(q, d) /\ Append(q, d)[Len(q) + 1] = d
        /\ \A j \in 1 .. Len(q) : Append(q, d)[j] = q[j]
    BY <1>1
  <1>3. d # Stop
    BY StopAssumption
  <1>4. \A j \in 1 .. (Len(q) + 1) : j \in 1 .. Len(q) \/ j = Len(q) + 1
    BY <1>1
  <1>5. \A j \in 1 .. (Len(q) + 1) : Append(q, d)[j] # Stop
    BY <1>1, <1>2, <1>3, <1>4
  <1> QED BY <1>2, <1>5 DEF Ahead

\* An event ahead of the stop mark is the head of the queue or stays ahead of
\* it when the head is taken, which is not the stop mark then.
LEMMA AheadTail ==
    ASSUME NEW q \in Seq(Events \cup {Stop}), NEW d, Ahead(d, q)
    PROVE  q # <<>> /\ Head(q) # Stop /\ (Head(q) = d \/ Ahead(d, Tail(q)))
  <1>1. PICK i \in DOMAIN q : q[i] = d /\ \A j \in 1 .. i : q[j] # Stop
    BY DEF Ahead
  <1>2. q # <<>> /\ Head(q) = q[1] /\ i \in 1 .. Len(q) /\ 1 \in 1 .. i
    OBVIOUS
  <1>3. CASE i = 1
    BY <1>1, <1>2, <1>3
  <1>4. CASE i # 1
    <2>1. /\ i - 1 \in DOMAIN Tail(q) /\ Tail(q)[i - 1] = q[i]
          /\ \A j \in 1 .. (i - 1) : j + 1 \in 1 .. i /\ Tail(q)[j] = q[j + 1]
      BY <1>2, <1>4
    <2> QED BY <1>1, <1>2, <2>1 DEF Ahead
  <1> QED BY <1>3, <1>4

\* OnItsWay in these words.
LEMMA WayIsAhead ==
    \A d, s : OnItsWay(d, s) <=> worker[s] = d \/ (worker[s] # "stopped" /\ Ahead(d, queue[s]))
  BY DEF OnItsWay, Ahead

\* Where an accepted event is.
Accounted(d) ==
    \/ OnItsWay(d, target[d]) \/ InFile(d) \/ rows[d] > 0
    \/ d \in late
    \/ phase[target[d]] = "dead"

\* A delivery takes an event out of the file only when it is in the database.
LEMMA UploadsKeep ==
    ASSUME DeliveryInv, Uploads, NEW d \in Events, InFile(d) \/ rows[d] > 0
    PROVE  InFile(d)' \/ rows'[d] > 0
  <1>1. PICK u \in Uploaders : DeliverStep(u)
    BY DEF Uploads
  <1>2. CASE DeliverBegin(u) \/ DeliverSelect(u) \/ DeliverFails(u)
    BY <1>2 DEF DeliverBegin, DeliverSelect, DeliverFails, InFile
  <1>3. CASE DeliverCommit(u) \/ DeliverCommitUnseen(u)
    <2>1. UNCHANGED file /\ rows' = [e \in Events |-> IF e \in Fresh(u) THEN 1 ELSE rows[e]]
      BY <1>3, CommitKeeps
    <2> QED BY <2>1 DEF InFile
  <1>4. CASE DeliverDelete(u)
    BY <1>4, DeliverDeleteKeeps DEF InFile
  <1> QED BY <1>1, <1>2, <1>3, <1>4 DEF DeliverStep

\* An event that is accepted stays accounted for, and one that becomes
\* accepted is accounted for.
LEMMA AcceptedKept ==
    ASSUME SpoolIInv, [Next]_vars
    PROVE  AcceptedIsAccountedFor'
  <1> SUFFICES ASSUME NEW d \in Events, submit'[d] = "accepted"
               PROVE  Accounted(d)'
    BY DEF AcceptedIsAccountedFor, Accounted
  <1>1. StoreTypes /\ BookTypes /\ DatabaseTypes
    BY DEF SpoolIInv, DeliveryInv
  <1>2. submit[d] = "accepted" => Accounted(d) /\ target[d] \in Stores
    BY DEF SpoolIInv, AcceptedIsAccountedFor, Accounted, SentToBorn
  <1>3. ASSUME UNCHANGED <<phase, queue, worker, submit, target, late>>,
               InFile(d) \/ rows[d] > 0 => InFile(d)' \/ rows'[d] > 0
        PROVE  Accounted(d)'
    BY <1>2, <1>3 DEF Accounted, OnItsWay
  <1>4. CASE UNCHANGED vars \/ Uploads
    <2>1. UNCHANGED <<phase, queue, worker, submit, target, late>>
      BY <1>4, UploadsAreApart DEF vars, stores, submits
    <2>2. InFile(d) \/ rows[d] > 0 => InFile(d)' \/ rows'[d] > 0
      BY <1>4, UploadsKeep DEF vars, database, InFile, SpoolIInv
    <2> QED BY <1>3, <2>1, <2>2
  <1>5. ASSUME NEW s \in Stores, Open(s) \/ CloseBegin(s) \/ FlushEnds(s)
        PROVE  Accounted(d)'
    <2>1. UNCHANGED <<queue, worker, submit, target, late, file, rows>>
      BY <1>5 DEF Open, CloseBegin, FlushEnds, submits, database
    <2>2. phase[target[d]] = "dead" /\ target[d] \in Stores => phase'[target[d]] = "dead"
      BY <1>1, <1>5 DEF Open, CloseBegin, FlushEnds, BookTypes
    <2> QED BY <1>2, <2>1, <2>2 DEF Accounted, OnItsWay, InFile
  <1>6. ASSUME NEW s \in Stores, WorkerGet(s)
        PROVE  Accounted(d)'
    <2>1. /\ UNCHANGED <<phase, submit, target, late, file, rows>>
          /\ queue' = [queue EXCEPT ![s] = Tail(queue[s])]
          /\ worker' = [worker EXCEPT ![s] = IF Head(queue[s]) = Stop THEN "stopped"
                                             ELSE Head(queue[s])]
          /\ worker[s] = "idle" /\ queue[s] # <<>>
      BY <1>6 DEF WorkerGet, submits, database
    <2>2. CASE ~(OnItsWay(d, target[d]) /\ target[d] = s)
      BY <1>1, <1>2, <2>1, <2>2 DEF Accounted, OnItsWay, InFile, StoreTypes
    <2>3. CASE OnItsWay(d, target[d]) /\ target[d] = s
      <3>1. "idle" \notin Events /\ "stopped" \notin Events
        BY StopAssumption
      <3>2. queue[s] \in Seq(Events \cup {Stop}) /\ Head(queue[s]) \in Events \cup {Stop}
        BY <1>1, <2>1 DEF StoreTypes
      <3>3. Ahead(d, queue[s])
        BY <2>1, <2>3, <3>1, WayIsAhead
      <3>4. Head(queue[s]) # Stop /\ (Head(queue[s]) = d \/ Ahead(d, Tail(queue[s])))
        BY <3>2, <3>3, AheadTail
      <3>5. queue'[s] = Tail(queue[s]) /\ worker'[s] = Head(queue[s]) /\ worker'[s] # "stopped"
        BY <1>1, <2>1, <3>1, <3>2, <3>4 DEF StoreTypes
      <3>6. target'[d] = s /\ (worker'[s] = d \/ (worker'[s] # "stopped" /\ Ahead(d, queue'[s])))
        BY <2>1, <2>3, <3>4, <3>5
      <3> QED BY <3>6 DEF Accounted, OnItsWay, Ahead
    <2> QED BY <2>2, <2>3
  <1>7. ASSUME NEW s \in Stores, PutStop(s)
        PROVE  Accounted(d)'
    <2>1. /\ UNCHANGED <<worker, submit, target, late, file, rows>>
          /\ queue' = queue \/ queue' = [queue EXCEPT ![s] = Append(queue[s], Stop)]
          /\ phase[s] = "stop" /\ phase' = [phase EXCEPT ![s] = "closed"]
      BY <1>7 DEF PutStop, submits, database
    <2>2. \A t \in Stores : queue'[t] = queue[t] \/ queue'[t] = Append(queue[t], Stop)
      BY <1>1, <2>1 DEF StoreTypes
    <2>3. \A t \in Stores : Ahead(d, queue[t]) => Ahead(d, queue'[t])
      <3> TAKE t \in Stores
      <3>1. PICK q \in Seq(Events \cup {Stop}) : q = queue[t]
        BY <1>1 DEF StoreTypes
      <3>2. Ahead(d, q) => Ahead(d, Append(q, Stop))
        BY AheadAppend
      <3> QED BY <2>2, <3>1, <3>2
    <2>4. \A t \in Stores : OnItsWay(d, t) => OnItsWay(d, t)'
      BY <2>1, <2>3 DEF OnItsWay, Ahead
    <2>5. phase[target[d]] = "dead" /\ target[d] \in Stores => phase'[target[d]] = "dead"
      BY <1>1, <2>1 DEF BookTypes
    <2> QED BY <1>2, <2>1, <2>4, <2>5 DEF Accounted, InFile
  <1>8. ASSUME NEW s \in Stores, NEW e \in Events, SubmitCheck(e, s)
        PROVE  Accounted(d)'
    <2>1. d # e /\ submit[d] = "accepted" /\ target'[d] = target[d]
      BY <1>1, <1>8 DEF SubmitCheck, StoreTypes
    <2> QED BY <1>2, <1>8, <2>1 DEF SubmitCheck, database, Accounted, OnItsWay, InFile
  <1>9. ASSUME NEW s \in Stores, NEW e \in Events, SubmitPut(e, s)
        PROVE  Accounted(d)'
    <2>1. UNCHANGED <<phase, worker, target, file, rows>> /\ target[e] = s
      BY <1>9 DEF SubmitPut, database
    <2>2. CASE Enqueue(e, s)
      <3>1. /\ queue' = [queue EXCEPT ![s] = Append(queue[s], e)]
            /\ submit' = [submit EXCEPT ![e] = "accepted"]
            /\ late' = IF phase[s] = "open" THEN late ELSE late \cup {e}
        BY <2>2 DEF Enqueue
      <3>2. queue'[s] = Append(queue[s], e) /\ queue[s] \in Seq(Events \cup {Stop})
        BY <1>1, <3>1 DEF StoreTypes
      <3>3. CASE d = e
        <4>1. phase[s] # "open" => d \in late'
          BY <3>1, <3>3
        <4>2. phase[s] = "open" => worker'[s] # "stopped" /\ Ahead(d, queue'[s])
          BY <2>1, <3>2, <3>3, AheadLast DEF SpoolIInv, StopsWhenClosed
        <4> QED BY <2>1, <3>3, <4>1, <4>2 DEF Accounted, OnItsWay, Ahead
      <3>4. CASE d # e
        <4>1. submit[d] = "accepted" /\ target[d] \in Stores /\ Accounted(d)
          BY <1>1, <1>2, <3>1, <3>4 DEF StoreTypes
        <4>2. \A t \in Stores : queue'[t] = queue[t] \/ queue'[t] = Append(queue[t], e)
          BY <1>1, <3>1 DEF StoreTypes
        <4>3. \A t \in Stores : Ahead(d, queue[t]) => Ahead(d, queue'[t])
          <5> TAKE t \in Stores
          <5>1. PICK q \in Seq(Events \cup {Stop}) : q = queue[t]
            BY <1>1 DEF StoreTypes
          <5>2. Ahead(d, q) => Ahead(d, Append(q, e))
            BY AheadAppend
          <5> QED BY <4>2, <5>1, <5>2
        <4>4. \A t \in Stores : OnItsWay(d, t) => OnItsWay(d, t)'
          BY <2>1, <4>3 DEF OnItsWay, Ahead
        <4> QED BY <2>1, <3>1, <4>1, <4>4 DEF Accounted, InFile
      <3> QED BY <3>3, <3>4
    <2>3. CASE submit' = [submit EXCEPT ![e] = "refused"] /\ UNCHANGED <<queue, late>>
      <3>1. d # e /\ submit[d] = "accepted"
        BY <1>1, <2>3 DEF StoreTypes
      <3> QED BY <1>2, <2>1, <2>3, <3>1 DEF Accounted, OnItsWay, InFile
    <2> QED BY <1>9, <2>2, <2>3 DEF SubmitPut
  <1>10. ASSUME NEW s \in Stores, NEW e \in Events, WorkerSpools(s, e)
         PROVE  Accounted(d)'
    <2>1. /\ UNCHANGED rows /\ \A x \in Events : InFile(x)' <=> InFile(x) \/ x = e
      BY <1>10, WorkerSpoolsKeeps DEF SpoolIInv
    <2>2. /\ UNCHANGED <<phase, queue, submit, target, late>>
          /\ worker' = [worker EXCEPT ![s] = "idle"] /\ worker[s] = e
      BY <1>10 DEF WorkerSpools, submits
    <2>3. d # e => \A t \in Stores : OnItsWay(d, t) => OnItsWay(d, t)'
      BY <1>1, <2>2 DEF OnItsWay, StoreTypes
    <2> QED BY <1>2, <2>1, <2>2, <2>3 DEF Accounted
  <1>11. ASSUME NEW s \in Stores, NEW e \in Events, WorkerFails(s, e)
         PROVE  Accounted(d)'
    <2>1. /\ UNCHANGED <<phase, queue, target, late, file, rows>>
          /\ submit' = [submit EXCEPT ![e] = "failed"]
          /\ worker' = [worker EXCEPT ![s] = "idle"] /\ worker[s] = e
      BY <1>11 DEF WorkerFails, database
    <2>2. d # e /\ submit[d] = "accepted"
      BY <1>1, <2>1 DEF StoreTypes
    <2>3. \A t \in Stores : OnItsWay(d, t) => OnItsWay(d, t)'
      BY <1>1, <2>1, <2>2 DEF OnItsWay, StoreTypes
    <2> QED BY <1>2, <2>1, <2>2, <2>3 DEF Accounted, InFile
  <1>12. CASE Crash
    <2>1. submit[d] = "accepted" /\ target'[d] = target[d]
      BY <1>12 DEF Crash
    <2>2. phase[target[d]] # "unborn" /\ target[d] \in Stores
      BY <2>1 DEF SpoolIInv, SentToBorn
    <2>3. phase'[target[d]] = "dead"
      BY <1>12, <2>2 DEF Crash
    <2> QED BY <2>1, <2>3 DEF Accounted
  <1> QED BY <1>4, <1>5, <1>6, <1>7, <1>8, <1>9, <1>10, <1>11, <1>12
          DEF Next, StoreStep, Uploads

\* A worker has an event in its hands or none.
LEMMA WorkCounts ==
    ASSUME NEW w
    PROVE  Cardinality({w} \cap Events) = IF w \in Events THEN 1 ELSE 0
  <1>1. {w} \cap Events = IF w \in Events THEN {w} ELSE {}
    OBVIOUS
  <1> QED BY <1>1, FS_Singleton, FS_EmptySet

\* What the balance adds up are natural numbers.
LEMMA TermsAreNat ==
    ASSUME SpoolIInv, NEW s \in Stores
    PROVE  /\ Cardinality(Queued(s)) \in Nat
           /\ Cardinality(InWork(s)) \in Nat
           /\ Cardinality(Counted(s)) \in Nat
           /\ count[s] \in Counts
  <1>1. queue[s] \in Seq(Events \cup {Stop})
    BY DEF SpoolIInv, DeliveryInv, StoreTypes
  <1>2. IsFiniteSet(1 .. Len(queue[s])) /\ DOMAIN queue[s] = 1 .. Len(queue[s])
    BY <1>1, FS_Interval
  <1>3. Queued(s) \in SUBSET (1 .. Len(queue[s]))
    BY <1>2 DEF Queued
  <1>4. Cardinality(Queued(s)) \in Nat
    BY <1>2, <1>3, FS_Subset, FS_CardinalityType
  <1>5. Cardinality(Counted(s)) \in Nat
    BY FS_CardinalityType DEF SpoolIInv, CountedIsFinite
  <1>6. Cardinality(InWork(s)) \in Nat
    BY WorkCounts DEF InWork
  <1> QED BY <1>4, <1>5, <1>6 DEF SpoolIInv, BookTypes, Counts

\* A step of one store that keeps that store's balance keeps the books.
LEMMA BalanceStep ==
    ASSUME SpoolIInv, NEW s \in Stores,
           \A t \in Stores : t # s => /\ queue'[t] = queue[t] /\ worker'[t] = worker[t]
                                      /\ count'[t] = count[t] /\ Counted(t)' = Counted(t)
                                      /\ phase'[t] = phase[t],
           phase'[s] # "dead" => phase[s] # "dead",
           IsFiniteSet(Counted(s)'),
           Balance(s) => Balance(s)'
    PROVE  CountersAddUp' /\ CountedIsFinite'
  <1>1. \A t \in Stores : phase[t] # "dead" => Balance(t)
    BY BooksBalance DEF SpoolIInv
  <1>2. ASSUME NEW t \in Stores, phase'[t] # "dead"
        PROVE  Balance(t)'
    <2>1. CASE t = s
      BY <1>1, <1>2, <2>1
    <2>2. CASE t # s
      <3>1. Balance(t)
        BY <1>1, <1>2, <2>2
      <3>2. Queued(t)' = Queued(t) /\ InWork(t)' = InWork(t) /\ Counted(t)' = Counted(t)
        BY <2>2 DEF Queued, InWork
      <3> QED BY <2>2, <3>1, <3>2 DEF Balance
    <2> QED BY <2>1, <2>2
  <1>3. CountersAddUp'
    BY <1>2 DEF CountersAddUp, Balance, Queued, InWork, Counted
  <1>4. CountedIsFinite'
    BY DEF SpoolIInv, CountedIsFinite
  <1> QED BY <1>3, <1>4

\* Steps that change no queue, worker, counter or submit.
LEMMA BalanceQuiet ==
    ASSUME SpoolIInv, UNCHANGED <<queue, worker, count, submit, target>>,
           \A t \in Stores : phase'[t] # "dead" => phase[t] # "dead"
    PROVE  CountersAddUp' /\ CountedIsFinite'
  BY DEF SpoolIInv, CountersAddUp, CountedIsFinite, Counted

\* submit counts an event that is now between its two steps, or refuses it.
LEMMA SubmitCheckBalances ==
    ASSUME SpoolIInv, NEW s \in Stores, NEW e \in Events, SubmitCheck(e, s)
    PROVE  CountersAddUp' /\ CountedIsFinite'
  <1>1. StoreTypes /\ BookTypes
    BY DEF SpoolIInv, DeliveryInv
  <1>2. /\ submit[e] = "new" /\ target' = [target EXCEPT ![e] = s]
        /\ UNCHANGED <<phase, queue, worker>>
    BY DEF SubmitCheck
  <1>3. PICK c \in Counts : c = count[s]
    BY TermsAreNat
  <1>4. PICK n \in Nat : n = Cardinality(Counted(s))
    BY TermsAreNat
  <1>5. IsFiniteSet(Counted(s)) /\ e \notin Counted(s)
    BY <1>2 DEF SpoolIInv, CountedIsFinite, Counted
  <1>6. Queued(s)' = Queued(s) /\ InWork(s)' = InWork(s)
    BY <1>2 DEF Queued, InWork
  <1>7. CASE /\ count' = [count EXCEPT ![s].submitted = @ + 1]
             /\ submit' = [submit EXCEPT ![e] = "counted"]
    <2>1. Counted(s)' = Counted(s) \cup {e}
      BY <1>1, <1>2, <1>7 DEF Counted, StoreTypes
    <2>2. \A t \in Stores : t # s => Counted(t)' = Counted(t) /\ count'[t] = count[t]
      BY <1>1, <1>2, <1>7 DEF Counted, StoreTypes, BookTypes
    <2>3. IsFiniteSet(Counted(s)') /\ Cardinality(Counted(s)') = n + 1
      BY <1>4, <1>5, <2>1, FS_AddElement
    <2>4. count'[s] = [c EXCEPT !.submitted = c.submitted + 1]
      BY <1>1, <1>3, <1>7 DEF BookTypes
    <2>5. Balance(s) => Balance(s)'
      BY <1>3, <1>4, <1>6, <2>3, <2>4, TermsAreNat DEF Balance, Counts
    <2> QED BY <1>2, <2>2, <2>3, <2>5, BalanceStep
  <1>8. CASE submit' = [submit EXCEPT ![e] = "refused"] /\ UNCHANGED count
    <2>1. \A t \in Stores : Counted(t)' = Counted(t)
      BY <1>1, <1>2, <1>8 DEF Counted, StoreTypes
    <2>2. Balance(s) => Balance(s)'
      BY <1>6, <1>8, <2>1 DEF Balance
    <2> QED BY <1>2, <1>5, <1>8, <2>1, <2>2, BalanceStep
  <1> QED BY <1>7, <1>8 DEF SubmitCheck

\* The event is queued or counted as dropped.
LEMMA SubmitPutBalances ==
    ASSUME SpoolIInv, NEW s \in Stores, NEW e \in Events, SubmitPut(e, s)
    PROVE  CountersAddUp' /\ CountedIsFinite'
  <1>1. StoreTypes /\ BookTypes
    BY DEF SpoolIInv, DeliveryInv
  <1>2. /\ submit[e] = "counted" /\ target[e] = s
        /\ UNCHANGED <<phase, worker, target>>
    BY DEF SubmitPut
  <1>3. PICK c \in Counts : c = count[s]
    BY TermsAreNat
  <1>4. PICK n \in Nat, m \in Nat : n = Cardinality(Counted(s)) /\ m = Cardinality(Queued(s))
    BY TermsAreNat
  <1>5. IsFiniteSet(Counted(s)) /\ e \in Counted(s)
    BY <1>2 DEF SpoolIInv, CountedIsFinite, Counted
  <1>6. CASE submit'[e] # "counted" /\ \A d \in Events : d # e => submit'[d] = submit[d]
    <2>1. Counted(s)' = Counted(s) \ {e} /\ \A t \in Stores : t # s => Counted(t)' = Counted(t)
      BY <1>2, <1>6 DEF Counted
    <2>2. IsFiniteSet(Counted(s)') /\ Cardinality(Counted(s)') = n - 1
      BY <1>4, <1>5, <2>1, FS_RemoveElement
    <2>3. InWork(s)' = InWork(s)
      BY <1>2 DEF InWork
    <2>4. CASE Enqueue(e, s)
      <3>1. queue' = [queue EXCEPT ![s] = Append(queue[s], e)] /\ UNCHANGED count
        BY <2>4 DEF Enqueue
      <3>2. PICK q \in Seq(Events \cup {Stop}) : q = queue[s]
        BY <1>1 DEF StoreTypes
      <3>3. queue'[s] = Append(q, e) /\ e # Stop
        BY <1>1, <3>1, <3>2, StopAssumption DEF StoreTypes
      <3>4. Cardinality(Queued(s)') = m + 1
        BY <1>4, <3>2, <3>3, QueuedAppend DEF Queued
      <3>5. Balance(s) => Balance(s)'
        <4>1. PICK w \in Nat : w = Cardinality(InWork(s))
          BY TermsAreNat
        <4>2. Balance(s) => c.submitted = c.spooled + c.failed + c.dropped + m + w + n
          BY <1>3, <1>4, <4>1 DEF Balance
        <4>3. Balance(s)' <=>
                c.submitted = c.spooled + c.failed + c.dropped + (m + 1) + w + (n - 1)
          BY <1>3, <2>2, <2>3, <3>1, <3>4, <4>1 DEF Balance
        <4>4. PICK x \in Nat, y \in Nat : x = c.submitted /\ y = c.spooled + c.failed + c.dropped
          BY <1>3 DEF Counts
        <4>5. x = y + m + w + n => x = y + (m + 1) + w + (n - 1)
          OBVIOUS
        <4> QED BY <4>2, <4>3, <4>4, <4>5
      <3> QED BY <1>1, <1>2, <2>1, <2>2, <3>1, <3>5, BalanceStep DEF StoreTypes
    <2>5. CASE count' = [count EXCEPT ![s].dropped = @ + 1] /\ UNCHANGED queue
      <3>1. /\ count'[s] = [c EXCEPT !.dropped = c.dropped + 1]
            /\ \A t \in Stores : t # s => count'[t] = count[t]
        BY <1>1, <1>3, <2>5 DEF BookTypes
      <3>2. Queued(s)' = Queued(s)
        BY <2>5 DEF Queued
      <3>3. Balance(s) => Balance(s)'
        BY <1>3, <1>4, <2>2, <2>3, <3>1, <3>2, TermsAreNat DEF Balance, Counts
      <3> QED BY <1>2, <2>1, <2>2, <2>5, <3>1, <3>3, BalanceStep
    <2> QED BY <2>4, <2>5 DEF SubmitPut
  <1>7. submit'[e] # "counted" /\ \A d \in Events : d # e => submit'[d] = submit[d]
    BY <1>1 DEF SubmitPut, Enqueue, StoreTypes
  <1> QED BY <1>6, <1>7

\* The worker takes an event out of the queue into its hands.
LEMMA WorkerGetBalances ==
    ASSUME SpoolIInv, NEW s \in Stores, WorkerGet(s)
    PROVE  CountersAddUp' /\ CountedIsFinite'
  <1>1. StoreTypes /\ IsFiniteSet(Counted(s))
    BY DEF SpoolIInv, DeliveryInv, CountedIsFinite
  <1>2. PICK q \in Seq(Events \cup {Stop}) : q = queue[s]
    BY <1>1 DEF StoreTypes
  <1>3. /\ UNCHANGED <<phase, count, submit, target>> /\ q # <<>>
        /\ worker[s] = "idle" /\ queue'[s] = Tail(q)
        /\ worker'[s] = IF Head(q) = Stop THEN "stopped" ELSE Head(q)
        /\ \A t \in Stores : t # s => queue'[t] = queue[t] /\ worker'[t] = worker[t]
    BY <1>1, <1>2 DEF WorkerGet, submits, StoreTypes
  <1>4. \A t \in Stores : Counted(t)' = Counted(t)
    BY <1>3 DEF Counted
  <1>5. Head(q) \in Events \cup {Stop}
    BY <1>3
  <1>6. "idle" \notin Events /\ "stopped" \notin Events /\ Stop \notin Events
    BY StopAssumption
  <1>7. PICK m \in Nat, k \in Nat : m = Cardinality(Queued(s)) /\ k = Cardinality(Queued(s)')
    <2>1. Cardinality({i \in DOMAIN Tail(q) : Tail(q)[i] # Stop}) \in Nat
      BY <1>3, QueuedTail
    <2> QED BY <1>3, <2>1, TermsAreNat DEF Queued
  <1>8. m = IF Head(q) = Stop THEN k ELSE k + 1
    BY <1>2, <1>3, <1>7, QueuedTail DEF Queued
  <1>9. /\ Cardinality(InWork(s)) = 0
        /\ Cardinality(InWork(s)') = IF Head(q) = Stop THEN 0 ELSE 1
    BY <1>3, <1>5, <1>6, WorkCounts DEF InWork
  <1>10. PICK n \in Nat : n = Cardinality(Counted(s))
    BY TermsAreNat
  <1>11. PICK y \in Nat : y = count[s].spooled + count[s].failed + count[s].dropped
    BY TermsAreNat DEF Counts
  <1>12. Balance(s) => count[s].submitted = y + m + 0 + n
    BY <1>7, <1>9, <1>10, <1>11 DEF Balance
  <1>13. Balance(s)' <=>
           count[s].submitted = y + k + (IF Head(q) = Stop THEN 0 ELSE 1) + n
    BY <1>3, <1>4, <1>7, <1>9, <1>10, <1>11 DEF Balance
  <1>14. y + m + 0 + n = y + k + (IF Head(q) = Stop THEN 0 ELSE 1) + n
    BY <1>8
  <1>15. Balance(s) => Balance(s)'
    BY <1>12, <1>13, <1>14
  <1> QED BY <1>1, <1>3, <1>4, <1>15, BalanceStep

\* The event leaves the worker's hands and is counted as spooled or failed.
LEMMA WorkerEndsBalances ==
    ASSUME SpoolIInv, NEW s \in Stores, NEW e \in Events,
           WorkerSpools(s, e) \/ WorkerFails(s, e)
    PROVE  CountersAddUp' /\ CountedIsFinite'
  <1>1. StoreTypes /\ BookTypes /\ IsFiniteSet(Counted(s))
    BY DEF SpoolIInv, DeliveryInv, CountedIsFinite
  <1>2. /\ UNCHANGED <<phase, queue, target>> /\ worker[s] = e
        /\ worker' = [worker EXCEPT ![s] = "idle"]
        /\ submit' = submit \/ submit' = [submit EXCEPT ![e] = "failed"]
        /\ \/ count' = [count EXCEPT ![s].spooled = @ + 1]
           \/ count' = [count EXCEPT ![s].failed = @ + 1]
    BY DEF WorkerSpools, WorkerFails, submits
  <1>3. submit[e] = "accepted"
    BY <1>2 DEF SpoolIInv, DeliveryInv, UnspooledIsUnplaced, Held
  <1>4. \A t \in Stores : Counted(t)' = Counted(t)
    BY <1>1, <1>2, <1>3 DEF Counted, StoreTypes
  <1>5. PICK c \in Counts : c = count[s]
    BY TermsAreNat
  <1>6. /\ \/ count'[s] = [c EXCEPT !.spooled = c.spooled + 1]
           \/ count'[s] = [c EXCEPT !.failed = c.failed + 1]
        /\ \A t \in Stores : t # s => count'[t] = count[t]
    BY <1>1, <1>2, <1>5 DEF BookTypes
  <1>7. /\ Cardinality(InWork(s)) = 1 /\ Cardinality(InWork(s)') = 0
        /\ \A t \in Stores : t # s => worker'[t] = worker[t]
    <2>1. worker'[s] = "idle" /\ \A t \in Stores : t # s => worker'[t] = worker[t]
      BY <1>1, <1>2 DEF StoreTypes
    <2>2. "idle" \notin Events
      BY StopAssumption
    <2> QED BY <1>2, <2>1, <2>2, WorkCounts DEF InWork
  <1>8. Queued(s)' = Queued(s)
    BY <1>2 DEF Queued
  <1>9. PICK m \in Nat, n \in Nat : m = Cardinality(Queued(s)) /\ n = Cardinality(Counted(s))
    BY TermsAreNat
  <1>10. PICK y \in Nat : y = c.spooled + c.failed + c.dropped
    BY DEF Counts
  <1>11. count'[s].submitted = c.submitted
    BY <1>6 DEF Counts
  <1>12. count'[s].spooled + count'[s].failed + count'[s].dropped = y + 1
    BY <1>6, <1>10 DEF Counts
  <1>13. Balance(s) => c.submitted = y + m + 1 + n
    BY <1>5, <1>7, <1>9, <1>10 DEF Balance
  <1>14. Balance(s)' <=> c.submitted = (y + 1) + m + 0 + n
    BY <1>4, <1>7, <1>8, <1>9, <1>11, <1>12 DEF Balance
  <1>15. y + m + 1 + n = (y + 1) + m + 0 + n
    OBVIOUS
  <1>16. Balance(s) => Balance(s)'
    BY <1>13, <1>14, <1>15
  <1> QED BY <1>1, <1>2, <1>4, <1>6, <1>7, <1>16, BalanceStep

\* The stop mark is not counted.
LEMMA PutStopBalances ==
    ASSUME SpoolIInv, NEW s \in Stores, PutStop(s)
    PROVE  CountersAddUp' /\ CountedIsFinite'
  <1>1. StoreTypes /\ BookTypes /\ IsFiniteSet(Counted(s))
    BY DEF SpoolIInv, DeliveryInv, CountedIsFinite
  <1>2. /\ UNCHANGED <<worker, count, submit, target>>
        /\ phase[s] = "stop" /\ phase' = [phase EXCEPT ![s] = "closed"]
        /\ queue' = queue \/ queue' = [queue EXCEPT ![s] = Append(queue[s], Stop)]
    BY DEF PutStop, submits
  <1>3. \A t \in Stores : Counted(t)' = Counted(t) /\ InWork(t)' = InWork(t)
    BY <1>2 DEF Counted, InWork
  <1>4. Cardinality(Queued(s)') = Cardinality(Queued(s))
    <2>1. PICK q \in Seq(Events \cup {Stop}) : q = queue[s]
      BY <1>1 DEF StoreTypes
    <2>2. queue'[s] = q \/ queue'[s] = Append(q, Stop)
      BY <1>1, <1>2, <2>1 DEF StoreTypes
    <2>3. CASE queue'[s] = q
      BY <2>1, <2>3 DEF Queued
    <2>4. CASE queue'[s] = Append(q, Stop)
      <3>1. PICK S, T : /\ S = {i \in DOMAIN q : q[i] # Stop}
                        /\ T = {i \in DOMAIN Append(q, Stop) : Append(q, Stop)[i] # Stop}
        OBVIOUS
      <3>2. Cardinality(T) = Cardinality(S)
        BY <3>1, QueuedAppend
      <3> QED BY <2>1, <2>4, <3>1, <3>2 DEF Queued
    <2> QED BY <2>2, <2>3, <2>4
  <1>5. Balance(s) => Balance(s)'
    BY <1>2, <1>3, <1>4 DEF Balance
  <1>6. \A t \in Stores : t # s => queue'[t] = queue[t] /\ phase'[t] = phase[t]
    BY <1>1, <1>2 DEF StoreTypes, BookTypes
  <1> QED BY <1>1, <1>2, <1>3, <1>5, <1>6, BalanceStep

\* Only stores that were not opened yet survive the process, and they have
\* counted nothing.
LEMMA CrashBalances ==
    ASSUME SpoolIInv, Crash
    PROVE  CountersAddUp' /\ CountedIsFinite'
  <1>1. \A t \in Stores : Counted(t)' = {}
    BY DEF Crash, Counted
  <1>2. CountedIsFinite'
    BY <1>1, FS_EmptySet DEF CountedIsFinite
  <1>3. ASSUME NEW t \in Stores, phase'[t] # "dead"
        PROVE  Balance(t)'
    <2>1. /\ phase[t] = "unborn" /\ worker'[t] = worker[t] /\ queue'[t] = <<>>
          /\ UNCHANGED count
      BY <1>3 DEF Crash
    <2>2. Counted(t) = {}
      BY <2>1 DEF Counted, SpoolIInv, SentToBorn
    <2>3. \A e \in Events : ~Held(e, t)
      BY <2>1 DEF SpoolIInv, DeliveryInv, UnspooledIsUnplaced, SentToBorn
    <2>4. \A i \in DOMAIN queue[t] : queue[t][i] \in Events \cup {Stop}
      BY DEF SpoolIInv, DeliveryInv, StoreTypes
    <2>5. Queued(t) = {}
      BY <2>3, <2>4 DEF Queued, Held
    <2>6. Queued(t)' = {}
      BY <2>1 DEF Queued
    <2>7. InWork(t)' = InWork(t)
      BY <2>1 DEF InWork
    <2>8. Balance(t)
      BY <2>1, BooksBalance DEF SpoolIInv
    <2>9. Counted(t)' = Counted(t) /\ Queued(t)' = Queued(t)
      BY <1>1, <2>2, <2>5, <2>6
    <2> QED BY <2>1, <2>7, <2>8, <2>9 DEF Balance
  <1>4. CountersAddUp'
    BY <1>3 DEF CountersAddUp, Balance, Queued, InWork, Counted
  <1> QED BY <1>2, <1>4

\* Every step keeps the counters.
LEMMA CountersKept ==
    ASSUME SpoolIInv, [Next]_vars
    PROVE  CountersAddUp' /\ CountedIsFinite'
  <1>1. CASE UNCHANGED vars \/ Uploads
    <2>1. UNCHANGED <<phase, queue, worker, count, submit, target>>
      BY <1>1, UploadsAreApart DEF vars, stores, submits
    <2> QED BY <2>1, BalanceQuiet
  <1>2. ASSUME NEW s \in Stores, Open(s) \/ CloseBegin(s) \/ FlushEnds(s)
        PROVE  CountersAddUp' /\ CountedIsFinite'
    <2>1. UNCHANGED <<queue, worker, count, submit, target>>
      BY <1>2 DEF Open, CloseBegin, FlushEnds, submits
    <2>2. \A t \in Stores : phase'[t] # "dead" => phase[t] # "dead"
      BY <1>2 DEF Open, CloseBegin, FlushEnds, SpoolIInv, BookTypes
    <2> QED BY <2>1, <2>2, BalanceQuiet
  <1> QED BY <1>1, <1>2, SubmitCheckBalances, SubmitPutBalances, WorkerGetBalances,
             WorkerEndsBalances, PutStopBalances, CrashBalances
          DEF Next, StoreStep, Uploads

\* At first the stores have counted nothing.
LEMMA InitBooks == Init => SpoolIInv
  <1> SUFFICES ASSUME Init PROVE SpoolIInv
    OBVIOUS
  <1>1. DeliveryInv /\ BookTypes
    BY InitDelivery DEF Init, BookTypes
  <1>2. StopsWhenClosed /\ SentToBorn /\ AcceptedIsAccountedFor
    BY DEF Init, StopsWhenClosed, SentToBorn, AcceptedIsAccountedFor
  <1>3. \A s \in Stores : Counted(s) = {} /\ Queued(s) = {}
    BY DEF Init, Counted, Queued
  <1>4. \A s \in Stores : Cardinality(InWork(s)) = 0
    <2>1. "idle" \notin Events /\ \A s \in Stores : worker[s] = "idle"
      BY StopAssumption DEF Init
    <2> QED BY <2>1, WorkCounts DEF InWork
  <1>5. \A s \in Stores : Balance(s) /\ IsFiniteSet(Counted(s))
    <2> TAKE s \in Stores
    <2>1. count[s] = [submitted |-> 0, spooled |-> 0, failed |-> 0, dropped |-> 0]
      BY DEF Init
    <2> QED BY <1>3, <1>4, <2>1, FS_EmptySet DEF Balance
  <1> QED BY <1>1, <1>2, <1>5, BooksBalance DEF SpoolIInv, CountedIsFinite

\* The books' invariant holds in every reachable state.
THEOREM BooksInvariance == Spec => []SpoolIInv
  <1>1. SpoolIInv /\ [Next]_vars => SpoolIInv'
    BY StepDelivers, TypesKept, StopsKept, SentKept, AcceptedKept, CountersKept
       DEF SpoolIInv
  <1> QED BY InitBooks, <1>1, PTL DEF Spec

\* SQLiteSearchAnalyticsSpoolStore.submit, its worker, close and status: an
\* accepted event is on its way, in the file or in the database unless close
\* overtook its submit or the process died, and status() adds up.
THEOREM SpoolHolds == Spec => []SpoolInv
  <1>1. SpoolIInv => SpoolInv
    BY DEF SpoolIInv, SpoolInv, TypeOK, DeliveryInv, StoreTypes, DatabaseTypes, BookTypes
  <1> QED BY BooksInvariance, <1>1, PTL
=============================================================================
