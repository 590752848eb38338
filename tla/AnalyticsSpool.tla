--------------------------- MODULE AnalyticsSpool ---------------------------
(***************************************************************************)
(* Search analytics in daily_spool mode (storage/search_analytics_spool.py *)
(* and write_search_analytics_events): request threads submit events to a  *)
(* store's bounded queue, the store's worker writes them to the local      *)
(* SQLite file, and the uploader (scripts/flush_search_analytics.py, run   *)
(* by a timer or by hand) copies them to the tenant's MySQL database and   *)
(* deletes what was committed there.                                       *)
(*                                                                         *)
(* A store belongs to a tenant service: a service that is swapped out and  *)
(* its replacement write to the same file, and so do the stores before and *)
(* after a restart of the API.  submit tests _closed under the lock and    *)
(* puts the event after it has released it; close does the same with its   *)
(* stop mark.                                                              *)
(***************************************************************************)
EXTENDS Naturals, Sequences, FiniteSets

CONSTANTS
    Events,     \* search events, each with its own request_id
    Stores,     \* SQLiteSearchAnalyticsSpoolStore instances
    Uploaders,  \* concurrent runs of deliver_search_analytics_spool
    Capacity,   \* queue_capacity
    BatchSize,  \* batch_size
    Stop        \* _STOP

ASSUME CapacityAssumption == Capacity \in Nat \ {0}
ASSUME BatchSizeAssumption == BatchSize \in Nat \ {0}
ASSUME StopAssumption == {Stop, "idle", "stopped"} \cap Events = {}

VARIABLES
    phase,      \* how far each store is in its life
    queue,      \* its _queue
    worker,     \* the event its worker has taken, or "idle" or "stopped"
    timedOut,   \* stores whose close ran into a timeout
    count,      \* its counters _submitted, _spooled, _failed and _dropped
    submit,     \* how far each event's submit is
    target,     \* the store it was submitted to
    late,       \* events that were put after their store began to close
    file,       \* rows of search_analytics_spool: [id, event]
    lastId,     \* the AUTOINCREMENT counter of its id column
    rows,       \* number of rows of each event in the MySQL table
    up          \* the uploaders

stores == <<phase, queue, worker, timedOut, count>>
submits == <<submit, target, late>>
database == <<file, lastId, rows, up>>
vars == <<stores, submits, database>>

None == "none"

Row == [id : Nat, event : Events]
IdleUp == [pc |-> "idle", cutoff |-> 0, batch |-> {}]

TypeOK ==
    /\ phase \in [Stores -> {"unborn", "open", "flush", "stop", "closed", "dead"}]
    /\ queue \in [Stores -> Seq(Events \cup {Stop})]
    /\ \A s \in Stores : Len(queue[s]) <= Capacity
    /\ worker \in [Stores -> Events \cup {"idle", "stopped"}]
    /\ timedOut \in SUBSET Stores
    /\ count \in [Stores -> [submitted : Nat, spooled : Nat, failed : Nat, dropped : Nat]]
    /\ submit \in [Events -> {"new", "counted", "accepted", "refused", "failed", "gone"}]
    /\ target \in [Events -> Stores \cup {None}]
    /\ late \in SUBSET Events
    /\ file \in SUBSET Row
    /\ lastId \in Nat
    /\ rows \in [Events -> Nat]
    /\ up \in [Uploaders -> [pc : {"idle", "select", "write", "delete"}, cutoff : Nat,
                             batch : SUBSET Row]]

Init ==
    /\ phase = [s \in Stores |-> "unborn"]
    /\ queue = [s \in Stores |-> <<>>]
    /\ worker = [s \in Stores |-> "idle"]
    /\ timedOut = {}
    /\ count = [s \in Stores |-> [submitted |-> 0, spooled |-> 0, failed |-> 0, dropped |-> 0]]
    /\ submit = [e \in Events |-> "new"]
    /\ target = [e \in Events |-> None]
    /\ late = {}
    /\ file = {}
    /\ lastId = 0
    /\ rows = [e \in Events |-> 0]
    /\ up = [u \in Uploaders |-> IdleUp]

Running(s) == phase[s] \notin {"unborn", "dead"}

-----------------------------------------------------------------------------
(* The store of a tenant service. *)

Open(s) ==
    /\ phase[s] = "unborn"
    /\ phase' = [phase EXCEPT ![s] = "open"]
    /\ UNCHANGED <<queue, worker, timedOut, count, submits, database>>

\* submit under the lock.
SubmitCheck(e, s) ==
    /\ submit[e] = "new"
    /\ Running(s)
    /\ IF phase[s] = "open"
       THEN /\ count' = [count EXCEPT ![s].submitted = @ + 1]
            /\ submit' = [submit EXCEPT ![e] = "counted"]
       ELSE /\ submit' = [submit EXCEPT ![e] = "refused"]
            /\ UNCHANGED count
    /\ target' = [target EXCEPT ![e] = s]
    /\ UNCHANGED <<phase, queue, worker, timedOut, late, database>>

\* The event is in the queue and submit returns True.
Enqueue(e, s) ==
    /\ queue' = [queue EXCEPT ![s] = Append(@, e)]
    /\ submit' = [submit EXCEPT ![e] = "accepted"]
    /\ late' = IF phase[s] = "open" THEN late ELSE late \cup {e}
    /\ UNCHANGED count

\* put_nowait, after the lock was released: the store may be closing by now.
SubmitPut(e, s) ==
    /\ submit[e] = "counted" /\ target[e] = s
    /\ IF Len(queue[s]) < Capacity
       THEN Enqueue(e, s)
       ELSE /\ count' = [count EXCEPT ![s].dropped = @ + 1]
            /\ submit' = [submit EXCEPT ![e] = "refused"]
            /\ UNCHANGED <<queue, late>>
    /\ UNCHANGED <<phase, worker, timedOut, target, database>>

\* Fault: the worker ends as soon as the store is closed.
WorkerGet_StopsEarly(s) ==
    /\ Running(s)
    /\ worker[s] = "idle"
    /\ queue[s] # <<>>
    /\ queue' = [queue EXCEPT ![s] = Tail(@)]
    /\ worker' = [worker EXCEPT ![s] = IF phase[s] # "open" THEN "stopped" ELSE Head(queue[s])]
    /\ UNCHANGED <<phase, timedOut, count, submits, database>>

\* The worker takes the next item and ends at the stop mark.
WorkerGet(s) ==
    /\ Running(s)
    /\ worker[s] = "idle"
    /\ queue[s] # <<>>
    /\ queue' = [queue EXCEPT ![s] = Tail(@)]
    /\ worker' = [worker EXCEPT ![s] = IF Head(queue[s]) = Stop THEN "stopped" ELSE Head(queue[s])]
    /\ UNCHANGED <<phase, timedOut, count, submits, database>>

InFile(e) == \E r \in file : r.event = e

\* Fault: the id column is a plain primary key, and the id of a deleted last
\* row is used again.
NextId_Reused == IF file = {} THEN 1 ELSE 1 + (CHOOSE n \in {r.id : r \in file} :
                                                \A r \in file : r.id <= n)

\* INTEGER PRIMARY KEY AUTOINCREMENT.
NextId == lastId + 1

\* INSERT OR IGNORE and commit; the row is durable from here on.
WorkerSpools(s, e) ==
    /\ worker[s] = e
    /\ IF InFile(e)
       THEN UNCHANGED <<file, lastId>>
       ELSE /\ file' = file \cup {[id |-> NextId, event |-> e]}
            /\ lastId' = NextId
    /\ worker' = [worker EXCEPT ![s] = "idle"]
    /\ count' = [count EXCEPT ![s].spooled = @ + 1]
    /\ UNCHANGED <<phase, queue, timedOut, submits, rows, up>>

\* The local write raises: the event is counted as failed and dropped.
WorkerFails(s, e) ==
    /\ worker[s] = e
    /\ worker' = [worker EXCEPT ![s] = "idle"]
    /\ count' = [count EXCEPT ![s].failed = @ + 1]
    /\ submit' = [submit EXCEPT ![e] = "failed"]
    /\ UNCHANGED <<phase, queue, timedOut, target, late, database>>

CloseBegin(s) ==
    /\ phase[s] = "open"
    /\ phase' = [phase EXCEPT ![s] = "flush"]
    /\ UNCHANGED <<queue, worker, timedOut, count, submits, database>>

\* flush: no unfinished task, or the timeout.
FlushEnds(s) ==
    /\ phase[s] = "flush"
    /\ \/ queue[s] = <<>> /\ worker[s] = "idle" /\ UNCHANGED timedOut
       \/ timedOut' = timedOut \cup {s}
    /\ phase' = [phase EXCEPT ![s] = "stop"]
    /\ UNCHANGED <<queue, worker, count, submits, database>>

\* The stop mark is put, or the queue stays full for too long.
PutStop(s) ==
    /\ phase[s] = "stop"
    /\ phase' = [phase EXCEPT ![s] = "closed"]
    /\ IF Len(queue[s]) < Capacity
       THEN queue' = [queue EXCEPT ![s] = Append(@, Stop)] /\ UNCHANGED timedOut
       ELSE timedOut' = timedOut \cup {s} /\ UNCHANGED queue
    /\ UNCHANGED <<worker, count, submits, database>>

\* The API process ends: queues and workers are gone, the file stays.
Crash ==
    /\ \E s \in Stores : Running(s)
    /\ phase' = [s \in Stores |-> IF phase[s] = "unborn" THEN "unborn" ELSE "dead"]
    /\ queue' = [s \in Stores |-> <<>>]
    /\ worker' = [s \in Stores |-> IF phase[s] = "unborn" THEN worker[s] ELSE "stopped"]
    /\ submit' = [e \in Events |-> IF submit[e] = "counted" THEN "gone" ELSE submit[e]]
    /\ UNCHANGED <<timedOut, count, target, late, database>>

-----------------------------------------------------------------------------
(* deliver_search_analytics_spool. *)

\* The cutoff: the highest id when the delivery starts.
DeliverBegin(u) ==
    /\ up[u].pc = "idle"
    /\ \E last \in file :
         /\ \A r \in file : r.id <= last.id
         /\ up' = [up EXCEPT ![u] = [pc |-> "select", cutoff |-> last.id, batch |-> {}]]
    /\ UNCHANGED <<stores, submits, file, lastId, rows>>

\* The first BatchSize rows in the order of their ids.
FirstRows(candidates) ==
    {r \in candidates : Cardinality({x \in candidates : x.id < r.id}) < BatchSize}

\* Fault: an off-by-one at the cutoff.
Selected_BelowCutoff(u) == FirstRows({r \in file : r.id < up[u].cutoff})

Selected(u) == FirstRows({r \in file : r.id <= up[u].cutoff})

DeliverSelect(u) ==
    /\ up[u].pc = "select"
    /\ up' = [up EXCEPT ![u] = IF Selected(u) = {} THEN IdleUp
                               ELSE [@ EXCEPT !.pc = "write", !.batch = Selected(u)]]
    /\ UNCHANGED <<stores, submits, file, lastId, rows>>

\* INSERT ... ON DUPLICATE KEY UPDATE of the whole batch in one transaction.
Upsert(batch) ==
    rows' = [e \in Events |-> IF \E r \in batch : r.event = e THEN 1 ELSE rows[e]]

DeliverCommit(u) ==
    /\ up[u].pc = "write"
    /\ Upsert(up[u].batch)
    /\ up' = [up EXCEPT ![u].pc = "delete"]
    /\ UNCHANGED <<stores, submits, file, lastId>>

\* The commit lands and the answer does not: the delivery raises.
DeliverCommitUnseen(u) ==
    /\ up[u].pc = "write"
    /\ Upsert(up[u].batch)
    /\ up' = [up EXCEPT ![u] = IdleUp]
    /\ UNCHANGED <<stores, submits, file, lastId>>

\* DELETE ... WHERE id IN (the ids of the batch).
DeliverDelete(u) ==
    /\ up[u].pc = "delete"
    /\ file' = {r \in file : r.id \notin {x.id : x \in up[u].batch}}
    /\ up' = [up EXCEPT ![u] = [@ EXCEPT !.pc = "select", !.batch = {}]]
    /\ UNCHANGED <<stores, submits, lastId, rows>>

\* An exception or a kill at any point: the next run starts over.
DeliverFails(u) ==
    /\ up[u].pc # "idle"
    /\ up' = [up EXCEPT ![u] = IdleUp]
    /\ UNCHANGED <<stores, submits, file, lastId, rows>>

-----------------------------------------------------------------------------
StoreStep(s) ==
    \/ Open(s) \/ WorkerGet(s) \/ CloseBegin(s) \/ FlushEnds(s) \/ PutStop(s)
    \/ \E e \in Events : \/ SubmitCheck(e, s) \/ SubmitPut(e, s)
                         \/ WorkerSpools(s, e) \/ WorkerFails(s, e)

DeliverStep(u) ==
    \/ DeliverBegin(u) \/ DeliverSelect(u) \/ DeliverCommit(u) \/ DeliverDelete(u)
    \/ DeliverCommitUnseen(u) \/ DeliverFails(u)

Next ==
    \/ \E s \in Stores : StoreStep(s)
    \/ Crash
    \/ \E u \in Uploaders : DeliverStep(u)

Spec == Init /\ [][Next]_vars

\* The timer keeps starting deliveries, and neither MySQL nor the local file
\* fails every time.
FairSpec ==
    /\ Spec
    /\ \A u \in Uploaders : /\ WF_vars(DeliverBegin(u))
                            /\ SF_vars(DeliverSelect(u))
                            /\ SF_vars(DeliverCommit(u))
                            /\ SF_vars(DeliverDelete(u))

-----------------------------------------------------------------------------
\* "Only rows confirmed by MySQL are removed locally ... idempotent batches"
\* (docs/search_analytics.md): an event in the file is delivered once, and
\* not dropped before, whatever uploaders overlap, die, or miss the answer to
\* their commit, and whatever is spooled meanwhile.
Delivery == INSTANCE AnalyticsDelivery WITH
                pending <- {e \in Events : InFile(e) /\ rows[e] = 0}

DeliversOnce == Delivery!Spec

\* The inductive invariant behind it.  An event that is submitted, queued or
\* in a worker's hands has not been spooled, sent or delivered; ids are never
\* used twice; a row of a batch is in the file or in the database, and if the
\* batch is about to be deleted, in the database.
Rows == file \cup UNION {up[u].batch : u \in Uploaders}

Placed(e) == rows[e] # 0 \/ \E r \in Rows : r.event = e

Held(e, s) == worker[s] = e \/ \E i \in DOMAIN queue[s] : queue[s][i] = e

UnspooledIsUnplaced ==
    /\ \A e \in Events : submit[e] \in {"new", "counted"} => ~Placed(e)
    /\ \A e \in Events, s \in Stores :
         Held(e, s) => submit[e] = "accepted" /\ target[e] = s /\ ~Placed(e)

HeldOnce ==
    \A s \in Stores : \A i, j \in DOMAIN queue[s] :
        queue[s][i] \in Events => /\ queue[s][i] = queue[s][j] => i = j
                                  /\ queue[s][i] # worker[s]

IdsAreUnique ==
    \A r \in Rows : /\ r.id <= lastId
                    /\ \A x \in Rows : x.id = r.id => x = r

SentIsCommitted ==
    \A u \in Uploaders : \A r \in up[u].batch :
        /\ r \in file \/ rows[r.event] = 1
        /\ up[u].pc = "delete" => rows[r.event] = 1

OneRowAtMost == \A e \in Events : rows[e] \in {0, 1}

\* The part of TypeOK that this needs.
StoreTypes ==
    /\ queue \in [Stores -> Seq(Events \cup {Stop})]
    /\ worker \in [Stores -> Events \cup {"idle", "stopped"}]
    /\ submit \in [Events -> {"new", "counted", "accepted", "refused", "failed", "gone"}]
    /\ target \in [Events -> Stores \cup {None}]

DatabaseTypes ==
    /\ file \in SUBSET Row
    /\ lastId \in Nat
    /\ rows \in [Events -> Nat]
    /\ up \in [Uploaders -> [pc : {"idle", "select", "write", "delete"}, cutoff : Nat,
                             batch : SUBSET Row]]

DeliveryInv ==
    /\ StoreTypes
    /\ DatabaseTypes
    /\ UnspooledIsUnplaced
    /\ HeldOnce
    /\ IdsAreUnique
    /\ SentIsCommitted
    /\ OneRowAtMost

\* The event is queued ahead of the stop mark, or in the worker's hands.
OnItsWay(e, s) ==
    \/ worker[s] = e
    \/ /\ worker[s] # "stopped"
       /\ \E i \in DOMAIN queue[s] :
            queue[s][i] = e /\ \A j \in 1 .. i : queue[s][j] # Stop

\* submit's answer True is only broken by the end of the process, by a local
\* write that fails (and is counted), or by a submit that was overtaken by
\* close between its test and its put: every other accepted event is queued
\* ahead of the stop mark, in work, in the file or in the database.
AcceptedIsAccountedFor ==
    \A e \in Events : submit[e] = "accepted" =>
        \/ OnItsWay(e, target[e]) \/ InFile(e) \/ rows[e] > 0
        \/ e \in late
        \/ phase[target[e]] = "dead"

\* status(): submitted is the sum of what was spooled, failed, dropped, is
\* queued or in work, or is between submit's two steps.
CountersAddUp ==
    \A s \in Stores : phase[s] # "dead" =>
        count[s].submitted =
            count[s].spooled + count[s].failed + count[s].dropped
            + Cardinality({i \in DOMAIN queue[s] : queue[s][i] # Stop})
            + Cardinality({worker[s]} \cap Events)
            + Cardinality({e \in Events : submit[e] = "counted" /\ target[e] = s})

\* "Failed batches remain for the next scheduled or manual retry": what is in
\* the file reaches the database, also behind rows whose deliveries fail.
SpooledIsDelivered == \A e \in Events : InFile(e) ~> rows[e] = 1

\* The store's own books: no event is lost or counted twice between submit, the
\* queue, the worker and the file.
SpoolInv ==
    /\ TypeOK
    /\ AcceptedIsAccountedFor
    /\ CountersAddUp

\* docs/search_analytics.md: "Graceful API shutdown waits briefly for queued
\* events to reach either MySQL or the local spool".  Not kept: a submit that
\* close overtakes puts its event behind the stop mark.
CloseLeavesNothing ==
    \A s \in Stores : phase[s] = "closed" /\ s \notin timedOut /\ worker[s] = "stopped" =>
        \A i \in DOMAIN queue[s] : queue[s][i] \notin Events
=============================================================================
