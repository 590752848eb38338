-------------------------- MODULE IndexGenerations --------------------------
(***************************************************************************)
(* One tenant's two index slots, the manifest that selects the active one, *)
(* and the three parties that work on them without a common lock:          *)
(*                                                                         *)
(*   - the shadow-ingestion process (ingestion/generations.py, at most one *)
(*     per company, held apart by flock in run_scheduled_ingestion.sh),    *)
(*     which seeds, rewrites, validates and records the inactive slot and  *)
(*     asks the API to activate it;                                        *)
(*   - the API process's tenant pool (api/tenants.py), which activates,    *)
(*     rolls back and reloads under _reload_lock, one operation at a time; *)
(*   - searches, which check the slot's consistency gate once and then     *)
(*     read its vectors and its BM25 rows.                                 *)
(*                                                                         *)
(* Every update of the manifest is an unlocked read, then an atomic file   *)
(* replacement, and is modelled as those two steps.  Both processes may    *)
(* die between any two steps.                                              *)
(*                                                                         *)
(* Data.  An index is its content: the number of the ingestion run whose   *)
(* complete source scan it holds (0: what slot "a" held before the first   *)
(* run), Partial while it mixes two scans, Absent before it exists.  Run n *)
(* names its generation n, so a generation is what it should be exactly    *)
(* when the slot's content has the generation's number.                    *)
(***************************************************************************)
EXTENDS Integers

CONSTANT
    MaxRuns      \* bound on the number of shadow-ingestion runs

ASSUME MaxRunsAssumption == MaxRuns \in Nat

Slots == {"a", "b"}
Other(s) == IF s = "a" THEN "b" ELSE "a"
NoSlot == "none"

Absent == -1        \* no pgvector table, no BM25 file
Partial == -2       \* some batches of a scan written, some not
NoGeneration == -1  \* JSON null
LegacyA == 0        \* "legacy-a"

Index == Int
Statuses == {"empty", "ready", "active", "standby"}

\* What the JSON manifest holds (_validate_state).
Manifest == [active     : Slots,
             previous   : Slots \cup {NoSlot},
             generation : [Slots -> Int],
             status     : [Slots -> Statuses]]

\* default_generation_state: slot "a" is the configured legacy index.
DefaultManifest ==
    [active     |-> "a",
     previous   |-> NoSlot,
     generation |-> [s \in Slots |-> IF s = "a" THEN LegacyA ELSE NoGeneration],
     status     |-> [s \in Slots |-> IF s = "a" THEN "active" ELSE "empty"]]

VARIABLES
    manifest,   \* index-generations.json
    vec,        \* the pgvector table of each slot
    bm25,       \* the BM25 file of each slot
    gate,       \* .ingestion-state.json of each slot: none, running, failed
    run,        \* number of the latest shadow-ingestion run
    ing,        \* the ingestion process
    requests,   \* activation requests the API has accepted and not answered
    api,        \* the operation that holds _reload_lock
    served,     \* the tenant's entry of TenantServicePool._services
    search,     \* one request being served
    writer,     \* history: the last run that opened each slot's gate
    outrun      \* history: what rests on an active slot that the record of a
                \* run has since replaced in the manifest: the "route" that is
                \* served, the reload that is under way ("operation")

vars == <<manifest, vec, bm25, gate, run, ing, requests, api, served, search,
          writer, outrun>>

history == <<writer, outrun>>

indexes == <<vec, bm25, gate>>

IngStates == {"idle", "seed", "backup", "copy", "scan", "write", "reconcile",
              "complete", "validate", "record", "publish", "activate", "await"}
ApiStates == {"idle", "build", "commit", "publish"}

NoService == [slot |-> NoSlot, generation |-> NoGeneration]
IdleIng == [pc |-> "idle", slot |-> "b", copy |-> DefaultManifest]
IdleApi == [pc |-> "idle", op |-> "reload", slot |-> "a",
            generation |-> NoGeneration, copy |-> DefaultManifest]
IdleSearch == [pc |-> "idle", slot |-> "a", vec |-> Absent, bm25 |-> Absent,
               writer |-> NoGeneration]

TypeOK ==
    /\ manifest \in Manifest
    /\ vec \in [Slots -> Index]
    /\ bm25 \in [Slots -> Index]
    /\ gate \in [Slots -> {"none", "running", "failed"}]
    /\ run \in Nat
    /\ ing \in [pc : IngStates, slot : Slots, copy : Manifest]
    /\ requests \in SUBSET [slot : Slots, generation : Int]
    /\ api \in [pc : ApiStates, op : {"activate", "rollback", "reload"},
                slot : Slots, generation : Int, copy : Manifest]
    /\ served \in [slot : Slots, generation : Int] \cup {NoService}
    /\ search \in [pc : {"idle", "gate", "read"}, slot : Slots,
                   vec : Index, bm25 : Index, writer : Int]
    /\ writer \in [Slots -> Int]
    /\ outrun \in SUBSET {"route", "operation"}

Init ==
    /\ manifest = DefaultManifest
    /\ vec = [s \in Slots |-> IF s = "a" THEN LegacyA ELSE Absent]
    /\ bm25 = [s \in Slots |-> IF s = "a" THEN LegacyA ELSE Absent]
    /\ gate = [s \in Slots |-> "none"]
    /\ run = 0
    /\ ing = IdleIng
    /\ requests = {}
    /\ api = IdleApi
    /\ served = NoService
    /\ search = IdleSearch
    /\ writer = [s \in Slots |-> IF s = "a" THEN LegacyA ELSE NoGeneration]
    /\ outrun = {}

-----------------------------------------------------------------------------
(* The shadow-ingestion process: run_shadow_ingestion. *)

\* The container starts, whatever the API is doing; ensure_generation_state
\* leaves the manifest as is.
StartRun ==
    /\ ing.pc = "idle"
    /\ run < MaxRuns
    /\ run' = run + 1
    /\ ing' = [ing EXCEPT !.pc = "seed", !.slot = Other(manifest.active)]
    /\ UNCHANGED <<manifest, indexes, requests, api, served, search, history>>

\* seed_candidate_from_active: a first seeding that died between the two
\* copies left one index without the other.  Both are dropped, then copied.
SeedDrop ==
    /\ ing.pc = "seed"
    /\ (vec[ing.slot] = Absent) # (bm25[ing.slot] = Absent)
    /\ manifest.status[ing.slot] = "empty"
    /\ vec' = [vec EXCEPT ![ing.slot] = Absent]
    /\ bm25' = [bm25 EXCEPT ![ing.slot] = Absent]
    /\ UNCHANGED <<manifest, gate, run, ing, requests, api, served, search, history>>

\* clone_to: CREATE TABLE and INSERT ... SELECT commit together.
SeedClone ==
    /\ ing.pc = "seed"
    /\ vec[ing.slot] = Absent
    /\ bm25[ing.slot] = Absent
    /\ vec' = [vec EXCEPT ![ing.slot] = vec[Other(ing.slot)]]
    /\ ing' = [ing EXCEPT !.pc = "backup"]
    /\ UNCHANGED <<manifest, bm25, gate, run, requests, api, served, search, history>>

\* sqlite3.connect creates the candidate file before the backup fills it.
SeedBackupBegins ==
    /\ ing.pc = "backup"
    /\ bm25' = [bm25 EXCEPT ![ing.slot] = Partial]
    /\ ing' = [ing EXCEPT !.pc = "copy"]
    /\ UNCHANGED <<manifest, vec, gate, run, requests, api, served, search, history>>

SeedBackupEnds ==
    /\ ing.pc = "copy"
    /\ bm25' = [bm25 EXCEPT ![ing.slot] = bm25[Other(ing.slot)]]
    /\ ing' = [ing EXCEPT !.pc = "seed"]
    /\ UNCHANGED <<manifest, vec, gate, run, requests, api, served, search, history>>

\* Both indexes exist.  candidate_generation reads the manifest again, and
\* _ingest_mysql_source reopens a gate that an earlier run left behind.
ResolveCandidate ==
    /\ ing.pc = "seed"
    /\ vec[ing.slot] # Absent
    /\ bm25[ing.slot] # Absent
    /\ LET s == Other(manifest.active) IN
       /\ ing' = [ing EXCEPT !.pc = "scan", !.slot = s]
       /\ gate' = [gate EXCEPT ![s] = IF @ = "none" THEN @ ELSE "running"]
    /\ UNCHANGED <<manifest, vec, bm25, run, requests, api, served, search, history>>

\* Fault: a scan with nothing to embed returns before the deletions.
OpenGate_EarlyReturn ==
    /\ ing.pc = "scan"
    /\ gate' = [gate EXCEPT ![ing.slot] = "running"]
    /\ writer' = [writer EXCEPT ![ing.slot] = run]
    /\ ing' = [ing EXCEPT !.pc = "complete"]
    /\ UNCHANGED <<manifest, vec, bm25, run, requests, api, served, search, outrun>>

\* ensure_consistency_gate, before the first row is written or deleted.  A
\* scan that finds nothing to embed still passes here, before the deletions.
OpenGate ==
    /\ ing.pc = "scan"
    /\ gate' = [gate EXCEPT ![ing.slot] = "running"]
    /\ writer' = [writer EXCEPT ![ing.slot] = run]
    /\ ing' = [ing EXCEPT !.pc = "write"]
    /\ UNCHANGED <<manifest, vec, bm25, run, requests, api, served, search, outrun>>

\* flush_batch: the vectors of a batch commit before its BM25 rows do.
FlushVectors ==
    /\ ing.pc = "write"
    /\ vec' = [vec EXCEPT ![ing.slot] = Partial]
    /\ UNCHANGED <<manifest, bm25, gate, run, ing, requests, api, served, search, history>>

FlushBM25 ==
    /\ ing.pc = "write"
    /\ bm25' = [bm25 EXCEPT ![ing.slot] = Partial]
    /\ UNCHANGED <<manifest, vec, gate, run, ing, requests, api, served, search, history>>

\* reconcile_deleted_documents ends the scan: first the vectors that the
\* source no longer has, then the BM25 rows.
ReconcileVectors ==
    /\ ing.pc = "write"
    /\ vec' = [vec EXCEPT ![ing.slot] = run]
    /\ ing' = [ing EXCEPT !.pc = "reconcile"]
    /\ UNCHANGED <<manifest, bm25, gate, run, requests, api, served, search, history>>

ReconcileBM25 ==
    /\ ing.pc = "reconcile"
    /\ bm25' = [bm25 EXCEPT ![ing.slot] = run]
    /\ ing' = [ing EXCEPT !.pc = "complete"]
    /\ UNCHANGED <<manifest, vec, gate, run, requests, api, served, search, history>>

\* complete_ingestion unlinks the state file.
CompleteIngestion ==
    /\ ing.pc = "complete"
    /\ gate' = [gate EXCEPT ![ing.slot] = "none"]
    /\ ing' = [ing EXCEPT !.pc = "validate"]
    /\ UNCHANGED <<manifest, vec, bm25, run, requests, api, served, search, history>>

\* Fault: the state file is removed on the error path as well.
FailIngestion_Unlinks ==
    /\ ing.pc \in {"scan", "write", "reconcile"}
    /\ gate' = [gate EXCEPT ![ing.slot] = "none"]
    /\ ing' = IdleIng
    /\ UNCHANGED <<manifest, vec, bm25, run, requests, api, served, search, history>>

\* An exception while ingesting: fail_ingestion keeps the gate closed.
FailIngestion ==
    /\ ing.pc \in {"scan", "write", "reconcile"}
    /\ gate' = [gate EXCEPT ![ing.slot] = IF @ = "none" THEN @ ELSE "failed"]
    /\ ing' = IdleIng
    /\ UNCHANGED <<manifest, vec, bm25, run, requests, api, served, search, history>>

\* validate_and_warm_candidate on whatever slot is inactive when it looks.
\* Its verdict on counts and recall is not determined by the model; it cannot
\* be favourable for a slot whose indexes do not both exist.
ValidateCandidate ==
    /\ ing.pc = "validate"
    /\ vec[Other(manifest.active)] # Absent
    /\ bm25[Other(manifest.active)] # Absent
    /\ ing' = [ing EXCEPT !.pc = "record"]
    /\ UNCHANGED <<manifest, indexes, run, requests, api, served, search, history>>

\* record_candidate_ready reads the manifest (and refuses the active slot) ...
RecordRead ==
    /\ ing.pc = "record"
    /\ ing' = IF ing.slot = manifest.active
              THEN IdleIng
              ELSE [ing EXCEPT !.pc = "publish", !.copy = manifest]
    /\ UNCHANGED <<manifest, indexes, run, requests, api, served, search, history>>

\* ... and replaces it by its updated copy.
RecordedManifest(m, s, g) ==
    [m EXCEPT !.generation = [m.generation EXCEPT ![s] = g],
              !.status = [m.status EXCEPT ![s] = "ready"]]

RecordPublish ==
    /\ ing.pc = "publish"
    /\ manifest' = RecordedManifest(ing.copy, ing.slot, run)
    /\ ing' = [ing EXCEPT !.pc = "activate"]
    /\ outrun' = IF ing.copy.active = manifest.active
                 THEN outrun
                 ELSE {"route", "operation"}
    /\ UNCHANGED <<indexes, run, requests, api, served, search, writer>>

\* activate_candidate (ingestion): POST admin/reload-index.
PostActivation ==
    /\ ing.pc = "activate"
    /\ requests' = requests \cup {[slot |-> ing.slot, generation |-> run]}
    /\ ing' = [ing EXCEPT !.pc = "await"]
    /\ UNCHANGED <<manifest, indexes, run, api, served, search, history>>

\* Fault: the run polls until the pool serves its generation.
ActivationReturns_Polls ==
    /\ ing.pc = "await"
    /\ served.generation = run
    /\ ing' = IdleIng
    /\ UNCHANGED <<manifest, indexes, run, requests, api, served, search, history>>

\* The response, the broken connection or the 180 s timeout ends the run; the
\* API may still be working on the request then.
ActivationReturns ==
    /\ ing.pc = "await"
    /\ ing' = IdleIng
    /\ UNCHANGED <<manifest, indexes, run, requests, api, served, search, history>>

\* The container is stopped, or an exception outside the ingestion proper (a
\* failed validation, for one) ends the run: every file stays as it is.
KillRun ==
    /\ ing.pc # "idle"
    /\ ing' = IdleIng
    /\ UNCHANGED <<manifest, indexes, run, requests, api, served, search, history>>

-----------------------------------------------------------------------------
(* The API process: TenantServicePool, one operation under _reload_lock. *)

\* ProductSearchService.readiness of a service on slot s: no gate, and both
\* indexes have rows.
Ready(s) ==
    /\ gate[s] = "none"
    /\ vec[s] # Absent
    /\ bm25[s] # Absent

Activatable(m, s, g) ==
    /\ s # m.active
    /\ m.status[s] = "ready"
    /\ m.generation[s] = g

ActivateBegin(r) ==
    /\ api.pc = "idle"
    /\ r \in requests
    /\ requests' = requests \ {r}
    /\ IF Activatable(manifest, r.slot, r.generation)
       THEN api' = [api EXCEPT !.pc = "build", !.op = "activate",
                               !.slot = r.slot, !.generation = r.generation]
       ELSE UNCHANGED api
    /\ UNCHANGED <<manifest, indexes, run, ing, served, search, history>>

RollbackBegin ==
    /\ api.pc = "idle"
    /\ manifest.previous \in Slots \ {manifest.active}
    /\ manifest.generation[manifest.previous] # NoGeneration
    /\ api' = [api EXCEPT !.pc = "build", !.op = "rollback",
                          !.slot = manifest.previous,
                          !.generation = manifest.generation[manifest.previous]]
    /\ UNCHANGED <<manifest, indexes, run, ing, requests, served, search, history>>

ActiveService ==
    [slot |-> manifest.active, generation |-> manifest.generation[manifest.active]]

\* reload_generation of a service that already serves the active generation
\* answers "unchanged" and is no step here.
ReloadBegin ==
    /\ api.pc = "idle"
    /\ served # ActiveService
    /\ api' = [api EXCEPT !.pc = "build", !.op = "reload",
                          !.slot = manifest.active,
                          !.generation = manifest.generation[manifest.active]]
    /\ outrun' = outrun \ {"operation"}
    /\ UNCHANGED <<manifest, indexes, run, ing, requests, served, search, writer>>

\* _build_service and readiness(), outside the routing lock.
BuildReady ==
    /\ api.pc = "build"
    /\ Ready(api.slot)
    /\ api' = [api EXCEPT !.pc = "commit"]
    /\ UNCHANGED <<manifest, indexes, run, ing, requests, served, search, history>>

\* The slot is not ready, or an engine, a count or the database fails.
BuildFails ==
    /\ api.pc = "build"
    /\ api' = IdleApi
    /\ UNCHANGED <<manifest, indexes, run, ing, requests, served, search, history>>

\* promote_candidate and restore_active_slot read the manifest again under
\* _lock; only the promotion checks what it finds there.
CommitRead ==
    /\ api.pc = "commit"
    /\ api.op \in {"activate", "rollback"}
    /\ api' = IF api.op = "activate"
                 /\ ~Activatable(manifest, api.slot, api.generation)
              THEN IdleApi
              ELSE [api EXCEPT !.pc = "publish", !.copy = manifest]
    /\ UNCHANGED <<manifest, indexes, run, ing, requests, served, search, history>>

PromotedManifest(m, s) ==
    [m EXCEPT !.active = s, !.previous = m.active,
              !.status = [m.status EXCEPT ![s] = "active", ![m.active] = "standby"]]

\* Fault: the slot rolled back from keeps its status.
RestoredManifest_KeepsStatus(m, s) ==
    [m EXCEPT !.active = s, !.previous = m.active,
              !.status = [m.status EXCEPT ![s] = "active"]]

RestoredManifest(m, s) ==
    [m EXCEPT !.active = s, !.previous = m.active,
              !.status = [t \in Slots |-> IF t = s THEN "active"
                                          ELSE IF t = m.active THEN "ready"
                                          ELSE m.status[t]]]

ApiService == [slot |-> api.slot, generation |-> api.generation]

\* The manifest is replaced and the route swapped under the same _lock.
CommitPublish ==
    /\ api.pc = "publish"
    /\ manifest' = IF api.op = "activate"
                   THEN PromotedManifest(api.copy, api.slot)
                   ELSE RestoredManifest(api.copy, api.slot)
    /\ served' = ApiService
    /\ api' = IdleApi
    /\ outrun' = {}
    /\ UNCHANGED <<indexes, run, ing, requests, search, writer>>

ReloadSwap ==
    /\ api.pc = "commit"
    /\ api.op = "reload"
    /\ served' = ApiService
    /\ api' = IdleApi
    /\ outrun' = IF "operation" \in outrun THEN outrun \cup {"route"} ELSE {}
    /\ UNCHANGED <<manifest, indexes, run, ing, requests, search, writer>>

\* The API process dies: its services, its operation, and every request in
\* it are gone.
ApiCrash ==
    /\ api' = IdleApi
    /\ served' = NoService
    /\ requests' = {}
    /\ search' = IdleSearch
    /\ outrun' = {}
    /\ UNCHANGED <<manifest, indexes, run, ing, writer>>

-----------------------------------------------------------------------------
(* A search. *)

\* TenantServicePool.get: the routed service, or one built on the active slot
\* without a readiness check.
SearchGet ==
    /\ search.pc = "idle"
    /\ served' = IF served = NoService THEN ActiveService ELSE served
    /\ search' = [IdleSearch EXCEPT !.pc = "gate", !.slot = served'.slot]
    /\ outrun' = IF served = NoService THEN outrun \ {"route"} ELSE outrun
    /\ UNCHANGED <<manifest, indexes, run, ing, requests, api, writer>>

\* run_engine_search: the gate file is looked at once; 503 if it is there.
SearchGate ==
    /\ search.pc = "gate"
    /\ search' = IF gate[search.slot] = "none"
                 THEN [search EXCEPT !.pc = "read", !.writer = writer[search.slot]]
                 ELSE IdleSearch
    /\ UNCHANGED <<manifest, indexes, run, ing, requests, api, served, history>>

\* retrieve: the two paths read in parallel threads, in either order.
SearchVectors ==
    /\ search.pc = "read"
    /\ search.vec = Absent
    /\ search' = [search EXCEPT !.vec = vec[search.slot]]
    /\ UNCHANGED <<manifest, indexes, run, ing, requests, api, served, history>>

SearchBM25 ==
    /\ search.pc = "read"
    /\ search.bm25 = Absent
    /\ search' = [search EXCEPT !.bm25 = bm25[search.slot]]
    /\ UNCHANGED <<manifest, indexes, run, ing, requests, api, served, history>>

SearchReturns ==
    /\ search.pc = "read"
    /\ search.vec # Absent
    /\ search.bm25 # Absent
    /\ search' = IdleSearch
    /\ UNCHANGED <<manifest, indexes, run, ing, requests, api, served, history>>

-----------------------------------------------------------------------------
IngestionStep ==
    \/ SeedDrop \/ SeedClone \/ SeedBackupBegins \/ SeedBackupEnds
    \/ ResolveCandidate \/ OpenGate \/ ReconcileVectors \/ ReconcileBM25
    \/ CompleteIngestion \/ ValidateCandidate \/ RecordRead \/ RecordPublish
    \/ PostActivation \/ ActivationReturns

ApiStep ==
    \/ \E r \in requests : ActivateBegin(r)
    \/ BuildReady \/ BuildFails \/ CommitRead \/ CommitPublish \/ ReloadSwap

SearchStep == SearchGate \/ SearchVectors \/ SearchBM25 \/ SearchReturns

Next ==
    \/ IngestionStep \/ StartRun \/ FlushVectors \/ FlushBM25
    \/ FailIngestion \/ KillRun
    \/ ApiStep \/ RollbackBegin \/ ReloadBegin \/ ApiCrash
    \/ SearchStep \/ SearchGet

Spec == Init /\ [][Next]_vars

\* An ingestion process that is not killed goes on, and so do the API's own
\* threads; runs, operators, crashes and searches come when they come.
FairSpec == Spec /\ WF_vars(IngestionStep) /\ WF_vars(ApiStep)

-----------------------------------------------------------------------------
(* What holds whatever overlaps. *)

\* A published manifest marks exactly its active slot "active" and names a
\* generation for it, even though record_candidate_ready, promote_candidate
\* and restore_active_slot overwrite one another's updates.
ActiveIsMarked ==
    /\ manifest.status[manifest.active] = "active"
    /\ manifest.status[Other(manifest.active)] # "active"
    /\ manifest.generation[manifest.active] # NoGeneration

Torn(s) == vec[s] # bm25[s] \/ vec[s] = Partial

\* After a kill, an error or a failed seeding at any point, a slot whose two
\* indexes do not hold one and the same complete scan is behind its gate file,
\* or the manifest still calls it empty (seed_candidate_from_active).
GateCoversDamage ==
    \A s \in Slots : Torn(s) => gate[s] # "none" \/ manifest.status[s] = "empty"

\* The inductive invariant behind the two: it speaks about the published
\* manifest and about the copies that the processes hold.
WellFormed(m) ==
    /\ m.status[m.active] = "active"
    /\ m.status[Other(m.active)] # "active"
    /\ m.status["a"] # "empty"
    /\ \A s \in Slots : m.generation[s] = NoGeneration <=> m.status[s] = "empty"

\* Some copy of the manifest lets slot s be served one day.
Usable(s) ==
    \/ manifest.status[s] # "empty"
    \/ ing.copy.status[s] # "empty"
    \/ api.copy.status[s] # "empty"
    \/ api.pc # "idle" /\ api.slot = s

CopiesWellFormed == WellFormed(manifest) /\ WellFormed(ing.copy) /\ WellFormed(api.copy)

UsableIsCovered ==
    \A s \in Slots : Usable(s) => /\ vec[s] # Absent
                                  /\ bm25[s] # Absent
                                  /\ Torn(s) => gate[s] # "none"

SeedsUnusable == ing.pc \in {"backup", "copy"} => ~Usable(ing.slot)

ScanProgress ==
    /\ ing.pc \in {"write", "reconcile", "complete"} => gate[ing.slot] # "none"
    /\ ing.pc \in {"reconcile", "complete", "validate", "record", "publish"} =>
         vec[ing.slot] = run
    /\ ing.pc \in {"complete", "validate", "record", "publish"} =>
         bm25[ing.slot] = run

CopyIsUsable ==
    /\ ing.pc = "publish" => ing.copy.active # ing.slot
    /\ api.pc # "idle" => manifest.status[api.slot] # "empty"
    /\ api.pc = "publish" => api.copy.status[api.slot] # "empty"
    /\ api.pc = "publish" /\ api.op = "activate" => api.slot # api.copy.active

IInv ==
    /\ TypeOK
    /\ CopiesWellFormed
    /\ UsableIsCovered
    /\ SeedsUnusable
    /\ ScanProgress
    /\ CopyIsUsable

-----------------------------------------------------------------------------
(* What requests meet while runs, activations, rollbacks and reloads overlap. *)

\* The pool routes requests to the manifest's active slot, through promotions,
\* rollbacks, reloads, lost services and restarts: the only thing that parts
\* them is a run whose record puts back an active slot that the API has
\* changed since the run read the manifest.
RouteFollowsManifest ==
    served # NoService /\ "route" \notin outrun => served.slot = manifest.active

\* A search that was let in by the gate gets its vectors and its BM25 rows
\* from one and the same complete scan, also when the route is swapped, a run
\* fails or a process dies while it reads, as long as no run opens the gate of
\* the slot it reads after it was let in.
SearchSeesOneScan ==
    /\ search.vec # Absent
    /\ search.bm25 # Absent
    /\ writer[search.slot] = search.writer
    => search.vec = search.bm25 /\ search.vec # Partial

\* The slot holds exactly the scan that the generation is named after, and no
\* gate is in front of it.
HoldsScan(s, g) == vec[s] = g /\ bm25[s] = g /\ gate[s] = "none"

\* Requests are routed to a generation, by an activation, a rollback, a reload
\* or the first request, only with exactly the scan that the run of that name
\* wrote and had validated, in both indexes and ungated, unless a later run has
\* begun to write on the slot.  (Validation looks at the slot that is inactive at
\* that moment: with a rollback before it and another after it, that is not the
\* slot the run has written and records.)
PromotesWhatWasValidated ==
    [][ served' # served /\ served' # NoService =>
          \/ HoldsScan(served'.slot, served'.generation)
          \/ writer[served'.slot] > served'.generation ]_vars

\* The inductive invariant behind these, next to IInv.  A name g of slot s is
\* never younger than the last run that wrote on s, and true if it is that run.
NameIsTrue(s, g) == g <= writer[s] /\ (g = writer[s] => HoldsScan(s, g))

ManifestNames(m) ==
    \A s \in Slots : m.generation[s] # NoGeneration => NameIsTrue(s, m.generation[s])

NamesAreTrue ==
    /\ ManifestNames(manifest)
    /\ ing.pc = "publish" => ManifestNames(ing.copy)
    /\ api.pc = "publish" => ManifestNames(api.copy)
    /\ api.pc # "idle" => NameIsTrue(api.slot, api.generation)
    /\ \A r \in requests : NameIsTrue(r.slot, r.generation)

WriterProgress ==
    /\ \A s \in Slots : writer[s] <= run
    /\ ing.pc \in {"seed", "backup", "copy", "scan"} =>
         \A s \in Slots : writer[s] < run
    /\ ing.pc \in {"write", "reconcile", "complete", "validate", "record",
                   "publish", "activate"} => writer[ing.slot] = run
    /\ ing.pc \in {"validate", "record", "publish", "activate"} => HoldsScan(ing.slot, run)

\* Once both slots have been filled no copy of the manifest forgets one.
BothFilled(m) == \A s \in Slots : m.status[s] # "empty"

SlotsFilled ==
    /\ manifest.previous # NoSlot => BothFilled(manifest)
    /\ requests # {} => BothFilled(manifest)
    /\ ing.pc = "activate" => BothFilled(manifest)
    /\ api.pc # "idle" /\ api.op # "reload" => BothFilled(manifest)
    /\ api.pc = "publish" => api.op # "reload" /\ BothFilled(api.copy)
    /\ served # NoService => manifest.status[served.slot] # "empty"
    /\ search.pc # "idle" => manifest.status[search.slot] # "empty"

RouteInv ==
    /\ RouteFollowsManifest
    /\ api.pc # "idle" /\ api.op = "reload" /\ "operation" \notin outrun =>
         api.slot = manifest.active

SearchInv ==
    /\ search.pc # "read" => search.vec = Absent /\ search.bm25 = Absent
    /\ search.pc = "read" => search.writer <= writer[search.slot]
    /\ search.pc = "read" /\ search.writer = writer[search.slot] =>
         /\ ~Torn(search.slot)
         /\ ing.pc \in {"write", "reconcile", "complete"} => ing.slot # search.slot
         /\ search.vec \in {Absent, vec[search.slot]}
         /\ search.bm25 \in {Absent, bm25[search.slot]}

OverlapInv ==
    /\ NamesAreTrue
    /\ WriterProgress
    /\ SlotsFilled
    /\ RouteInv
    /\ SearchInv

\* A run does not wait for the API for ever and never gets stuck on what an
\* earlier run left behind: each one ends, whether the API promotes, refuses,
\* fails to build or dies (the timeout of activate_candidate's request).
EveryRunEnds == ing.pc # "idle" ~> ing.pc = "idle"

\* What the manifest, the gates and the route say of the two slots is true in
\* every state a kill, a lost manifest update or a failed activation can leave.
IndexInv ==
    /\ TypeOK
    /\ ActiveIsMarked
    /\ GateCoversDamage
    /\ RouteFollowsManifest

-----------------------------------------------------------------------------
(* What the documentation says and the code does not keep. *)

\* docs/architecture.md: "The active generation remains read-only to ingestion
\* and continues serving."  No step changes the indexes or the gate of the
\* slot the pool routes requests to.  Not kept: a run takes no lock that the API
\* takes, so a rollback, or an activation that outlived its request, may route
\* requests to the slot that the run is about to write.
ServingIsReadOnly ==
    [][ served.slot \in Slots /\ served' = served =>
          /\ vec'[served.slot] = vec[served.slot]
          /\ bm25'[served.slot] = bm25[served.slot]
          /\ gate'[served.slot] = gate[served.slot] ]_vars

\* docs/production_search_operations.md: "the previous generation is retained
\* as the next standby and immediate rollback target".  Not kept: a run that
\* fails validation has rewritten the standby slot under its old token.
ServedIsItsGeneration ==
    served # NoService => /\ vec[served.slot] = served.generation
                          /\ bm25[served.slot] = served.generation
=============================================================================
