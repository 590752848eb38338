---------------------- MODULE IndexGenerations_proofs ----------------------
(***************************************************************************)
(* Proofs that the manifest stays well formed, that a damaged slot is      *)
(* always behind its gate, and of what the route and a search may rely on, *)
(* for any number of runs and whatever overlaps. The second part goes into *)
(* a slot: the rows of its two indexes (IngestionRows).                    *)
(***************************************************************************)
EXTENDS IndexGenerations, IngestionRows, WellFoundedInduction, TLAPS

\* Other is the other slot.
LEMMA OtherSlot == \A s \in Slots : Other(s) \in Slots /\ Other(s) # s
  BY DEF Slots, Other

\* The default manifest is a manifest and is well formed.
LEMMA DefaultWellFormed == DefaultManifest \in Manifest /\ WellFormed(DefaultManifest)
  BY DEF DefaultManifest, Manifest, WellFormed, Slots, Other, Statuses, NoSlot,
         LegacyA, NoGeneration

\* record_candidate_ready on a well-formed manifest whose active slot is the
\* other one leaves a well-formed manifest in which no slot is empty.
LEMMA RecordKeepsWellFormed ==
  ASSUME NEW m \in Manifest, WellFormed(m), NEW s \in Slots, s # m.active,
         NEW g \in Nat
  PROVE  /\ RecordedManifest(m, s, g) \in Manifest
         /\ WellFormed(RecordedManifest(m, s, g))
         /\ \A t \in Slots : RecordedManifest(m, s, g).status[t] # "empty"
  <1> DEFINE r == RecordedManifest(m, s, g)
  <1>1. /\ r \in Manifest
        /\ r.active = m.active
        /\ \A t \in Slots : r.status[t] = IF t = s THEN "ready" ELSE m.status[t]
        /\ \A t \in Slots : r.generation[t] = IF t = s THEN g ELSE m.generation[t]
    <2>1. /\ m.status \in [Slots -> Statuses]
          /\ m.generation \in [Slots -> Int]
          /\ DOMAIN m = {"active", "previous", "generation", "status"}
      BY DEF Manifest
    <2>2. /\ [m.status EXCEPT ![s] = "ready"] \in [Slots -> Statuses]
          /\ [m.generation EXCEPT ![s] = g] \in [Slots -> Int]
      BY <2>1 DEF Statuses
    <2>3. /\ r.active = m.active
          /\ r.previous = m.previous
          /\ r.generation = [m.generation EXCEPT ![s] = g]
          /\ r.status = [m.status EXCEPT ![s] = "ready"]
      BY <2>1 DEF RecordedManifest, Manifest
    <2>4. r \in Manifest
      BY <2>2 DEF RecordedManifest, Manifest
    <2> QED
      BY <2>1, <2>3, <2>4
  <1>2. m.active \in Slots /\ Other(m.active) \in Slots /\ m.active = Other(s)
    BY DEF Manifest, Slots, Other
  <1>3. r.status[m.active] = "active" /\ r.status[Other(m.active)] # "active"
    BY <1>1, <1>2 DEF WellFormed, Slots, Other
  <1>4. \A t \in Slots : r.generation[t] = NoGeneration <=> r.status[t] = "empty"
    BY <1>1 DEF WellFormed, NoGeneration
  <1>5. \A t \in Slots : r.status[t] # "empty"
    BY <1>1, <1>2 DEF WellFormed, Slots, Other
  <1> QED
    BY <1>1, <1>3, <1>4, <1>5 DEF WellFormed, Slots

\* promote_candidate on a ready slot keeps the manifest well formed and
\* empties no slot.
LEMMA PromoteKeepsWellFormed ==
  ASSUME NEW m \in Manifest, WellFormed(m), NEW s \in Slots, m.status[s] # "empty"
  PROVE  LET p == PromotedManifest(m, s) IN
         s # m.active =>
           /\ p \in Manifest
           /\ WellFormed(p)
           /\ \A t \in Slots : p.status[t] # "empty" => m.status[t] # "empty"
           /\ \A t \in Slots : m.status[t] # "empty" => p.status[t] # "empty"
  BY DEF PromotedManifest, Manifest, WellFormed, Slots, Other, Statuses, NoGeneration

\* So does restore_active_slot, whichever initialised slot it is given.
LEMMA RestoreKeepsWellFormed ==
  ASSUME NEW m \in Manifest, WellFormed(m), NEW s \in Slots, m.status[s] # "empty"
  PROVE  LET p == RestoredManifest(m, s) IN
           /\ p \in Manifest
           /\ WellFormed(p)
           /\ \A t \in Slots : p.status[t] # "empty" => m.status[t] # "empty"
           /\ \A t \in Slots : m.status[t] # "empty" => p.status[t] # "empty"
  BY DEF RestoredManifest, Manifest, WellFormed, Slots, Other, Statuses, NoGeneration

\* A process that is idle holds the default manifest, which makes no slot
\* usable that the published manifest does not.
LEMMA IdleFacts ==
  /\ IdleIng \in [pc : IngStates, slot : Slots, copy : Manifest]
  /\ IdleIng.pc = "idle" /\ IdleIng.copy = DefaultManifest
  /\ IdleApi \in [pc : ApiStates, op : {"activate", "rollback", "reload"},
                  slot : Slots, generation : Int, copy : Manifest]
  /\ IdleApi.pc = "idle" /\ IdleApi.copy = DefaultManifest
  /\ IdleSearch \in [pc : {"idle", "gate", "read"}, slot : Slots,
                     vec : Index, bm25 : Index, writer : Int]
  /\ IdleSearch.pc = "idle" /\ IdleSearch.vec = Absent /\ IdleSearch.bm25 = Absent
  /\ \A s \in Slots : DefaultManifest.status[s] # "empty" => s = "a"
  BY DefaultWellFormed
     DEF IdleIng, IdleApi, IdleSearch, IngStates, ApiStates, Slots,
         Index, Absent, NoSlot, NoGeneration, DefaultManifest

-----------------------------------------------------------------------------
(* The invariant is inductive: one lemma per action. *)

\* Initially slot "a" is complete and slot "b" is absent and empty.
LEMMA InitEstablishes == Init => IInv
<1> SUFFICES ASSUME Init PROVE IInv
  OBVIOUS
<1> USE DefaultWellFormed, IdleFacts DEF Init
<1>1. TypeOK
  BY DEF TypeOK, Index, Slots, LegacyA, Absent, NoGeneration
<1>2. CopiesWellFormed
  BY DEF CopiesWellFormed
<1>3. UsableIsCovered
  BY DEF UsableIsCovered, Usable, Torn, Slots, LegacyA, Absent, Partial
<1>4. SeedsUnusable /\ ScanProgress /\ CopyIsUsable
  BY DEF SeedsUnusable, ScanProgress, CopyIsUsable
<1> QED
  BY <1>1, <1>2, <1>3, <1>4 DEF IInv

\* StartRun: The run number grows; no scan is under way.
LEMMA StartRunKeeps == IInv /\ StartRun => IInv'
<1> SUFFICES ASSUME IInv, StartRun PROVE IInv'
  OBVIOUS
<1>0. manifest.active \in Slots /\ Other(manifest.active) \in Slots
  BY OtherSlot DEF IInv, TypeOK, Manifest
<1> USE OtherSlot, DefaultWellFormed, IdleFacts DEF IInv, StartRun, indexes, history
<1>1. TypeOK'
  <2>1. run' \in Nat
    BY DEF TypeOK
  <2>2. ing' \in [pc : IngStates, slot : Slots, copy : Manifest]
    <3>1. ing' = [ing EXCEPT !.pc = "seed", !.slot = Other(manifest.active)]
      OBVIOUS
    <3>2. ing \in [pc : IngStates, slot : Slots, copy : Manifest] /\ "seed" \in IngStates
      BY DEF TypeOK, IngStates
    <3> HIDE DEF IInv, StartRun
    <3> QED
      BY <1>0, <3>1, <3>2
  <2> QED
    BY <2>1, <2>2 DEF TypeOK
<1>2. CopiesWellFormed'
  BY DEF TypeOK, CopiesWellFormed
<1>3. UsableIsCovered'
  BY <1>0 DEF TypeOK, UsableIsCovered, Usable, Torn, WellFormed, CopiesWellFormed,
         CopyIsUsable, Activatable
<1>4. SeedsUnusable'
  BY <1>0 DEF TypeOK, SeedsUnusable, Usable, CopiesWellFormed, WellFormed, Activatable
<1>5. ScanProgress'
  BY DEF TypeOK, ScanProgress
<1>6. CopyIsUsable'
  BY <1>0 DEF TypeOK, CopyIsUsable, CopiesWellFormed, WellFormed, Activatable
<1> QED
  BY <1>1, <1>2, <1>3, <1>4, <1>5, <1>6

\* SeedDrop: Only a slot that no copy of the manifest lets be served is dropped.
LEMMA SeedDropKeeps == IInv /\ SeedDrop => IInv'
  BY OtherSlot
     DEF IInv, TypeOK, CopiesWellFormed, UsableIsCovered, SeedsUnusable,
         ScanProgress, CopyIsUsable, Usable, Torn, WellFormed, SeedDrop,
         indexes, history, IngStates, ApiStates, Index, Absent, Partial, Manifest, Ready

\* SeedClone: The slot being seeded has no table, so it is not usable.
LEMMA SeedCloneKeeps == IInv /\ SeedClone => IInv'
  BY OtherSlot
     DEF IInv, TypeOK, CopiesWellFormed, UsableIsCovered, SeedsUnusable,
         ScanProgress, CopyIsUsable, Usable, Torn, WellFormed, SeedClone,
         indexes, history, IngStates, ApiStates, Index, Absent, Partial, Manifest, Ready

\* SeedBackupBegins: Still the slot that is not usable.
LEMMA SeedBackupBeginsKeeps == IInv /\ SeedBackupBegins => IInv'
  BY OtherSlot
     DEF IInv, TypeOK, CopiesWellFormed, UsableIsCovered, SeedsUnusable,
         ScanProgress, CopyIsUsable, Usable, Torn, WellFormed, SeedBackupBegins,
         indexes, history, IngStates, ApiStates, Index, Absent, Partial, Manifest, Ready

\* SeedBackupEnds: Still the slot that is not usable.
LEMMA SeedBackupEndsKeeps == IInv /\ SeedBackupEnds => IInv'
  BY OtherSlot
     DEF IInv, TypeOK, CopiesWellFormed, UsableIsCovered, SeedsUnusable,
         ScanProgress, CopyIsUsable, Usable, Torn, WellFormed, SeedBackupEnds,
         indexes, history, IngStates, ApiStates, Index, Absent, Partial, Manifest, Ready

\* ResolveCandidate: A gate that is there stays there.
LEMMA ResolveCandidateKeeps == IInv /\ ResolveCandidate => IInv'
<1> SUFFICES ASSUME IInv, ResolveCandidate PROVE IInv'
  OBVIOUS
<1>0. manifest.active \in Slots /\ Other(manifest.active) \in Slots
  BY OtherSlot DEF IInv, TypeOK, Manifest
<1> USE OtherSlot, DefaultWellFormed, IdleFacts DEF IInv, ResolveCandidate, indexes, history
<1>1. TypeOK'
  BY <1>0 DEF TypeOK, IngStates, ApiStates, Index, Absent, Partial, ActiveService,
         ApiService, Activatable
<1>2. CopiesWellFormed'
  BY DEF TypeOK, CopiesWellFormed
<1>3. UsableIsCovered'
  BY <1>0 DEF TypeOK, UsableIsCovered, Usable, Torn, WellFormed, CopiesWellFormed,
         CopyIsUsable, Activatable
<1>4. SeedsUnusable'
  BY <1>0 DEF TypeOK, SeedsUnusable, Usable, CopiesWellFormed, WellFormed, Activatable
<1>5. ScanProgress'
  BY DEF TypeOK, ScanProgress
<1>6. CopyIsUsable'
  BY <1>0 DEF TypeOK, CopyIsUsable, CopiesWellFormed, WellFormed, Activatable
<1> QED
  BY <1>1, <1>2, <1>3, <1>4, <1>5, <1>6

\* OpenGate: The gate of the slot is closed before it is written.
LEMMA OpenGateKeeps == IInv /\ OpenGate => IInv'
  BY OtherSlot
     DEF IInv, TypeOK, CopiesWellFormed, UsableIsCovered, SeedsUnusable,
         ScanProgress, CopyIsUsable, Usable, Torn, WellFormed, OpenGate,
         indexes, history, IngStates, ApiStates, Index, Absent, Partial, Manifest, Ready

\* FlushVectors: The slot is torn behind its gate.
LEMMA FlushVectorsKeeps == IInv /\ FlushVectors => IInv'
  BY OtherSlot
     DEF IInv, TypeOK, CopiesWellFormed, UsableIsCovered, SeedsUnusable,
         ScanProgress, CopyIsUsable, Usable, Torn, WellFormed, FlushVectors,
         indexes, history, IngStates, ApiStates, Index, Absent, Partial, Manifest, Ready

\* FlushBM25: The slot is torn behind its gate.
LEMMA FlushBM25Keeps == IInv /\ FlushBM25 => IInv'
  BY OtherSlot
     DEF IInv, TypeOK, CopiesWellFormed, UsableIsCovered, SeedsUnusable,
         ScanProgress, CopyIsUsable, Usable, Torn, WellFormed, FlushBM25,
         indexes, history, IngStates, ApiStates, Index, Absent, Partial, Manifest, Ready

\* ReconcileVectors: The vectors hold this run's scan.
LEMMA ReconcileVectorsKeeps == IInv /\ ReconcileVectors => IInv'
  BY OtherSlot
     DEF IInv, TypeOK, CopiesWellFormed, UsableIsCovered, SeedsUnusable,
         ScanProgress, CopyIsUsable, Usable, Torn, WellFormed, ReconcileVectors,
         indexes, history, IngStates, ApiStates, Index, Absent, Partial, Manifest, Ready

\* ReconcileBM25: Both indexes hold this run's scan.
LEMMA ReconcileBM25Keeps == IInv /\ ReconcileBM25 => IInv'
  BY OtherSlot
     DEF IInv, TypeOK, CopiesWellFormed, UsableIsCovered, SeedsUnusable,
         ScanProgress, CopyIsUsable, Usable, Torn, WellFormed, ReconcileBM25,
         indexes, history, IngStates, ApiStates, Index, Absent, Partial, Manifest, Ready

\* CompleteIngestion: The gate is opened on a slot that is not torn.
LEMMA CompleteIngestionKeeps == IInv /\ CompleteIngestion => IInv'
  BY OtherSlot
     DEF IInv, TypeOK, CopiesWellFormed, UsableIsCovered, SeedsUnusable,
         ScanProgress, CopyIsUsable, Usable, Torn, WellFormed, CompleteIngestion,
         indexes, history, IngStates, ApiStates, Index, Absent, Partial, Manifest, Ready

\* FailIngestion: A gate that is there stays there.
LEMMA FailIngestionKeeps == IInv /\ FailIngestion => IInv'
<1> SUFFICES ASSUME IInv, FailIngestion PROVE IInv'
  OBVIOUS
<1> USE OtherSlot, DefaultWellFormed, IdleFacts DEF IInv, FailIngestion, indexes, history
<1>1. TypeOK'
  BY DEF TypeOK, IngStates, ApiStates, Index, Absent, Partial, ActiveService,
         ApiService, Activatable
<1>2. CopiesWellFormed'
  BY DEF TypeOK, CopiesWellFormed
<1>3. UsableIsCovered'
  BY DEF TypeOK, UsableIsCovered, Usable, Torn, WellFormed, CopiesWellFormed,
         CopyIsUsable, Activatable
<1>4. SeedsUnusable'
  BY DEF TypeOK, SeedsUnusable, Usable, CopiesWellFormed, WellFormed, Activatable
<1>5. ScanProgress'
  BY DEF TypeOK, ScanProgress
<1>6. CopyIsUsable'
  BY DEF TypeOK, CopyIsUsable, CopiesWellFormed, WellFormed, Activatable
<1> QED
  BY <1>1, <1>2, <1>3, <1>4, <1>5, <1>6

\* ValidateCandidate: Only the program counter moves.
LEMMA ValidateCandidateKeeps == IInv /\ ValidateCandidate => IInv'
  BY OtherSlot
     DEF IInv, TypeOK, CopiesWellFormed, UsableIsCovered, SeedsUnusable,
         ScanProgress, CopyIsUsable, Usable, Torn, WellFormed, ValidateCandidate,
         indexes, history, IngStates, ApiStates, Index, Absent, Partial, Manifest, Ready

\* RecordRead: The copy is the published manifest.
LEMMA RecordReadKeeps == IInv /\ RecordRead => IInv'
<1> SUFFICES ASSUME IInv, RecordRead PROVE IInv'
  OBVIOUS
<1> USE OtherSlot, DefaultWellFormed, IdleFacts DEF IInv, RecordRead, indexes, history
<1>1. TypeOK'
  BY DEF TypeOK, IngStates, ApiStates, Index, Absent, Partial, ActiveService,
         ApiService, Activatable
<1>2. CopiesWellFormed'
  BY DEF TypeOK, CopiesWellFormed
<1>3. UsableIsCovered'
  BY DEF TypeOK, UsableIsCovered, Usable, Torn, WellFormed, CopiesWellFormed,
         CopyIsUsable, Activatable
<1>4. SeedsUnusable'
  BY DEF TypeOK, SeedsUnusable, Usable, CopiesWellFormed, WellFormed, Activatable
<1>5. ScanProgress'
  BY DEF TypeOK, ScanProgress
<1>6. CopyIsUsable'
  BY DEF TypeOK, CopyIsUsable, CopiesWellFormed, WellFormed, Activatable
<1> QED
  BY <1>1, <1>2, <1>3, <1>4, <1>5, <1>6

\* RecordPublish: The slot recorded as ready holds this run's scan in both indexes.
LEMMA RecordPublishKeeps == IInv /\ RecordPublish => IInv'
<1> SUFFICES ASSUME IInv, RecordPublish PROVE IInv'
  OBVIOUS
<1> DEFINE r == RecordedManifest(ing.copy, ing.slot, run)
<1>0. /\ r \in Manifest
      /\ WellFormed(r)
      /\ \A t \in Slots : r.status[t] # "empty"
      /\ manifest' = r
      /\ \A t \in Slots \ {ing.slot} : ing.copy.status[t] # "empty"
  BY RecordKeepsWellFormed, OtherSlot
     DEF IInv, TypeOK, CopiesWellFormed, CopyIsUsable, RecordPublish, Manifest,
         WellFormed, Slots
<1> HIDE DEF r
<1>1. TypeOK'
  BY <1>0 DEF IInv, TypeOK, RecordPublish, indexes, history, IngStates
<1>2. CopiesWellFormed'
  BY <1>0 DEF IInv, TypeOK, CopiesWellFormed, RecordPublish
<1>3. UsableIsCovered'
  <2> SUFFICES ASSUME NEW s \in Slots
               PROVE  vec[s] # Absent /\ bm25[s] # Absent /\ (Torn(s) => gate[s] # "none")
    BY DEF UsableIsCovered, Torn, RecordPublish, indexes, history
  <2>1. CASE s = ing.slot
    BY <2>1 DEF IInv, TypeOK, ScanProgress, RecordPublish, Torn, Absent, Partial
  <2>2. CASE s # ing.slot
    BY <2>2, <1>0 DEF IInv, UsableIsCovered, Usable
  <2> QED
    BY <2>1, <2>2
<1>4. SeedsUnusable' /\ ScanProgress'
  BY DEF IInv, TypeOK, SeedsUnusable, ScanProgress, RecordPublish, indexes, history
<1>5. CopyIsUsable'
  BY <1>0 DEF IInv, TypeOK, CopyIsUsable, RecordPublish
<1> QED
  BY <1>1, <1>2, <1>3, <1>4, <1>5 DEF IInv

\* PostActivation: Only the request set and the program counter move.
LEMMA PostActivationKeeps == IInv /\ PostActivation => IInv'
  BY OtherSlot
     DEF IInv, TypeOK, CopiesWellFormed, UsableIsCovered, SeedsUnusable,
         ScanProgress, CopyIsUsable, Usable, Torn, WellFormed, PostActivation,
         indexes, history, IngStates, ApiStates, Index, Absent, Partial, Manifest, Ready

\* ActivationReturns: The process is idle again.
LEMMA ActivationReturnsKeeps == IInv /\ ActivationReturns => IInv'
<1> SUFFICES ASSUME IInv, ActivationReturns PROVE IInv'
  OBVIOUS
<1> USE OtherSlot, DefaultWellFormed, IdleFacts DEF IInv, ActivationReturns, indexes, history
<1>1. TypeOK'
  BY DEF TypeOK, IngStates, ApiStates, Index, Absent, Partial, ActiveService,
         ApiService, Activatable
<1>2. CopiesWellFormed'
  BY DEF TypeOK, CopiesWellFormed
<1>3. UsableIsCovered'
  BY DEF TypeOK, UsableIsCovered, Usable, Torn, WellFormed, CopiesWellFormed,
         CopyIsUsable, Activatable
<1>4. SeedsUnusable'
  BY DEF TypeOK, SeedsUnusable, Usable, CopiesWellFormed, WellFormed, Activatable
<1>5. ScanProgress'
  BY DEF TypeOK, ScanProgress
<1>6. CopyIsUsable'
  BY DEF TypeOK, CopyIsUsable, CopiesWellFormed, WellFormed, Activatable
<1> QED
  BY <1>1, <1>2, <1>3, <1>4, <1>5, <1>6

\* KillRun: The process is idle again.
LEMMA KillRunKeeps == IInv /\ KillRun => IInv'
<1> SUFFICES ASSUME IInv, KillRun PROVE IInv'
  OBVIOUS
<1> USE OtherSlot, DefaultWellFormed, IdleFacts DEF IInv, KillRun, indexes, history
<1>1. TypeOK'
  BY DEF TypeOK, IngStates, ApiStates, Index, Absent, Partial, ActiveService,
         ApiService, Activatable
<1>2. CopiesWellFormed'
  BY DEF TypeOK, CopiesWellFormed
<1>3. UsableIsCovered'
  BY DEF TypeOK, UsableIsCovered, Usable, Torn, WellFormed, CopiesWellFormed,
         CopyIsUsable, Activatable
<1>4. SeedsUnusable'
  BY DEF TypeOK, SeedsUnusable, Usable, CopiesWellFormed, WellFormed, Activatable
<1>5. ScanProgress'
  BY DEF TypeOK, ScanProgress
<1>6. CopyIsUsable'
  BY DEF TypeOK, CopyIsUsable, CopiesWellFormed, WellFormed, Activatable
<1> QED
  BY <1>1, <1>2, <1>3, <1>4, <1>5, <1>6

\* ActivateBegin: The slot of an accepted request is ready, so it is not empty.
LEMMA ActivateBeginKeeps == IInv /\ (\E r \in requests : ActivateBegin(r)) => IInv'
<1> SUFFICES ASSUME IInv, NEW r \in requests, ActivateBegin(r) PROVE IInv'
  OBVIOUS
<1>0. r.slot \in Slots /\ r.generation \in Int
  BY DEF IInv, TypeOK
<1>1. CASE Activatable(manifest, r.slot, r.generation)
  <2>0. /\ api' = [api EXCEPT !.pc = "build", !.op = "activate",
                            !.slot = r.slot, !.generation = r.generation]
        /\ requests' = requests \ {r}
        /\ UNCHANGED <<manifest, vec, bm25, gate, run, ing, served, search, writer, outrun>>
        /\ manifest.status[r.slot] # "empty"
    BY <1>1 DEF ActivateBegin, Activatable, indexes, history
  <2>1. TypeOK' /\ api'.pc = "build" /\ api'.slot = r.slot /\ api'.copy = api.copy
    BY <1>0, <2>0 DEF IInv, TypeOK, ApiStates
  <2>2. \A s \in Slots : Usable(s)' => Usable(s)
    BY <2>0, <2>1 DEF Usable
  <2> QED
    BY <2>0, <2>1, <2>2
       DEF IInv, TypeOK, CopiesWellFormed, UsableIsCovered, SeedsUnusable, ScanProgress,
           CopyIsUsable, Torn
<1>2. CASE ~Activatable(manifest, r.slot, r.generation)
  BY <1>2 DEF ActivateBegin, IInv, TypeOK, CopiesWellFormed, UsableIsCovered, SeedsUnusable,
              ScanProgress, CopyIsUsable, Usable, Torn, indexes, history
<1> QED
  BY <1>1, <1>2

\* RollbackBegin: The previous slot has a generation, so it is not empty.
LEMMA RollbackBeginKeeps == IInv /\ RollbackBegin => IInv'
<1> SUFFICES ASSUME IInv, RollbackBegin PROVE IInv'
  OBVIOUS
<1> USE OtherSlot, DefaultWellFormed, IdleFacts DEF IInv, RollbackBegin, indexes, history
<1>1. TypeOK'
  BY DEF TypeOK, IngStates, ApiStates, Index, Absent, Partial, ActiveService,
         ApiService, Activatable, Manifest
<1>2. CopiesWellFormed'
  BY DEF TypeOK, CopiesWellFormed
<1>3. UsableIsCovered'
  BY DEF TypeOK, UsableIsCovered, Usable, Torn, WellFormed, CopiesWellFormed,
         CopyIsUsable, Activatable
<1>4. SeedsUnusable'
  BY DEF TypeOK, SeedsUnusable, Usable, CopiesWellFormed, WellFormed, Activatable
<1>5. ScanProgress'
  BY DEF TypeOK, ScanProgress
<1>6. CopyIsUsable'
  BY DEF TypeOK, CopyIsUsable, CopiesWellFormed, WellFormed, Activatable
<1> QED
  BY <1>1, <1>2, <1>3, <1>4, <1>5, <1>6

\* ReloadBegin: The active slot is not empty.
LEMMA ReloadBeginKeeps == IInv /\ ReloadBegin => IInv'
<1> SUFFICES ASSUME IInv, ReloadBegin PROVE IInv'
  OBVIOUS
<1> USE OtherSlot, DefaultWellFormed, IdleFacts DEF IInv, ReloadBegin, indexes, history
<1>1. TypeOK'
  BY DEF TypeOK, IngStates, ApiStates, Index, Absent, Partial, ActiveService,
         ApiService, Activatable, Manifest
<1>2. CopiesWellFormed'
  BY DEF TypeOK, CopiesWellFormed
<1>3. UsableIsCovered'
  BY DEF TypeOK, UsableIsCovered, Usable, Torn, WellFormed, CopiesWellFormed,
         CopyIsUsable, Activatable
<1>4. SeedsUnusable'
  BY DEF TypeOK, SeedsUnusable, Usable, CopiesWellFormed, WellFormed, Activatable
<1>5. ScanProgress'
  BY DEF TypeOK, ScanProgress
<1>6. CopyIsUsable'
  BY DEF TypeOK, CopyIsUsable, CopiesWellFormed, WellFormed, Activatable
<1> QED
  BY <1>1, <1>2, <1>3, <1>4, <1>5, <1>6

\* BuildReady: Only the program counter moves.
LEMMA BuildReadyKeeps == IInv /\ BuildReady => IInv'
  BY OtherSlot
     DEF IInv, TypeOK, CopiesWellFormed, UsableIsCovered, SeedsUnusable,
         ScanProgress, CopyIsUsable, Usable, Torn, WellFormed, BuildReady,
         indexes, history, IngStates, ApiStates, Index, Absent, Partial, Manifest, Ready

\* BuildFails: The operation ends.
LEMMA BuildFailsKeeps == IInv /\ BuildFails => IInv'
<1> SUFFICES ASSUME IInv, BuildFails PROVE IInv'
  OBVIOUS
<1> USE OtherSlot, DefaultWellFormed, IdleFacts DEF IInv, BuildFails, indexes, history
<1>1. TypeOK'
  BY DEF TypeOK, IngStates, ApiStates, Index, Absent, Partial, ActiveService,
         ApiService, Activatable
<1>2. CopiesWellFormed'
  BY DEF TypeOK, CopiesWellFormed
<1>3. UsableIsCovered'
  BY DEF TypeOK, UsableIsCovered, Usable, Torn, WellFormed, CopiesWellFormed,
         CopyIsUsable, Activatable
<1>4. SeedsUnusable'
  BY DEF TypeOK, SeedsUnusable, Usable, CopiesWellFormed, WellFormed, Activatable
<1>5. ScanProgress'
  BY DEF TypeOK, ScanProgress
<1>6. CopyIsUsable'
  BY DEF TypeOK, CopyIsUsable, CopiesWellFormed, WellFormed, Activatable
<1> QED
  BY <1>1, <1>2, <1>3, <1>4, <1>5, <1>6

\* CommitRead: The copy is the published manifest.
LEMMA CommitReadKeeps == IInv /\ CommitRead => IInv'
<1> SUFFICES ASSUME IInv, CommitRead PROVE IInv'
  OBVIOUS
<1> USE OtherSlot, DefaultWellFormed, IdleFacts DEF IInv, CommitRead, indexes, history
<1>1. TypeOK'
  BY DEF TypeOK, IngStates, ApiStates, Index, Absent, Partial, ActiveService,
         ApiService, Activatable
<1>2. CopiesWellFormed'
  BY DEF TypeOK, CopiesWellFormed
<1>3. UsableIsCovered'
  BY DEF TypeOK, UsableIsCovered, Usable, Torn, WellFormed, CopiesWellFormed,
         CopyIsUsable, Activatable
<1>4. SeedsUnusable'
  BY DEF TypeOK, SeedsUnusable, Usable, CopiesWellFormed, WellFormed, Activatable
<1>5. ScanProgress'
  BY DEF TypeOK, ScanProgress
<1>6. CopyIsUsable'
  BY DEF TypeOK, CopyIsUsable, CopiesWellFormed, WellFormed, Activatable
<1> QED
  BY <1>1, <1>2, <1>3, <1>4, <1>5, <1>6

\* CommitPublish: No slot becomes usable that was not.
LEMMA CommitPublishKeeps == IInv /\ CommitPublish => IInv'
<1> SUFFICES ASSUME IInv, CommitPublish PROVE IInv'
  OBVIOUS
<1>0. /\ manifest' \in Manifest
      /\ WellFormed(manifest')
      /\ \A t \in Slots : manifest'.status[t] # "empty" => api.copy.status[t] # "empty"
  <2>1. /\ api.copy \in Manifest /\ WellFormed(api.copy) /\ api.slot \in Slots
        /\ api.copy.status[api.slot] # "empty"
    BY DEF IInv, TypeOK, CopiesWellFormed, CopyIsUsable, CommitPublish
  <2>2. CASE api.op = "activate"
    BY <2>1, <2>2, PromoteKeepsWellFormed DEF IInv, CopyIsUsable, CommitPublish
  <2>3. CASE api.op # "activate"
    BY <2>1, <2>3, RestoreKeepsWellFormed DEF CommitPublish
  <2> QED
    BY <2>2, <2>3
<1>1. TypeOK'
  BY <1>0, IdleFacts DEF IInv, TypeOK, CommitPublish, indexes, history, ApiService
<1>2. CopiesWellFormed'
  BY <1>0, IdleFacts, DefaultWellFormed DEF IInv, CopiesWellFormed, CommitPublish
<1>3. \A s \in Slots : Usable(s)' => Usable(s)
  BY <1>0, IdleFacts DEF IInv, Usable, CopiesWellFormed, WellFormed, CommitPublish
<1>4. UsableIsCovered' /\ SeedsUnusable'
  BY <1>3 DEF IInv, TypeOK, UsableIsCovered, SeedsUnusable, Torn, CommitPublish, indexes, history
<1>5. ScanProgress'
  BY DEF IInv, ScanProgress, CommitPublish, indexes, history
<1>6. CopyIsUsable'
  BY IdleFacts DEF IInv, CopyIsUsable, CommitPublish
<1> QED
  BY <1>1, <1>2, <1>4, <1>5, <1>6 DEF IInv

\* ReloadSwap: The operation ends.
LEMMA ReloadSwapKeeps == IInv /\ ReloadSwap => IInv'
<1> SUFFICES ASSUME IInv, ReloadSwap PROVE IInv'
  OBVIOUS
<1> USE OtherSlot, DefaultWellFormed, IdleFacts DEF IInv, ReloadSwap, indexes, history
<1>1. TypeOK'
  BY DEF TypeOK, IngStates, ApiStates, Index, Absent, Partial, ActiveService,
         ApiService, Activatable
<1>2. CopiesWellFormed'
  BY DEF TypeOK, CopiesWellFormed
<1>3. UsableIsCovered'
  BY DEF TypeOK, UsableIsCovered, Usable, Torn, WellFormed, CopiesWellFormed,
         CopyIsUsable, Activatable
<1>4. SeedsUnusable'
  BY DEF TypeOK, SeedsUnusable, Usable, CopiesWellFormed, WellFormed, Activatable
<1>5. ScanProgress'
  BY DEF TypeOK, ScanProgress
<1>6. CopyIsUsable'
  BY DEF TypeOK, CopyIsUsable, CopiesWellFormed, WellFormed, Activatable
<1> QED
  BY <1>1, <1>2, <1>3, <1>4, <1>5, <1>6

\* ApiCrash: The operation ends.
LEMMA ApiCrashKeeps == IInv /\ ApiCrash => IInv'
<1> SUFFICES ASSUME IInv, ApiCrash PROVE IInv'
  OBVIOUS
<1> USE OtherSlot, DefaultWellFormed, IdleFacts DEF IInv, ApiCrash, indexes, history
<1>1. TypeOK'
  BY DEF TypeOK, IngStates, ApiStates, Index, Absent, Partial, ActiveService,
         ApiService, Activatable
<1>2. CopiesWellFormed'
  BY DEF TypeOK, CopiesWellFormed
<1>3. UsableIsCovered'
  BY DEF TypeOK, UsableIsCovered, Usable, Torn, WellFormed, CopiesWellFormed,
         CopyIsUsable, Activatable
<1>4. SeedsUnusable'
  BY DEF TypeOK, SeedsUnusable, Usable, CopiesWellFormed, WellFormed, Activatable
<1>5. ScanProgress'
  BY DEF TypeOK, ScanProgress
<1>6. CopyIsUsable'
  BY DEF TypeOK, CopyIsUsable, CopiesWellFormed, WellFormed, Activatable
<1> QED
  BY <1>1, <1>2, <1>3, <1>4, <1>5, <1>6

\* SearchGet: Only the route and the search move.
LEMMA SearchGetKeeps == IInv /\ SearchGet => IInv'
<1> SUFFICES ASSUME IInv, SearchGet PROVE IInv'
  OBVIOUS
<1>0. manifest.active \in Slots
  BY OtherSlot DEF IInv, TypeOK, Manifest
<1>a. served'.slot \in Slots
  <2>1. served # NoService => served.slot \in Slots
    BY DEF IInv, TypeOK
  <2> QED
    BY <1>0, <2>1 DEF SearchGet, ActiveService
<1> USE OtherSlot, DefaultWellFormed, IdleFacts DEF IInv, SearchGet, indexes, history
<1>1. TypeOK'
  <2>1. ActiveService \in [slot : Slots, generation : Int]
    BY <1>0 DEF TypeOK, ActiveService, Manifest
  <2>2. served' \in [slot : Slots, generation : Int] \cup {NoService}
    BY <2>1 DEF TypeOK
  <2>3. search' \in [pc : {"idle", "gate", "read"}, slot : Slots, vec : Index, bm25 : Index,
                   writer : Int]
    BY <1>a DEF TypeOK
  <2> QED
    BY <2>2, <2>3 DEF TypeOK
<1>2. CopiesWellFormed'
  BY DEF TypeOK, CopiesWellFormed
<1>3. UsableIsCovered'
  BY <1>0 DEF TypeOK, UsableIsCovered, Usable, Torn, WellFormed, CopiesWellFormed,
         CopyIsUsable, Activatable
<1>4. SeedsUnusable'
  BY <1>0 DEF TypeOK, SeedsUnusable, Usable, CopiesWellFormed, WellFormed, Activatable
<1>5. ScanProgress'
  BY DEF TypeOK, ScanProgress
<1>6. CopyIsUsable'
  BY <1>0 DEF TypeOK, CopyIsUsable, CopiesWellFormed, WellFormed, Activatable
<1> QED
  BY <1>1, <1>2, <1>3, <1>4, <1>5, <1>6

\* SearchGate: Only the search moves.
LEMMA SearchGateKeeps == IInv /\ SearchGate => IInv'
<1> SUFFICES ASSUME IInv, SearchGate PROVE IInv'
  OBVIOUS
<1> USE OtherSlot, DefaultWellFormed, IdleFacts DEF IInv, SearchGate, indexes, history
<1>1. TypeOK'
  BY DEF TypeOK, IngStates, ApiStates, Index, Absent, Partial, ActiveService,
         ApiService, Activatable
<1>2. CopiesWellFormed'
  BY DEF TypeOK, CopiesWellFormed
<1>3. UsableIsCovered'
  BY DEF TypeOK, UsableIsCovered, Usable, Torn, WellFormed, CopiesWellFormed,
         CopyIsUsable, Activatable
<1>4. SeedsUnusable'
  BY DEF TypeOK, SeedsUnusable, Usable, CopiesWellFormed, WellFormed, Activatable
<1>5. ScanProgress'
  BY DEF TypeOK, ScanProgress
<1>6. CopyIsUsable'
  BY DEF TypeOK, CopyIsUsable, CopiesWellFormed, WellFormed, Activatable
<1> QED
  BY <1>1, <1>2, <1>3, <1>4, <1>5, <1>6

\* SearchVectors: Only the search moves.
LEMMA SearchVectorsKeeps == IInv /\ SearchVectors => IInv'
  BY OtherSlot
     DEF IInv, TypeOK, CopiesWellFormed, UsableIsCovered, SeedsUnusable,
         ScanProgress, CopyIsUsable, Usable, Torn, WellFormed, SearchVectors,
         indexes, history, IngStates, ApiStates, Index, Absent, Partial, Manifest, Ready

\* SearchBM25: Only the search moves.
LEMMA SearchBM25Keeps == IInv /\ SearchBM25 => IInv'
  BY OtherSlot
     DEF IInv, TypeOK, CopiesWellFormed, UsableIsCovered, SeedsUnusable,
         ScanProgress, CopyIsUsable, Usable, Torn, WellFormed, SearchBM25,
         indexes, history, IngStates, ApiStates, Index, Absent, Partial, Manifest, Ready

\* SearchReturns: Only the search moves.
LEMMA SearchReturnsKeeps == IInv /\ SearchReturns => IInv'
<1> SUFFICES ASSUME IInv, SearchReturns PROVE IInv'
  OBVIOUS
<1> USE OtherSlot, DefaultWellFormed, IdleFacts DEF IInv, SearchReturns, indexes, history
<1>1. TypeOK'
  BY DEF TypeOK, IngStates, ApiStates, Index, Absent, Partial, ActiveService,
         ApiService, Activatable
<1>2. CopiesWellFormed'
  BY DEF TypeOK, CopiesWellFormed
<1>3. UsableIsCovered'
  BY DEF TypeOK, UsableIsCovered, Usable, Torn, WellFormed, CopiesWellFormed,
         CopyIsUsable, Activatable
<1>4. SeedsUnusable'
  BY DEF TypeOK, SeedsUnusable, Usable, CopiesWellFormed, WellFormed, Activatable
<1>5. ScanProgress'
  BY DEF TypeOK, ScanProgress
<1>6. CopyIsUsable'
  BY DEF TypeOK, CopyIsUsable, CopiesWellFormed, WellFormed, Activatable
<1> QED
  BY <1>1, <1>2, <1>3, <1>4, <1>5, <1>6

\* The invariant is preserved by every step.
LEMMA NextKeeps == IInv /\ [Next]_vars => IInv'
<1>1. IInv /\ UNCHANGED vars => IInv'
  BY DEF IInv, TypeOK, CopiesWellFormed, UsableIsCovered, SeedsUnusable,
         ScanProgress, CopyIsUsable, Usable, Torn, vars
<1> QED
  BY <1>1, ActivateBeginKeeps, StartRunKeeps, SeedDropKeeps, SeedCloneKeeps, SeedBackupBeginsKeeps,
     SeedBackupEndsKeeps, ResolveCandidateKeeps, OpenGateKeeps, FlushVectorsKeeps,
     FlushBM25Keeps, ReconcileVectorsKeeps, ReconcileBM25Keeps, CompleteIngestionKeeps,
     FailIngestionKeeps, ValidateCandidateKeeps, RecordReadKeeps, RecordPublishKeeps,
     PostActivationKeeps, ActivationReturnsKeeps, KillRunKeeps, RollbackBeginKeeps,
     ReloadBeginKeeps, BuildReadyKeeps, BuildFailsKeeps, CommitReadKeeps,
     CommitPublishKeeps, ReloadSwapKeeps, ApiCrashKeeps, SearchGetKeeps,
     SearchGateKeeps, SearchVectorsKeeps, SearchBM25Keeps, SearchReturnsKeeps
     DEF Next, IngestionStep, ApiStep, SearchStep

-----------------------------------------------------------------------------
\* The invariant holds in every reachable state of the two processes and the
\* searches, for every number of runs, whatever overlaps.
THEOREM Invariance == Spec => []IInv
  BY InitEstablishes, NextKeeps, PTL DEF Spec

\* Every variable keeps its type.
THEOREM TypeCorrect == Spec => []TypeOK
<1>1. IInv => TypeOK
  BY DEF IInv
<1> QED
  BY <1>1, Invariance, PTL

\* Lost updates of the manifest never leave it with no active slot, with two,
\* or with an active slot that has no generation.
THEOREM ManifestMarksActive == Spec => []ActiveIsMarked
<1>1. IInv => ActiveIsMarked
  BY DEF IInv, TypeOK, CopiesWellFormed, WellFormed, ActiveIsMarked, Manifest
<1> QED
  BY <1>1, Invariance, PTL

\* A slot that is damaged and that the manifest does not call empty is behind
\* its gate, wherever either process was killed.
THEOREM DamageIsGated == Spec => []GateCoversDamage
<1>1. IInv => GateCoversDamage
  BY DEF IInv, UsableIsCovered, Usable, GateCoversDamage
<1> QED
  BY <1>1, Invariance, PTL

-----------------------------------------------------------------------------
(* What requests meet.  A name of a generation is older than the last run  *)
(* that wrote on its slot, or true: one lemma on what a step does to slots *)
(* and names (SlotStep), and one lemma per part of OverlapInv.             *)

\* The history has its type and the facts of a well-formed manifest.
LEMMA Typed ==
  ASSUME IInv
  PROVE  /\ TypeOK
         /\ manifest.active \in Slots /\ Other(manifest.active) \in Slots
         /\ manifest.status[manifest.active] # "empty"
         /\ manifest.generation[manifest.active] # NoGeneration
         /\ ing.slot \in Slots /\ api.slot \in Slots /\ search.slot \in Slots
         /\ \A s \in Slots : writer[s] \in Int
         /\ \A s \in Slots : manifest.generation[s] \in Int
  BY OtherSlot DEF IInv, TypeOK, Manifest, CopiesWellFormed, WellFormed, NoGeneration

\* Initially the only names are those of the default manifest, and slot "a"
\* holds what it is said to hold.
LEMMA InitOverlap == Init => OverlapInv
<1> SUFFICES ASSUME Init PROVE OverlapInv
  OBVIOUS
<1> USE IdleFacts DEF Init
<1>1. NamesAreTrue
  BY DEF NamesAreTrue, ManifestNames, NameIsTrue, HoldsScan, DefaultManifest, Slots,
         LegacyA, NoGeneration
<1>2. WriterProgress
  BY DEF WriterProgress, Slots, LegacyA, NoGeneration
<1>3. SlotsFilled
  BY DEF SlotsFilled, DefaultManifest
<1>4. RouteInv /\ SearchInv
  BY DEF RouteInv, RouteFollowsManifest, SearchInv
<1> QED
  BY <1>1, <1>2, <1>3, <1>4 DEF OverlapInv

\* A step that leaves both indexes, the gate and the history of a slot alone
\* leaves its names true.
LEMMA SameSlot ==
  ASSUME NEW s \in Slots, vec'[s] = vec[s], bm25'[s] = bm25[s], gate'[s] = gate[s],
         writer'[s] = writer[s]
  PROVE  \A g \in Int : NameIsTrue(s, g) => NameIsTrue(s, g)'
  BY DEF NameIsTrue, HoldsScan

\* While a gate is there, a name that is true is older than the last writer; it
\* stays true as long as the slot's history is not rewound.
LEMMA GatedSlot ==
  ASSUME NEW s \in Slots, gate[s] # "none", writer[s] \in Int, writer'[s] = writer[s]
  PROVE  \A g \in Int : NameIsTrue(s, g) => NameIsTrue(s, g)'
  BY DEF NameIsTrue, HoldsScan

\* No step makes a name of a usable slot false, and no writer's number falls.
LEMMA SlotStep ==
  ASSUME IInv, WriterProgress, [Next]_vars
  PROVE  /\ \A s \in Slots : writer'[s] \in Int /\ writer[s] <= writer'[s]
         /\ \A s \in Slots, g \in Int :
              Usable(s) /\ NameIsTrue(s, g) => NameIsTrue(s, g)'
<1>0. TypeOK /\ ing.slot \in Slots /\ \A s \in Slots : writer[s] \in Int
  BY Typed
<1> DEFINE Kept(s) == \A g \in Int : NameIsTrue(s, g) => NameIsTrue(s, g)'
<1>a. SUFFICES /\ \A s \in Slots : writer'[s] \in Int /\ writer[s] <= writer'[s]
               /\ \A s \in Slots : Usable(s) => Kept(s)
  OBVIOUS
<1>1. CASE OpenGate
  <2>1. /\ writer' = [writer EXCEPT ![ing.slot] = run] /\ run \in Nat
        /\ UNCHANGED <<vec, bm25>> /\ gate' = [gate EXCEPT ![ing.slot] = "running"]
        /\ writer[ing.slot] < run
    BY <1>0, <1>1 DEF OpenGate, WriterProgress, TypeOK
  <2>2. \A s \in Slots : writer'[s] = IF s = ing.slot THEN run ELSE writer[s]
    BY <1>0, <2>1 DEF TypeOK
  <2>3. \A s \in Slots \ {ing.slot} : gate'[s] = gate[s]
    BY <1>0, <2>1 DEF TypeOK
  <2>4. \A s \in Slots : s = ing.slot => Kept(s)
    BY <1>0, <2>1, <2>2 DEF NameIsTrue
  <2>5. \A s \in Slots \ {ing.slot} : Kept(s)
    BY <2>1, <2>2, <2>3, SameSlot
  <2> QED
    BY <1>0, <2>1, <2>2, <2>4, <2>5
<1>2. CASE SeedDrop \/ SeedClone \/ SeedBackupBegins \/ SeedBackupEnds
  <2>1. /\ UNCHANGED <<gate, writer>>
        /\ \A s \in Slots \ {ing.slot} : vec'[s] = vec[s] /\ bm25'[s] = bm25[s]
    BY <1>0, <1>2
       DEF SeedDrop, SeedClone, SeedBackupBegins, SeedBackupEnds, TypeOK, history
  <2>2. ~Usable(ing.slot)
    BY <1>0, <1>2
       DEF IInv, UsableIsCovered, SeedsUnusable, SeedDrop, SeedClone, SeedBackupBegins,
           SeedBackupEnds
  <2>3. \A s \in Slots \ {ing.slot} : Kept(s)
    BY <2>1, SameSlot
  <2> QED
    BY <1>0, <2>1, <2>2, <2>3
<1>3. CASE FlushVectors \/ FlushBM25 \/ ReconcileVectors \/ ReconcileBM25 \/ CompleteIngestion
  <2>1. /\ UNCHANGED writer /\ gate[ing.slot] # "none"
        /\ \A s \in Slots \ {ing.slot} :
             vec'[s] = vec[s] /\ bm25'[s] = bm25[s] /\ gate'[s] = gate[s]
    BY <1>0, <1>3
       DEF IInv, ScanProgress, FlushVectors, FlushBM25, ReconcileVectors, ReconcileBM25,
           CompleteIngestion, TypeOK, history
  <2>2. \A s \in Slots : s = ing.slot => Kept(s)
    BY <1>0, <2>1, GatedSlot
  <2>3. \A s \in Slots \ {ing.slot} : Kept(s)
    BY <2>1, SameSlot
  <2> QED
    BY <1>0, <2>1, <2>2, <2>3
<1>4. CASE ResolveCandidate \/ FailIngestion
  <2>1. /\ UNCHANGED <<writer, vec, bm25>>
        /\ \A s \in Slots : gate'[s] = gate[s] \/ gate[s] # "none"
    BY <1>0, <1>4 DEF ResolveCandidate, FailIngestion, TypeOK, history
  <2>2. \A s \in Slots : Kept(s)
    BY <1>0, <2>1, SameSlot, GatedSlot
  <2> QED
    BY <1>0, <2>1, <2>2
<1>5. CASE UNCHANGED <<indexes, writer>>
  <2>1. UNCHANGED <<vec, bm25, gate, writer>>
    BY <1>5 DEF indexes
  <2>2. \A s \in Slots : Kept(s)
    BY <2>1, SameSlot
  <2> QED
    BY <1>0, <2>1, <2>2
<1>6. ASSUME NEW r \in requests, ActivateBegin(r)
      PROVE  UNCHANGED <<indexes, writer>>
  BY <1>6 DEF ActivateBegin, history
<1> HIDE DEF Kept
<1> QED
  <2>1. CASE StartRun \/ ValidateCandidate \/ RecordRead \/ RecordPublish \/ PostActivation
             \/ ActivationReturns \/ KillRun
    BY <2>1, <1>5
       DEF StartRun, ValidateCandidate, RecordRead, RecordPublish, PostActivation,
           ActivationReturns, KillRun, history
  <2>2. CASE BuildReady \/ BuildFails \/ CommitRead \/ CommitPublish \/ ReloadSwap
             \/ RollbackBegin \/ ReloadBegin \/ ApiCrash
    BY <2>2, <1>5
       DEF BuildReady, BuildFails, CommitRead, CommitPublish, ReloadSwap, RollbackBegin,
           ReloadBegin, ApiCrash, history
  <2>3. CASE SearchStep \/ SearchGet
    BY <2>3, <1>5
       DEF SearchStep, SearchGet, SearchGate, SearchVectors, SearchBM25, SearchReturns, history
  <2>4. CASE UNCHANGED vars
    BY <2>4, <1>5 DEF vars, indexes
  <2> QED
    BY <1>1, <1>2, <1>3, <1>4, <1>5, <1>6, <2>1, <2>2, <2>3, <2>4
       DEF Next, IngestionStep, ApiStep

\* A run's number is the highest, it is the last writer of the slot it works on
\* from the opening of the gate, and from the end of its scan to its activation
\* the slot holds that scan with no gate in front of it.
LEMMA WriterStep ==
  ASSUME IInv, WriterProgress, [Next]_vars
  PROVE  WriterProgress'
<1>0. TypeOK /\ ing.slot \in Slots /\ run \in Nat /\ \A s \in Slots : writer[s] \in Int
  BY Typed DEF TypeOK
<1>1. CASE StartRun
  <2>1. run' = run + 1 /\ ing'.pc = "seed" /\ UNCHANGED writer
    BY <1>0, <1>1 DEF StartRun, TypeOK, history
  <2> QED
    BY <1>0, <2>1 DEF WriterProgress
<1>2. CASE SeedDrop \/ SeedClone \/ SeedBackupBegins \/ SeedBackupEnds \/ ResolveCandidate
  <2>1. /\ ing.pc \in {"seed", "backup", "copy"} /\ UNCHANGED <<run, writer>>
        /\ ing'.pc \in {"seed", "backup", "copy", "scan"}
    BY <1>0, <1>2
       DEF SeedDrop, SeedClone, SeedBackupBegins, SeedBackupEnds, ResolveCandidate, TypeOK,
           history
  <2> QED
    BY <1>0, <2>1 DEF WriterProgress
<1>3. CASE OpenGate
  <2>1. /\ ing'.pc = "write" /\ ing'.slot = ing.slot /\ run' = run
        /\ writer' = [writer EXCEPT ![ing.slot] = run]
    BY <1>0, <1>3 DEF OpenGate, TypeOK
  <2>2. \A s \in Slots : writer'[s] = IF s = ing.slot THEN run ELSE writer[s]
    BY <1>0, <2>1 DEF TypeOK
  <2> QED
    BY <1>0, <2>1, <2>2 DEF WriterProgress
<1>4. CASE FlushVectors \/ FlushBM25 \/ ReconcileVectors \/ ReconcileBM25
  <2>1. /\ ing.pc \in {"write", "reconcile"} /\ ing'.pc \in {"write", "reconcile", "complete"}
        /\ ing'.slot = ing.slot /\ UNCHANGED <<run, writer>>
    BY <1>0, <1>4
       DEF FlushVectors, FlushBM25, ReconcileVectors, ReconcileBM25, TypeOK, history
  <2> QED
    BY <1>0, <2>1 DEF WriterProgress
<1>5. CASE CompleteIngestion
  <2>1. /\ ing.pc = "complete" /\ ing'.pc = "validate" /\ ing'.slot = ing.slot
        /\ UNCHANGED <<run, writer, vec, bm25>> /\ gate'[ing.slot] = "none"
    BY <1>0, <1>5 DEF CompleteIngestion, TypeOK, history
  <2>2. vec[ing.slot] = run /\ bm25[ing.slot] = run
    BY <2>1 DEF IInv, ScanProgress
  <2> QED
    BY <1>0, <2>1, <2>2 DEF WriterProgress, HoldsScan
<1>6. CASE ValidateCandidate \/ RecordRead \/ RecordPublish
  <2>1. /\ ing.pc \in {"validate", "record", "publish"}
        /\ \/ ing'.pc \in {"record", "publish", "activate"} /\ ing'.slot = ing.slot
           \/ ing'.pc = "idle"
        /\ UNCHANGED <<run, writer, vec, bm25, gate>>
    BY <1>0, <1>6, IdleFacts
       DEF ValidateCandidate, RecordRead, RecordPublish, TypeOK, history, indexes
  <2> QED
    BY <1>0, <2>1 DEF WriterProgress, HoldsScan
<1>7. CASE PostActivation \/ ActivationReturns \/ KillRun \/ FailIngestion
  <2>1. ing'.pc \in {"idle", "await"} /\ UNCHANGED <<run, writer>>
    BY <1>0, <1>7, IdleFacts
       DEF PostActivation, ActivationReturns, KillRun, FailIngestion, TypeOK, history
  <2> QED
    BY <1>0, <2>1 DEF WriterProgress
<1>8. CASE UNCHANGED <<indexes, run, ing, writer>>
  BY <1>8 DEF WriterProgress, HoldsScan, indexes
<1>9. ASSUME NEW r \in requests, ActivateBegin(r)
      PROVE  UNCHANGED <<indexes, run, ing, writer>>
  BY <1>9 DEF ActivateBegin, history
<1> QED
  <2>1. CASE BuildReady \/ BuildFails \/ CommitRead \/ CommitPublish \/ ReloadSwap
             \/ RollbackBegin \/ ReloadBegin \/ ApiCrash
    BY <2>1, <1>8
       DEF BuildReady, BuildFails, CommitRead, CommitPublish, ReloadSwap, RollbackBegin,
           ReloadBegin, ApiCrash, history
  <2>2. CASE SearchStep \/ SearchGet
    BY <2>2, <1>8
       DEF SearchStep, SearchGet, SearchGate, SearchVectors, SearchBM25, SearchReturns, history
  <2>3. CASE UNCHANGED vars
    BY <2>3, <1>8 DEF vars, indexes
  <2> QED
    BY <1>1, <1>2, <1>3, <1>4, <1>5, <1>6, <1>7, <1>8, <1>9, <2>1, <2>2, <2>3
       DEF Next, IngestionStep, ApiStep

\* The manifest is replaced by the record of a run, which leaves no slot empty,
\* or at the end of an activation or a rollback, when both slots are filled; the
\* slot that is made active, its predecessor and the generations are those of
\* the copy.
LEMMA ManifestStep ==
  ASSUME IInv, SlotsFilled, [Next]_vars
  PROVE  \/ UNCHANGED manifest
         \/ /\ RecordPublish /\ BothFilled(manifest')
            /\ manifest'.active = ing.copy.active
            /\ \A s \in Slots : manifest'.generation[s] =
                 IF s = ing.slot THEN run ELSE ing.copy.generation[s]
         \/ /\ CommitPublish /\ BothFilled(manifest')
            /\ manifest'.active = api.slot
            /\ manifest'.generation = api.copy.generation
<1>1. CASE RecordPublish
  <2>1. /\ ing.copy \in Manifest /\ WellFormed(ing.copy) /\ ing.slot \in Slots
        /\ ing.slot # ing.copy.active /\ run \in Nat
        /\ manifest' = RecordedManifest(ing.copy, ing.slot, run)
    BY <1>1 DEF IInv, TypeOK, CopiesWellFormed, CopyIsUsable, RecordPublish
  <2>2. BothFilled(manifest')
    BY <2>1, RecordKeepsWellFormed DEF BothFilled
  <2>3. /\ manifest'.active = ing.copy.active
        /\ manifest'.generation = [ing.copy.generation EXCEPT ![ing.slot] = run]
    BY <2>1 DEF RecordedManifest, Manifest
  <2> QED
    BY <1>1, <2>1, <2>2, <2>3 DEF Manifest
<1>2. CASE CommitPublish
  <2>1. /\ api.copy \in Manifest /\ WellFormed(api.copy) /\ api.slot \in Slots
        /\ BothFilled(api.copy)
        /\ api.op = "activate" => api.slot # api.copy.active
    BY <1>2 DEF IInv, TypeOK, CopiesWellFormed, CopyIsUsable, CommitPublish, SlotsFilled
  <2>2. CASE api.op = "activate"
    <3>1. manifest' = PromotedManifest(api.copy, api.slot)
      BY <1>2, <2>2 DEF CommitPublish
    <3>2. manifest'.active = api.slot /\ manifest'.generation = api.copy.generation
      BY <2>1, <3>1 DEF PromotedManifest, Manifest
    <3>3. BothFilled(manifest')
      BY <2>1, <2>2, <3>1, PromoteKeepsWellFormed DEF BothFilled
    <3> QED
      BY <1>2, <3>2, <3>3
  <2>3. CASE api.op # "activate"
    <3>1. manifest' = RestoredManifest(api.copy, api.slot)
      BY <1>2, <2>3 DEF CommitPublish
    <3>2. manifest'.active = api.slot /\ manifest'.generation = api.copy.generation
      BY <2>1, <3>1 DEF RestoredManifest, Manifest
    <3>3. BothFilled(manifest')
      BY <2>1, <3>1, RestoreKeepsWellFormed DEF BothFilled
    <3> QED
      BY <1>2, <3>2, <3>3
  <2> QED
    BY <2>2, <2>3
<1>3. ASSUME NEW r \in requests, ActivateBegin(r)
      PROVE  UNCHANGED manifest
  BY <1>3 DEF ActivateBegin
<1> QED
  BY <1>1, <1>2, <1>3
     DEF Next, IngestionStep, ApiStep, SearchStep, SeedDrop, SeedClone, SeedBackupBegins,
         SeedBackupEnds, ResolveCandidate, OpenGate, FlushVectors, FlushBM25,
         ReconcileVectors, ReconcileBM25, CompleteIngestion, FailIngestion,
         ValidateCandidate, RecordRead, PostActivation, ActivationReturns, StartRun,
         KillRun, BuildReady, BuildFails, CommitRead, ReloadSwap, RollbackBegin,
         ReloadBegin, ApiCrash, SearchGet, SearchGate, SearchVectors, SearchBM25,
         SearchReturns, vars

\* What the API's operation may do: stay, end, begin on a request, on the previous
\* slot or on the active one, go on, or read the manifest.
LEMMA OperationStep ==
  ASSUME IInv, [Next]_vars
  PROVE  \/ UNCHANGED api
         \/ api'.pc = "idle"
         \/ /\ api.pc = "idle" /\ UNCHANGED <<manifest, served>>
            /\ api'.pc = "build"
            /\ \/ /\ api'.op = "activate"
                  /\ \E r \in requests : api'.slot = r.slot /\ api'.generation = r.generation
               \/ /\ api'.op = "rollback" /\ manifest.previous \in Slots
                  /\ api'.slot = manifest.previous
                  /\ manifest.generation[api'.slot] # NoGeneration
                  /\ api'.generation = manifest.generation[api'.slot]
               \/ /\ api'.op = "reload" /\ api'.slot = manifest.active
                  /\ api'.generation = manifest.generation[manifest.active]
         \/ /\ api.pc # "idle" /\ UNCHANGED <<manifest, served, outrun>>
            /\ api'.op = api.op /\ api'.slot = api.slot /\ api'.generation = api.generation
            /\ \/ api'.pc = "commit"
               \/ api'.pc = "publish" /\ api.op # "reload" /\ api'.copy = manifest
<1>0. TypeOK
  BY Typed
<1>1. ASSUME NEW r \in requests, ActivateBegin(r)
      PROVE  \/ UNCHANGED api
             \/ /\ api.pc = "idle" /\ UNCHANGED <<manifest, served>> /\ api'.pc = "build"
                /\ api'.op = "activate" /\ api'.slot = r.slot /\ api'.generation = r.generation
  BY <1>0, <1>1 DEF ActivateBegin, TypeOK
<1>2. CASE RollbackBegin
  BY <1>0, <1>2 DEF RollbackBegin, TypeOK
<1>3. CASE ReloadBegin
  BY <1>0, <1>3 DEF ReloadBegin, TypeOK
<1>4. CASE BuildReady
  BY <1>0, <1>4 DEF BuildReady, TypeOK, history
<1>5. CASE CommitRead
  BY <1>0, <1>5, IdleFacts DEF CommitRead, TypeOK, history
<1>6. CASE BuildFails \/ CommitPublish \/ ReloadSwap \/ ApiCrash
  BY <1>6, IdleFacts DEF BuildFails, CommitPublish, ReloadSwap, ApiCrash
<1> QED
  BY <1>1, <1>2, <1>3, <1>4, <1>5, <1>6
     DEF Next, IngestionStep, ApiStep, SearchStep, SeedDrop, SeedClone, SeedBackupBegins,
         SeedBackupEnds, ResolveCandidate, OpenGate, FlushVectors, FlushBM25,
         ReconcileVectors, ReconcileBM25, CompleteIngestion, FailIngestion,
         ValidateCandidate, RecordRead, RecordPublish, PostActivation, ActivationReturns,
         StartRun, KillRun, SearchGet, SearchGate, SearchVectors, SearchBM25,
         SearchReturns, vars

\* The route is swapped by the first request, at the end of an operation, or lost.
LEMMA ServedStep ==
  ASSUME IInv, [Next]_vars
  PROVE  \/ UNCHANGED served
         \/ served' = NoService
         \/ SearchGet /\ served = NoService /\ served' = ActiveService
         \/ (CommitPublish \/ ReloadSwap) /\ served' = ApiService /\ api.pc # "idle"
<1>1. ASSUME NEW r \in requests, ActivateBegin(r)
      PROVE  UNCHANGED served
  BY <1>1 DEF ActivateBegin
<1>2. CASE SearchGet
  BY <1>2 DEF SearchGet
<1>3. CASE CommitPublish \/ ReloadSwap
  BY <1>3 DEF CommitPublish, ReloadSwap
<1>4. CASE ApiCrash
  BY <1>4 DEF ApiCrash
<1> QED
  BY <1>1, <1>2, <1>3, <1>4
     DEF Next, IngestionStep, ApiStep, SearchStep, SeedDrop, SeedClone, SeedBackupBegins,
         SeedBackupEnds, ResolveCandidate, OpenGate, FlushVectors, FlushBM25,
         ReconcileVectors, ReconcileBM25, CompleteIngestion, FailIngestion,
         ValidateCandidate, RecordRead, RecordPublish, PostActivation, ActivationReturns,
         StartRun, KillRun, BuildReady, BuildFails, CommitRead, RollbackBegin,
         ReloadBegin, SearchGate, SearchVectors, SearchBM25, SearchReturns, vars

\* Only a run that has recorded its candidate adds an activation request.
LEMMA RequestsStep ==
  ASSUME [Next]_vars
  PROVE  requests' \subseteq requests \/ PostActivation
<1>1. ASSUME NEW r \in requests, ActivateBegin(r)
      PROVE  requests' \subseteq requests
  BY <1>1 DEF ActivateBegin
<1>2. CASE PostActivation
  BY <1>2
<1>3. CASE ApiCrash
  BY <1>3 DEF ApiCrash
<1>4. CASE UNCHANGED requests
  BY <1>4
<1> QED
  BY <1>1, <1>2, <1>3, <1>4
     DEF Next, IngestionStep, ApiStep, SearchStep, SeedDrop, SeedClone,
         SeedBackupBegins, SeedBackupEnds, ResolveCandidate, OpenGate, FlushVectors,
         FlushBM25, ReconcileVectors, ReconcileBM25, CompleteIngestion, FailIngestion,
         ValidateCandidate, RecordRead, RecordPublish, ActivationReturns, StartRun,
         KillRun, BuildReady, BuildFails, CommitRead, CommitPublish, ReloadSwap,
         RollbackBegin, ReloadBegin, SearchGet, SearchGate, SearchVectors, SearchBM25,
         SearchReturns, vars

\* Once a slot is filled the manifest never calls it empty again, and whatever
\* names a slot (the previous slot, a request, an operation, the route, a search)
\* names a filled one.
LEMMA FilledStep ==
  ASSUME IInv, SlotsFilled, [Next]_vars
  PROVE  SlotsFilled'
<1>0. TypeOK /\ manifest.status[manifest.active] # "empty" /\ manifest.active \in Slots
  BY Typed
<1>1. \/ UNCHANGED manifest
      \/ BothFilled(manifest')
  BY ManifestStep
<1>2. /\ BothFilled(manifest) => BothFilled(manifest')
      /\ \A s \in Slots : manifest.status[s] # "empty" => manifest'.status[s] # "empty"
  BY <1>1 DEF BothFilled
<1>3. manifest'.previous # NoSlot => BothFilled(manifest')
  BY <1>1 DEF SlotsFilled
<1>4. requests' # {} => BothFilled(manifest')
  <2>1. requests' \subseteq requests \/ ing.pc = "activate"
    BY RequestsStep DEF PostActivation
  <2> QED
    BY <1>2, <2>1 DEF SlotsFilled
<1>5. ing'.pc = "activate" => BothFilled(manifest')
  <2>1. ing'.pc = "activate" => ing.pc = "activate" \/ RecordPublish
    <3>1. CASE IngestionStep \/ StartRun \/ FailIngestion \/ KillRun
      BY <1>0, <3>1, IdleFacts
         DEF IngestionStep, SeedDrop, SeedClone, SeedBackupBegins, SeedBackupEnds,
             ResolveCandidate, OpenGate, ReconcileVectors, ReconcileBM25, CompleteIngestion,
             ValidateCandidate, RecordRead, PostActivation, ActivationReturns, StartRun,
             FailIngestion, KillRun, TypeOK
    <3>2. CASE UNCHANGED ing
      BY <3>2
    <3>3. ASSUME NEW r \in requests, ActivateBegin(r)
          PROVE  UNCHANGED ing
      BY <3>3 DEF ActivateBegin
    <3> QED
      BY <3>1, <3>2, <3>3
         DEF Next, ApiStep, SearchStep, FlushVectors, FlushBM25, BuildReady, BuildFails,
             CommitRead, CommitPublish, ReloadSwap, RollbackBegin, ReloadBegin, ApiCrash,
             SearchGet, SearchGate, SearchVectors, SearchBM25, SearchReturns, vars
  <2>2. CASE RecordPublish
    <3>1. BothFilled(manifest')
      <4>1. /\ ing.copy \in Manifest /\ WellFormed(ing.copy) /\ ing.slot \in Slots
            /\ ing.slot # ing.copy.active /\ run \in Nat
            /\ manifest' = RecordedManifest(ing.copy, ing.slot, run)
        BY <2>2 DEF IInv, TypeOK, CopiesWellFormed, CopyIsUsable, RecordPublish
      <4> QED
        BY <4>1, RecordKeepsWellFormed DEF BothFilled
    <3> QED
      BY <3>1
  <2> QED
    BY <1>2, <2>1, <2>2 DEF SlotsFilled
<1>6. /\ api'.pc # "idle" /\ api'.op # "reload" => BothFilled(manifest')
      /\ api'.pc = "publish" => api'.op # "reload" /\ BothFilled(api'.copy)
  <2>1. CASE UNCHANGED api \/ api'.pc = "idle"
    BY <1>2, <2>1 DEF SlotsFilled
  <2>2. CASE api.pc = "idle" /\ api'.pc = "build" /\ requests # {}
    BY <1>2, <2>2 DEF SlotsFilled
  <2>3. CASE api.pc = "idle" /\ api'.pc = "build" /\ manifest.previous \in Slots
    BY <1>2, <2>3 DEF SlotsFilled, Slots, NoSlot
  <2>4. CASE api'.op = "reload" /\ api'.pc = "build"
    BY <2>4
  <2>5. CASE /\ api.pc # "idle" /\ UNCHANGED manifest /\ api'.op = api.op
             /\ \/ api'.pc = "commit"
                \/ api'.pc = "publish" /\ api.op # "reload" /\ api'.copy = manifest
    BY <2>5 DEF SlotsFilled
  <2> QED
    BY <2>1, <2>2, <2>3, <2>4, <2>5, OperationStep
<1>7. served' # NoService => manifest'.status[served'.slot] # "empty"
  <2>1. CASE served' = served
    BY <1>2, <2>1 DEF SlotsFilled, TypeOK, IInv, NoService
  <2>2. CASE SearchGet /\ served' = ActiveService
    BY <1>0, <1>2, <2>2 DEF ActiveService
  <2>3. CASE served' = ApiService /\ api.pc # "idle"
    BY <1>0, <1>2, <2>3 DEF ApiService, IInv, CopyIsUsable, TypeOK
  <2> QED
    BY <2>1, <2>2, <2>3, ServedStep
<1>8. search'.pc # "idle" => manifest'.status[search'.slot] # "empty"
  <2>1. \/ search'.slot = search.slot /\ search.pc # "idle"
        \/ search'.pc = "idle"
        \/ UNCHANGED search
        \/ SearchGet
    <3>1. CASE SearchStep
      BY <1>0, <3>1, IdleFacts
         DEF SearchStep, SearchGate, SearchVectors, SearchBM25, SearchReturns, TypeOK
    <3>2. CASE ApiCrash
      BY <3>2, IdleFacts DEF ApiCrash
    <3>3. ASSUME NEW r \in requests, ActivateBegin(r)
          PROVE  UNCHANGED search
      BY <3>3 DEF ActivateBegin
    <3> QED
      BY <3>1, <3>2, <3>3
         DEF Next, IngestionStep, ApiStep, SeedDrop, SeedClone, SeedBackupBegins,
             SeedBackupEnds, ResolveCandidate, OpenGate, FlushVectors, FlushBM25,
             ReconcileVectors, ReconcileBM25, CompleteIngestion, FailIngestion,
             ValidateCandidate, RecordRead, RecordPublish, PostActivation,
             ActivationReturns, StartRun, KillRun, BuildReady, BuildFails, CommitRead,
             CommitPublish, ReloadSwap, RollbackBegin, ReloadBegin, vars
  <2>2. CASE SearchGet
    <3>1. search'.slot = served'.slot /\ served' # NoService
      <4>1. served' # NoService
        BY <1>0, <2>2 DEF SearchGet, ActiveService, NoService, NoSlot, Slots
      <4>2. search' = [IdleSearch EXCEPT !.pc = "gate", !.slot = served'.slot]
        BY <2>2 DEF SearchGet
      <4> QED
        BY <4>1, <4>2 DEF IdleSearch
    <3> QED
      BY <1>7, <3>1
  <2> QED
    BY <1>0, <1>2, <2>1, <2>2 DEF SlotsFilled, TypeOK
<1> QED
  BY <1>3, <1>4, <1>5, <1>6, <1>7, <1>8 DEF SlotsFilled

\* The route names the manifest's active slot; what can part them, the record of
\* a run that puts back another active slot, is what `outrun` remembers.
LEMMA RouteStep ==
  ASSUME IInv, SlotsFilled, RouteInv, [Next]_vars
  PROVE  RouteInv'
<1>0. TypeOK /\ manifest.active \in Slots
  BY Typed
<1>1. CASE RecordPublish
  <2>1. /\ manifest'.active = ing.copy.active /\ UNCHANGED <<served, api>>
        /\ outrun' = IF ing.copy.active = manifest.active THEN outrun ELSE {"route", "operation"}
    BY <1>0, <1>1 DEF RecordPublish, RecordedManifest, TypeOK, Manifest
  <2> QED
    BY <2>1 DEF RouteInv, RouteFollowsManifest
<1>2. CASE CommitPublish
  <2>1. manifest'.active = api.slot
    BY <1>0, <1>2 DEF CommitPublish, PromotedManifest, RestoredManifest, TypeOK, Manifest
  <2> QED
    BY <1>2, <2>1, IdleFacts DEF CommitPublish, ApiService, RouteInv, RouteFollowsManifest
<1>3. CASE ReloadSwap
  BY <1>3, IdleFacts DEF ReloadSwap, ApiService, RouteInv, RouteFollowsManifest, history
<1>4. CASE ReloadBegin
  BY <1>0, <1>4 DEF ReloadBegin, RouteInv, RouteFollowsManifest, TypeOK
<1>5. CASE SearchGet
  BY <1>5 DEF SearchGet, ActiveService, RouteInv, RouteFollowsManifest
<1>6. CASE ApiCrash
  BY <1>6, IdleFacts DEF ApiCrash, RouteInv, RouteFollowsManifest
<1>7. CASE /\ UNCHANGED <<manifest, served, outrun>>
           /\ \/ api'.pc = "idle"
              \/ api'.op # "reload"
              \/ (api'.op = api.op /\ api'.slot = api.slot /\ api.pc # "idle")
  BY <1>7 DEF RouteInv, RouteFollowsManifest
<1>8. ASSUME NEW r \in requests, ActivateBegin(r)
      PROVE  RouteInv'
  <2>1. CASE Activatable(manifest, r.slot, r.generation)
    <3>1. UNCHANGED <<manifest, served, outrun>> /\ api'.op = "activate"
      BY <1>0, <1>8, <2>1 DEF ActivateBegin, TypeOK, history
    <3> QED
      BY <3>1 DEF RouteInv, RouteFollowsManifest
  <2>2. CASE ~Activatable(manifest, r.slot, r.generation)
    <3>1. UNCHANGED <<manifest, served, outrun, api>>
      BY <1>8, <2>2 DEF ActivateBegin, history
    <3> QED
      BY <3>1 DEF RouteInv, RouteFollowsManifest
  <2> QED
    BY <2>1, <2>2
<1>9. CASE RollbackBegin \/ BuildReady \/ BuildFails \/ CommitRead
  <2>1. /\ UNCHANGED <<manifest, served, outrun>>
        /\ \/ api'.pc = "idle"
           \/ api'.op # "reload"
           \/ (api'.op = api.op /\ api'.slot = api.slot /\ api.pc # "idle")
    <3>1. CASE RollbackBegin \/ BuildReady
      BY <1>0, <3>1 DEF RollbackBegin, BuildReady, TypeOK, history
    <3>2. CASE BuildFails
      BY <3>2, IdleFacts DEF BuildFails, history
    <3>3. CASE CommitRead
      BY <1>0, <3>3, IdleFacts DEF CommitRead, TypeOK, history
    <3> QED
      BY <1>9, <3>1, <3>2, <3>3
  <2> QED
    BY <2>1, <1>7
<1>10. CASE UNCHANGED <<manifest, served, outrun, api>>
  BY <1>10 DEF RouteInv, RouteFollowsManifest
<1> QED
  BY <1>1, <1>2, <1>3, <1>4, <1>5, <1>6, <1>8, <1>9, <1>10
     DEF Next, IngestionStep, ApiStep, SearchStep, SeedDrop, SeedClone, SeedBackupBegins,
         SeedBackupEnds, ResolveCandidate, OpenGate, FlushVectors, FlushBM25,
         ReconcileVectors, ReconcileBM25, CompleteIngestion, FailIngestion,
         ValidateCandidate, RecordRead, PostActivation, ActivationReturns, StartRun,
         KillRun, SearchGate, SearchVectors, SearchBM25, SearchReturns, vars, history

\* Only a run from its seeding to its end changes indexes, gates or writers.
LEMMA QuietStep ==
  ASSUME [Next]_vars, ing.pc \in {"publish", "activate"}
  PROVE  UNCHANGED <<vec, bm25, gate, writer>>
<1>1. ASSUME NEW r \in requests, ActivateBegin(r)
      PROVE  UNCHANGED <<vec, bm25, gate, writer>>
  BY <1>1 DEF ActivateBegin, indexes, history
<1>2. CASE IngestionStep \/ StartRun \/ FlushVectors \/ FlushBM25 \/ FailIngestion \/ KillRun
  BY <1>2
     DEF IngestionStep, SeedDrop, SeedClone, SeedBackupBegins, SeedBackupEnds,
         ResolveCandidate, OpenGate, FlushVectors, FlushBM25, ReconcileVectors,
         ReconcileBM25, CompleteIngestion, FailIngestion, ValidateCandidate, RecordRead,
         RecordPublish, PostActivation, ActivationReturns, StartRun, KillRun, indexes,
         history
<1>3. CASE BuildReady \/ BuildFails \/ CommitRead \/ CommitPublish \/ ReloadSwap
           \/ RollbackBegin \/ ReloadBegin \/ ApiCrash
  BY <1>3
     DEF BuildReady, BuildFails, CommitRead, CommitPublish, ReloadSwap, RollbackBegin,
         ReloadBegin, ApiCrash, indexes, history
<1>4. CASE SearchStep \/ SearchGet \/ UNCHANGED vars
  BY <1>4
     DEF SearchStep, SearchGet, SearchGate, SearchVectors, SearchBM25, SearchReturns,
         indexes, history, vars
<1> QED
  BY <1>1, <1>2, <1>3, <1>4 DEF Next, ApiStep

\* Names stay true: what a name says of a slot survives the step (SlotStep), and
\* a new name is the number of a run whose scan its slot holds.
LEMMA NamesStep ==
  ASSUME IInv, NamesAreTrue, WriterProgress, SlotsFilled, [Next]_vars
  PROVE  NamesAreTrue'
<1> DEFINE TrueNext(s, g) ==
      /\ g <= writer'[s]
      /\ g = writer'[s] => vec'[s] = g /\ bm25'[s] = g /\ gate'[s] = "none"
    NamesNext(m) == \A s \in Slots : m.generation[s] # NoGeneration =>
                                       TrueNext(s, m.generation[s])
<1>0. /\ TypeOK /\ manifest.active \in Slots /\ run \in Nat
      /\ manifest.generation[manifest.active] # NoGeneration
      /\ ing.slot \in Slots /\ api.slot \in Slots /\ api.generation \in Int
  BY Typed DEF TypeOK
<1>m. /\ manifest \in Manifest /\ WellFormed(manifest)
      /\ ing.copy \in Manifest /\ WellFormed(ing.copy)
      /\ api.copy \in Manifest /\ WellFormed(api.copy)
  BY DEF IInv, TypeOK, CopiesWellFormed
<1>k. \A s \in Slots, g \in Int : Usable(s) /\ NameIsTrue(s, g) => TrueNext(s, g)
  BY SlotStep DEF NameIsTrue, HoldsScan
<1>g. SUFFICES /\ NamesNext(manifest')
               /\ ing'.pc = "publish" => NamesNext(ing'.copy)
               /\ api'.pc = "publish" => NamesNext(api'.copy)
               /\ api'.pc # "idle" => TrueNext(api'.slot, api'.generation)
               /\ \A r \in requests' : TrueNext(r.slot, r.generation)
  BY DEF NamesAreTrue, ManifestNames, NameIsTrue, HoldsScan
<1> HIDE DEF TrueNext
<1>1. NamesNext(manifest)
  <2> SUFFICES ASSUME NEW s \in Slots, manifest.generation[s] # NoGeneration
               PROVE  TrueNext(s, manifest.generation[s])
    OBVIOUS
  <2>1. Usable(s) /\ manifest.generation[s] \in Int
    BY <1>m DEF Usable, WellFormed, Manifest
  <2>2. NameIsTrue(s, manifest.generation[s])
    BY DEF NamesAreTrue, ManifestNames
  <2> QED
    BY <1>k, <2>1, <2>2
<1>2. ing.pc = "publish" => NamesNext(ing.copy)
  <2> SUFFICES ASSUME ing.pc = "publish", NEW s \in Slots, ing.copy.generation[s] # NoGeneration
               PROVE  TrueNext(s, ing.copy.generation[s])
    OBVIOUS
  <2>1. Usable(s) /\ ing.copy.generation[s] \in Int
    BY <1>m DEF Usable, WellFormed, Manifest
  <2>2. NameIsTrue(s, ing.copy.generation[s])
    BY DEF NamesAreTrue, ManifestNames
  <2> QED
    BY <1>k, <2>1, <2>2
<1>3. api.pc = "publish" => NamesNext(api.copy)
  <2> SUFFICES ASSUME api.pc = "publish", NEW s \in Slots, api.copy.generation[s] # NoGeneration
               PROVE  TrueNext(s, api.copy.generation[s])
    OBVIOUS
  <2>1. Usable(s) /\ api.copy.generation[s] \in Int
    BY <1>m DEF Usable, WellFormed, Manifest
  <2>2. NameIsTrue(s, api.copy.generation[s])
    BY DEF NamesAreTrue, ManifestNames
  <2> QED
    BY <1>k, <2>1, <2>2
<1>4. api.pc # "idle" => TrueNext(api.slot, api.generation)
  <2>1. api.pc # "idle" => Usable(api.slot) /\ NameIsTrue(api.slot, api.generation)
    BY DEF Usable, NamesAreTrue
  <2> QED
    BY <1>0, <1>k, <2>1
<1>5. \A r \in requests : TrueNext(r.slot, r.generation)
  <2> SUFFICES ASSUME NEW r \in requests
               PROVE  TrueNext(r.slot, r.generation)
    OBVIOUS
  <2>1. r.slot \in Slots /\ r.generation \in Int
    BY <1>0 DEF TypeOK
  <2>2. Usable(r.slot) /\ NameIsTrue(r.slot, r.generation)
    BY <2>1 DEF NamesAreTrue, SlotsFilled, BothFilled, Usable
  <2> QED
    BY <1>k, <2>1, <2>2
<1>6. ing.pc \in {"publish", "activate"} => TrueNext(ing.slot, run)
  <2> SUFFICES ASSUME ing.pc \in {"publish", "activate"}
               PROVE  TrueNext(ing.slot, run)
    OBVIOUS
  <2>1. /\ writer[ing.slot] = run /\ HoldsScan(ing.slot, run)
        /\ \A s \in Slots : writer[s] <= run
    BY DEF WriterProgress
  <2>2. UNCHANGED <<vec, bm25, gate, writer>>
    BY QuietStep
  <2> QED
    BY <2>1, <2>2, <1>0 DEF TrueNext, HoldsScan
<1>7. NamesNext(manifest')
  <2>1. CASE UNCHANGED manifest
    BY <1>1, <2>1
  <2>2. CASE RecordPublish /\ \A s \in Slots : manifest'.generation[s] =
                                IF s = ing.slot THEN run ELSE ing.copy.generation[s]
    <3>1. ing.pc = "publish"
      BY <2>2 DEF RecordPublish
    <3> QED
      BY <1>0, <1>2, <1>6, <2>2, <3>1
  <2>3. CASE CommitPublish /\ manifest'.generation = api.copy.generation
    <3>1. api.pc = "publish"
      BY <2>3 DEF CommitPublish
    <3> QED
      BY <1>3, <2>3, <3>1
  <2> QED
    BY <2>1, <2>2, <2>3, ManifestStep
<1>8. ing'.pc = "publish" => NamesNext(ing'.copy)
  <2>1. ing'.pc = "publish" => UNCHANGED ing \/ ing'.copy = manifest
    <3>1. CASE IngestionStep \/ StartRun \/ FailIngestion \/ KillRun
      BY <1>0, <3>1, IdleFacts
         DEF IngestionStep, SeedDrop, SeedClone, SeedBackupBegins, SeedBackupEnds,
             ResolveCandidate, OpenGate, ReconcileVectors, ReconcileBM25, CompleteIngestion,
             ValidateCandidate, RecordRead, RecordPublish, PostActivation,
             ActivationReturns, StartRun, FailIngestion, KillRun, TypeOK
    <3>2. CASE UNCHANGED ing
      BY <3>2
    <3>3. ASSUME NEW r \in requests, ActivateBegin(r)
          PROVE  UNCHANGED ing
      BY <3>3 DEF ActivateBegin
    <3> QED
      BY <3>1, <3>2, <3>3
         DEF Next, ApiStep, SearchStep, FlushVectors, FlushBM25, BuildReady, BuildFails,
             CommitRead, CommitPublish, ReloadSwap, RollbackBegin, ReloadBegin, ApiCrash,
             SearchGet, SearchGate, SearchVectors, SearchBM25, SearchReturns, vars
  <2> QED
    BY <1>1, <1>2, <2>1
<1>9. /\ api'.pc = "publish" => NamesNext(api'.copy)
      /\ api'.pc # "idle" => TrueNext(api'.slot, api'.generation)
  <2>1. CASE UNCHANGED api \/ api'.pc = "idle"
    BY <1>3, <1>4, <2>1
  <2>2. CASE /\ api'.pc = "build"
             /\ \E r \in requests : api'.slot = r.slot /\ api'.generation = r.generation
    BY <1>5, <2>2
  <2>3. CASE /\ api'.pc = "build" /\ manifest.previous \in Slots
             /\ api'.slot = manifest.previous
             /\ manifest.generation[api'.slot] # NoGeneration
             /\ api'.generation = manifest.generation[api'.slot]
    BY <1>1, <2>3
  <2>4. CASE /\ api'.pc = "build" /\ api'.slot = manifest.active
             /\ api'.generation = manifest.generation[manifest.active]
    BY <1>0, <1>1, <2>4
  <2>5. CASE /\ api.pc # "idle" /\ api'.slot = api.slot /\ api'.generation = api.generation
             /\ \/ api'.pc = "commit"
                \/ api'.pc = "publish" /\ api'.copy = manifest
    BY <1>1, <1>4, <2>5
  <2> QED
    BY <2>1, <2>2, <2>3, <2>4, <2>5, OperationStep
<1>10. \A r \in requests' : TrueNext(r.slot, r.generation)
  <2>1. CASE PostActivation
    <3>1. /\ ing.pc = "activate"
          /\ requests' = requests \cup {[slot |-> ing.slot, generation |-> run]}
      BY <2>1 DEF PostActivation
    <3> QED
      BY <1>5, <1>6, <3>1
  <2>2. requests' \subseteq requests \/ PostActivation
    BY RequestsStep
  <2> QED
    BY <1>5, <2>1, <2>2
<1> QED
  BY <1>7, <1>8, <1>9, <1>10

\* A search that was let in reads a slot that nobody writes, or its slot has a
\* later writer: the gate it found open is closed while a run writes.
LEMMA SearchInvStep ==
  ASSUME IInv, WriterProgress, SlotsFilled, SearchInv, [Next]_vars
  PROVE  SearchInv'
<1>0. /\ TypeOK /\ ing.slot \in Slots /\ search.slot \in Slots /\ run \in Nat
      /\ \A s \in Slots : writer[s] \in Int
      /\ search.writer \in Int
  BY Typed DEF TypeOK
<1> DEFINE Reading == search.pc = "read" /\ search.writer = writer[search.slot]
<1>1. CASE OpenGate
  <2>1. /\ UNCHANGED <<search, vec, bm25>> /\ ing.pc = "scan" /\ ing'.slot = ing.slot
        /\ writer' = [writer EXCEPT ![ing.slot] = run]
        /\ \A s \in Slots : writer[s] < run
    BY <1>0, <1>1 DEF OpenGate, WriterProgress, TypeOK
  <2>2. /\ \A s \in Slots : writer'[s] = IF s = ing.slot THEN run ELSE writer[s]
        /\ \A s \in Slots : Torn(s)' <=> Torn(s)
    BY <1>0, <2>1 DEF TypeOK, Torn
  <2> QED
    BY <1>0, <2>1, <2>2 DEF SearchInv, Torn
<1>2. CASE SeedDrop \/ SeedClone \/ SeedBackupBegins \/ SeedBackupEnds
  <2>1. /\ UNCHANGED <<search, writer>> /\ ing'.pc \in {"seed", "backup", "copy"}
        /\ \A s \in Slots \ {ing.slot} : vec'[s] = vec[s] /\ bm25'[s] = bm25[s]
    BY <1>0, <1>2
       DEF SeedDrop, SeedClone, SeedBackupBegins, SeedBackupEnds, TypeOK, history
  <2>2. ~Usable(ing.slot)
    BY <1>0, <1>2
       DEF IInv, UsableIsCovered, SeedsUnusable, SeedDrop, SeedClone, SeedBackupBegins,
           SeedBackupEnds
  <2>3. search.pc # "idle" => search.slot # ing.slot
    BY <2>2 DEF SlotsFilled, Usable
  <2> QED
    BY <1>0, <2>1, <2>3 DEF SearchInv, Torn
<1>3. CASE FlushVectors \/ FlushBM25 \/ ReconcileVectors \/ ReconcileBM25
  <2>1. /\ UNCHANGED <<search, writer>> /\ ing'.slot = ing.slot
        /\ ing.pc \in {"write", "reconcile"}
        /\ \A s \in Slots \ {ing.slot} : vec'[s] = vec[s] /\ bm25'[s] = bm25[s]
    BY <1>0, <1>3
       DEF FlushVectors, FlushBM25, ReconcileVectors, ReconcileBM25, TypeOK, history
  <2>2. Reading => search.slot # ing.slot
    BY <2>1 DEF SearchInv
  <2> QED
    BY <1>0, <2>1, <2>2 DEF SearchInv, Torn
<1>4. CASE ResolveCandidate \/ CompleteIngestion \/ FailIngestion \/ KillRun \/ StartRun
           \/ ValidateCandidate \/ RecordRead \/ RecordPublish \/ PostActivation
           \/ ActivationReturns
  <2>1. /\ UNCHANGED <<search, writer, vec, bm25>>
        /\ ing'.pc \notin {"write", "reconcile", "complete"}
    BY <1>0, <1>4, IdleFacts
       DEF ResolveCandidate, CompleteIngestion, FailIngestion, KillRun, StartRun,
           ValidateCandidate, RecordRead, RecordPublish, PostActivation, ActivationReturns,
           TypeOK, history, indexes
  <2> QED
    BY <2>1 DEF SearchInv, Torn
<1>5. CASE UNCHANGED <<indexes, ing, writer>>
  <2>1. UNCHANGED <<vec, bm25, gate, ing, writer>>
    BY <1>5 DEF indexes
  <2>2. CASE SearchGate
    <3>1. CASE gate[search.slot] = "none"
      <4>1. /\ search'.pc = "read" /\ search'.slot = search.slot
            /\ search'.vec = search.vec /\ search'.bm25 = search.bm25
            /\ search'.writer = writer[search.slot] /\ search.pc = "gate"
        BY <1>0, <2>2, <3>1 DEF SearchGate, TypeOK
      <4>2. ~Torn(search.slot)
        BY <1>0, <3>1, <4>1 DEF IInv, UsableIsCovered, SlotsFilled, Usable
      <4>3. ing.pc \in {"write", "reconcile", "complete"} => ing.slot # search.slot
        BY <3>1 DEF IInv, ScanProgress
      <4> QED
        BY <1>0, <2>1, <4>1, <4>2, <4>3 DEF SearchInv, Torn
    <3>2. CASE gate[search.slot] # "none"
      BY <2>2, <3>2, IdleFacts DEF SearchGate, SearchInv
    <3> QED
      BY <3>1, <3>2
  <2>3. CASE SearchVectors \/ SearchBM25
    <3>1. /\ search.pc = "read" /\ search'.pc = "read" /\ search'.slot = search.slot
          /\ search'.writer = search.writer
          /\ search'.vec \in {search.vec, vec[search.slot]}
          /\ search'.bm25 \in {search.bm25, bm25[search.slot]}
      BY <1>0, <2>3 DEF SearchVectors, SearchBM25, TypeOK
    <3> QED
      BY <2>1, <3>1 DEF SearchInv, Torn
  <2>4. CASE SearchReturns \/ SearchGet \/ ApiCrash
    <3>1. search'.pc # "read" /\ search'.vec = Absent /\ search'.bm25 = Absent
      <4>1. CASE SearchReturns \/ ApiCrash
        BY <4>1, IdleFacts DEF SearchReturns, ApiCrash
      <4>2. CASE SearchGet
        <5>1. search' = [IdleSearch EXCEPT !.pc = "gate", !.slot = served'.slot]
          BY <4>2 DEF SearchGet
        <5> QED
          BY <5>1 DEF IdleSearch
      <4> QED
        BY <2>4, <4>1, <4>2
    <3> QED
      BY <3>1 DEF SearchInv
  <2>5. CASE UNCHANGED search
    BY <2>1, <2>5 DEF SearchInv, Torn
  <2>6. ASSUME NEW r \in requests, ActivateBegin(r)
        PROVE  UNCHANGED search
    BY <2>6 DEF ActivateBegin
  <2>7. CASE BuildReady \/ BuildFails \/ CommitRead \/ CommitPublish \/ ReloadSwap
             \/ RollbackBegin \/ ReloadBegin
    BY <2>5, <2>7
       DEF BuildReady, BuildFails, CommitRead, CommitPublish, ReloadSwap, RollbackBegin,
           ReloadBegin
  <2>8. CASE UNCHANGED vars
    BY <2>5, <2>8 DEF vars
  <2> QED
    BY <1>1, <1>2, <1>3, <1>4, <2>2, <2>3, <2>4, <2>5, <2>6, <2>7, <2>8
       DEF Next, IngestionStep, ApiStep, SearchStep
<1>6. ASSUME NEW r \in requests, ActivateBegin(r)
      PROVE  UNCHANGED <<indexes, ing, writer>>
  BY <1>6 DEF ActivateBegin, history
<1>7. CASE BuildReady \/ BuildFails \/ CommitRead \/ CommitPublish \/ ReloadSwap
           \/ RollbackBegin \/ ReloadBegin \/ ApiCrash
  BY <1>5, <1>7
     DEF BuildReady, BuildFails, CommitRead, CommitPublish, ReloadSwap, RollbackBegin,
         ReloadBegin, ApiCrash, history
<1>8. CASE SearchStep \/ SearchGet
  BY <1>5, <1>8
     DEF SearchStep, SearchGet, SearchGate, SearchVectors, SearchBM25, SearchReturns, history
<1>9. CASE UNCHANGED vars
  BY <1>5, <1>9 DEF vars, indexes
<1> QED
  BY <1>1, <1>2, <1>3, <1>4, <1>5, <1>6, <1>7, <1>8, <1>9 DEF Next, IngestionStep, ApiStep

\* Both invariants hold in every reachable state, whatever overlaps.
LEMMA OverlapInvariance == Spec => [](IInv /\ OverlapInv)
<1>1. Init => IInv /\ OverlapInv
  BY InitEstablishes, InitOverlap
<1>2. IInv /\ OverlapInv /\ [Next]_vars => (IInv /\ OverlapInv)'
  BY NextKeeps, NamesStep, WriterStep, FilledStep, RouteStep, SearchInvStep DEF OverlapInv
<1> QED
  BY <1>1, <1>2, PTL DEF Spec

\* The manifest marks one active slot, a damaged slot is behind its gate and the
\* route follows the manifest, for any number of runs that overlap activations,
\* rollbacks and reloads in any way.
THEOREM IndexIsCovered == Spec => []IndexInv
<1>1. IInv /\ OverlapInv => RouteFollowsManifest
  BY DEF OverlapInv, RouteInv
<1>2. TypeOK /\ ActiveIsMarked /\ GateCoversDamage /\ RouteFollowsManifest => IndexInv
  BY DEF IndexInv
<1> QED
  BY <1>1, <1>2, TypeCorrect, ManifestMarksActive, DamageIsGated, OverlapInvariance, PTL

\* A search that was let in gets one complete scan from both indexes, wherever a
\* run fails, either process dies or the route is swapped, unless a later run
\* opened the gate of its slot after it was let in.
THEOREM SearchIsConsistent == Spec => []SearchSeesOneScan
<1>1. IInv /\ OverlapInv => SearchSeesOneScan
  <2> SUFFICES ASSUME IInv, OverlapInv, search.vec # Absent, search.bm25 # Absent,
                      writer[search.slot] = search.writer
               PROVE  search.vec = search.bm25 /\ search.vec # Partial
    BY DEF SearchSeesOneScan
  <2>1. search.pc = "read"
    BY DEF OverlapInv, SearchInv
  <2> QED
    BY <2>1 DEF OverlapInv, SearchInv, Torn
<1> QED
  BY <1>1, OverlapInvariance, PTL

\* Whatever swaps the route, the first request, a reload, an activation or a
\* rollback, the slot it goes to has, in both indexes and with no gate in front
\* of it, the scan that the generation is named after, or a later run has opened
\* the gate of the slot.
THEOREM PromotedWasValidated == Spec => PromotesWhatWasValidated
<1> DEFINE Promotes ==
      served' # served /\ served' # NoService =>
          \/ HoldsScan(served'.slot, served'.generation)
          \/ writer[served'.slot] > served'.generation
<1>1. IInv /\ OverlapInv /\ [Next]_vars => [Promotes]_vars
  <2> SUFFICES ASSUME IInv, OverlapInv, [Next]_vars, served' # served, served' # NoService
               PROVE  \/ HoldsScan(served'.slot, served'.generation)
                      \/ writer[served'.slot] > served'.generation
    OBVIOUS
  <2>0. /\ TypeOK /\ manifest.active \in Slots
        /\ manifest.generation[manifest.active] # NoGeneration
        /\ \A s \in Slots : writer[s] \in Int /\ manifest.generation[s] \in Int
        /\ api.slot \in Slots /\ api.generation \in Int
    BY Typed DEF TypeOK
  <2>1. /\ served'.slot \in Slots /\ served'.generation \in Int
        /\ NameIsTrue(served'.slot, served'.generation)
    <3>1. CASE served' = ActiveService
      BY <2>0, <3>1 DEF ActiveService, OverlapInv, NamesAreTrue, ManifestNames
    <3>2. CASE served' = ApiService /\ api.pc # "idle"
      BY <2>0, <3>2 DEF ApiService, OverlapInv, NamesAreTrue
    <3> QED
      BY <3>1, <3>2, ServedStep
  <2> QED
    BY <2>0, <2>1 DEF NameIsTrue
<1> QED
  BY <1>1, OverlapInvariance, PTL DEF Spec, PromotesWhatWasValidated
-----------------------------------------------------------------------------
(***************************************************************************)
(* What an ingestion run writes into a slot, row by row (IngestionRows):   *)
(* the two indexes of a slot agree with each other and, after a full run,  *)
(* with the source.                                                        *)
(*                                                                         *)
(* Neither property is inductive.  A flush writes in three steps (the      *)
(* metadata, the embeddings, the BM25 rows), and what it may assume of a   *)
(* row depends on the step (BatchRows), on the batches before it           *)
(* (FlushedRows), on whether the marker is up (GateIsUp), on whether       *)
(* anybody else has written meanwhile (Excused), and on who may have torn  *)
(* it: the run that is at it, one that stopped at it, or an operator       *)
(* (TornIsKnown).                                                          *)
(***************************************************************************)

\* A row that was prepared: it has embedding text.
PreparedRow == [doc : Texts, lex : Texts \cup {NoText}]

\* The phases of a run, and the rows a batch or a scan holds.
Flushing == {"metadata", "embed", "lexical"}
Reconciling == {"reconcile_vectors", "reconcile_bm25"}
Phases == {"idle", "replace_vectors", "replace_bm25", "scan", "classify", "complete"}
            \cup Flushing \cup Reconciling

Holds(rows) == DOMAIN rows \subseteq Keys /\ \A k \in DOMAIN rows : rows[k] \in PreparedRow

\* The types, and that a run has read a revision of the model.
TypesHold ==
  /\ RowsTypeOK
  /\ model \in Revisions
  /\ DOMAIN ingest = {"pc", "opts", "revision", "left", "batch", "scanned"}
  /\ ingest.pc \in Phases
  /\ ingest.pc # "idle" => ingest.revision \in Revisions
  /\ Holds(ingest.batch) /\ Holds(ingest.scanned)

\* The batch is a part of what was scanned, and what is left was not scanned.
BatchFits ==
  /\ \A k \in DOMAIN ingest.batch :
       k \in DOMAIN ingest.scanned /\ ingest.scanned[k] = ingest.batch[k]
  /\ \A k \in ingest.left : k \notin DOMAIN ingest.scanned
  /\ ingest.pc \notin {"scan", "classify"} \cup Flushing => DOMAIN ingest.batch = {}
  /\ ingest.pc \in {"replace_vectors", "replace_bm25"} => DOMAIN ingest.scanned = {}

\* A vector row names its namespace, its hash is of its own metadata, and a row
\* that names no revision, or is of the former namespace, is a legacy row.
RowsKnowTheirPlace ==
  \A i \in Ids : vectors[i] # Gone =>
    /\ vectors[i].metadata.ns = i[1]
    /\ vectors[i].hash # Gone => vectors[i].hash.row = vectors[i].metadata.row
    /\ vectors[i].revision = Gone \/ i[1] = "former" => vectors[i].by = Gone

\* Somebody else wrote an index while the run was on, and k may be what they wrote.
Excused(k) == foreign /\ k \in unsettled

\* The vector row, and the BM25 row, that the scanned row asks for.
InStep(k) ==
  LET v == vectors[Id(k)] IN
  /\ v # Gone
  /\ v.document = ingest.scanned[k].doc
  /\ v.metadata.row = ingest.scanned[k]
  /\ v.revision = ingest.revision

LexInStep(k) == ingest.scanned[k].lex # NoText => lexical[Id(k)] = ingest.scanned[k].lex

\* The marker is up before anything is deleted; without it a flush finds only rows
\* that are right already.
GateIsUp ==
  /\ ingest.pc \in {"replace_vectors", "replace_bm25"} \cup Reconciling => marker = "running"
  /\ marker = "none" /\ ingest.pc \in Flushing =>
       \A k \in DOMAIN ingest.batch : Excused(k) \/ InStep(k)

\* What was scanned and has left the batch is in both indexes.
FlushedRows ==
  ingest.pc # "idle" =>
    \A k \in DOMAIN ingest.scanned \ DOMAIN ingest.batch :
       Excused(k) \/ (InStep(k) /\ LexInStep(k))

\* Within a flush: a row is right after its metadata update or is to be embedded,
\* and right once the embeddings are in.
BatchRows ==
  /\ ingest.pc = "embed" =>
       \A k \in DOMAIN ingest.batch : Excused(k) \/ InStep(k) \/ k \in ToEmbed
  /\ ingest.pc = "lexical" =>
       \A k \in DOMAIN ingest.batch : Excused(k) \/ InStep(k)

\* A run that replaces its source has emptied the vectors before the BM25 rows.
ReplacedRows ==
  ingest.pc = "replace_bm25" => \A k \in Keys : k \in unsettled \/ vectors[Id(k)] = Gone

\* A torn row is one that an operator wrote or a completed run passed over, or it
\* is behind the gate, and a run is at it or stopped at it.
TornIsKnown ==
  \A k \in Keys : TornRow(k) =>
    k \in unsettled \/ (marker # "none" /\ (k \in AtWork \/ k \in stopped))

\* A full run has removed what it did not see.
Reconciled == ingest.pc = "complete" /\ ingest.opts.reconcile

\* After the two reconciling deletions, only scanned rows are left.
UnseenRows ==
  /\ ingest.pc = "reconcile_bm25" \/ Reconciled =>
       \A k \in Keys \ DOMAIN ingest.scanned : Excused(k) \/ vectors[Id(k)] = Gone
  /\ Reconciled =>
       /\ \A k \in Keys \ DOMAIN ingest.scanned : lexical[Id(k)] = Gone
       /\ \A k \in Keys : lexical[<<"former", k>>] = Gone

\* A run that has completed exactly is not running.
Exactness == FullRunIsExact /\ (exact => ingest.pc = "idle")

\* The inductive invariant.
RowsInv == TypesHold /\ BatchFits /\ RowsKnowTheirPlace /\ EmbeddingIsOfDocument /\ GateIsUp
            /\ FlushedRows /\ BatchRows /\ ReplacedRows /\ UnseenRows /\ TornIsKnown /\ Exactness
-----------------------------------------------------------------------------
\* A nonempty set of numbers has a least one, which Min names.
LEMMA LeastKey ==
  ASSUME NEW S, S \subseteq Nat, S # {}
  PROVE  Min(S) \in S
  <1> DEFINE less == OpToRel(<, Nat)
  <1>1. IsWellFoundedOn(less, Nat)
    BY NatLessThanWellFounded
  <1>2. \A x, y \in Nat : <<y, x>> \in less <=> y < x
    BY DEF OpToRel
  <1> HIDE DEF less
  <1>3. PICK x \in S : \A y \in S : <<y, x>> \notin less
    BY <1>1, WFMin
  <1>4. x \in Nat /\ \A y \in S : y \in Nat /\ ~(y < x)
    BY <1>2, <1>3
  <1>5. \A y \in S : x =< y
    BY <1>4
  <1> QED
    BY <1>5 DEF Min

\* The ids of the two namespaces.
LEMMA IdsOfKeys ==
  /\ \A k \in Keys : Id(k) \in Ids /\ Id(k)[1] = "target" /\ Id(k)[2] = k
  /\ \A k \in Keys : <<"former", k>> \in Ids /\ <<"former", k>>[1] = "former"
                     /\ <<"former", k>>[2] = k
  /\ \A k, j \in Keys : Id(k) # <<"former", j>> /\ (Id(k) = Id(j) => k = j)
  /\ \A i \in Ids : i[2] \in Keys /\ i[1] \in Namespaces
  /\ \A i \in Ids : i[1] = "target" => i = Id(i[2])
  /\ \A i \in Ids : i[1] = "former" => i = <<"former", i[2]>>
  <1>1. \A i \in Ids : i[1] \in Namespaces /\ i[2] \in Keys /\ i = <<i[1], i[2]>>
    BY DEF Ids
  <1>2. \A k \in Keys : Id(k) = <<"target", k>>
    BY DEF Id
  <1>3. \A k \in Keys : <<"target", k>> \in Ids /\ <<"former", k>> \in Ids
    BY DEF Ids, Namespaces
  <1>4. \A k \in Keys : Id(k) \in Ids /\ Id(k)[1] = "target" /\ Id(k)[2] = k
    <2> SUFFICES ASSUME NEW k \in Keys
                 PROVE  Id(k) \in Ids /\ Id(k)[1] = "target" /\ Id(k)[2] = k
      OBVIOUS
    <2>1. <<"target", k>>[1] = "target" /\ <<"target", k>>[2] = k
      OBVIOUS
    <2> QED
      BY <1>2, <1>3, <2>1
  <1>5. \A k, j \in Keys : Id(k) # <<"former", j>> /\ (Id(k) = Id(j) => k = j)
    BY <1>2
  <1>6. \A i \in Ids : i[1] = "target" => i = Id(i[2])
    BY <1>1, <1>2
  <1>7. \A i \in Ids : i[1] = "former" => i = <<"former", i[2]>>
    BY <1>1
  <1> QED
    BY <1>1, <1>3, <1>4, <1>5, <1>6, <1>7

\* A step of the run that only moves on keeps what the run carries.
LEMMA MoveKeeps ==
  ASSUME TypesHold, NEW pc, Move(pc)
  PROVE  /\ DOMAIN ingest' = {"pc", "opts", "revision", "left", "batch", "scanned"}
         /\ ingest'.pc = pc /\ ingest'.opts = ingest.opts /\ ingest'.revision = ingest.revision
         /\ ingest'.left = ingest.left /\ ingest'.batch = ingest.batch /\ ingest'.scanned = ingest.scanned
  <1>1. "pc" \in DOMAIN ingest /\ "opts" \in DOMAIN ingest /\ "revision" \in DOMAIN ingest
        /\ "left" \in DOMAIN ingest /\ "batch" \in DOMAIN ingest /\ "scanned" \in DOMAIN ingest
    BY DEF TypesHold
  <1>2. ingest' = [ingest EXCEPT !.pc = pc]
    BY DEF Move
  <1>3. DOMAIN ingest' = DOMAIN ingest
    BY <1>2
  <1>4. ingest'.pc = pc
    BY <1>1, <1>2
  <1>5. ingest'.opts = ingest.opts /\ ingest'.revision = ingest.revision
        /\ ingest'.left = ingest.left /\ ingest'.batch = ingest.batch /\ ingest'.scanned = ingest.scanned
    BY <1>1, <1>2
  <1> QED
    BY <1>3, <1>4, <1>5 DEF TypesHold

\* The run that is not under way.
LEMMA IdleRun ==
  /\ DOMAIN Idle = {"pc", "opts", "revision", "left", "batch", "scanned"}
  /\ Idle.pc = "idle" /\ Idle.opts \in Options /\ Idle.left = {}
  /\ DOMAIN Idle.batch = {} /\ DOMAIN Idle.scanned = {}
  /\ ~Idle.opts.reconcile
  <1>1. DOMAIN <<>> = {}
    OBVIOUS
  <1>2. NoOptions \in Options /\ NoOptions.reconcile = FALSE
    BY DEF NoOptions, Options
  <1> QED
    BY <1>1, <1>2 DEF Idle

\* Nothing is held in no rows.
LEMMA NoRows == ASSUME NEW f, DOMAIN f = {} PROVE Holds(f)
  BY DEF Holds

\* The metadata of a prepared row, and the rows the two writes of vectors make.
LEMMA RowsAreWritten ==
  ASSUME TypesHold, NEW k \in DOMAIN ingest.batch, ingest.pc # "idle"
  PROVE  /\ k \in Keys /\ ingest.batch[k] \in PreparedRow
         /\ ingest.batch[k].doc \in Texts /\ ingest.batch[k] \in Row
         /\ Expected(k) \in MetadataSet /\ Expected(k) # Gone
         /\ Expected(k).ns = "target" /\ Expected(k).row = ingest.batch[k]
         /\ Embedded(k) \in VectorRow /\ Embedded(k) # Gone
         /\ Embedded(k).document = ingest.batch[k].doc
         /\ Embedded(k).embedded = ingest.batch[k].doc
         /\ Embedded(k).by = model /\ Embedded(k).revision = ingest.revision
         /\ ingest.revision # Gone
         /\ Embedded(k).metadata = Expected(k) /\ Embedded(k).hash = Expected(k)
  <1>1. k \in Keys /\ ingest.batch[k] \in PreparedRow
    BY DEF TypesHold, Holds
  <1>2. ingest.batch[k].doc \in Texts /\ ingest.batch[k] \in Row
    BY <1>1 DEF PreparedRow, Row
  <1>3. /\ Expected(k) \in MetadataSet
        /\ Expected(k).ns = "target" /\ Expected(k).row = ingest.batch[k]
    BY <1>2 DEF Expected, Metadata, MetadataSet, Namespaces
  <1>4. ingest.revision \in Revisions /\ model \in Revisions /\ ingest.revision # Gone
    BY GoneAssumption DEF TypesHold
  <1>5. /\ Embedded(k).document = ingest.batch[k].doc
        /\ Embedded(k).embedded = ingest.batch[k].doc
        /\ Embedded(k).by = model /\ Embedded(k).revision = ingest.revision
        /\ Embedded(k).metadata = Expected(k) /\ Embedded(k).hash = Expected(k)
    BY DEF Embedded
  <1>6. Embedded(k) \in VectorRow
    BY <1>2, <1>3, <1>4 DEF Embedded, VectorRow
  <1> QED
    BY <1>1, <1>2, <1>3, <1>4, <1>5, <1>6, GoneAssumption

\* A row that differs in its metadata only, and what the statement makes of it.
LEMMA RowsAreRemarked ==
  ASSUME TypesHold, NEW k \in MetadataOnly, ingest.pc # "idle"
  PROVE  /\ k \in DOMAIN ingest.batch
         /\ vectors[Id(k)] \in VectorRow /\ vectors[Id(k)] # Gone
         /\ vectors[Id(k)].revision \in {Gone, ingest.revision}
         /\ vectors[Id(k)].document = ingest.batch[k].doc
         /\ Remarked(k) \in VectorRow /\ Remarked(k) # Gone
         /\ Remarked(k).document = vectors[Id(k)].document
         /\ Remarked(k).embedded = vectors[Id(k)].embedded
         /\ Remarked(k).by = vectors[Id(k)].by /\ Remarked(k).revision = ingest.revision
         /\ Remarked(k).metadata = Expected(k) /\ Remarked(k).hash = Expected(k)
  <1>1. k \in DOMAIN ingest.batch /\ Same(k)
    BY DEF MetadataOnly
  <1>2. Id(k) \in Ids /\ Expected(k) \in MetadataSet /\ ingest.revision \in Revisions
    BY <1>1, RowsAreWritten, IdsOfKeys DEF TypesHold
  <1> DEFINE v == vectors[Id(k)]
  <1>3. /\ v # Gone /\ v \in VectorRow
        /\ v.revision \in {Gone, ingest.revision} /\ v.document = ingest.batch[k].doc
    BY <1>1, <1>2 DEF Same, TypesHold, RowsTypeOK
  <1>4. Remarked(k) = [v EXCEPT !.metadata = Expected(k), !.hash = Expected(k),
                                !.revision = ingest.revision]
    BY DEF Remarked
  <1> HIDE DEF v
  <1>5. Remarked(k) \in VectorRow
    BY <1>2, <1>3, <1>4 DEF VectorRow
  <1>6. /\ Remarked(k).document = v.document /\ Remarked(k).embedded = v.embedded
        /\ Remarked(k).by = v.by /\ Remarked(k).revision = ingest.revision
        /\ Remarked(k).metadata = Expected(k) /\ Remarked(k).hash = Expected(k)
    BY <1>3, <1>4 DEF VectorRow
  <1> QED
    BY <1>1, <1>3, <1>5, <1>6, GoneAssumption DEF v


\* The types do not speak of the histories: they are kept when the data is.
LEMMA TypesOfData ==
  ASSUME TypesHold, vectors' \in [Ids -> VectorRow \cup {Gone}],
         lexical' \in [Ids -> Texts \cup {Gone}], marker' \in {"none", "running", "failed"},
         source' = source, model' = model,
         DOMAIN ingest' = {"pc", "opts", "revision", "left", "batch", "scanned"},
         ingest'.pc \in Phases, ingest'.opts \in Options, ingest'.left \subseteq Keys,
         ingest'.pc # "idle" => ingest'.revision \in Revisions,
         Holds(ingest'.batch), Holds(ingest'.scanned)
  PROVE  TypesHold'
  <1>1. RowsTypeOK'
    BY DEF TypesHold, RowsTypeOK
  <1>2. Holds(ingest.batch)' /\ Holds(ingest.scanned)'
    BY DEF Holds
  <1> QED
    BY <1>1, <1>2 DEF TypesHold

\* The types when only the run moves on, or one of the indexes changes with it.
LEMMA TypesOfMove ==
  ASSUME TypesHold, NEW pc \in Phases, Move(pc), ingest.pc # "idle",
         vectors' \in [Ids -> VectorRow \cup {Gone}],
         lexical' \in [Ids -> Texts \cup {Gone}], marker' \in {"none", "running", "failed"},
         source' = source, model' = model
  PROVE  TypesHold'
  <1>1. /\ ingest.opts \in Options /\ ingest.left \subseteq Keys /\ ingest.revision \in Revisions
        /\ Holds(ingest.batch) /\ Holds(ingest.scanned)
    BY DEF TypesHold, RowsTypeOK
  <1>2. Holds(ingest'.batch) /\ Holds(ingest'.scanned)
    BY <1>1, MoveKeeps
  <1> QED
    BY <1>1, <1>2, MoveKeeps, TypesOfData

\* The types when the run ends without a word about the rows it saw.
LEMMA TypesOfStop ==
  ASSUME TypesHold, ingest' = Idle, marker' \in {"none", "running", "failed"},
         UNCHANGED <<source, model, vectors, lexical>>
  PROVE  TypesHold'
  <1>1. /\ DOMAIN ingest' = {"pc", "opts", "revision", "left", "batch", "scanned"}
        /\ ingest'.pc = "idle" /\ ingest'.opts \in Options /\ ingest'.left = {}
        /\ Holds(ingest'.batch) /\ Holds(ingest'.scanned)
    BY IdleRun, NoRows
  <1>2. ingest'.pc \in Phases /\ ingest'.left \subseteq Keys
    BY <1>1 DEF Phases
  <1>3. /\ vectors' \in [Ids -> VectorRow \cup {Gone}] /\ lexical' \in [Ids -> Texts \cup {Gone}]
        /\ source' = source /\ model' = model
    BY DEF TypesHold, RowsTypeOK
  <1> QED
    BY <1>1, <1>2, <1>3, TypesOfData

\* An index from which rows are removed has the same type.
LEMMA RowsAreRemoved ==
  ASSUME TypesHold, NEW ids
  PROVE  /\ Without(vectors, ids) \in [Ids -> VectorRow \cup {Gone}]
         /\ Without(lexical, ids) \in [Ids -> Texts \cup {Gone}]
         /\ \A i \in Ids : /\ Without(vectors, ids)[i] = IF i \in ids THEN Gone ELSE vectors[i]
                           /\ Without(lexical, ids)[i] = IF i \in ids THEN Gone ELSE lexical[i]
  BY DEF TypesHold, RowsTypeOK, Without

\* The BM25 rows of a batch: the prepared rows that have BM25 text.
LEMMA RowsOfBM25 ==
  ASSUME TypesHold
  PROVE  /\ \A i \in DOMAIN BM25Rows :
              i[2] \in DOMAIN ingest.batch /\ BM25Rows[i] = ingest.batch[i[2]].lex
              /\ BM25Rows[i] \in Texts /\ i = Id(i[2]) /\ i \in Ids
         /\ \A k \in DOMAIN ingest.batch :
              ingest.batch[k].lex # NoText => Id(k) \in DOMAIN BM25Rows
  <1>1. DOMAIN BM25Rows = {Id(k) : k \in {j \in DOMAIN ingest.batch : ingest.batch[j].lex # NoText}}
    BY DEF BM25Rows
  <1>2. ASSUME NEW i \in DOMAIN BM25Rows
        PROVE  i[2] \in DOMAIN ingest.batch /\ BM25Rows[i] = ingest.batch[i[2]].lex
               /\ BM25Rows[i] \in Texts /\ i = Id(i[2]) /\ i \in Ids
    <2>1. PICK k \in DOMAIN ingest.batch : ingest.batch[k].lex # NoText /\ i = Id(k)
      BY <1>1
    <2>2. k \in Keys /\ ingest.batch[k] \in PreparedRow
      BY DEF TypesHold, Holds
    <2>3. i[2] = k /\ i \in Ids
      BY <2>1, <2>2, IdsOfKeys
    <2>4. BM25Rows[i] = ingest.batch[i[2]].lex
      BY <1>1 DEF BM25Rows
    <2>5. ingest.batch[k].lex \in Texts
      BY <2>1, <2>2 DEF PreparedRow
    <2> QED
      BY <2>1, <2>3, <2>4, <2>5
  <1> QED
    BY <1>1, <1>2

\* What an upsert of BM25 rows leaves in that index.
LEMMA LexIsUpserted ==
  ASSUME TypesHold, LexUpsert(BM25Rows)
  PROVE  /\ lexical' \in [Ids -> Texts \cup {Gone}]
         /\ \A k \in DOMAIN ingest.batch :
              ingest.batch[k].lex # NoText => lexical'[Id(k)] = ingest.batch[k].lex
         /\ \A k \in Keys \ DOMAIN ingest.batch : lexical'[Id(k)] = lexical[Id(k)]
  <1>1. lexical' = [i \in Ids |-> IF i \in DOMAIN BM25Rows THEN BM25Rows[i] ELSE lexical[i]]
    BY DEF LexUpsert
  <1>2. lexical \in [Ids -> Texts \cup {Gone}]
    BY DEF TypesHold, RowsTypeOK
  <1>3. \A i \in DOMAIN BM25Rows : BM25Rows[i] \in Texts
    BY RowsOfBM25
  <1>4. lexical' \in [Ids -> Texts \cup {Gone}]
    <2> HIDE DEF BM25Rows
    <2> QED
      BY <1>1, <1>2, <1>3
  <1>5. ASSUME NEW k \in DOMAIN ingest.batch, ingest.batch[k].lex # NoText
        PROVE  lexical'[Id(k)] = ingest.batch[k].lex
    <2>1. k \in Keys /\ Id(k) \in DOMAIN BM25Rows
      BY <1>5, RowsOfBM25 DEF TypesHold, Holds
    <2>2. Id(k) \in Ids /\ Id(k)[2] = k
      BY <2>1, IdsOfKeys
    <2>3. BM25Rows[Id(k)] = ingest.batch[Id(k)[2]].lex
      BY <2>1, RowsOfBM25
    <2> QED
      BY <1>1, <2>1, <2>2, <2>3
  <1>6. ASSUME NEW k \in Keys \ DOMAIN ingest.batch
        PROVE  lexical'[Id(k)] = lexical[Id(k)]
    <2>1. Id(k) \in Ids /\ Id(k)[2] = k
      BY IdsOfKeys
    <2>2. Id(k) \notin DOMAIN BM25Rows
      BY <2>1, RowsOfBM25
    <2> QED
      BY <1>1, <2>1, <2>2
  <1> QED
    BY <1>4, <1>5, <1>6

\* A torn row stays known when it was torn and nobody let go of it, or is the work
\* of the run behind the gate.
LEMMA TornStays ==
  ASSUME TornIsKnown, marker # "none" => marker' # "none",
         stopped \subseteq stopped', unsettled \subseteq unsettled',
         \A k \in Keys : TornRow(k)' =>
            \/ k \in unsettled'
            \/ marker' # "none" /\ k \in AtWork'
            \/ TornRow(k) /\ (k \in AtWork => k \in AtWork' \/ k \in stopped')
  PROVE  TornIsKnown'
  BY DEF TornIsKnown

\* The invariant is about the indexes, the gate, the run and the histories: a
\* step of the source or of the model keeps it.
LEMMA RestKept ==
  ASSUME RowsInv, TypesHold', UNCHANGED <<vectors, lexical, marker, ingest, foreign, exact,
                                       stopped, unsettled, drifted>>
  PROVE  RowsInv'
  <1>1. /\ BatchFits' /\ RowsKnowTheirPlace' /\ EmbeddingIsOfDocument'
    BY DEF RowsInv, BatchFits, RowsKnowTheirPlace, EmbeddingIsOfDocument
  <1>2. \A k : /\ InStep(k)' <=> InStep(k)
               /\ LexInStep(k)' <=> LexInStep(k)
               /\ Excused(k)' <=> Excused(k)
               /\ TornRow(k)' <=> TornRow(k)
    BY DEF InStep, LexInStep, Excused, TornRow
  <1>3. ToEmbed' = ToEmbed
    BY DEF ToEmbed, Current, MetadataOnly, CurrentKey, Same, Expected
  <1>4. GateIsUp' /\ FlushedRows' /\ BatchRows' /\ ReplacedRows' /\ UnseenRows' /\ TornIsKnown'
    BY <1>2, <1>3 DEF RowsInv, GateIsUp, FlushedRows, BatchRows, ReplacedRows, UnseenRows,
       Reconciled, TornIsKnown, AtWork
  <1>5. Exactness'
    BY DEF RowsInv, Exactness, FullRunIsExact
  <1> QED
    BY <1>1, <1>4, <1>5 DEF RowsInv

\* The source or the model changes.
LEMMA SourceSteps ==
  ASSUME RowsInv, ModelUpdated \/ \E k \in Keys : SourceChanges(k)
  PROVE  RowsInv'
  <1>1. UNCHANGED <<vectors, lexical, marker, ingest, foreign, exact, stopped, unsettled, drifted>>
    BY DEF ModelUpdated, SourceChanges
  <1>2. CASE ModelUpdated
    <2>1. TypesHold'
      BY <1>1, <1>2 DEF RowsInv, TypesHold, RowsTypeOK, Holds, ModelUpdated
    <2> QED
      BY <1>1, <2>1, RestKept
  <1>3. CASE \E k \in Keys : SourceChanges(k)
    <2>1. source' \in [Keys -> Row \cup {Gone}] /\ model' = model
      BY <1>3 DEF SourceChanges, RowsInv, TypesHold, RowsTypeOK
    <2>2. TypesHold'
      BY <1>1, <2>1 DEF RowsInv, TypesHold, RowsTypeOK, Holds
    <2> QED
      BY <1>1, <2>2, RestKept
  <1> QED
    BY <1>2, <1>3

\* A run begins: it has seen no row yet, and takes over a gate it finds.
LEMMA BeginStep ==
  ASSUME RowsInv, Begin
  PROVE  RowsInv'
  <1> USE DEF RowsInv
  <1>1. PICK o \in Options :
          /\ ingest' = [pc |-> IF o.replace THEN "replace_vectors" ELSE "scan", opts |-> o,
                        revision |-> model, left |-> Planned(o.limit),
                        batch |-> <<>>, scanned |-> <<>>]
          /\ marker' = IF marker # "none" \/ o.replace THEN "running" ELSE "none"
    BY DEF Begin
  <1>2. /\ DOMAIN ingest' = {"pc", "opts", "revision", "left", "batch", "scanned"}
        /\ ingest'.pc = IF o.replace THEN "replace_vectors" ELSE "scan"
        /\ ingest'.opts = o /\ ingest'.revision = model /\ ingest'.left = Planned(o.limit)
        /\ ingest'.batch = <<>> /\ ingest'.scanned = <<>>
    BY <1>1
  <1>3. DOMAIN ingest'.batch = {} /\ DOMAIN ingest'.scanned = {}
    <2>1. DOMAIN <<>> = {}
      OBVIOUS
    <2> QED
      BY <1>2, <2>1
  <1>4. /\ UNCHANGED <<source, model, vectors, lexical, stopped, unsettled, drifted>>
        /\ ingest.pc = "idle"
        /\ foreign' = FALSE /\ exact' = FALSE
    BY DEF Begin
  <1>5. ingest'.pc \in {"replace_vectors", "scan"} /\ ingest'.left \subseteq Keys
    BY <1>2 DEF Planned
  <1>6. marker' \in {"running", "none"} /\ (ingest'.pc = "replace_vectors" => marker' = "running")
        /\ (marker # "none" => marker' # "none")
    BY <1>1, <1>2
  <1>7. TypesHold'
    <2>1. Holds(ingest'.batch) /\ Holds(ingest'.scanned)
      BY <1>3, NoRows
    <2>2. /\ vectors' \in [Ids -> VectorRow \cup {Gone}] /\ lexical' \in [Ids -> Texts \cup {Gone}]
          /\ source' = source /\ model' = model /\ model \in Revisions
      BY <1>4 DEF TypesHold, RowsTypeOK
    <2>3. ingest'.pc \in Phases /\ marker' \in {"none", "running", "failed"}
      BY <1>5, <1>6 DEF Phases
    <2> QED
      BY <1>2, <1>5, <2>1, <2>2, <2>3, TypesOfData
  <1>8. BatchFits'
    BY <1>3, <1>5 DEF BatchFits
  <1>9. RowsKnowTheirPlace' /\ EmbeddingIsOfDocument'
    BY <1>4 DEF RowsKnowTheirPlace, EmbeddingIsOfDocument
  <1>10. GateIsUp'
    BY <1>5, <1>6 DEF GateIsUp, Flushing, Reconciling
  <1>11. FlushedRows' /\ BatchRows' /\ ReplacedRows' /\ UnseenRows'
    BY <1>3, <1>5 DEF FlushedRows, BatchRows, ReplacedRows, UnseenRows, Reconciled
  <1>12. TornIsKnown'
    <2>1. \A k : TornRow(k)' <=> TornRow(k)
      BY <1>4 DEF TornRow
    <2>2. \A k : k \notin AtWork
      BY <1>4 DEF AtWork
    <2> QED
      BY <1>4, <1>6, <2>1, <2>2, TornStays
  <1>13. Exactness'
    BY <1>4 DEF Exactness, FullRunIsExact
  <1> QED
    BY <1>7, <1>8, <1>9, <1>10, <1>11, <1>12, <1>13

\* The run of a tenant's whole replacement empties the indexes behind its gate.
LEMMA ReplaceSteps ==
  ASSUME RowsInv, ReplaceVectors \/ ReplaceBM25
  PROVE  RowsInv'
  <1> USE DEF RowsInv
  <1>1. PICK pc \in {"replace_bm25", "scan"} :
          Move(pc) /\ ingest.pc \in {"replace_vectors", "replace_bm25"}
    BY DEF ReplaceVectors, ReplaceBM25
  <1>2. UNCHANGED <<source, model, marker, foreign, exact, stopped, unsettled, drifted>>
    BY DEF ReplaceVectors, ReplaceBM25
  <1>3. marker = "running" /\ DOMAIN ingest.scanned = {} /\ ~exact /\ DOMAIN ingest.batch = {}
    BY <1>1 DEF GateIsUp, BatchFits, Exactness
  <1>4. vectors' = vectors \/ vectors' = Without(vectors, OfSource("target"))
    BY DEF ReplaceVectors, ReplaceBM25
  <1>5. TypesHold'
    <2>1. vectors' \in [Ids -> VectorRow \cup {Gone}]
      BY <1>4, RowsAreRemoved DEF TypesHold, RowsTypeOK
    <2>2. lexical' \in [Ids -> Texts \cup {Gone}]
      BY DEF TypesHold, RowsTypeOK, ReplaceVectors, ReplaceBM25, LexClear
    <2>3. pc \in Phases /\ marker' \in {"none", "running", "failed"} /\ ingest.pc # "idle"
      BY <1>1, <1>2, <1>3 DEF Phases
    <2> QED
      BY <1>1, <1>2, <2>1, <2>2, <2>3, TypesOfMove
  <1>6. DOMAIN ingest'.batch = {} /\ DOMAIN ingest'.scanned = {} /\ ingest'.pc \in {"replace_bm25", "scan"}
    BY <1>1, <1>3, MoveKeeps
  <1>7. \A i \in Ids : vectors'[i] = vectors[i] \/ vectors'[i] = Gone
    BY <1>4, RowsAreRemoved
  <1>13. ASSUME ReplaceVectors
         PROVE  ReplacedRows' /\ TornIsKnown'
    <2>1. \A k \in Keys : vectors'[Id(k)] = Gone
      <3>1. OfSource("target") = {i \in Ids : vectors[i] # Gone /\ i[1] = "target"}
        BY DEF RowsKnowTheirPlace, OfSource
      <3>2. vectors' = Without(vectors, OfSource("target"))
        BY <1>13 DEF ReplaceVectors
      <3> QED
        BY <3>1, <3>2, RowsAreRemoved, IdsOfKeys
    <2>2. ingest'.pc = "replace_bm25"
      BY <1>13, MoveKeeps DEF ReplaceVectors
    <2>3. \A k \in Keys : k \in AtWork'
      BY <2>2 DEF AtWork
    <2> QED
      BY <1>2, <1>3, <2>1, <2>3 DEF ReplacedRows, TornIsKnown
  <1>14. ASSUME ReplaceBM25
         PROVE  ReplacedRows' /\ TornIsKnown'
    <2>1. ingest'.pc = "scan" /\ ingest.pc = "replace_bm25"
      BY <1>14, MoveKeeps DEF ReplaceBM25
    <2>2. \A i \in Ids : lexical'[i] = Gone
      BY <1>14 DEF ReplaceBM25, LexClear
    <2>3. \A k \in Keys : k \in unsettled \/ vectors'[Id(k)] = Gone
      BY <1>14, <2>1 DEF ReplacedRows, ReplaceBM25
    <2>4. \A k \in Keys : TornRow(k)' => k \in unsettled
      BY <2>2, <2>3, IdsOfKeys DEF TornRow
    <2> QED
      BY <1>2, <2>1, <2>4 DEF ReplacedRows, TornIsKnown
  <1>8. RowsKnowTheirPlace' /\ EmbeddingIsOfDocument'
    BY <1>2, <1>7 DEF RowsKnowTheirPlace, EmbeddingIsOfDocument
  <1>9. BatchFits'
    BY <1>6 DEF BatchFits
  <1>10. GateIsUp'
    BY <1>2, <1>3 DEF GateIsUp
  <1>11. FlushedRows' /\ BatchRows' /\ UnseenRows'
    BY <1>6 DEF FlushedRows, BatchRows, UnseenRows, Reconciled
  <1>12. Exactness'
    BY <1>2, <1>3 DEF Exactness, FullRunIsExact
  <1> QED
    BY <1>5, <1>8, <1>9, <1>10, <1>11, <1>12, <1>13, <1>14

\* A row is read: it joins the batch when it has embedding text.
LEMMA RowIsRead ==
  ASSUME RowsInv, ReadRow
  PROVE  \E k \in ingest.left :
           /\ \/ DOMAIN ingest'.batch = DOMAIN ingest.batch
              \/ /\ DOMAIN ingest'.batch = DOMAIN ingest.batch \cup {k}
                 /\ ingest'.batch[k] \in PreparedRow
           /\ \A j \in DOMAIN ingest.batch : ingest'.batch[j] = ingest.batch[j]
           /\ DOMAIN ingest'.scanned = DOMAIN ingest.scanned \cup DOMAIN ingest'.batch
           /\ \A j \in DOMAIN ingest'.scanned : ingest'.scanned[j] =
                IF j \in DOMAIN ingest'.batch THEN ingest'.batch[j] ELSE ingest.scanned[j]
           /\ ingest'.left = ingest.left \ {k}
           /\ ingest'.pc \in {"scan", "classify"}
           /\ ingest'.opts = ingest.opts /\ ingest'.revision = ingest.revision
           /\ DOMAIN ingest' = DOMAIN ingest
  <1> DEFINE k == Min(ingest.left)
             batch == IF Prepared(k) THEN [j \in DOMAIN ingest.batch \cup {k} |->
                                             IF j = k THEN source[k] ELSE ingest.batch[j]]
                                     ELSE ingest.batch
             scanned == [j \in DOMAIN ingest.scanned \cup DOMAIN batch |->
                           IF j \in DOMAIN batch THEN batch[j] ELSE ingest.scanned[j]]
  <1>1. PICK pc \in {"scan", "classify"} :
          ingest' = [ingest EXCEPT !.left = @ \ {k}, !.batch = batch, !.scanned = scanned, !.pc = pc]
    BY DEF ReadRow
  <1>2. k \in ingest.left /\ k \in Keys
    BY LeastKey, RowsAssumption DEF ReadRow, RowsInv, TypesHold, RowsTypeOK
  <1>3. k \notin DOMAIN ingest.batch
    BY <1>2 DEF RowsInv, BatchFits
  <1>4. \/ DOMAIN batch = DOMAIN ingest.batch
        \/ DOMAIN batch = DOMAIN ingest.batch \cup {k} /\ batch[k] = source[k] /\ Prepared(k)
    OBVIOUS
  <1>5. \A j \in DOMAIN ingest.batch : batch[j] = ingest.batch[j]
    BY <1>3
  <1>6. Prepared(k) => source[k] \in PreparedRow
    BY <1>2 DEF Prepared, PreparedRow, Row, RowsInv, TypesHold, RowsTypeOK
  <1> HIDE DEF k, batch
  <1>7. /\ DOMAIN scanned = DOMAIN ingest.scanned \cup DOMAIN batch
        /\ \A j \in DOMAIN scanned : scanned[j] =
             IF j \in DOMAIN batch THEN batch[j] ELSE ingest.scanned[j]
    OBVIOUS
  <1> HIDE DEF scanned
  <1>8. "pc" \in DOMAIN ingest /\ "opts" \in DOMAIN ingest /\ "revision" \in DOMAIN ingest
        /\ "left" \in DOMAIN ingest /\ "batch" \in DOMAIN ingest /\ "scanned" \in DOMAIN ingest
    BY DEF RowsInv, TypesHold
  <1>9. ingest'.batch = batch /\ ingest'.scanned = scanned /\ ingest'.pc = pc /\ ingest'.left = ingest.left \ {k}
    BY <1>1, <1>8
  <1>10. ingest'.opts = ingest.opts /\ ingest'.revision = ingest.revision /\ DOMAIN ingest' = DOMAIN ingest
    BY <1>1, <1>8
  <1> QED
    BY <1>2, <1>4, <1>5, <1>6, <1>7, <1>9, <1>10

\* Reading a row leaves what is flushed alone: a key is read once in a run.
LEMMA ReadRowStep ==
  ASSUME RowsInv, ReadRow
  PROVE  RowsInv'
  <1> USE DEF RowsInv
  <1>1. PICK k \in ingest.left :
           /\ \/ DOMAIN ingest'.batch = DOMAIN ingest.batch
              \/ /\ DOMAIN ingest'.batch = DOMAIN ingest.batch \cup {k}
                 /\ ingest'.batch[k] \in PreparedRow
           /\ \A j \in DOMAIN ingest.batch : ingest'.batch[j] = ingest.batch[j]
           /\ DOMAIN ingest'.scanned = DOMAIN ingest.scanned \cup DOMAIN ingest'.batch
           /\ \A j \in DOMAIN ingest'.scanned : ingest'.scanned[j] =
                IF j \in DOMAIN ingest'.batch THEN ingest'.batch[j] ELSE ingest.scanned[j]
           /\ ingest'.left = ingest.left \ {k}
           /\ ingest'.pc \in {"scan", "classify"}
           /\ ingest'.opts = ingest.opts /\ ingest'.revision = ingest.revision
           /\ DOMAIN ingest' = DOMAIN ingest
    BY RowIsRead
  <1>2. ingest.pc = "scan" /\ UNCHANGED <<source, model, vectors, lexical, marker, foreign, exact, stopped, unsettled, drifted>>
    BY DEF ReadRow
  <1>3. k \in Keys /\ k \notin DOMAIN ingest.scanned
    BY DEF TypesHold, RowsTypeOK, BatchFits
  <1>4. TypesHold'
    <2>1. Holds(ingest'.batch)
      BY <1>1, <1>3 DEF TypesHold, Holds
    <2>2. Holds(ingest'.scanned)
      BY <1>1, <2>1 DEF TypesHold, Holds
    <2>3. /\ ingest'.pc \in Phases /\ ingest'.opts \in Options /\ ingest'.left \subseteq Keys
          /\ ingest'.revision \in Revisions
          /\ DOMAIN ingest' = {"pc", "opts", "revision", "left", "batch", "scanned"}
      BY <1>1, <1>2 DEF TypesHold, RowsTypeOK, Phases
    <2>4. /\ vectors' \in [Ids -> VectorRow \cup {Gone}] /\ lexical' \in [Ids -> Texts \cup {Gone}]
          /\ marker' \in {"none", "running", "failed"} /\ source' = source /\ model' = model
      BY <1>2 DEF TypesHold, RowsTypeOK
    <2> QED
      BY <2>1, <2>2, <2>3, <2>4, TypesOfData
  <1>5. BatchFits'
    <2>1. \A j \in DOMAIN ingest'.batch : j \in DOMAIN ingest'.scanned /\ ingest'.scanned[j] = ingest'.batch[j]
      BY <1>1
    <2>2. \A j \in ingest'.left : j \notin DOMAIN ingest'.scanned
      BY <1>1 DEF BatchFits
    <2> QED
      BY <1>1, <2>1, <2>2 DEF BatchFits
  <1>6. RowsKnowTheirPlace' /\ EmbeddingIsOfDocument'
    BY <1>2 DEF RowsKnowTheirPlace, EmbeddingIsOfDocument
  <1>7. GateIsUp' /\ BatchRows' /\ ReplacedRows' /\ UnseenRows'
    BY <1>1 DEF GateIsUp, BatchRows, ReplacedRows, UnseenRows, Reconciled, Flushing, Reconciling
  <1>8. FlushedRows'
    <2>1. \A j \in DOMAIN ingest'.scanned \ DOMAIN ingest'.batch :
            j \in DOMAIN ingest.scanned \ DOMAIN ingest.batch /\ ingest'.scanned[j] = ingest.scanned[j]
      BY <1>1
    <2>2. \A j \in DOMAIN ingest'.scanned \ DOMAIN ingest'.batch :
            /\ InStep(j) => InStep(j)'
            /\ LexInStep(j) => LexInStep(j)'
            /\ Excused(j) => Excused(j)'
      BY <1>1, <1>2, <2>1 DEF InStep, LexInStep, Excused
    <2> QED
      BY <1>2, <2>1, <2>2 DEF FlushedRows
  <1>9. TornIsKnown'
    BY <1>2 DEF TornIsKnown, TornRow, AtWork
  <1>10. Exactness'
    BY <1>2 DEF Exactness, FullRunIsExact
  <1> QED
    BY <1>4, <1>5, <1>6, <1>7, <1>8, <1>9, <1>10

\* The predicates on rows when the indexes and what the run saw stay the same.
LEMMA SameRows ==
  ASSUME UNCHANGED <<vectors, lexical, foreign, unsettled>>,
         ingest'.scanned = ingest.scanned, ingest'.revision = ingest.revision
  PROVE  \A k : /\ InStep(k)' <=> InStep(k)
                /\ LexInStep(k)' <=> LexInStep(k)
                /\ Excused(k)' <=> Excused(k)
                /\ TornRow(k)' <=> TornRow(k)
  BY DEF InStep, LexInStep, Excused, TornRow

\* A batch that leaves the gate closed holds current rows only.
LEMMA ClassifyStep ==
  ASSUME RowsInv, Classify
  PROVE  RowsInv'
  <1> USE DEF RowsInv
  <1>1. /\ ingest.pc = "classify" /\ Move("metadata")
        /\ marker' = IF Current # DOMAIN ingest.batch THEN "running" ELSE marker
        /\ UNCHANGED <<source, model, vectors, lexical, foreign, exact, stopped, unsettled, drifted>>
    BY DEF Classify
  <1>2. /\ ingest'.pc = "metadata" /\ ingest'.opts = ingest.opts /\ ingest'.revision = ingest.revision
        /\ ingest'.left = ingest.left /\ ingest'.batch = ingest.batch /\ ingest'.scanned = ingest.scanned
    BY <1>1, MoveKeeps
  <1>3. \A k : /\ InStep(k)' <=> InStep(k)
               /\ LexInStep(k)' <=> LexInStep(k)
               /\ Excused(k)' <=> Excused(k)
               /\ TornRow(k)' <=> TornRow(k)
    BY <1>1, <1>2, SameRows
  <1>4. \A k \in Current : InStep(k)
    <2> SUFFICES ASSUME NEW k \in Current PROVE InStep(k)
      OBVIOUS
    <2>1. k \in DOMAIN ingest.batch /\ CurrentKey(k) /\ Same(k)
      BY DEF Current, CurrentKey
    <2>2. /\ vectors[Id(k)] # Gone /\ vectors[Id(k)].revision = ingest.revision
          /\ vectors[Id(k)].document = ingest.batch[k].doc
          /\ vectors[Id(k)].hash = Expected(k)
      BY <2>1 DEF CurrentKey, Same
    <2>3. Id(k) \in Ids /\ Expected(k) # Gone /\ Expected(k).row = ingest.batch[k]
      BY <1>1, <2>1, RowsAreWritten, IdsOfKeys
    <2>4. vectors[Id(k)].metadata.row = ingest.batch[k]
      BY <2>2, <2>3 DEF RowsKnowTheirPlace
    <2>5. ingest.scanned[k] = ingest.batch[k]
      BY <2>1 DEF BatchFits
    <2> QED
      BY <2>2, <2>4, <2>5 DEF InStep
  <1>5. TypesHold'
    <2>1. "metadata" \in Phases /\ marker' \in {"none", "running", "failed"}
      BY <1>1 DEF Phases, Flushing, TypesHold, RowsTypeOK
    <2>2. /\ vectors' \in [Ids -> VectorRow \cup {Gone}] /\ lexical' \in [Ids -> Texts \cup {Gone}]
          /\ source' = source /\ model' = model
      BY <1>1 DEF TypesHold, RowsTypeOK
    <2> QED
      BY <1>1, <2>1, <2>2, TypesOfMove
  <1>6. BatchFits'
    BY <1>2 DEF BatchFits, Flushing
  <1>7. RowsKnowTheirPlace' /\ EmbeddingIsOfDocument'
    BY <1>1 DEF RowsKnowTheirPlace, EmbeddingIsOfDocument
  <1>8. GateIsUp'
    <2>1. marker' = "none" => \A k \in DOMAIN ingest'.batch : InStep(k)'
      BY <1>1, <1>2, <1>3, <1>4
    <2> QED
      BY <1>2, <2>1 DEF GateIsUp, Reconciling
  <1>9. FlushedRows' /\ BatchRows' /\ ReplacedRows' /\ UnseenRows'
    BY <1>1, <1>2, <1>3 DEF FlushedRows, BatchRows, ReplacedRows, UnseenRows, Reconciled
  <1>10. TornIsKnown'
    BY <1>1, <1>3 DEF TornIsKnown, AtWork
  <1>11. Exactness'
    BY <1>1 DEF Exactness, FullRunIsExact
  <1> QED
    BY <1>5, <1>6, <1>7, <1>8, <1>9, <1>10, <1>11

\* Where a run goes after a batch.
LEMMA AfterBatch ==
  /\ NextBatch \in {"scan", "reconcile_vectors", "complete"}
  /\ NextBatch = "complete" => ~ingest.opts.reconcile
  BY DEF NextBatch

\* A last batch without rows is not flushed.
LEMMA NothingToFlushStep ==
  ASSUME RowsInv, NothingToFlush
  PROVE  RowsInv'
  <1> USE DEF RowsInv
  <1>1. /\ ingest.pc = "classify" /\ Move(NextBatch) /\ DOMAIN ingest.batch = {}
        /\ marker' = IF NextBatch = "reconcile_vectors" THEN "running" ELSE marker
        /\ UNCHANGED <<source, model, vectors, lexical, foreign, exact, stopped, unsettled, drifted>>
    BY DEF NothingToFlush
  <1>2. PICK pc : pc = NextBatch
    OBVIOUS
  <1>3. /\ ingest'.pc = pc /\ ingest'.opts = ingest.opts /\ ingest'.revision = ingest.revision
        /\ ingest'.left = ingest.left /\ ingest'.batch = ingest.batch /\ ingest'.scanned = ingest.scanned
        /\ pc \in {"scan", "reconcile_vectors", "complete"}
        /\ (pc = "complete" => ~ingest.opts.reconcile)
    BY <1>1, <1>2, MoveKeeps, AfterBatch
  <1>4. \A k : /\ InStep(k)' <=> InStep(k)
               /\ LexInStep(k)' <=> LexInStep(k)
               /\ Excused(k)' <=> Excused(k)
               /\ TornRow(k)' <=> TornRow(k)
    BY <1>1, <1>3, SameRows
  <1>5. TypesHold'
    <2>1. pc \in Phases /\ marker' \in {"none", "running", "failed"} /\ Move(pc)
      BY <1>1, <1>2, <1>3 DEF Phases, Reconciling, TypesHold, RowsTypeOK
    <2>2. /\ vectors' \in [Ids -> VectorRow \cup {Gone}] /\ lexical' \in [Ids -> Texts \cup {Gone}]
          /\ source' = source /\ model' = model
      BY <1>1 DEF TypesHold, RowsTypeOK
    <2> QED
      BY <1>1, <2>1, <2>2, TypesOfMove
  <1>6. BatchFits'
    BY <1>1, <1>3 DEF BatchFits
  <1>7. RowsKnowTheirPlace' /\ EmbeddingIsOfDocument'
    BY <1>1 DEF RowsKnowTheirPlace, EmbeddingIsOfDocument
  <1>8. GateIsUp'
    BY <1>1, <1>2, <1>3 DEF GateIsUp, Flushing, Reconciling
  <1>9. FlushedRows' /\ BatchRows' /\ ReplacedRows' /\ UnseenRows'
    BY <1>1, <1>3, <1>4 DEF FlushedRows, BatchRows, ReplacedRows, UnseenRows, Reconciled
  <1>10. TornIsKnown'
    BY <1>1, <1>4 DEF TornIsKnown, AtWork
  <1>11. Exactness'
    BY <1>1 DEF Exactness, FullRunIsExact
  <1> QED
    BY <1>5, <1>6, <1>7, <1>8, <1>9, <1>10, <1>11

\* A write of vectors that replaces rows of the batch leaves the other rows
\* alone, and the rows still know their place.
LEMMA VectorsWritten ==
  ASSUME RowsInv, NEW keys \in SUBSET (DOMAIN ingest.batch),
         vectors' = [i \in Ids |-> vectors'[i]],
         \A i \in Ids : i \notin {Id(k) : k \in keys} =>
            vectors'[i] = vectors[i] /\ (i \in drifted => i \in drifted'),
         \A k \in keys : LET w == vectors'[Id(k)] IN
           /\ w \in VectorRow
           /\ w.metadata = Expected(k) /\ w.hash = Expected(k)
           /\ Expected(k).ns = "target" /\ Expected(k).row = ingest.batch[k]
           /\ w.embedded = w.document /\ w.revision # Gone
           /\ w.by # Gone => w.by = w.revision \/ Id(k) \in drifted'
  PROVE  /\ vectors' \in [Ids -> VectorRow \cup {Gone}]
         /\ \A k \in Keys \ keys : vectors'[Id(k)] = vectors[Id(k)]
         /\ RowsKnowTheirPlace' /\ EmbeddingIsOfDocument'
  <1>1. keys \subseteq Keys
    BY DEF RowsInv, TypesHold, Holds
  <1>2. vectors \in [Ids -> VectorRow \cup {Gone}]
    BY DEF RowsInv, TypesHold, RowsTypeOK
  <1>3. ASSUME NEW i \in Ids
        PROVE  \/ i[2] \in keys /\ i[1] = "target" /\ i = Id(i[2])
               \/ vectors'[i] = vectors[i] /\ (i \in drifted => i \in drifted')
    <2>1. CASE i \in {Id(k) : k \in keys}
      <3>1. PICK k \in keys : i = Id(k)
        BY <2>1
      <3> QED
        BY <1>1, <3>1, IdsOfKeys
    <2>2. CASE i \notin {Id(k) : k \in keys}
      BY <2>2
    <2> QED
      BY <2>1, <2>2
  <1>4. \A i \in Ids : vectors'[i] \in VectorRow \cup {Gone}
    BY <1>2, <1>3
  <1>5. vectors' \in [Ids -> VectorRow \cup {Gone}]
    BY <1>4
  <1>6. ASSUME NEW k \in Keys \ keys
        PROVE  vectors'[Id(k)] = vectors[Id(k)]
    <2>1. Id(k) \in Ids /\ Id(k)[2] = k
      BY IdsOfKeys
    <2> QED
      BY <1>3, <2>1
  <1>7. RowsKnowTheirPlace'
    BY <1>3 DEF RowsInv, RowsKnowTheirPlace
  <1>8. EmbeddingIsOfDocument'
    BY <1>3 DEF RowsInv, EmbeddingIsOfDocument
  <1> QED
    BY <1>5, <1>6, <1>7, <1>8

\* What a write of vectors keeps, whatever it writes, when every row it touches
\* ends in step with the row that was scanned.
LEMMA WriteKeeps ==
  ASSUME RowsInv, ingest.pc \in {"metadata", "embed"}, NEW pc \in {"embed", "lexical"}, Move(pc),
         NEW keys \in SUBSET (DOMAIN ingest.batch),
         UNCHANGED <<source, model, lexical, marker, foreign, exact, stopped, unsettled>>,
         vectors' \in [Ids -> VectorRow \cup {Gone}],
         \A k \in Keys \ keys : vectors'[Id(k)] = vectors[Id(k)],
         RowsKnowTheirPlace', EmbeddingIsOfDocument',
         \A k \in keys : InStep(k)',
         \A k \in DOMAIN ingest.batch :
            Excused(k) \/ InStep(k)' \/ (pc = "embed" /\ k \in ToEmbed')
  PROVE  RowsInv'
  <1> USE DEF RowsInv
  <1>1. /\ ingest'.pc = pc /\ ingest'.opts = ingest.opts /\ ingest'.revision = ingest.revision
        /\ ingest'.left = ingest.left /\ ingest'.batch = ingest.batch /\ ingest'.scanned = ingest.scanned
    BY MoveKeeps
  <1>2. DOMAIN ingest.batch \subseteq DOMAIN ingest.scanned /\ DOMAIN ingest.scanned \subseteq Keys
    BY DEF BatchFits, TypesHold, Holds
  <1>3. TypesHold'
    <2>1. pc \in Phases /\ ingest.pc # "idle"
      BY DEF Phases, Flushing
    <2>2. lexical' \in [Ids -> Texts \cup {Gone}] /\ marker' \in {"none", "running", "failed"}
          /\ source' = source /\ model' = model
      BY DEF TypesHold, RowsTypeOK
    <2> QED
      BY <2>1, <2>2, TypesOfMove
  <1>4. BatchFits'
    BY <1>1 DEF BatchFits, Flushing
  <1>5. \A k : /\ Excused(k)' <=> Excused(k)
               /\ LexInStep(k)' <=> LexInStep(k)
    BY <1>1 DEF Excused, LexInStep
  <1>6. \A k \in Keys \ keys : (InStep(k)' <=> InStep(k)) /\ (TornRow(k)' <=> TornRow(k))
    BY <1>1 DEF InStep, TornRow
  <1>7. GateIsUp'
    <2> SUFFICES ASSUME marker' = "none", NEW k \in DOMAIN ingest'.batch
                 PROVE  Excused(k)' \/ InStep(k)'
      BY <1>1 DEF GateIsUp, Reconciling
    <2>1. Excused(k) \/ InStep(k)
      BY <1>1 DEF GateIsUp, Flushing
    <2>2. CASE k \in keys
      BY <2>2
    <2>3. CASE k \notin keys
      BY <1>1, <1>2, <1>5, <1>6, <2>1, <2>3
    <2> QED
      BY <2>2, <2>3
  <1>8. FlushedRows'
    BY <1>1, <1>2, <1>5, <1>6 DEF FlushedRows
  <1>9. BatchRows'
    BY <1>1, <1>5 DEF BatchRows
  <1>10. ReplacedRows' /\ UnseenRows'
    BY <1>1 DEF ReplacedRows, UnseenRows, Reconciled
  <1>11. TornIsKnown'
    <2>1. \A k \in DOMAIN ingest.batch : k \in AtWork'
      BY <1>1, <1>2 DEF AtWork
    <2>2. \A k \in AtWork : k \in DOMAIN ingest.batch
      BY DEF AtWork
    <2>3. ASSUME NEW k \in keys, marker = "none"
          PROVE  TornRow(k)' => k \in unsettled \/ TornRow(k)
      <3>1. Excused(k) \/ InStep(k)
        BY <2>3 DEF GateIsUp, Flushing
      <3>2. CASE Excused(k)
        BY <3>2 DEF Excused
      <3>3. CASE InStep(k)
        <4>1. /\ vectors[Id(k)] # Gone /\ vectors'[Id(k)] # Gone
              /\ vectors[Id(k)].metadata.row = ingest.scanned[k]
              /\ vectors'[Id(k)].metadata.row = ingest.scanned[k]
          BY <1>1, <3>3 DEF InStep
        <4> QED
          BY <4>1 DEF TornRow
      <3> QED
        BY <3>1, <3>2, <3>3
    <2>4. ASSUME NEW k \in Keys, TornRow(k)'
          PROVE  \/ k \in unsettled'
                 \/ marker' # "none" /\ k \in AtWork'
                 \/ TornRow(k) /\ (k \in AtWork => k \in AtWork' \/ k \in stopped')
      <3>1. CASE k \in keys
        BY <2>1, <2>3, <2>4, <3>1
      <3>2. CASE k \notin keys
        BY <1>6, <2>1, <2>2, <2>4, <3>2
      <3> QED
        BY <3>1, <3>2
    <2> QED
      BY <2>4, TornStays
  <1>12. Exactness'
    BY DEF Exactness, FullRunIsExact
  <1> QED
    BY <1>3, <1>4, <1>7, <1>8, <1>9, <1>10, <1>11, <1>12,
       RowsKnowTheirPlace', EmbeddingIsOfDocument'

\* The statement of update_metadatas.
LEMMA UpdateMetadatasStep ==
  ASSUME RowsInv, UpdateMetadatas
  PROVE  RowsInv'
  <1>1. PICK pc \in {"embed", "lexical"} :
          Move(pc) /\ (ToEmbed = {} <=> pc = "lexical")
    BY DEF UpdateMetadatas
  <1>2. /\ ingest.pc = "metadata"
        /\ vectors' = [i \in Ids |-> IF i \in {Id(k) : k \in MetadataOnly}
                                     THEN Remarked(i[2]) ELSE vectors[i]]
        /\ UNCHANGED <<source, model, lexical, marker, foreign, exact, stopped, unsettled, drifted>>
    BY DEF UpdateMetadatas
  <1>3. MetadataOnly \in SUBSET (DOMAIN ingest.batch)
    BY DEF MetadataOnly
  <1>4. TypesHold /\ BatchFits
    BY DEF RowsInv
  <1>5. ASSUME NEW k \in MetadataOnly
        PROVE  LET w == vectors'[Id(k)] IN
               /\ w = Remarked(k) /\ w \in VectorRow
               /\ w.metadata = Expected(k) /\ w.hash = Expected(k)
               /\ Expected(k).ns = "target" /\ Expected(k).row = ingest.batch[k]
               /\ w.embedded = w.document /\ w.revision # Gone
               /\ w.by # Gone => w.by = w.revision \/ Id(k) \in drifted'
               /\ InStep(k)'
    <2>1. k \in DOMAIN ingest.batch /\ k \in Keys /\ Id(k) \in Ids /\ Id(k)[2] = k
      BY <1>2, <1>3, <1>4, RowsAreWritten, IdsOfKeys
    <2>2. vectors'[Id(k)] = Remarked(k)
      BY <1>2, <2>1
    <2>3. Expected(k).ns = "target" /\ Expected(k).row = ingest.batch[k]
      BY <1>2, <1>4, <2>1, RowsAreWritten
    <2>4. /\ vectors[Id(k)] \in VectorRow /\ vectors[Id(k)] # Gone
          /\ vectors[Id(k)].revision \in {Gone, ingest.revision}
          /\ vectors[Id(k)].document = ingest.batch[k].doc
          /\ Remarked(k) \in VectorRow /\ Remarked(k) # Gone
          /\ Remarked(k).document = vectors[Id(k)].document
          /\ Remarked(k).embedded = vectors[Id(k)].embedded
          /\ Remarked(k).by = vectors[Id(k)].by /\ Remarked(k).revision = ingest.revision
          /\ Remarked(k).metadata = Expected(k) /\ Remarked(k).hash = Expected(k)
      BY <1>2, <1>4, RowsAreRemarked
    <2>5. /\ vectors[Id(k)].embedded = vectors[Id(k)].document
          /\ vectors[Id(k)].by # Gone =>
               vectors[Id(k)].by = vectors[Id(k)].revision \/ Id(k) \in drifted
          /\ vectors[Id(k)].revision = Gone => vectors[Id(k)].by = Gone
      BY <2>1, <2>4 DEF RowsInv, EmbeddingIsOfDocument, RowsKnowTheirPlace
    <2>6. /\ Remarked(k).embedded = Remarked(k).document /\ Remarked(k).revision # Gone
          /\ Remarked(k).by # Gone => Remarked(k).by = Remarked(k).revision \/ Id(k) \in drifted'
      BY <1>2, <1>4, <2>1, <2>4, <2>5, RowsAreWritten
    <2>7. ingest'.scanned[k] = ingest.batch[k] /\ ingest'.revision = ingest.revision
      BY <1>1, <1>4, <2>1, MoveKeeps DEF BatchFits
    <2>8. InStep(k)'
      BY <2>2, <2>3, <2>4, <2>7 DEF InStep
    <2> QED
      BY <2>2, <2>3, <2>4, <2>6, <2>8
  <1>6. /\ vectors' \in [Ids -> VectorRow \cup {Gone}]
        /\ \A k \in Keys \ MetadataOnly : vectors'[Id(k)] = vectors[Id(k)]
        /\ RowsKnowTheirPlace' /\ EmbeddingIsOfDocument'
    <2>1. vectors' = [i \in Ids |-> vectors'[i]]
      BY <1>2
    <2>2. \A i \in Ids : i \notin {Id(k) : k \in MetadataOnly} =>
             vectors'[i] = vectors[i] /\ (i \in drifted => i \in drifted')
      BY <1>2
    <2> QED
      BY <1>3, <1>5, <2>1, <2>2, VectorsWritten
  <1>7. ASSUME NEW k \in DOMAIN ingest.batch
        PROVE  Excused(k) \/ InStep(k)' \/ (pc = "embed" /\ k \in ToEmbed')
    <2>1. CASE k \in MetadataOnly
      BY <1>5, <2>1
    <2>2. CASE k \in Current
      <3>1. Same(k) /\ CurrentKey(k)
        BY <2>2 DEF Current, CurrentKey
      <3>2. Id(k) \in Ids /\ k \in Keys /\ Expected(k) # Gone /\ Expected(k).row = ingest.batch[k]
        BY <1>2, <1>4, RowsAreWritten, IdsOfKeys
      <3>3. vectors[Id(k)].metadata.row = ingest.batch[k]
        BY <3>1, <3>2 DEF CurrentKey, Same, RowsInv, RowsKnowTheirPlace
      <3>4. k \notin MetadataOnly
        BY <2>2 DEF MetadataOnly
      <3>5. vectors'[Id(k)] = vectors[Id(k)]
        BY <1>6, <3>2, <3>4
      <3>6. ingest'.scanned[k] = ingest.batch[k] /\ ingest'.revision = ingest.revision
        BY <1>1, <1>4, MoveKeeps DEF BatchFits
      <3> QED
        BY <3>1, <3>3, <3>5, <3>6 DEF CurrentKey, Same, InStep
    <2>3. CASE k \in ToEmbed
      <3>1. pc = "embed"
        BY <1>1, <2>3
      <3>2. k \in Keys /\ k \notin MetadataOnly /\ k \notin Current
        BY <1>2, <1>4, <2>3, RowsAreWritten DEF ToEmbed
      <3>3. vectors'[Id(k)] = vectors[Id(k)]
        BY <1>6, <3>2
      <3>4. /\ ingest'.batch = ingest.batch /\ ingest'.opts = ingest.opts /\ ingest'.revision = ingest.revision
        BY <1>1, <1>4, MoveKeeps
      <3>5. ingest.opts.force \/ ~Same(k)
        BY <3>2 DEF MetadataOnly, Current
      <3>6. ingest'.opts.force \/ ~Same(k)'
        BY <3>3, <3>4, <3>5 DEF Same
      <3>7. k \notin Current' /\ k \notin MetadataOnly'
        BY <3>6 DEF Current, MetadataOnly, CurrentKey
      <3> QED
        BY <3>1, <3>4, <3>7 DEF ToEmbed
    <2> QED
      BY <2>1, <2>2, <2>3 DEF ToEmbed
  <1> QED
    BY <1>1, <1>2, <1>3, <1>5, <1>6, <1>7, WriteKeeps

\* collection.upsert of the rows that were embedded.
LEMMA UpsertVectorsStep ==
  ASSUME RowsInv, UpsertVectors
  PROVE  RowsInv'
  <1>1. /\ ingest.pc = "embed" /\ Move("lexical")
        /\ vectors' = [i \in Ids |-> IF i \in {Id(k) : k \in ToEmbed}
                                     THEN Embedded(i[2]) ELSE vectors[i]]
        /\ drifted' = IF model = ingest.revision THEN drifted \ {Id(k) : k \in ToEmbed}
                      ELSE drifted \cup {Id(k) : k \in ToEmbed}
        /\ UNCHANGED <<source, model, lexical, marker, foreign, exact, stopped, unsettled>>
    BY DEF UpsertVectors
  <1>2. ToEmbed \in SUBSET (DOMAIN ingest.batch)
    BY DEF ToEmbed
  <1>3. TypesHold /\ BatchFits
    BY DEF RowsInv
  <1>4. ASSUME NEW k \in ToEmbed
        PROVE  LET w == vectors'[Id(k)] IN
               /\ w \in VectorRow
               /\ w.metadata = Expected(k) /\ w.hash = Expected(k)
               /\ Expected(k).ns = "target" /\ Expected(k).row = ingest.batch[k]
               /\ w.embedded = w.document /\ w.revision # Gone
               /\ w.by # Gone => w.by = w.revision \/ Id(k) \in drifted'
               /\ InStep(k)'
    <2>1. k \in DOMAIN ingest.batch /\ k \in Keys /\ Id(k) \in Ids /\ Id(k)[2] = k
      BY <1>1, <1>2, <1>3, RowsAreWritten, IdsOfKeys
    <2>2. vectors'[Id(k)] = Embedded(k)
      BY <1>1, <2>1
    <2>3. /\ Expected(k).ns = "target" /\ Expected(k).row = ingest.batch[k]
          /\ Embedded(k) \in VectorRow /\ Embedded(k) # Gone
          /\ Embedded(k).document = ingest.batch[k].doc
          /\ Embedded(k).embedded = ingest.batch[k].doc
          /\ Embedded(k).by = model /\ Embedded(k).revision = ingest.revision
          /\ ingest.revision # Gone
          /\ Embedded(k).metadata = Expected(k) /\ Embedded(k).hash = Expected(k)
      BY <1>1, <1>3, <2>1, RowsAreWritten
    <2>6. model = ingest.revision \/ Id(k) \in drifted'
      BY <1>1
    <2>4. ingest'.scanned[k] = ingest.batch[k] /\ ingest'.revision = ingest.revision
      BY <1>1, <1>3, <2>1, MoveKeeps DEF BatchFits
    <2>5. InStep(k)'
      BY <2>2, <2>3, <2>4 DEF InStep
    <2> QED
      BY <2>2, <2>3, <2>5, <2>6
  <1>5. /\ vectors' \in [Ids -> VectorRow \cup {Gone}]
        /\ \A k \in Keys \ ToEmbed : vectors'[Id(k)] = vectors[Id(k)]
        /\ RowsKnowTheirPlace' /\ EmbeddingIsOfDocument'
    <2>1. vectors' = [i \in Ids |-> vectors'[i]]
      BY <1>1
    <2>2. \A i \in Ids : i \notin {Id(k) : k \in ToEmbed} =>
             vectors'[i] = vectors[i] /\ (i \in drifted => i \in drifted')
      BY <1>1
    <2> QED
      BY <1>2, <1>4, <2>1, <2>2, VectorsWritten
  <1>6. ASSUME NEW k \in DOMAIN ingest.batch
        PROVE  Excused(k) \/ InStep(k)'
    <2>1. CASE k \in ToEmbed
      BY <1>4, <2>1
    <2>2. CASE k \notin ToEmbed
      <3>1. Excused(k) \/ InStep(k)
        BY <1>1, <2>2 DEF RowsInv, BatchRows
      <3>2. k \in Keys
        BY <1>3 DEF TypesHold, Holds
      <3>3. vectors'[Id(k)] = vectors[Id(k)] /\ ingest'.scanned = ingest.scanned
            /\ ingest'.revision = ingest.revision
        BY <1>1, <1>3, <1>5, <2>2, <3>2, MoveKeeps
      <3> QED
        BY <3>1, <3>3 DEF InStep
    <2> QED
      BY <2>1, <2>2
  <1> QED
    BY <1>1, <1>2, <1>4, <1>5, <1>6, WriteKeeps

\* The upsert of the batch's BM25 rows: the batch is flushed.
LEMMA UpsertBM25Step ==
  ASSUME RowsInv, UpsertBM25
  PROVE  RowsInv'
  <1> USE DEF RowsInv
  <1>1. /\ ingest.pc = "lexical" /\ LexUpsert(BM25Rows)
        /\ ingest' = [ingest EXCEPT !.pc = NextBatch, !.batch = <<>>]
        /\ marker' = IF NextBatch = "reconcile_vectors" THEN "running" ELSE marker
        /\ UNCHANGED <<source, model, vectors, foreign, exact, stopped, unsettled, drifted>>
    BY DEF UpsertBM25
  <1>2. PICK pc : pc = NextBatch
    OBVIOUS
  <1>3. "pc" \in DOMAIN ingest /\ "opts" \in DOMAIN ingest /\ "revision" \in DOMAIN ingest
        /\ "left" \in DOMAIN ingest /\ "batch" \in DOMAIN ingest /\ "scanned" \in DOMAIN ingest
    BY DEF TypesHold
  <1>4. ingest'.pc = pc /\ ingest'.batch = <<>>
    BY <1>1, <1>2, <1>3
  <1>5. /\ ingest'.opts = ingest.opts /\ ingest'.revision = ingest.revision
        /\ ingest'.left = ingest.left /\ ingest'.scanned = ingest.scanned /\ DOMAIN ingest' = DOMAIN ingest
    BY <1>1, <1>3
  <1>6. DOMAIN ingest'.batch = {}
    <2>1. DOMAIN <<>> = {}
      OBVIOUS
    <2> QED
      BY <1>4, <2>1
  <1>7. pc \in {"scan", "reconcile_vectors", "complete"}
        /\ (pc = "complete" => ~ingest.opts.reconcile)
    BY <1>2, AfterBatch
  <1>8. /\ lexical' \in [Ids -> Texts \cup {Gone}]
        /\ \A k \in DOMAIN ingest.batch :
              ingest.batch[k].lex # NoText => lexical'[Id(k)] = ingest.batch[k].lex
        /\ \A k \in Keys \ DOMAIN ingest.batch : lexical'[Id(k)] = lexical[Id(k)]
    BY <1>1, LexIsUpserted
  <1>9. TypesHold'
    <2>1. Holds(ingest'.batch) /\ Holds(ingest'.scanned)
      BY <1>5, <1>6, NoRows DEF TypesHold
    <2>2. /\ ingest'.pc \in Phases /\ ingest'.opts \in Options /\ ingest'.left \subseteq Keys
          /\ ingest'.revision \in Revisions
          /\ DOMAIN ingest' = {"pc", "opts", "revision", "left", "batch", "scanned"}
      BY <1>1, <1>4, <1>5, <1>7 DEF TypesHold, RowsTypeOK, Phases, Reconciling
    <2>3. /\ vectors' \in [Ids -> VectorRow \cup {Gone}] /\ source' = source /\ model' = model
          /\ marker' \in {"none", "running", "failed"}
      BY <1>1 DEF TypesHold, RowsTypeOK
    <2> QED
      BY <1>8, <2>1, <2>2, <2>3, TypesOfData
  <1>10. BatchFits'
    BY <1>4, <1>5, <1>6, <1>7 DEF BatchFits
  <1>11. RowsKnowTheirPlace' /\ EmbeddingIsOfDocument'
    BY <1>1 DEF RowsKnowTheirPlace, EmbeddingIsOfDocument
  <1>12. GateIsUp'
    BY <1>1, <1>2, <1>4, <1>7 DEF GateIsUp, Flushing, Reconciling
  <1>13. \A k : (InStep(k)' <=> InStep(k)) /\ (Excused(k)' <=> Excused(k))
    BY <1>1, <1>5 DEF InStep, Excused
  <1>14. ASSUME NEW k \in DOMAIN ingest.batch
         PROVE  LexInStep(k)'
    BY <1>5, <1>8 DEF BatchFits, LexInStep
  <1>15. ASSUME NEW k \in DOMAIN ingest.scanned \ DOMAIN ingest.batch, LexInStep(k)
         PROVE  LexInStep(k)'
    BY <1>5, <1>8, <1>15 DEF LexInStep, TypesHold, Holds
  <1>16. FlushedRows'
    <2> SUFFICES ASSUME NEW k \in DOMAIN ingest.scanned
                 PROVE  Excused(k) \/ (InStep(k) /\ LexInStep(k)')
      BY <1>5, <1>13 DEF FlushedRows
    <2>1. CASE k \in DOMAIN ingest.batch
      BY <1>1, <1>14, <2>1 DEF BatchRows
    <2>2. CASE k \notin DOMAIN ingest.batch
      BY <1>1, <1>15, <2>2 DEF FlushedRows
    <2> QED
      BY <2>1, <2>2
  <1>17. BatchRows' /\ ReplacedRows' /\ UnseenRows'
    BY <1>4, <1>5, <1>7 DEF BatchRows, ReplacedRows, UnseenRows, Reconciled
  <1>18. TornIsKnown'
    <2>1. ASSUME NEW k \in DOMAIN ingest.batch, TornRow(k)'
          PROVE  k \in unsettled
      <3>1. Excused(k) \/ InStep(k)
        BY <1>1 DEF BatchRows
      <3>2. CASE InStep(k)
        <4>1. LexInStep(k)' /\ ingest'.scanned[k] = ingest.scanned[k]
          BY <1>5, <1>14
        <4> QED
          BY <1>1, <2>1, <3>2, <4>1 DEF InStep, LexInStep, TornRow
      <3> QED
        BY <3>1, <3>2 DEF Excused
    <2>2. ASSUME NEW k \in Keys \ DOMAIN ingest.batch, TornRow(k)'
          PROVE  TornRow(k) /\ k \notin AtWork
      BY <1>1, <1>8, <2>2 DEF TornRow, AtWork
    <2>3. marker # "none" => marker' # "none"
      BY <1>1
    <2> QED
      BY <1>1, <2>1, <2>2, <2>3, TornStays
  <1>19. Exactness'
    BY <1>1 DEF Exactness, FullRunIsExact
  <1> QED
    BY <1>9, <1>10, <1>11, <1>12, <1>16, <1>17, <1>18, <1>19

\* The ids of a namespace that hold a vector, and those a run saw.
LEMMA SourceIds ==
  ASSUME RowsInv
  PROVE  /\ \A ns \in Namespaces :
              OfSource(ns) = {i \in Ids : vectors[i] # Gone /\ i[1] = ns}
         /\ \A k \in Keys : Id(k) \in Seen <=> k \in DOMAIN ingest.scanned
         /\ \A k \in Keys : <<"former", k>> \notin Seen
  <1>1. \A ns \in Namespaces : OfSource(ns) = {i \in Ids : vectors[i] # Gone /\ i[1] = ns}
    BY DEF RowsInv, RowsKnowTheirPlace, OfSource
  <1>2. DOMAIN ingest.scanned \subseteq Keys
    BY DEF RowsInv, TypesHold, Holds
  <1>3. \A k \in Keys : Id(k) \in Seen <=> k \in DOMAIN ingest.scanned
    BY <1>2, IdsOfKeys DEF Seen
  <1>4. \A k \in Keys : <<"former", k>> \notin Seen
    BY <1>2, IdsOfKeys DEF Seen
  <1> QED
    BY <1>1, <1>3, <1>4

\* The first half of reconcile_deleted_documents.
LEMMA ReconcileVectorsStep ==
  ASSUME RowsInv, DeleteUnseenVectors
  PROVE  RowsInv'
  <1> USE DEF RowsInv
  <1>1. /\ ingest.pc = "reconcile_vectors" /\ Move("reconcile_bm25")
        /\ vectors' = Without(vectors, OfSource("target") \ Seen)
        /\ UNCHANGED <<source, model, lexical, marker, foreign, exact, stopped, unsettled, drifted>>
    BY DEF DeleteUnseenVectors
  <1>2. /\ ingest'.pc = "reconcile_bm25" /\ ingest'.opts = ingest.opts /\ ingest'.revision = ingest.revision
        /\ ingest'.left = ingest.left /\ ingest'.batch = ingest.batch /\ ingest'.scanned = ingest.scanned
    BY <1>1, MoveKeeps
  <1>3. marker = "running" /\ DOMAIN ingest.batch = {} /\ ~exact
    BY <1>1 DEF GateIsUp, BatchFits, Exactness, Reconciling, Flushing
  <1>4. /\ vectors' \in [Ids -> VectorRow \cup {Gone}]
        /\ \A i \in Ids : vectors'[i] = IF i \in OfSource("target") \ Seen THEN Gone ELSE vectors[i]
    BY <1>1, RowsAreRemoved
  <1>5. TypesHold'
    <2>1. "reconcile_bm25" \in Phases /\ marker' \in {"none", "running", "failed"} /\ ingest.pc # "idle"
      BY <1>1, <1>3 DEF Phases, Reconciling
    <2>2. /\ lexical' \in [Ids -> Texts \cup {Gone}] /\ source' = source /\ model' = model
      BY <1>1 DEF TypesHold, RowsTypeOK
    <2> QED
      BY <1>1, <1>4, <2>1, <2>2, TypesOfMove
  <1>6. BatchFits'
    BY <1>2, <1>3 DEF BatchFits
  <1>7. RowsKnowTheirPlace' /\ EmbeddingIsOfDocument'
    BY <1>1, <1>4 DEF RowsKnowTheirPlace, EmbeddingIsOfDocument
  <1>8. GateIsUp'
    BY <1>1, <1>3 DEF GateIsUp
  <1>9. \A k \in DOMAIN ingest.scanned : vectors'[Id(k)] = vectors[Id(k)]
    <2>1. DOMAIN ingest.scanned \subseteq Keys
      BY DEF TypesHold, Holds
    <2> QED
      BY <1>4, <2>1, SourceIds, IdsOfKeys
  <1>10. FlushedRows'
    <2>1. \A k \in DOMAIN ingest.scanned : /\ InStep(k)' <=> InStep(k)
                                           /\ LexInStep(k)' <=> LexInStep(k)
                                           /\ Excused(k)' <=> Excused(k)
      BY <1>1, <1>2, <1>9 DEF InStep, LexInStep, Excused
    <2> QED
      BY <1>1, <1>2, <2>1 DEF FlushedRows
  <1>11. BatchRows'
    BY <1>2 DEF BatchRows
  <1>12. UnseenRows'
    <2> SUFFICES ASSUME NEW k \in Keys \ DOMAIN ingest.scanned
                 PROVE  vectors'[Id(k)] = Gone
      BY <1>2 DEF UnseenRows, Reconciled
    <2>1. Id(k) \in Ids /\ Id(k)[1] = "target" /\ Id(k) \notin Seen
      BY SourceIds, IdsOfKeys
    <2>2. OfSource("target") = {i \in Ids : vectors[i] # Gone /\ i[1] = "target"}
      BY SourceIds DEF Namespaces
    <2> QED
      BY <1>4, <2>1, <2>2
  <1>13. ReplacedRows' /\ Exactness'
    BY <1>1, <1>2, <1>3 DEF ReplacedRows, Exactness, FullRunIsExact
  <1>14. TornIsKnown'
    <2>1. ASSUME NEW k \in DOMAIN ingest.scanned, TornRow(k)'
          PROVE  TornRow(k) /\ k \notin AtWork
      BY <1>1, <1>9, <2>1 DEF TornRow, AtWork
    <2>2. \A k \in Keys \ DOMAIN ingest.scanned : k \in AtWork' /\ marker' # "none"
      BY <1>1, <1>2, <1>3 DEF AtWork
    <2> QED
      BY <1>1, <2>1, <2>2, TornStays
  <1> QED
    BY <1>5, <1>6, <1>7, <1>8, <1>10, <1>11, <1>12, <1>13, <1>14

\* The second half.
LEMMA ReconcileBM25Step ==
  ASSUME RowsInv, DeleteUnseenBM25
  PROVE  RowsInv'
  <1> USE DEF RowsInv
  <1>1. /\ ingest.pc = "reconcile_bm25" /\ Move("complete")
        /\ lexical' = Without(lexical, {i \in Ids : lexical[i] # Gone} \ Seen)
        /\ UNCHANGED <<source, model, vectors, marker, foreign, exact, stopped, unsettled, drifted>>
    BY DEF DeleteUnseenBM25, LexDelete
  <1>2. /\ ingest'.pc = "complete" /\ ingest'.opts = ingest.opts /\ ingest'.revision = ingest.revision
        /\ ingest'.left = ingest.left /\ ingest'.batch = ingest.batch /\ ingest'.scanned = ingest.scanned
    BY <1>1, MoveKeeps
  <1>3. marker = "running" /\ DOMAIN ingest.batch = {} /\ ~exact
    BY <1>1 DEF GateIsUp, BatchFits, Exactness, Reconciling, Flushing
  <1>4. /\ lexical' \in [Ids -> Texts \cup {Gone}]
        /\ \A i \in Ids : lexical'[i] = IF i \in {j \in Ids : lexical[j] # Gone} \ Seen
                                        THEN Gone ELSE lexical[i]
    BY <1>1, RowsAreRemoved
  <1>5. TypesHold'
    <2>1. "complete" \in Phases /\ marker' \in {"none", "running", "failed"} /\ ingest.pc # "idle"
      BY <1>1, <1>3 DEF Phases
    <2>2. /\ vectors' \in [Ids -> VectorRow \cup {Gone}] /\ source' = source /\ model' = model
      BY <1>1 DEF TypesHold, RowsTypeOK
    <2> QED
      BY <1>1, <1>4, <2>1, <2>2, TypesOfMove
  <1>6. BatchFits'
    BY <1>2, <1>3 DEF BatchFits
  <1>7. RowsKnowTheirPlace' /\ EmbeddingIsOfDocument'
    BY <1>1 DEF RowsKnowTheirPlace, EmbeddingIsOfDocument
  <1>8. GateIsUp'
    BY <1>1, <1>3 DEF GateIsUp
  <1>9. \A k \in DOMAIN ingest.scanned : lexical'[Id(k)] = lexical[Id(k)]
    <2>1. DOMAIN ingest.scanned \subseteq Keys
      BY DEF TypesHold, Holds
    <2> QED
      BY <1>4, <2>1, SourceIds, IdsOfKeys
  <1>10. FlushedRows'
    <2>1. \A k \in DOMAIN ingest.scanned : /\ InStep(k)' <=> InStep(k)
                                           /\ LexInStep(k)' <=> LexInStep(k)
                                           /\ Excused(k)' <=> Excused(k)
      BY <1>1, <1>2, <1>9 DEF InStep, LexInStep, Excused
    <2> QED
      BY <1>1, <1>2, <2>1 DEF FlushedRows
  <1>11. BatchRows'
    BY <1>2 DEF BatchRows
  <1>12. UnseenRows'
    <2>1. \A k \in Keys \ DOMAIN ingest.scanned : Excused(k)' \/ vectors'[Id(k)] = Gone
      BY <1>1 DEF UnseenRows, Excused
    <2>2. \A k \in Keys \ DOMAIN ingest.scanned : lexical'[Id(k)] = Gone
      BY <1>4, SourceIds, IdsOfKeys
    <2>3. \A k \in Keys : lexical'[<<"former", k>>] = Gone
      BY <1>4, SourceIds, IdsOfKeys
    <2> QED
      BY <1>2, <2>1, <2>2, <2>3 DEF UnseenRows, Reconciled
  <1>13. ReplacedRows' /\ Exactness'
    BY <1>1, <1>2, <1>3 DEF ReplacedRows, Exactness, FullRunIsExact
  <1>14. TornIsKnown'
    <2>1. ASSUME NEW k \in DOMAIN ingest.scanned, TornRow(k)'
          PROVE  TornRow(k) /\ k \notin AtWork
      BY <1>1, <1>9, <2>1 DEF TornRow, AtWork
    <2>2. ASSUME NEW k \in Keys \ DOMAIN ingest.scanned, TornRow(k)'
          PROVE  k \in unsettled
      <3>1. Excused(k) \/ vectors[Id(k)] = Gone
        BY <1>1, <2>2 DEF UnseenRows
      <3>2. lexical'[Id(k)] = Gone
        BY <1>4, <2>2, SourceIds, IdsOfKeys
      <3> QED
        BY <1>1, <2>2, <3>1, <3>2 DEF TornRow, Excused
    <2> QED
      BY <1>1, <2>1, <2>2, TornStays
  <1> QED
    BY <1>5, <1>6, <1>7, <1>8, <1>10, <1>11, <1>12, <1>13, <1>14

\* A run ends well: what it leaves ungated is in step, or was not its doing.
LEMMA CompleteStep ==
  ASSUME RowsInv, Complete
  PROVE  RowsInv'
  <1> USE DEF RowsInv
  <1>1. /\ ingest.pc = "complete" /\ marker' = "none"
        /\ exact' = (ingest.opts.reconcile /\ ~foreign)
        /\ unsettled' = IF foreign THEN unsettled \cup stopped
                        ELSE IF ingest.opts.reconcile THEN {}
                        ELSE (unsettled \cup stopped) \ DOMAIN ingest.scanned
        /\ ingest' = [Idle EXCEPT !.scanned = ingest.scanned, !.revision = ingest.revision]
        /\ UNCHANGED <<source, model, vectors, lexical, foreign, drifted>>
    BY DEF Complete
  <1>2. DOMAIN ingest.batch = {} /\ DOMAIN ingest.scanned \subseteq Keys
    BY <1>1 DEF BatchFits, Flushing, TypesHold, Holds
  <1>3. ingest'.pc = "idle" /\ ingest'.scanned = ingest.scanned /\ ingest'.revision = ingest.revision
    BY <1>1, IdleRun
  <1>4. /\ DOMAIN ingest' = {"pc", "opts", "revision", "left", "batch", "scanned"}
        /\ ingest'.opts \in Options /\ ingest'.left = {} /\ DOMAIN ingest'.batch = {}
    BY <1>1, IdleRun
  <1>5. TypesHold'
    <2>1. Holds(ingest'.batch) /\ Holds(ingest'.scanned)
      BY <1>3, <1>4, NoRows DEF TypesHold
    <2>2. ingest'.pc \in Phases /\ ingest'.left \subseteq Keys /\ marker' \in {"none", "running", "failed"}
      BY <1>1, <1>3, <1>4 DEF Phases
    <2>3. /\ vectors' \in [Ids -> VectorRow \cup {Gone}] /\ lexical' \in [Ids -> Texts \cup {Gone}]
          /\ source' = source /\ model' = model
      BY <1>1 DEF TypesHold, RowsTypeOK
    <2> QED
      BY <1>3, <1>4, <2>1, <2>2, <2>3, TypesOfData
  <1>6. BatchFits'
    BY <1>3, <1>4 DEF BatchFits
  <1>7. RowsKnowTheirPlace' /\ EmbeddingIsOfDocument'
    BY <1>1 DEF RowsKnowTheirPlace, EmbeddingIsOfDocument
  <1>8. GateIsUp' /\ FlushedRows' /\ BatchRows' /\ ReplacedRows' /\ UnseenRows'
    BY <1>3 DEF GateIsUp, FlushedRows, BatchRows, ReplacedRows, UnseenRows, Reconciled,
       Flushing, Reconciling
  <1>9. \A k \in DOMAIN ingest.scanned : Excused(k) \/ (InStep(k) /\ LexInStep(k))
    BY <1>1, <1>2 DEF FlushedRows
  <1>10. ASSUME ingest.opts.reconcile
         PROVE  /\ \A k \in Keys \ DOMAIN ingest.scanned :
                     /\ Excused(k) \/ vectors[Id(k)] = Gone
                     /\ lexical[Id(k)] = Gone
                /\ \A k \in Keys : lexical[<<"former", k>>] = Gone
    BY <1>1, <1>10 DEF UnseenRows, Reconciled
  <1>11. \A k : InStep(k) /\ LexInStep(k) => ~TornRow(k)
    BY DEF InStep, LexInStep, TornRow
  <1>12. TornIsKnown'
    <2> SUFFICES ASSUME NEW k \in Keys, TornRow(k)
                 PROVE  k \in unsettled'
      BY <1>1 DEF TornIsKnown, TornRow
    <2>1. k \in unsettled \cup stopped
      BY <1>1 DEF TornIsKnown, AtWork
    <2>2. CASE ~foreign
      <3>1. k \notin DOMAIN ingest.scanned
        BY <1>9, <1>11, <2>2 DEF Excused
      <3>2. ~ingest.opts.reconcile
        BY <1>10, <2>2, <3>1 DEF TornRow, Excused
      <3> QED
        BY <1>1, <2>1, <2>2, <3>1, <3>2
    <2> QED
      BY <1>1, <2>1, <2>2
  <1>13. Exactness'
    <2> SUFFICES ASSUME ingest.opts.reconcile, ~foreign
                 PROVE  FullRunIsExact'
      BY <1>1, <1>3 DEF Exactness, FullRunIsExact
    <2>1. ASSUME NEW k \in DOMAIN ingest.scanned
          PROVE  /\ vectors[Id(k)] # Gone
                 /\ vectors[Id(k)].document = ingest.scanned[k].doc
                 /\ vectors[Id(k)].metadata = Metadata("target", ingest.scanned[k])
                 /\ vectors[Id(k)].revision = ingest.revision
                 /\ ingest.scanned[k].lex # NoText => lexical[Id(k)] = ingest.scanned[k].lex
      <3>1. InStep(k) /\ LexInStep(k)
        BY <1>9 DEF Excused
      <3>2. /\ vectors[Id(k)] # Gone
            /\ vectors[Id(k)].document = ingest.scanned[k].doc
            /\ vectors[Id(k)].metadata.row = ingest.scanned[k]
            /\ vectors[Id(k)].revision = ingest.revision
            /\ ingest.scanned[k].lex # NoText => lexical[Id(k)] = ingest.scanned[k].lex
        BY <3>1 DEF InStep, LexInStep
      <3>3. Id(k) \in Ids /\ Id(k)[1] = "target"
        BY <1>2, IdsOfKeys
      <3>4. vectors[Id(k)] \in VectorRow /\ vectors[Id(k)].metadata.ns = "target"
        BY <3>2, <3>3 DEF TypesHold, RowsTypeOK, RowsKnowTheirPlace
      <3>5. vectors[Id(k)].metadata \in MetadataSet
        BY <3>4 DEF VectorRow
      <3>6. vectors[Id(k)].metadata = Metadata("target", ingest.scanned[k])
        BY <3>2, <3>4, <3>5 DEF Metadata, MetadataSet
      <3> QED
        BY <3>2, <3>6
    <2>2. \A k \in Keys \ DOMAIN ingest.scanned : vectors[Id(k)] = Gone /\ lexical[Id(k)] = Gone
      BY <1>10 DEF Excused
    <2>3. \A i \in Ids : i[1] = "former" => lexical[i] = Gone
      <3> SUFFICES ASSUME NEW i \in Ids, i[1] = "former" PROVE lexical[i] = Gone
        OBVIOUS
      <3>1. i = <<"former", i[2]>> /\ i[2] \in Keys
        BY IdsOfKeys
      <3>2. lexical[<<"former", i[2]>>] = Gone
        BY <1>10, <3>1
      <3> QED
        BY <3>1, <3>2
    <2> QED
      BY <1>1, <1>3, <2>1, <2>2, <2>3 DEF FullRunIsExact
  <1> QED
    BY <1>5, <1>6, <1>7, <1>8, <1>12, <1>13

\* A run that ends badly, or is killed, leaves a gate it raised.
LEMMA StopSteps ==
  ASSUME RowsInv, EmbedFails \/ StepFails \/ Kill
  PROVE  RowsInv'
  <1> USE DEF RowsInv
  <1>1. /\ ingest.pc # "idle" /\ ingest' = Idle
        /\ marker' \in {marker, "failed"} /\ (marker # "none" => marker' # "none")
        /\ stopped' = stopped \cup AtWork
        /\ UNCHANGED <<source, model, vectors, lexical, foreign, exact, unsettled, drifted>>
    <2>1. CASE EmbedFails
      BY <2>1 DEF EmbedFails, Fail, Stopped, TypesHold, RowsTypeOK
    <2>2. CASE StepFails
      BY <2>2 DEF StepFails, Fail, Stopped, TypesHold, RowsTypeOK
    <2>3. CASE Kill
      BY <2>3 DEF Kill, Stopped
    <2> QED
      BY <2>1, <2>2, <2>3
  <1>2. ingest'.pc = "idle" /\ DOMAIN ingest'.batch = {} /\ ingest'.left = {}
    BY <1>1, IdleRun
  <1>3. TypesHold'
    <2>1. marker' \in {"none", "running", "failed"}
      BY <1>1 DEF TypesHold, RowsTypeOK
    <2> QED
      BY <1>1, <2>1, TypesOfStop
  <1>4. BatchFits'
    BY <1>2 DEF BatchFits
  <1>5. RowsKnowTheirPlace' /\ EmbeddingIsOfDocument'
    BY <1>1 DEF RowsKnowTheirPlace, EmbeddingIsOfDocument
  <1>6. GateIsUp' /\ FlushedRows' /\ BatchRows' /\ ReplacedRows' /\ UnseenRows'
    BY <1>2 DEF GateIsUp, FlushedRows, BatchRows, ReplacedRows, UnseenRows, Reconciled,
       Flushing, Reconciling
  <1>7. TornIsKnown'
    <2>1. \A k : TornRow(k)' <=> TornRow(k)
      BY <1>1 DEF TornRow
    <2> QED
      BY <1>1, <2>1, TornStays
  <1>8. Exactness'
    BY <1>1 DEF Exactness, FullRunIsExact
  <1> QED
    BY <1>3, <1>4, <1>5, <1>6, <1>7, <1>8

\* A command that touches vectors only, and records the rows it touched.
LEMMA OperatorStep ==
  ASSUME RowsInv, vectors' \in [Ids -> VectorRow \cup {Gone}],
         foreign' = TRUE, exact' = FALSE, unsettled \subseteq unsettled',
         UNCHANGED <<source, model, lexical, marker, ingest, stopped, drifted>>,
         \A k \in Keys : k \in unsettled' \/ vectors'[Id(k)] = vectors[Id(k)],
         RowsKnowTheirPlace', EmbeddingIsOfDocument'
  PROVE  RowsInv'
  <1> USE DEF RowsInv
  <1>1. TypesHold'
    BY DEF TypesHold, RowsTypeOK, Holds
  <1>2. BatchFits'
    BY DEF BatchFits
  <1>3. \A k \in Keys : Excused(k)' \/ vectors'[Id(k)] = vectors[Id(k)]
    BY DEF Excused
  <1>4. DOMAIN ingest.batch \subseteq Keys /\ DOMAIN ingest.scanned \subseteq Keys
    BY DEF TypesHold, Holds
  <1>5. ASSUME NEW k \in Keys
        PROVE  /\ Excused(k) => Excused(k)'
               /\ InStep(k) => Excused(k)' \/ InStep(k)'
               /\ LexInStep(k) => LexInStep(k)'
               /\ k \in ToEmbed => Excused(k)' \/ k \in ToEmbed'
               /\ TornRow(k)' => Excused(k)' \/ TornRow(k)
    <2>1. Excused(k) => Excused(k)'
      BY DEF Excused
    <2>2. LexInStep(k) => LexInStep(k)'
      BY DEF LexInStep
    <2>3. CASE vectors'[Id(k)] = vectors[Id(k)]
      <3>1. (InStep(k) => InStep(k)') /\ (TornRow(k)' => TornRow(k))
        BY <2>3 DEF InStep, TornRow
      <3>2. Same(k)' <=> Same(k)
        BY <2>3 DEF Same
      <3>3. CurrentKey(k)' <=> CurrentKey(k)
        BY <2>3, <3>2 DEF CurrentKey, Expected
      <3>4. k \in ToEmbed => k \in ToEmbed'
        BY <3>2, <3>3 DEF ToEmbed, Current, MetadataOnly
      <3> QED
        BY <2>1, <2>2, <3>1, <3>4
    <2>4. CASE Excused(k)'
      BY <2>1, <2>2, <2>4
    <2> QED
      BY <1>3, <2>3, <2>4
  <1>6. GateIsUp'
    BY <1>4, <1>5 DEF GateIsUp
  <1>7. FlushedRows' /\ BatchRows'
    BY <1>4, <1>5 DEF FlushedRows, BatchRows
  <1>8. ReplacedRows' /\ UnseenRows'
    BY <1>3, <1>5 DEF ReplacedRows, UnseenRows, Reconciled
  <1>9. TornIsKnown'
    BY <1>5 DEF TornIsKnown, Excused, AtWork
  <1>10. Exactness'
    BY DEF Exactness, FullRunIsExact
  <1> QED
    BY <1>1, <1>2, <1>6, <1>7, <1>8, <1>9, <1>10, RowsKnowTheirPlace', EmbeddingIsOfDocument'

\* delete_tenant_source and clear_tenant_vectors.
LEMMA DeleteSteps ==
  ASSUME RowsInv, ClearVectors \/ \E ns \in Namespaces : DeleteSource(ns)
  PROVE  RowsInv'
  <1>1. PICK ids \in SUBSET {i \in Ids : vectors[i] # Gone} :
          /\ \A i \in Ids : vectors'[i] = IF i \in ids THEN Gone ELSE vectors[i]
          /\ vectors' \in [Ids -> VectorRow \cup {Gone}]
          /\ unsettled' = unsettled \cup {i[2] : i \in ids}
    <2>1. CASE ClearVectors
      <3> DEFINE all == {i \in Ids : vectors[i] # Gone}
      <3>1. /\ vectors' = [i \in Ids |-> Gone]
            /\ unsettled' = unsettled \cup {i[2] : i \in all}
        BY <2>1 DEF ClearVectors
      <3>2. \A i \in Ids : vectors'[i] = IF i \in all THEN Gone ELSE vectors[i]
        BY <3>1
      <3>3. vectors' \in [Ids -> VectorRow \cup {Gone}]
        BY <3>1
      <3> QED
        BY <3>1, <3>2, <3>3
    <2>2. ASSUME NEW ns \in Namespaces, DeleteSource(ns)
          PROVE  \E ids \in SUBSET {i \in Ids : vectors[i] # Gone} :
                   /\ \A i \in Ids : vectors'[i] = IF i \in ids THEN Gone ELSE vectors[i]
                   /\ vectors' \in [Ids -> VectorRow \cup {Gone}]
                   /\ unsettled' = unsettled \cup {i[2] : i \in ids}
      <3>1. /\ vectors' = Without(vectors, OfSource(ns))
            /\ unsettled' = unsettled \cup {i[2] : i \in OfSource(ns)}
        BY <2>2 DEF DeleteSource
      <3>2. OfSource(ns) \in SUBSET {i \in Ids : vectors[i] # Gone}
        BY DEF OfSource
      <3>3. /\ vectors' \in [Ids -> VectorRow \cup {Gone}]
            /\ \A i \in Ids : vectors'[i] = IF i \in OfSource(ns) THEN Gone ELSE vectors[i]
        BY <3>1, RowsAreRemoved DEF RowsInv
      <3> QED
        BY <3>1, <3>2, <3>3
    <2> QED
      BY <2>1, <2>2
  <1>2. /\ foreign' = TRUE /\ exact' = FALSE
        /\ UNCHANGED <<source, model, lexical, marker, ingest, stopped, drifted>>
    BY DEF ClearVectors, DeleteSource
  <1>3. \A k \in Keys : k \in unsettled' \/ vectors'[Id(k)] = vectors[Id(k)]
    <2> SUFFICES ASSUME NEW k \in Keys PROVE k \in unsettled' \/ vectors'[Id(k)] = vectors[Id(k)]
      OBVIOUS
    <2>1. Id(k) \in Ids /\ Id(k)[2] = k
      BY IdsOfKeys
    <2>2. CASE Id(k) \in ids
      <3>1. Id(k)[2] \in {i[2] : i \in ids}
        BY <2>2
      <3> QED
        BY <1>1, <2>1, <3>1
    <2>3. CASE Id(k) \notin ids
      BY <1>1, <2>1, <2>3
    <2> QED
      BY <2>2, <2>3
  <1>4. RowsKnowTheirPlace' /\ EmbeddingIsOfDocument'
    BY <1>1, <1>2 DEF RowsInv, RowsKnowTheirPlace, EmbeddingIsOfDocument
  <1> QED
    BY <1>1, <1>2, <1>3, <1>4, OperatorStep

\* migrate_source_namespace.
LEMMA MigrateStep ==
  ASSUME RowsInv, NEW k \in Keys, MigrateRow(k)
  PROVE  RowsInv'
  <1> DEFINE from == <<"former", k>>
             old == vectors[from]
             moved == [old EXCEPT !.metadata.ns = "target"]
  <1>1. /\ from \in Ids /\ Id(k) \in Ids /\ Id(k) # from /\ Id(k)[1] = "target" /\ Id(k)[2] = k
    BY IdsOfKeys
  <1>2. /\ old # Gone /\ from \in OfSource("former")
        /\ vectors' = [vectors EXCEPT ![from] = Gone,
                         ![Id(k)] = IF @ # Gone THEN @ ELSE moved]
        /\ foreign' = TRUE /\ exact' = FALSE /\ unsettled' = unsettled \cup {k}
        /\ UNCHANGED <<source, model, lexical, marker, ingest, stopped, drifted>>
    BY DEF MigrateRow, OfSource
  <1>3. vectors \in [Ids -> VectorRow \cup {Gone}]
    BY DEF RowsInv, TypesHold, RowsTypeOK
  <1>4. old \in VectorRow
    BY <1>1, <1>2, <1>3
  <1>5. /\ old.embedded = old.document /\ old.by = Gone
        /\ (old.hash # Gone => old.hash.row = old.metadata.row)
    BY <1>1, <1>2 DEF RowsInv, EmbeddingIsOfDocument, RowsKnowTheirPlace
  <1>6. \A i \in Ids : vectors'[i] = IF i = from THEN Gone
                                     ELSE IF i = Id(k) /\ vectors[i] = Gone THEN moved
                                     ELSE vectors[i]
    <2> HIDE DEF moved, from
    <2> QED
      BY <1>1, <1>2, <1>3
  <1> HIDE DEF from, old
  <1>7. moved.metadata = [old.metadata EXCEPT !.ns = "target"] /\ DOMAIN moved = DOMAIN old
    BY <1>4 DEF VectorRow
  <1>8. /\ moved.document = old.document /\ moved.embedded = old.embedded
        /\ moved.by = old.by /\ moved.revision = old.revision /\ moved.hash = old.hash
    BY <1>4 DEF VectorRow
  <1>9. old.metadata \in MetadataSet
    BY <1>4 DEF VectorRow
  <1>10. /\ moved.metadata \in MetadataSet /\ moved.metadata.ns = "target"
         /\ moved.metadata.row = old.metadata.row
    BY <1>7, <1>9 DEF MetadataSet, Namespaces
  <1>11. moved \in VectorRow
    <2>1. moved = [old EXCEPT !.metadata = [old.metadata EXCEPT !.ns = "target"]]
      BY <1>4 DEF VectorRow
    <2>2. [old.metadata EXCEPT !.ns = "target"] \in MetadataSet
      BY <1>7, <1>10
    <2> HIDE DEF moved
    <2> QED
      BY <1>4, <2>1, <2>2 DEF VectorRow
  <1> HIDE DEF moved
  <1>12. vectors' \in [Ids -> VectorRow \cup {Gone}]
    <2>1. vectors' = [i \in Ids |-> vectors'[i]]
      BY <1>2, <1>3
    <2>2. \A i \in Ids : vectors'[i] \in VectorRow \cup {Gone}
      BY <1>3, <1>6, <1>11
    <2> QED
      BY <2>1, <2>2
  <1>13. \A j \in Keys : j \in unsettled' \/ vectors'[Id(j)] = vectors[Id(j)]
    <2> SUFFICES ASSUME NEW j \in Keys, j # k PROVE vectors'[Id(j)] = vectors[Id(j)]
      BY <1>2
    <2>1. Id(j) \in Ids /\ Id(j) # Id(k) /\ Id(j) # from
      BY IdsOfKeys DEF from
    <2> QED
      BY <1>6, <2>1
  <1>14. RowsKnowTheirPlace'
    BY <1>1, <1>5, <1>6, <1>8, <1>10 DEF RowsInv, RowsKnowTheirPlace
  <1>15. EmbeddingIsOfDocument'
    BY <1>2, <1>5, <1>6, <1>8 DEF RowsInv, EmbeddingIsOfDocument
  <1> QED
    BY <1>2, <1>12, <1>13, <1>14, <1>15, OperatorStep

\* Every step of the system.
LEMMA NextRows ==
  ASSUME RowsInv, [RowsNext]_rowVars
  PROVE  RowsInv'
  <1>1. CASE UNCHANGED rowVars
    <2>1. UNCHANGED <<source, model, vectors, lexical, marker, ingest, foreign, exact, stopped, unsettled, drifted>>
      BY <1>1 DEF rowVars
    <2>2. TypesHold'
      BY <2>1 DEF RowsInv, TypesHold, RowsTypeOK, Holds
    <2> QED
      BY <2>1, <2>2, RestKept
  <1>2. CASE ModelUpdated \/ \E k \in Keys : SourceChanges(k)
    BY <1>2, SourceSteps
  <1>3. CASE \E k \in Keys : MigrateRow(k)
    BY <1>3, MigrateStep
  <1>4. CASE Begin
    BY <1>4, BeginStep
  <1>5. CASE ReplaceVectors \/ ReplaceBM25
    BY <1>5, ReplaceSteps
  <1>6. CASE ReadRow
    BY <1>6, ReadRowStep
  <1>7. CASE Classify
    BY <1>7, ClassifyStep
  <1>8. CASE NothingToFlush
    BY <1>8, NothingToFlushStep
  <1>9. CASE UpdateMetadatas
    BY <1>9, UpdateMetadatasStep
  <1>10. CASE UpsertVectors
    BY <1>10, UpsertVectorsStep
  <1>11. CASE UpsertBM25
    BY <1>11, UpsertBM25Step
  <1>12. CASE DeleteUnseenVectors
    BY <1>12, ReconcileVectorsStep
  <1>13. CASE DeleteUnseenBM25
    BY <1>13, ReconcileBM25Step
  <1>14. CASE Complete
    BY <1>14, CompleteStep
  <1>15. CASE EmbedFails \/ StepFails \/ Kill
    BY <1>15, StopSteps
  <1>16. CASE ClearVectors \/ \E ns \in Namespaces : DeleteSource(ns)
    BY <1>16, DeleteSteps
  <1> QED
    BY <1>1, <1>2, <1>3, <1>4, <1>5, <1>6, <1>7, <1>8, <1>9, <1>10, <1>11, <1>12, <1>13,
       <1>14, <1>15, <1>16 DEF RowsNext

\* The first state, with or without a legacy row.
LEMMA InitRows ==
  ASSUME RowsInit
  PROVE  RowsInv
  <1>1. /\ ingest = Idle /\ marker = "none" /\ exact = FALSE /\ model \in Revisions
        /\ lexical = [i \in Ids |-> IF vectors[i] = Gone THEN Gone ELSE vectors[i].metadata.row.lex]
    BY DEF RowsInit
  <1>2. ingest.pc = "idle" /\ DOMAIN ingest.batch = {} /\ DOMAIN ingest.scanned = {} /\ ingest.left = {}
    BY <1>1, IdleRun
  <1>3. ASSUME NEW i \in Ids
        PROVE  \/ vectors[i] = Gone
               \/ \E t \in Texts : LET row == [doc |-> t, lex |-> t] IN
                    vectors[i] = [document |-> t, embedded |-> t, by |-> Gone, revision |-> Gone,
                                  metadata |-> Metadata(i[1], row), hash |-> Gone]
    <2>1. CASE vectors = [j \in Ids |-> Gone]
      BY <2>1
    <2>2. ASSUME NEW k \in Keys, NEW t \in Texts, NEW ns \in Namespaces,
                 vectors = [j \in Ids |-> IF j # <<ns, k>> THEN Gone ELSE
                    [document |-> t, embedded |-> t, by |-> Gone, revision |-> Gone,
                     metadata |-> Metadata(ns, [doc |-> t, lex |-> t]), hash |-> Gone]]
          PROVE  \/ vectors[i] = Gone
                 \/ \E u \in Texts : LET row == [doc |-> u, lex |-> u] IN
                      vectors[i] = [document |-> u, embedded |-> u, by |-> Gone,
                                    revision |-> Gone, metadata |-> Metadata(i[1], row),
                                    hash |-> Gone]
      <3>1. i = <<ns, k>> => i[1] = ns
        OBVIOUS
      <3> QED
        BY <2>2, <3>1
    <2> QED
      BY <2>1, <2>2 DEF RowsInit
  <1>4. ASSUME NEW i \in Ids, vectors[i] # Gone
        PROVE  /\ vectors[i] \in VectorRow
               /\ vectors[i].metadata.ns = i[1] /\ vectors[i].hash = Gone
               /\ vectors[i].embedded = vectors[i].document /\ vectors[i].by = Gone
               /\ vectors[i].metadata.row.lex \in Texts
    <2>1. PICK t \in Texts :
            vectors[i] = [document |-> t, embedded |-> t, by |-> Gone, revision |-> Gone,
                          metadata |-> Metadata(i[1], [doc |-> t, lex |-> t]), hash |-> Gone]
      BY <1>3, <1>4
    <2>2. i[1] \in Namespaces
      BY IdsOfKeys
    <2>3. /\ Metadata(i[1], [doc |-> t, lex |-> t]) \in MetadataSet
          /\ Metadata(i[1], [doc |-> t, lex |-> t]).ns = i[1]
          /\ Metadata(i[1], [doc |-> t, lex |-> t]).row.lex = t
      BY <2>2 DEF Metadata, MetadataSet, Row
    <2>4. vectors[i] \in VectorRow
      BY <2>1, <2>3 DEF VectorRow
    <2> QED
      BY <2>1, <2>3, <2>4
  <1>5. TypesHold
    <2>1. Holds(ingest.batch) /\ Holds(ingest.scanned)
      BY <1>2, NoRows
    <2>2. source \in [Keys -> Row \cup {Gone}]
      BY DEF RowsInit, Row
    <2>3. vectors \in [Ids -> VectorRow \cup {Gone}]
      <3>1. vectors = [i \in Ids |-> vectors[i]]
        BY DEF RowsInit
      <3>2. \A i \in Ids : vectors[i] \in VectorRow \cup {Gone}
        BY <1>4
      <3> QED
        BY <3>1, <3>2
    <2>4. lexical \in [Ids -> Texts \cup {Gone}]
      BY <1>1, <1>4
    <2>5. RowsTypeOK
      BY <1>1, <1>2, <2>2, <2>3, <2>4, IdleRun DEF RowsTypeOK
    <2> QED
      BY <1>1, <1>2, <2>1, <2>5, IdleRun DEF TypesHold, Phases
  <1>6. BatchFits
    BY <1>2 DEF BatchFits
  <1>7. RowsKnowTheirPlace /\ EmbeddingIsOfDocument
    BY <1>4 DEF RowsKnowTheirPlace, EmbeddingIsOfDocument
  <1>8. GateIsUp /\ FlushedRows /\ BatchRows /\ ReplacedRows /\ UnseenRows
    BY <1>2 DEF GateIsUp, FlushedRows, BatchRows, ReplacedRows, UnseenRows, Reconciled,
       Flushing, Reconciling
  <1>9. TornIsKnown
    <2>1. \A k \in Keys : ~TornRow(k)
      BY <1>1, IdsOfKeys DEF TornRow
    <2> QED
      BY <2>1 DEF TornIsKnown
  <1>10. Exactness
    BY <1>1 DEF Exactness, FullRunIsExact
  <1> QED
    BY <1>5, <1>6, <1>7, <1>8, <1>9, <1>10 DEF RowsInv

\* flush_batch, begin_ingestion and reconcile_deleted_documents, for any rows, batch
\* size, limits, replacements, failures, kills, operator's commands and edits of the
\* source or the model at any moment: a stored embedding is of the document stored
\* with it, and of the revision it names unless the model was replaced while its own
\* run was on; and while there is no state file, a row whose two indexes disagree is
\* one an operator wrote, or one that a run stopped at and that no run which
\* completed since (and so removed the file) has been over.
THEOREM RowsHold == RowsSpec => []RowsAgree
  <1>1. RowsInit => RowsInv
    BY InitRows
  <1>2. RowsInv /\ [RowsNext]_rowVars => RowsInv'
    BY NextRows
  <1>3. RowsInv => RowsAgree
    BY DEF RowsInv, TypesHold, RowsAgree, TornIsKnown, GateCoversTornRows
  <1> QED
    BY <1>1, <1>2, <1>3, PTL DEF RowsSpec

\* ingest_mysql_source, for a run with reconciliation that completes while nothing
\* else writes: the vectors are exactly the rows it read, each with its document,
\* metadata and revision, and the BM25 index has their texts and no other row's,
\* however many runs were killed or failed before it.
THEOREM FullRunHolds == RowsSpec => []FullRunIsExact
  <1>1. RowsInit => RowsInv
    BY InitRows
  <1>2. RowsInv /\ [RowsNext]_rowVars => RowsInv'
    BY NextRows
  <1>3. RowsInv => FullRunIsExact
    BY DEF RowsInv, Exactness
  <1> QED
    BY <1>1, <1>2, <1>3, PTL DEF RowsSpec
=============================================================================
