---------------------------- MODULE IngestionRows ----------------------------
(***************************************************************************)
(* Row-level ingestion of one tenant's source table into its two indexes:  *)
(* the pgvector collection (storage/pgvector.py) and the BM25 index        *)
(* (search/bm25.py), by ingestion/service.py.  IndexGenerations keeps the  *)
(* slots and the promotion; here one index is filled in place, and what is *)
(* modelled is which rows a run embeds, updates, skips and deletes, what a *)
(* kill or an exception between two steps leaves behind, and what the next *)
(* run makes of it.  Beside the ingestion stand the operator's commands of *)
(* cli/ingest.py: delete a source, clear, migrate a source's namespace.    *)
(*                                                                         *)
(* A document is identified by the namespace of its source and the row's   *)
(* primary key.  A row is its embedding text and its BM25 text; the BM25   *)
(* column is part of the metadata, so a change of `lex' alone is a         *)
(* metadata-only change.  A content hash is modelled by the document.      *)
(***************************************************************************)
EXTENDS Naturals, FiniteSets, FiniteSetsExt

CONSTANTS
  Gone,            \* no row, or no value (a model value)
  NoText,          \* an empty column (a model value)
  Keys,            \* primary keys of the source rows, numbers: the scan's order
  Texts,           \* texts a column may hold
  Revisions,       \* digests of the embedding model
  BatchSize,       \* batch_size
  MaxIngestions,   \* bound: ingestion runs started
  MaxEdits         \* bound: changes of the source table and of the model

ASSUME RowsAssumption ==
  /\ Keys \subseteq Nat /\ IsFiniteSet(Keys)
  /\ BatchSize \in Nat \ {0}
  /\ MaxIngestions \in Nat /\ MaxEdits \in Nat

VARIABLES
  source,    \* key -> row of the source table, or Gone
  model,     \* digest of the deployed embedding model
  vectors,   \* document id -> stored vector row, or Gone
  lexical,   \* document id -> BM25 text, or Gone
  marker,    \* .ingestion-state.json: "none", "running", "failed"
  ingest,    \* the ingestion process
  starts, edits,  \* counters of the bounds
  foreign,   \* history: something else wrote an index since the run began
  exact,     \* history: a full reconciling run completed and nothing was done since
  stopped,   \* history: rows that a run was writing when it failed or was killed,
             \* and no run has completed since
  unsettled, \* history: rows that an operator wrote, or that were `stopped' when a
             \* run completed, and that no completed run has been over since
  drifted    \* history: ids embedded after the model was replaced under their run

rowVars == <<source, model, vectors, lexical, marker, ingest, starts, edits,
             foreign, exact, stopped, unsettled, drifted>>

Row == [doc : Texts \cup {NoText}, lex : Texts \cup {NoText}]

\* the source's namespace now, and the one it had before a rename
Namespaces == {"target", "former"}
Id(k) == <<"target", k>>
Ids == Namespaces \X Keys

Metadata(ns, row) == [ns |-> ns, row |-> row]
MetadataSet == [ns : Namespaces, row : Row]

\* source_metadata_hash is absent and the revision unknown in a legacy row
VectorRow == [document : Texts, embedded : Texts, by : Revisions \cup {Gone},
              revision : Revisions \cup {Gone},
              metadata : MetadataSet, hash : MetadataSet \cup {Gone}]

\* a row that is absent is no row, and no text, revision or hash
ASSUME GoneAssumption ==
  /\ Gone \notin Texts /\ Gone \notin Revisions
  /\ Gone \notin MetadataSet /\ Gone \notin VectorRow

NoOptions == [limit |-> 0, replace |-> FALSE, force |-> FALSE, reconcile |-> FALSE]
Idle == [pc |-> "idle", opts |-> NoOptions, revision |-> Gone, left |-> {},
         batch |-> <<>>, scanned |-> <<>>]

RowsInit ==
  /\ \E t \in Texts : source = [k \in Keys |-> [doc |-> t, lex |-> t]]
  /\ model \in Revisions
  /\ \/ vectors = [i \in Ids |-> Gone]
     \/ \E k \in Keys, t \in Texts, ns \in Namespaces :      \* a legacy row
          LET row == [doc |-> t, lex |-> t] IN
          vectors = [i \in Ids |-> IF i # <<ns, k>> THEN Gone ELSE
             [document |-> t, embedded |-> t, by |-> Gone, revision |-> Gone,
              metadata |-> Metadata(ns, row), hash |-> Gone]]
  /\ lexical = [i \in Ids |-> IF vectors[i] = Gone THEN Gone ELSE vectors[i].metadata.row.lex]
  /\ marker = "none"
  /\ ingest = Idle
  /\ starts = 0 /\ edits = 0
  /\ foreign = FALSE /\ exact = FALSE
  /\ stopped = {} /\ unsettled = {} /\ drifted = {}

\* ------------------------------------------------------------ the two indexes
\* PgVectorCollection.get(where = {source_file: source}): the ids of a source
OfSource(ns) == {i \in Ids : vectors[i] # Gone /\ vectors[i].metadata.ns = ns}

Without(index, ids) == [i \in Ids |-> IF i \in ids THEN Gone ELSE index[i]]

\* upsert of BM25 rows, keyed by id (its revision counter, which the cache keys
\* of a search read, is a matter of SearchPipeline)
LexUpsert(rows) ==
  lexical' = [i \in Ids |-> IF i \in DOMAIN rows THEN rows[i] ELSE lexical[i]]

LexDelete(ids) == lexical' = Without(lexical, ids)

LexClear == lexical' = [i \in Ids |-> Gone]

\* ------------------------------------------------------- the source and model
\* external: the application that owns the table inserts, changes, deletes rows
SourceChanges(k) ==
  /\ edits < MaxEdits
  /\ \E row \in Row \cup {Gone} : row # source[k] /\ source' = [source EXCEPT ![k] = row]
  /\ edits' = edits + 1
  /\ UNCHANGED <<model, vectors, lexical, marker, ingest, starts, foreign,
                 exact, stopped, unsettled, drifted>>

\* external: the model tag is pulled again, also while a run goes on
ModelUpdated ==
  /\ edits < MaxEdits
  /\ model' \in Revisions \ {model}
  /\ edits' = edits + 1
  /\ UNCHANGED <<source, vectors, lexical, marker, ingest, starts, foreign,
                 exact, stopped, unsettled, drifted>>

\* ------------------------------------------------------------- one ingestion
Move(pc) == ingest' = [ingest EXCEPT !.pc = pc]

\* options the command line accepts: reconciliation needs a full scan
Options == {o \in [limit : {0, 1}, replace : BOOLEAN, force : BOOLEAN, reconcile : BOOLEAN] :
              o.reconcile => o.limit = 0}

\* the rows iter_database_rows will yield: all keys, or the first `limit'
Planned(limit) ==
  IF limit = 0 THEN Keys ELSE {k \in Keys : Cardinality({j \in Keys : j < k}) < limit}

\* _ingest_mysql_source up to its loop; a state file found there is taken over
Begin ==
  /\ ingest.pc = "idle"
  /\ starts < MaxIngestions
  /\ \E o \in Options :
       /\ ingest' = [pc |-> IF o.replace THEN "replace_vectors" ELSE "scan", opts |-> o,
                     revision |-> model, left |-> Planned(o.limit),
                     batch |-> <<>>, scanned |-> <<>>]
       /\ marker' = IF marker # "none" \/ o.replace THEN "running" ELSE "none"
  /\ starts' = starts + 1
  /\ foreign' = FALSE /\ exact' = FALSE
  /\ UNCHANGED <<source, model, vectors, lexical, edits, stopped, unsettled, drifted>>

ReplaceVectors ==
  /\ ingest.pc = "replace_vectors"
  /\ vectors' = Without(vectors, OfSource("target"))
  /\ Move("replace_bm25")
  /\ UNCHANGED <<source, model, lexical, marker, starts, edits, foreign, exact,
                 stopped, unsettled, drifted>>

ReplaceBM25 ==
  /\ ingest.pc = "replace_bm25"
  /\ LexClear
  /\ Move("scan")
  /\ UNCHANGED <<source, model, vectors, marker, starts, edits, foreign, exact,
                 stopped, unsettled, drifted>>

\* prepare_mysql_row returns None for a row without embedding text
Prepared(k) == source[k] # Gone /\ source[k].doc # NoText

\* the loop over the rows: the next rows that prepare fill a batch
ReadRow ==
  /\ ingest.pc = "scan"
  /\ ingest.left # {}
  /\ LET k == Min(ingest.left)
         batch == IF Prepared(k) THEN [j \in DOMAIN ingest.batch \cup {k} |->
                                         IF j = k THEN source[k] ELSE ingest.batch[j]]
                                 ELSE ingest.batch
         last == ingest.left = {k}
     IN ingest' = [ingest EXCEPT !.left = @ \ {k}, !.batch = batch,
                     !.scanned = [j \in DOMAIN @ \cup DOMAIN batch |->
                                    IF j \in DOMAIN batch THEN batch[j] ELSE @[j]],
                     !.pc = IF Cardinality(DOMAIN batch) = BatchSize \/ last
                            THEN "classify" ELSE "scan"]
  /\ UNCHANGED <<source, model, vectors, lexical, marker, starts, edits,
                 foreign, exact, stopped, unsettled, drifted>>

Expected(k) == Metadata("target", ingest.batch[k])

\* database_row_changes: the stored row has the expected text and revision...
Same(k) ==
  LET v == vectors[Id(k)] IN
  /\ v # Gone
  /\ v.revision \in {Gone, ingest.revision}
  /\ v.document = ingest.batch[k].doc

\* ... and the expected metadata hash
CurrentKey(k) ==
  /\ Same(k)
  /\ vectors[Id(k)].revision = ingest.revision
  /\ vectors[Id(k)].hash = Expected(k)

Current == IF ingest.opts.force THEN {} ELSE {k \in DOMAIN ingest.batch : CurrentKey(k)}
MetadataOnly ==
  IF ingest.opts.force THEN {} ELSE {k \in DOMAIN ingest.batch : Same(k)} \ Current
ToEmbed == DOMAIN ingest.batch \ (Current \cup MetadataOnly)

\* fault: the gate is not opened
Ungated ==
  /\ ingest.pc = "classify"
  /\ DOMAIN ingest.batch # {}
  /\ Move("metadata")
  /\ UNCHANGED <<source, model, vectors, lexical, marker, starts, edits,
                 foreign, exact, stopped, unsettled, drifted>>

\* flush_batch begins: it classifies, and opens the gate before the first write.
\* A batch without rows is not flushed
Classify ==
  /\ ingest.pc = "classify"
  /\ DOMAIN ingest.batch # {}
  /\ marker' = IF Current # DOMAIN ingest.batch THEN "running" ELSE marker
  /\ Move("metadata")
  /\ UNCHANGED <<source, model, vectors, lexical, starts, edits,
                 foreign, exact, stopped, unsettled, drifted>>

NextBatch == IF ingest.left # {} THEN "scan" ELSE IF ingest.opts.reconcile THEN "reconcile_vectors"
             ELSE "complete"

NothingToFlush ==
  /\ ingest.pc = "classify"
  /\ DOMAIN ingest.batch = {}
  /\ Move(NextBatch)
  /\ marker' = IF NextBatch = "reconcile_vectors" THEN "running" ELSE marker
  /\ UNCHANGED <<source, model, vectors, lexical, starts, edits,
                 foreign, exact, stopped, unsettled, drifted>>

\* what the statement of update_metadatas makes of the row: its metadata, which
\* holds the hash and the revision, is replaced, nothing is embedded
Remarked(k) == [vectors[Id(k)] EXCEPT !.metadata = Expected(k), !.hash = Expected(k),
                                      !.revision = ingest.revision]

\* the row that collection.upsert writes, new or over an old one: embedded by the
\* model there is now, recorded with the revision read when the run began
Embedded(k) == [document |-> ingest.batch[k].doc, embedded |-> ingest.batch[k].doc,
                by |-> model, revision |-> ingest.revision,
                metadata |-> Expected(k), hash |-> Expected(k)]

UpdateMetadatas ==
  /\ ingest.pc = "metadata"
  /\ LET touched == {Id(k) : k \in MetadataOnly} IN
     vectors' = [i \in Ids |-> IF i \in touched THEN Remarked(i[2]) ELSE vectors[i]]
  /\ Move(IF ToEmbed = {} THEN "lexical" ELSE "embed")
  /\ UNCHANGED <<source, model, lexical, marker, starts, edits, foreign, exact,
                 stopped, unsettled, drifted>>

\* embed_for_upsert succeeded (within three attempts), then collection.upsert
UpsertVectors ==
  /\ ingest.pc = "embed"
  /\ LET touched == {Id(k) : k \in ToEmbed} IN
     /\ vectors' = [i \in Ids |-> IF i \in touched THEN Embedded(i[2]) ELSE vectors[i]]
     /\ drifted' = IF model = ingest.revision THEN drifted \ touched ELSE drifted \cup touched
  /\ Move("lexical")
  /\ UNCHANGED <<source, model, lexical, marker, starts, edits, foreign, exact,
                 stopped, unsettled>>

\* bm25_index.upsert(bm25_rows): every row of the batch that has BM25 text, also
\* those whose vector was current
BM25Rows == [i \in {Id(k) : k \in {j \in DOMAIN ingest.batch : ingest.batch[j].lex # NoText}} |->
               ingest.batch[i[2]].lex]

\* fault: a row BM25 already holds is left alone
UpsertOnlyNew ==
  /\ ingest.pc = "lexical"
  /\ LexUpsert([i \in {j \in DOMAIN BM25Rows : lexical[j] = Gone} |-> BM25Rows[i]])
  /\ ingest' = [ingest EXCEPT !.pc = NextBatch, !.batch = <<>>]
  /\ marker' = IF NextBatch = "reconcile_vectors" THEN "running" ELSE marker
  /\ UNCHANGED <<source, model, vectors, starts, edits, foreign, exact, stopped, unsettled, drifted>>

UpsertBM25 ==
  /\ ingest.pc = "lexical"
  /\ LexUpsert(BM25Rows)
  /\ ingest' = [ingest EXCEPT !.pc = NextBatch, !.batch = <<>>]
  /\ marker' = IF NextBatch = "reconcile_vectors" THEN "running" ELSE marker
  /\ UNCHANGED <<source, model, vectors, starts, edits, foreign, exact, stopped, unsettled, drifted>>

\* reconcile_deleted_documents, first half: vectors of this source not seen
Seen == {Id(k) : k \in DOMAIN ingest.scanned}

DeleteUnseenVectors ==
  /\ ingest.pc = "reconcile_vectors"
  /\ vectors' = Without(vectors, OfSource("target") \ Seen)
  /\ Move("reconcile_bm25")
  /\ UNCHANGED <<source, model, lexical, marker, starts, edits, foreign, exact,
                 stopped, unsettled, drifted>>

\* second half: every BM25 row not seen, whatever its source
DeleteUnseenBM25 ==
  /\ ingest.pc = "reconcile_bm25"
  /\ LexDelete({i \in Ids : lexical[i] # Gone} \ Seen)
  /\ Move("complete")
  /\ UNCHANGED <<source, model, vectors, marker, starts, edits, foreign, exact,
                 stopped, unsettled, drifted>>

\* ingest_mysql_source ends: complete_ingestion removes the state file, whatever
\* part of the table the run covered and whatever run left the file
Complete ==
  /\ ingest.pc = "complete"
  /\ marker' = "none"
  /\ exact' = (ingest.opts.reconcile /\ ~foreign)
  /\ stopped' = {}
  /\ unsettled' = IF foreign THEN unsettled \cup stopped
                  ELSE IF ingest.opts.reconcile THEN {}
                  ELSE (unsettled \cup stopped) \ DOMAIN ingest.scanned
  /\ ingest' = [Idle EXCEPT !.scanned = ingest.scanned, !.revision = ingest.revision]
  /\ UNCHANGED <<source, model, vectors, lexical, starts, edits, foreign, drifted>>

\* history: the rows that the ingestion process is writing: of a batch, of all
\* rows when it replaces the source, of those not seen when it reconciles
AtWork ==
  {k \in Keys :
     \/ ingest.pc \in {"embed", "lexical"} /\ k \in DOMAIN ingest.batch
     \/ ingest.pc = "replace_bm25"
     \/ ingest.pc = "reconcile_bm25" /\ k \notin DOMAIN ingest.scanned}

Stopped == stopped' = stopped \cup AtWork

\* an exception ends the run: fail_ingestion if the state file exists
Fail ==
  /\ marker' = IF marker # "none" THEN "failed" ELSE "none"
  /\ ingest' = Idle
  /\ Stopped
  /\ UNCHANGED <<source, model, vectors, lexical, starts, edits, foreign, exact,
                 unsettled, drifted>>

\* embed_for_upsert: a batch failed its third attempt
EmbedFails == ingest.pc = "embed" /\ Fail

\* the database, the source or a state file failed
StepFails == ingest.pc \notin {"idle", "embed"} /\ Fail

\* the process is killed: the file stays as it is
Kill ==
  /\ ingest.pc # "idle"
  /\ ingest' = Idle
  /\ Stopped
  /\ UNCHANGED <<source, model, vectors, lexical, marker, starts, edits,
                 foreign, exact, unsettled, drifted>>

\* ------------------------------------------------------ operator's commands
\* delete_tenant_source and clear_tenant_vectors: vectors only, no gate
DeleteSource(ns) ==
  /\ OfSource(ns) # {} /\ edits < MaxEdits
  /\ vectors' = Without(vectors, OfSource(ns))
  /\ edits' = edits + 1
  /\ foreign' = TRUE /\ exact' = FALSE
  /\ unsettled' = unsettled \cup {i[2] : i \in OfSource(ns)}
  /\ UNCHANGED <<source, model, lexical, marker, ingest, starts, stopped,
                 drifted>>

ClearVectors ==
  /\ edits < MaxEdits
  /\ \E i \in Ids : vectors[i] # Gone
  /\ vectors' = [i \in Ids |-> Gone]
  /\ edits' = edits + 1
  /\ foreign' = TRUE /\ exact' = FALSE
  /\ unsettled' = unsettled \cup {i[2] : i \in {j \in Ids : vectors[j] # Gone}}
  /\ UNCHANGED <<source, model, lexical, marker, ingest, starts, stopped,
                 drifted>>

\* migrate_source_namespace, one transaction (one row a batch): the row moves to
\* its target id, unless a vector is there already, which wins
MigrateRow(k) ==
  /\ <<"former", k>> \in OfSource("former")
  /\ LET old == vectors[<<"former", k>>] IN
     vectors' = [vectors EXCEPT
       ![<<"former", k>>] = Gone,
       ![Id(k)] = IF @ # Gone THEN @ ELSE [old EXCEPT !.metadata.ns = "target"]]
  /\ foreign' = TRUE /\ exact' = FALSE
  /\ unsettled' = unsettled \cup {k}
  /\ UNCHANGED <<source, model, lexical, marker, ingest, starts, edits, stopped,
                 drifted>>

RowsNext ==
  \/ \E k \in Keys : SourceChanges(k) \/ MigrateRow(k)
  \/ ModelUpdated
  \/ Begin \/ ReplaceVectors \/ ReplaceBM25
  \/ ReadRow \/ Classify \/ NothingToFlush
  \/ UpdateMetadatas \/ UpsertVectors \/ UpsertBM25
  \/ DeleteUnseenVectors \/ DeleteUnseenBM25
  \/ Complete \/ EmbedFails \/ StepFails \/ Kill
  \/ \E ns \in Namespaces : DeleteSource(ns)
  \/ ClearVectors

RowsSpec == RowsInit /\ [][RowsNext]_rowVars

\* ----------------------------------------------------------------- properties
RowsTypeOK ==
  /\ source \in [Keys -> Row \cup {Gone}]
  /\ vectors \in [Ids -> VectorRow \cup {Gone}]
  /\ lexical \in [Ids -> Texts \cup {Gone}]
  /\ marker \in {"none", "running", "failed"}
  /\ ingest.opts \in Options /\ ingest.left \subseteq Keys

\* After a full run that reconciles deletions the collection holds exactly the
\* rows that run scanned -- text, metadata and revision --, and BM25 the same
\* rows, whatever was interrupted, migrated or changed before.  (A row that kept
\* its embedding text but lost its BM25 text keeps its former BM25 row: the run
\* saw its id, and neither upserts nor deletes it.)
FullRunIsExact ==
  exact =>
    /\ \A k \in Keys :
         IF k \in DOMAIN ingest.scanned
         THEN /\ vectors[Id(k)] # Gone
              /\ vectors[Id(k)].document = ingest.scanned[k].doc
              /\ vectors[Id(k)].metadata = Metadata("target", ingest.scanned[k])
              /\ vectors[Id(k)].revision = ingest.revision
              /\ ingest.scanned[k].lex # NoText => lexical[Id(k)] = ingest.scanned[k].lex
         ELSE vectors[Id(k)] = Gone /\ lexical[Id(k)] = Gone
    /\ \A i \in Ids : i[1] = "former" => lexical[i] = Gone

\* A stored vector is the embedding of the text stored beside it, and a row is
\* never taken over into another revision: what a row names is the revision that
\* made it, unless the model was replaced between the moment its own run read the
\* revision (_ingest_mysql_source begins) and the moment it embedded the row.
\* Legacy rows, embedded before revisions were recorded, are adopted as they are.
EmbeddingIsOfDocument ==
  \A i \in Ids : vectors[i] # Gone =>
    /\ vectors[i].embedded = vectors[i].document
    /\ vectors[i].by # Gone => vectors[i].by = vectors[i].revision \/ i \in drifted

\* a document and its BM25 row that do not come from the same row
TornRow(k) ==
  LET v == vectors[Id(k)] IN
  \/ v = Gone /\ lexical[Id(k)] # Gone
  \/ v # Gone /\ v.metadata.row.lex # NoText /\ lexical[Id(k)] # v.metadata.row.lex

\* While the state file is absent (searches are served) the vector and the BM25
\* entry of a settled row come from one version of it: a run that is killed or
\* fails with a row half written leaves the file up, and a row that a completed
\* run has been over is whole again.  It does not say that the file stays until
\* then: any run that completes removes it, also one that never saw the row, and
\* from there on the row is `unsettled'.
GateCoversTornRows ==
  marker = "none" => \A k \in Keys : TornRow(k) => k \in unsettled

\* What a search may rely on in the two indexes while they are not gated.
RowsAgree == RowsTypeOK /\ EmbeddingIsOfDocument /\ GateCoversTornRows
=============================================================================
