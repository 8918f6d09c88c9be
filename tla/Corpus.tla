------------------------------- MODULE Corpus -------------------------------
(***************************************************************************)
(* The local corpus and the intake run that publishes it: CorpusRouter     *)
(* and ArtworkFilterCorpusStore (artsearch/artwork_filter), the embedding  *)
(* pass (embed/pipeline.py), object publication and local retention        *)
(* (production/publisher.py, object_store.py, retention.py), in the order  *)
(* of the intake DAG (orchestration/airflow/dags/artsearch_intake.py).     *)
(*                                                                         *)
(* Two processes import: the DAG's collector, and a refresh job of the     *)
(* control page.  An artwork is known by the candidate it was first made   *)
(* for (its id is a hash of the candidate's).  Bytes stands for what a     *)
(* standardized image contains; an edited post offers other bytes.         *)
(*                                                                         *)
(* Abstractions.  A batch holds one candidate.  Raw files are left out:    *)
(* their name carries the post's version, so the router finds under it the *)
(* bytes it would download.  Every candidate is accepted.  The PostgreSQL  *)
(* and Qdrant tasks are one step here; QdrantOutbox has their detail.      *)
(* Renditions are published and retention is on: the shipped profiles use  *)
(* one or the other, the configuration allows both.                        *)
(***************************************************************************)
EXTENDS Naturals, FiniteSets, Sequences, SequencesExt

CONSTANTS
  Candidate,
  BytesOf,     \* the bytes each candidate's post offers, version after version
  NoBytes      \* NULL

Importer == {"dag", "refresh"}
Bytes == UNION {Range(BytesOf[c]) : c \in Candidate}

ASSUME CorpusAssumption ==
  /\ \A c \in Candidate : BytesOf[c] \in Seq(Bytes) \ {<<>>}
  /\ NoBytes \notin Bytes

VARIABLES
  post,       \* the version each post has now
  row,        \* artworks: "none", or validated and file_hash
  processed,  \* what the file at processed_path holds
  embedding,  \* what the row of embeddings was computed from
  objectRef,  \* artwork_objects: content_sha256
  objects,    \* the object store
  routes,     \* artwork_filter_routes: the candidate and the artwork it led to
  import,     \* what each importer is doing
  dag,        \* the intake run: its stage and its decisions
  reading,    \* the embedding pass: the artworks it read, and their bytes
  mixed       \* history: artworks a refresh touched while a run went on

corpusVars == <<post, row, processed, embedding, objectRef, objects, routes, import, dag, reading,
                mixed>>

NoRow == [state |-> "none", hash |-> NoBytes]
NotImporting == [pc |-> "idle"]
NoRunYet == [stage |-> "idle", decided |-> {}, todo |-> {}]
Nothing == [a \in {} |-> NoBytes]

CorpusInit ==
  /\ post = [c \in Candidate |-> 1]
  /\ row = [c \in Candidate |-> NoRow]
  /\ processed = [c \in Candidate |-> NoBytes]
  /\ embedding = [c \in Candidate |-> NoBytes]
  /\ objectRef = [c \in Candidate |-> NoBytes]
  /\ objects = {}
  /\ routes = {}
  /\ import = [p \in Importer |-> NotImporting]
  /\ dag = NoRunYet
  /\ reading = Nothing
  /\ mixed = {}

Edit(c) ==
  /\ post[c] < Len(BytesOf[c])
  /\ post' = [post EXCEPT ![c] = @ + 1]
  /\ UNCHANGED <<row, processed, embedding, objectRef, objects, routes, import, dag, reading,
                 mixed>>

-----------------------------------------------------------------------------
(* Importing a candidate.                                                  *)

Valid(c) == row[c].state = "valid"

\* The artworks the accepted decisions of the DAG's run lead to.
Accepted == {a \in Candidate : \E d \in dag.decided : d = a \/ <<d, a>> \in routes}

\* Artworks the refresh job has under its hands.
Refreshing == {c \in Candidate : import["refresh"].pc # "idle" /\ import["refresh"].candidate = c}

\* A fetched candidate is classified and its image stored by the router; the
\* DAG's collector takes each candidate once per attempt.  A route may fail.
Fetch(p, c) ==
  /\ import[p].pc = "idle"
  /\ p = "dag" => dag.stage = "collect" /\ c \notin dag.decided
  /\ \/ import' = [import EXCEPT ![p] = [pc |-> "routed", candidate |-> c,
                                         bytes |-> BytesOf[c][post[c]]]]
     \/ UNCHANGED import
  /\ dag' = IF p = "dag" THEN [dag EXCEPT !.decided = @ \union {c}] ELSE dag
  /\ mixed' = IF p = "refresh" /\ dag.stage # "idle" THEN mixed \union {c} ELSE mixed
  /\ UNCHANGED <<post, row, processed, embedding, objectRef, objects, routes, reading>>

Unchanged(c, b) == Valid(c) /\ row[c].hash = b /\ processed[c] # NoBytes
Duplicates(c, b) == {a \in Candidate \ {c} : Valid(a) /\ row[a].hash = b}

\* Mutants: the old row stays valid, or keeps its embeddings, while its file is
\* replaced.
StaysValid(r) == r
Invalidated(r) == [r EXCEPT !.state = "invalid"]
EmbeddingKept(e) == e
EmbeddingDropped(e) == NoBytes

\* _import_accepted up to its own commit: nothing to do, a duplicate, or an
\* existing row is made invalid, loses its embeddings, and that is committed.
ImportCheck(p) ==
  /\ import[p].pc = "routed"
  /\ LET c == import[p].candidate  b == import[p].bytes IN
     \/ /\ Unchanged(c, b)
        /\ routes' = routes \union {<<c, c>>}
        /\ import' = [import EXCEPT ![p] = NotImporting]
        /\ UNCHANGED <<row, embedding, mixed>>
     \/ /\ ~Unchanged(c, b)
        /\ \E a \in Duplicates(c, b) :
             /\ routes' = routes \union {<<c, a>>}
             /\ mixed' = IF p = "refresh" /\ dag.stage # "idle" THEN mixed \union {a} ELSE mixed
        /\ import' = [import EXCEPT ![p] = NotImporting]
        /\ UNCHANGED <<row, embedding>>
     \/ /\ ~Unchanged(c, b) /\ Duplicates(c, b) = {}
        /\ import' = [import EXCEPT ![p].pc = "checked"]
        /\ row' = [row EXCEPT ![c] = IF @.state = "none" THEN @ ELSE Invalidated(@)]
        /\ embedding' = [embedding EXCEPT ![c] = IF row[c].state = "none" THEN @
                                                 ELSE EmbeddingDropped(@)]
        /\ UNCHANGED <<routes, mixed>>
  /\ UNCHANGED <<post, processed, objectRef, objects, dag, reading>>

\* standardize_image replaces the processed file, or fails and the route is
\* recorded as an error; the row stays as the check left it.
Standardize(p) ==
  /\ import[p].pc = "checked"
  /\ \/ /\ processed' = [processed EXCEPT ![import[p].candidate] = import[p].bytes]
        /\ import' = [import EXCEPT ![p].pc = "standardized"]
     \/ /\ import' = [import EXCEPT ![p] = NotImporting]
        /\ UNCHANGED processed
  /\ UNCHANGED <<post, row, embedding, objectRef, objects, routes, dag, reading, mixed>>

\* The row and the route are written and committed.
ImportCommit(p) ==
  /\ import[p].pc = "standardized"
  /\ LET c == import[p].candidate IN
     /\ row' = [row EXCEPT ![c] = [state |-> "valid", hash |-> import[p].bytes]]
     /\ routes' = routes \union {<<c, c>>}
  /\ import' = [import EXCEPT ![p] = NotImporting]
  /\ UNCHANGED <<post, processed, embedding, objectRef, objects, dag, reading, mixed>>

-----------------------------------------------------------------------------
(* The run.  Its tasks follow each other; a failed one is retried from its *)
(* start, or the run fails.                                                *)

Others == <<post, row, processed, embedding, objectRef, objects, routes, import, reading, mixed>>

StartRun ==
  /\ dag.stage = "idle"
  /\ dag' = [NoRunYet EXCEPT !.stage = "collect"]
  /\ mixed' = mixed \union Refreshing
  /\ UNCHANGED <<post, row, processed, embedding, objectRef, objects, routes, import, reading>>

\* The decisions file replaces the previous one when the collector is done.
Collected ==
  /\ dag.stage = "collect"
  /\ import["dag"].pc = "idle"
  /\ dag' = [dag EXCEPT !.stage = "publish", !.todo = {a \in Accepted : Valid(a)}]
  /\ UNCHANGED Others

\* The collector dies or is given up: its staged decisions are dropped, what
\* it has committed to SQLite stays, and a retry starts with none.
CollectorFails ==
  /\ dag.stage = "collect"
  /\ dag' = [NoRunYet EXCEPT !.stage = "collect"]
  /\ import' = [import EXCEPT !["dag"] = NotImporting]
  /\ UNCHANGED <<post, row, processed, embedding, objectRef, objects, routes, reading, mixed>>

\* A refresh job dies.
RefreshDies ==
  /\ import["refresh"].pc # "idle"
  /\ import' = [import EXCEPT !["refresh"] = NotImporting]
  /\ UNCHANGED <<post, row, processed, embedding, objectRef, objects, routes, dag, reading, mixed>>

\* Mutant: any earlier publication of the artwork will do.
PublishedBefore(a) == objectRef[a] \in objects
AlreadyPublished(a) == objectRef[a] = processed[a] /\ objectRef[a] \in objects

\* _publish_row: the file's bytes go to the store, the reference to SQLite.
\* Without the file the task cannot end.
PublishOne(a) ==
  /\ dag.stage = "publish" /\ a \in dag.todo
  /\ processed[a] # NoBytes
  /\ \/ /\ AlreadyPublished(a)
        /\ UNCHANGED <<objects, objectRef>>
     \/ /\ ~AlreadyPublished(a)
        /\ objects' = objects \union {processed[a]}
        /\ objectRef' = [objectRef EXCEPT ![a] = processed[a]]
  /\ dag' = [dag EXCEPT !.todo = @ \ {a}]
  /\ UNCHANGED <<post, row, processed, embedding, routes, import, reading, mixed>>

Published ==
  /\ dag.stage = "publish" /\ dag.todo = {}
  /\ dag' = [dag EXCEPT !.stage = "embed"]
  /\ UNCHANGED Others

\* The embedding pass reads the files of all valid rows without an embedding.
Pending == {a \in Candidate : Valid(a) /\ embedding[a] = NoBytes}

EmbedRead ==
  /\ dag.stage = "embed"
  /\ \A a \in Pending : processed[a] # NoBytes
  /\ reading' = [a \in Pending |-> processed[a]]
  /\ dag' = [dag EXCEPT !.stage = "embedding"]
  /\ UNCHANGED <<post, row, processed, embedding, objectRef, objects, routes, import, mixed>>

EmbedWrite ==
  /\ dag.stage = "embedding"
  /\ embedding' = [a \in Candidate |-> IF a \in DOMAIN reading THEN reading[a] ELSE embedding[a]]
  /\ reading' = Nothing
  /\ dag' = [dag EXCEPT !.stage = "metadata"]
  /\ UNCHANGED <<post, row, processed, objectRef, objects, routes, import, mixed>>

\* publish_postgres, sync_qdrant_index, the manifests and the run's bundle.
PublishRun ==
  /\ dag.stage = "metadata"
  /\ dag' = [dag EXCEPT !.stage = "prune", !.todo = Accepted]
  /\ UNCHANGED Others

\* apply_local_image_retention: the working files of embedded artworks go.
Prunable(a) == Valid(a) /\ embedding[a] # NoBytes

Prune(a) ==
  /\ dag.stage = "prune" /\ a \in dag.todo
  /\ processed' = IF Prunable(a) THEN [processed EXCEPT ![a] = NoBytes] ELSE processed
  /\ dag' = [dag EXCEPT !.todo = @ \ {a}]
  /\ UNCHANGED <<post, row, embedding, objectRef, objects, routes, import, reading, mixed>>

RunEnds ==
  /\ dag.stage = "prune" /\ dag.todo = {}
  /\ dag' = NoRunYet
  /\ UNCHANGED Others

\* A task fails after its last retry: nothing it committed is taken back.
RunFails ==
  /\ dag.stage # "idle"
  /\ dag' = NoRunYet
  /\ reading' = Nothing
  /\ import' = [import EXCEPT !["dag"] = NotImporting]
  /\ UNCHANGED <<post, row, processed, embedding, objectRef, objects, routes, mixed>>

\* An import of one process, from the image at hand to its commit.
ImportStep(p) == ImportCheck(p) \/ Standardize(p) \/ ImportCommit(p)

RunStep ==
  \/ StartRun \/ Collected \/ CollectorFails \/ Published \/ EmbedRead \/ EmbedWrite
  \/ PublishRun \/ RunEnds \/ RunFails
  \/ \E a \in Candidate : PublishOne(a) \/ Prune(a)

CorpusNext ==
  \/ \E c \in Candidate : Edit(c) \/ \E p \in Importer : Fetch(p, c)
  \/ \E p \in Importer : ImportStep(p)
  \/ RefreshDies
  \/ RunStep

CorpusSpec == CorpusInit /\ [][CorpusNext]_corpusVars

-----------------------------------------------------------------------------
(* Properties.                                                             *)

CorpusTypeOK ==
  /\ \A c \in Candidate : post[c] \in DOMAIN BytesOf[c]
  /\ row \in [Candidate -> [state : {"none", "invalid", "valid"}, hash : Bytes \union {NoBytes}]]
  /\ processed \in [Candidate -> Bytes \union {NoBytes}]
  /\ embedding \in [Candidate -> Bytes \union {NoBytes}]
  /\ objectRef \in [Candidate -> Bytes \union {NoBytes}]
  /\ objects \subseteq Bytes
  /\ routes \subseteq Candidate \X Candidate
  /\ \A p \in Importer :
       \/ import[p] = NotImporting
       \/ /\ import[p].pc \in {"routed", "checked", "standardized"}
          /\ import[p].candidate \in Candidate /\ import[p].bytes \in Bytes
  /\ dag \in [stage : {"idle", "collect", "publish", "embed", "embedding", "metadata", "prune"},
              decided : SUBSET Candidate, todo : SUBSET Candidate]
  /\ DOMAIN reading \subseteq Candidate
  /\ mixed \subseteq Candidate

\* A validated row tells the truth about its file, whatever import of it died
\* or failed half-way: the file holds the bytes of file_hash, or retention has
\* deleted it.
ValidatedMatchesFile ==
  \A a \in Candidate \ mixed : Valid(a) => processed[a] \in {row[a].hash, NoBytes}

\* The embedding a validated artwork is searched by was computed from the
\* image the row now names, not from one an edit has replaced.
EmbeddingCurrent ==
  \A a \in Candidate \ mixed : Valid(a) => embedding[a] \in {row[a].hash, NoBytes}

\* Retention deletes nothing that is not kept elsewhere: a validated artwork
\* without its file is embedded, and the object store holds its bytes under
\* the reference SQLite keeps.
PrunedIsStored ==
  \A a \in Candidate \ mixed :
    Valid(a) /\ processed[a] = NoBytes =>
      embedding[a] = row[a].hash /\ objectRef[a] = row[a].hash /\ row[a].hash \in objects
=============================================================================
