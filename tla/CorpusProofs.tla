---------------------------- MODULE CorpusProofs ----------------------------
(* Proofs about the corpus in SQLite: its artworks under the steps of the  *)
(* intake, and its direct publication to Qdrant; and about the discovery   *)
(* graph in PostgreSQL that says where its artworks were found.            *)
EXTENDS Corpus, QdrantSync, DiscoveryGraph, FiniteSetTheorems, SequenceTheorems, TLAPS

-----------------------------------------------------------------------------
(***************************************************************************)
(* Proofs about Corpus for any candidates and any versions of their posts. *)
(*                                                                         *)
(* An artwork outside `mixed` is imported by one process at a time, and    *)
(* not at all while a run publishes, embeds or prunes.  So its row, file   *)
(* and embedding change one after the other: the row is invalid while the  *)
(* file is replaced, and what retention deletes is what was published.     *)
(***************************************************************************)
Stage == {"idle", "collect", "publish", "embed", "embedding", "metadata", "prune"}
\* The run's stages after its collector.
Late == Stage \ {"idle", "collect"}
MaybeBytes == Bytes \union {NoBytes}

Types ==
  /\ \A c \in Candidate : post[c] \in DOMAIN BytesOf[c]
  /\ post \in [Candidate -> Nat]
  /\ row \in [Candidate -> [state : {"none", "invalid", "valid"}, hash : MaybeBytes]]
  /\ processed \in [Candidate -> MaybeBytes]
  /\ embedding \in [Candidate -> MaybeBytes]
  /\ objectRef \in [Candidate -> MaybeBytes]
  /\ objects \subseteq Bytes
  /\ routes \subseteq Candidate \X Candidate
  /\ import \in [Importer -> [pc : {"routed", "checked", "standardized"}, candidate : Candidate,
                              bytes : Bytes] \union {NotImporting}]
  /\ dag \in [stage : Stage, decided : SUBSET Candidate, todo : SUBSET Candidate]
  /\ DOMAIN reading \subseteq Candidate /\ \A a \in DOMAIN reading : reading[a] \in Bytes
  /\ mixed \subseteq Candidate

(* The collector imports only while the run collects.                      *)
DagImportsCollect == import["dag"].pc # "idle" => dag.stage = "collect"

(* What a refresh has under its hands during a run is mixed.               *)
RunsMixRefreshed == dag.stage # "idle" => Refreshing \subseteq mixed

(* The embedding pass holds files only between its two steps, of rows that *)
(* do not change meanwhile.                                                *)
ReadingCurrent ==
  \A a \in DOMAIN reading :
    /\ dag.stage = "embedding" /\ row[a].state # "none"
    /\ a \notin mixed => Valid(a) /\ reading[a] = row[a].hash

(* A row that was never written has no embedding.                          *)
UnmadeHasNone == \A a \in Candidate : row[a].state = "none" => embedding[a] = NoBytes

(* From its check to its commit an import finds the row invalid and        *)
(* without an embedding, and in the end the file with its bytes.           *)
ImportingIsInvalid ==
  \A p \in Importer : import[p].pc \in {"checked", "standardized"} =>
    LET c == import[p].candidate IN
    c \notin mixed => /\ ~Valid(c) /\ embedding[c] = NoBytes
                      /\ import[p].pc = "standardized" => processed[c] = import[p].bytes

\* The object store has what the row names.
Kept(a) == objectRef[a] = row[a].hash /\ row[a].hash \in objects

(* After the publication task every accepted artwork is kept.              *)
RunKeeps ==
  dag.stage \in Late =>
    \A a \in Accepted \ mixed :
      Valid(a) => Kept(a) \/ (dag.stage = "publish" /\ a \in dag.todo)
PrunesAccepted == dag.stage = "prune" => dag.todo \subseteq Accepted

(* The inductive invariant.                                                *)
CorpusInv ==
  /\ Types
  /\ DagImportsCollect /\ RunsMixRefreshed
  /\ ReadingCurrent /\ UnmadeHasNone /\ ImportingIsInvalid
  /\ RunKeeps /\ PrunesAccepted
  /\ ValidatedMatchesFile /\ EmbeddingCurrent /\ PrunedIsStored

-----------------------------------------------------------------------------
(* What the posts offer are bytes.                                         *)
LEMMA OfferIsBytes ==
  ASSUME NEW c \in Candidate, NEW k \in DOMAIN BytesOf[c]
  PROVE  BytesOf[c][k] \in Bytes
  BY CorpusAssumption

(* The initial states satisfy the inductive invariant.                     *)
LEMMA InitCorpusInv == CorpusInit => CorpusInv
<1> SUFFICES ASSUME CorpusInit PROVE CorpusInv
  OBVIOUS
<1> USE DEF CorpusInit
<1>1. \A c \in Candidate : 1 \in DOMAIN BytesOf[c]
  BY CorpusAssumption
<1>2. Types
  BY <1>1 DEF Types, NoRow, MaybeBytes, NotImporting, NoRunYet, Stage, Nothing, Importer
<1>3. DagImportsCollect /\ RunsMixRefreshed /\ ImportingIsInvalid
  BY DEF DagImportsCollect, RunsMixRefreshed, ImportingIsInvalid, NotImporting, NoRunYet, Importer
<1>4. ReadingCurrent /\ UnmadeHasNone
  BY DEF ReadingCurrent, UnmadeHasNone, Nothing
<1>5. RunKeeps /\ PrunesAccepted
  BY DEF RunKeeps, PrunesAccepted, NoRunYet, Late
<1>6. ValidatedMatchesFile /\ EmbeddingCurrent /\ PrunedIsStored
  BY DEF ValidatedMatchesFile, EmbeddingCurrent, PrunedIsStored, Valid, NoRow
<1> QED
  BY <1>2, <1>3, <1>4, <1>5, <1>6 DEF CorpusInv

(* Who imports an artwork that is not mixed is alone, and no run is past   *)
(* its collector.                                                          *)
LEMMA Alone ==
  ASSUME CorpusInv, NEW p \in Importer, import[p].pc # "idle", import[p].candidate \notin mixed
  PROVE  /\ dag.stage \notin Late
         /\ \A q \in Importer : q # p => \/ import[q].pc = "idle"
                                         \/ import[q].candidate # import[p].candidate
         /\ DOMAIN reading = {}
<1> USE DEF CorpusInv
<1>1. import[p].candidate \in Candidate
  BY DEF Types, NotImporting
<1>2. CASE p = "dag"
  <2>1. dag.stage = "collect"
    BY <1>2 DEF DagImportsCollect
  <2>2. import[p].candidate \notin Refreshing
    BY <2>1 DEF RunsMixRefreshed
  <2> QED
    BY <1>1, <1>2, <2>1, <2>2 DEF Refreshing, Late, ReadingCurrent, Importer
<1>3. CASE p = "refresh"
  <2>1. import[p].candidate \in Refreshing
    BY <1>1, <1>3 DEF Refreshing
  <2>2. dag.stage = "idle"
    BY <2>1 DEF RunsMixRefreshed
  <2>3. import["dag"].pc = "idle"
    BY <2>2 DEF DagImportsCollect
  <2> QED
    BY <1>3, <2>2, <2>3 DEF Late, ReadingCurrent, Importer
<1> QED
  BY <1>2, <1>3 DEF Importer

-----------------------------------------------------------------------------
(* Steps that leave the artworks alone.                                    *)

(* A post is edited.                                                       *)
LEMMA EditStep ==
  ASSUME CorpusInv, NEW c \in Candidate, Edit(c)
  PROVE  CorpusInv'
<1> USE DEF CorpusInv, Edit
<1>1. post' \in [Candidate -> Nat] /\ \A d \in Candidate : post'[d] \in DOMAIN BytesOf[d]
  BY CorpusAssumption DEF Types
<1>2. Types'
  BY <1>1 DEF Types
<1>3. DagImportsCollect' /\ RunsMixRefreshed' /\ ReadingCurrent' /\ UnmadeHasNone'
      /\ ImportingIsInvalid'
  BY DEF DagImportsCollect, RunsMixRefreshed, ReadingCurrent, UnmadeHasNone, ImportingIsInvalid,
         Refreshing, Valid
<1>4. RunKeeps' /\ PrunesAccepted'
  BY DEF RunKeeps, PrunesAccepted, Accepted, Kept, Valid
<1>5. ValidatedMatchesFile' /\ EmbeddingCurrent' /\ PrunedIsStored'
  BY DEF ValidatedMatchesFile, EmbeddingCurrent, PrunedIsStored, Valid
<1> QED
  BY <1>2, <1>3, <1>4, <1>5

(* A candidate is fetched and routed.                                      *)
LEMMA FetchStep ==
  ASSUME CorpusInv, NEW p \in Importer, NEW c \in Candidate, Fetch(p, c)
  PROVE  CorpusInv'
<1> USE DEF CorpusInv
<1>1. /\ UNCHANGED <<post, row, processed, embedding, objectRef, objects, routes, reading>>
      /\ import[p].pc = "idle" /\ dag'.stage = dag.stage /\ dag'.todo = dag.todo
      /\ mixed \subseteq mixed' /\ mixed' \subseteq Candidate
      /\ p = "refresh" /\ dag.stage # "idle" => c \in mixed'
      /\ p = "dag" => dag.stage = "collect"
      /\ p # "dag" => dag' = dag
  BY DEF Fetch, Types
<1>2. BytesOf[c][post[c]] \in Bytes
  BY OfferIsBytes DEF Types
<1>3. /\ \A q \in Importer : q # p => import'[q] = import[q]
      /\ import'[p].pc \in {"idle", "routed"}
      /\ import'[p].pc = "routed" => import'[p].candidate = c
      /\ import' \in [Importer -> [pc : {"routed", "checked", "standardized"}, candidate : Candidate,
                                   bytes : Bytes] \union {NotImporting}]
  BY <1>1, <1>2 DEF Fetch, Types
<1>4. dag' \in [stage : Stage, decided : SUBSET Candidate, todo : SUBSET Candidate]
  BY DEF Fetch, Types
<1>5. Types'
  BY <1>1, <1>3, <1>4 DEF Types
<1>6. DagImportsCollect'
  BY <1>1, <1>3 DEF DagImportsCollect, Importer
<1>7. RunsMixRefreshed'
  BY <1>1, <1>3 DEF RunsMixRefreshed, Refreshing, Importer
<1>8. ReadingCurrent' /\ UnmadeHasNone' /\ ImportingIsInvalid'
  BY <1>1, <1>3 DEF ReadingCurrent, UnmadeHasNone, ImportingIsInvalid, Valid
<1>9. RunKeeps' /\ PrunesAccepted'
  BY <1>1 DEF RunKeeps, PrunesAccepted, Accepted, Kept, Valid, Late, Importer
<1>10. ValidatedMatchesFile' /\ EmbeddingCurrent' /\ PrunedIsStored'
  BY <1>1 DEF ValidatedMatchesFile, EmbeddingCurrent, PrunedIsStored, Valid
<1> QED
  BY <1>5, <1>6, <1>7, <1>8, <1>9, <1>10

(* The run goes from task to task, or an importer stops: no artwork        *)
(* changes.                                                                *)
LEMMA RunMoves ==
  ASSUME CorpusInv,
         UNCHANGED <<post, row, processed, embedding, objectRef, objects, routes>>,
         mixed \subseteq mixed', mixed' \subseteq Candidate,
         Types', DagImportsCollect', RunsMixRefreshed', RunKeeps', PrunesAccepted',
         \A p \in Importer : import'[p] \in {import[p], NotImporting},
         \/ DOMAIN reading' = {}
         \/ reading' = reading /\ dag'.stage = dag.stage
  PROVE  CorpusInv'
<1> USE DEF CorpusInv
<1>1. ReadingCurrent' /\ UnmadeHasNone'
  BY DEF ReadingCurrent, UnmadeHasNone, Valid
<1>2. ImportingIsInvalid'
  BY DEF ImportingIsInvalid, Valid, NotImporting
<1>3. ValidatedMatchesFile' /\ EmbeddingCurrent' /\ PrunedIsStored'
  BY DEF ValidatedMatchesFile, EmbeddingCurrent, PrunedIsStored, Valid
<1> QED
  BY <1>1, <1>2, <1>3

(* The run's own moves.                                                    *)
LEMMA StageStep ==
  ASSUME CorpusInv,
         \/ StartRun \/ Collected \/ CollectorFails \/ RefreshDies \/ Published \/ PublishRun
         \/ RunEnds \/ RunFails
  PROVE  CorpusInv'
<1> USE DEF CorpusInv
<1>1. CASE StartRun
  <2>1. Types'
    BY <1>1 DEF StartRun, Types, NoRunYet, Stage, Refreshing
  <2>2. DagImportsCollect' /\ RunsMixRefreshed' /\ RunKeeps' /\ PrunesAccepted'
    BY <1>1 DEF StartRun, DagImportsCollect, RunsMixRefreshed, RunKeeps, PrunesAccepted,
                NoRunYet, Refreshing, Late
  <2>3. DOMAIN reading' = {}
    BY <1>1 DEF StartRun, ReadingCurrent
  <2> QED
    BY <1>1, <2>1, <2>2, <2>3, RunMoves DEF StartRun, Types
<1>2. CASE Collected
  <2>1. Types'
    BY <1>2 DEF Collected, Others, Types, Stage, Accepted
  <2>2. DagImportsCollect' /\ RunsMixRefreshed'
    BY <1>2 DEF Collected, Others, DagImportsCollect, RunsMixRefreshed, Refreshing, Types
  <2>3. RunKeeps' /\ PrunesAccepted'
    BY <1>2 DEF Collected, Others, RunKeeps, PrunesAccepted, Accepted, Valid, Types
  <2>4. DOMAIN reading' = {}
    BY <1>2 DEF Collected, Others, ReadingCurrent
  <2> QED
    BY <1>2, <2>1, <2>2, <2>3, <2>4, RunMoves DEF Collected, Others, Types
<1>3. CASE CollectorFails
  <2>1. Types'
    BY <1>3 DEF CollectorFails, Types, NoRunYet, Stage, Importer
  <2>2. DagImportsCollect' /\ RunsMixRefreshed' /\ RunKeeps' /\ PrunesAccepted'
    BY <1>3 DEF CollectorFails, DagImportsCollect, RunsMixRefreshed, RunKeeps, PrunesAccepted,
                NoRunYet, Refreshing, Late, Types, Importer
  <2>3. DOMAIN reading' = {}
    BY <1>3 DEF CollectorFails, ReadingCurrent
  <2> QED
    BY <1>3, <2>1, <2>2, <2>3, RunMoves DEF CollectorFails, Types
<1>4. CASE RefreshDies
  <2>1. Types'
    BY <1>4 DEF RefreshDies, Types
  <2>2. DagImportsCollect' /\ RunsMixRefreshed'
    BY <1>4 DEF RefreshDies, DagImportsCollect, RunsMixRefreshed, Refreshing, Types, NotImporting,
                Importer
  <2>3. RunKeeps' /\ PrunesAccepted'
    BY <1>4 DEF RefreshDies, RunKeeps, PrunesAccepted, Accepted, Kept, Valid
  <2> QED
    BY <1>4, <2>1, <2>2, <2>3, RunMoves DEF RefreshDies, Types
<1>5. CASE Published
  <2>1. Types'
    BY <1>5 DEF Published, Others, Types, Stage
  <2>2. DagImportsCollect' /\ RunsMixRefreshed'
    BY <1>5 DEF Published, Others, DagImportsCollect, RunsMixRefreshed, Refreshing, Types
  <2>3. RunKeeps' /\ PrunesAccepted'
    BY <1>5 DEF Published, Others, RunKeeps, PrunesAccepted, Accepted, Kept, Valid, Late, Stage,
                Types
  <2>4. DOMAIN reading' = {}
    BY <1>5 DEF Published, Others, ReadingCurrent
  <2> QED
    BY <1>5, <2>1, <2>2, <2>3, <2>4, RunMoves DEF Published, Others, Types
<1>6. CASE PublishRun
  <2>1. Types'
    BY <1>6 DEF PublishRun, Others, Types, Stage, Accepted
  <2>2. DagImportsCollect' /\ RunsMixRefreshed'
    BY <1>6 DEF PublishRun, Others, DagImportsCollect, RunsMixRefreshed, Refreshing, Types
  <2>3. RunKeeps' /\ PrunesAccepted'
    BY <1>6 DEF PublishRun, Others, RunKeeps, PrunesAccepted, Accepted, Kept, Valid, Late, Stage,
                Types
  <2>4. DOMAIN reading' = {}
    BY <1>6 DEF PublishRun, Others, ReadingCurrent
  <2> QED
    BY <1>6, <2>1, <2>2, <2>3, <2>4, RunMoves DEF PublishRun, Others, Types
<1>7. CASE RunEnds
  <2>1. Types'
    BY <1>7 DEF RunEnds, Others, Types, NoRunYet, Stage
  <2>2. DagImportsCollect' /\ RunsMixRefreshed' /\ RunKeeps' /\ PrunesAccepted'
    BY <1>7 DEF RunEnds, Others, DagImportsCollect, RunsMixRefreshed, RunKeeps, PrunesAccepted,
                NoRunYet, Late
  <2>3. DOMAIN reading' = {}
    BY <1>7 DEF RunEnds, Others, ReadingCurrent
  <2> QED
    BY <1>7, <2>1, <2>2, <2>3, RunMoves DEF RunEnds, Others, Types
<1>8. CASE RunFails
  <2>1. Types'
    BY <1>8 DEF RunFails, Types, NoRunYet, Stage, Nothing, Importer
  <2>2. DagImportsCollect' /\ RunsMixRefreshed' /\ RunKeeps' /\ PrunesAccepted'
    BY <1>8 DEF RunFails, DagImportsCollect, RunsMixRefreshed, RunKeeps, PrunesAccepted, NoRunYet,
                Late, Types, NotImporting, Importer
  <2> QED
    BY <1>8, <2>1, <2>2, RunMoves DEF RunFails, Nothing, Types
<1> QED
  BY <1>1, <1>2, <1>3, <1>4, <1>5, <1>6, <1>7, <1>8

-----------------------------------------------------------------------------
(* Publishing, embedding, pruning.                                         *)

(* The object store takes the file of an artwork.                          *)
LEMMA PublishStep ==
  ASSUME CorpusInv, NEW a \in Candidate, PublishOne(a)
  PROVE  CorpusInv'
<1> USE DEF CorpusInv
<1>1. /\ UNCHANGED <<post, row, processed, embedding, routes, import, reading, mixed>>
      /\ dag' = [dag EXCEPT !.todo = @ \ {a}] /\ dag.stage = "publish"
      /\ processed[a] \in Bytes
      /\ objectRef'[a] = processed[a] /\ processed[a] \in objects' /\ objects \subseteq objects'
      /\ objects' \subseteq Bytes
      /\ objectRef' \in [Candidate -> MaybeBytes]
      /\ \A b \in Candidate : b # a => objectRef'[b] = objectRef[b]
  BY DEF PublishOne, AlreadyPublished, Types, MaybeBytes
<1>2. dag'.stage = dag.stage /\ dag'.decided = dag.decided /\ dag'.todo = dag.todo \ {a}
  BY <1>1 DEF Types
<1>3. dag' \in [stage : Stage, decided : SUBSET Candidate, todo : SUBSET Candidate]
  BY <1>1 DEF Types
<1>4. Types'
  BY <1>1, <1>3 DEF Types
<1>5. DagImportsCollect' /\ RunsMixRefreshed' /\ ReadingCurrent' /\ UnmadeHasNone'
      /\ ImportingIsInvalid'
  BY <1>1, <1>2 DEF DagImportsCollect, RunsMixRefreshed, ReadingCurrent, UnmadeHasNone,
                    ImportingIsInvalid, Refreshing, Valid
<1>6. a \notin mixed /\ Valid(a) => Kept(a)'
  BY <1>1, CorpusAssumption DEF ValidatedMatchesFile, Valid, Kept
<1>7. \A b \in Candidate : b # a /\ Kept(b) => Kept(b)'
  BY <1>1 DEF Kept
<1>8. Accepted' = Accepted /\ \A b \in Candidate : Valid(b)' <=> Valid(b)
  BY <1>1, <1>2 DEF Accepted, Valid
<1>9. RunKeeps' /\ PrunesAccepted'
  <2>1. Accepted \subseteq Candidate
    BY DEF Accepted
  <2> QED
    BY <1>1, <1>2, <1>6, <1>7, <1>8, <2>1 DEF RunKeeps, PrunesAccepted
<1>10. ValidatedMatchesFile' /\ EmbeddingCurrent'
  BY <1>1 DEF ValidatedMatchesFile, EmbeddingCurrent, Valid
<1>11. PrunedIsStored'
  BY <1>1, CorpusAssumption DEF PrunedIsStored, Valid
<1> QED
  BY <1>4, <1>5, <1>9, <1>10, <1>11

(* The embedding pass reads the files.                                     *)
LEMMA EmbedReadStep ==
  ASSUME CorpusInv, EmbedRead
  PROVE  CorpusInv'
<1> USE DEF CorpusInv
<1>1. /\ UNCHANGED <<post, row, processed, embedding, objectRef, objects, routes, import, mixed>>
      /\ reading' = [a \in Pending |-> processed[a]] /\ \A a \in Pending : processed[a] # NoBytes
      /\ dag' = [dag EXCEPT !.stage = "embedding"] /\ dag.stage = "embed"
  BY DEF EmbedRead
<1>2. dag'.stage = "embedding" /\ dag'.decided = dag.decided /\ dag'.todo = dag.todo
  BY <1>1 DEF Types
<1>3. \A a \in Pending : a \in Candidate /\ Valid(a) /\ processed[a] \in Bytes
  BY <1>1 DEF Pending, Types, MaybeBytes
<1>4. Types'
  <2>1. dag' \in [stage : Stage, decided : SUBSET Candidate, todo : SUBSET Candidate]
    BY <1>1 DEF Types, Stage
  <2> QED
    BY <1>1, <1>3, <2>1 DEF Types
<1>5. DagImportsCollect' /\ RunsMixRefreshed' /\ UnmadeHasNone' /\ ImportingIsInvalid'
  BY <1>1, <1>2 DEF DagImportsCollect, RunsMixRefreshed, UnmadeHasNone, ImportingIsInvalid,
                    Refreshing, Valid
<1>6. ReadingCurrent'
  BY <1>1, <1>2, <1>3 DEF ReadingCurrent, ValidatedMatchesFile, Valid
<1>7. RunKeeps' /\ PrunesAccepted'
  BY <1>1, <1>2 DEF RunKeeps, PrunesAccepted, Accepted, Kept, Valid, Late, Stage
<1>8. ValidatedMatchesFile' /\ EmbeddingCurrent' /\ PrunedIsStored'
  BY <1>1 DEF ValidatedMatchesFile, EmbeddingCurrent, PrunedIsStored, Valid
<1> QED
  BY <1>4, <1>5, <1>6, <1>7, <1>8

(* It writes what it computed from them.                                   *)
LEMMA EmbedWriteStep ==
  ASSUME CorpusInv, EmbedWrite
  PROVE  CorpusInv'
<1> USE DEF CorpusInv
<1>1. /\ UNCHANGED <<post, row, processed, objectRef, objects, routes, import, mixed>>
      /\ embedding' = [a \in Candidate |-> IF a \in DOMAIN reading THEN reading[a]
                                           ELSE embedding[a]]
      /\ DOMAIN reading' = {}
      /\ dag' = [dag EXCEPT !.stage = "metadata"] /\ dag.stage = "embedding"
  BY DEF EmbedWrite, Nothing
<1>2. dag'.stage = "metadata" /\ dag'.decided = dag.decided /\ dag'.todo = dag.todo
  BY <1>1 DEF Types
<1>3. Types'
  <2>1. dag' \in [stage : Stage, decided : SUBSET Candidate, todo : SUBSET Candidate]
    BY <1>1 DEF Types, Stage
  <2>2. embedding' \in [Candidate -> MaybeBytes]
    BY <1>1 DEF Types, MaybeBytes
  <2> QED
    BY <1>1, <2>1, <2>2 DEF Types
<1>4. DagImportsCollect' /\ RunsMixRefreshed' /\ ReadingCurrent'
  BY <1>1, <1>2 DEF DagImportsCollect, RunsMixRefreshed, ReadingCurrent, Refreshing
<1>5. UnmadeHasNone'
  BY <1>1 DEF UnmadeHasNone, ReadingCurrent
<1>6. ImportingIsInvalid'
  BY <1>1 DEF ImportingIsInvalid, ReadingCurrent, Valid, Types, NotImporting
<1>7. RunKeeps' /\ PrunesAccepted'
  BY <1>1, <1>2 DEF RunKeeps, PrunesAccepted, Accepted, Kept, Valid, Late, Stage
<1>8. ValidatedMatchesFile' /\ EmbeddingCurrent' /\ PrunedIsStored'
  BY <1>1 DEF ValidatedMatchesFile, EmbeddingCurrent, PrunedIsStored, ReadingCurrent, Valid
<1> QED
  BY <1>3, <1>4, <1>5, <1>6, <1>7, <1>8

(* Retention deletes the file of an embedded artwork.                      *)
LEMMA PruneStep ==
  ASSUME CorpusInv, NEW a \in Candidate, Prune(a)
  PROVE  CorpusInv'
<1> USE DEF CorpusInv
<1>1. /\ UNCHANGED <<post, row, embedding, objectRef, objects, routes, import, reading, mixed>>
      /\ processed' = IF Prunable(a) THEN [processed EXCEPT ![a] = NoBytes] ELSE processed
      /\ dag' = [dag EXCEPT !.todo = @ \ {a}] /\ dag.stage = "prune" /\ a \in dag.todo
  BY DEF Prune
<1>2. dag'.stage = dag.stage /\ dag'.decided = dag.decided /\ dag'.todo = dag.todo \ {a}
  BY <1>1 DEF Types
<1>3. Types'
  <2>1. dag' \in [stage : Stage, decided : SUBSET Candidate, todo : SUBSET Candidate]
    BY <1>1 DEF Types
  <2> QED
    BY <1>1, <2>1 DEF Types, MaybeBytes
<1>4. DagImportsCollect' /\ RunsMixRefreshed' /\ ReadingCurrent' /\ UnmadeHasNone'
  BY <1>1, <1>2 DEF DagImportsCollect, RunsMixRefreshed, ReadingCurrent, UnmadeHasNone,
                    Refreshing, Valid
<1>5. ImportingIsInvalid'
  BY <1>1 DEF ImportingIsInvalid, Valid, Prunable, Types
<1>6. RunKeeps' /\ PrunesAccepted'
  BY <1>1, <1>2 DEF RunKeeps, PrunesAccepted, Accepted, Kept, Valid
<1>7. ValidatedMatchesFile' /\ EmbeddingCurrent'
  BY <1>1 DEF ValidatedMatchesFile, EmbeddingCurrent, Valid, Types
<1>8. PrunedIsStored'
  <2>1. a \notin mixed /\ Prunable(a) => Kept(a) /\ embedding[a] = row[a].hash
    <3>1. a \in Accepted
      BY <1>1 DEF PrunesAccepted
    <3> QED
      BY <1>1, <3>1 DEF RunKeeps, EmbeddingCurrent, Prunable, Late, Stage
  <2> QED
    BY <1>1, <2>1 DEF PrunedIsStored, Kept, Valid, Types
<1> QED
  BY <1>3, <1>4, <1>5, <1>6, <1>7, <1>8

-----------------------------------------------------------------------------
(* Importing.                                                              *)

(* An import ends with a route and nothing else.                           *)
LEMMA RouteOnly ==
  ASSUME CorpusInv, NEW p \in Importer, NEW c \in Candidate, NEW a \in Candidate,
         import[p].pc # "idle", import[p].candidate = c,
         a = c \/ mixed' = IF p = "refresh" /\ dag.stage # "idle" THEN mixed \union {a} ELSE mixed,
         a = c => mixed' = mixed,
         routes' = routes \union {<<c, a>>},
         import' = [import EXCEPT ![p] = NotImporting],
         UNCHANGED <<post, row, processed, embedding, objectRef, objects, dag, reading>>
  PROVE  CorpusInv'
<1> USE DEF CorpusInv
<1>1. mixed \subseteq mixed' /\ mixed' \subseteq Candidate
  BY DEF Types
<1>2. Types'
  BY <1>1 DEF Types
<1>3. /\ \A q \in Importer : q # p => import'[q] = import[q]
      /\ import'[p] = NotImporting
  BY DEF Types
<1>4. DagImportsCollect' /\ RunsMixRefreshed'
  BY <1>1, <1>3 DEF DagImportsCollect, RunsMixRefreshed, Refreshing, NotImporting, Importer
<1>5. ReadingCurrent' /\ UnmadeHasNone' /\ ImportingIsInvalid'
  BY <1>1, <1>3 DEF ReadingCurrent, UnmadeHasNone, ImportingIsInvalid, Valid, NotImporting
<1>6. dag.stage \in Late => a \in mixed'
  <2>1. CASE a = c
    BY <2>1, Alone
  <2>2. CASE a # c
    <3>1. dag.stage \in Late => p = "refresh" /\ dag.stage # "idle"
      BY DEF DagImportsCollect, Late, Importer
    <3> QED
      BY <2>2, <3>1
  <2> QED
    BY <2>1, <2>2
<1>7. RunKeeps'
  <2> SUFFICES ASSUME dag.stage \in Late, NEW b \in Accepted' \ mixed', Valid(b)
               PROVE  Kept(b) \/ (dag.stage = "publish" /\ b \in dag.todo)
    BY DEF RunKeeps, Valid, Kept
  <2>1. b # a
    BY <1>6
  <2>2. b \in Accepted
    BY <2>1 DEF Accepted
  <2> QED
    BY <1>1, <2>2 DEF RunKeeps
<1>8. PrunesAccepted'
  BY DEF PrunesAccepted, Accepted
<1>9. ValidatedMatchesFile' /\ EmbeddingCurrent' /\ PrunedIsStored'
  BY <1>1 DEF ValidatedMatchesFile, EmbeddingCurrent, PrunedIsStored, Valid
<1> QED
  BY <1>2, <1>4, <1>5, <1>7, <1>8, <1>9

(* An import goes from one of its steps to the next: its artwork is the    *)
(* only one that changes, and is mixed or not valid until the commit.      *)
LEMMA ImportMoves ==
  ASSUME CorpusInv, Types', NEW p \in Importer, NEW c \in Candidate,
         import[p].pc # "idle", import[p].candidate = c,
         UNCHANGED <<post, objectRef, objects, dag, reading, mixed>>,
         \A q \in Importer \ {p} : import'[q] = import[q],
         import'[p].pc # "idle" => import'[p].candidate = c,
         \A b \in Candidate \ {c} : /\ row'[b] = row[b] /\ embedding'[b] = embedding[b]
                                    /\ processed'[b] = processed[b],
         row'[c].state = "none" => row[c].state = "none" /\ embedding'[c] = embedding[c],
         routes' \in {routes, routes \union {<<c, c>>}},
         c \notin mixed =>
           /\ import'[p].pc \in {"checked", "standardized"} =>
                /\ ~Valid(c)' /\ embedding'[c] = NoBytes
                /\ import'[p].pc = "standardized" => processed'[c] = import'[p].bytes
           /\ Valid(c)' => processed'[c] = row'[c].hash /\ row'[c].hash # NoBytes
                           /\ embedding'[c] = NoBytes
  PROVE  CorpusInv'
<1> USE DEF CorpusInv
<1>1. DagImportsCollect' /\ RunsMixRefreshed'
  BY DEF DagImportsCollect, RunsMixRefreshed, Refreshing, Importer
<1>2. c \notin mixed =>
        /\ dag.stage \notin Late /\ DOMAIN reading = {}
        /\ \A q \in Importer \ {p} : import[q].pc = "idle" \/ import[q].candidate # c
  BY Alone
<1>3. UnmadeHasNone'
  BY DEF UnmadeHasNone
<1>4. ReadingCurrent'
  <2> SUFFICES ASSUME NEW a \in DOMAIN reading
               PROVE  /\ dag.stage = "embedding" /\ row'[a].state # "none"
                      /\ a \notin mixed => Valid(a)' /\ reading[a] = row'[a].hash
    BY DEF ReadingCurrent
  <2>1. a \in Candidate /\ dag.stage = "embedding" /\ row[a].state # "none"
    BY DEF Types, ReadingCurrent
  <2>2. row'[a].state # "none"
    BY <2>1
  <2>3. a \notin mixed => a # c
    BY <1>2
  <2> QED
    BY <2>1, <2>2, <2>3 DEF ReadingCurrent, Valid
<1>5. ImportingIsInvalid'
  <2>1. ASSUME NEW q \in Importer, import'[q].pc \in {"checked", "standardized"},
               import'[q].candidate \notin mixed
        PROVE  /\ ~Valid(import[q].candidate)' /\ embedding'[import'[q].candidate] = NoBytes
               /\ import'[q].pc = "standardized"
                    => processed'[import'[q].candidate] = import'[q].bytes
               /\ import'[q].candidate = import[q].candidate
    <3>1. CASE q = p
      <4>1. import'[p].candidate = c /\ c \notin mixed
        BY <2>1, <3>1
      <4>2. ~Valid(c)' /\ embedding'[c] = NoBytes
        BY <2>1, <3>1, <4>1
      <4>3. import'[p].pc = "standardized" => processed'[c] = import'[p].bytes
        BY <2>1, <3>1, <4>1
      <4> QED
        BY <3>1, <4>1, <4>2, <4>3 DEF Valid
    <3>2. CASE q # p
      <4>1. import'[q] = import[q]
        BY <3>2
      <4>2. import[q].candidate \in Candidate
        BY <2>1, <4>1 DEF Types, NotImporting
      <4>3. import[q].candidate # c
        BY <1>2, <2>1, <3>2, <4>1
      <4>4. /\ ~Valid(import[q].candidate) /\ embedding[import[q].candidate] = NoBytes
            /\ import[q].pc = "standardized" => processed[import[q].candidate] = import[q].bytes
        BY <2>1, <4>1 DEF ImportingIsInvalid
      <4> QED
        BY <4>1, <4>2, <4>3, <4>4 DEF Valid
    <3> QED
      BY <3>1, <3>2
  <2> QED
    BY <2>1 DEF ImportingIsInvalid, Valid
<1>6. RunKeeps'
  <2> SUFFICES ASSUME dag.stage \in Late, NEW b \in Accepted' \ mixed, Valid(b)'
               PROVE  Kept(b)' \/ (dag.stage = "publish" /\ b \in dag.todo)
    BY DEF RunKeeps
  <2>1. b # c /\ b \in Candidate
    BY <1>2 DEF Accepted
  <2>2. b \in Accepted /\ Valid(b)
    BY <2>1 DEF Accepted, Valid
  <2> QED
    BY <2>1, <2>2 DEF RunKeeps, Kept
<1>7. PrunesAccepted'
  BY DEF PrunesAccepted, Accepted
<1>8. ValidatedMatchesFile'
  BY DEF ValidatedMatchesFile, Valid
<1>9. EmbeddingCurrent'
  BY DEF EmbeddingCurrent, Valid
<1>10. PrunedIsStored'
  BY DEF PrunedIsStored, Valid
<1> QED
  BY <1>1, <1>3, <1>4, <1>5, <1>6, <1>7, <1>8, <1>9, <1>10

(* The check, the replacement of the file and the commit are such steps.   *)
LEMMA ImportSteps ==
  ASSUME CorpusInv, NEW p \in Importer, ImportStep(p)
  PROVE  CorpusInv'
<1> DEFINE c == import[p].candidate
           b == import[p].bytes
<1>1. /\ import[p].pc # "idle"
      /\ import[p] \in [pc : {"routed", "checked", "standardized"}, candidate : Candidate,
                        bytes : Bytes]
      /\ c \in Candidate /\ b \in Bytes
  BY DEF ImportStep, ImportCheck, Standardize, ImportCommit, CorpusInv, Types, NotImporting
<1>2. NotImporting.pc = "idle"
  BY DEF NotImporting
<1>3. CASE Standardize(p)
  <2>1. PICK pc \in {"standardized", "idle"} :
          /\ import' = [import EXCEPT ![p] = IF pc = "idle" THEN NotImporting
                                             ELSE [import[p] EXCEPT !.pc = "standardized"]]
          /\ processed' = IF pc = "idle" THEN processed ELSE [processed EXCEPT ![c] = b]
    BY <1>3 DEF Standardize
  <2>2. UNCHANGED <<post, row, embedding, objectRef, objects, routes, dag, reading, mixed>>
        /\ import[p].pc = "checked"
    BY <1>3 DEF Standardize
  <2>3. [import[p] EXCEPT !.pc = "standardized"] \in
          [pc : {"routed", "checked", "standardized"}, candidate : Candidate, bytes : Bytes]
    BY <1>1
  <2>4. Types'
    BY <1>1, <2>1, <2>2, <2>3 DEF CorpusInv, Types, MaybeBytes
  <2>5. /\ \A q \in Importer \ {p} : import'[q] = import[q]
        /\ import'[p] = IF pc = "idle" THEN NotImporting
                        ELSE [import[p] EXCEPT !.pc = "standardized"]
    BY <2>1 DEF CorpusInv, Types
  <2>6. import'[p].pc # "idle" => /\ import'[p].pc = "standardized" /\ import'[p].candidate = c
                                  /\ import'[p].bytes = b /\ processed'[c] = b
    BY <1>1, <1>2, <2>1, <2>5 DEF CorpusInv, Types
  <2>7. c \notin mixed => ~Valid(c) /\ embedding[c] = NoBytes
    BY <2>2 DEF CorpusInv, ImportingIsInvalid
  <2>8. \A d \in Candidate \ {c} : processed'[d] = processed[d]
    BY <2>1 DEF CorpusInv, Types
  <2> HIDE DEF c, b
  <2> QED
    BY <1>1, <2>2, <2>4, <2>5, <2>6, <2>7, <2>8, ImportMoves DEF Valid, c
<1>4. CASE ImportCommit(p)
  <2>1. /\ row' = [row EXCEPT ![c] = [state |-> "valid", hash |-> b]]
        /\ routes' = routes \union {<<c, c>>}
        /\ import' = [import EXCEPT ![p] = NotImporting]
        /\ UNCHANGED <<post, processed, embedding, objectRef, objects, dag, reading, mixed>>
        /\ import[p].pc = "standardized"
    BY <1>4 DEF ImportCommit
  <2>2. Types'
    BY <1>1, <2>1 DEF CorpusInv, Types, MaybeBytes
  <2>3. c \notin mixed => embedding[c] = NoBytes /\ processed[c] = b
    BY <2>1 DEF CorpusInv, ImportingIsInvalid
  <2>4. /\ row'[c] = [state |-> "valid", hash |-> b]
        /\ \A d \in Candidate \ {c} : row'[d] = row[d]
        /\ import'[p] = NotImporting /\ \A q \in Importer \ {p} : import'[q] = import[q]
    BY <1>1, <2>1 DEF CorpusInv, Types
  <2>5. b # NoBytes
    BY <1>1, CorpusAssumption
  <2> HIDE DEF c, b
  <2> QED
    BY <1>1, <1>2, <2>1, <2>2, <2>3, <2>4, <2>5, ImportMoves DEF c
<1>5. CASE ImportCheck(p) /\ import'[p].pc = "checked"
  <2>1. /\ import[p].pc = "routed"
        /\ import' = [import EXCEPT ![p].pc = "checked"]
        /\ row' = [row EXCEPT ![c] = IF @.state = "none" THEN @ ELSE Invalidated(@)]
        /\ embedding' = [embedding EXCEPT ![c] = IF row[c].state = "none" THEN @
                                                 ELSE EmbeddingDropped(@)]
        /\ UNCHANGED <<post, processed, objectRef, objects, routes, dag, reading, mixed>>
    BY <1>1, <1>5 DEF ImportCheck, NotImporting, CorpusInv, Types
  <2>2. import'[p] = [import[p] EXCEPT !.pc = "checked"]
        /\ \A q \in Importer \ {p} : import'[q] = import[q]
    BY <2>1 DEF CorpusInv, Types
  <2>3. [import[p] EXCEPT !.pc = "checked"] \in
          [pc : {"routed", "checked", "standardized"}, candidate : Candidate, bytes : Bytes]
        /\ import'[p].candidate = c
    BY <1>1, <2>2
  <2>4. import' \in [Importer -> [pc : {"routed", "checked", "standardized"},
                                  candidate : Candidate, bytes : Bytes] \union {NotImporting}]
    BY <2>1, <2>3 DEF CorpusInv, Types
  <2>5. /\ Invalidated(row[c]) \in [state : {"none", "invalid", "valid"}, hash : MaybeBytes]
        /\ Invalidated(row[c]).state = "invalid"
    BY <1>1 DEF CorpusInv, Types, Invalidated
  <2>6. /\ row'[c] = IF row[c].state = "none" THEN row[c] ELSE Invalidated(row[c])
        /\ \A d \in Candidate \ {c} : row'[d] = row[d]
        /\ row' \in [Candidate -> [state : {"none", "invalid", "valid"}, hash : MaybeBytes]]
    BY <1>1, <2>1, <2>5 DEF CorpusInv, Types
  <2>7. /\ embedding'[c] = NoBytes
        /\ \A d \in Candidate \ {c} : embedding'[d] = embedding[d]
        /\ embedding' \in [Candidate -> MaybeBytes]
    BY <1>1, <2>1 DEF CorpusInv, Types, UnmadeHasNone, EmbeddingDropped, MaybeBytes
  <2>8. Types'
    BY <2>1, <2>4, <2>6, <2>7 DEF CorpusInv, Types
  <2>9. row'[c].state # "valid"
    BY <2>5, <2>6
  <2>10. row'[c].state = "none" => row[c].state = "none" /\ embedding'[c] = embedding[c]
    BY <1>1, <2>5, <2>6, <2>7 DEF CorpusInv, UnmadeHasNone
  <2>11. import'[p].pc = "checked"
    BY <1>5
  <2>12. import[p].pc # "idle" /\ c \in Candidate
    BY <1>1, <2>1
  <2> HIDE DEF b
  <2>13. PICK k \in Candidate : k = c
    BY <2>12
  <2>14. /\ import[p].candidate = k /\ import'[p].candidate = k
         /\ UNCHANGED <<post, objectRef, objects, dag, reading, mixed>>
         /\ \A d \in Candidate \ {k} : /\ row'[d] = row[d] /\ embedding'[d] = embedding[d]
                                       /\ processed'[d] = processed[d]
         /\ row'[k].state = "none" => row[k].state = "none" /\ embedding'[k] = embedding[k]
         /\ routes' \in {routes, routes \union {<<k, k>>}}
    BY <2>1, <2>3, <2>6, <2>7, <2>10, <2>13
  <2>15. k \notin mixed =>
           /\ import'[p].pc \in {"checked", "standardized"} =>
                /\ ~Valid(k)' /\ embedding'[k] = NoBytes
                /\ import'[p].pc = "standardized" => processed'[k] = import'[p].bytes
           /\ Valid(k)' => processed'[k] = row'[k].hash /\ row'[k].hash # NoBytes
                           /\ embedding'[k] = NoBytes
    BY <2>7, <2>9, <2>11, <2>13 DEF Valid
  <2> HIDE DEF c
  <2> QED
    BY <1>1, <2>2, <2>8, <2>12, <2>14, <2>15, ImportMoves
<1>6. CASE ImportCheck(p) /\ import'[p].pc # "checked"
  <2>1. /\ import' = [import EXCEPT ![p] = NotImporting]
        /\ UNCHANGED <<post, row, processed, embedding, objectRef, objects, dag, reading>>
        /\ \/ routes' = routes \union {<<c, c>>} /\ mixed' = mixed
           \/ \E a \in Duplicates(c, b) :
                /\ routes' = routes \union {<<c, a>>}
                /\ mixed' = IF p = "refresh" /\ dag.stage # "idle" THEN mixed \union {a} ELSE mixed
    BY <1>1, <1>6 DEF ImportCheck, CorpusInv, Types
  <2>2. CASE routes' = routes \union {<<c, c>>} /\ mixed' = mixed
    BY <1>1, <2>1, <2>2, RouteOnly
  <2>3. ASSUME NEW a \in Duplicates(c, b), routes' = routes \union {<<c, a>>},
               mixed' = IF p = "refresh" /\ dag.stage # "idle" THEN mixed \union {a} ELSE mixed
        PROVE  CorpusInv'
    <3>1. a \in Candidate /\ a # c
      BY DEF Duplicates
    <3> QED
      BY <1>1, <2>1, <2>3, <3>1, RouteOnly
  <2> QED
    BY <2>1, <2>2, <2>3
<1> QED
  BY <1>3, <1>4, <1>5, <1>6 DEF ImportStep

-----------------------------------------------------------------------------
(* The invariant holds in every reachable state.                           *)
LEMMA CorpusInvariant == CorpusSpec => []CorpusInv
<1>1. CorpusInv /\ [CorpusNext]_corpusVars => CorpusInv'
  <2> SUFFICES ASSUME CorpusInv, [CorpusNext]_corpusVars PROVE CorpusInv'
    OBVIOUS
  <2>1. CASE UNCHANGED corpusVars
    BY <2>1 DEF corpusVars, CorpusInv, Types, DagImportsCollect, RunsMixRefreshed, ReadingCurrent,
                UnmadeHasNone, ImportingIsInvalid, RunKeeps, PrunesAccepted, ValidatedMatchesFile,
                EmbeddingCurrent, PrunedIsStored, Refreshing, Accepted, Kept, Valid
  <2>2. ASSUME NEW c \in Candidate, Edit(c) \/ \E p \in Importer : Fetch(p, c) PROVE CorpusInv'
    BY <2>2, EditStep, FetchStep
  <2>3. ASSUME NEW p \in Importer, ImportStep(p) PROVE CorpusInv'
    BY <2>3, ImportSteps
  <2>4. CASE RefreshDies \/ RunStep
    BY <2>4, StageStep, EmbedReadStep, EmbedWriteStep, PublishStep, PruneStep DEF RunStep
  <2> QED
    BY <2>1, <2>2, <2>3, <2>4 DEF CorpusNext
<1> QED
  BY InitCorpusInv, <1>1, PTL DEF CorpusSpec

-----------------------------------------------------------------------------
(* Rows, files, embeddings and references keep their types (artworks,      *)
(* embeddings, artwork_objects, artwork_filter_routes).                    *)
THEOREM CorpusTypeCorrect == CorpusSpec => []CorpusTypeOK
<1>1. CorpusInv => CorpusTypeOK
  BY DEF CorpusInv, Types, CorpusTypeOK, MaybeBytes, Stage
<1> QED
  BY CorpusInvariant, <1>1, PTL

(* A validated row names the bytes of its file, through every import that  *)
(* dies between its commits (_import_accepted).                            *)
THEOREM ValidatedTrue == CorpusSpec => []ValidatedMatchesFile
  BY CorpusInvariant, PTL DEF CorpusInv

(* An edited artwork is never searched by the embedding of the image it    *)
(* had (_import_accepted, store_embeddings).                               *)
THEOREM EmbeddingTrue == CorpusSpec => []EmbeddingCurrent
  BY CorpusInvariant, PTL DEF CorpusInv

(* Retention deletes only what the object store has, under the reference   *)
(* SQLite keeps (apply_local_image_retention, _publish_row).               *)
THEOREM PrunedKept == CorpusSpec => []PrunedIsStored
  BY CorpusInvariant, PTL DEF CorpusInv

-----------------------------------------------------------------------------
(***************************************************************************)
(* Proofs about QdrantSync for any finite corpus, any contents and any     *)
(* number of syncs, failures and losses of the collection.                 *)
(*                                                                         *)
(* Point by point a sync knows what is in the collection, but for the      *)
(* artworks it is not sure of (PointsSound). That nothing is published     *)
(* besides what it read follows from the counts, or from the records that  *)
(* its pruning went through.                                               *)
(***************************************************************************)
Starting == [at : {"clearing", "counting"}, force : BOOLEAN, prune : BOOLEAN, promote : BOOLEAN,
             alone : BOOLEAN]
Running == [at : {"upserting", "recording", "forgetting", "verifying"}, prune : BOOLEAN,
            promote : BOOLEAN, alone : BOOLEAN, forced : BOOLEAN, read : PointContent,
            known : PointContent, left : SUBSET Work, batch : SUBSET Work, sure : SUBSET Work]
Started(s) == work[s].at # "idle"

SyncTypes ==
  /\ corpus \in PointContent /\ points \in PointContent /\ index \in PointContent
  /\ work \in [Sync -> {Idle} \union Starting \union Running]

\* A sync that is said to be alone is.
AloneMeans == \A s, t \in Sync : s # t /\ Started(s) /\ work[s].alone => ~Started(t)

\* What a sync knows of the collection, point by point.
PointsSound(s) ==
  LET r == work[s]  wanted == Held(r.read) IN
  /\ r.left \subseteq wanted
  /\ r.forced => r.sure = Work
  /\ ~r.forced => \A a \in r.sure \intersect r.left : points[a] = r.known[a]
  /\ \A a \in r.sure \intersect (wanted \ r.left) : points[a] = r.read[a]
  /\ ~r.forced /\ r.at # "verifying" =>
       \A a \in r.sure \ wanted : points[a] = index[a] \/ (r.at = "forgetting" /\ a \in r.batch)
  /\ r.at = "recording" => r.batch \subseteq wanted
  /\ r.at = "forgetting" => /\ r.left = {} /\ r.batch \intersect wanted = {}
                            /\ \A a \in r.batch : points[a] = None
  /\ r.at = "verifying" => r.left = {} /\ \A a \in Work \ wanted : points[a] = None

SyncSound ==
  \A s \in Sync : work[s] \in Running /\ work[s].alone => PointsSound(s)

SyncInv == SyncTypes /\ AloneMeans /\ SyncSound

-----------------------------------------------------------------------------
(* The steps of others.                                                    *)

LEMMA SyncKinds ==
  ASSUME SyncTypes, NEW s \in Sync
  PROVE  /\ work[s].at = "idle" => work[s] = Idle
         /\ work[s].at \in {"clearing", "counting"} => work[s] \in Starting
         /\ work[s].at \in {"upserting", "recording", "forgetting", "verifying"} => work[s] \in Running
         /\ work[s] \in Running => Started(s)
BY DEF SyncTypes, Idle, Starting, Running, Started

\* A step of s leaves every other sync alone as it was, or it was not alone.
LEMMA OnlyOneAlone ==
  ASSUME SyncInv, NEW s \in Sync, Started(s), SyncTypes',
         \A t \in Sync \ {s} : work'[t] = work[t],
         work'[s] \in Running /\ work'[s].alone => work[s].alone /\ PointsSound(s)',
         Started(s)' /\ work'[s].alone => work[s].alone
  PROVE  SyncInv'
<1>1. AloneMeans'
  <2> SUFFICES ASSUME NEW t \in Sync, NEW u \in Sync, t # u, Started(t)', work'[t].alone
               PROVE  ~Started(u)'
    BY DEF AloneMeans
  <2>1. Started(t) /\ work[t].alone
    BY DEF Started
  <2>2. ~Started(u)
    BY <2>1 DEF SyncInv, AloneMeans
  <2> QED
    BY <2>2 DEF Started
<1>2. ASSUME NEW t \in Sync, work'[t] \in Running, work'[t].alone PROVE PointsSound(t)'
  <2>1. CASE t = s
    BY <1>2, <2>1
  <2>2. CASE t # s
    <3>1. work[t] \in Running /\ work[t].alone
      BY <1>2, <2>2
    <3>2. Started(t)
      BY <3>1, SyncKinds DEF SyncInv
    <3> QED
      BY <2>2, <3>1, <3>2 DEF SyncInv, AloneMeans
  <2> QED
    BY <2>1, <2>2
<1> QED
  BY <1>1, <1>2 DEF SyncInv, SyncSound

\* A sync that ends, whatever it wrote.
LEMMA EndKeepsSyncInv ==
  ASSUME SyncInv, NEW s \in Sync, work' = [work EXCEPT ![s] = Idle],
         UNCHANGED <<corpus, points, index>>
  PROVE  SyncInv'
<1>1. \A t \in Sync : (t # s => work'[t] = work[t]) /\ (t = s => work'[t] = Idle)
  BY DEF SyncInv, SyncTypes
<1>2. SyncTypes'
  BY DEF SyncInv, SyncTypes
<1>3. Idle \notin Running /\ Idle.at = "idle"
  BY DEF Idle, Running
<1>4. AloneMeans'
  BY <1>1, <1>3 DEF SyncInv, AloneMeans, Started
<1>5. SyncSound'
  BY <1>1, <1>3 DEF SyncInv, SyncSound, PointsSound, Held
<1> QED
  BY <1>2, <1>4, <1>5 DEF SyncInv

-----------------------------------------------------------------------------
(* The steps of a sync.                                                    *)

LEMMA EnsureStep == ASSUME SyncInv, NEW s \in Sync, Ensure(s) PROVE SyncInv'
<1>1. PICK force \in BOOLEAN, prune \in BOOLEAN, promote \in BOOLEAN :
       work' = [t \in Sync |->
         IF t = s THEN [at |-> IF exists THEN "counting" ELSE "clearing",
                        force |-> force, prune |-> prune, promote |-> promote,
                        alone |-> \A u \in Sync : SyncAt(u, "idle")]
         ELSE IF SyncAt(t, "idle") THEN Idle
         ELSE [work[t] EXCEPT !.alone = FALSE]]
  BY DEF Ensure
<1>2. PICK alone \in BOOLEAN : alone <=> \A u \in Sync : SyncAt(u, "idle")
  OBVIOUS
<1>3. PICK at \in {"clearing", "counting"} : at = IF exists THEN "counting" ELSE "clearing"
  OBVIOUS
<1>4. PICK new : new = [at |-> at, force |-> force, prune |-> prune, promote |-> promote, alone |-> alone]
  OBVIOUS
<1>5. work'[s] = new
  BY <1>1, <1>2, <1>3, <1>4
<1>6. new \in Starting /\ new \notin Running /\ new.at # "idle" /\ (new.alone <=> alone)
  BY <1>3, <1>4 DEF Starting, Running
<1>7. ASSUME NEW t \in Sync, t # s
      PROVE  /\ work'[t] \in {Idle} \union Starting \union Running
             /\ Started(t)' => Started(t) /\ ~work'[t].alone
             /\ work'[t] \in Running => ~work'[t].alone
  <2>1. CASE SyncAt(t, "idle")
    <3>1. work'[t] = Idle
      BY <1>1, <1>7, <2>1
    <3>2. Idle.at = "idle" /\ Idle \notin Running
      BY DEF Idle, Running
    <3> QED
      BY <3>1, <3>2 DEF Started
  <2>2. CASE ~SyncAt(t, "idle")
    <3>1. PICK r : r = work[t]
      OBVIOUS
    <3>2. r \in Starting \union Running
      BY <2>2, <3>1 DEF SyncInv, SyncTypes, SyncAt, Idle
    <3>3. work'[t] = [r EXCEPT !.alone = FALSE]
      BY <1>1, <1>7, <2>2, <3>1
    <3>4. [r EXCEPT !.alone = FALSE] \in Starting \union Running
      BY <3>2 DEF Starting, Running
    <3>5. ~[r EXCEPT !.alone = FALSE].alone
      BY <3>2 DEF Starting, Running
    <3> QED
      BY <2>2, <3>3, <3>4, <3>5 DEF Started, SyncAt
  <2> QED
    BY <2>1, <2>2
<1>8. SyncTypes'
  <2>1. UNCHANGED <<corpus, points, index>>
    BY DEF Ensure
  <2>2. work' = [t \in Sync |-> work'[t]]
    BY <1>1
  <2>3. \A t \in Sync : work'[t] \in {Idle} \union Starting \union Running
    BY <1>5, <1>6, <1>7
  <2> QED
    BY <2>1, <2>2, <2>3 DEF SyncInv, SyncTypes
<1>9. AloneMeans'
  <2> SUFFICES ASSUME NEW t \in Sync, NEW u \in Sync, t # u, Started(t)', work'[t].alone
               PROVE  ~Started(u)'
    BY DEF AloneMeans
  <2>1. t = s
    BY <1>7
  <2>2. \A v \in Sync : SyncAt(v, "idle")
    BY <1>2, <1>5, <1>6, <2>1
  <2> QED
    BY <1>7, <2>1, <2>2 DEF Started, SyncAt
<1>10. SyncSound'
  BY <1>5, <1>6, <1>7 DEF SyncSound
<1> QED
  BY <1>8, <1>9, <1>10 DEF SyncInv

LEMMA ClearStep == ASSUME SyncInv, NEW s \in Sync, ClearState(s) PROVE SyncInv'
<1>1. PICK r : r = work[s]
  OBVIOUS
<1>2. r \in Starting /\ Started(s)
  BY <1>1, SyncKinds DEF SyncInv, ClearState, SyncAt, Started
<1>3. PICK new : new = [r EXCEPT !.at = "counting"]
  OBVIOUS
<1>4. new \in Starting /\ new \notin Running /\ new.alone = r.alone
  BY <1>2, <1>3 DEF Starting, Running
<1>5. work' = [work EXCEPT ![s] = new]
  BY <1>1, <1>3 DEF ClearState, Goto
<1>6. work'[s] = new /\ \A t \in Sync \ {s} : work'[t] = work[t]
  BY <1>5 DEF SyncInv, SyncTypes
<1>7. SyncTypes'
  <2>1. index' \in PointContent
    BY DEF ClearState, Unpublished, PointContent
  <2>2. work' \in [Sync -> {Idle} \union Starting \union Running]
    BY <1>4, <1>5 DEF SyncInv, SyncTypes
  <2> QED
    BY <2>1, <2>2 DEF SyncInv, SyncTypes, ClearState
<1> QED
  BY <1>1, <1>2, <1>4, <1>6, <1>7, OnlyOneAlone

LEMMA OpenStep == ASSUME SyncInv, NEW s \in Sync, OpenSync(s) PROVE SyncInv'
<1>1. PICK r : r = work[s]
  OBVIOUS
<1>2. r \in Starting /\ Started(s)
  BY <1>1, SyncKinds DEF SyncInv, OpenSync, SyncAt, Started
<1>3. PICK forced \in BOOLEAN : forced <=> (r.force \/ Drifted)
  OBVIOUS
<1>4. PICK sure \in SUBSET Work : sure = IF forced THEN Work ELSE {a \in Work : points[a] = index[a]}
  OBVIOUS
<1>5. PICK new : new = [at |-> "upserting", prune |-> r.prune, promote |-> r.promote, alone |-> r.alone,
                        forced |-> forced, read |-> corpus, known |-> index,
                        left |-> Held(corpus), batch |-> {}, sure |-> sure]
  OBVIOUS
<1>6. work' = [work EXCEPT ![s] = new] /\ UNCHANGED <<corpus, points, index>>
  BY <1>1, <1>3, <1>4, <1>5 DEF OpenSync, Forced
<1>7. new \in Running
  <2>1. Held(corpus) \in SUBSET Work
    BY DEF Held
  <2> QED
    BY <1>2, <1>5, <2>1 DEF Starting, Running, SyncInv, SyncTypes
<1>8. work'[s] = new /\ \A t \in Sync \ {s} : work'[t] = work[t]
  BY <1>6 DEF SyncInv, SyncTypes
<1>9. SyncTypes'
  BY <1>6, <1>7 DEF SyncInv, SyncTypes
<1>10. PointsSound(s)'
  BY <1>4, <1>5, <1>6, <1>8 DEF PointsSound, Held
<1>11. new.alone = r.alone
  BY <1>5
<1> QED
  BY <1>1, <1>2, <1>8, <1>9, <1>10, <1>11, OnlyOneAlone

LEMMA UpsertStep == ASSUME SyncInv, NEW s \in Sync, UpsertPoints(s) PROVE SyncInv'
<1>1. PICK r : r = work[s]
  OBVIOUS
<1>2. r \in Running /\ Started(s) /\ r.at = "upserting"
  BY <1>1, SyncKinds DEF SyncInv, UpsertPoints, SyncAt, Started
<1>3. PICK B, pending : /\ B \in SUBSET r.left /\ pending = Changed(s, B)
                        /\ points' = [a \in Work |-> IF a \in pending THEN r.read[a] ELSE points[a]]
                        /\ work' = [work EXCEPT ![s] = [r EXCEPT !.left = r.left \ B, !.batch = pending,
                                      !.at = IF pending = {} THEN "upserting" ELSE "recording"]]
  <2>1. PICK B \in Batches(r.left) :
          LET pending == Changed(s, B)
          IN  /\ points' = [a \in Work |-> IF a \in pending THEN r.read[a] ELSE points[a]]
              /\ work' = [work EXCEPT ![s].left = r.left \ B, ![s].batch = pending,
                                     ![s].at = IF pending = {} THEN "upserting" ELSE "recording"]
    BY <1>1 DEF UpsertPoints
  <2>2. PICK pending : pending = Changed(s, B)
    OBVIOUS
  <2>3. B \in SUBSET r.left
    BY DEF Batches
  <2>4. points' = [a \in Work |-> IF a \in pending THEN r.read[a] ELSE points[a]]
    BY <2>1, <2>2
  <2>5. work' = [work EXCEPT ![s] = [r EXCEPT !.left = r.left \ B, !.batch = pending,
                                    !.at = IF pending = {} THEN "upserting" ELSE "recording"]]
    BY <1>1, <2>1, <2>2
  <2> QED
    BY <2>2, <2>3, <2>4, <2>5
<1>4. pending \subseteq B /\ \A a \in B : a \in pending <=> r.forced \/ r.known[a] # r.read[a]
  BY <1>1, <1>3 DEF Changed
<1>5. PICK at \in {"upserting", "recording"} : at = IF pending = {} THEN "upserting" ELSE "recording"
  OBVIOUS
<1>6. PICK new : new = [r EXCEPT !.left = r.left \ B, !.batch = pending, !.at = at]
  OBVIOUS
<1>7. /\ r.read \in PointContent /\ r.known \in PointContent /\ r.left \in SUBSET Work
      /\ r.sure \in SUBSET Work /\ r.forced \in BOOLEAN
  BY <1>2 DEF Running
<1>8. /\ new \in Running /\ new.left = r.left \ B /\ new.batch = pending /\ new.at = at
      /\ new.read = r.read /\ new.known = r.known /\ new.sure = r.sure
      /\ new.forced = r.forced /\ new.alone = r.alone
  <2>1. pending \in SUBSET Work /\ r.left \ B \in SUBSET Work
    BY <1>3, <1>4, <1>7
  <2> QED
    BY <1>2, <1>5, <1>6, <2>1 DEF Running
<1>9. work' = [work EXCEPT ![s] = new]
  BY <1>3, <1>5, <1>6
<1>10. work'[s] = new /\ \A t \in Sync \ {s} : work'[t] = work[t]
  BY <1>9 DEF SyncInv, SyncTypes
<1>11. SyncTypes'
  <2>1. points' \in PointContent
    BY <1>3, <1>7 DEF SyncInv, SyncTypes, PointContent
  <2>2. UNCHANGED <<corpus, index>>
    BY DEF UpsertPoints
  <2>3. work' \in [Sync -> {Idle} \union Starting \union Running]
    BY <1>8, <1>9 DEF SyncInv, SyncTypes
  <2> QED
    BY <2>1, <2>2, <2>3 DEF SyncInv, SyncTypes
<1>12. ASSUME r.alone PROVE PointsSound(s)'
  <2>1. PointsSound(s)
    BY <1>1, <1>2, <1>12 DEF SyncInv, SyncSound
  <2>2. PICK wanted : wanted = Held(r.read)
    OBVIOUS
  <2>3. /\ r.left \subseteq wanted
        /\ r.forced => r.sure = Work
        /\ ~r.forced => \A a \in r.sure \intersect r.left : points[a] = r.known[a]
        /\ \A a \in r.sure \intersect (wanted \ r.left) : points[a] = r.read[a]
        /\ ~r.forced => \A a \in r.sure \ wanted : points[a] = index[a]
    BY <1>1, <1>2, <2>1, <2>2 DEF PointsSound
  <2>4. wanted \subseteq Work
    BY <2>2 DEF Held
  <2>5. \A a \in Work : points'[a] = IF a \in pending THEN r.read[a] ELSE points[a]
    BY <1>3
  <2>6. ~r.forced => \A a \in r.sure \intersect (r.left \ B) : points'[a] = r.known[a]
    BY <1>4, <1>7, <2>3, <2>5
  <2>7. ASSUME NEW a \in r.sure, a \in wanted, a \notin r.left \ B PROVE points'[a] = r.read[a]
    <3>1. CASE a \in pending
      BY <1>7, <2>5, <3>1
    <3>2. CASE a \notin pending /\ a \in B
      BY <1>3, <1>4, <1>7, <2>3, <2>5, <3>2
    <3>3. CASE a \notin pending /\ a \notin B
      BY <1>7, <2>3, <2>5, <2>7, <3>3
    <3> QED
      BY <3>1, <3>2, <3>3
  <2>8. ~r.forced => \A a \in r.sure \ wanted : points'[a] = index[a]
    BY <1>3, <1>4, <1>7, <2>3, <2>5
  <2>9. pending \subseteq wanted
    BY <1>3, <1>4, <2>3
  <2>10. index' = index
    BY DEF UpsertPoints
  <2>11. Held(r.read)' = wanted
    BY <2>2 DEF Held
  <2> QED
    BY <1>5, <1>8, <1>10, <2>2, <2>3, <2>6, <2>7, <2>8, <2>9, <2>10 DEF PointsSound, Held
<1> QED
  BY <1>1, <1>2, <1>8, <1>10, <1>11, <1>12, OnlyOneAlone

LEMMA RecordStep == ASSUME SyncInv, NEW s \in Sync, RecordPoints(s) \/ ForgetPoints(s) PROVE SyncInv'
<1>1. PICK r : r = work[s]
  OBVIOUS
<1>2. r \in Running /\ Started(s) /\ r.at \in {"recording", "forgetting"}
  BY <1>1, SyncKinds DEF SyncInv, RecordPoints, ForgetPoints, SyncAt, Started
<1>3. PICK new : new = [r EXCEPT !.at = "upserting", !.batch = {}]
  OBVIOUS
<1>4. /\ work' = [work EXCEPT ![s] = new]
      /\ points' = points /\ corpus' = corpus
      /\ index' = [a \in Work |-> IF a \in r.batch THEN IF r.at = "recording" THEN r.read[a] ELSE None
                                  ELSE index[a]]
  <2>1. CASE RecordPoints(s)
    <3>1. r.at = "recording"
      BY <1>1, <2>1 DEF RecordPoints, SyncAt
    <3> QED
      BY <1>1, <1>3, <2>1, <3>1 DEF RecordPoints
  <2>2. CASE ForgetPoints(s)
    <3>1. r.at # "recording"
      BY <1>1, <2>2 DEF ForgetPoints, SyncAt
    <3> QED
      BY <1>1, <1>3, <2>2, <3>1 DEF ForgetPoints
  <2> QED
    BY <2>1, <2>2
<1>5. /\ new \in Running /\ new.left = r.left /\ new.batch = {} /\ new.at = "upserting"
      /\ new.read = r.read /\ new.known = r.known /\ new.sure = r.sure
      /\ new.forced = r.forced /\ new.alone = r.alone
  BY <1>2, <1>3 DEF Running
<1>6. work'[s] = new /\ \A t \in Sync \ {s} : work'[t] = work[t]
  BY <1>4 DEF SyncInv, SyncTypes
<1>7. SyncTypes'
  <2>1. r.read \in PointContent
    BY <1>2 DEF Running
  <2>2. index' \in PointContent
    BY <1>4, <2>1 DEF SyncInv, SyncTypes, PointContent
  <2>3. work' \in [Sync -> {Idle} \union Starting \union Running]
    BY <1>4, <1>5 DEF SyncInv, SyncTypes
  <2> QED
    BY <1>4, <2>2, <2>3 DEF SyncInv, SyncTypes
<1>8. ASSUME r.alone PROVE PointsSound(s)'
  <2>1. PointsSound(s)
    BY <1>1, <1>2, <1>8 DEF SyncInv, SyncSound
  <2>2. PICK wanted \in SUBSET Work : wanted = Held(r.read)
    BY DEF Held
  <2>3. /\ r.left \subseteq wanted
        /\ r.forced => r.sure = Work
        /\ ~r.forced => \A a \in r.sure \intersect r.left : points[a] = r.known[a]
        /\ \A a \in r.sure \intersect (wanted \ r.left) : points[a] = r.read[a]
        /\ ~r.forced => \A a \in r.sure \ wanted :
                          points[a] = index[a] \/ (r.at = "forgetting" /\ a \in r.batch)
        /\ r.at = "recording" => r.batch \subseteq wanted
        /\ r.at = "forgetting" => \A a \in r.batch : points[a] = None
    BY <1>1, <1>2, <2>1, <2>2 DEF PointsSound
  <2>4. r.sure \subseteq Work
    BY <1>2 DEF Running
  <2>5. ASSUME ~r.forced, NEW a \in r.sure, a \notin wanted PROVE points[a] = index'[a]
    <3>1. CASE a \in r.batch
      BY <1>2, <1>4, <2>3, <2>4, <2>5, <3>1
    <3>2. CASE a \notin r.batch
      BY <1>4, <2>3, <2>4, <2>5, <3>2
    <3> QED
      BY <3>1, <3>2
  <2> QED
    BY <1>4, <1>5, <1>6, <2>2, <2>3, <2>5 DEF PointsSound, Held
<1> QED
  BY <1>1, <1>2, <1>5, <1>6, <1>7, <1>8, OnlyOneAlone

LEMMA DeleteStep == ASSUME SyncInv, NEW s \in Sync, DeletePoints(s) PROVE SyncInv'
<1>1. PICK r : r = work[s]
  OBVIOUS
<1>2. r \in Running /\ Started(s) /\ r.at = "upserting" /\ r.left = {}
  BY <1>1, SyncKinds DEF SyncInv, DeletePoints, SyncAt, Started
<1>3. PICK B, new : /\ B \in SUBSET Stale(s)
                    /\ points' = [a \in Work |-> IF a \in B THEN None ELSE points[a]]
                    /\ new = [r EXCEPT !.at = "forgetting", !.batch = B]
                    /\ work' = [work EXCEPT ![s] = new]
  <2>1. PICK B \in Batches(Stale(s)) :
          /\ points' = [a \in Work |-> IF a \in B THEN None ELSE points[a]]
          /\ work' = [work EXCEPT ![s].at = "forgetting", ![s].batch = B]
    BY DEF DeletePoints
  <2>2. PICK new : new = [r EXCEPT !.at = "forgetting", !.batch = B]
    OBVIOUS
  <2>3. B \in SUBSET Stale(s)
    BY DEF Batches
  <2> QED
    BY <1>1, <2>1, <2>2, <2>3
<1>4. B \in SUBSET Work /\ B \intersect Held(r.read) = {}
  BY <1>1, <1>3 DEF Stale, Held
<1>5. /\ new \in Running /\ new.left = {} /\ new.batch = B /\ new.at = "forgetting"
      /\ new.read = r.read /\ new.known = r.known /\ new.sure = r.sure
      /\ new.forced = r.forced /\ new.alone = r.alone
  BY <1>2, <1>3, <1>4 DEF Running
<1>6. work'[s] = new /\ \A t \in Sync \ {s} : work'[t] = work[t]
  BY <1>3 DEF SyncInv, SyncTypes
<1>7. UNCHANGED <<corpus, index>>
  BY DEF DeletePoints
<1>8. SyncTypes'
  <2>1. points' \in PointContent
    BY <1>3 DEF SyncInv, SyncTypes, PointContent
  <2>2. work' \in [Sync -> {Idle} \union Starting \union Running]
    BY <1>3, <1>5 DEF SyncInv, SyncTypes
  <2> QED
    BY <1>7, <2>1, <2>2 DEF SyncInv, SyncTypes
<1>9. ASSUME r.alone PROVE PointsSound(s)'
  <2>1. PointsSound(s)
    BY <1>1, <1>2, <1>9 DEF SyncInv, SyncSound
  <2>2. PICK wanted \in SUBSET Work : wanted = Held(r.read)
    BY DEF Held
  <2>3. /\ r.forced => r.sure = Work
        /\ \A a \in r.sure \intersect wanted : points[a] = r.read[a]
        /\ ~r.forced => \A a \in r.sure \ wanted : points[a] = index[a]
    BY <1>1, <1>2, <2>1, <2>2 DEF PointsSound
  <2>4. r.sure \subseteq Work
    BY <1>2 DEF Running
  <2>5. /\ \A a \in r.sure \intersect wanted : points'[a] = r.read[a]
        /\ ~r.forced => \A a \in r.sure \ wanted : points'[a] = index[a] \/ a \in B
        /\ \A a \in B : points'[a] = None
    BY <1>3, <1>4, <2>2, <2>3, <2>4
  <2> QED
    BY <1>4, <1>5, <1>6, <1>7, <2>2, <2>3, <2>5 DEF PointsSound, Held
<1> QED
  BY <1>1, <1>2, <1>5, <1>6, <1>8, <1>9, OnlyOneAlone

LEMMA UntrackedStep == ASSUME SyncInv, NEW s \in Sync, DeleteUntracked(s) PROVE SyncInv'
<1>1. PICK r : r = work[s]
  OBVIOUS
<1>2. r \in Running /\ Started(s) /\ r.at = "upserting" /\ r.left = {}
  BY <1>1, SyncKinds DEF SyncInv, DeleteUntracked, Tracked, SyncAt, Started
<1>3. PICK new : new = [r EXCEPT !.at = "verifying"]
  OBVIOUS
<1>4. /\ work' = [work EXCEPT ![s] = new] /\ UNCHANGED <<corpus, index>>
      /\ points' = [a \in Work |-> IF r.read[a] = None THEN None ELSE points[a]]
  BY <1>1, <1>3 DEF DeleteUntracked, Goto
<1>5. /\ new \in Running /\ new.left = {} /\ new.at = "verifying"
      /\ new.read = r.read /\ new.known = r.known /\ new.sure = r.sure
      /\ new.forced = r.forced /\ new.alone = r.alone
  BY <1>2, <1>3 DEF Running
<1>6. work'[s] = new /\ \A t \in Sync \ {s} : work'[t] = work[t]
  BY <1>4 DEF SyncInv, SyncTypes
<1>7. SyncTypes'
  <2>1. points' \in PointContent
    BY <1>4 DEF SyncInv, SyncTypes, PointContent
  <2>2. work' \in [Sync -> {Idle} \union Starting \union Running]
    BY <1>4, <1>5 DEF SyncInv, SyncTypes
  <2> QED
    BY <1>4, <2>1, <2>2 DEF SyncInv, SyncTypes
<1>8. ASSUME r.alone PROVE PointsSound(s)'
  <2>1. PointsSound(s)
    BY <1>1, <1>2, <1>8 DEF SyncInv, SyncSound
  <2>2. PICK wanted \in SUBSET Work : wanted = Held(r.read)
    BY DEF Held
  <2>3. (r.forced => r.sure = Work) /\ \A a \in r.sure \intersect wanted : points[a] = r.read[a]
    BY <1>1, <1>2, <2>1, <2>2 DEF PointsSound
  <2>4. r.sure \subseteq Work
    BY <1>2 DEF Running
  <2>5. /\ \A a \in r.sure \intersect wanted : points'[a] = r.read[a]
        /\ \A a \in Work \ wanted : points'[a] = None
    BY <1>4, <2>2, <2>3, <2>4 DEF Held
  <2> QED
    BY <1>5, <1>6, <2>2, <2>3, <2>5 DEF PointsSound, Held
<1> QED
  BY <1>1, <1>2, <1>5, <1>6, <1>7, <1>8, OnlyOneAlone

-----------------------------------------------------------------------------
(* The invariant, and what a successful sync has published.                *)

LEMMA SyncInvInit == SyncInit => SyncInv
BY DEF SyncInit, SyncInv, SyncTypes, AloneMeans, SyncSound, Started, Idle, Running, Unpublished,
       PointContent

LEMMA SyncInvStep == SyncInv /\ [SyncNext]_syncVars => SyncInv'
<1> SUFFICES ASSUME SyncInv, [SyncNext]_syncVars PROVE SyncInv'
  OBVIOUS
<1>1. ASSUME NEW a \in Work, EditCorpus(a) PROVE SyncInv'
  <2>1. UNCHANGED <<points, index, work>>
    BY <1>1 DEF EditCorpus
  <2>2. corpus' \in PointContent
    BY <1>1 DEF EditCorpus, SyncInv, SyncTypes, PointContent
  <2> QED
    BY <2>1, <2>2 DEF SyncInv, SyncTypes, AloneMeans, SyncSound, PointsSound, Started, Held
<1>2. ASSUME LoseCollection PROVE SyncInv'
  <2>1. \A t \in Sync : work'[t] = Idle
    BY <1>2 DEF LoseCollection, SyncInv, SyncTypes, SyncAt, Idle, Starting, Running
  <2>2. SyncTypes'
    BY <1>2, <2>1 DEF LoseCollection, SyncInv, SyncTypes, Unpublished, PointContent
  <2>3. Idle \notin Running /\ Idle.at = "idle"
    BY DEF Idle, Running
  <2> QED
    BY <2>1, <2>2, <2>3 DEF SyncInv, AloneMeans, SyncSound, Started
<1>3. ASSUME PromoteByHand \/ UNCHANGED syncVars PROVE SyncInv'
  BY <1>3 DEF PromoteByHand, syncVars, SyncInv, SyncTypes, AloneMeans, SyncSound, PointsSound, Started, Held
<1>4. ASSUME NEW s \in Sync, Finish(s) \/ Mismatch(s) \/ Break(s) PROVE SyncInv'
  BY <1>4, EndKeepsSyncInv DEF Finish, Mismatch, Break
<1>5. ASSUME NEW s \in Sync,
             \/ Ensure(s) \/ ClearState(s) \/ OpenSync(s)
             \/ UpsertPoints(s) \/ RecordPoints(s) \/ DeletePoints(s) \/ ForgetPoints(s)
             \/ DeleteUntracked(s)
      PROVE  SyncInv'
  BY <1>5, EnsureStep, ClearStep, OpenStep, UpsertStep, RecordStep, DeleteStep, UntrackedStep
<1> QED
  BY <1>1, <1>2, <1>3, <1>4, <1>5 DEF SyncNext

\* Counts that agree leave no room for a point too many.
LEMMA CountsLeaveNoRoom ==
  ASSUME NEW have \in SUBSET Work, NEW wanted \in SUBSET have, Cardinality(have) = Cardinality(wanted)
  PROVE  have = wanted
<1>1. IsFiniteSet(have)
  BY SyncAssumption, FS_Subset
<1> QED
  BY <1>1, FS_Subset

LEMMA FinishPublishes ==
  ASSUME SyncInv, NEW s \in Sync, Finish(s), work[s].alone, NEW a \in work[s].sure
  PROVE  points[a] = work[s].read[a] \/ MayOutlast(s, a)
<1>1. PICK r : r = work[s]
  OBVIOUS
<1>2. r \in Running /\ r.at \in {"upserting", "verifying"} /\ r.left \in SUBSET Work
  <2>1. r \in Running /\ r.at \in {"upserting", "verifying"}
    BY <1>1, SyncKinds DEF SyncInv, Finish, Tracked, SyncAt
  <2> QED
    BY <2>1 DEF Running
<1>3. /\ PointsSound(s) /\ r.sure \in SUBSET Work /\ r.forced \in BOOLEAN /\ r.prune \in BOOLEAN
      /\ r.read \in PointContent
  BY <1>1, <1>2 DEF SyncInv, SyncSound, Running
<1>4. r.left = {}
  BY <1>1, <1>2, <1>3 DEF Finish, Tracked, SyncAt, PointsSound
<1>5. PICK wanted \in SUBSET Work : wanted = Held(r.read)
  BY DEF Held
<1>6. \A b \in r.sure : b \in wanted => points[b] = r.read[b]
  BY <1>1, <1>3, <1>4, <1>5 DEF PointsSound
<1>7. a \in Work /\ (a \in wanted <=> r.read[a] # None)
  BY <1>1, <1>3, <1>5 DEF Held
<1>8. CASE a \in wanted
  BY <1>1, <1>6, <1>8
<1>9. CASE a \notin wanted /\ r.at = "verifying"
  BY <1>1, <1>3, <1>5, <1>7, <1>9 DEF PointsSound
<1>10. CASE a \notin wanted /\ r.at = "upserting" /\ r.sure = Work
  <2>1. PICK have \in SUBSET Work : have = Held(points)
    BY DEF Held
  <2>2. wanted \subseteq have
    BY <1>5, <1>6, <1>10, <2>1 DEF Held
  <2>3. Cardinality(have) = Cardinality(wanted)
    BY <1>1, <1>5, <2>1 DEF Finish, Verified, CountsAgree
  <2>4. have = wanted
    BY <2>2, <2>3, CountsLeaveNoRoom
  <2> QED
    BY <1>1, <1>7, <1>10, <2>1, <2>4 DEF Held
<1>11. CASE a \notin wanted /\ r.at = "upserting" /\ r.sure # Work /\ r.prune
  <2>1. points[a] = index[a]
    BY <1>1, <1>3, <1>5, <1>11 DEF PointsSound
  <2>2. Stale(s) = {}
    BY <1>1, <1>11 DEF Finish, Tracked, SyncAt
  <2>3. index[a] = None
    BY <1>1, <1>5, <1>7, <1>11, <2>2 DEF Stale, Held
  <2> QED
    BY <1>1, <1>7, <1>11, <2>1, <2>3
<1>12. CASE a \notin wanted /\ r.sure # Work /\ ~r.prune
  BY <1>1, <1>7, <1>12 DEF MayOutlast
<1> QED
  BY <1>2, <1>3, <1>8, <1>9, <1>10, <1>11, <1>12

\* A sync that reports success has published what it read, artwork by artwork,
\* whatever failed before it: for any corpus and any number of syncs
\* (sync_qdrant_from_sqlite).
THEOREM SyncPublishes == SyncSpec => SyncedIsPublished
<1>1. SyncSpec => []SyncInv
  BY SyncInvInit, SyncInvStep, PTL DEF SyncSpec
<1>2. SyncInv /\ [SyncNext]_syncVars =>
        [\A s \in Sync : Finish(s) /\ work[s].alone =>
           \A a \in work[s].sure : points[a] = work[s].read[a] \/ MayOutlast(s, a)]_syncVars
  BY FinishPublishes
<1> QED
  BY <1>1, <1>2, PTL DEF SyncSpec, SyncedIsPublished

\* A sync under way, and the alias, have a collection.
CollectionSound ==
  /\ exists \in BOOLEAN /\ alias \in BOOLEAN /\ (alias => exists)
  /\ ~exists => points = Unpublished
  /\ \A s \in Sync : Started(s) => exists

LEMMA CollectionSoundStep ==
  SyncInv /\ CollectionSound /\ [SyncNext]_syncVars => CollectionSound'
<1> SUFFICES ASSUME SyncInv, CollectionSound, [SyncNext]_syncVars PROVE CollectionSound'
  OBVIOUS
<1>1. SyncTypes
  BY DEF SyncInv
<1>2. CASE UNCHANGED syncVars
  BY <1>2 DEF syncVars, CollectionSound, Started
<1>3. ASSUME NEW a \in Work, EditCorpus(a) PROVE CollectionSound'
  BY <1>3 DEF EditCorpus, CollectionSound, Started
<1>4. CASE LoseCollection
  <2>1. \A s \in Sync : work'[s].at = "idle"
    BY <1>4 DEF LoseCollection, SyncAt, Idle
  <2> QED
    BY <1>4, <2>1 DEF LoseCollection, CollectionSound, Started
<1>5. CASE PromoteByHand
  BY <1>5 DEF PromoteByHand, CollectionSound, Started
<1>6. ASSUME NEW s \in Sync, Ensure(s) PROVE CollectionSound'
  BY <1>6 DEF Ensure, CollectionSound
\* Every other step of a sync has its collection before and after.
<1>7. ASSUME NEW s \in Sync, Started(s), exists' = exists, alias' = alias,
             \A t \in Sync \ {s} : work'[t] = work[t]
      PROVE  CollectionSound'
  BY <1>7 DEF CollectionSound, Started
<1>8. ASSUME NEW s \in Sync,
             \/ ClearState(s) \/ OpenSync(s) \/ UpsertPoints(s) \/ RecordPoints(s)
             \/ DeletePoints(s) \/ ForgetPoints(s) \/ DeleteUntracked(s) \/ Mismatch(s) \/ Break(s)
      PROVE  CollectionSound'
  <2>1. Started(s)
    BY <1>8 DEF ClearState, OpenSync, UpsertPoints, RecordPoints, DeletePoints, ForgetPoints,
                DeleteUntracked, Mismatch, Break, Tracked, SyncAt, Started
  <2>2. exists' = exists /\ alias' = alias
    BY <1>8 DEF ClearState, OpenSync, UpsertPoints, RecordPoints, DeletePoints, ForgetPoints,
                DeleteUntracked, Mismatch, Break
  <2>3. \A t \in Sync \ {s} : work'[t] = work[t]
    <3>1. CASE ClearState(s) \/ DeleteUntracked(s)
      BY <1>1, <3>1 DEF ClearState, DeleteUntracked, Goto, SyncTypes
    <3>2. CASE OpenSync(s)
      BY <1>1, <3>2 DEF OpenSync, SyncTypes
    <3>3. CASE UpsertPoints(s)
      BY <1>1, <3>3 DEF UpsertPoints, SyncTypes
    <3>4. CASE RecordPoints(s) \/ ForgetPoints(s)
      BY <1>1, <3>4 DEF RecordPoints, ForgetPoints, SyncTypes
    <3>5. CASE DeletePoints(s)
      BY <1>1, <3>5 DEF DeletePoints, SyncTypes
    <3>6. CASE Mismatch(s) \/ Break(s)
      BY <1>1, <3>6 DEF Mismatch, Break, SyncTypes
    <3> QED
      BY <1>8, <3>1, <3>2, <3>3, <3>4, <3>5, <3>6
  <2> QED
    BY <1>7, <2>1, <2>2, <2>3
<1>9. ASSUME NEW s \in Sync, Finish(s) PROVE CollectionSound'
  <2>1. work[s].at \in {"upserting", "verifying"}
    BY <1>9 DEF Finish, Tracked, SyncAt
  <2>2. Started(s) /\ work[s].promote \in BOOLEAN
    BY <1>1, <2>1, SyncKinds DEF Running, Started
  <2>3. \A t \in Sync \ {s} : work'[t] = work[t]
    BY <1>1, <1>9 DEF Finish, SyncTypes
  <2>4. exists /\ exists' = exists /\ alias' \in BOOLEAN /\ points' = points
    BY <1>9, <2>2 DEF Finish, CollectionSound
  <2> QED
    BY <2>2, <2>3, <2>4 DEF CollectionSound, Started
<1> QED
  BY <1>2, <1>3, <1>4, <1>5, <1>6, <1>8, <1>9 DEF SyncNext

\* A sync runs only while its collection exists, the alias names one that does,
\* and a lost collection has no points.
THEOREM SyncTypeCorrect == SyncSpec => []SyncTypeOK
<1>1. ASSUME SyncInit PROVE CollectionSound
  <2>1. \A s \in Sync : ~Started(s)
    BY <1>1 DEF SyncInit, Started, Idle
  <2> QED
    BY <1>1, <2>1 DEF SyncInit, CollectionSound
<1>2. ASSUME SyncInv, CollectionSound PROVE SyncTypeOK
  <2>1. ASSUME NEW s \in Sync
        PROVE  work[s].at \in {"idle", "clearing", "counting", "upserting", "recording",
                               "forgetting", "verifying"}
    <3>1. work[s] \in {Idle} \union Starting \union Running
      BY <1>2 DEF SyncInv, SyncTypes
    <3> QED
      BY <3>1 DEF Idle, Starting, Running
  <2> QED
    BY <1>2, <2>1 DEF SyncInv, SyncTypes, CollectionSound, SyncTypeOK
<1> QED
  BY <1>1, <1>2, SyncInvInit, SyncInvStep, CollectionSoundStep, PTL DEF SyncSpec

-----------------------------------------------------------------------------
(***************************************************************************)
(* Proofs about DiscoveryGraph for any suggestions, feeds and processes,   *)
(* any number of transactions and any number of failures.                  *)
(*                                                                         *)
(* What the rows of the graph count, and what a report that is under way   *)
(* has read, is related to the observations and the evidence there are:    *)
(* both only grow, so that a count once read stays below every later one.  *)
(* That one observation counts once is that its evidence is itself: a      *)
(* suggestion nobody recorded has no evidence to replay. An edge that      *)
(* stands for a sampled image is never one a suggestion has.               *)
(***************************************************************************)
Keys(obs) == {o.key : o \in obs}
SuggestionEdge(e) == \E s \in Suggestion : e = EdgeOf(s)
Behind(e) == {o \in observations : EdgeOf(o.key) = e /\ e[1] # e[2]}
RowsOn(e, rows) == {r \in rows : r[1] = e}
Refs(e, rows) == {r[2] : r \in RowsOn(e, rows)}

(* An observation is of a creator that has a row, and evidence that no     *)
(* image stands for is an observation.                                     *)
ObservationsOK ==
  /\ IsFiniteSet(observations)
  /\ \A o \in observations :
       /\ o.key.did \in Known /\ o.depth \in Nat
       /\ \E s \in Suggestion : o.key = KeyOf(s)
       /\ o.key.parent # o.key.did => <<EdgeOf(o.key), o>> \in evidence
EvidenceOK ==
  /\ IsFiniteSet(evidence)
  /\ \A r \in evidence : r = <<r[1], r[2]>>
  /\ \A r \in evidence : r[1][3] \notin ImageEdge => r[2] \in observations
CreatorsSumUp ==
  \A d \in Known :
    /\ creators[d].count = Cardinality(Keys(ObservationsOf(d)))
    /\ creators[d].count > 0 /\ told[d] > 0
EdgesSumUp ==
  \A e \in Edge :
    support[e] = IF SuggestionEdge(e) THEN Cardinality(Keys(Behind(e)))
                 ELSE Cardinality(Refs(e, evidence))
DepthsOK ==
  \A o \in observations :
    /\ creators[o.key.did].depth <= o.depth
    /\ depths[o.key.did] \in Nat /\ depths[o.key.did] <= o.depth
    /\ depths[o.key.parent] \in Nat /\ depths[o.key.parent] <= o.depth

(* What a report has read so far, given the creators and the observations  *)
(* there are by now.                                                       *)
AtMost(n, set) == n \in Nat /\ n <= Cardinality(set)
SeenOK(kind, at, seen, known, obs) ==
  \/ at = 0 /\ seen = <<>>
  \/ /\ kind = "coverage" /\ at \in 1..5 /\ seen \in Seq(Nat) /\ Len(seen) = at
     /\ \A i \in 1..at : i <= 4 => AtMost(seen[i], known)
     /\ \A i \in 1..(at - 1) : seen[i] <= seen[i + 1]
  \/ kind = "status" /\ at = 1 /\ seen = <<seen[1]>> /\ AtMost(seen[1], known)
  \/ /\ kind = "status" /\ at = 2 /\ seen = <<seen[1], seen[2]>>
     /\ AtMost(seen[1], known) /\ AtMost(seen[2], known) /\ seen[1] <= seen[2]
  \/ /\ kind = "status" /\ at = 3 /\ seen = <<seen[1], seen[2], seen[3]>>
     /\ AtMost(seen[1], known) /\ AtMost(seen[2], known) /\ seen[1] <= seen[2]
     /\ AtMost(seen[3], obs)
  \/ kind = "queue" /\ at = 1 /\ seen = <<seen[1]>> /\ seen[1] \in Nat
  \/ /\ kind = "queue" /\ at = 2 /\ seen = <<seen[1], seen[2], seen[3]>>
     /\ seen[2] < seen[1] /\ seen[3] \in known
  \/ kind = "map" /\ at = 1 /\ seen = <<seen[1]>>

ReportKind == {"coverage", "status", "queue", "map"}
TxOK(t, known, obs) ==
  \/ /\ t.kind = "suggest"
     /\ t \in [kind : {"suggest"}, of : Suggestion, run : {t.run}, at : Nat, known : BOOLEAN]
     /\ t.known => t.of.did \in known
  \/ t \in [kind : {"hydrate", "profile"}, of : known, run : {t.run}, at : Nat]
  \/ /\ t.kind = "sample"
     /\ t \in [kind : {"sample"}, of : known, run : {t.run}, at : Nat, feed : Feeds[t.of]]
  \/ /\ t.kind \in ReportKind
     /\ t \in [kind : ReportKind, of : {nobody}, run : {t.run}, at : Nat, seen : {t.seen}]
     /\ SeenOK(t.kind, t.at, t.seen, known, obs)
TransactionsOK ==
  DOMAIN tx = Process /\ \A p \in Process : tx[p] = nobody \/ TxOK(tx[p], Known, observations)

GraphInv ==
  /\ GraphTypeOK
  /\ ObservationsOK /\ EvidenceOK /\ CreatorsSumUp /\ EdgesSumUp /\ DepthsOK
  /\ TransactionsOK /\ ReportAddsUp

-----------------------------------------------------------------------------
LEMMA KeysFinite ==
  ASSUME NEW S, IsFiniteSet(S)
  PROVE  IsFiniteSet(Keys(S)) /\ Cardinality(Keys(S)) \in Nat
<1>1. [o \in S |-> o.key] \in Surjection(S, Keys(S))
  BY DEF Surjection, Keys
<1> QED
  BY <1>1, FS_Surjection, FS_CardinalityType DEF ExistsSurjection

LEMMA KeysGrow ==
  ASSUME NEW S, IsFiniteSet(S), NEW mark, \A o \in S : o.key # mark.key
  PROVE  Cardinality(Keys(S \union {mark})) = Cardinality(Keys(S)) + 1
<1>1. Keys(S \union {mark}) = Keys(S) \union {mark.key}
  BY DEF Keys
<1>2. mark.key \notin Keys(S)
  BY DEF Keys
<1> QED
  BY <1>1, <1>2, KeysFinite, FS_AddElement

(* There are no more creators than observations.                           *)
LEMMA KnownIsObserved ==
  ASSUME ObservationsOK, CreatorsSumUp
  PROVE  /\ IsFiniteSet(Known) /\ Cardinality(Known) \in Nat
         /\ Cardinality(observations) \in Nat /\ Cardinality(Known) <= Cardinality(observations)
         /\ \A d \in Known :
              ObservationsOf(d) # {} /\ Cardinality(ObservationsOf(d)) \in Nat \ {0}
<1>1. \A d \in Known : ObservationsOf(d) # {}
  <2>. SUFFICES ASSUME NEW d \in Known, ObservationsOf(d) = {} PROVE FALSE
    OBVIOUS
  <2>1. Keys(ObservationsOf(d)) = {}
    BY DEF Keys
  <2> QED
    BY <2>1, FS_EmptySet DEF CreatorsSumUp
<1>2. [o \in observations |-> o.key.did] \in Surjection(observations, Known)
  BY <1>1 DEF Surjection, ObservationsOf, ObservationsOK
<1>3. IsFiniteSet(Known) /\ Cardinality(Known) <= Cardinality(observations)
  BY <1>2, FS_Surjection DEF ExistsSurjection, ObservationsOK
<1>4. \A d \in Known : Cardinality(ObservationsOf(d)) \in Nat \ {0}
  <2>. SUFFICES ASSUME NEW d \in Known PROVE Cardinality(ObservationsOf(d)) \in Nat \ {0}
    OBVIOUS
  <2>1. IsFiniteSet(ObservationsOf(d))
    BY FS_Subset DEF ObservationsOf, ObservationsOK
  <2> QED
    BY <1>1, <2>1, FS_CardinalityType, FS_EmptySet
<1> QED
  BY <1>1, <1>3, <1>4, FS_CardinalityType DEF ObservationsOK

LEMMA DisjointCardinality ==
  ASSUME NEW A, NEW B, IsFiniteSet(A), IsFiniteSet(B), A \intersect B = {}
  PROVE  /\ Cardinality(A \union B) = Cardinality(A) + Cardinality(B)
         /\ Cardinality(A) \in Nat /\ Cardinality(B) \in Nat
<1>1. Cardinality(A \intersect B) = 0
  BY FS_EmptySet
<1>2. Cardinality(A) \in Nat /\ Cardinality(B) \in Nat
  BY FS_CardinalityType
<1>3. Cardinality(A \union B) = Cardinality(A) + Cardinality(B) - Cardinality(A \intersect B)
  BY FS_Union
<1> QED
  BY <1>1, <1>2, <1>3

(* Rows that are new add as many references to an edge as there are rows.  *)
LEMMA RefsGrow ==
  ASSUME NEW e, NEW old, NEW rows, IsFiniteSet(old), IsFiniteSet(rows),
         \A r \in old \union rows : r = <<r[1], r[2]>>
  PROVE  /\ Cardinality(Refs(e, old \union rows)) =
              Cardinality(Refs(e, old)) + Cardinality({r \in rows \ old : r[1] = e})
         /\ Cardinality(Refs(e, old)) \in Nat
         /\ Cardinality({r \in rows \ old : r[1] = e}) \in Nat
<1>. DEFINE new == {r \in rows \ old : r[1] = e}
            newRefs == {r[2] : r \in new}
<1>1. IsFiniteSet(new) /\ IsFiniteSet(RowsOn(e, old))
  BY FS_Subset DEF RowsOn
<1>2. [r \in new |-> r[2]] \in Bijection(new, newRefs)
  <2>1. \A r \in new, q \in new : r[2] = q[2] => r = q
    OBVIOUS
  <2> QED
    BY <2>1 DEF Bijection, Injection, Surjection, IsInjective
<1>3. IsFiniteSet(newRefs) /\ Cardinality(newRefs) = Cardinality(new)
  BY <1>1, <1>2, FS_Bijection DEF ExistsBijection
<1>4. IsFiniteSet(Refs(e, old))
  <2>1. [r \in RowsOn(e, old) |-> r[2]] \in Surjection(RowsOn(e, old), Refs(e, old))
    BY DEF Surjection, Refs
  <2> QED
    BY <1>1, <2>1, FS_Surjection DEF ExistsSurjection
<1>5. Refs(e, old \union rows) = Refs(e, old) \union newRefs
  BY DEF Refs, RowsOn
<1>6. Refs(e, old) \intersect newRefs = {}
  BY DEF Refs, RowsOn
<1>7. /\ Cardinality(Refs(e, old) \union newRefs) = Cardinality(Refs(e, old)) + Cardinality(newRefs)
      /\ Cardinality(Refs(e, old)) \in Nat /\ Cardinality(newRefs) \in Nat
  BY <1>3, <1>4, <1>6, DisjointCardinality
<1>8. Cardinality(Refs(e, old \union rows)) = Cardinality(Refs(e, old)) + Cardinality(new)
  BY <1>3, <1>5, <1>7
<1>9. Cardinality(new) \in Nat
  BY <1>3, <1>7
<1> QED
  BY <1>7, <1>8, <1>9

LEMMA TxGrows ==
  ASSUME NEW t, NEW known, NEW more, NEW obs, NEW moreObs, known \subseteq more,
         obs \subseteq moreObs, IsFiniteSet(more), IsFiniteSet(moreObs), TxOK(t, known, obs)
  PROVE  TxOK(t, more, moreObs)
<1>1. /\ Cardinality(known) <= Cardinality(more) /\ Cardinality(obs) <= Cardinality(moreObs)
      /\ {Cardinality(known), Cardinality(more), Cardinality(obs), Cardinality(moreObs)}
           \subseteq Nat
  BY FS_Subset, FS_CardinalityType
<1>2. \A n : (AtMost(n, known) => AtMost(n, more)) /\ (AtMost(n, obs) => AtMost(n, moreObs))
  BY <1>1 DEF AtMost
<1>3. \A kind, at, seen : SeenOK(kind, at, seen, known, obs) => SeenOK(kind, at, seen, more, moreObs)
  BY <1>2 DEF SeenOK
<1>4. CASE t.kind = "suggest"
    /\ t \in [kind : {"suggest"}, of : Suggestion, run : {t.run}, at : Nat, known : BOOLEAN]
    /\ (t.known => t.of.did \in known)
  BY <1>4 DEF TxOK
<1>5. CASE t \in [kind : {"hydrate", "profile"}, of : known, run : {t.run}, at : Nat]
  <2>1. t \in [kind : {"hydrate", "profile"}, of : more, run : {t.run}, at : Nat]
    BY <1>5
  <2> QED
    BY <2>1 DEF TxOK
<1>6. CASE t.kind = "sample"
     /\ t \in [kind : {"sample"}, of : known, run : {t.run}, at : Nat, feed : Feeds[t.of]]
  <2>1. t \in [kind : {"sample"}, of : more, run : {t.run}, at : Nat, feed : Feeds[t.of]]
    BY <1>6
  <2> QED
    BY <1>6, <2>1 DEF TxOK
<1>7. CASE /\ t.kind \in ReportKind
     /\ t \in [kind : ReportKind, of : {nobody}, run : {t.run}, at : Nat, seen : {t.seen}]
     /\ SeenOK(t.kind, t.at, t.seen, known, obs)
  BY <1>3, <1>7 DEF TxOK
<1> QED
  BY <1>4, <1>5, <1>6, <1>7 DEF TxOK

(* A step that moves no row keeps what the rows sum up to.                 *)
LEMMA QuietKeeps ==
  ASSUME GraphInv, UNCHANGED <<creators, depths, observations, evidence, support, told>>
  PROVE  /\ ObservationsOK' /\ EvidenceOK' /\ CreatorsSumUp' /\ EdgesSumUp' /\ DepthsOK'
         /\ Known' = Known
<1>1. Known' = Known
  BY DEF Known
<1>2. \A d : ObservationsOf(d)' = ObservationsOf(d)
  BY DEF ObservationsOf
<1>3. \A e : Behind(e)' = Behind(e)
  BY DEF Behind
<1>4. ObservationsOK' /\ EvidenceOK' /\ DepthsOK'
  BY <1>1 DEF GraphInv, ObservationsOK, EvidenceOK, DepthsOK
<1>5. CreatorsSumUp'
  BY <1>1, <1>2 DEF GraphInv, CreatorsSumUp
<1>6. EdgesSumUp'
  BY <1>3 DEF GraphInv, EdgesSumUp
<1> QED
  BY <1>1, <1>4, <1>5, <1>6

LEMMA TransactionsStep ==
  ASSUME GraphInv, NEW p \in Process,
         Known \subseteq Known', observations \subseteq observations',
         IsFiniteSet(Known'), IsFiniteSet(observations'),
         DOMAIN tx' = Process, \A q \in Process \ {p} : tx'[q] = tx[q],
         tx'[p] = nobody \/ TxOK(tx'[p], Known', observations')
  PROVE  TransactionsOK'
<1>1. \A q \in Process : tx[q] = nobody \/ TxOK(tx[q], Known, observations)
  BY DEF GraphInv, TransactionsOK
<1>2. \A q \in Process \ {p} : tx'[q] = nobody \/ TxOK(tx'[q], Known', observations')
  BY <1>1, TxGrows
<1> QED
  BY <1>2 DEF TransactionsOK

LEMMA QuietTransactionsStep ==
  ASSUME GraphInv, NEW p \in Process,
         UNCHANGED <<creators, depths, observations, evidence, support, told>>,
         DOMAIN tx' = Process, \A q \in Process \ {p} : tx'[q] = tx[q],
         tx'[p] = nobody \/ TxOK(tx'[p], Known, observations)
  PROVE  TransactionsOK'
<1>1. Known' = Known /\ observations' = observations
  BY QuietKeeps
<1>2. IsFiniteSet(Known') /\ IsFiniteSet(observations')
  BY <1>1, KnownIsObserved DEF GraphInv, ObservationsOK
<1> QED
  BY <1>1, <1>2, TransactionsStep

LEMMA ReportKept ==
  ASSUME GraphInv, report' = report, evidence \subseteq evidence'
  PROVE  ReportAddsUp'
  BY DEF GraphInv, ReportAddsUp

LEMMA StatementKeeps ==
  ASSUME GraphInv, NEW p \in Process, Statement(p)
  PROVE  GraphInv'
<1>1. /\ UNCHANGED <<creators, depths, observations, evidence, support, told>>
      /\ UNCHANGED <<media, unreviewed, due, run, report, begun>>
      /\ tx' = [tx EXCEPT ![p].at = tx[p].at + 1]
      /\ tx[p] # nobody /\ tx[p].kind \in {"suggest", "hydrate", "sample", "profile"}
  BY DEF Statement, HasMore, Writing
<1>2. TxOK(tx[p], Known, observations) /\ DOMAIN tx = Process
  BY <1>1 DEF GraphInv, TransactionsOK
<1>3. /\ DOMAIN tx' = Process /\ \A q \in Process \ {p} : tx'[q] = tx[q]
      /\ tx'[p] = [tx[p] EXCEPT !.at = tx[p].at + 1]
  BY <1>1, <1>2
<1>4. TxOK(tx'[p], Known, observations)
  BY <1>1, <1>2, <1>3 DEF TxOK, ReportKind
<1>5. GraphTypeOK'
  BY <1>1, QuietKeeps DEF GraphInv, GraphTypeOK
<1> QED
  BY <1>1, <1>3, <1>4, <1>5, QuietKeeps, QuietTransactionsStep, ReportKept DEF GraphInv

LEMMA DecideKeeps ==
  ASSUME GraphInv, Decide
  PROVE  GraphInv'
<1>1. /\ UNCHANGED <<creators, depths, observations, evidence, support, told>>
      /\ UNCHANGED <<media, due, run, tx, report, begun>>
      /\ unreviewed' \subseteq unreviewed
  BY DEF Decide
<1>2. GraphTypeOK'
  BY <1>1, QuietKeeps DEF GraphInv, GraphTypeOK
<1>3. TransactionsOK'
  BY <1>1, QuietKeeps DEF GraphInv, TransactionsOK
<1> QED
  BY <1>1, <1>2, <1>3, QuietKeeps, ReportKept DEF GraphInv

LEMMA FailKeeps ==
  ASSUME GraphInv, NEW p \in Process, Fail(p)
  PROVE  GraphInv'
<1>1. /\ UNCHANGED <<creators, depths, observations, evidence, support, told>>
      /\ UNCHANGED <<media, unreviewed, report, begun>>
      /\ run[p] < MaxMishaps /\ run' = [run EXCEPT ![p] = @ + 1]
      /\ tx' = [tx EXCEPT ![p] = nobody] /\ due' = [due EXCEPT ![p] = {}]
  BY DEF Fail
<1>2. /\ DOMAIN tx' = Process /\ \A q \in Process \ {p} : tx'[q] = tx[q]
      /\ tx'[p] = nobody
  BY <1>1 DEF GraphInv, TransactionsOK
<1>3. GraphTypeOK'
  BY <1>1, QuietKeeps, BoundsAssumption DEF GraphInv, GraphTypeOK
<1> QED
  BY <1>1, <1>2, <1>3, QuietKeeps, QuietTransactionsStep, ReportKept DEF GraphInv

LEMMA BeginKeeps ==
  ASSUME GraphInv, NEW p \in Process, NEW t, Begin(p, t), TxOK(t, Known, observations),
         UNCHANGED <<creators, depths, observations, evidence, support, media, told,
                     unreviewed, due, run, report>>
  PROVE  GraphInv'
<1>1. /\ UNCHANGED <<creators, depths, observations, evidence, support, told>>
      /\ begun < MaxWork /\ begun' = begun + 1
      /\ tx' = [tx EXCEPT ![p] = t]
  BY DEF Begin
<1>2. /\ DOMAIN tx' = Process /\ \A q \in Process \ {p} : tx'[q] = tx[q]
      /\ tx'[p] = t
  BY <1>1 DEF GraphInv, TransactionsOK
<1>3. GraphTypeOK'
  BY <1>1, QuietKeeps, BoundsAssumption DEF GraphInv, GraphTypeOK
<1> QED
  BY <1>1, <1>2, <1>3, QuietKeeps, QuietTransactionsStep, ReportKept DEF GraphInv

LEMMA BeginsKeep ==
  ASSUME GraphInv, NEW p \in Process,
         BeginSuggestion(p) \/ BeginSample(p) \/ BeginProfile(p) \/ BeginReport(p)
  PROVE  GraphInv'
<1>1. CASE BeginSuggestion(p)
  <2>1. PICK s \in Suggestion :
          /\ Begin(p, [kind |-> "suggest", of |-> s, run |-> <<p, run[p]>>, at |-> 0,
                       known |-> creators[s.did] # nobody])
          /\ UNCHANGED <<creators, depths, observations, evidence, support, media, told,
                         unreviewed, due, run, report>>
    BY <1>1 DEF BeginSuggestion
  <2>. DEFINE t == [kind |-> "suggest", of |-> s, run |-> <<p, run[p]>>, at |-> 0,
                    known |-> creators[s.did] # nobody]
  <2>2. /\ t \in [kind : {"suggest"}, of : Suggestion, run : {t.run}, at : Nat, known : BOOLEAN]
        /\ t.kind = "suggest"
    OBVIOUS
  <2>3. t.known => t.of.did \in Known
    BY SuggestionAssumption DEF Known
  <2>4. TxOK(t, Known, observations)
    BY <2>2, <2>3 DEF TxOK
  <2> QED
    BY <2>1, <2>4, BeginKeeps
<1>2. CASE BeginSample(p)
  <2>1. PICK d \in Did : \E f \in Feeds[d] :
          /\ creators[d] # nobody
          /\ Begin(p, [kind |-> "sample", of |-> d, run |-> <<p, run[p]>>, at |-> 0, feed |-> f])
          /\ UNCHANGED <<creators, depths, observations, evidence, support, media, told,
                         unreviewed, due, run, report>>
    BY <1>2 DEF BeginSample
  <2>2. PICK f \in Feeds[d] :
          /\ creators[d] # nobody
          /\ Begin(p, [kind |-> "sample", of |-> d, run |-> <<p, run[p]>>, at |-> 0, feed |-> f])
          /\ UNCHANGED <<creators, depths, observations, evidence, support, media, told,
                         unreviewed, due, run, report>>
    BY <2>1
  <2>. DEFINE t == [kind |-> "sample", of |-> d, run |-> <<p, run[p]>>, at |-> 0, feed |-> f]
  <2>3. d \in Known
    BY <2>2 DEF Known
  <2>4. /\ t \in [kind : {"sample"}, of : Known, run : {t.run}, at : Nat, feed : Feeds[t.of]]
        /\ t.kind = "sample"
    BY <2>3
  <2>5. TxOK(t, Known, observations)
    BY <2>4 DEF TxOK
  <2> QED
    BY <2>2, <2>5, BeginKeeps
<1>3. CASE BeginProfile(p)
  <2>1. PICK d \in due[p] :
          /\ Begin(p, Opened("profile", d, p))
          /\ UNCHANGED <<creators, depths, observations, evidence, support, media, told,
                         unreviewed, due, run, report>>
    BY <1>3 DEF BeginProfile
  <2>2. d \in Known
    BY DEF GraphInv, GraphTypeOK
  <2>3. TxOK(Opened("profile", d, p), Known, observations)
    BY <2>2 DEF TxOK, Opened
  <2> QED
    BY <2>1, <2>3, BeginKeeps
<1>4. CASE BeginReport(p)
  <2>1. PICK kind \in ReportKind :
          /\ Begin(p, [kind |-> kind, of |-> nobody, run |-> <<p, run[p]>>, at |-> 0,
                       seen |-> <<>>])
          /\ UNCHANGED <<creators, depths, observations, evidence, support, media, told,
                         unreviewed, due, run, report>>
    BY <1>4 DEF BeginReport, ReportKind
  <2>. DEFINE t == [kind |-> kind, of |-> nobody, run |-> <<p, run[p]>>, at |-> 0, seen |-> <<>>]
  <2>2. /\ t \in [kind : ReportKind, of : {nobody}, run : {t.run}, at : Nat, seen : {t.seen}]
        /\ t.kind \in ReportKind /\ t.at = 0 /\ t.seen = <<>>
    OBVIOUS
  <2>3. SeenOK(t.kind, t.at, t.seen, Known, observations)
    BY <2>2 DEF SeenOK
  <2>4. TxOK(t, Known, observations)
    BY <2>2, <2>3 DEF TxOK
  <2> QED
    BY <2>1, <2>4, BeginKeeps
<1> QED
  BY <1>1, <1>2, <1>3, <1>4

-----------------------------------------------------------------------------
AddsUp(kind, n) ==
  /\ kind = "coverage" => \A i \in 1..4 : n[i] <= n[i + 1]
  /\ kind = "status" => n[1] <= n[2] /\ n[2] <= n[4] /\ n[3] <= n[5] /\ n[4] <= n[5]
  /\ kind = "queue" => Len(n) = 1 \/ (n[2] < n[1] /\ n[4] > 0)
  /\ kind = "map" => \A e \in n[2] : \E r \in evidence : r[1] = e

LEMMA OpenReport ==
  ASSUME GraphInv, NEW p \in Process, tx[p] # nobody, tx[p].kind \in ReportKind
  PROVE  /\ tx[p] \in [kind : ReportKind, of : {nobody}, run : {tx[p].run}, at : Nat,
                       seen : {tx[p].seen}]
         /\ SeenOK(tx[p].kind, tx[p].at, tx[p].seen, Known, observations)
BY DEF GraphInv, TransactionsOK, TxOK, ReportKind

LEMMA SeesKeeps ==
  ASSUME GraphInv, NEW p \in Process, tx[p] # nobody, tx[p].kind \in ReportKind,
         NEW seen, NEW done \in BOOLEAN, Sees(p, seen, done),
         ~done => SeenOK(tx[p].kind, tx[p].at + 1, seen, Known, observations),
         done => AddsUp(tx[p].kind, seen)
  PROVE  GraphInv'
<1>1. /\ UNCHANGED <<creators, depths, observations, evidence, support, told>>
      /\ UNCHANGED <<media, unreviewed, due, run, begun>>
      /\ tx' = [tx EXCEPT ![p] =
                  IF done THEN nobody ELSE [tx[p] EXCEPT !.at = tx[p].at + 1, !.seen = seen]]
      /\ report' = IF done THEN [kind |-> tx[p].kind, seen |-> seen] ELSE report
  BY DEF Sees
<1>2. /\ tx[p] \in [kind : ReportKind, of : {nobody}, run : {tx[p].run}, at : Nat,
                    seen : {tx[p].seen}]
      /\ DOMAIN tx = Process
  BY OpenReport DEF GraphInv, TransactionsOK
<1>3. DOMAIN tx' = Process /\ \A q \in Process \ {p} : tx'[q] = tx[q]
  BY <1>1, <1>2
<1>4. tx'[p] = nobody \/ TxOK(tx'[p], Known, observations)
  <2>1. CASE done
    BY <1>1, <1>2, <2>1
  <2>2. CASE ~done
    <3>. DEFINE t == [tx[p] EXCEPT !.at = tx[p].at + 1, !.seen = seen]
    <3>1. tx'[p] = t
      BY <1>1, <1>2, <2>2
    <3>2. t = [kind |-> tx[p].kind, of |-> nobody, run |-> tx[p].run, at |-> tx[p].at + 1,
               seen |-> seen]
      <4>1. DOMAIN t = {"kind", "of", "run", "at", "seen"}
        BY <1>2
      <4>2. /\ t["kind"] = tx[p].kind /\ t["of"] = nobody /\ t["run"] = tx[p].run
            /\ t["at"] = tx[p].at + 1 /\ t["seen"] = seen
        BY <1>2
      <4>3. t = [x \in DOMAIN t |-> t[x]]
        BY <1>2
      <4>. HIDE DEF t
      <4> QED
        BY <4>1, <4>2, <4>3
    <3>3. tx[p].kind \in ReportKind /\ tx[p].at + 1 \in Nat
      BY <1>2
    <3>. HIDE DEF t
    <3>4. /\ t \in [kind : ReportKind, of : {nobody}, run : {t.run}, at : Nat, seen : {t.seen}]
          /\ t.kind = tx[p].kind /\ t.at = tx[p].at + 1 /\ t.seen = seen
      BY <3>2, <3>3
    <3>5. SeenOK(t.kind, t.at, t.seen, Known, observations)
      BY <2>2, <3>4
    <3> QED
      BY <3>1, <3>4, <3>5 DEF TxOK
  <2> QED
    BY <2>1, <2>2
<1>5. ReportAddsUp'
  <2>1. CASE done
    <3>1. report' = [kind |-> tx[p].kind, seen |-> seen]
      BY <1>1, <2>1
    <3>2. report'.kind = tx[p].kind /\ report'.seen = seen
      BY <3>1
    <3>3. AddsUp(report'.kind, report'.seen) /\ evidence' = evidence
      BY <1>1, <2>1, <3>2
    <3> QED
      BY <3>3 DEF AddsUp, ReportAddsUp
  <2>2. CASE ~done
    BY <1>1, <2>2, ReportKept
  <2> QED
    BY <2>1, <2>2
<1>6. GraphTypeOK'
  BY <1>1, QuietKeeps DEF GraphInv, GraphTypeOK
<1> QED
  BY <1>1, <1>3, <1>4, <1>5, <1>6, QuietKeeps, QuietTransactionsStep DEF GraphInv

(* A table is as large as its count says.                                  *)
LEMMA Sizes ==
  ASSUME GraphInv
  PROVE  /\ SizeOf("creators") = Cardinality(Known)
         /\ SizeOf("observations") = Cardinality(observations)
         /\ Cardinality(Known) \in Nat /\ Cardinality(observations) \in Nat
         /\ Cardinality(Known) <= Cardinality(observations)
BY KnownIsObserved DEF GraphInv, SizeOf

(* What a report has read, and what it reads next.                         *)
LEMMA JoinedFirst ==
  ASSUME NEW k
  PROVE  <<>> \o <<k>> = <<k>>
<1>1. <<k>> \in Seq({k})
  OBVIOUS
<1> QED
  BY <1>1, ConcatEmptySeq

LEMMA JoinedSecond ==
  ASSUME NEW a, NEW k
  PROVE  <<a>> \o <<k>> = <<a, k>>
<1>. DEFINE S == {a, k}
            s == <<a>> \o <<k>>
            t == <<a, k>>
<1>1. <<a>> \in Seq(S) /\ <<k>> \in Seq(S) /\ t \in Seq(S)
  OBVIOUS
<1>2. s \in Seq(S) /\ Len(s) = 2 /\ s[1] = a /\ s[2] = k
  BY <1>1
<1>3. Len(t) = 2 /\ t[1] = a /\ t[2] = k
  OBVIOUS
<1>. HIDE DEF s, t, S
<1>4. \A i \in 1..Len(s) : s[i] = t[i]
  BY <1>2, <1>3
<1>5. s = t
  BY <1>1, <1>2, <1>3, <1>4, SeqEqual
<1> QED
  BY <1>5 DEF s, t

LEMMA JoinedThird ==
  ASSUME NEW a, NEW b, NEW k
  PROVE  <<a, b>> \o <<k>> = <<a, b, k>>
<1>. DEFINE S == {a, b, k}
            s == <<a, b>> \o <<k>>
            t == <<a, b, k>>
<1>1. <<a, b>> \in Seq(S) /\ <<k>> \in Seq(S) /\ t \in Seq(S)
  OBVIOUS
<1>2. s \in Seq(S) /\ Len(s) = 3 /\ s[1] = a /\ s[2] = b /\ s[3] = k
  BY <1>1
<1>3. Len(t) = 3 /\ t[1] = a /\ t[2] = b /\ t[3] = k
  OBVIOUS
<1>. HIDE DEF s, t, S
<1>4. \A i \in 1..Len(s) : s[i] = t[i]
  BY <1>2, <1>3
<1>5. s = t
  BY <1>1, <1>2, <1>3, <1>4, SeqEqual
<1> QED
  BY <1>5 DEF s, t

LEMMA JoinedTotals ==
  ASSUME NEW a, NEW b, NEW c, NEW k, NEW o, NEW e
  PROVE  <<a, b, c>> \o <<k, o, e>> = <<a, b, c, k, o, e>>
<1>. DEFINE S == {a, b, c, k, o, e}
            s == <<a, b, c>> \o <<k, o, e>>
            t == <<a, b, c, k, o, e>>
<1>1. <<a, b, c>> \in Seq(S) /\ <<k, o, e>> \in Seq(S) /\ t \in Seq(S)
  OBVIOUS
<1>2. s \in Seq(S) /\ Len(s) = 6 /\ s[1] = a /\ s[2] = b /\ s[3] = c /\ s[4] = k /\ s[5] = o /\ s[6] = e
  BY <1>1
<1>3. Len(t) = 6 /\ t[1] = a /\ t[2] = b /\ t[3] = c /\ t[4] = k /\ t[5] = o /\ t[6] = e
  OBVIOUS
<1>. HIDE DEF s, t, S
<1>4. \A i \in 1..Len(s) : s[i] = t[i]
  BY <1>2, <1>3
<1>5. s = t
  BY <1>1, <1>2, <1>3, <1>4, SeqEqual
<1> QED
  BY <1>5 DEF s, t

LEMMA JoinedPlace ==
  ASSUME NEW a, NEW b, NEW c
  PROVE  <<a>> \o <<b, c>> = <<a, b, c>>
<1>. DEFINE S == {a, b, c}
            s == <<a>> \o <<b, c>>
            t == <<a, b, c>>
<1>1. <<a>> \in Seq(S) /\ <<b, c>> \in Seq(S) /\ t \in Seq(S)
  OBVIOUS
<1>2. s \in Seq(S) /\ Len(s) = 3 /\ s[1] = a /\ s[2] = b /\ s[3] = c
  BY <1>1
<1>3. Len(t) = 3 /\ t[1] = a /\ t[2] = b /\ t[3] = c
  OBVIOUS
<1>. HIDE DEF s, t, S
<1>4. \A i \in 1..Len(s) : s[i] = t[i]
  BY <1>2, <1>3
<1>5. s = t
  BY <1>1, <1>2, <1>3, <1>4, SeqEqual
<1> QED
  BY <1>5 DEF s, t

LEMMA JoinedItem ==
  ASSUME NEW a, NEW b, NEW c, NEW k
  PROVE  Append(<<a, b, c>>, k) = <<a, b, c, k>>
<1>. DEFINE S == {a, b, c, k}
            s == Append(<<a, b, c>>, k)
            t == <<a, b, c, k>>
<1>1. <<a, b, c>> \in Seq(S) /\ k \in S /\ t \in Seq(S)
  OBVIOUS
<1>2. s \in Seq(S) /\ Len(s) = 4 /\ s[1] = a /\ s[2] = b /\ s[3] = c /\ s[4] = k
  BY <1>1, AppendProperties
<1>3. Len(t) = 4 /\ t[1] = a /\ t[2] = b /\ t[3] = c /\ t[4] = k
  OBVIOUS
<1>. HIDE DEF s, t, S
<1>4. \A i \in 1..Len(s) : s[i] = t[i]
  BY <1>2, <1>3
<1>5. s = t
  BY <1>1, <1>2, <1>3, <1>4, SeqEqual
<1> QED
  BY <1>5 DEF s, t

LEMMA CoverageGrows ==
  ASSUME NEW at \in 0..4, NEW seen \in Seq(Nat), Len(seen) = at,
         NEW m \in Nat, NEW n \in Nat, m <= n, at < 4 => n = m,
         \A i \in 1..at : i <= 4 => seen[i] <= m,
         \A i \in 1..(at - 1) : seen[i] <= seen[i + 1]
  PROVE  /\ seen \o <<n>> \in Seq(Nat) /\ Len(seen \o <<n>>) = at + 1
         /\ \A i \in 1..(at + 1) : i <= 4 => (seen \o <<n>>)[i] <= m
         /\ \A i \in 1..at : (seen \o <<n>>)[i] <= (seen \o <<n>>)[i + 1]
<1>. DEFINE read == seen \o <<n>>
<1>1. /\ read \in Seq(Nat) /\ Len(read) = at + 1 /\ read[at + 1] = n
      /\ \A i \in 1..at : read[i] = seen[i]
  OBVIOUS
<1>2. \A i \in 1..at : seen[i] \in Nat
  OBVIOUS
<1>. HIDE DEF read
<1>3. \A i \in 1..(at + 1) : i <= 4 => read[i] <= m
  <2>. SUFFICES ASSUME NEW i \in 1..(at + 1), i <= 4 PROVE read[i] <= m
    OBVIOUS
  <2>1. i = at + 1 \/ i \in 1..at
    OBVIOUS
  <2> QED
    BY <1>1, <2>1
<1>4. \A i \in 1..at : read[i] <= read[i + 1]
  <2>. SUFFICES ASSUME NEW i \in 1..at PROVE read[i] <= read[i + 1]
    OBVIOUS
  <2>1. CASE i = at
    <3>1. read[i + 1] = n /\ read[i] = seen[i] /\ seen[i] <= m
      BY <1>1, <2>1
    <3> QED
      BY <1>2, <3>1
  <2>2. CASE i # at
    <3>1. i \in 1..(at - 1) /\ i + 1 \in 1..at
      BY <2>2
    <3> QED
      BY <1>1, <3>1
  <2> QED
    BY <2>1, <2>2
<1> QED
  BY <1>1, <1>3, <1>4 DEF read

LEMMA CoverageKeeps ==
  ASSUME GraphInv, NEW p \in Process, ReadCounts(p), tx[p].kind = "coverage"
  PROVE  GraphInv'
<1>1. tx[p] # nobody /\ tx[p].kind \in ReportKind
  BY DEF ReadCounts, Reads, ReportKind
<1>. DEFINE at == tx[p].at
            seen == tx[p].seen
            table == CoverageReads[at + 1][1]
            n == SizeOf(table)
            m == Cardinality(Known)
<1>2. /\ at \in Nat
      /\ SeenOK("coverage", at, seen, Known, observations)
  BY <1>1, OpenReport
<1>3. Sees(p, seen \o [i \in DOMAIN CoverageReads[at + 1] |-> SizeOf(CoverageReads[at + 1][i])],
           at + 1 = 6)
  BY DEF ReadCounts, ReadsOf, CoverageReads
<1>. HIDE DEF at, seen
<1>4. /\ at \in 0..5 /\ seen \in Seq(Nat) /\ Len(seen) = at
      /\ \A i \in 1..at : i <= 4 => AtMost(seen[i], Known)
      /\ \A i \in 1..(at - 1) : seen[i] <= seen[i + 1]
  <2>1. CASE at = 0 /\ seen = <<>>
    BY <2>1
  <2>2. CASE /\ at \in 1..5 /\ seen \in Seq(Nat) /\ Len(seen) = at
             /\ \A i \in 1..at : i <= 4 => AtMost(seen[i], Known)
             /\ \A i \in 1..(at - 1) : seen[i] <= seen[i + 1]
    BY <2>2
  <2> QED
    BY <1>2, <2>1, <2>2 DEF SeenOK
<1>5. /\ CoverageReads[at + 1] = <<table>>
      /\ at = 4 => table = "observations"
      /\ at < 4 => table = "creators"
  <2>1. ASSUME NEW i \in 1..6
        PROVE  /\ CoverageReads[i] = <<CoverageReads[i][1]>>
               /\ i = 5 => CoverageReads[i][1] = "observations"
               /\ i < 5 => CoverageReads[i][1] = "creators"
    <3>1. CASE i \in {1, 2, 3, 4}
      BY <3>1 DEF CoverageReads
    <3>2. CASE i = 5
      BY <3>2 DEF CoverageReads
    <3>3. CASE i = 6
      BY <3>3 DEF CoverageReads
    <3> QED
      BY <3>1, <3>2, <3>3
  <2>2. at + 1 \in 1..6 /\ (at = 4 => at + 1 = 5) /\ (at < 4 => at + 1 < 5)
    BY <1>4
  <2> QED
    BY <2>1, <2>2
<1>6. [i \in DOMAIN CoverageReads[at + 1] |-> SizeOf(CoverageReads[at + 1][i])] = <<n>>
  BY <1>5
<1>7. Sees(p, seen \o <<n>>, at + 1 = 6)
  BY <1>3, <1>6
<1>8. CASE at < 5
  <2>1. n \in Nat /\ m \in Nat /\ m <= n /\ (at < 4 => n = m)
    BY <1>4, <1>5, <1>8, Sizes
  <2>2. \A i \in 1..at : i <= 4 => seen[i] <= m
    BY <1>4 DEF AtMost
  <2>. HIDE DEF m, n
  <2>3. /\ seen \o <<n>> \in Seq(Nat) /\ Len(seen \o <<n>>) = at + 1
        /\ \A i \in 1..(at + 1) : i <= 4 => (seen \o <<n>>)[i] <= m
        /\ \A i \in 1..at : (seen \o <<n>>)[i] <= (seen \o <<n>>)[i + 1]
    <3>1. at \in 0..4
      BY <1>4, <1>8
    <3> QED
      BY <1>4, <2>1, <2>2, <3>1, CoverageGrows
  <2>. DEFINE read == seen \o <<n>>
  <2>. HIDE DEF read
  <2>4. /\ read \in Seq(Nat) /\ Len(read) = at + 1
        /\ \A i \in 1..(at + 1) : i <= 4 => read[i] <= m
        /\ \A i \in 1..at : read[i] <= read[i + 1]
    BY <2>3 DEF read
  <2>5. \A i \in 1..(at + 1) : i <= 4 => AtMost(read[i], Known)
    <3>1. \A i \in 1..(at + 1) : read[i] \in Nat
      <4>. DEFINE last == at + 1
      <4>1. last \in Nat /\ Len(read) = last /\ read \in Seq(Nat)
        BY <1>4, <2>4
      <4>. HIDE DEF last
      <4>2. \A i \in 1..last : read[i] \in Nat
        BY <4>1
      <4> QED
        BY <4>2 DEF last
    <3> QED
      BY <2>4, <3>1 DEF AtMost, m
  <2>6. at + 1 \in 1..5 /\ (at + 1) - 1 = at /\ ~(at + 1 = 6)
    BY <1>4, <1>8
  <2>7. SeenOK("coverage", at + 1, read, Known, observations)
    BY <2>4, <2>5, <2>6 DEF SeenOK
  <2>8. Sees(p, read, FALSE)
    BY <1>7, <2>6 DEF read
  <2> QED
    BY <1>1, <2>7, <2>8, SeesKeeps DEF at
<1>9. CASE at = 5
  <2>. DEFINE read == seen \o <<n>>
  <2>1. \A i \in 1..5 : read[i] = seen[i]
    <3>. HIDE DEF n
    <3>1. seen \in Seq(Nat \union {n})
      BY <1>4, SeqMonotonic
    <3>2. <<n>> \in Seq(Nat \union {n}) /\ Len(<<n>>) = 1
      OBVIOUS
    <3>3. \A i \in 1..(Len(seen) + Len(<<n>>)) :
            read[i] = IF i <= Len(seen) THEN seen[i] ELSE <<n>>[i - Len(seen)]
      BY <3>1, <3>2, ConcatProperties
    <3>4. Len(seen) = 5
      BY <1>4, <1>9
    <3>. HIDE DEF read
    <3> QED
      BY <3>2, <3>3, <3>4
  <2>. HIDE DEF read
  <2>2. \A i \in 1..4 : read[i] <= read[i + 1]
    <3>. SUFFICES ASSUME NEW i \in 1..4 PROVE read[i] <= read[i + 1]
      OBVIOUS
    <3>1. read[i] = seen[i] /\ read[i + 1] = seen[i + 1]
      BY <2>1
    <3> QED
      BY <1>4, <1>9, <3>1
  <2>3. AddsUp("coverage", read)
    BY <2>2 DEF AddsUp
  <2>4. (at + 1 = 6) = TRUE
    BY <1>9
  <2>5. Sees(p, read, TRUE)
    BY <1>7, <2>4 DEF read
  <2> QED
    BY <1>1, <2>3, <2>5, SeesKeeps
<1> QED
  BY <1>4, <1>8, <1>9

LEMMA StatusKeeps ==
  ASSUME GraphInv, NEW p \in Process, ReadCounts(p), tx[p].kind = "status"
  PROVE  GraphInv'
<1>. DEFINE at == tx[p].at
            seen == tx[p].seen
            tables == StatusReads[at + 1]
            K == SizeOf("creators")
            O == SizeOf("observations")
<1>1. tx[p] # nobody /\ tx[p].kind \in ReportKind
  BY DEF ReadCounts, Reads, ReportKind
<1>2. /\ at \in Nat /\ SeenOK("status", at, seen, Known, observations)
  BY <1>1, OpenReport
<1>3. Sees(p, seen \o [i \in DOMAIN tables |-> SizeOf(tables[i])], at + 1 = 4)
  BY DEF ReadCounts, ReadsOf, StatusReads
<1>4. K = Cardinality(Known) /\ O = Cardinality(observations) /\ K \in Nat /\ O \in Nat /\ K <= O
  BY Sizes
<1>5. at \in 0..3
  BY <1>2 DEF SeenOK
<1>. HIDE DEF K, O, at, seen
<1>6. CASE at = 0
  <2>1. seen = <<>> /\ tables = <<"creators">>
    BY <1>2, <1>6 DEF SeenOK, StatusReads
  <2>2. [i \in DOMAIN tables |-> SizeOf(tables[i])] = <<K>>
    BY <2>1 DEF K
  <2>3. (at + 1 = 4) = FALSE /\ seen \o <<K>> = <<K>>
    BY <1>6, <2>1, JoinedFirst
  <2>4. Sees(p, <<K>>, FALSE)
    BY <1>3, <2>2, <2>3
  <2>5. SeenOK("status", at + 1, <<K>>, Known, observations)
    BY <1>4, <1>6 DEF SeenOK, AtMost
  <2> QED
    BY <1>1, <2>4, <2>5, SeesKeeps DEF at
<1>7. CASE at = 1
  <2>1. seen = <<seen[1]>> /\ AtMost(seen[1], Known) /\ tables = <<"creators">>
    BY <1>2, <1>7 DEF SeenOK, StatusReads
  <2>2. [i \in DOMAIN tables |-> SizeOf(tables[i])] = <<K>>
    BY <2>1 DEF K
  <2>. DEFINE a == seen[1]
  <2>3. seen = <<a>> /\ AtMost(a, Known)
    BY <2>1
  <2>. HIDE DEF a
  <2>4. (at + 1 = 4) = FALSE /\ seen \o <<K>> = <<a, K>>
    <3>1. (at + 1 = 4) = FALSE
      BY <1>7
    <3>2. <<a>> \o <<K>> = <<a, K>>
      BY JoinedSecond
    <3> QED
      BY <2>3, <3>1, <3>2
  <2>5. Sees(p, <<a, K>>, FALSE)
    BY <1>3, <2>2, <2>4
  <2>6. SeenOK("status", at + 1, <<a, K>>, Known, observations)
    BY <1>4, <1>7, <2>3 DEF SeenOK, AtMost
  <2> QED
    BY <1>1, <2>5, <2>6, SeesKeeps DEF at
<1>8. CASE at = 2
  <2>1. /\ seen = <<seen[1], seen[2]>> /\ AtMost(seen[1], Known) /\ AtMost(seen[2], Known)
        /\ seen[1] <= seen[2] /\ tables = <<"observations">>
    BY <1>2, <1>8 DEF SeenOK, StatusReads
  <2>2. [i \in DOMAIN tables |-> SizeOf(tables[i])] = <<O>>
    BY <2>1 DEF O
  <2>. DEFINE a == seen[1]
              b == seen[2]
  <2>3. seen = <<a, b>> /\ AtMost(a, Known) /\ AtMost(b, Known) /\ a <= b
    BY <2>1
  <2>. HIDE DEF a, b
  <2>4. (at + 1 = 4) = FALSE /\ seen \o <<O>> = <<a, b, O>>
    <3>1. (at + 1 = 4) = FALSE
      BY <1>8
    <3>2. <<a, b>> \o <<O>> = <<a, b, O>>
      BY JoinedThird
    <3> QED
      BY <2>3, <3>1, <3>2
  <2>5. Sees(p, <<a, b, O>>, FALSE)
    BY <1>3, <2>2, <2>4
  <2>6. SeenOK("status", at + 1, <<a, b, O>>, Known, observations)
    BY <1>4, <1>8, <2>3 DEF SeenOK, AtMost
  <2> QED
    BY <1>1, <2>5, <2>6, SeesKeeps DEF at
<1>9. CASE at = 3
  <2>1. /\ seen = <<seen[1], seen[2], seen[3]>> /\ AtMost(seen[1], Known)
        /\ AtMost(seen[2], Known) /\ seen[1] <= seen[2] /\ AtMost(seen[3], observations)
        /\ tables = <<"creators", "observations", "edges">>
    BY <1>2, <1>9 DEF SeenOK, StatusReads
  <2>. DEFINE a == seen[1]
              b == seen[2]
              c == seen[3]
              E == SizeOf("edges")
  <2>2. [i \in DOMAIN tables |-> SizeOf(tables[i])] = <<K, O, E>>
    BY <2>1 DEF K, O
  <2>3. /\ seen = <<a, b, c>> /\ AtMost(a, Known) /\ AtMost(b, Known) /\ a <= b
        /\ AtMost(c, observations)
    BY <2>1
  <2>. HIDE DEF a, b, c, E
  <2>4. (at + 1 = 4) = TRUE /\ seen \o <<K, O, E>> = <<a, b, c, K, O, E>>
    <3>1. (at + 1 = 4) = TRUE
      BY <1>9
    <3>2. <<a, b, c>> \o <<K, O, E>> = <<a, b, c, K, O, E>>
      BY JoinedTotals
    <3> QED
      BY <2>3, <3>1, <3>2
  <2>5. Sees(p, <<a, b, c, K, O, E>>, TRUE)
    BY <1>3, <2>2, <2>4
  <2>6. AddsUp("status", <<a, b, c, K, O, E>>)
    BY <1>4, <2>3 DEF AddsUp, AtMost
  <2> QED
    BY <1>1, <2>5, <2>6, SeesKeeps DEF at
<1> QED
  BY <1>5, <1>6, <1>7, <1>8, <1>9

LEMMA QueueKeeps ==
  ASSUME GraphInv, NEW p \in Process,
         ReadTotal(p) \/ ReadPlace(p) \/ PlaceGone(p) \/ ReadItem(p)
  PROVE  GraphInv'
<1>. DEFINE at == tx[p].at
            seen == tx[p].seen
<1>1. tx[p] # nobody /\ tx[p].kind = "queue" /\ tx[p].kind \in ReportKind
  BY DEF ReadTotal, ReadPlace, PlaceGone, ReadItem, Reads, ReportKind
<1>2. SeenOK("queue", at, seen, Known, observations)
  BY <1>1, OpenReport
<1>3. Cardinality(unreviewed) \in Nat
  <2>1. IsFiniteSet(unreviewed)
    BY KnownIsObserved, FS_Subset DEF GraphInv, GraphTypeOK
  <2> QED
    BY <2>1, FS_CardinalityType
<1>4. CASE ReadTotal(p)
  <2>. DEFINE total == Cardinality(unreviewed)
              none == unreviewed = {}
  <2>1. at = 0 /\ Sees(p, <<total>>, none) /\ none \in BOOLEAN
    BY <1>4 DEF ReadTotal
  <2>. HIDE DEF total, none
  <2>2. SeenOK("queue", at + 1, <<total>>, Known, observations)
    BY <1>3, <2>1 DEF SeenOK, total
  <2>3. AddsUp("queue", <<total>>)
    BY DEF AddsUp
  <2> QED
    BY <1>1, <2>1, <2>2, <2>3, SeesKeeps
<1>5. CASE ReadPlace(p)
  <2>1. PICK offset \in 0..(seen[1] - 1) : \E d \in unreviewed :
          Sees(p, seen \o <<offset, d>>, FALSE)
    BY <1>5 DEF ReadPlace
  <2>2. PICK d \in unreviewed : Sees(p, seen \o <<offset, d>>, FALSE)
    BY <2>1
  <2>3. at = 1
    BY <1>5 DEF ReadPlace
  <2>. DEFINE a == seen[1]
  <2>4. seen = <<a>> /\ a \in Nat /\ offset < a
    <3>1. seen = <<a>> /\ a \in Nat
      BY <1>2, <2>3 DEF SeenOK
    <3> QED
      BY <3>1
  <2>5. Sees(p, <<a, offset, d>>, FALSE)
    <3>. HIDE DEF a, seen
    <3>1. <<a>> \o <<offset, d>> = <<a, offset, d>>
      BY JoinedPlace
    <3> QED
      BY <2>2, <2>4, <3>1
  <2>. HIDE DEF a
  <2>6. d \in Known
    BY DEF GraphInv, GraphTypeOK
  <2>7. SeenOK("queue", at + 1, <<a, offset, d>>, Known, observations)
    BY <2>3, <2>4, <2>6 DEF SeenOK
  <2> QED
    BY <1>1, <2>5, <2>7, SeesKeeps
<1>6. CASE PlaceGone(p)
  <2>1. /\ UNCHANGED <<creators, depths, observations, evidence, support, told>>
        /\ UNCHANGED <<media, unreviewed, due, run, report, begun>>
        /\ tx' = [tx EXCEPT ![p] = nobody]
    BY <1>6 DEF PlaceGone
  <2>2. /\ DOMAIN tx' = Process /\ \A q \in Process \ {p} : tx'[q] = tx[q]
        /\ tx'[p] = nobody
    BY <2>1 DEF GraphInv, TransactionsOK
  <2>3. GraphTypeOK'
    BY <2>1, QuietKeeps DEF GraphInv, GraphTypeOK
  <2> QED
    BY <2>1, <2>2, <2>3, QuietKeeps, QuietTransactionsStep, ReportKept DEF GraphInv
<1>7. CASE ReadItem(p)
  <2>. DEFINE a == seen[1]
              b == seen[2]
              d == seen[3]
              n == Cardinality(ObservationsOf(d))
  <2>1. at = 2 /\ Sees(p, Append(seen, n), TRUE)
    BY <1>7 DEF ReadItem
  <2>2. seen = <<a, b, d>> /\ b < a /\ d \in Known
    BY <1>2, <2>1 DEF SeenOK
  <2>3. n \in Nat \ {0}
    BY <2>2, KnownIsObserved DEF GraphInv
  <2>. HIDE DEF a, b, d, n, seen
  <2>4. Append(seen, n) = <<a, b, d, n>>
    <3>1. Append(<<a, b, d>>, n) = <<a, b, d, n>>
      BY JoinedItem
    <3> QED
      BY <2>2, <3>1
  <2>5. Sees(p, <<a, b, d, n>>, TRUE)
    BY <2>1, <2>4
  <2>6. AddsUp("queue", <<a, b, d, n>>)
    BY <2>2, <2>3 DEF AddsUp
  <2> QED
    BY <1>1, <2>5, <2>6, SeesKeeps
<1> QED
  BY <1>4, <1>5, <1>6, <1>7

(* An edge that has support has evidence.                                  *)
LEMMA SupportedByEvidence ==
  ASSUME GraphInv, NEW e \in Edge, support[e] > 0
  PROVE  \E r \in evidence : r[1] = e
<1>1. CASE SuggestionEdge(e)
  <2>1. Behind(e) # {}
    <3>. SUFFICES ASSUME Behind(e) = {} PROVE FALSE
      OBVIOUS
    <3>1. Keys(Behind(e)) = {}
      BY DEF Keys
    <3>2. support[e] = 0
      BY <1>1, <3>1, FS_EmptySet DEF GraphInv, EdgesSumUp
    <3> QED
      BY <3>2
  <2>2. PICK o \in observations : EdgeOf(o.key) = e /\ e[1] # e[2]
    BY <2>1 DEF Behind
  <2>3. o.key.parent # o.key.did
    BY <2>2 DEF EdgeOf
  <2>4. <<e, o>> \in evidence
    BY <2>2, <2>3 DEF GraphInv, ObservationsOK
  <2> QED
    BY <2>4
<1>2. CASE ~SuggestionEdge(e)
  <2>1. Refs(e, evidence) # {}
    <3>. SUFFICES ASSUME Refs(e, evidence) = {} PROVE FALSE
      OBVIOUS
    <3>1. support[e] = 0
      BY <1>2, FS_EmptySet DEF GraphInv, EdgesSumUp
    <3> QED
      BY <3>1
  <2> QED
    BY <2>1 DEF Refs, RowsOn
<1> QED
  BY <1>1, <1>2

LEMMA MapKeeps ==
  ASSUME GraphInv, NEW p \in Process, ReadNodes(p) \/ ReadEdges(p)
  PROVE  GraphInv'
<1>1. tx[p] # nobody /\ tx[p].kind = "map" /\ tx[p].kind \in ReportKind
  BY DEF ReadNodes, ReadEdges, Reads, ReportKind
<1>2. CASE ReadNodes(p)
  <2>1. tx[p].at = 0 /\ Sees(p, <<Known>>, FALSE)
    BY <1>2 DEF ReadNodes
  <2>2. SeenOK("map", tx[p].at + 1, <<Known>>, Known, observations)
    BY <2>1 DEF SeenOK
  <2> QED
    BY <1>1, <2>1, <2>2, SeesKeeps
<1>3. CASE ReadEdges(p)
  <2>. DEFINE nodes == tx[p].seen[1]
              edges == {e \in Edge : support[e] > 0 /\ e[1] \in nodes /\ e[2] \in nodes}
  <2>1. Sees(p, <<nodes, edges>>, TRUE)
    BY <1>3 DEF ReadEdges
  <2>2. \A e \in edges : \E r \in evidence : r[1] = e
    BY SupportedByEvidence
  <2>. HIDE DEF nodes, edges
  <2>3. AddsUp("map", <<nodes, edges>>)
    BY <2>2 DEF AddsUp
  <2> QED
    BY <1>1, <2>1, <2>3, SeesKeeps
<1> QED
  BY <1>2, <1>3

-----------------------------------------------------------------------------
LEMMA OpenWork ==
  ASSUME GraphInv, NEW p \in Process, tx[p] # nobody
  PROVE  /\ tx[p].kind = "suggest" =>
              /\ tx[p].of \in Suggestion
              /\ tx[p].known => tx[p].of.did \in Known
         /\ tx[p].kind \in {"hydrate", "sample", "profile"} => tx[p].of \in Known
         /\ tx[p].kind = "sample" => tx[p].feed \in Feeds[tx[p].of]
         /\ DOMAIN tx = Process
BY DEF GraphInv, TransactionsOK, TxOK, ReportKind

LEMMA WherePlaced ==
  ASSUME ObservationsOK, NEW o \in observations
  PROVE  o.key.did \in Did /\ o.key.did \in Entity /\ o.key.parent \in Entity
<1>1. PICK s \in Suggestion : o.key = KeyOf(s)
  BY DEF ObservationsOK
<1>2. o.key.did = s.did /\ o.key.parent = s.parent
  BY <1>1 DEF KeyOf
<1> QED
  BY <1>2, SuggestionAssumption DEF Entity

LEMMA ShallowerDepth ==
  ASSUME NEW old \in Nat \union {nobody}, NEW n \in Nat
  PROVE  /\ Shallower(old, n) \in Nat /\ Shallower(old, n) <= n
         /\ old \in Nat => Shallower(old, n) <= old
BY NobodyAssumption DEF Shallower

LEMMA CommitHydrationKeeps ==
  ASSUME GraphInv, NEW p \in Process, CommitHydration(p)
  PROVE  GraphInv'
<1>. DEFINE d == tx[p].of
<1>1. /\ tx[p] # nobody /\ tx[p].kind = "hydrate"
      /\ creators' = [creators EXCEPT ![d].depth = Shallower(creators[d].depth, 0)]
      /\ unreviewed' \in {unreviewed, unreviewed \ {d}}
      /\ tx' = [tx EXCEPT ![p] = nobody]
      /\ UNCHANGED <<depths, observations, evidence, support, media, told, due, run, report>>
      /\ begun' = begun
  BY DEF CommitHydration, Writing
<1>2. d \in Known /\ d \in Did /\ DOMAIN tx = Process
  BY <1>1, OpenWork DEF Known
<1>3. creators[d] \in CreatorRow /\ creators \in [Did -> CreatorRow \union {nobody}]
  BY <1>2 DEF GraphInv, GraphTypeOK, Known
<1>. HIDE DEF d
<1>4. Shallower(creators[d].depth, 0) \in Nat /\ Shallower(creators[d].depth, 0) <= creators[d].depth
  BY <1>3, ShallowerDepth DEF CreatorRow
<1>5. /\ creators' \in [Did -> CreatorRow \union {nobody}]
      /\ creators'[d] \in CreatorRow /\ creators'[d].count = creators[d].count
      /\ creators'[d].depth <= creators[d].depth
      /\ \A x \in Did \ {d} : creators'[x] = creators[x]
  BY <1>1, <1>2, <1>3, <1>4 DEF CreatorRow
<1>6. Known' = Known
  BY <1>2, <1>3, <1>5, NobodyAssumption DEF Known
<1>7. \A x : ObservationsOf(x)' = ObservationsOf(x)
  BY <1>1 DEF ObservationsOf
<1>8. \A e : Behind(e)' = Behind(e)
  BY <1>1 DEF Behind
<1>9. ObservationsOK' /\ EvidenceOK'
  BY <1>1, <1>6 DEF GraphInv, ObservationsOK, EvidenceOK
<1>10. \A x \in Known : creators'[x].count = creators[x].count /\ creators'[x].depth <= creators[x].depth
  <2>. SUFFICES ASSUME NEW x \in Known
                PROVE  /\ creators'[x].count = creators[x].count
                       /\ creators'[x].depth <= creators[x].depth
    OBVIOUS
  <2>1. x \in Did /\ creators[x] \in CreatorRow
    BY <1>3 DEF Known
  <2>2. creators[x].depth \in Nat
    BY <2>1 DEF CreatorRow
  <2> QED
    BY <1>5, <2>1, <2>2
<1>11. CreatorsSumUp'
  BY <1>1, <1>6, <1>7, <1>10 DEF GraphInv, CreatorsSumUp
<1>12. EdgesSumUp'
  BY <1>1, <1>8 DEF GraphInv, EdgesSumUp
<1>13. DepthsOK'
  <2>. SUFFICES ASSUME NEW o \in observations
                PROVE  creators'[o.key.did].depth <= o.depth
    BY <1>1 DEF GraphInv, DepthsOK
  <2>1. o.key.did \in Known /\ o.depth \in Nat /\ creators[o.key.did].depth <= o.depth
    BY DEF GraphInv, ObservationsOK, DepthsOK
  <2>2. creators[o.key.did] \in CreatorRow /\ creators'[o.key.did] \in CreatorRow
    BY <1>3, <1>5, <1>6, <2>1 DEF Known
  <2> QED
    BY <1>10, <2>1, <2>2 DEF CreatorRow
<1>14. GraphTypeOK'
  <2>1. unreviewed' \subseteq Known
    BY <1>1 DEF GraphInv, GraphTypeOK
  <2> QED
    BY <1>1, <1>5, <1>6, <2>1 DEF GraphInv, GraphTypeOK
<1>15. TransactionsOK'
  <2>1. DOMAIN tx' = Process /\ (\A q \in Process \ {p} : tx'[q] = tx[q]) /\ tx'[p] = nobody
    BY <1>1, <1>2
  <2>2. IsFiniteSet(Known') /\ IsFiniteSet(observations') /\ observations' = observations
    BY <1>1, <1>6, KnownIsObserved DEF GraphInv, ObservationsOK
  <2> QED
    BY <1>6, <2>1, <2>2, TransactionsStep
<1>16. ReportAddsUp'
  BY <1>1, ReportKept
<1> QED
  BY <1>9, <1>11, <1>12, <1>13, <1>14, <1>15, <1>16 DEF GraphInv

LEMMA CommitProfileKeeps ==
  ASSUME GraphInv, NEW p \in Process, CommitProfile(p)
  PROVE  GraphInv'
<1>1. /\ UNCHANGED <<creators, depths, observations, evidence, support, told>>
      /\ UNCHANGED <<media, run, report, begun>>
      /\ tx[p] # nobody /\ tx[p].kind = "profile"
      /\ unreviewed' \in {unreviewed \union {tx[p].of}, unreviewed \ {tx[p].of}}
      /\ due' = [due EXCEPT ![p] = due[p] \ {tx[p].of}]
      /\ tx' = [tx EXCEPT ![p] = nobody]
  BY DEF CommitProfile, Writing
<1>2. tx[p].of \in Known
  BY <1>1, OpenWork
<1>3. /\ DOMAIN tx' = Process /\ \A q \in Process \ {p} : tx'[q] = tx[q]
      /\ tx'[p] = nobody
  BY <1>1 DEF GraphInv, TransactionsOK
<1>4. GraphTypeOK'
  <2>1. unreviewed' \subseteq Known /\ due' \in [Process -> SUBSET Known]
    BY <1>1, <1>2 DEF GraphInv, GraphTypeOK
  <2> QED
    BY <1>1, <2>1, QuietKeeps DEF GraphInv, GraphTypeOK
<1> QED
  BY <1>1, <1>3, <1>4, QuietKeeps, QuietTransactionsStep, ReportKept DEF GraphInv

(* What a sample writes is finite, and no edge of it stands for a           *)
(* suggestion.                                                              *)
LEMMA SuggestionsAreNoImages ==
  ASSUME NEW e, SuggestionEdge(e)
  PROVE  e[3] \notin ImageEdge
BY SuggestionAssumption DEF SuggestionEdge, EdgeOf

LEMMA ShotRows ==
  ASSUME NEW d, NEW shot
  PROVE  /\ IsFiniteSet(EvidenceOfShot(d, shot))
         /\ \A r \in EvidenceOfShot(d, shot) : r = <<r[1], r[2]>> /\ r[1][3] \in ImageEdge
<1>. DEFINE self == {Authored(d, shot), Attached(shot)}
            other == IF shot.quoted \in Did \ {d} THEN {Quoted(d, shot)} ELSE {}
<1>1. IsFiniteSet(self)
  <2>1. IsFiniteSet({Authored(d, shot)}) /\ IsFiniteSet({Attached(shot)})
    BY FS_Singleton
  <2>2. self = {Authored(d, shot)} \union {Attached(shot)}
    OBVIOUS
  <2> QED
    BY <2>1, <2>2, FS_Union
<1>2. IsFiniteSet(other)
  BY FS_Singleton, FS_EmptySet
<1>3. IsFiniteSet(EdgesOfShot(d, shot))
  BY <1>1, <1>2, FS_Union DEF EdgesOfShot
<1>4. IsFiniteSet({<<shot.image, shot.cid>>})
  BY FS_Singleton
<1>5. IsFiniteSet(EvidenceOfShot(d, shot))
  BY <1>3, <1>4, FS_Product DEF EvidenceOfShot
<1>6. \A e \in EdgesOfShot(d, shot) : e[3] \in ImageEdge
  BY DEF EdgesOfShot, Authored, Attached, Quoted, ImageEdge
<1>7. \A r \in EvidenceOfShot(d, shot) : r = <<r[1], r[2]>> /\ r[1] \in EdgesOfShot(d, shot)
  BY DEF EvidenceOfShot
<1> QED
  BY <1>5, <1>6, <1>7

RowsOfSample(d, shots) == UNION {EvidenceOfShot(d, shot) : shot \in shots}
LEMMA SampleRows ==
  ASSUME NEW d \in Did, NEW feed \in Feeds[d]
  PROVE  /\ IsFiniteSet(RowsOfSample(d, ToSet(feed)))
         /\ \A r \in RowsOfSample(d, ToSet(feed)) : r = <<r[1], r[2]>> /\ r[1][3] \in ImageEdge
<1>. DEFINE shots == ToSet(feed)
            parts == {EvidenceOfShot(d, shot) : shot \in shots}
<1>1. feed \in Seq(Shots)
  BY FeedsAssumption
<1>2. IsFiniteSet(shots)
  <2>1. IsFiniteSet(1..Len(feed))
    <3>1. Len(feed) \in Int /\ 1 \in Int
      BY <1>1
    <3> QED
      BY <3>1, FS_Interval
  <2>2. [i \in 1..Len(feed) |-> feed[i]] \in Surjection(1..Len(feed), shots)
    BY <1>1 DEF Surjection, ToSet
  <2> QED
    BY <2>1, <2>2, FS_Surjection DEF ExistsSurjection
<1>3. IsFiniteSet(parts)
  <2>1. [shot \in shots |-> EvidenceOfShot(d, shot)] \in Surjection(shots, parts)
    BY DEF Surjection
  <2> QED
    BY <1>2, <2>1, FS_Surjection DEF ExistsSurjection
<1>4. IsFiniteSet(UNION parts)
  BY <1>3, ShotRows, FS_UNION
<1>5. \A r \in UNION parts : r = <<r[1], r[2]>> /\ r[1][3] \in ImageEdge
  BY ShotRows
<1> QED
  BY <1>4, <1>5 DEF RowsOfSample

LEMMA CommitSampleKeeps ==
  ASSUME GraphInv, NEW p \in Process, CommitSample(p)
  PROVE  GraphInv'
<1>. DEFINE d == tx[p].of
            shots == ToSet(tx[p].feed)
            refs == UNION {{shot.post, shot.image, shot.quoted} : shot \in shots} \ {d, nobody}
            rows == RowsOfSample(d, shots)
<1>1. /\ tx[p] # nobody /\ tx[p].kind = "sample"
      /\ DepthsUpserted(refs, 0) /\ Supported(rows)
      /\ due' = [due EXCEPT ![p] = due[p] \union {d}]
      /\ tx' = [tx EXCEPT ![p] = nobody]
      /\ UNCHANGED <<creators, observations, told, unreviewed, run, report, begun>>
  BY DEF CommitSample, Writing, RowsOfSample
<1>2. d \in Known /\ d \in Did /\ tx[p].feed \in Feeds[d] /\ DOMAIN tx = Process
  BY <1>1, OpenWork DEF Known
<1>3. IsFiniteSet(rows) /\ \A r \in rows : r = <<r[1], r[2]>> /\ r[1][3] \in ImageEdge
  BY <1>2, SampleRows
<1>4. evidence' = evidence \union rows
      /\ support' = [e \in Edge |->
                       support[e] + Cardinality({r \in rows \ evidence : r[1] = e})]
  BY <1>1 DEF Supported
<1>5. depths' = [x \in Entity |-> IF x \in refs THEN Shallower(depths[x], 0) ELSE depths[x]]
  BY <1>1 DEF DepthsUpserted
<1>. HIDE DEF d, shots, refs, rows
<1>6. Known' = Known /\ \A x : ObservationsOf(x)' = ObservationsOf(x)
  BY <1>1 DEF Known, ObservationsOf
<1>7. \A e : Behind(e)' = Behind(e)
  BY <1>1 DEF Behind
<1>8. EvidenceOK'
  <2>1. IsFiniteSet(evidence')
    BY <1>3, <1>4, FS_Union DEF GraphInv, EvidenceOK
  <2> QED
    BY <1>1, <1>3, <1>4, <2>1 DEF GraphInv, EvidenceOK
<1>9. ObservationsOK'
  BY <1>1, <1>4, <1>6 DEF GraphInv, ObservationsOK
<1>10. CreatorsSumUp'
  BY <1>1, <1>6 DEF GraphInv, CreatorsSumUp
<1>11. \A e : /\ Cardinality(Refs(e, evidence \union rows)) =
                   Cardinality(Refs(e, evidence)) + Cardinality({r \in rows \ evidence : r[1] = e})
              /\ Cardinality({r \in rows \ evidence : r[1] = e}) \in Nat
  BY <1>3, RefsGrow DEF GraphInv, EvidenceOK
<1>12. EdgesSumUp'
  <2>. SUFFICES ASSUME NEW e \in Edge
                PROVE  support'[e] = IF SuggestionEdge(e) THEN Cardinality(Keys(Behind(e)))
                                     ELSE Cardinality(Refs(e, evidence'))
    BY <1>7 DEF EdgesSumUp
  <2>1. CASE SuggestionEdge(e)
    <3>1. {r \in rows \ evidence : r[1] = e} = {}
      BY <1>3, <2>1, SuggestionsAreNoImages
    <3>2. support'[e] = support[e] + 0
      BY <1>4, <3>1, FS_EmptySet
    <3>3. support[e] \in Nat
      BY DEF GraphInv, GraphTypeOK
    <3> QED
      BY <2>1, <3>2, <3>3 DEF GraphInv, EdgesSumUp
  <2>2. CASE ~SuggestionEdge(e)
    BY <1>4, <1>11, <2>2 DEF GraphInv, EdgesSumUp
  <2> QED
    BY <2>1, <2>2
<1>13. \A x \in Entity : /\ depths'[x] \in Nat \union {nobody}
                         /\ depths[x] \in Nat => depths'[x] \in Nat /\ depths'[x] <= depths[x]
  <2>. SUFFICES ASSUME NEW x \in Entity
                PROVE  /\ depths'[x] \in Nat \union {nobody}
                       /\ depths[x] \in Nat => depths'[x] \in Nat /\ depths'[x] <= depths[x]
    OBVIOUS
  <2>1. depths[x] \in Nat \union {nobody}
    BY DEF GraphInv, GraphTypeOK
  <2>2. depths'[x] = IF x \in refs THEN Shallower(depths[x], 0) ELSE depths[x]
    BY <1>5
  <2>3. CASE x \in refs
    BY <2>1, <2>2, <2>3, ShallowerDepth
  <2>4. CASE x \notin refs
    BY <2>1, <2>2, <2>4
  <2> QED
    BY <2>3, <2>4
<1>14. DepthsOK'
  <2>. SUFFICES ASSUME NEW o \in observations
                PROVE  /\ creators[o.key.did].depth <= o.depth
                       /\ depths'[o.key.did] \in Nat /\ depths'[o.key.did] <= o.depth
                       /\ depths'[o.key.parent] \in Nat /\ depths'[o.key.parent] <= o.depth
    BY <1>1 DEF DepthsOK
  <2>1. o.key.did \in Entity /\ o.key.parent \in Entity
    BY WherePlaced DEF GraphInv
  <2>2. /\ o.depth \in Nat /\ creators[o.key.did].depth <= o.depth
        /\ depths[o.key.did] \in Nat /\ depths[o.key.did] <= o.depth
        /\ depths[o.key.parent] \in Nat /\ depths[o.key.parent] <= o.depth
    BY DEF GraphInv, ObservationsOK, DepthsOK
  <2> QED
    BY <1>13, <2>1, <2>2
<1>15. GraphTypeOK'
  <2>1. support' \in [Edge -> Nat]
    <3>1. \A e \in Edge :
            support[e] + Cardinality({r \in rows \ evidence : r[1] = e}) \in Nat
      <4>. SUFFICES ASSUME NEW e \in Edge
                    PROVE  support[e] + Cardinality({r \in rows \ evidence : r[1] = e}) \in Nat
        OBVIOUS
      <4>1. support[e] \in Nat
        BY DEF GraphInv, GraphTypeOK
      <4>2. Cardinality({r \in rows \ evidence : r[1] = e}) \in Nat
        BY <1>11
      <4> QED
        BY <4>1, <4>2
    <3> QED
      BY <1>4, <3>1
  <2>2. depths' \in [Entity -> Nat \union {nobody}]
    BY <1>5, <1>13
  <2>3. due' \in [Process -> SUBSET Known]
    BY <1>1, <1>2 DEF GraphInv, GraphTypeOK
  <2> QED
    BY <1>1, <1>6, <2>1, <2>2, <2>3 DEF GraphInv, GraphTypeOK
<1>16. TransactionsOK'
  <2>1. DOMAIN tx' = Process /\ (\A q \in Process \ {p} : tx'[q] = tx[q]) /\ tx'[p] = nobody
    BY <1>1, <1>2
  <2>2. IsFiniteSet(Known') /\ IsFiniteSet(observations') /\ observations' = observations
    BY <1>1, <1>6, KnownIsObserved DEF GraphInv, ObservationsOK
  <2> QED
    BY <1>6, <2>1, <2>2, TransactionsStep
<1>17. ReportAddsUp'
  BY <1>1, <1>4, ReportKept
<1> QED
  BY <1>8, <1>9, <1>10, <1>12, <1>14, <1>15, <1>16, <1>17 DEF GraphInv

(* A suggestion adds one observation, or none when it is replayed.          *)
LEMMA CommitSuggestionKeeps ==
  ASSUME GraphInv, NEW p \in Process, CommitSuggestion(p)
  PROVE  GraphInv'
<1>. DEFINE s == tx[p].of
            d == s.did
            new == ~Replayed(s, tx[p].run)
            n == IF new THEN 1 ELSE 0
            mark == [key |-> KeyOf(s), depth |-> s.depth, run |-> tx[p].run]
            added == IF new THEN {mark} ELSE {}
            rows == IF new /\ s.parent # s.did THEN {<<EdgeOf(s), mark>>} ELSE {}
<1>1. /\ tx[p] # nobody /\ tx[p].kind = "suggest"
      /\ creators' = [creators EXCEPT ![d] =
           IF creators[d] = nobody THEN [depth |-> s.depth, count |-> n]
           ELSE [depth |-> Shallower(creators[d].depth, s.depth), count |-> creators[d].count + n]]
      /\ DepthsUpserted({s.parent, d}, s.depth)
      /\ observations' = observations \union added
      /\ Supported(rows)
      /\ told' = [told EXCEPT ![d] = IF new /\ ~tx[p].known THEN told[d] + 1 ELSE told[d]]
      /\ tx' = [tx EXCEPT ![p] = Opened("hydrate", d, p)]
      /\ UNCHANGED <<media, unreviewed, due, run, report, begun>>
  BY DEF CommitSuggestion, Writing
<1>2. /\ s \in Suggestion /\ (tx[p].known => d \in Known) /\ DOMAIN tx = Process
      /\ d \in Did /\ s.depth \in Nat /\ s.edge \notin ImageEdge
      /\ s.parent \in Entity /\ d \in Entity
  BY <1>1, OpenWork, SuggestionAssumption DEF Entity
<1>3. /\ mark.key = KeyOf(s) /\ mark.depth = s.depth
      /\ mark.key.did = d /\ mark.key.parent = s.parent /\ EdgeOf(mark.key) = EdgeOf(s)
      /\ EdgeOf(s)[1] = s.parent /\ EdgeOf(s)[2] = d /\ EdgeOf(s)[3] = s.edge
  BY DEF KeyOf, EdgeOf
<1>4. /\ new => \A o \in observations : o.key # mark.key
      /\ ~new => d \in Known
  BY <1>3 DEF Replayed, GraphInv, ObservationsOK
<1>5. /\ evidence' = evidence \union rows
      /\ support' = [e \in Edge |->
                       support[e] + Cardinality({r \in rows \ evidence : r[1] = e})]
  BY <1>1 DEF Supported
<1>6. depths' = [x \in Entity |-> IF x \in {s.parent, d} THEN Shallower(depths[x], s.depth)
                                  ELSE depths[x]]
  BY <1>1 DEF DepthsUpserted
<1>7. n \in Nat /\ (new => n = 1) /\ (~new => n = 0)
  OBVIOUS
<1>8. (new => added = {mark}) /\ (~new => added = {})
  OBVIOUS
<1>9. /\ new /\ s.parent # d => rows = {<<EdgeOf(s), mark>>}
      /\ ~(new /\ s.parent # d) => rows = {}
  OBVIOUS
<1>. HIDE DEF s, d, new, n, mark, added, rows
<1>10. /\ creators \in [Did -> CreatorRow \union {nobody}] /\ told \in [Did -> Nat]
       /\ support \in [Edge -> Nat] /\ depths \in [Entity -> Nat \union {nobody}]
       /\ IsFiniteSet(observations) /\ IsFiniteSet(evidence)
  BY DEF GraphInv, GraphTypeOK, ObservationsOK, EvidenceOK
<1>11. /\ creators'[d] \in CreatorRow /\ creators'[d].depth <= s.depth
       /\ creators[d] = nobody => creators'[d].count = n
       /\ creators[d] # nobody => /\ creators[d] \in CreatorRow
                                  /\ creators'[d].count = creators[d].count + n
                                  /\ creators'[d].depth <= creators[d].depth
       /\ \A x \in Did \ {d} : creators'[x] = creators[x]
       /\ DOMAIN creators' = Did
  <2>1. CASE creators[d] = nobody
    <3>1. creators'[d] = [depth |-> s.depth, count |-> n]
      BY <1>1, <1>2, <1>10, <2>1
    <3> QED
      BY <1>1, <1>2, <1>7, <1>10, <2>1, <3>1 DEF CreatorRow
  <2>2. CASE creators[d] # nobody
    <3>1. creators[d] \in CreatorRow
      BY <1>2, <1>10, <2>2
    <3>2. creators'[d] = [depth |-> Shallower(creators[d].depth, s.depth),
                          count |-> creators[d].count + n]
      BY <1>1, <1>2, <1>10, <2>2
    <3>3. /\ Shallower(creators[d].depth, s.depth) \in Nat
          /\ Shallower(creators[d].depth, s.depth) <= s.depth
          /\ Shallower(creators[d].depth, s.depth) <= creators[d].depth
      BY <1>2, <3>1, ShallowerDepth DEF CreatorRow
    <3> QED
      BY <1>1, <1>2, <1>7, <1>10, <2>2, <3>1, <3>2, <3>3 DEF CreatorRow
  <2> QED
    BY <2>1, <2>2
<1>12. Known' = Known \union {d}
  BY <1>2, <1>11, NobodyAssumption DEF Known
<1>13. IsFiniteSet(added) /\ IsFiniteSet(rows)
  <2>1. IsFiniteSet({}) /\ IsFiniteSet({mark}) /\ IsFiniteSet({<<EdgeOf(s), mark>>})
    BY FS_Singleton, FS_EmptySet
  <2>2. added \in {{}, {mark}} /\ rows \in {{}, {<<EdgeOf(s), mark>>}}
    BY <1>8, <1>9
  <2> QED
    BY <2>1, <2>2
<1>14. IsFiniteSet(Known') /\ IsFiniteSet(observations') /\ IsFiniteSet(evidence')
  <2>1. IsFiniteSet(Known)
    BY KnownIsObserved DEF GraphInv
  <2> QED
    BY <1>1, <1>5, <1>10, <1>12, <1>13, <2>1, FS_Singleton, FS_Union
<1>15. ObservationsOK'
  <2>. SUFFICES ASSUME NEW o \in observations'
                PROVE  /\ o.key.did \in Known' /\ o.depth \in Nat
                       /\ \E q \in Suggestion : o.key = KeyOf(q)
                       /\ o.key.parent # o.key.did => <<EdgeOf(o.key), o>> \in evidence'
    BY <1>14 DEF ObservationsOK
  <2>1. CASE o \in observations
    BY <1>5, <1>12, <2>1 DEF GraphInv, ObservationsOK
  <2>2. CASE o \notin observations
    <3>1. new /\ o = mark
      BY <1>1, <1>8, <2>2
    <3>2. o.key.parent # o.key.did => <<EdgeOf(o.key), o>> \in rows
      BY <1>3, <1>9, <3>1
    <3> QED
      BY <1>2, <1>3, <1>5, <1>12, <3>1, <3>2
  <2> QED
    BY <2>1, <2>2
<1>16. EvidenceOK'
  <2>. SUFFICES ASSUME NEW r \in evidence'
                PROVE  r = <<r[1], r[2]>> /\ (r[1][3] \notin ImageEdge => r[2] \in observations')
    BY <1>14 DEF EvidenceOK
  <2>1. CASE r \in evidence
    BY <1>1, <2>1 DEF GraphInv, EvidenceOK
  <2>2. CASE r \notin evidence
    <3>1. new /\ r = <<EdgeOf(s), mark>>
      BY <1>5, <1>9, <2>2
    <3>2. mark \in observations'
      BY <1>1, <1>8, <3>1
    <3> QED
      BY <3>1, <3>2
  <2> QED
    BY <2>1, <2>2
(* The observation is its creator's alone, and of a key nothing had.        *)
<1>17. CreatorsSumUp'
  <2>. SUFFICES ASSUME NEW x \in Known'
                PROVE  /\ creators'[x].count = Cardinality(Keys(ObservationsOf(x)'))
                       /\ creators'[x].count > 0 /\ told'[x] > 0
    BY DEF CreatorsSumUp
  <2>1. CASE x # d
    <3>1. x \in Known /\ x \in Did
      BY <1>12, <2>1 DEF Known
    <3>2. ObservationsOf(x)' = ObservationsOf(x)
      BY <1>1, <1>3, <1>8, <2>1 DEF ObservationsOf
    <3>3. told'[x] = told[x] /\ creators'[x] = creators[x]
      BY <1>1, <1>10, <1>11, <2>1, <3>1
    <3> QED
      BY <3>1, <3>2, <3>3 DEF GraphInv, CreatorsSumUp
  <2>2. CASE x = d
    <3>1. ObservationsOf(x)' = ObservationsOf(d) \union added
      <4>1. \A o \in added : o.key.did = d
        BY <1>3, <1>8
      <4>2. ObservationsOf(x)' = {o \in observations \union added : o.key.did = d}
        BY <1>1, <2>2 DEF ObservationsOf
      <4> QED
        BY <4>1, <4>2 DEF ObservationsOf
    <3>2. IsFiniteSet(ObservationsOf(d))
      BY <1>10, FS_Subset DEF ObservationsOf
    <3>3. /\ Cardinality(Keys(ObservationsOf(x)')) = Cardinality(Keys(ObservationsOf(d))) + n
          /\ Cardinality(Keys(ObservationsOf(d))) \in Nat
      <4>1. CASE new
        <5>1. \A o \in ObservationsOf(d) : o.key # mark.key
          BY <1>4, <4>1 DEF ObservationsOf
        <5>2. Cardinality(Keys(ObservationsOf(d) \union {mark})) =
                Cardinality(Keys(ObservationsOf(d))) + 1
          BY <3>2, <5>1, KeysGrow
        <5> QED
          BY <1>7, <1>8, <3>1, <3>2, <4>1, <5>2, KeysFinite
      <4>2. CASE ~new
        <5>1. ObservationsOf(x)' = ObservationsOf(d) /\ n = 0
          BY <1>7, <1>8, <3>1, <4>2
        <5>2. Cardinality(Keys(ObservationsOf(d))) \in Nat
          BY <3>2, KeysFinite
        <5> QED
          BY <5>1, <5>2
      <4> QED
        BY <4>1, <4>2
    <3>4. told'[d] = (IF new /\ ~tx[p].known THEN told[d] + 1 ELSE told[d]) /\ told[d] \in Nat
      BY <1>1, <1>2, <1>10
    <3>5. CASE creators[d] = nobody
      <4>1. d \notin Known
        BY <3>5 DEF Known
      <4>2. ObservationsOf(d) = {}
        BY <4>1 DEF ObservationsOf, GraphInv, ObservationsOK
      <4>3. Keys(ObservationsOf(d)) = {}
        BY <4>2 DEF Keys
      <4>4. Cardinality(Keys(ObservationsOf(d))) = 0
        BY <4>3, FS_EmptySet
      <4>5. new /\ ~tx[p].known /\ n = 1
        BY <1>2, <1>4, <1>7, <4>1
      <4>6. creators'[d].count = n /\ told'[d] = told[d] + 1
        BY <1>11, <3>4, <3>5, <4>5
      <4>7. Cardinality(Keys(ObservationsOf(x)')) = 1
        BY <3>3, <4>4, <4>5
      <4> QED
        BY <2>2, <3>4, <4>5, <4>6, <4>7
    <3>6. CASE creators[d] # nobody
      <4>1. d \in Known
        BY <1>2, <3>6 DEF Known
      <4>2. /\ creators[d].count = Cardinality(Keys(ObservationsOf(d)))
            /\ creators[d].count > 0 /\ told[d] > 0
        BY <4>1 DEF GraphInv, CreatorsSumUp
      <4>3. creators'[d].count = creators[d].count + n
        BY <1>11, <3>6
      <4>4. told'[d] >= told[d]
        BY <3>4
      <4>5. /\ creators'[d].count = Cardinality(Keys(ObservationsOf(x)'))
            /\ creators'[d].count > 0 /\ told'[d] > 0
        BY <1>7, <3>3, <3>4, <4>2, <4>3, <4>4
      <4> QED
        BY <2>2, <4>5
    <3> QED
      BY <3>5, <3>6
  <2> QED
    BY <2>1, <2>2
<1>18. \A e : Cardinality({r \in rows \ evidence : r[1] = e}) =
                IF new /\ s.parent # d /\ e = EdgeOf(s) THEN 1 ELSE 0
  <2>. SUFFICES ASSUME NEW e
                PROVE  Cardinality({r \in rows \ evidence : r[1] = e}) =
                         IF new /\ s.parent # d /\ e = EdgeOf(s) THEN 1 ELSE 0
    OBVIOUS
  <2>1. CASE new /\ s.parent # d /\ e = EdgeOf(s)
    <3>1. <<EdgeOf(s), mark>> \notin evidence
      <4>. SUFFICES ASSUME <<EdgeOf(s), mark>> \in evidence PROVE FALSE
        OBVIOUS
      <4>1. mark \in observations
        BY <1>2, <1>3 DEF GraphInv, EvidenceOK
      <4> QED
        BY <1>4, <2>1, <4>1
    <3>2. {r \in rows \ evidence : r[1] = e} = {<<EdgeOf(s), mark>>}
      BY <1>9, <2>1, <3>1
    <3> QED
      BY <2>1, <3>2, FS_Singleton
  <2>2. CASE ~(new /\ s.parent # d /\ e = EdgeOf(s))
    <3>1. {r \in rows \ evidence : r[1] = e} = {}
      BY <1>9, <2>2
    <3> QED
      BY <2>2, <3>1, FS_EmptySet
  <2> QED
    BY <2>1, <2>2
<1>19. EdgesSumUp'
  <2>. SUFFICES ASSUME NEW e \in Edge
                PROVE  support'[e] = IF SuggestionEdge(e) THEN Cardinality(Keys(Behind(e)'))
                                     ELSE Cardinality(Refs(e, evidence'))
    BY DEF EdgesSumUp
  <2>1. support[e] \in Nat
    BY <1>10
  <2>2. CASE new /\ s.parent # d /\ e = EdgeOf(s)
    <3>1. SuggestionEdge(e)
      BY <1>2, <2>2 DEF SuggestionEdge
    <3>2. Behind(e)' = Behind(e) \union {mark}
      BY <1>1, <1>3, <1>8, <2>2 DEF Behind
    <3>3. IsFiniteSet(Behind(e))
      BY <1>10, FS_Subset DEF Behind
    <3>4. \A o \in Behind(e) : o.key # mark.key
      BY <1>4, <2>2 DEF Behind
    <3>5. Cardinality(Keys(Behind(e)')) = Cardinality(Keys(Behind(e))) + 1
      BY <3>2, <3>3, <3>4, KeysGrow
    <3>6. support'[e] = support[e] + 1
      BY <1>5, <1>18, <2>2
    <3> QED
      BY <3>1, <3>5, <3>6 DEF GraphInv, EdgesSumUp
  <2>3. CASE ~(new /\ s.parent # d /\ e = EdgeOf(s))
    <3>1. support'[e] = support[e]
      <4>1. support'[e] = support[e] + 0
        BY <1>5, <1>18, <2>3
      <4> QED
        BY <2>1, <4>1
    <3>2. Behind(e)' = Behind(e)
      <4>1. \A o \in added : ~(EdgeOf(o.key) = e /\ e[1] # e[2])
        BY <1>3, <1>8, <2>3
      <4> QED
        BY <1>1, <4>1 DEF Behind
    <3>3. ~SuggestionEdge(e) => Refs(e, evidence') = Refs(e, evidence)
      <4>1. ~SuggestionEdge(e) => \A r \in rows : r[1] # e
        BY <1>2, <1>9 DEF SuggestionEdge
      <4> QED
        BY <1>5, <4>1 DEF Refs, RowsOn
    <3> QED
      BY <3>1, <3>2, <3>3 DEF GraphInv, EdgesSumUp
  <2> QED
    BY <2>2, <2>3
<1>20. \A x \in Entity :
         /\ depths'[x] \in Nat \union {nobody}
         /\ depths[x] \in Nat => depths'[x] \in Nat /\ depths'[x] <= depths[x]
         /\ x \in {s.parent, d} => depths'[x] \in Nat /\ depths'[x] <= s.depth
  <2>. SUFFICES ASSUME NEW x \in Entity
                PROVE  /\ depths'[x] \in Nat \union {nobody}
                       /\ depths[x] \in Nat => depths'[x] \in Nat /\ depths'[x] <= depths[x]
                       /\ x \in {s.parent, d} => depths'[x] \in Nat /\ depths'[x] <= s.depth
    OBVIOUS
  <2>1. depths[x] \in Nat \union {nobody}
    BY <1>10
  <2>2. depths'[x] = IF x \in {s.parent, d} THEN Shallower(depths[x], s.depth) ELSE depths[x]
    BY <1>6
  <2>3. CASE x \in {s.parent, d}
    BY <1>2, <2>1, <2>2, <2>3, ShallowerDepth
  <2>4. CASE x \notin {s.parent, d}
    BY <2>1, <2>2, <2>4
  <2> QED
    BY <2>3, <2>4
<1>21. DepthsOK'
  <2>. SUFFICES ASSUME NEW o \in observations'
                PROVE  /\ creators'[o.key.did].depth <= o.depth
                       /\ depths'[o.key.did] \in Nat /\ depths'[o.key.did] <= o.depth
                       /\ depths'[o.key.parent] \in Nat /\ depths'[o.key.parent] <= o.depth
    BY DEF DepthsOK
  <2>1. CASE o \in observations
    <3>1. o.key.did \in Did /\ o.key.did \in Entity /\ o.key.parent \in Entity
      BY <2>1, WherePlaced DEF GraphInv
    <3>2. /\ o.depth \in Nat /\ creators[o.key.did].depth <= o.depth /\ o.key.did \in Known
          /\ depths[o.key.did] \in Nat /\ depths[o.key.did] <= o.depth
          /\ depths[o.key.parent] \in Nat /\ depths[o.key.parent] <= o.depth
      BY <2>1 DEF GraphInv, ObservationsOK, DepthsOK
    <3>3. creators[o.key.did] # nobody /\ creators[o.key.did] \in CreatorRow
      BY <1>10, <3>1, <3>2 DEF Known
    <3>4. creators'[o.key.did].depth <= o.depth
      <4>1. CASE o.key.did = d
        <5>1. /\ creators'[d].depth <= creators[d].depth /\ creators[d].depth <= o.depth
              /\ creators'[d].depth \in Nat /\ creators[d].depth \in Nat
          BY <1>11, <3>2, <3>3, <4>1 DEF CreatorRow
        <5> QED
          BY <3>2, <4>1, <5>1
      <4>2. CASE o.key.did # d
        BY <1>11, <3>1, <3>2, <4>2
      <4> QED
        BY <4>1, <4>2
    <3> QED
      BY <1>20, <3>1, <3>2, <3>4
  <2>2. CASE o \notin observations
    <3>1. o = mark
      BY <1>1, <1>8, <2>2
    <3> QED
      BY <1>2, <1>3, <1>11, <1>20, <3>1
  <2> QED
    BY <2>1, <2>2
<1>22. GraphTypeOK'
  <2>1. creators' \in [Did -> CreatorRow \union {nobody}]
    <3>1. \A x \in Did : creators'[x] \in CreatorRow \union {nobody}
      BY <1>10, <1>11
    <3>2. creators' = [x \in Did |-> creators'[x]]
      BY <1>1, <1>10
    <3> QED
      BY <3>1, <3>2
  <2>2. told' \in [Did -> Nat]
    BY <1>1, <1>2, <1>10
  <2>3. support' \in [Edge -> Nat]
    <3>1. \A e \in Edge :
            support[e] + Cardinality({r \in rows \ evidence : r[1] = e}) \in Nat
      <4>. SUFFICES ASSUME NEW e \in Edge
                    PROVE  support[e] + Cardinality({r \in rows \ evidence : r[1] = e}) \in Nat
        OBVIOUS
      <4>1. support[e] \in Nat
        BY <1>10
      <4>2. Cardinality({r \in rows \ evidence : r[1] = e}) \in {0, 1}
        BY <1>18
      <4> QED
        BY <4>1, <4>2
    <3> QED
      BY <1>5, <3>1
  <2>4. depths' \in [Entity -> Nat \union {nobody}]
    BY <1>6, <1>20
  <2>5. unreviewed' \subseteq Known' /\ due' \in [Process -> SUBSET Known']
    BY <1>1, <1>12 DEF GraphInv, GraphTypeOK
  <2> QED
    BY <1>1, <2>1, <2>2, <2>3, <2>4, <2>5 DEF GraphInv, GraphTypeOK
<1>23. TransactionsOK'
  <2>1. /\ DOMAIN tx' = Process /\ \A q \in Process \ {p} : tx'[q] = tx[q]
        /\ tx'[p] = Opened("hydrate", d, p)
    BY <1>1, <1>2
  <2>2. \A x \in Known' : TxOK(Opened("hydrate", x, p), Known', observations')
    BY DEF TxOK, Opened
  <2>3. TxOK(tx'[p], Known', observations')
    BY <1>12, <2>1, <2>2
  <2>4. Known \subseteq Known' /\ observations \subseteq observations'
    BY <1>1, <1>12
  <2> QED
    BY <1>14, <2>1, <2>3, <2>4, TransactionsStep
<1>24. ReportAddsUp'
  BY <1>1, <1>5, ReportKept
<1> QED
  BY <1>15, <1>16, <1>17, <1>19, <1>21, <1>22, <1>23, <1>24 DEF GraphInv

-----------------------------------------------------------------------------
LEMMA GraphStarts ==
  ASSUME GraphInit
  PROVE  GraphInv
<1>1. Known = {}
  BY DEF GraphInit, Known
<1>2. ObservationsOK /\ EvidenceOK
  BY FS_EmptySet DEF GraphInit, ObservationsOK, EvidenceOK
<1>3. CreatorsSumUp /\ DepthsOK
  BY <1>1 DEF GraphInit, CreatorsSumUp, DepthsOK
<1>4. EdgesSumUp
  <2>1. \A e : Keys(Behind(e)) = {} /\ Refs(e, evidence) = {}
    BY DEF GraphInit, Keys, Behind, Refs, RowsOn
  <2>2. Cardinality({}) = 0
    BY FS_EmptySet
  <2>3. \A e : Cardinality(Keys(Behind(e))) = 0 /\ Cardinality(Refs(e, evidence)) = 0
    BY <2>1, <2>2
  <2> QED
    BY <2>3 DEF GraphInit, EdgesSumUp
<1>5. TransactionsOK /\ ReportAddsUp
  BY DEF GraphInit, TransactionsOK, ReportAddsUp
<1>6. GraphTypeOK
  BY <1>1, BoundsAssumption DEF GraphInit, GraphTypeOK
<1> QED
  BY <1>2, <1>3, <1>4, <1>5, <1>6 DEF GraphInv

LEMMA GraphStep ==
  ASSUME GraphInv, [GraphNext]_graphVars
  PROVE  GraphInv'
<1>1. CASE UNCHANGED graphVars
  <2>1. /\ UNCHANGED <<creators, depths, observations, evidence, support, told>>
        /\ UNCHANGED <<media, unreviewed, due, run, tx, report, begun>>
    BY <1>1 DEF graphVars
  <2>2. Known' = Known
    BY <2>1, QuietKeeps
  <2>3. GraphTypeOK' /\ TransactionsOK'
    BY <2>1, <2>2 DEF GraphInv, GraphTypeOK, TransactionsOK
  <2> QED
    BY <2>1, <2>3, QuietKeeps, ReportKept DEF GraphInv
<1>2. CASE Decide
  BY <1>2, DecideKeeps
<1>3. ASSUME NEW p \in Process, Statement(p) PROVE GraphInv'
  BY <1>3, StatementKeeps
<1>4. ASSUME NEW p \in Process, Deadlock(p) \/ Die(p) PROVE GraphInv'
  BY <1>4, FailKeeps DEF Deadlock, Die
<1>5. ASSUME NEW p \in Process,
             BeginSuggestion(p) \/ BeginSample(p) \/ BeginProfile(p) \/ BeginReport(p)
      PROVE  GraphInv'
  BY <1>5, BeginsKeep
<1>6. ASSUME NEW p \in Process,
             \/ CommitSuggestion(p) \/ CommitHydration(p)
             \/ CommitSample(p) \/ CommitProfile(p)
      PROVE  GraphInv'
  BY <1>6, CommitSuggestionKeeps, CommitHydrationKeeps, CommitSampleKeeps, CommitProfileKeeps
<1>7. ASSUME NEW p \in Process, ReadCounts(p) PROVE GraphInv'
  BY <1>7, CoverageKeeps, StatusKeeps DEF ReadCounts, Reads
<1>8. ASSUME NEW p \in Process,
             ReadTotal(p) \/ ReadPlace(p) \/ PlaceGone(p) \/ ReadItem(p)
      PROVE  GraphInv'
  BY <1>8, QueueKeeps
<1>9. ASSUME NEW p \in Process, ReadNodes(p) \/ ReadEdges(p) PROVE GraphInv'
  BY <1>9, MapKeeps
<1> QED
  BY <1>1, <1>2, <1>3, <1>4, <1>5, <1>6, <1>7, <1>8, <1>9 DEF GraphNext

LEMMA GraphInvariant == GraphSpec => []GraphInv
BY GraphStarts, GraphStep, PTL DEF GraphSpec

(* Every column of the graph keeps its type, only known creators wait for a *)
(* review or a score, and no more work is begun than the bounds allow.      *)
THEOREM GraphTypeSafety == GraphSpec => []GraphTypeOK
<1>1. GraphInv => GraphTypeOK
  BY DEF GraphInv
<1> QED
  BY <1>1, GraphInvariant, PTL

(* Whatever runs, retries and campaigns replay and wherever one of them     *)
(* dies or is ended as the victim of a deadlock, the counts of creators and *)
(* edges are those of the distinct observations and evidence behind them,   *)
(* no depth is deeper than an observation, and each creator was told of     *)
(* (record_suggestion, _record_edge, _record_media_result).                 *)
THEOREM RowsSumUp == GraphSpec => []RowsSumUpEvidence
<1>1. GraphInv => RowsSumUpEvidence
  <2>. SUFFICES ASSUME GraphInv PROVE RowsSumUpEvidence
    OBVIOUS
  <2>1. \A d \in Known :
          /\ creators[d].count = Cardinality({o.key : o \in ObservationsOf(d)})
          /\ creators[d].count > 0 /\ told[d] > 0
    BY DEF GraphInv, CreatorsSumUp, Keys
  <2>2. \A e \in Edge :
          support[e] =
            IF \E s \in Suggestion : e = EdgeOf(s)
              THEN Cardinality({o.key : o \in {o \in observations :
                                 EdgeOf(o.key) = e /\ e[1] # e[2]}})
              ELSE Cardinality({r[2] : r \in {r \in evidence : r[1] = e}})
    BY DEF GraphInv, EdgesSumUp, SuggestionEdge, Keys, Behind, Refs, RowsOn
  <2>3. \A o \in observations :
          /\ creators[o.key.did].depth <= o.depth
          /\ depths[o.key.did] <= o.depth /\ depths[o.key.parent] <= o.depth
    BY DEF GraphInv, DepthsOK
  <2> QED
    BY <2>1, <2>2, <2>3 DEF RowsSumUpEvidence
<1> QED
  BY <1>1, GraphInvariant, PTL

(* The statements of one report read at different times, and agree: its     *)
(* counts of creators do not fall and stay below its observations, a page   *)
(* of the review queue lies within its total, and the edges of a map are    *)
(* ones some evidence relates (record_coverage_snapshot, snapshot,          *)
(* review_queue, graph).                                                    *)
THEOREM ReportsAddUp == GraphSpec => []ReportAddsUp
<1>1. GraphInv => ReportAddsUp
  BY DEF GraphInv
<1> QED
  BY <1>1, GraphInvariant, PTL
=============================================================================
