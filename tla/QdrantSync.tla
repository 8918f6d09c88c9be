----------------------------- MODULE QdrantSync -----------------------------
(* Direct publication of the SQLite corpus to Qdrant                       *)
(* (retrieval/qdrant.py, sync_qdrant_from_sqlite): the way of a deployment *)
(* without PostgreSQL, from the intake's DAG and from the command line.    *)
(* What was written is recorded in vector_index_points only after the      *)
(* write; either side may fail or die in between, and the next sync trusts *)
(* the record unless the counts differ.                                    *)
EXTENDS Naturals, FiniteSets, FiniteSetsExt

CONSTANTS
  Work,        \* artworks
  Edition,     \* contents of an artwork's point
  None,        \* no point, no row, not eligible
  Sync,        \* processes that sync
  ReadBatch,   \* rows and points of one batch
  MaxSyncs,    \* bound: syncs in all
  MaxEdits,    \* bound: changes of the corpus
  MaxBreaks,   \* bound: failures of a sync, and losses of the collection
  MayOverlap   \* whether two syncs may run at once

ASSUME SyncAssumption ==
  /\ IsFiniteSet(Work) /\ None \notin Edition /\ ReadBatch \in Nat \ {0}
  /\ {MaxSyncs, MaxEdits, MaxBreaks} \subseteq Nat /\ MayOverlap \in BOOLEAN

VARIABLES
  corpus,   \* the eligible content of each artwork in SQLite
  exists,   \* whether the collection exists
  points,   \* the points in the collection
  index,    \* vector_index_points: the content hash recorded for each artwork
  alias,    \* whether the read alias names the collection
  work,     \* what each sync is doing
  spent     \* what the bounds count

syncVars == <<corpus, exists, points, index, alias, work, spent>>

PointContent == [Work -> Edition \union {None}]
Unpublished == [a \in Work |-> None]
Held(f) == {a \in Work : f[a] # None}
Idle == [at |-> "idle"]

SyncInit ==
  /\ corpus \in PointContent
  /\ exists = FALSE /\ points = Unpublished /\ index = Unpublished /\ alias = FALSE
  /\ work = [s \in Sync |-> Idle]
  /\ spent = [syncs |-> 0, edits |-> 0, breaks |-> 0]

SyncAt(s, p) == work[s].at = p
Goto(s, p) == work' = [work EXCEPT ![s].at = p]
Spend(k) == spent' = [spent EXCEPT ![k] = @ + 1]

-----------------------------------------------------------------------------
(* The corpus, and the collection's own fate.                              *)

\* Imports, embeddings, filter decisions and retention change what is eligible.
EditCorpus(a) ==
  /\ spent.edits < MaxEdits /\ Spend("edits")
  /\ \E e \in (Edition \union {None}) \ {corpus[a]} : corpus' = [corpus EXCEPT ![a] = e]
  /\ UNCHANGED <<exists, points, index, alias, work>>

\* An operator deletes the collection, or the server loses it.
LoseCollection ==
  /\ exists /\ spent.breaks < MaxBreaks /\ Spend("breaks")
  /\ exists' = FALSE /\ points' = Unpublished /\ alias' = FALSE
  /\ work' = [s \in Sync |-> IF SyncAt(s, "idle") THEN work[s] ELSE Idle]
  /\ UNCHANGED <<corpus, index>>

-----------------------------------------------------------------------------
(* A sync.                                                                 *)

\* ensure_qdrant_collection, with the options of the call.
Ensure(s) ==
  /\ SyncAt(s, "idle") /\ spent.syncs < MaxSyncs /\ Spend("syncs")
  /\ MayOverlap \/ \A t \in Sync : SyncAt(t, "idle")
  /\ \E force, prune, promote \in BOOLEAN :
       work' = [t \in Sync |->
         IF t = s THEN [at |-> IF exists THEN "counting" ELSE "clearing",
                        force |-> force, prune |-> prune, promote |-> promote,
                        alone |-> \A u \in Sync : SyncAt(u, "idle")]
         ELSE IF SyncAt(t, "idle") THEN Idle
         ELSE [work[t] EXCEPT !.alone = FALSE]]
  /\ exists' = TRUE
  /\ UNCHANGED <<corpus, points, index, alias>>

\* What was recorded of an earlier collection goes.
ClearState(s) ==
  /\ SyncAt(s, "clearing")
  /\ index' = Unpublished
  /\ Goto(s, "counting")
  /\ UNCHANGED <<corpus, exists, points, alias, spent>>

Drifted == Cardinality(Held(points)) # Cardinality(Held(index))
Forced(force) == force \/ Drifted

\* The counts, and the cursor over the eligible rows with their recorded hash.
OpenSync(s) ==
  /\ SyncAt(s, "counting")
  /\ work' = [work EXCEPT ![s] =
       [at |-> "upserting", prune |-> @.prune, promote |-> @.promote, alone |-> @.alone,
        forced |-> Forced(@.force), read |-> corpus, known |-> index,
        left |-> Held(corpus), batch |-> {},
        sure |-> IF @.force \/ Drifted THEN Work ELSE {a \in Work : points[a] = index[a]}]]
  /\ UNCHANGED <<corpus, exists, points, index, alias, spent>>

Batches(S) == {B \in SUBSET S : Cardinality(B) = Min({ReadBatch, Cardinality(S)})}
Changed(s, B) == {a \in B : work[s].forced \/ work[s].known[a] # work[s].read[a]}

\* A batch of rows; the changed ones are upserted.
UpsertPoints(s) ==
  /\ SyncAt(s, "upserting") /\ work[s].left # {}
  /\ \E B \in Batches(work[s].left) :
       LET pending == Changed(s, B)
       IN  /\ points' = [a \in Work |-> IF a \in pending THEN work[s].read[a] ELSE points[a]]
           /\ work' = [work EXCEPT ![s].left = @ \ B, ![s].batch = pending,
                                  ![s].at = IF pending = {} THEN "upserting" ELSE "recording"]
  /\ UNCHANGED <<corpus, exists, index, alias, spent>>

RecordPoints(s) ==
  /\ SyncAt(s, "recording")
  /\ index' = [a \in Work |-> IF a \in work[s].batch THEN work[s].read[a] ELSE index[a]]
  /\ work' = [work EXCEPT ![s].at = "upserting", ![s].batch = {}]
  /\ UNCHANGED <<corpus, exists, points, alias, spent>>

Stale(s) == Held(index) \ Held(work[s].read)

\* The recorded artworks that are no longer eligible, unless told not to.
DeletePoints(s) ==
  /\ SyncAt(s, "upserting") /\ work[s].left = {} /\ work[s].prune
  /\ \E B \in Batches(Stale(s)) \ {{}} :
       /\ points' = [a \in Work |-> IF a \in B THEN None ELSE points[a]]
       /\ work' = [work EXCEPT ![s].at = "forgetting", ![s].batch = B]
  /\ UNCHANGED <<corpus, exists, index, alias, spent>>

ForgetPoints(s) ==
  /\ SyncAt(s, "forgetting")
  /\ index' = [a \in Work |-> IF a \in work[s].batch THEN None ELSE index[a]]
  /\ work' = [work EXCEPT ![s].at = "upserting", ![s].batch = {}]
  /\ UNCHANGED <<corpus, exists, points, alias, spent>>

Tracked(s) ==
  /\ SyncAt(s, "upserting") /\ work[s].left = {}
  /\ ~work[s].prune \/ Stale(s) = {}
CountsAgree(s) == Cardinality(Held(points)) = Cardinality(Held(work[s].read))

\* _delete_untracked_remote_points: whatever is not eligible.
DeleteUntracked(s) ==
  /\ Tracked(s) /\ work[s].prune /\ ~CountsAgree(s)
  /\ points' = [a \in Work |-> IF work[s].read[a] = None THEN None ELSE points[a]]
  /\ Goto(s, "verifying")
  /\ UNCHANGED <<corpus, exists, index, alias, spent>>

\* Mutant: a point too many is no reason to stop.
CountsSuffice(s) == Cardinality(Held(points)) >= Cardinality(Held(work[s].read))
Verified(s) == CountsAgree(s)

\* The counts agree: the sync succeeds, and promotes the alias if asked to.
Finish(s) ==
  /\ Tracked(s) \/ SyncAt(s, "verifying")
  /\ Verified(s)
  /\ alias' = (alias \/ work[s].promote)
  /\ work' = [work EXCEPT ![s] = Idle]
  /\ UNCHANGED <<corpus, exists, points, index, spent>>

\* The counts still differ.
Mismatch(s) ==
  /\ SyncAt(s, "verifying") \/ (Tracked(s) /\ ~work[s].prune)
  /\ ~Verified(s)
  /\ work' = [work EXCEPT ![s] = Idle]
  /\ UNCHANGED <<corpus, exists, points, index, alias, spent>>

\* A call fails, the database stays locked, or the process dies.
Break(s) ==
  /\ ~SyncAt(s, "idle")
  /\ spent.breaks < MaxBreaks /\ Spend("breaks")
  /\ work' = [work EXCEPT ![s] = Idle]
  /\ UNCHANGED <<corpus, exists, points, index, alias>>

\* `artsearch-qdrant init --promote` moves the alias without a sync.
PromoteByHand ==
  /\ exists /\ ~alias
  /\ alias' = TRUE
  /\ UNCHANGED <<corpus, exists, points, index, work, spent>>

SyncNext ==
  \/ \E a \in Work : EditCorpus(a)
  \/ LoseCollection \/ PromoteByHand
  \/ \E s \in Sync :
       \/ Ensure(s) \/ ClearState(s) \/ OpenSync(s)
       \/ UpsertPoints(s) \/ RecordPoints(s) \/ DeletePoints(s) \/ ForgetPoints(s)
       \/ DeleteUntracked(s) \/ Finish(s) \/ Mismatch(s) \/ Break(s)

SyncSpec == SyncInit /\ [][SyncNext]_syncVars

-----------------------------------------------------------------------------
(* Properties.                                                             *)

SyncTypeOK ==
  /\ {corpus, points, index} \subseteq PointContent
  /\ exists \in BOOLEAN /\ alias \in BOOLEAN /\ (alias => exists)
  /\ ~exists => points = Unpublished
  /\ \A s \in Sync :
       work[s].at \in {"idle", "clearing", "counting", "upserting", "recording", "forgetting",
                      "verifying"}

\* Of an artwork that is not eligible any more: its point stays where the sync
\* may not prune, if it has another artwork to make up the count with.
MayOutlast(s, a) == ~work[s].prune /\ work[s].read[a] = None /\ work[s].sure # Work

\* A sync that succeeds has published what it read: each eligible artwork with
\* its content, and nothing else - whatever failed before it, as long as it
\* was alone, and except for the artworks whose point an earlier failure had
\* left other than recorded when neither the counts nor the caller forced it.
SyncedIsPublished ==
  [][\A s \in Sync :
       Finish(s) /\ work[s].alone =>
         \A a \in work[s].sure : points[a] = work[s].read[a] \/ MayOutlast(s, a)]_syncVars
=============================================================================
