---------------------------- MODULE ImportLedger ----------------------------
(* Publication of the local SQLite database into PostgreSQL                *)
(* (postgres/migration.py): an online backup names the import by its bytes *)
(* and its scope, and one transaction checks the ledger, upserts the       *)
(* tables, queues a Qdrant event per artwork of the scope and completes    *)
(* the ledger row. The intake run and an operator's command publish at the *)
(* same time; a transaction may fail anywhere, and its commit may succeed  *)
(* without the publisher learning of it. Versions stand for contents.      *)
EXTENDS Integers, FiniteSets, FiniteSetsExt

CONSTANTS
  Publisher,   \* processes calling publish_sqlite_snapshot
  Post,        \* candidates: images of posts with a decision
  Piece,       \* artworks of the local catalog
  ShownAs,     \* the artwork a candidate is routed to
  First,       \* the candidate an artwork was imported from (source_id)
  CallsOf,     \* the arguments each publisher may pass: full or scoped, with --allow-new-full-snapshot
  MaxEditions, \* bound on the changes of the local database
  MaxCalls     \* bound on the calls of publish_sqlite_snapshot

ASSUME LedgerAssumption ==
  /\ ShownAs \in [Post -> Piece]
  /\ First \in [Piece -> Post]
  /\ \A a \in Piece : ShownAs[First[a]] = a
  /\ CallsOf \in [Publisher -> SUBSET [full : BOOLEAN, scope : SUBSET Post, replace : BOOLEAN]]
  /\ \A p \in Publisher : \A c \in CallsOf[p] : c.scope # {} /\ (c.full => c.scope = Post)
  /\ MaxEditions \in Nat /\ MaxCalls \in Nat

VARIABLES
  edition,    \* changes of the local database so far
  source,     \* local: image and embedding per artwork, decision per candidate
  calls,      \* calls made so far
  importing,     \* local state of each call of publish_sqlite_snapshot
  ledger,     \* ingest.sqlite_imports: status by import key
  canonical,  \* PostgreSQL: the same tables
  queued,     \* keys of outbox events ever inserted
  waiting,    \* those not yet published to Qdrant
  indexed,    \* what the drain last read of each artwork
  passedBy,   \* history: artworks a duplicate's decision changed since an event of theirs was queued
  newest,     \* history: the latest edition published
  behind      \* history: a copy was committed after a newer one

ledgerVars ==
  <<edition, source, calls, importing, ledger, canonical, queued, waiting, indexed, passedBy, newest, behind>>

\* 0 is "no row". An embedding is named by the image it was computed from.
Tables == [image : [Piece -> 0..MaxEditions], embedding : [Piece -> 0..MaxEditions],
           decision : [Post -> 0..MaxEditions]]

EmptyTables == [image |-> [a \in Piece |-> 0], embedding |-> [a \in Piece |-> 0],
          decision |-> [c \in Post |-> 0]]

Key == [edition : 0..MaxEditions, full : BOOLEAN, scope : SUBSET Post]

NoPublication == [at |-> "idle"]

Imports ==
  [at : {"copied", "checked", "started", "written", "failing"}, key : Key, copy : Tables,
   replace : BOOLEAN] \cup {NoPublication}

LedgerTypeOK ==
  /\ edition \in 0..MaxEditions /\ calls \in 0..MaxCalls
  /\ source \in Tables /\ canonical \in Tables
  /\ importing \in [Publisher -> Imports]
  /\ DOMAIN ledger \subseteq Key /\ \A k \in DOMAIN ledger : ledger[k] \in {"completed", "failed"}
  /\ queued \subseteq Piece \X Key /\ waiting \subseteq queued
  /\ indexed \in [Piece -> (0..MaxEditions) \X (0..MaxEditions) \X (0..MaxEditions)]
  /\ passedBy \subseteq Piece /\ newest \in 0..MaxEditions /\ behind \in BOOLEAN

LedgerInit ==
  /\ edition = 0 /\ calls = 0 /\ source = EmptyTables /\ canonical = EmptyTables
  /\ importing = [p \in Publisher |-> NoPublication]
  /\ ledger = <<>>
  /\ queued = {} /\ waiting = {} /\ indexed = [a \in Piece |-> <<0, 0, 0>>]
  /\ passedBy = {} /\ newest = 0 /\ behind = FALSE

\* What _eligible_statement makes a point of: the row, its embedding and the latest
\* decision of any candidate routed to the artwork.
PointOf(t, a) ==
  <<t.image[a], t.embedding[a], Max({0} \cup {t.decision[c] : c \in {d \in Post : ShownAs[d] = a}})>>

\* Rows of the scope: artworks by their source_id, decisions and routes by candidate.
PiecesIn(scope) == {a \in Piece : First[a] \in scope}

(* The local database *)

\* The intake decides a candidate. The first one of an artwork imports its image, which
\* drops the embedding of an earlier image.
DecideLocally(c) ==
  /\ edition < MaxEditions
  /\ c = First[ShownAs[c]] \/ source.image[ShownAs[c]] # 0
  /\ edition' = edition + 1
  /\ source' = IF c = First[ShownAs[c]]
               THEN [image |-> [source.image EXCEPT ![ShownAs[c]] = edition'],
                     embedding |-> [source.embedding EXCEPT ![ShownAs[c]] = 0],
                     decision |-> [source.decision EXCEPT ![c] = edition']]
               ELSE [source EXCEPT !.decision[c] = edition']
  /\ UNCHANGED <<calls, importing, ledger, canonical, queued, waiting, indexed, passedBy, newest, behind>>

EmbedLocally(a) ==
  /\ edition < MaxEditions /\ source.image[a] # source.embedding[a]
  /\ edition' = edition + 1
  /\ source' = [source EXCEPT !.embedding[a] = source.image[a]]
  /\ UNCHANGED <<calls, importing, ledger, canonical, queued, waiting, indexed, passedBy, newest, behind>>

(* publish_sqlite_snapshot *)

\* The online backup, its digest and the key; `replace` is --allow-new-full-snapshot.
CopySource(p) ==
  /\ importing[p].at = "idle" /\ calls < MaxCalls
  /\ calls' = calls + 1
  /\ \E c \in CallsOf[p] :
       importing' = [importing EXCEPT ![p] =
         [at |-> "copied", key |-> [edition |-> edition, full |-> c.full, scope |-> c.scope],
          copy |-> source, replace |-> c.replace]]
  /\ UNCHANGED <<edition, source, ledger, canonical, queued, waiting, indexed, passedBy, newest, behind>>

\* The rows the transaction has read are those committed; its own come later.
CompletedKeys == {k \in DOMAIN ledger : ledger[k] = "completed"}

AlreadyImported(k) == k \in CompletedKeys

WithStatus(k, status) == [i \in DOMAIN ledger \cup {k} |-> IF i = k THEN status ELSE ledger[i]]

\* _guard_cutover
CutoverRefused(p) ==
  \/ importing[p].key.full /\ CompletedKeys # {} /\ ~importing[p].replace
  \/ CompletedKeys = {} /\ \E a \in Piece : canonical.image[a] # 0

CheckLedger(p) ==
  /\ importing[p].at = "copied"
  /\ importing' = [importing EXCEPT ![p] =
       CASE AlreadyImported(importing[p].key) -> NoPublication
         [] ~AlreadyImported(importing[p].key) /\ CutoverRefused(p) -> [importing[p] EXCEPT !.at = "failing"]
         [] OTHER -> [importing[p] EXCEPT !.at = "checked"]]
  /\ UNCHANGED <<edition, source, calls, ledger, canonical, queued, waiting, indexed, passedBy, newest, behind>>

InTransaction(q) == importing[q].at \in {"started", "written"}

\* _start_import: the row of the key is inserted or taken over, and locked.
StartImport(p) ==
  /\ importing[p].at = "checked"
  /\ \A q \in Publisher : InTransaction(q) => importing[q].key # importing[p].key
  /\ importing' = [importing EXCEPT ![p].at = "started"]
  /\ UNCHANGED <<edition, source, calls, ledger, canonical, queued, waiting, indexed, passedBy, newest, behind>>

\* Upserts lock the rows they write until the transaction ends.
RowsFree(p) ==
  \A q \in Publisher \ {p} : importing[q].at = "written" => importing[p].key.scope \cap importing[q].key.scope = {}

\* A route of the scope refers to an artwork: an imported one, or one of this import.
RoutesResolve(p) ==
  \A c \in importing[p].key.scope :
    importing[p].copy.decision[c] # 0 =>
      \/ ShownAs[c] \in PiecesIn(importing[p].key.scope)
      \/ canonical.image[ShownAs[c]] # 0

\* _import_table for every table, then the links, texts and addresses.
UpsertTables(p) ==
  /\ importing[p].at = "started" /\ RowsFree(p)
  /\ importing' = [importing EXCEPT ![p].at = IF RoutesResolve(p) THEN "written" ELSE "failing"]
  /\ UNCHANGED <<edition, source, calls, ledger, canonical, queued, waiting, indexed, passedBy, newest, behind>>

\* An upsert overwrites the rows the copy has and deletes none.
Merged(new, old) == [i \in DOMAIN old |-> IF new[i] # 0 THEN new[i] ELSE old[i]]

\* Mutant: embeddings are read from the live database.
UpsertedLive(copy, scope) ==
  LET kept(f, in) == [i \in DOMAIN f |-> IF i \in in THEN f[i] ELSE 0]
  IN  [image |-> Merged(kept(copy.image, PiecesIn(scope)), canonical.image),
       embedding |-> Merged(kept(source.embedding, PiecesIn(scope)), canonical.embedding),
       decision |-> Merged(kept(copy.decision, scope), canonical.decision)]

Upserted(copy, scope) ==
  LET kept(f, in) == [i \in DOMAIN f |-> IF i \in in THEN f[i] ELSE 0]
  IN  [image |-> Merged(kept(copy.image, PiecesIn(scope)), canonical.image),
       embedding |-> Merged(kept(copy.embedding, PiecesIn(scope)), canonical.embedding),
       decision |-> Merged(kept(copy.decision, scope), canonical.decision)]

\* Mutant: events are keyed by the edition and not by the scope as well.
EventsOfEdition(k, copy) ==
  {<<a, [k EXCEPT !.full = TRUE, !.scope = Post]>> : a \in {b \in PiecesIn(k.scope) : copy.image[b] # 0}}

\* _enqueue_qdrant_events: one event per artwork of the scope, by publication key.
EventsOf(k, copy) == {<<a, k>> : a \in {b \in PiecesIn(k.scope) : copy.image[b] # 0}}

\* Decisions of the scope whose artwork has its source_id outside the scope.
Beyond(scope) == {ShownAs[c] : c \in scope} \ PiecesIn(scope)

\* The commit. It may take effect without the publisher seeing it.
CommitImport(p) ==
  /\ importing[p].at = "written"
  /\ LET k == importing[p].key
         new == EventsOf(k, importing[p].copy) \ queued
     IN  /\ canonical' = Upserted(importing[p].copy, k.scope)
         /\ queued' = queued \cup new
         /\ waiting' = waiting \cup new
         /\ ledger' = WithStatus(k, "completed")
         /\ passedBy' = (passedBy \ {e[1] : e \in new}) \cup Beyond(k.scope)
         /\ newest' = Max({newest, k.edition})
         /\ behind' = (behind \/ k.edition < newest)
         /\ importing' \in {[importing EXCEPT ![p] = NoPublication],
                          [importing EXCEPT ![p].at = "failing"]}
  /\ UNCHANGED <<edition, source, calls, indexed>>

\* Any statement may fail: a deadlock, malformed data, a lost connection.
FailImport(p) ==
  /\ importing[p].at \in {"checked", "started", "written"}
  /\ importing' = [importing EXCEPT ![p].at = "failing"]
  /\ UNCHANGED <<edition, source, calls, ledger, canonical, queued, waiting, indexed, passedBy, newest, behind>>

\* _record_failed_import: a transaction of its own, which may fail and is then dropped.
RecordFailedImport(p) ==
  /\ importing[p].at = "failing"
  /\ \A q \in Publisher : InTransaction(q) => importing[q].key # importing[p].key
  /\ ledger' \in {ledger, WithStatus(importing[p].key, "failed")}
  /\ importing' = [importing EXCEPT ![p] = NoPublication]
  /\ UNCHANGED <<edition, source, calls, canonical, queued, waiting, indexed, passedBy, newest, behind>>

PublisherDies(p) ==
  /\ importing[p].at # "idle"
  /\ importing' = [importing EXCEPT ![p] = NoPublication]
  /\ UNCHANGED <<edition, source, calls, ledger, canonical, queued, waiting, indexed, passedBy, newest, behind>>

\* A drain settles an event after it read what is eligible; QdrantOutbox has its steps.
DrainOne(e) ==
  /\ e \in waiting
  /\ waiting' = waiting \ {e}
  /\ indexed' = [indexed EXCEPT ![e[1]] = PointOf(canonical, e[1])]
  /\ UNCHANGED <<edition, source, calls, importing, ledger, canonical, queued, passedBy, newest, behind>>

LedgerNext ==
  \/ \E c \in Post : DecideLocally(c)
  \/ \E a \in Piece : EmbedLocally(a)
  \/ \E p \in Publisher :
       \/ CopySource(p) \/ CheckLedger(p) \/ StartImport(p) \/ UpsertTables(p)
       \/ CommitImport(p) \/ FailImport(p) \/ RecordFailedImport(p) \/ PublisherDies(p)
  \/ \E e \in waiting : DrainOne(e)

LedgerSpec == LedgerInit /\ [][LedgerNext]_ledgerVars

(* Properties *)

\* What Qdrant would be told of an artwork now is what a drain was told last, or an event
\* is waiting: a publication reaches the index whatever failed before it. Artworks that a
\* duplicate's decision was published for without them are left behind by the code, until an
\* event of theirs is queued; a copy committed after a newer one may find its events
\* queued, and published, already.
EveryChangeQueued ==
  \A a \in Piece :
    \/ PointOf(canonical, a) = indexed[a]
    \/ \E e \in waiting : e[1] = a
    \/ a \in passedBy \/ behind

\* PostgreSQL never pairs an image with the embedding of a later one, unless a copy was
\* committed after a newer one. (An older embedding stays when an image is published before
\* it was embedded.)
RowsOfOneCopy ==
  \A a \in Piece : canonical.embedding[a] <= canonical.image[a] \/ behind
=============================================================================
