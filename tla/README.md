# Verification of aesthetic-search

TLA+ models of `artsearch` (paths below are relative to `src/artsearch/` of the
repository), the TLC runs that check them on small instances, and TLAPS proofs of
the properties that can be proved for every instance.

    tlc -workers 2 -config Live.cfg MCLive     # one run; PROJECT.json lists all
    tlapm FrontierProofs.tla                   # one proof module

## 1. The system

`artsearch` discovers artists on Bluesky, samples their images, filters and publishes the
accepted artworks to SQLite, a PostgreSQL control plane and a Qdrant index, and serves image
search over that index.

| Component | Code | State | Operations |
|---|---|---|---|
| Discovery frontier | `discovery/repository.py`, `discovery/pipeline.py` | `discovery.frontier_tasks`: status, attempts, lease, run time; `discovery.exclusions` | enqueue, claim, complete, fail, reclaim of an expired lease, cancellation by a block |
| Creator moderation and removal | the same | creator, media, exclusion and removal rows; local state of each coroutine | ingest a suggestion, hydrate, sample, score, review, approve a removal, exclude |
| Campaign budgets, sources, fan-out | `discovery/pipeline.py`, `discovery/bluesky.py`, `bluesky/client.py` | in-process counters, per-creator locks, pages of the initial sources | list, reserve, spend, expand |
| Snapshot publication | `postgres/migration.py` | catalog rows, import ledger, outbox events | back up, publish, fail, cut over |
| Qdrant outbox | `postgres/qdrant_outbox.py`, `postgres/repositories.py`, `retrieval/qdrant.py` | `ingest.outbox_events`, `catalog.vector_index_points`, the remote collection and alias | drain: reconcile counts, queue, release stale, claim, write, settle, fail, promote, sweep |
| Direct sync to Qdrant | `retrieval/qdrant.py` | the same index and SQLite's `vector_index_points` | ensure, upsert, record, delete, verify, promote |
| Image search service | `api/service.py` | encoder slots, waiting and active counts, encoder threads, telemetry tasks | search, admission, time limits, cancellation, feedback |
| Search telemetry | `api/telemetry.py`, `postgres/repositories.py`, `postgres/metrics.py` | queries, impressions, interaction events | start, complete, fail, feedback, report |
| HTTP application and edge | `api/app.py`, `api/static/app.js`, `deploy/cloudflare-search/` | rate-limit windows per container; which containers are awake; a card's buttons | route, admit, wake, sleep, grade |
| Retrieval and fusion | `retrieval/qdrant.py`, `retrieval/faiss_index.py`, `retrieval/search.py` | none | query, reciprocal-rank fusion |
| FAISS index | `retrieval/faiss_index.py` | snapshot directories, reports, the active pointer | build, evaluate, promote, load |
| Bluesky intake | `bluesky/`, `bluesky_pipeline.py`, `bluesky_corpus.py` | high-water marks, roster cursor, candidates (SQLite) | scan, fetch, retry, accept |
| Intake scheduler | `production/scheduler.py`, the Airflow DAG | a file lock, the DAG runs | start window, query, trigger, wait |
| Corpus control server | `monitoring/corpus_control.py`, `monitoring/server.py` | one job slot, a persisted job file, a cached snapshot | start, stop, recover after a restart |
| Artwork filter | `artwork_filter/` | decision files, a feature cache on disk | load, embed, score, decide, persist, resume |
| Corpus import, publication, retention | `artwork_filter/corpus*.py`, `embed/`, `production/` | SQLite rows, processed files, object store, references | import, embed, publish, verify, delete |
| Discovery graph | `discovery/repository.py` | creators, entities, observations, edges and their evidence, posts, media | record a suggestion, a sample, a profile; count, page, draw |
| Operations report | `monitoring/snapshot.py`, `postgres/metrics.py` | none: it reads the catalog, files, PostgreSQL and Qdrant | read each source, derive alerts |
| Review queue | `monitoring/review.py`, `artwork_filter/labels.py`, `review_export.py` | append-only label file | show, export, label, evaluate |
| Local ingest, catalog schema | `ingest/` | SQLite, working files | batch ingest, audit, schema upgrade at every start |
| Dashboards' pages, model inference, deployment checks | `monitoring/`, `embed/`, `deployment/` | none that is shared | render, infer, check |

**How they interact.** Coordinator processes share the frontier and the creator rows
through PostgreSQL transactions at READ COMMITTED; within a process, tasks are coroutines
of one event loop that interleave at every await. A reviewer and an operator write the same
rows from a command line. A publication commits catalog rows and outbox events together;
drains, run by a scheduler, read them later and write to Qdrant, which shares no
transaction with PostgreSQL. The intake's DAG strings the collector, the filter, the embedding
pass, publication and retention together over one SQLite file and one working directory, which
the refresh jobs of the control server use at the same time. The search service shares a thread
pool between requests and records each query by detached tasks against PostgreSQL; the edge
worker spreads clients over containers that share nothing.

**What is hard.** Leases that expire under a live worker; check-then-insert without a lock;
rows read before an await and written after it; a crash between a remote write and its
local record; a time limit that cannot stop the thread it bounds; telemetry that
overtakes the row it updates; cancellation at every await; files replaced between their hash
and their use; a JSONL line cut short; statements that commit one by one although a script looks
like a transaction. PROJECT.json lists each of these at its line under `hazards`, with the
properties that would catch it.

**What makes each part correct.**

* *Frontier*: an attempt is executed by one worker and settled by its holder; retrying is
  bounded; a settled task stays settled; every task settles; an excluded creator's work ends.
* *Moderation*: a blocked or removed creator is not brought back by automation; its
  columns agree; exclusion stops sampling; a removed media object stays removed.
* *Campaigns*: the budgets and the fan-out limit hold over all jobs of a process; a campaign
  that reports nothing amiss has handed over what its sources found.
* *Discovery graph*: the counts of creators and edges are those of the distinct evidence behind
  them, whoever replays, dies or loses a deadlock; what one report counts does not contradict itself.
* *Import ledger*: every change a publication makes is queued for Qdrant, whatever was recorded
  of earlier ones; PostgreSQL's rows of a scope are of one copy of the database.
* *Outbox and direct sync*: with no event left, Qdrant serves what the catalog says; a takedown
  is honoured whatever crashes; a drain that lost its locks settles nothing; the outbox empties;
  a sync that reports success has published what it read.
* *Search*: slots and counters are exact; an admitted image has a thread; the trace of a
  query tells what its client saw; feedback finds the result it is about; no shortlist, cut or
  artist limit loses the better of two works.
* *Gateway and feedback*: one window's limit holds over all containers; what the report
  counts is what the visitor was last told.
* *FAISS*: what is promoted was measured, what is served was promoted.
* *Intake*: no high-water mark passes an image nobody looked at; a resumed scan knows where
  it was going; the backlog of an author who stopped posting is worked off; a day runs once.
* *Corpus*: a validated row, its file, its embedding and the object store agree, whatever
  import died half-way; retention deletes nothing that is not kept elsewhere; a reference
  names the bytes its object holds.
* *Filter*: a decision rests on the embedding of its own image; a finished run has a readable
  decision for every candidate it did not report.
* *Control server*: a taken slot has a thread that will free it; no page is older than the
  jobs that ended.
* *Review*: an annotation is written once; a label is never scored against a decision its
  reviewer did not know.
* *Operations report*: what it tells of sources that stood still is true, and it keeps back none of
  the faults it watches for.
* *Local ingest, schema*: a run nobody disturbs leaves every image of the folder in the corpus;
  an upgrade loses no row.

## 2. The modules

One module per component, an `MC` module for each TLC instance, and eight `Proofs` modules.
`map` in PROJECT.json gives the source lines of every definition; an operator marked "Mutant"
is a plausible bug beside the definition it replaces and is used by no specification.

### Frontier, WorkQueue

State: `status`, `attempts`, `owner` (locked_by), `lease` (locked_until is in the future),
`due` (run_after is past) per task; `excluded`; per process `held` (the attempt it
is executing of each task) and `cand` (an `enqueue_task` that has read and not inserted).
A task is the triple its idempotency key hashes: campaign, creator, action.

Every repository transaction is one action: `Claim` (any set of claimable tasks, so every
priority order, `FOR UPDATE SKIP LOCKED` included), `Complete`, `Fail`, `Block`, `Exclude`.
`enqueue_task` is two (`EnqueueCheck`, `EnqueueInsert`): under READ COMMITTED another
transaction may commit between its reads and its insert. `FailLost` is the `ValueError` of
`fail_task` when the lease is gone: it leaves `gather`, and the process abandons its batch.
A process claims only when it has nothing in hand (`Idle`), as `_drain_frontier` does.
Time is abstracted to what the queries compare with `now()`: `BecomeDue`, `ExpireAbandoned`
and `ExpireInHands`; the last and `Crash` count as faults.

Assumed (`WorkerAssumption`): running processes have different worker ids. The Airflow task
passes its run id; the command line has a constant default (`discovery/cli.py:316`), so two
CLI campaigns at once need `--worker-id`. Without it `SettledByHolder` does not hold.

`WorkQueue` is what the frontier promises, without rows, clocks or transactions: a task is put,
taken by one executor who is then entitled to settle it, offered again while attempts remain,
given up when they are used, withdrawn only while nobody has it. `Frontier` has the refinement
mapping: `Phase` forgets leases, `Entitled` is the process executing the latest attempt of a
leased task. `ImplementsQueue` is `WorkQueue`'s specification under it.

### Creators

State: `state`, `safety`, `sampledAt`, `media`, `excluded` per creator; `queued` (a sample
task waiting); `job`, the local state of each coroutine between its transactions; `review`,
a review between its read and its write; `torn`, creators whose ingestion died between its
two writes (history, for `BarredIsUnsafe`).

`IngestProfile .. IngestEnqueue` are the steps of `_ingest_suggestion`; `SampleStart`,
`SampleMedia`, `SampleProfile` those of `_sample_creator`; `hydrate_creator` and
`review_creator` read without a row lock and are two steps each; `Abort` ends a coroutine at
any await. One media object stands for a creator's media; a profile is what
`profile_safety_state` makes of it, and may change between two hydrations; a score is any
outcome `score_creator` can return. Leases are `Frontier`'s subject and are not repeated.

### Campaign, SeedSources

`Campaign`: `DiscoveryCoordinator`'s coroutines between two awaits: sources, claiming a batch,
the steps of a sample (begin, profile, list, reserve), of an expansion (under the creator's lock)
and of an ingestion, with the four budgets. `hands` is what each job has in hand. `Frontier` has
the rows and leases.

`SeedSources`: the oracles a campaign starts from, a list of seeds, a search for accounts, a query
for starter packs. Each lists accounts lazily while the coordinator ingests them, through one
client whose every attempt (`SendRequest`) is paid from the budget, refused when that is used up,
and answered, failed and repeated, or given up. `GetPack` and `GetList` page through packs with
cursors that may repeat; `NextAccount` hands one over, `MeetFlawedAccount` one the profile request
does not find.

### DiscoveryGraph

What campaigns write beside the frontier. `creators` and `support` keep counts, `observations` and
`evidence` the rows they sum up; `tx` is the open transaction of each process and how many of its
row locks it has (`RowsOf`, in the order of the code's statements: `Statement` takes the next one).
`BeginSuggestion` and `CommitSuggestion` are `record_suggestion` (whether the account is known is
read first and may be stale), `CommitHydration` the transaction that follows it, `CommitSample`
`record_media_results`, `CommitProfile` `record_creator_profile`. `Deadlock` ends one of a circle of
waiting transactions; no handler of the campaign names that error, so the run fails, as in `Die`, and
its successor replays what it did. `ReadCounts` is one statement of a coverage snapshot or of the
dashboard's totals, `ReadTotal`, `ReadPlace`, `PlaceGone`, `ReadItem` the page of the review queue,
`ReadNodes` and `ReadEdges` the corpus map. What becomes of a creator's state is in `Creators`; here
it waits for review or does not. Left out: limits of 5 000 nodes and 10 000 edges, removals.

### ImportLedger

`publish_sqlite_snapshot`: an online backup (`CopySource`) names the import by its bytes and its
scope; `CheckLedger` and the cutover guard; one transaction that upserts the tables and queues an
event per artwork of the scope (`StartImport`, `UpsertTables`, `CommitImport`). A transaction may
fail anywhere (`FailImport`, then `RecordFailedImport` in a transaction of its own), its commit may
succeed without the publisher learning of it, and it may die. `RowsFree` are the row locks
two overlapping transactions of PostgreSQL wait for. `source` is what the local database holds, in
versions: decisions, images, embeddings; `DrainOne` is the outbox's consumer.

### QdrantOutbox

State: `content` (what the eligibility query makes of each artwork), `events` (open outbox
events), `dead`, `indexed` (hashes in `vector_index_points`), `collection`, `remote`, `alias`
(Qdrant), and `drain`, the local state of each worker's pass.

Each transaction and each remote call of `drain_qdrant_outbox` is an action, in the code's
order: `Start`, `CompareCounts`, `ClearState`, `QueuePage`, `ReleaseStale`, `Claim`,
`ReadEligible`, `Upsert`, `Delete`, `Settle` (all or nothing: `StillOwned`), `Fail`,
`Promote`, `Sweep`. `FailAfterWrite` is a remote write whose reply is lost; `EndEarly` is
`--max-events`. `Publish` is a publication as its one commit: an artwork's content and its
event. Merged or left out: open events equal in every column are one; `mark_failed`, one
transaction per event, is one step for a batch; the final sweep compares and deletes in
one step; a page of the catalog is one artwork.

### QdrantSync

`sync_qdrant_from_sqlite`, the way without PostgreSQL: `Ensure`, `ClearState`, `Open` (the counts
and the recorded hashes decide whether everything is written again), batches of `UpsertPoints` and
`RecordPoints`, `DeletePoints` and `ForgetPoints`, `DeleteUntracked`, `Finish` when the counts
agree and `Mismatch` when they do not. `Break` is a failure or a death anywhere, `LoseCollection` an
external loss, `PromoteByHand` the command `init --promote`.

### ImageSearch

State: `pc` per request (where `search_image` stands), `free`, `pending`, `active` (the
semaphore and the two counters), `encode` (the future given to the thread pool), `detached`
(requests whose slot waits for that future's callback), `start` and `task` (telemetry
tasks), `query` and `impressions` (rows), `feedback`.

A step is what the event loop runs between two awaits, one transaction, or one move of a
thread. `_pending_lock` is held over no await and needs no variable. The semaphore is
Python 3.12's (the only version `pyproject.toml` allows): a free slot is taken without
suspending, and a newcomer does not overtake a waiter. `InferenceTimeout` and `Cancel` leave
the slot to `ReleaseLater`; `CancelInHandler` is a cancellation inside the error handler;
`OutcomeLost` a telemetry write that failed, or whose commit was not confirmed; `StartFails` the
fallback to `NoopSearchTelemetry`, whether or not the row was committed. Left out: `aclose`,
site visits, the artist filter.

### ResultFeedback

The grades of a search's cards: `Send` (the buttons of `static/app.js`), `OpenFeedback` and
`CommitFeedback` (the shielded task and its transaction, ordered by when it began),
`AnswerRecorded`, `FailFeedback`, `TimeOut` (the 503 while the task goes on), and the metrics the
dashboard computes in two statements, `ReadImpressions` and `ReadFeedback`.

### Gateway

The edge worker and the containers: a request is routed by its client (`PassOn`), wakes its
container (`Wake`, `StartContainer`), passes the middleware and its limiter
(`Enter`), and is answered (`Handle`). `held` are the ages of what a limiter holds; `Fresh` drops
what has left the window from the left, as its `popleft` loop does. `Tick` passes time, `Sleep` is the
idle stop, `ContainerDies` a death; both forget the counts.

### RankFusion, FaissSnapshots

`RankFusion`: the search paths of the FAISS, Qdrant and in-memory backends as functions of two
rankings, over every pair of rankings of a small corpus (`Probe` is the artwork asked about,
`Returned` what an index search returns within a quota). A fused score is a whole number of
1 / `Scale`, a common multiple of its denominators, so it is compared without rounding; `Diversify` is
the loop of `_apply_artist_diversity` by what it selects, the first `top_k` of the hits that are among
the first of their artist. `FaissSnapshots`: build into a temporary
directory, rename, evaluate, promote in two steps, load; an operator may remove a version, files
may be damaged.

### AuthorFeed

`run-authors` of `bluesky_pipeline_cli.py` with the SQLite state of `bluesky/state.py`:
`posts`, the marks `high`, `pendingHigh`, `resume`, the roster position, and per collector
the scan under way. `RecordRead` and `RecordWrite` are the two halves of `record_scan`. Two
collectors, the nightly one and a refresh, hold different locks and may scan one author at
once; `overlapped` remembers where they did. `waived` are the posts the code gives up on
purpose: below an initial scan, past a quota, before a seed.

### IntakeLauncher

`production/scheduler.py`: `StartDue` and `StartNow` (the Windows task and an operator),
`TakeLock` (a file lock that dies with its holder), `BringUp` the stack, `AskState`, `Trigger` the
day's run unless it exists, `SeeFinal`; `LaunchFails` is a failing command, a lost reply, the time
limit or a death. Airflow (`RunBegins`, `RunFinishes`) and the restarts of the Windows task are
modelled from their use.

### FilterDecisions, FilterRuns

`FilterDecisions`: a batch of `artwork_filter/service.py`, loading with URL fallbacks
(`TakeBatch`), model and processor (`FetchProcessor`, `FetchModel`: two downloads), the feature
cache whose entry is an array and a record (`LookUp`, `Encode`, `SaveArray`, `SaveRecord`), the
prompts' embeddings (`GetPrompts`), `Score` and `Persist`. `BranchMoves` is a new commit of an
unpinned model. An embedding is named by what it was computed from. `FilterRuns`: sweeps over a
candidate file that append, resume or overwrite, with writes cut short anywhere.

### Corpus, ObjectStore

`Corpus`: `artwork_filter/corpus.py` and `corpus_store.py`, the embedding pass, publication of
renditions and local retention, in the order of the intake DAG. Each commit and each file
operation is a step: `ImportCheck` (invalidate), `Standardize` (replace the file),
`ImportCommit`, `EmbedRead`, `EmbedWrite`, `PublishOne`, `Prune`. Any task may fail and be
retried, a refresh may die anywhere; `mixed` remembers the artworks a refresh touched while
a run went on.

`ObjectStore`: what `PublishOne` is in detail. A publication reads its rows, gives each image to
a thread, `put_file` hashes the source (`IdentifySource`), looks for the object, copies and links
it (local) or sends and verifies it (S3), reading the source a second time; `Checkpoint`
records the references of a batch. Images are replaced meanwhile (`swapped`), calls fail after
they took effect, a publication dies with its temporary file.

### CorpusControl

The job slot of `monitoring/corpus_control.py`, its status files, threads and child
processes, the servers that hold it (a second one takes the next port), recovery at start,
the rotation of seeds, and the snapshot cache of `monitoring/server.py` with its lock.

### ReviewQueue

Reviewers on the dashboard (`ShowItem`, `SubmitLabel`) and with the review CSV (`ExportItem`,
`ImportRow`) append to one label file: `ReadAnnotations`, then `WriteLabel` or `WriteTorn`; the
dashboard's lock is its process's. `Decide` and `ImportDecisions` are filter runs that decide
again and the database that learns of it. `Samples` are the pairs an evaluation scores.

### OperationsReport

`build_monitoring_snapshot` as the sequence of its reads (`Steps`): which files there are, five
statements on the catalog that are not one transaction (the connection is in autocommit), the
decisions, evaluations, labels and judgments, telemetry and frontier in PostgreSQL, two requests to
Qdrant, the scheduler's files. `world` is what they read, `read` what was seen of it, and `Change` may
move any source between two reads: an artwork is imported, edited, withdrawn, embedded or reviewed, a
file appears or is damaged, a service goes away. `Alerts` are those of `_build_alerts` and
`_discovery_alerts`, one per kind, and `Level` is `_overall_level`. Rates against a target are the
outcome of the comparison. Left out: figures that no alert depends on, and the alerts on the filter's
latency and on the share of one artist.

### LocalIngest, SchemaUpgrade

`LocalIngest`: a run over raw files in order: `SkipFile`, `TakeFile`, `OpenOutput`, `WriteOutput`,
`MarkValidated` or `FileFails`, `AuditCorpus` at the end; the owner changes files (`ChangeRaw`,
`RemoveOutput`) and a run may die. `SchemaUpgrade`: `init_db` statement by statement, as sqlite3
executes it: `DropTemporary` and `CreateTemporary` commit by themselves, `CopyRows` opens a
transaction, `DropOld` and `RenameNew` belong to it, `RunScript` begins with its COMMIT.

### The instances

Components that share no state in the code, beyond what each models of it, are checked in
one run: in `MCDiscovery`, `MCServing`, `MCServices`, `MCBluesky` and `MCLive` a behaviour is one
component's, named by `part`, and the others stay as they began. `MCView` drops the parts that do
not move from the fingerprint. The other `MC` modules instantiate one component.

## 3. The runs

| Run | Question | States |
|---|---|---|
| `live` | frontier: leases, retries, blocks, the work queue implemented, everything settles; search: queries end | 52 520 |
| `frontier_attempts` | violation: attempts beyond the budget | |
| `frontier_duplicates` | violation: two equivalent active tasks | |
| `discovery` | how works come in: `creators`, `campaign`, `decision`, `filter`, `local` | 3 024 610 |
| `sources_packs` | violation: packs sampled to the caps asked for | |
| `creators_removed` | violation: an approved media removal undone | |
| `qdrant` | convergence of the outbox, one drain at a time | 4 868 791 |
| `qdrant_overlap` | takedowns and liveness, overlapping drains | 773 401 |
| `qdrant_crash` | violation: the crash that is not harmless | |
| `serving` | how works are found: `search`, `faiss`, `fusion`, `gateway`, `feedback`, `review`; and what operators are told of it: `monitor` | 2 132 491 |
| `bluesky` | what Bluesky is asked for: marks and backlog of author feeds (`feed`), the initial sources of a campaign (`sources`) | 774 508 |
| `services` | how works are kept: `corpus`, `control`, `ledger`, `store`, `launch`, `sync`, `graph`, `upgrade` | 3 766 952 |

**The bounds**, component by component. Constants whose value is a bound of the exploration and
not of the code are marked "bound" where they are declared.

* *Frontier* (2 processes, 2 campaigns, 1 creator, 2 attempts, batch 2, 2 faults): tasks meet only
  through equivalence (same creator and action) and through a batch; two tasks that are equivalent
  across campaigns give both. Two faults allow a lease to be outlived and the new holder to die
  too; two attempts separate the first, the last and the one too many.
* *Creators* (1 creator, 2 coroutines, a reviewer): no transaction touches two creators, so one is
  enough; two coroutines and a reviewer give every race of two writers with a third.
* *Campaign* (2 campaigns, 2 jobs, requests 3 and 1): one creator is reachable from both expansion
  tasks and listed by the other; fan-out limit and media budget are one unit short of what the jobs
  ask for.
* *SeedSources* (a seed list, a search, a query with 2 packs; page size 2, 3 members, 1 retry, 15
  requests, pack limit 6, 2 at once): a pack needs two pages, one listing is cut and one is not, and
  the budget ends some campaigns and not others.
* *FilterDecisions* (2 processes, 2 candidates, 3 pictures of which one is a URL fallback, 2
  configurations, 2 commits, 2 batches, 1 mishap): one entry of the cache is written by one process
  while the other reads it, and computed by two configurations.
* *FilterRuns* (3 candidates in batches of 2, 2 configurations, 2 sweeps): the last batch is short.
* *LocalIngest* (3 raw files, two of which share an output; 2 contents and one unreadable; 2 changes,
  1 mishap): a file changes under a run and again after it, and a duplicate exists both ways.
* *Outbox*: two artworks make a batch with a bad neighbour, and counts that agree although the sets
  do not; one fault in `qdrant` is a crash or a lost reply at any step; `qdrant_overlap` needs two
  (the overlap, and a crash or a stale lock in it) and has one artwork and two workers.
* *Search* (3 requests, 1 slot, 1 waiting place; 2 requests in `live`): three requests hold, wait and
  are turned away at once; two suffice for liveness, where a holder and a waiter compete.
* *FAISS* (2 builders, 2 versions, 2 builds, 1 report): a report can be stale in every way.
  *Fusion*: every pair of rankings of four works, every assignment of two artists, both cuts.
* *Gateway* (2 containers, 2 clients of one of them, limits 2 and 1, window 2, idle stop 3, 2
  requests under way, 1 death): a limit can be reached, outlived and forgotten.
* *Feedback* (1 search, 2 results, 2 marks, 2 grades, the best 2 ranks): one card is graded twice or
  two cards once. With three grades 961 583 states, and with three results 4.7 M states, pass too.
* *Review* (two threads of the dashboard and a CSV import, 1 candidate, 1 verdict, 2 decisions, 3
  labels, torn writes): the lock's owner and somebody it does not bind.
* *Feed* (2 authors, up to 3 posts, nightly and refresh collectors, page cap 1 or 2, quota 2 or 1,
  target 1, 1 death): posts are read newest first, so three are enough for one to lie above, at and
  below a mark; the page cap 1 cuts every longer scan, the second author gives the roster something to
  rotate to.
* *Corpus* (2 candidates, one edited once): one is routed again with other bytes, which are the
  other's first bytes too; two importers (the run and a refresh), so a row can be invalidated,
  replaced, embedded and pruned in every order.
* *Control* (2 servers, 2 jobs, 1 creator and 1 seed to rotate over).
* *Ledger* (2 publishers, one of which may replace the whole catalog; 2 posts of one artwork, 3
  versions, 2 calls). *Store* (2 publications, 2 images, 2 contents, 2 attempts, 1 replacement, 1
  failure, local store; the proof covers both backends). *Launch* (2 days, 1 restart, 1 manual start).
* *Sync* (2 artworks, 2 contents each, 2 overlapping syncs, 1 edit, 1 break, batch 1). Contents of
  different artworks are never compared, so three initial corpora stand for all nine.
* *Graph* (2 processes, 2 accounts found by a search and by following each other, one of which quotes
  the other in its feed, 4 transactions, 1 mishap): two transactions can meet in opposite order, an
  observation is replayed by another run, and the two directions of an edge exist.
* *Monitor* (2 artworks, 3 kinds of decision lines, every way the index may be configured, and with a
  green one every way PostgreSQL may be; 2 changes): one change makes a source differ from what was read before it, the second can undo it or move
  the other side of a comparison.
* *Upgrade* (3 programs, 2 rows): one upgrades, one is between its look and its script, one comes late.

Frontier's rows stop changing when everything settles, but enqueues stay enabled, so deadlock
is checked there, as in the outbox and in `bluesky`; the other runs stop when their bounded work is
done, and it is switched off. Symmetry (requests of the search service, coroutines) is used in
safety and action-property runs only.

**Fairness.** *Frontier*: campaigns are run again and again by the scheduler and each drains
until a claim is empty, so claims and settlements are fair; leases of dead workers expire
and retries become due because time passes; crashes, outlived leases, blocks and enqueues
are not fair. Where another process's steps can disable an action again and again, it is
strongly fair: a process that keeps draining does get a claimable task in the end.
*Outbox*: drains are started again and again and run to their end, delays elapse, locks of
dead drains grow stale; `OutboxDrains` further assumes that batches stop failing from
some time on. *Search*: every await ends, by a result, an error or a time limit, and an
encoder call returns; nobody has to arrive, to cancel or to give feedback. *Feed*: the
nightly collector is started every night and goes on (weakly fair), and an author's scan
that is possible again and again succeeds in the end (strongly fair, per author, since a
failing request leaves the author for another night); refreshes are never fair.

**Mutants.** For every property of a passing run PROJECT.json names a plausible bug under which
the run fails.

## 4. What the code does not keep

* `AttemptsWithinBudget`: `claim_tasks` re-leases an expired row with `attempts + 1` and no
  comparison with `max_attempts` (`discovery/repository.py:691`), so a task whose workers die
  is executed without bound; the documentation says exhausted work becomes `dead`.
* `OneActiveTask`: two campaigns that both read before either inserts enqueue the same
  sample twice (`discovery/repository.py:614`); the idempotency key includes the campaign.
* `PacksSampledToTheirCap`: the limit of a starter-pack query counts packs for the oracle and
  accounts for the coordinator (`discovery/pipeline.py:194`, `discovery/cli.py:290`), so a query
  for 10 packs hands over 10 accounts.
* `RemovedMediaStaysRemoved`: `_record_media_result` writes `deleted_at = NULL`
  (`discovery/repository.py:1473`), so the next sample of the creator undoes an approved
  removal of a media object.
* `CrashIsHarmless`: after a crash between the upsert and its settlement, a publication that
  returns the artwork to the recorded hash makes the repeat skip the point and publish
  the event (`postgres/qdrant_outbox.py:285`); the intermediate content stays served.

Weaker statements that do hold are in the passing runs, and their exceptions are part of
what the models say: a sample or review already under way may overwrite a barred state
(`BarredStaysBarred`); a crash between `ensure_qdrant_collection` and the last queued page
leaves counts that agree and a partial collection (`QuietIsServed` is stated for runs
without faults); a request cancelled in its own error handler leaves its query `started`
(`QueriesEnd`); authors two collectors scanned at once (`overlapped`), artworks a refresh changed
during a run (`mixed`), creators two processes expanded at once, versions whose directory an
operator removed, servers that cannot write, containers that died within the window
(`WindowLimitHolds`), cards that were told NOT RECORDED (`ReportSaysAsTold`), models that do not
name their commit (`DecidedOnOwnImage`), two writers of the label file in different processes
(`OneLinePerAnnotation`), sources that moved while a report was built (`ReportTrueToWorld`), points that already differed from the record, and
what a sync with `--no-prune` leaves standing beside them (`SyncedIsPublished`).

What else modelling showed, that a reader of this code should know and no document denies:

* *Campaigns.* A sample whose candidates another job's reservation has cut to none is still
  recorded as sampled (`discovery/pipeline.py:479`), and one that finds the media budget used
  is completed without sampling (`:471`); running out of requests burns an attempt of the task
  (`:416`). When one source fails, `gather` leaves the others running after the campaign is
  marked failed; a killed campaign stays `running`. A source is asked for one account more than
  its limit; an empty page with a cursor ends a pack; every suggested profile is requested again.
* *Discovery graph.* Suggestions lock a creator's entity before its row and profiles the row before
  the entity (`discovery/repository.py:474`, `:487`), so two campaigns can deadlock; `_execute_task` does
  not name the error, and the whole campaign fails. `hydrate_creator` upserts with depth 0 (`:263`), so
  the minimum depth of every hydrated creator, which coverage snapshots count as graph depth, is 0. Two
  transactions that both find an account unknown can both say it was discovered. A review queue that
  shrinks between its two statements fails in `.one()` (`:985`).
* *Operations report.* Coverage divides all complete embeddings, those of duplicates and withdrawn
  artworks included, by the searchable artworks, so they can mask missing ones; an edit between the
  two statements can lower it to what it never was. Counts of the catalog and of the index that both
  move can be reported as equal although they never were. A missing decision file raises no
  alert, and alerts of severity `info` leave the level `healthy`.
* *Import ledger.* A commit whose acknowledgement is lost is recorded as failed, after which the
  cutover guard refuses the catalog unless another import completed. A publication of an older
  backup that commits last moves rows back, as a whole. A duplicate's decision published by itself
  changes what is served without an event; rows the backup lacks stay; a route to an artwork
  PostgreSQL never got fails every repeat of the import.
* *Object store.* A local `put_file` does not look at what it copied; a source replaced between
  hash and copy leaves other bytes under the name (`ReferenceHoldsItsBytes` exempts them). The
  verification of S3 trusts the checksum its writer attached.
* *Launcher.* A restart after a day's run failed finds that run and fails again. A launcher that
  died or timed out leaves its run without a stack the next launch rebuilds. The query of a run's
  state has no time limit, and its failure looks like "no run".
* *Control server.* "One background job at a time" (`docs/model_operations_dashboard.md:147`)
  holds per server: a command outlives a killed server, and a second server has a slot of its
  own and marks the first one's running job as interrupted when it starts. When a status file
  cannot be written the slot stays taken.
* *Outbox.* A difference of counts that a failing drain cannot repair queues the whole catalog
  again at every start (`postgres/qdrant_outbox.py:84`).
* *Direct sync.* It trusts recorded hashes when the counts agree, so a missing artwork and an extra
  point hide each other; `init --promote` moves the alias to a collection that may be empty.
* *Search edge.* `Retry-After` is cut to whole seconds; a request refused for its size counts
  toward the limit; `/media` answers are cached for a day, a takedown notwithstanding.
* *Feedback.* A grade answered NOT RECORDED may be recorded later and override the next; the
  dashboard reads impressions and grades in two statements.
* *FAISS.* A report names a version, not a build; `verify_checksums_on_load` is off by default.
* *Fusion.* The query artwork uses one of its artist's places before it is excluded, so
  `top_k = 1` can return nothing.
* *Filter.* A model whose commit is not reported is cached as `main`; processor and model are two
  downloads; the key of an embedding omits dtype and device. After a write cut short the next row
  shares the torn line, and neither is readable; an overwriting run replaces the old file with its
  first batch.
* *Review.* Relabelling back to an earlier verdict of the same decision is suppressed as a
  repetition; a label sent after a new decision binds to that one; a torn line in the label
  file stops every later read and append.
* *Local ingest.* Two raw files that differ only in their suffix share one processed file; a file
  whose new content is a duplicate or unreadable keeps its old validated row; the audit of
  `standardize_corpus` would invalidate rows whose working files retention deleted.

## 5. The proofs

Each for every value of the constants that meets the modules' assumptions. A theorem
`Spec => []P` rests on an inductive invariant, checked by TLC first where it differs from what the
run checks; what follows says which facts the invariant adds and why they are needed.

* **FrontierProofs** (`TypeOK`, `OneExecutionPerAttempt`, `RetryBudget`, `SettledByHolder`,
  `SettledStatusFinal`, `ImplementsQueue`). A process settles by worker id, not by attempt number, so
  the properties need three facts that are not visible in them: no execution is newer than the
  row (`CopiesNotNewer`); a worker whose id is in the row of a leased task and who executes
  that task executes its latest attempt (`OwnerIsLatest`, this is where distinct worker ids
  enter); a leased task was claimed at least once (`LeasedWasClaimed`). Then a claim counts
  past every execution, which gives `OneExecutionPerAttempt`, and `LeasedTo` implies the
  latest attempt, which gives `SettledByHolder`. The same invariant maps every step of the
  table to a step of `WorkQueue` or a stutter.
* **DiscoveryProofs**, creators (`TypeOK`, `BarredIsUnsafe`, `ExclusionQuiesces`,
  `BarredStaysBarred`). `BarredIsUnsafe` is inductive with the types: the only steps that open
  `safety` are `IngestRecord`, which its exception covers, and `HydrateWrite` and `SampleProfile`,
  which write the two columns together. The two action properties follow from the types, action by
  action. Campaigns (`CampaignTypeOK`, `MediaWithinBudget`, `FanoutWithinLimit`): a job reads what is
  left, awaits, and then reserves; the budget holds because the reservation is taken again under the
  lock. For the fan-out, one job holds a creator's lock (`OneHolder`), and while it does, the edges
  there are and the room it still has do not exceed the limit together (`RoomLeft`). Assumed: the
  creators are finitely many. Author feeds (`NoPostSkipped`, `ResumeSound`): what a scan has settled is
  always an interval that ends at the mark it will leave (`ScanSound`): a page is the top of what lies
  below its cursor, what a quota takes is the top of the page, and the posts below a stop post were
  settled before. A row says the same between scans (`RowSound`). It may be written from what was read
  when the scan began, because outside `overlapped` nobody else is at the actor (`AloneAt`). Assumed: the
  posts at the start are within the bound.
* **QdrantOutboxProofs** (`TypeOK`, `TakedownHonoured`, `LocksRespected`, `QuietIsServed`).
  `TakedownHonoured` speaks of moments between drains; the invariant follows the drain that
  is under way. As long as none overlapped there is one (`OneDrain`), and it touches only
  what it claimed (`PlanOfClaimed`). If an artwork it acts on is ineligible now, it either
  plans to delete it, and has done so before it settles (`TakedownPlanned`,
  `TakedownWritten`), or the takedown came after its read and left an event the drain did
  not claim, which its settlement cannot remove (`UnclaimedKept`). `QuietStep` shows that
  an artwork becomes quiet by a settlement only: a failure leaves the event delayed or the
  artwork among the dead. `QuietIsServed`, for runs without faults, extends that to contents and to
  the records: a plan is what the catalog says now, or an event that is not in the drain's hands
  says otherwise (`PlansCurrent`); a plan to do nothing is right because what is recorded is served
  (`RecordsServed`), which only a drain between its write and its settlement disturbs; a drain's
  events stay its own (`Held`), so whatever it wrote it settles; and a collection found new or
  different is queued artwork by artwork (`ToQueue`) before the drain claims anything. Assumed
  besides the bounds: the catalog is finite.
* **SearchProofs**, the service (`SearchTypeOK`, `SlotsExact`, `AdmittedHaveThread`,
  `OutcomeTruthful`, `FeedbackFindsShown`). `Coherent` says how a request's program counter, its
  future, its detached flag, its telemetry tasks and its rows hang together (for instance: a
  detached request has left `encoding`, and a task exists only once the request has ended).
  With it every action changes the set of slot holders by exactly the request it moves
  (`CountByOne`), which keeps the counters equal to cardinalities; the bounds of the types
  need `SlotsExact` and the other way round, so the two are proved together. FAISS (`FaissTypeOK`,
  `PromotedWasMeasured`, `ServesPromoted`): as long as a version's directory was not removed, a report
  of it is of the build there (`ReportsCurrent`), so what `promote` compared is what the pointer names.
  Gateway (`WindowLimitHolds`): what a limiter holds is matched, admission by admission, with the
  admissions of the window (`Counted`, `Matches`). A prefix of what it holds has expired and is dropped
  when the next request comes, for the ages of a key only decrease; a prefix of the admissions is lost
  when the container died; a container that slept had idled since its last admission (`IdleSince`), and
  for no less than the window, so it lost none. That is where `IdleStop >= Window` enters.
  Answers (`NoDominatedHit`): in every list made on the way, a work stands after all that dominate it
  (`Ranking`). Whoever is nearest in a ranking has with it all that dominate it (`Upward`), so a
  shortlist loses none of them; in each score a dominating work has no smaller share, and a greater one
  in a list that has the other (`ShareFalls`, `ApproximateFalls`; a missing rank is past the last, which
  the mutant breaks); a cut keeps a beginning. The artist limit passes over a work only after
  `most` works of its artist, and those stand before whatever it dominates (`Diversified`). An artwork
  asked about dominates all others, so it is the first hit FAISS finds and the one it then takes out
  (`ArtworkGood`). Assumed: no two scores of a ranking are equal (the module's abstraction), and
  `Scale` is a common multiple.
* **MonitoringProofs** (`ControlTypeOK`, `SlotHasWorker`, `SnapshotKnowsEndedJobs`; `ReportTrueToWorld`).
  Jobs are numbered in order, and a command under way belongs to a job whose thread waits for it or
  whose server is gone. A build of the snapshot, as long as the lock lasts, began after every job that
  had ended when the cached one was read. The operations report: what a finished step read of a
  source that has not moved since the first step is what the source still is (`CatalogSeen`,
  `FilesSeen`, `LabelsSeen`, `PostgresSeen`, `IndexSeen`), so every alert is compared with a fault of
  the world as it stands. Of the two counts that are compared although the catalog did move, a count
  that never differed from what may be served equals it when it is read, and the other one equals it by
  the same reason (`Agreed`). Assumed: artworks are finitely many, a decision's time is a number, and
  what stands for a missing file is no value a file can have.
* **CorpusProofs** (`CorpusTypeOK`, `ValidatedMatchesFile`, `EmbeddingCurrent`, `PrunedIsStored`).
  The DAG lets only collection import (`DagImportsCollect`), so outside `mixed` artworks an
  import, an embedding and a publication of one artwork are never under way together (`Alone`);
  an artwork is invalid while it is being imported (`ImportingIsInvalid`). The direct sync
  (`SyncedIsPublished`): point by point, an eligible artwork the sync is sure of holds what was read once
  its batch is through, and another one is as recorded (`PointsSound`). That nothing else is there
  follows from the pruned records, or, when the sync is sure of all, from the counts: the wanted points
  are all there, so as many points are the same points. Assumed: the corpus is finite.
  The discovery graph (`RowsSumUpEvidence`, `ReportAddsUp`, `GraphTypeOK`): every observation is of a
  creator that has a row, and between two accounts it is its edge's evidence itself (`ObservationsOK`);
  evidence no sampled image gave is an observation (`EvidenceOK`). So a suggestion nobody recorded has
  no evidence to replay, and a count and its distinct keys grow together; and because every creator's
  count is positive, observations outnumber creators. A report under way has read counts no larger than
  what there is by now (`SeenOK`), for known creators and observations only grow. Assumed: suggestions
  do not have the edges of sampled images (no oracle's result does; only `_record_media_result` writes
  them), and a feed is a finite sequence.
* **IntakeProofs**, one section per module. `UpgradeKeepsRows`: the database is complete as
  committed, and as its one writer sees it except between `CopyRows` and `RenameNew`; a table once
  rebuilt does not become old again, although programs decide from an earlier look. `EveryChangeQueued`
  and `RowsOfOneCopy`: copies of one edition are equal (`CopiesSound`), PostgreSQL is no later than
  what is still to be published in order (`CanonicalNotLater`), and what an event of the newest
  edition stands for is in PostgreSQL (`EventsPublished`). `ReferenceHoldsItsBytes`: every step of
  `put_file` knows what the store holds (`Sound`), over both backends. `DayRunsOnce`: a run that is
  triggered, or awaited, bears the id of its day. `RunCoversFolder`: what a calm run is through with
  has a validated row and a processed file (`VisitedSound`). `FinishedRunDecided`: what a run passed
  over was decided by rows nothing takes away.
* **JudgementProofs** (`ReportSaysAsTold`, `OneLinePerAnnotation`, `EvaluatedAsSeen`,
  `DecidedOnOwnImage`). A card that
  says a grade is recorded says what the latest of its events says (`CardSound`), and `created_at`
  orders the events of one card because its transactions write one row (`TicketsDistinct`). A process
  that read the annotations on file under its lock still knows its own lines when it writes
  (`HandSound`); a label names a decision no older than the one its reviewer was shown (`Judges`).
  `DecidedOnOwnImage`: an entry of the store is of the image and the model its key names
  (`Belongs`), what a process looked up or computed at a row is of the image of that row
  (`VectorsSound`, `Embedded`), and the rows of the missing images are enumerated once each, in
  order (`AscendingOf`).

Proof attempts found two mistakes in the models. `ImportLedger`'s history of what a publication
passed by was cleared by commits that queue no event, so `EveryChangeQueued` was false for four
calls or more, which the run's two do not reach; the history now follows the events. And
`SyncedIsPublished` overlooked that a sync with `--no-prune` compares the counts alone: after two syncs
that died between their write and its record, one point stale and one missing make the counts agree, and
the sync succeeds with a point of an artwork that is no longer eligible. That takes three artworks and
two failures, more than the run has; the property now names that exception (`MayOutlast`). With it a
separate check of three artworks, four syncs, seven edits and two failures (2,036,440 states) passes too.

Proved only, in no run: the type invariants of the modules that have a proof,
`OneExecutionPerAttempt`, `SlotHasWorker`, `ResumeSound`, `RetryBudget`,
`SettledByHolder`, `SettledStatusFinal`, `AdmittedHaveThread`, `LocksRespected`, `BarredIsUnsafe`.
The later type invariants rest on what they say of one variable by another, which the proofs add: an
actor's marks, also those its scan carries, stay within what it has published; a sync past its start
has its collection; a card's grade is one that was sent; a stored grade's `created_at` is no later
than the last ticket.

**Model-checked only.** Liveness (`EveryTaskSettles`, `ExcludedWorkDrains`, `OutboxDrains`, `QueriesEnd`,
`BacklogDrains`): fairness and ENABLED are out of this prover's reach. Every safety property that a
passing run checks is also proved. No proof uses induction over data: what the code computes in a loop
over a list is stated by what it selects (`Picked`, in SeedSources and RankFusion).


## 6. Not modelled

Manifests and the run bundle of a publication, S3 multipart uploads and canaries; the edge's pages,
media, assistant and visitor counts; the pages of the dashboards; retrieval
judgments and evaluation sessions; model inference; deployment and credential checks; `--resume`
checkpoints of embedding jobs; reposts; the filter's `deterministic_only` path; warnings of near
duplicates. They either hold no shared state or repeat a pattern a module above has. Removal events
(`corpus.remove_subject`, `discovery/repository.py:919`) have no consumer in the repository, and
`record_interaction`, `upsert_user` and `start_session` no caller.

PROJECT.json says under `components` what each part's modules leave out.

## 7. Plan

Done: every module of section 2, with its run and mutants, and the proofs of section 5.

Left, in order of importance:

1. An abstract index (content reaches the served side, never backwards without a fault) that the
   outbox implements while nothing fails; its invariant is the one `QuietIsServed` is proved with.
2. `Algorithms`: the retry delay, the creator score and the image transforms as functions, each
   against a reference definition on bounded inputs.
3. The components of section 6 that keep state: manifests, judgments, checkpoints.
