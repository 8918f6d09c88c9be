---------------------------- MODULE ImageSearch ----------------------------
(***************************************************************************)
(* One process of the public image search API: ImageSearchService          *)
(* (artsearch/api/service.py) with PostgresSearchTelemetry (telemetry.py)  *)
(* and AsyncTelemetryRepository (artsearch/postgres/repositories.py).      *)
(*                                                                         *)
(* A step is what the event loop runs between two awaits, one database     *)
(* transaction, or one move of an encoder thread.  Requests interleave at  *)
(* the awaits, and a request may be cancelled at each of them.             *)
(*                                                                         *)
(* Abstractions.  The asyncio semaphore and the thread pool are modelled   *)
(* by what they guarantee: a free slot goes to a waiter, a newcomer does   *)
(* not overtake one; a thread takes one submitted image at a time.  A time *)
(* limit may expire whenever its wait has not been answered.  Vectors,     *)
(* hits and timings are left out, and with them the ranking-stage and      *)
(* candidate rows.  Telemetry is the PostgreSQL one (feedback_enabled).    *)
(***************************************************************************)
EXTENDS Naturals, FiniteSets

CONSTANTS
  Request,       \* searches, each by its own call of search_image
  Capacity,      \* max_concurrent_inferences: slots, and threads of the pool
  MaxPending     \* max_pending_inferences

ASSUME ImageSearchAssumption ==
  /\ IsFiniteSet(Request)
  /\ Capacity \in Nat \ {0}
  /\ MaxPending \in Nat \ {0}

\* Where search_image stands.  "failing" is its handler awaiting the telemetry
\* start; "abandoned" a request cancelled in that handler.
Pc == {"idle", "waiting", "encoding", "searching", "joining", "failing",
       "answered", "raised", "abandoned"}
\* The future submitted to the encoder pool.
Encode == {"none", "queued", "running", "done", "error"}
\* The telemetry start task; "noop" when it fell back to NoopSearchTelemetry.
Start == {"none", "running", "recorded", "noop"}
\* The task that records the outcome, and how far it came.
OutcomeTask == {"none", "complete", "shown", "fail", "done", "lost"}
\* product.queries.status, "absent" when there is no row.
Query == {"absent", "started", "completed", "error"}
\* A submit_feedback for a result the request displayed.
Feedback == {"none", "waiting", "writing", "recorded", "notfound", "failed"}

VARIABLES
  pc,
  free,        \* value of _inference_slots
  pending,     \* _pending_inferences
  active,      \* _active_inferences
  encode,
  detached,    \* requests whose slot is released by their future's callback
  start,
  task,
  query,
  impressions, \* requests whose result_impressions rows are committed
  feedback

admission == <<free, pending, active, encode, detached>>
telemetry == <<start, task, query, impressions>>
searchVars ==
  <<pc, free, pending, active, encode, detached, start, task, query, impressions, feedback>>

SearchInit ==
  /\ pc = [r \in Request |-> "idle"]
  /\ free = Capacity
  /\ pending = 0
  /\ active = 0
  /\ encode = [r \in Request |-> "none"]
  /\ detached = {}
  /\ start = [r \in Request |-> "none"]
  /\ task = [r \in Request |-> "none"]
  /\ query = [r \in Request |-> "absent"]
  /\ impressions = {}
  /\ feedback = [r \in Request |-> "none"]

-----------------------------------------------------------------------------
(* Admission to the encoder.                                               *)

Waiting == {r \in Request : pc[r] = "waiting"}
Outstanding == {r \in Request : encode[r] \in {"queued", "running"}}

HasRoom == pending < MaxPending

\* _release_inference_slot; the freed slot is there for the next Admit.
ReleaseSlot ==
  /\ active' = active - 1
  /\ free' = free + 1

\* A request queues its telemetry start and enters _encode_image: turned away
\* when too many wait, submitted at once when a slot is free, else it waits.
Arrive(r) ==
  /\ pc[r] = "idle"
  /\ start' = [start EXCEPT ![r] = "running"]
  /\ \/ /\ ~HasRoom
        /\ pc' = [pc EXCEPT ![r] = "failing"]
        /\ UNCHANGED admission
     \/ /\ HasRoom
        /\ free > 0 /\ Waiting = {}
        /\ pc' = [pc EXCEPT ![r] = "encoding"]
        /\ encode' = [encode EXCEPT ![r] = "queued"]
        /\ free' = free - 1
        /\ active' = active + 1
        /\ UNCHANGED <<pending, detached>>
     \/ /\ HasRoom
        /\ free = 0 \/ Waiting # {}
        /\ pc' = [pc EXCEPT ![r] = "waiting"]
        /\ pending' = pending + 1
        /\ UNCHANGED <<free, active, encode, detached>>
  /\ UNCHANGED <<task, query, impressions, feedback>>

\* A waiter gets a slot and submits its image.
Admit(r) ==
  /\ pc[r] = "waiting"
  /\ free > 0
  /\ pc' = [pc EXCEPT ![r] = "encoding"]
  /\ encode' = [encode EXCEPT ![r] = "queued"]
  /\ free' = free - 1
  /\ active' = active + 1
  /\ pending' = pending - 1
  /\ UNCHANGED <<detached, telemetry, feedback>>

\* inference_queue_timeout_seconds: SearchBusyError.
QueueTimeout(r) ==
  /\ pc[r] = "waiting"
  /\ pc' = [pc EXCEPT ![r] = "failing"]
  /\ pending' = pending - 1
  /\ UNCHANGED <<free, active, encode, detached, telemetry, feedback>>

\* A thread of the pool takes the next image, and later finishes with it.
ThreadTakes(r) ==
  /\ encode[r] = "queued"
  /\ Cardinality({q \in Request : encode[q] = "running"}) < Capacity
  /\ encode' = [encode EXCEPT ![r] = "running"]
  /\ UNCHANGED <<pc, free, pending, active, detached, telemetry, feedback>>

ThreadEnds(r) ==
  /\ encode[r] = "running"
  /\ \E outcome \in {"done", "error"} : encode' = [encode EXCEPT ![r] = outcome]
  /\ UNCHANGED <<pc, free, pending, active, detached, telemetry, feedback>>

\* _encode_image resumes with its future's outcome and gives the slot back.
Encoded(r) ==
  /\ pc[r] = "encoding"
  /\ encode[r] \in {"done", "error"}
  /\ pc' = [pc EXCEPT ![r] = IF encode[r] = "done" THEN "searching" ELSE "failing"]
  /\ ReleaseSlot
  /\ UNCHANGED <<pending, encode, detached, telemetry, feedback>>

\* inference_timeout_seconds: the thread goes on, and holds the slot.
InferenceTimeout(r) ==
  /\ pc[r] = "encoding"
  /\ pc' = [pc EXCEPT ![r] = "failing"]
  /\ detached' = detached \union {r}
  /\ UNCHANGED <<free, pending, active, encode, telemetry, feedback>>

\* The done callback that _release_inference_later left on the future.
CallbackFires(r) == r \in detached /\ encode[r] \in {"done", "error"}

ReleaseLater(r) ==
  /\ CallbackFires(r)
  /\ detached' = detached \ {r}
  /\ ReleaseSlot
  /\ UNCHANGED <<pc, pending, encode, telemetry, feedback>>

-----------------------------------------------------------------------------
(* The rest of search_image.                                               *)

Retrieved(r) ==
  /\ pc[r] = "searching"
  /\ pc' = [pc EXCEPT ![r] = "joining"]
  /\ UNCHANGED <<admission, telemetry, feedback>>

\* Qdrant, the catalog or the check of its records failed.
RetrievalFails(r) ==
  /\ pc[r] = "searching"
  /\ pc' = [pc EXCEPT ![r] = "failing"]
  /\ UNCHANGED <<admission, telemetry, feedback>>

StartEnded(r) == start[r] \in {"recorded", "noop"}

\* The response is built and its completion task queued, with no await between.
Answer(r) ==
  /\ pc[r] = "joining" /\ StartEnded(r)
  /\ pc' = [pc EXCEPT ![r] = "answered"]
  /\ task' = [task EXCEPT ![r] = "complete"]
  /\ UNCHANGED <<admission, start, query, impressions, feedback>>

\* The handler of search_image, once the telemetry start is there.
Report(r) ==
  /\ pc[r] = "failing" /\ StartEnded(r)
  /\ pc' = [pc EXCEPT ![r] = "raised"]
  /\ task' = [task EXCEPT ![r] = "fail"]
  /\ UNCHANGED <<admission, start, query, impressions, feedback>>

\* CancelledError inside the try: a waiter leaves the queue, an encoding one
\* leaves its thread behind, and the failure is queued behind the start.
\* Mutant: the completion is queued inside the try.
CancellableAnswered(r) ==
  pc[r] \in {"waiting", "encoding", "searching", "joining", "answered"}

Cancellable(r) == pc[r] \in {"waiting", "encoding", "searching", "joining"}

\* Mutant: no decrement when cancelled.
StillCounted(r) == UNCHANGED pending
LeaveQueue(r) == pending' = IF pc[r] = "waiting" THEN pending - 1 ELSE pending

Cancel(r) ==
  /\ Cancellable(r)
  /\ LeaveQueue(r)
  /\ detached' = IF pc[r] = "encoding" THEN detached \union {r} ELSE detached
  /\ pc' = [pc EXCEPT ![r] = "raised"]
  /\ task' = [task EXCEPT ![r] = "fail"]
  /\ UNCHANGED <<free, active, encode, start, query, impressions, feedback>>

\* Cancelled while the handler awaits the start: nothing is queued.
CancelInHandler(r) ==
  /\ pc[r] = "failing"
  /\ pc' = [pc EXCEPT ![r] = "abandoned"]
  /\ UNCHANGED <<admission, telemetry, feedback>>

-----------------------------------------------------------------------------
(* Telemetry tasks.                                                        *)

StartRecorded(r) ==
  /\ start[r] = "running"
  /\ start' = [start EXCEPT ![r] = "recorded"]
  /\ query' = [query EXCEPT ![r] = "started"]
  /\ UNCHANGED <<pc, admission, task, impressions, feedback>>

\* start raised; the row may have been committed before the error.
StartFails(r) ==
  /\ start[r] = "running"
  /\ start' = [start EXCEPT ![r] = "noop"]
  /\ \E q \in {"absent", "started"} : query' = [query EXCEPT ![r] = q]
  /\ UNCHANGED <<pc, admission, task, impressions, feedback>>

\* complete(), up to the transaction with the impressions.
RecordImpressions(r) ==
  /\ task[r] = "complete" /\ start[r] = "recorded"
  /\ task' = [task EXCEPT ![r] = "shown"]
  /\ impressions' = impressions \union {r}
  /\ UNCHANGED <<pc, admission, start, query, feedback>>

\* What the last transaction of the outcome task writes.
Written(r) ==
  [query EXCEPT ![r] = CASE task[r] = "shown" -> "completed"
                         [] task[r] = "fail" /\ start[r] = "recorded" -> "error"
                         [] OTHER -> @]

\* complete_query, its last transaction.
CompleteQuery(r) ==
  /\ task[r] = "shown"
  /\ task' = [task EXCEPT ![r] = "done"]
  /\ query' = Written(r)
  /\ UNCHANGED <<pc, admission, start, impressions, feedback>>

\* fail_query, an UPDATE of the row of the context start returned.  The
\* failure of a cancelled request awaits the start first (fail_after_start).
\* Mutant: does not await the start.
FailureReadyEarly(r) == task[r] = "fail"
FailureReady(r) == task[r] = "fail" /\ StartEnded(r)

FailQuery(r) ==
  /\ FailureReady(r)
  /\ task' = [task EXCEPT ![r] = "done"]
  /\ query' = Written(r)
  /\ UNCHANGED <<pc, admission, start, impressions, feedback>>

\* A transaction of the outcome task failed, or its commit was not confirmed:
\* it is logged and given up.
OutcomeLost(r) ==
  /\ task[r] \in {"complete", "shown"} \/ FailureReady(r)
  /\ task' = [task EXCEPT ![r] = "lost"]
  /\ query' \in {query, Written(r)}
  /\ UNCHANGED <<pc, admission, start, impressions, feedback>>

-----------------------------------------------------------------------------
(* Feedback on a displayed result.                                         *)

CompletionRunning(r) == task[r] \in {"complete", "shown"}

\* record_after_completion looks the completion task up, and awaits it.
\* Mutant: straight to the database.
AwaitsNothing(r) == FALSE
AwaitsCompletion(r) == CompletionRunning(r)

SubmitFeedback(r) ==
  /\ pc[r] = "answered"
  /\ feedback[r] = "none"
  /\ feedback' = [feedback EXCEPT ![r] = IF AwaitsCompletion(r) THEN "waiting" ELSE "writing"]
  /\ UNCHANGED <<pc, admission, telemetry>>

FeedbackResumes(r) ==
  /\ feedback[r] = "waiting"
  /\ ~CompletionRunning(r)
  /\ feedback' = [feedback EXCEPT ![r] = "writing"]
  /\ UNCHANGED <<pc, admission, telemetry>>

\* record_relevance_feedback; the impression and the completed query are read
\* and the event inserted in one transaction.
RecordFeedback(r) ==
  /\ feedback[r] = "writing"
  /\ feedback' = [feedback EXCEPT ![r] =
       IF query[r] = "completed" /\ r \in impressions THEN "recorded" ELSE "notfound"]
  /\ UNCHANGED <<pc, admission, telemetry>>

FeedbackFails(r) ==
  /\ feedback[r] = "writing"
  /\ feedback' = [feedback EXCEPT ![r] = "failed"]
  /\ UNCHANGED <<pc, admission, telemetry>>

-----------------------------------------------------------------------------
\* What the code takes further by itself.
Encodes(r) == Admit(r) \/ QueueTimeout(r) \/ Encoded(r) \/ InferenceTimeout(r)
Thread(r) == ThreadTakes(r) \/ ThreadEnds(r)
Continues(r) == Retrieved(r) \/ RetrievalFails(r) \/ Answer(r) \/ Report(r)
Starts(r) == StartRecorded(r) \/ StartFails(r)
RecordsOutcome(r) ==
  RecordImpressions(r) \/ CompleteQuery(r) \/ FailQuery(r) \/ OutcomeLost(r)
GivesFeedback(r) ==
  SubmitFeedback(r) \/ FeedbackResumes(r) \/ RecordFeedback(r) \/ FeedbackFails(r)

SearchNext == \E r \in Request :
  \/ Arrive(r) \/ Encodes(r) \/ Thread(r) \/ ReleaseLater(r) \/ Continues(r)
  \/ Cancel(r) \/ CancelInHandler(r)
  \/ Starts(r) \/ RecordsOutcome(r) \/ GivesFeedback(r)

SearchSpec == SearchInit /\ [][SearchNext]_searchVars

\* Every await ends: by its result, by an error or by its time limit, and an
\* encoder call returns.  Nobody has to arrive, to cancel or to give feedback.
SearchFairness ==
  \A r \in Request :
       /\ WF_searchVars(Encodes(r)) /\ WF_searchVars(Thread(r))
       /\ WF_searchVars(ReleaseLater(r)) /\ WF_searchVars(Continues(r))
       /\ WF_searchVars(Starts(r)) /\ WF_searchVars(RecordsOutcome(r))

-----------------------------------------------------------------------------
(* Properties.                                                             *)

\* The types of the variables; the waiting room never holds more than
\* max_pending_inferences, however arrivals, time limits and cancellations mix.
SearchTypeOK ==
  /\ pc \in [Request -> Pc]
  /\ free \in 0..Capacity
  /\ pending \in 0..MaxPending
  /\ active \in 0..Capacity
  /\ encode \in [Request -> Encode]
  /\ detached \in SUBSET Request
  /\ start \in [Request -> Start]
  /\ task \in [Request -> OutcomeTask]
  /\ query \in [Request -> Query]
  /\ impressions \in SUBSET Request
  /\ feedback \in [Request -> Feedback]

Holders == {r \in Request : pc[r] = "encoding"} \union detached

\* No path through _encode_image, normal, failed, timed out or cancelled, loses
\* a slot, returns one twice or leaves the waiting count off: the counters
\* /api/compute-status reports are exact.
SlotsExact ==
  /\ free + active = Capacity
  /\ active = Cardinality(Holders)
  /\ pending = Cardinality(Waiting)

\* An admitted image never queues in the pool behind one whose request is gone,
\* so inference_timeout_seconds measures its own encoding: the images
\* submitted and not finished never outnumber the threads.
AdmittedHaveThread == Cardinality(Outstanding) <= Capacity

\* What the trace says of a query is what its client saw: completed only for
\* an answered request with its impressions on record, error only for one
\* that raised.
OutcomeTruthful == \A r \in Request :
  /\ query[r] = "completed" => pc[r] = "answered" /\ r \in impressions
  /\ query[r] = "error" => pc[r] = "raised"

\* Feedback on a displayed result is told "not shown" only when the telemetry
\* of that very query was lost; being early is no reason.
FeedbackFindsShown == \A r \in Request :
  feedback[r] = "notfound" => start[r] = "noop" \/ task[r] = "lost"

\* The row of a started query reaches completed or error, unless a telemetry
\* write failed or the request was cancelled inside its own handler.
QueriesEnd == \A r \in Request :
  query[r] = "started" ~>
    \/ query[r] \in {"completed", "error"}
    \/ start[r] = "noop" \/ task[r] = "lost" \/ pc[r] = "abandoned"

=============================================================================
