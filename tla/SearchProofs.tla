---------------------------- MODULE SearchProofs ----------------------------
(* Proofs about the parts of search: the image search service, the FAISS   *)
(* snapshots behind it, the gateway in front of it, and the answers the    *)
(* backends choose.                                                        *)
EXTENDS ImageSearch, FaissSnapshots, RankFusion, Gateway, FiniteSetTheorems, SequenceTheorems,
  WellFoundedInduction, TLAPS

-----------------------------------------------------------------------------
(***************************************************************************)
(* Proofs about ImageSearch for any finite set of requests, any capacity   *)
(* and any waiting room.                                                   *)
(*                                                                         *)
(* SlotsExact is not inductive alone: that a release finds a slot to give  *)
(* back needs to know where a request may stand while its slot is detached,*)
(* and the outcome and feedback properties need to know which task a       *)
(* request in each place can have.  Coherent says both, request by request.*)
(***************************************************************************)

\* Where the parts of one request's state can stand together.
CoherentAt(r) ==
  /\ r \in detached => pc[r] \in {"failing", "raised", "abandoned"}
  /\ pc[r] \in {"idle", "waiting"} => encode[r] = "none"
  /\ encode[r] \in {"queued", "running"} => r \in Holders
  /\ pc[r] = "idle" <=> start[r] = "none"
  /\ start[r] \in {"none", "running"} => query[r] = "absent"
  /\ pc[r] = "answered" => StartEnded(r) /\ task[r] # "none"
  /\ task[r] # "none" => pc[r] \in {"answered", "raised"}
  /\ task[r] \in {"complete", "shown"} => pc[r] = "answered"
  /\ task[r] = "fail" => pc[r] = "raised"
  /\ task[r] = "shown" => r \in impressions
  /\ pc[r] = "answered" /\ task[r] = "done" => query[r] = "completed"
  /\ query[r] = "completed" => task[r] \in {"done", "lost"}
  /\ feedback[r] \notin {"none", "waiting"} => pc[r] = "answered" /\ task[r] \in {"done", "lost"}
  /\ feedback[r] = "waiting" => pc[r] = "answered"

Coherent == \A r \in Request : CoherentAt(r)

\* The types of everything but the three counters, whose ranges are the matter.
Shapes ==
  /\ pc \in [Request -> Pc]
  /\ free \in Int /\ pending \in Int /\ active \in Int
  /\ encode \in [Request -> Encode]
  /\ detached \in SUBSET Request
  /\ start \in [Request -> Start]
  /\ task \in [Request -> OutcomeTask]
  /\ query \in [Request -> Query]
  /\ impressions \in SUBSET Request
  /\ feedback \in [Request -> Feedback]

(* The inductive invariant.                                                *)
IInv == SearchTypeOK /\ SlotsExact /\ OutcomeTruthful /\ FeedbackFindsShown /\ Coherent

(* Every step keeps the types, counters aside.                             *)
LEMMA ShapesStep == SearchTypeOK /\ [SearchNext]_searchVars => Shapes'
<1> SUFFICES ASSUME SearchTypeOK, [SearchNext]_searchVars PROVE Shapes'
  OBVIOUS
<1> USE ImageSearchAssumption
    DEF SearchTypeOK, Shapes, Pc, Encode, Start, OutcomeTask, Query, Feedback, admission, telemetry
<1>1. ASSUME NEW r \in Request, Arrive(r) PROVE Shapes'
  BY <1>1 DEF Arrive, HasRoom, Waiting, ReleaseSlot
<1>2. ASSUME NEW r \in Request, Admit(r) PROVE Shapes'
  BY <1>2 DEF Admit
<1>3. ASSUME NEW r \in Request, QueueTimeout(r) PROVE Shapes'
  BY <1>3 DEF QueueTimeout
<1>4. ASSUME NEW r \in Request, Encoded(r) PROVE Shapes'
  BY <1>4 DEF Encoded, ReleaseSlot
<1>5. ASSUME NEW r \in Request, InferenceTimeout(r) PROVE Shapes'
  BY <1>5 DEF InferenceTimeout
<1>6. ASSUME NEW r \in Request, ThreadTakes(r) PROVE Shapes'
  BY <1>6 DEF ThreadTakes
<1>7. ASSUME NEW r \in Request, ThreadEnds(r) PROVE Shapes'
  BY <1>7 DEF ThreadEnds
<1>8. ASSUME NEW r \in Request, ReleaseLater(r) PROVE Shapes'
  BY <1>8 DEF ReleaseLater, CallbackFires, ReleaseSlot
<1>9. ASSUME NEW r \in Request, Retrieved(r) PROVE Shapes'
  BY <1>9 DEF Retrieved
<1>10. ASSUME NEW r \in Request, RetrievalFails(r) PROVE Shapes'
  BY <1>10 DEF RetrievalFails
<1>11. ASSUME NEW r \in Request, Answer(r) PROVE Shapes'
  BY <1>11 DEF Answer, StartEnded
<1>12. ASSUME NEW r \in Request, Report(r) PROVE Shapes'
  BY <1>12 DEF Report, StartEnded
<1>13. ASSUME NEW r \in Request, Cancel(r) PROVE Shapes'
  BY <1>13 DEF Cancel, Cancellable, LeaveQueue
<1>14. ASSUME NEW r \in Request, CancelInHandler(r) PROVE Shapes'
  BY <1>14 DEF CancelInHandler
<1>15. ASSUME NEW r \in Request, StartRecorded(r) PROVE Shapes'
  BY <1>15 DEF StartRecorded
<1>16. ASSUME NEW r \in Request, StartFails(r) PROVE Shapes'
  BY <1>16 DEF StartFails
<1>17. ASSUME NEW r \in Request, RecordImpressions(r) PROVE Shapes'
  BY <1>17 DEF RecordImpressions
<1>18. ASSUME NEW r \in Request, CompleteQuery(r) PROVE Shapes'
  BY <1>18 DEF CompleteQuery, Written
<1>19. ASSUME NEW r \in Request, FailQuery(r) PROVE Shapes'
  BY <1>19 DEF FailQuery, Written, FailureReady, StartEnded
<1>20. ASSUME NEW r \in Request, OutcomeLost(r) PROVE Shapes'
  BY <1>20 DEF OutcomeLost, Written, FailureReady, StartEnded
<1>21. ASSUME NEW r \in Request, SubmitFeedback(r) PROVE Shapes'
  BY <1>21 DEF SubmitFeedback, AwaitsCompletion, CompletionRunning
<1>22. ASSUME NEW r \in Request, FeedbackResumes(r) PROVE Shapes'
  BY <1>22 DEF FeedbackResumes, CompletionRunning
<1>23. ASSUME NEW r \in Request, RecordFeedback(r) PROVE Shapes'
  BY <1>23 DEF RecordFeedback
<1>24. ASSUME NEW r \in Request, FeedbackFails(r) PROVE Shapes'
  BY <1>24 DEF FeedbackFails
<1>25. CASE UNCHANGED searchVars
  BY <1>25 DEF searchVars
<1> QED
  BY <1>1, <1>2, <1>3, <1>4, <1>5, <1>6, <1>7, <1>8, <1>9, <1>10, <1>11, <1>12, <1>13,
     <1>14, <1>15, <1>16, <1>17, <1>18, <1>19, <1>20, <1>21, <1>22, <1>23, <1>24, <1>25
  DEF SearchNext, Encodes, Thread, Continues, Starts, RecordsOutcome, GivesFeedback

(* A step keeps each request coherent.                                     *)
LEMMA CoherentStep ==
  ASSUME SearchTypeOK, Coherent, [SearchNext]_searchVars, NEW q \in Request
  PROVE  CoherentAt(q)'
<1> CoherentAt(q)
  BY DEF Coherent
<1> USE DEF SearchTypeOK, CoherentAt, Holders, StartEnded, Pc, Encode, Start, OutcomeTask, Query, Feedback,
            admission, telemetry
<1>1. ASSUME NEW r \in Request, Arrive(r) PROVE CoherentAt(q)'
  BY <1>1 DEF Arrive, HasRoom, Waiting, ReleaseSlot
<1>2. ASSUME NEW r \in Request, Admit(r) PROVE CoherentAt(q)'
  BY <1>2 DEF Admit
<1>3. ASSUME NEW r \in Request, QueueTimeout(r) PROVE CoherentAt(q)'
  BY <1>3 DEF QueueTimeout
<1>4. ASSUME NEW r \in Request, Encoded(r) PROVE CoherentAt(q)'
  BY <1>4 DEF Encoded, ReleaseSlot
<1>5. ASSUME NEW r \in Request, InferenceTimeout(r) PROVE CoherentAt(q)'
  BY <1>5 DEF InferenceTimeout
<1>6. ASSUME NEW r \in Request, ThreadTakes(r) PROVE CoherentAt(q)'
  BY <1>6 DEF ThreadTakes
<1>7. ASSUME NEW r \in Request, ThreadEnds(r) PROVE CoherentAt(q)'
  BY <1>7 DEF ThreadEnds
<1>8. ASSUME NEW r \in Request, ReleaseLater(r) PROVE CoherentAt(q)'
  BY <1>8 DEF ReleaseLater, CallbackFires, ReleaseSlot
<1>9. ASSUME NEW r \in Request, Retrieved(r) PROVE CoherentAt(q)'
  BY <1>9 DEF Retrieved
<1>10. ASSUME NEW r \in Request, RetrievalFails(r) PROVE CoherentAt(q)'
  BY <1>10 DEF RetrievalFails
<1>11. ASSUME NEW r \in Request, Answer(r) PROVE CoherentAt(q)'
  BY <1>11 DEF Answer, StartEnded
<1>12. ASSUME NEW r \in Request, Report(r) PROVE CoherentAt(q)'
  BY <1>12 DEF Report, StartEnded
<1>13. ASSUME NEW r \in Request, Cancel(r) PROVE CoherentAt(q)'
  BY <1>13 DEF Cancel, Cancellable, LeaveQueue
<1>14. ASSUME NEW r \in Request, CancelInHandler(r) PROVE CoherentAt(q)'
  BY <1>14 DEF CancelInHandler
<1>15. ASSUME NEW r \in Request, StartRecorded(r) PROVE CoherentAt(q)'
  BY <1>15 DEF StartRecorded
<1>16. ASSUME NEW r \in Request, StartFails(r) PROVE CoherentAt(q)'
  BY <1>16 DEF StartFails
<1>17. ASSUME NEW r \in Request, RecordImpressions(r) PROVE CoherentAt(q)'
  BY <1>17 DEF RecordImpressions
<1>18. ASSUME NEW r \in Request, CompleteQuery(r) PROVE CoherentAt(q)'
  BY <1>18 DEF CompleteQuery, Written
<1>19. ASSUME NEW r \in Request, FailQuery(r) PROVE CoherentAt(q)'
  BY <1>19 DEF FailQuery, Written, FailureReady, StartEnded
<1>20. ASSUME NEW r \in Request, OutcomeLost(r) PROVE CoherentAt(q)'
  BY <1>20 DEF OutcomeLost, Written, FailureReady, StartEnded
<1>21. ASSUME NEW r \in Request, SubmitFeedback(r) PROVE CoherentAt(q)'
  BY <1>21 DEF SubmitFeedback, AwaitsCompletion, CompletionRunning
<1>22. ASSUME NEW r \in Request, FeedbackResumes(r) PROVE CoherentAt(q)'
  BY <1>22 DEF FeedbackResumes, CompletionRunning
<1>23. ASSUME NEW r \in Request, RecordFeedback(r) PROVE CoherentAt(q)'
  BY <1>23 DEF RecordFeedback
<1>24. ASSUME NEW r \in Request, FeedbackFails(r) PROVE CoherentAt(q)'
  BY <1>24 DEF FeedbackFails
<1>25. CASE UNCHANGED searchVars
  BY <1>25 DEF searchVars
<1> QED
  BY <1>1, <1>2, <1>3, <1>4, <1>5, <1>6, <1>7, <1>8, <1>9, <1>10, <1>11, <1>12, <1>13,
     <1>14, <1>15, <1>16, <1>17, <1>18, <1>19, <1>20, <1>21, <1>22, <1>23, <1>24, <1>25
  DEF SearchNext, Encodes, Thread, Continues, Starts, RecordsOutcome, GivesFeedback

(* A step keeps what the trace says of each request true.                  *)
LEMMA OutcomeStep ==
  ASSUME SearchTypeOK, Coherent, OutcomeTruthful, FeedbackFindsShown, [SearchNext]_searchVars, NEW q \in Request
  PROVE  /\ query'[q] = "completed" => pc'[q] = "answered" /\ q \in impressions'
         /\ query'[q] = "error" => pc'[q] = "raised"
         /\ feedback'[q] = "notfound" => start'[q] = "noop" \/ task'[q] = "lost"
<1> DEFINE Goal == /\ query'[q] = "completed" => pc'[q] = "answered" /\ q \in impressions'
                   /\ query'[q] = "error" => pc'[q] = "raised"
                   /\ feedback'[q] = "notfound" => start'[q] = "noop" \/ task'[q] = "lost"
<1> SUFFICES Goal
  OBVIOUS
<1> CoherentAt(q)
  BY DEF Coherent
<1> USE DEF SearchTypeOK, CoherentAt, OutcomeTruthful, FeedbackFindsShown, StartEnded, Pc, Encode, Start,
            OutcomeTask, Query, Feedback, admission, telemetry
<1>1. ASSUME NEW r \in Request, Arrive(r) PROVE Goal
  BY <1>1 DEF Arrive, HasRoom, Waiting, ReleaseSlot
<1>2. ASSUME NEW r \in Request, Admit(r) PROVE Goal
  BY <1>2 DEF Admit
<1>3. ASSUME NEW r \in Request, QueueTimeout(r) PROVE Goal
  BY <1>3 DEF QueueTimeout
<1>4. ASSUME NEW r \in Request, Encoded(r) PROVE Goal
  BY <1>4 DEF Encoded, ReleaseSlot
<1>5. ASSUME NEW r \in Request, InferenceTimeout(r) PROVE Goal
  BY <1>5 DEF InferenceTimeout
<1>6. ASSUME NEW r \in Request, ThreadTakes(r) PROVE Goal
  BY <1>6 DEF ThreadTakes
<1>7. ASSUME NEW r \in Request, ThreadEnds(r) PROVE Goal
  BY <1>7 DEF ThreadEnds
<1>8. ASSUME NEW r \in Request, ReleaseLater(r) PROVE Goal
  BY <1>8 DEF ReleaseLater, CallbackFires, ReleaseSlot
<1>9. ASSUME NEW r \in Request, Retrieved(r) PROVE Goal
  BY <1>9 DEF Retrieved
<1>10. ASSUME NEW r \in Request, RetrievalFails(r) PROVE Goal
  BY <1>10 DEF RetrievalFails
<1>11. ASSUME NEW r \in Request, Answer(r) PROVE Goal
  BY <1>11 DEF Answer, StartEnded
<1>12. ASSUME NEW r \in Request, Report(r) PROVE Goal
  BY <1>12 DEF Report, StartEnded
<1>13. ASSUME NEW r \in Request, Cancel(r) PROVE Goal
  BY <1>13 DEF Cancel, Cancellable, LeaveQueue
<1>14. ASSUME NEW r \in Request, CancelInHandler(r) PROVE Goal
  BY <1>14 DEF CancelInHandler
<1>15. ASSUME NEW r \in Request, StartRecorded(r) PROVE Goal
  BY <1>15 DEF StartRecorded
<1>16. ASSUME NEW r \in Request, StartFails(r) PROVE Goal
  BY <1>16 DEF StartFails
<1>17. ASSUME NEW r \in Request, RecordImpressions(r) PROVE Goal
  BY <1>17 DEF RecordImpressions
<1>18. ASSUME NEW r \in Request, CompleteQuery(r) PROVE Goal
  BY <1>18 DEF CompleteQuery, Written
<1>19. ASSUME NEW r \in Request, FailQuery(r) PROVE Goal
  BY <1>19 DEF FailQuery, Written, FailureReady, StartEnded
<1>20. ASSUME NEW r \in Request, OutcomeLost(r) PROVE Goal
  BY <1>20 DEF OutcomeLost, Written, FailureReady, StartEnded
<1>21. ASSUME NEW r \in Request, SubmitFeedback(r) PROVE Goal
  BY <1>21 DEF SubmitFeedback, AwaitsCompletion, CompletionRunning
<1>22. ASSUME NEW r \in Request, FeedbackResumes(r) PROVE Goal
  BY <1>22 DEF FeedbackResumes, CompletionRunning
<1>23. ASSUME NEW r \in Request, RecordFeedback(r) PROVE Goal
  BY <1>23 DEF RecordFeedback
<1>24. ASSUME NEW r \in Request, FeedbackFails(r) PROVE Goal
  BY <1>24 DEF FeedbackFails
<1>25. CASE UNCHANGED searchVars
  BY <1>25 DEF searchVars
<1> QED
  BY <1>1, <1>2, <1>3, <1>4, <1>5, <1>6, <1>7, <1>8, <1>9, <1>10, <1>11, <1>12, <1>13,
     <1>14, <1>15, <1>16, <1>17, <1>18, <1>19, <1>20, <1>21, <1>22, <1>23, <1>24, <1>25
  DEF SearchNext, Encodes, Thread, Continues, Starts, RecordsOutcome, GivesFeedback

(* The sets the counters count are finite, and a request entering or       *)
(* leaving one changes its size by one.                                    *)
LEMMA CountByOne ==
  ASSUME NEW S \in SUBSET Request
  PROVE  /\ IsFiniteSet(S) /\ Cardinality(S) \in Nat
         /\ \A r \in Request \ S : Cardinality(S \union {r}) = Cardinality(S) + 1
         /\ \A r \in S : Cardinality(S \ {r}) = Cardinality(S) - 1
<1>1. IsFiniteSet(S)
  BY ImageSearchAssumption, FS_Subset
<1>2. Cardinality(S) \in Nat
  BY <1>1, FS_CardinalityType
<1>3. ASSUME NEW r \in Request \ S PROVE Cardinality(S \union {r}) = Cardinality(S) + 1
  BY <1>1, FS_AddElement
<1>4. ASSUME NEW r \in S PROVE Cardinality(S \ {r}) = Cardinality(S) - 1
  BY <1>1, FS_RemoveElement
<1> QED
  BY <1>1, <1>2, <1>3, <1>4

(* The counters move with the sets of slot holders and waiters.            *)
LEMMA CountersStep ==
  ASSUME SearchTypeOK, SlotsExact, Coherent, [SearchNext]_searchVars
  PROVE  SlotsExact' /\ free' \in Nat /\ pending' <= MaxPending
<1> DEFINE Goal == SlotsExact' /\ free' \in Nat /\ pending' <= MaxPending
           Same == Holders' = Holders /\ Waiting' = Waiting
<1> SUFFICES Goal
  OBVIOUS
<1>0. /\ Holders \in SUBSET Request /\ Waiting \in SUBSET Request
      /\ Capacity \in Nat /\ MaxPending \in Nat
  BY ImageSearchAssumption DEF SearchTypeOK, Holders, Waiting
<1>a. /\ \A r \in Request \ Holders : Cardinality(Holders \union {r}) = Cardinality(Holders) + 1
      /\ \A r \in Holders : Cardinality(Holders \ {r}) = Cardinality(Holders) - 1
  BY <1>0, CountByOne
<1>b. /\ \A r \in Request \ Waiting : Cardinality(Waiting \union {r}) = Cardinality(Waiting) + 1
      /\ \A r \in Waiting : Cardinality(Waiting \ {r}) = Cardinality(Waiting) - 1
  BY <1>0, CountByOne
<1>same. ASSUME Same, UNCHANGED <<free, active, pending>> PROVE Goal
  BY <1>same DEF SlotsExact, SearchTypeOK
<1>1. ASSUME NEW r \in Request, Arrive(r) PROVE Goal
  <2>1. r \notin Holders /\ r \notin Waiting
    BY <1>1 DEF Arrive, Holders, Waiting, Coherent, CoherentAt, SearchTypeOK
  <2>2. CASE ~HasRoom
    <3>1. Same /\ UNCHANGED <<free, active, pending>>
      BY <1>1, <2>2 DEF Arrive, HasRoom, Holders, Waiting, SearchTypeOK, admission
    <3> QED
      BY <3>1, <1>same
  <2>3. CASE HasRoom /\ free > 0 /\ Waiting = {}
    <3>1. /\ Holders' = Holders \union {r} /\ Waiting' = Waiting
          /\ free' = free - 1 /\ active' = active + 1 /\ pending' = pending /\ free > 0
      BY <1>1, <2>3, <1>0 DEF Arrive, HasRoom, Holders, Waiting, SearchTypeOK
    <3> QED
      BY <3>1, <2>1, <1>0, <1>a DEF SlotsExact, SearchTypeOK
  <2>4. CASE HasRoom /\ (free = 0 \/ Waiting # {})
    <3>1. /\ Holders' = Holders /\ Waiting' = Waiting \union {r}
          /\ free' = free /\ active' = active /\ pending' = pending + 1
      BY <1>1, <2>4, <1>0 DEF Arrive, HasRoom, Holders, Waiting, SearchTypeOK
    <3> QED
      BY <3>1, <2>1, <2>4, <1>0, <1>b DEF SlotsExact, SearchTypeOK, HasRoom
  <2> QED
    BY <1>0, <2>2, <2>3, <2>4 DEF SearchTypeOK
<1>2. ASSUME NEW r \in Request, Admit(r) PROVE Goal
  <2>1. /\ r \notin Holders /\ r \in Waiting
        /\ Holders' = Holders \union {r} /\ Waiting' = Waiting \ {r}
        /\ free' = free - 1 /\ active' = active + 1 /\ pending' = pending - 1 /\ free > 0
    BY <1>2 DEF Admit, Holders, Waiting, Coherent, CoherentAt, SearchTypeOK
  <2>2. /\ Cardinality(Holders') = Cardinality(Holders) + 1
        /\ Cardinality(Waiting') = Cardinality(Waiting) - 1
    BY <2>1, <1>a, <1>b
  <2> QED
    BY <2>1, <2>2, <1>0 DEF SlotsExact, SearchTypeOK
<1>3. ASSUME NEW r \in Request, QueueTimeout(r) PROVE Goal
  <2>1. /\ r \in Waiting /\ Waiting' = Waiting \ {r} /\ Holders' = Holders
        /\ free' = free /\ active' = active /\ pending' = pending - 1
    BY <1>3 DEF QueueTimeout, Holders, Waiting, SearchTypeOK
  <2> QED
    BY <2>1, <1>0, <1>b DEF SlotsExact, SearchTypeOK
<1>4. ASSUME NEW r \in Request, Encoded(r) PROVE Goal
  <2>1. /\ r \in Holders /\ Holders' = Holders \ {r} /\ Waiting' = Waiting
        /\ free' = free + 1 /\ active' = active - 1 /\ pending' = pending
    BY <1>4 DEF Encoded, ReleaseSlot, Holders, Waiting, Coherent, CoherentAt, SearchTypeOK
  <2> QED
    BY <2>1, <1>0, <1>a DEF SlotsExact, SearchTypeOK
<1>5. ASSUME NEW r \in Request, InferenceTimeout(r) PROVE Goal
  <2>1. Same /\ UNCHANGED <<free, active, pending>>
    BY <1>5 DEF InferenceTimeout, Holders, Waiting, SearchTypeOK
  <2> QED
    BY <2>1, <1>same
<1>6. ASSUME NEW r \in Request, ReleaseLater(r) PROVE Goal
  <2>1. /\ r \in Holders /\ Holders' = Holders \ {r} /\ Waiting' = Waiting
        /\ free' = free + 1 /\ active' = active - 1 /\ pending' = pending
    BY <1>6 DEF ReleaseLater, CallbackFires, ReleaseSlot, Holders, Waiting, Coherent, CoherentAt,
                SearchTypeOK
  <2> QED
    BY <2>1, <1>0, <1>a DEF SlotsExact, SearchTypeOK
<1>7. ASSUME NEW r \in Request, Cancel(r) PROVE Goal
  <2>1. CASE pc[r] = "waiting"
    <3>1. /\ r \in Waiting /\ Waiting' = Waiting \ {r} /\ Holders' = Holders
          /\ free' = free /\ active' = active /\ pending' = pending - 1
      BY <1>7, <2>1 DEF Cancel, LeaveQueue, Holders, Waiting, SearchTypeOK
    <3> QED
      BY <3>1, <1>0, <1>b DEF SlotsExact, SearchTypeOK
  <2>2. CASE pc[r] # "waiting"
    <3>1. Same /\ UNCHANGED <<free, active, pending>>
      BY <1>7, <2>2 DEF Cancel, Cancellable, LeaveQueue, Holders, Waiting, SearchTypeOK
    <3> QED
      BY <3>1, <1>same
  <2> QED
    BY <2>1, <2>2
<1>8. ASSUME NEW r \in Request, Thread(r) PROVE Goal
  <2>1. Same /\ UNCHANGED <<free, active, pending>>
    BY <1>8 DEF Thread, ThreadTakes, ThreadEnds, Holders, Waiting, telemetry
  <2> QED
    BY <2>1, <1>same
<1>9. ASSUME NEW r \in Request, Continues(r) \/ CancelInHandler(r) PROVE Goal
  <2>1. Same /\ UNCHANGED <<free, active, pending>>
    BY <1>9 DEF Continues, Retrieved, RetrievalFails, Answer, Report, CancelInHandler, Holders,
                Waiting, SearchTypeOK, admission
  <2> QED
    BY <2>1, <1>same
<1>10. ASSUME NEW r \in Request, Starts(r) \/ RecordsOutcome(r) PROVE Goal
  <2>1. Same /\ UNCHANGED <<free, active, pending>>
    BY <1>10 DEF Starts, StartRecorded, StartFails, RecordsOutcome, RecordImpressions,
                 CompleteQuery, FailQuery, OutcomeLost, Holders, Waiting, admission
  <2> QED
    BY <2>1, <1>same
<1>11. ASSUME NEW r \in Request, GivesFeedback(r) PROVE Goal
  <2>1. Same /\ UNCHANGED <<free, active, pending>>
    BY <1>11 DEF GivesFeedback, SubmitFeedback, FeedbackResumes, RecordFeedback, FeedbackFails,
                 Holders, Waiting, admission
  <2> QED
    BY <2>1, <1>same
<1>12. CASE UNCHANGED searchVars
  <2>1. Same /\ UNCHANGED <<free, active, pending>>
    BY <1>12 DEF searchVars, Holders, Waiting
  <2> QED
    BY <2>1, <1>same
<1> HIDE DEF Goal
<1> QED
  BY <1>1, <1>2, <1>3, <1>4, <1>5, <1>6, <1>7, <1>8, <1>9, <1>10, <1>11, <1>12 DEF SearchNext, Encodes

(* The inductive invariant.                                                *)
LEMMA Invariant == SearchSpec => []IInv
<1>1. SearchInit => IInv
  <2> SUFFICES ASSUME SearchInit PROVE IInv
    OBVIOUS
  <2>1. SearchTypeOK
    BY ImageSearchAssumption DEF SearchInit, SearchTypeOK, Pc, Encode, Start, OutcomeTask, Query, Feedback
  <2>2. Holders = {} /\ Waiting = {}
    BY DEF SearchInit, Holders, Waiting
  <2>3. SlotsExact
    BY <2>2, FS_EmptySet, ImageSearchAssumption DEF SearchInit, SlotsExact
  <2>4. OutcomeTruthful /\ FeedbackFindsShown /\ Coherent
    BY DEF SearchInit, OutcomeTruthful, FeedbackFindsShown, Coherent, CoherentAt, StartEnded
  <2> QED
    BY <2>1, <2>3, <2>4 DEF IInv
<1>2. IInv /\ [SearchNext]_searchVars => IInv'
  <2> SUFFICES ASSUME IInv, [SearchNext]_searchVars PROVE IInv'
    OBVIOUS
  <2>1. Shapes'
    BY ShapesStep DEF IInv
  <2>2. SlotsExact' /\ free' \in Nat /\ pending' <= MaxPending
    BY CountersStep DEF IInv
  <2>3. SearchTypeOK'
    <3>1. Holders' \in SUBSET Request /\ Waiting' \in SUBSET Request
      BY <2>1 DEF Shapes, Holders, Waiting
    <3>2. Cardinality(Holders') \in Nat /\ Cardinality(Waiting') \in Nat
      BY <3>1, CountByOne
    <3>3. /\ active' \in Nat /\ pending' \in Nat /\ free' + active' = Capacity
      BY <2>2, <3>2 DEF SlotsExact
    <3>4. Capacity \in Nat /\ MaxPending \in Nat
      BY ImageSearchAssumption
    <3>5. free' <= Capacity /\ active' <= Capacity
      <4>1. \A a, b, c \in Nat : a + b = c => a <= c /\ b <= c
        OBVIOUS
      <4> QED
        BY <2>2, <3>3, <3>4, <4>1
    <3>6. free' \in 0..Capacity /\ active' \in 0..Capacity
      BY <2>2, <3>3, <3>4, <3>5
    <3>7. pending' \in 0..MaxPending
      BY <2>2, <3>3, <3>4
    <3> QED
      BY <2>1, <3>6, <3>7 DEF Shapes, SearchTypeOK
  <2>4. Coherent'
    BY CoherentStep DEF IInv, Coherent
  <2>5. OutcomeTruthful' /\ FeedbackFindsShown'
    BY OutcomeStep DEF IInv, OutcomeTruthful, FeedbackFindsShown
  <2> QED
    BY <2>2, <2>3, <2>4, <2>5 DEF IInv
<1> QED
  BY <1>1, <1>2, PTL DEF SearchSpec

(* The waiting room and the other variables keep their types: no mix of    *)
(* arrivals, time limits and cancellations lets more than                  *)
(* max_pending_inferences wait (search_image, _encode_image).              *)
THEOREM TypeCorrect == SearchSpec => []SearchTypeOK
<1>1. IInv => SearchTypeOK
  BY DEF IInv
<1> QED
  BY <1>1, Invariant, PTL

(* No path through _encode_image loses a slot or returns one twice.        *)
THEOREM SlotsStayExact == SearchSpec => []SlotsExact
<1>1. IInv => SlotsExact
  BY DEF IInv
<1> QED
  BY <1>1, Invariant, PTL

(* Images submitted and not finished never outnumber the encoder threads,  *)
(* because each still holds its slot, its request's or a detached one.     *)
THEOREM ThreadForAdmitted == SearchSpec => []AdmittedHaveThread
<1>1. IInv => AdmittedHaveThread
  <2> SUFFICES ASSUME IInv PROVE Cardinality(Outstanding) <= Capacity
    BY DEF AdmittedHaveThread
  <2>1. Holders \in SUBSET Request /\ Outstanding \in SUBSET Holders
    BY DEF IInv, SearchTypeOK, Holders, Outstanding, Coherent, CoherentAt
  <2>2. IsFiniteSet(Holders)
    BY <2>1, CountByOne
  <2>3. Cardinality(Outstanding) <= Cardinality(Holders)
    BY <2>1, <2>2, FS_Subset
  <2>4. Cardinality(Outstanding) \in Nat
    BY <2>1, CountByOne
  <2> QED
    BY <2>3, <2>4, ImageSearchAssumption DEF IInv, SlotsExact, SearchTypeOK
<1> QED
  BY <1>1, Invariant, PTL

(* A query is traced as completed only if answered, as an error only if    *)
(* raised (_queue_telemetry_completion, _queue_failure_after_start).       *)
THEOREM TraceTruthful == SearchSpec => []OutcomeTruthful
<1>1. IInv => OutcomeTruthful
  BY DEF IInv
<1> QED
  BY <1>1, Invariant, PTL

(* Early feedback is never told its result was not shown (submit_feedback).*)
THEOREM EarlyFeedbackFound == SearchSpec => []FeedbackFindsShown
<1>1. IInv => FeedbackFindsShown
  BY DEF IInv
<1> QED
  BY <1>1, Invariant, PTL

-----------------------------------------------------------------------------
(***************************************************************************)
(* Proofs about FaissSnapshots for any number of builders, versions,       *)
(* builds, reports and grades.                                             *)
(*                                                                         *)
(* An evaluation report has only a version's name.  It speaks of the build *)
(* that is stored under that name because os.replace never replaces one:   *)
(* until its directory is removed, a version is the same build.            *)
(***************************************************************************)

(* A report of a version that was never removed is about the build that is *)
(* stored under it.                                                        *)
ReportsCurrent ==
  \A r \in reports : r.version \notin discarded => /\ Is(stored[r.version])
                                                   /\ stored[r.version].id = r.of

\* Build id was measured under version v, at least at this grade.
Measured(v, id, grade) ==
  \E r \in reports : r.version = v /\ r.of = id /\ r.grade >= grade

(* A promotion under way has seen a good report of the stored build.       *)
PromotionMeasured ==
  Is(promotion) /\ promotion.version \notin discarded
    => /\ Is(stored[promotion.version])
       /\ Measured(promotion.version, stored[promotion.version].id, promotion.limit)

(* So has the pointer, of the build it names.                              *)
PointerMeasured ==
  Is(pointer) /\ pointer.version \notin discarded
    => Measured(pointer.version, pointer.manifest, pointer.limit)

(* What the pointer names has been promoted.                               *)
PointerPromoted == Is(pointer) => pointer.manifest \in promoted

(* The inductive invariant.                                                *)
FaissInv ==
  /\ FaissTypeOK
  /\ ReportsCurrent
  /\ PromotionMeasured
  /\ PointerMeasured
  /\ PointerPromoted
  /\ ServesPromoted

-----------------------------------------------------------------------------
(* The initial states satisfy the inductive invariant.                     *)
LEMMA InitFaissInv == FaissInit => FaissInv
  BY FaissAssumption
  DEF FaissInit, FaissInv, FaissTypeOK, ReportsCurrent, PromotionMeasured, PointerMeasured,
      PointerPromoted, ServesPromoted, Is

(* Each command and each change of the surroundings keeps the types.       *)
LEMMA FaissTypeStep == FaissTypeOK /\ [FaissNext]_faissVars => FaissTypeOK'
<1> SUFFICES ASSUME FaissTypeOK, [FaissNext]_faissVars PROVE FaissTypeOK'
  OBVIOUS
<1> USE FaissAssumption DEF FaissTypeOK, Snapshot, settings, faissHistory, Commands
<1>1. ASSUME NEW b \in Builder, NEW v \in Version, BuildBegins(b, v) PROVE FaissTypeOK'
  BY <1>1 DEF BuildBegins
<1>2. ASSUME NEW b \in Builder, BuildFinishes(b) PROVE FaissTypeOK'
  BY <1>2 DEF BuildFinishes, Is
<1>3. ASSUME NEW b \in Builder, BuildFails(b) PROVE FaissTypeOK'
  BY <1>3 DEF BuildFails
<1>4. ASSUME NEW v \in Version, Evaluate(v) PROVE FaissTypeOK'
  <2>1. stored[v] \in Snapshot
    BY <1>4 DEF Evaluate, Loads, Is
  <2> QED
    BY <1>4, <2>1 DEF Evaluate
<1>5. ASSUME NEW v \in Version, Discard(v) PROVE FaissTypeOK'
  BY <1>5 DEF Discard
<1>6. ASSUME NEW v \in Version, Damage(v) PROVE FaissTypeOK'
  <2>1. stored[v] \in Snapshot
    BY <1>6 DEF Damage, Is
  <2>2. PICK sized \in BOOLEAN :
          stored' = [stored EXCEPT ![v].whole = FALSE, ![v].sized = sized]
    BY <1>6 DEF Damage
  <2>3. stored' = [stored EXCEPT ![v] = [@ EXCEPT !.whole = FALSE, !.sized = sized]]
    BY <2>2
  <2>4. [stored[v] EXCEPT !.whole = FALSE, !.sized = sized] \in Snapshot
    BY <2>1
  <2>5. stored' \in [Version -> Snapshot \union {Absent}]
    BY <2>3, <2>4
  <2> QED
    BY <1>6, <2>5 DEF Damage
<1>7. ASSUME NEW v \in Version, NEW r \in reports, PromoteChecks(v, r) PROVE FaissTypeOK'
  BY <1>7 DEF PromoteChecks
<1>8. ASSUME PromoteWrites PROVE FaissTypeOK'
  <2>1. promotion \in [version : Version, limit : Grade]
    BY <1>8 DEF PromoteWrites, Is
  <2>2. stored[promotion.version] \in Snapshot
    BY <1>8, <2>1 DEF PromoteWrites, Is
  <2> QED
    BY <1>8, <2>1, <2>2 DEF PromoteWrites
<1>9. ASSUME PromoteFails PROVE FaissTypeOK'
  BY <1>9 DEF PromoteFails
<1>10. ASSUME Serve PROVE FaissTypeOK'
  <2>1. pointer.version \in Version
    BY <1>10 DEF Serve, Is
  <2> QED
    BY <1>10, <2>1 DEF Serve
<1>11. ASSUME StopServing \/ CorpusChanges \/ Reconfigure \/ UNCHANGED faissVars PROVE FaissTypeOK'
  BY <1>11 DEF StopServing, CorpusChanges, Reconfigure, faissVars
<1> QED
  BY <1>1, <1>2, <1>3, <1>4, <1>5, <1>6, <1>7, <1>8, <1>9, <1>10, <1>11 DEF FaissNext

-----------------------------------------------------------------------------
(* What becomes of the snapshots.                                          *)

(* Reports stay, versions once removed stay marked, and a stored snapshot  *)
(* keeps its build until its version is removed.                           *)
LEMMA SnapshotsKept ==
  ASSUME FaissTypeOK, [FaissNext]_faissVars
  PROVE  /\ reports \subseteq reports'
         /\ discarded \subseteq discarded'
         /\ \A v \in Version : Is(stored[v]) /\ v \notin discarded'
              => Is(stored'[v]) /\ stored'[v].id = stored[v].id
<1> DEFINE Kept == /\ reports \subseteq reports'
                   /\ discarded \subseteq discarded'
                   /\ \A v \in Version : Is(stored[v]) /\ v \notin discarded'
                        => Is(stored'[v]) /\ stored'[v].id = stored[v].id
<1>1. ASSUME NEW b \in Builder, BuildFinishes(b) PROVE Kept
  BY <1>1 DEF BuildFinishes, DestinationFree, FaissTypeOK, Snapshot, Is, settings, faissHistory
<1>2. ASSUME NEW v \in Version, Discard(v) PROVE Kept
  BY <1>2 DEF Discard, FaissTypeOK, Is, Commands, settings
<1>3. ASSUME NEW v \in Version, Damage(v) PROVE Kept
  <2>1. stored[v] \in Snapshot
    BY <1>3 DEF Damage, FaissTypeOK, Is
  <2>2. PICK sized \in BOOLEAN :
          stored' = [stored EXCEPT ![v].whole = FALSE, ![v].sized = sized]
    BY <1>3 DEF Damage
  <2>3. stored'[v].whole # stored[v].whole /\ Is(stored'[v]) /\ stored'[v].id = stored[v].id
    BY <1>3, <2>1, <2>2 DEF Damage, FaissTypeOK, Snapshot, Is, Absent
  <2> QED
    BY <1>3, <2>2, <2>3 DEF Damage, FaissTypeOK, Commands, settings
<1>4. ASSUME NEW v \in Version, Evaluate(v) PROVE Kept
  BY <1>4 DEF Evaluate, settings, faissHistory
<1>5. ASSUME UNCHANGED <<reports, discarded, stored>> PROVE Kept
  BY <1>5
<1>6. ASSUME NEW b \in Builder, BuildFails(b) \/ \E v \in Version : BuildBegins(b, v) PROVE Kept
  BY <1>5, <1>6 DEF BuildFails, BuildBegins, faissHistory
<1>7. ASSUME NEW v \in Version, NEW r \in reports, PromoteChecks(v, r) PROVE Kept
  BY <1>5, <1>7 DEF PromoteChecks, faissHistory
<1>8. ASSUME \/ PromoteWrites \/ PromoteFails \/ Serve \/ StopServing \/ CorpusChanges
             \/ Reconfigure \/ UNCHANGED faissVars
      PROVE  Kept
  BY <1>5, <1>8 DEF PromoteWrites, PromoteFails, Serve, StopServing, CorpusChanges, Reconfigure,
                    faissVars, faissHistory, Commands
<1> HIDE DEF Kept
<1>9. Kept
  BY <1>1, <1>2, <1>3, <1>4, <1>6, <1>7, <1>8 DEF FaissNext
<1> QED
  BY <1>9 DEF Kept

-----------------------------------------------------------------------------
(* Reports go on speaking of the stored builds.                            *)
LEMMA ReportsCurrentStep ==
  FaissTypeOK /\ ReportsCurrent /\ [FaissNext]_faissVars => ReportsCurrent'
<1> SUFFICES ASSUME FaissTypeOK, ReportsCurrent, [FaissNext]_faissVars,
                    NEW r \in reports', r.version \notin discarded'
             PROVE  Is(stored'[r.version]) /\ stored'[r.version].id = r.of
  BY DEF ReportsCurrent, Is, Absent
<1>1. CASE r \in reports
  <2>1. r.version \in Version
    BY <1>1 DEF FaissTypeOK
  <2>2. Is(stored[r.version]) /\ stored[r.version].id = r.of
    BY <1>1, SnapshotsKept DEF ReportsCurrent
  <2> QED
    BY <2>1, <2>2, SnapshotsKept
<1>2. CASE r \notin reports
  <2>1. PICK v \in Version : Evaluate(v)
    BY <1>2 DEF FaissNext, BuildBegins, BuildFinishes, BuildFails, Discard, Damage, PromoteChecks,
                PromoteWrites, PromoteFails, Serve, StopServing, CorpusChanges, Reconfigure,
                faissVars, Commands
  <2>2. r.version = v /\ r.of = stored[v].id /\ stored' = stored
    BY <1>2, <2>1 DEF Evaluate
  <2> QED
    BY <2>1, <2>2 DEF Evaluate, Loads
<1> QED
  BY <1>1, <1>2

(* A promotion under way keeps its report and its build.                   *)
LEMMA PromotionMeasuredStep ==
  FaissTypeOK /\ ReportsCurrent /\ PromotionMeasured /\ [FaissNext]_faissVars => PromotionMeasured'
<1> SUFFICES ASSUME FaissTypeOK, ReportsCurrent, PromotionMeasured, [FaissNext]_faissVars,
                    Is(promotion)', promotion'.version \notin discarded'
             PROVE  /\ Is(stored'[promotion'.version])
                    /\ Measured(promotion.version, stored[promotion.version].id, promotion.limit)'
  BY DEF PromotionMeasured, Is, Absent
<1>1. CASE promotion' = promotion
  <2>1. promotion.version \in Version /\ promotion.version \notin discarded
    BY <1>1, SnapshotsKept DEF FaissTypeOK, Is
  <2>2. /\ Is(stored[promotion.version])
        /\ Measured(promotion.version, stored[promotion.version].id, promotion.limit)
    BY <1>1, <2>1 DEF PromotionMeasured, Is
  <2>3. /\ Is(stored'[promotion.version])
        /\ stored'[promotion.version].id = stored[promotion.version].id
    BY <1>1, <2>1, <2>2, SnapshotsKept
  <2> QED
    BY <1>1, <2>3, <2>2, SnapshotsKept DEF Measured
<1>2. CASE promotion' # promotion
  <2>1. PICK v \in Version, r \in reports : PromoteChecks(v, r)
    BY <1>2 DEF FaissNext, BuildBegins, BuildFinishes, BuildFails, Discard, Damage, Evaluate,
                PromoteWrites, PromoteFails, Serve, StopServing, CorpusChanges, Reconfigure,
                faissVars, Commands, Is
  <2>2. /\ promotion' = [version |-> v, limit |-> limit]
        /\ stored' = stored /\ reports' = reports /\ discarded' = discarded
        /\ r.version = v /\ r.grade >= limit
    BY <2>1 DEF PromoteChecks, Targets, Passes, faissHistory
  <2>3. Is(stored[v]) /\ stored[v].id = r.of
    BY <2>2 DEF ReportsCurrent
  <2> QED
    BY <2>2, <2>3 DEF Measured
<1> QED
  BY <1>1, <1>2

(* The pointer is written for a measured build, and stays.                 *)
LEMMA PointerMeasuredStep ==
  FaissTypeOK /\ PromotionMeasured /\ PointerMeasured /\ [FaissNext]_faissVars => PointerMeasured'
<1> SUFFICES ASSUME FaissTypeOK, PromotionMeasured, PointerMeasured, [FaissNext]_faissVars,
                    Is(pointer)', pointer'.version \notin discarded'
             PROVE  Measured(pointer.version, pointer.manifest, pointer.limit)'
  BY DEF PointerMeasured, Is, Absent
<1>1. CASE pointer' = pointer
  <2>1. Measured(pointer.version, pointer.manifest, pointer.limit)
    BY <1>1, SnapshotsKept DEF PointerMeasured, Is
  <2> QED
    BY <1>1, <2>1, SnapshotsKept DEF Measured
<1>2. CASE pointer' # pointer
  <2>1. PromoteWrites
    BY <1>2 DEF FaissNext, BuildBegins, BuildFinishes, BuildFails, Discard, Damage, Evaluate,
                PromoteChecks, PromoteFails, Serve, StopServing, CorpusChanges, Reconfigure,
                faissVars, Commands
  <2>2. /\ pointer' = [version |-> promotion.version, manifest |-> stored[promotion.version].id,
                       limit |-> promotion.limit]
        /\ reports' = reports /\ discarded' = discarded
    BY <2>1 DEF PromoteWrites
  <2>3. Measured(promotion.version, stored[promotion.version].id, promotion.limit)
    BY <2>1, <2>2 DEF PromotionMeasured, PromoteWrites
  <2> QED
    BY <2>2, <2>3 DEF Measured
<1> QED
  BY <1>1, <1>2

(* The pointer and the service only ever take promoted builds.             *)
LEMMA ServingStep ==
  FaissTypeOK /\ PointerPromoted /\ ServesPromoted /\ [FaissNext]_faissVars
    => PointerPromoted' /\ ServesPromoted'
<1> SUFFICES ASSUME FaissTypeOK, PointerPromoted, ServesPromoted, [FaissNext]_faissVars
             PROVE  PointerPromoted' /\ ServesPromoted'
  OBVIOUS
<1> USE DEF PointerPromoted, ServesPromoted, Is
<1>1. CASE PromoteWrites
  BY <1>1 DEF PromoteWrites, settings
<1>2. CASE Serve
  BY <1>2 DEF Serve, Loads, ManifestMatches, settings, faissHistory
<1>3. CASE StopServing
  BY <1>3 DEF StopServing, settings, faissHistory
<1>4. CASE UNCHANGED <<verify, pointer, served, promoted>>
  BY <1>4
<1>5. ASSUME NEW b \in Builder,
             BuildFinishes(b) \/ BuildFails(b) \/ \E v \in Version : BuildBegins(b, v)
      PROVE  UNCHANGED <<verify, pointer, served, promoted>>
  BY <1>5 DEF BuildFinishes, BuildFails, BuildBegins, settings, faissHistory
<1>6. ASSUME NEW v \in Version, \/ Evaluate(v) \/ Discard(v) \/ Damage(v)
                                \/ \E r \in reports : PromoteChecks(v, r)
      PROVE  UNCHANGED <<verify, pointer, served, promoted>>
  BY <1>6 DEF Evaluate, Discard, Damage, PromoteChecks, settings, faissHistory, Commands
<1>7. ASSUME PromoteFails \/ CorpusChanges \/ Reconfigure \/ UNCHANGED faissVars
      PROVE  UNCHANGED <<verify, pointer, served, promoted>>
  BY <1>7 DEF PromoteFails, CorpusChanges, Reconfigure, faissVars, settings, faissHistory, Commands
<1> QED
  BY <1>1, <1>2, <1>3, <1>4, <1>5, <1>6, <1>7 DEF FaissNext

(* The invariant holds in every reachable state.                           *)
LEMMA FaissInvariant == FaissSpec => []FaissInv
<1>1. FaissInv /\ [FaissNext]_faissVars => FaissInv'
  BY FaissTypeStep, ReportsCurrentStep, PromotionMeasuredStep, PointerMeasuredStep, ServingStep
  DEF FaissInv
<1> QED
  BY InitFaissInv, <1>1, PTL DEF FaissSpec

-----------------------------------------------------------------------------
(* The snapshots, reports and pointer keep their types (faiss_index.py).   *)
THEOREM FaissTypeCorrect == FaissSpec => []FaissTypeOK
  BY FaissInvariant, PTL DEF FaissInv

(* The build the pointer names was measured, at a grade within the limits  *)
(* of its promotion (promote_faiss_snapshot).                              *)
THEOREM PromotedMeasured == FaissSpec => []PromotedWasMeasured
<1>1. FaissInv => PromotedWasMeasured
  BY DEF FaissInv, PointerMeasured, Measured, PromotedWasMeasured
<1> QED
  BY FaissInvariant, <1>1, PTL

(* The service has only promoted, complete builds open                     *)
(* (load_faiss_snapshot, FaissSearchService.from_active).                  *)
THEOREM ServesOnlyPromoted == FaissSpec => []ServesPromoted
  BY FaissInvariant, PTL DEF FaissInv

-----------------------------------------------------------------------------
(***************************************************************************)
(* Proofs about Gateway for any number of containers, callers and          *)
(* requests, any quota, and any window not longer than a container idles.  *)
(*                                                                         *)
(* WindowLimitHolds is not inductive: it needs what a limiter still holds  *)
(* to be matched, admission by admission, with those of the window         *)
(* (Counted). The two differ by what has expired and is dropped at the     *)
(* next request only, and by what was lost when the container died; a      *)
(* container that went to sleep had idled since the last admission         *)
(* (IdleSince), so what it forgot was expired.                             *)
(***************************************************************************)

Age == 0 .. Window

ContainerState == [state : {"stopped", "starting", "healthy"}, idle : 0 .. IdleStop]
InFlight == [at : {"waking", "inside"}, key : Caller, shard : Shard]

GatewayTypes ==
  /\ held \in [Shard -> [Caller -> Seq(Age)]]
  /\ admitted \in [Caller -> Seq(Age)]
  /\ sinceDeath \in [Shard -> Age]
  /\ container \in [Shard -> ContainerState]
  /\ call \in [Call -> InFlight \union {Done}]
  /\ \A c \in Call : call[c] # Done => call[c].shard = HomeOf[call[c].key[2]]

\* What a limiter holds of a key, and all its admissions within the window: the
\* first expired ones are still held, and the first lost admissions were made
\* before a death of the container, died ago. The rest is the same.
Matches(holds, admissions, died, expired, lost) ==
  /\ expired \in 0 .. Len(holds) /\ lost \in 0 .. Len(admissions)
  /\ Len(holds) - expired = Len(admissions) - lost
  /\ \A i \in 1 .. expired : holds[i] = Window
  /\ \A i \in 1 .. lost : admissions[i] >= died
  /\ \A i \in 1 .. Len(admissions) - lost : holds[expired + i] = admissions[lost + i]
  /\ lost > 0 => \A i \in lost + 1 .. Len(admissions) : admissions[i] <= died
  /\ Len(admissions) > 0 => admissions[1] < Window
  /\ Len(admissions) > lost => admissions[lost + 1] < Window

Counted(k) ==
  LET s == HomeOf[k[2]] IN
  \E expired, lost \in Nat :
    /\ Matches(held[s][k], admitted[k], sinceDeath[s], expired, lost)
    /\ Len(admitted[k]) - lost <= Quota[k[1]]

\* A container idles since its last admission.
IdleSince(k) ==
  \A i \in 1 .. Len(admitted[k]) :
    admitted[k][i] = Window \/ admitted[k][i] >= container[HomeOf[k[2]]].idle

GatewayInv == GatewayTypes /\ \A k \in Caller : Counted(k) /\ IdleSince(k)

-----------------------------------------------------------------------------
(* Sequences of ages.                                                      *)

LEMMA WindowNat == Window \in Nat \ {0} /\ 0 \in Age /\ Window \in Age
  BY GatewayAssumption DEF Age

LEMMA ExpiredOf ==
  ASSUME NEW e \in Seq(Age)
  PROVE  /\ Expired(e) \in 0 .. Len(e) /\ \A i \in 1 .. Expired(e) : e[i] = Window
         /\ Expired(e) < Len(e) => e[Expired(e) + 1] < Window
<1> DEFINE Stop == {n \in 0 .. Len(e) : n = Len(e) \/ e[n + 1] < Window}
<1>1. Len(e) \in Nat /\ \A i \in 1 .. Len(e) : e[i] \in Nat /\ e[i] <= Window
  BY WindowNat DEF Age
<1>2. Stop \subseteq Nat /\ Stop # {}
  <2>1. Len(e) \in Stop
    BY <1>1
  <2> QED
    BY <2>1
<1>3. PICK n \in Stop : \A m \in Stop : <<m, n>> \notin OpToRel(<, Nat)
  <2> HIDE DEF Stop
  <2> QED
    BY <1>2, NatLessThanWellFounded, WFMin, Zenon
<1>4. \A m \in Stop : ~(m < n)
  BY <1>2, <1>3 DEF OpToRel
<1>5. \A i \in 1 .. n : e[i] >= Window
  <2> SUFFICES ASSUME NEW i \in 1 .. n, ~(e[i] >= Window) PROVE FALSE
    OBVIOUS
  <2>1. n \in 0 .. Len(e) /\ i \in 1 .. Len(e) /\ e[i] \in Nat
    BY <1>1
  <2>2. i - 1 \in 0 .. Len(e) /\ (i - 1) + 1 = i /\ i - 1 < n
    BY <1>1, <2>1
  <2>3. e[(i - 1) + 1] < Window
    BY <2>1, <2>2, WindowNat
  <2>4. i - 1 \in Stop
    BY <2>2, <2>3
  <2> QED
    BY <1>4, <2>2, <2>4
<1>6. n \in 0 .. Len(e) /\ (n < Len(e) => e[n + 1] < Window)
  BY <1>1
<1>7. /\ Expired(e) \in 0 .. Len(e) /\ \A i \in 1 .. Expired(e) : e[i] >= Window
      /\ Expired(e) < Len(e) => e[Expired(e) + 1] < Window
  BY <1>5, <1>6 DEF Expired
<1> QED
  BY <1>1, <1>7, WindowNat

LEMMA ExpiredIs ==
  ASSUME NEW e \in Seq(Age), NEW n \in 0 .. Len(e), \A i \in 1 .. n : e[i] = Window,
         n < Len(e) => e[n + 1] < Window
  PROVE  Expired(e) = n
<1>1. PICK m : m = Expired(e)
  OBVIOUS
<1>2. /\ m \in 0 .. Len(e) /\ \A i \in 1 .. m : e[i] = Window
      /\ m < Len(e) => e[m + 1] < Window
  BY <1>1, ExpiredOf
<1>3. Len(e) \in Nat /\ m \in Nat /\ n \in Nat /\ m <= Len(e) /\ n <= Len(e)
  BY <1>2
<1>4. CASE m < n
  <2>1. m + 1 \in 1 .. n /\ m < Len(e)
    BY <1>3, <1>4
  <2>2. e[m + 1] = Window /\ e[m + 1] < Window
    BY <1>2, <2>1
  <2> QED
    BY <2>2, WindowNat
<1>5. CASE n < m
  <2>1. n + 1 \in 1 .. m /\ n < Len(e)
    BY <1>3, <1>5
  <2>2. e[n + 1] = Window /\ e[n + 1] < Window
    BY <1>2, <2>1
  <2> QED
    BY <2>2, WindowNat
<1> QED
  BY <1>1, <1>3, <1>4, <1>5

LEMMA FreshOf ==
  ASSUME NEW e \in Seq(Age)
  PROVE  /\ Fresh(e) \in Seq(Age) /\ Len(Fresh(e)) = Len(e) - Expired(e)
         /\ \A i \in 1 .. Len(Fresh(e)) : Fresh(e)[i] = e[Expired(e) + i]
<1>1. PICK n : n = Expired(e)
  OBVIOUS
<1>2. n \in Nat /\ n <= Len(e) /\ Len(e) \in Nat
  BY <1>1, ExpiredOf
<1>3. n + 1 \in Int /\ Len(e) \in Int /\ \A i \in n + 1 .. Len(e) : e[i] \in Age
  BY <1>2
<1>4. /\ SubSeq(e, n + 1, Len(e)) \in Seq(Age)
      /\ Len(SubSeq(e, n + 1, Len(e))) =
           IF n + 1 <= Len(e) THEN Len(e) - (n + 1) + 1 ELSE 0
      /\ \A i \in 1 .. Len(e) - (n + 1) + 1 : SubSeq(e, n + 1, Len(e))[i] = e[(n + 1) + i - 1]
  <2>1. PICK m, l : m = n + 1 /\ l = Len(e)
    OBVIOUS
  <2>2. m \in Int /\ l \in Int /\ \A i \in m .. l : e[i] \in Age
    BY <1>3, <2>1
  <2>3. /\ SubSeq(e, m, l) \in Seq(Age)
        /\ Len(SubSeq(e, m, l)) = IF m <= l THEN l - m + 1 ELSE 0
        /\ \A i \in 1 .. l - m + 1 : SubSeq(e, m, l)[i] = e[m + i - 1]
    BY <2>2, SubSeqProperties
  <2> QED
    BY <2>1, <2>3
<1>5. Len(SubSeq(e, n + 1, Len(e))) = Len(e) - n /\ Len(e) - (n + 1) + 1 = Len(e) - n
      /\ \A i \in 1 .. Len(e) - n : (n + 1) + i - 1 = n + i
  BY <1>2, <1>4
<1> QED
  BY <1>1, <1>4, <1>5 DEF Fresh

LEMMA AgedOf ==
  ASSUME NEW e \in Seq(Age)
  PROVE  /\ Aged(e) \in Seq(Age) /\ Len(Aged(e)) = Len(e)
         /\ \A i \in 1 .. Len(e) : Aged(e)[i] = Older(e[i], Window)
<1>1. Len(e) \in Nat /\ DOMAIN e = 1 .. Len(e) /\ \A i \in 1 .. Len(e) : e[i] \in Age
  OBVIOUS
<1>2. \A n \in Age : Older(n, Window) \in Age
  BY WindowNat DEF Age, Older
<1>3. Aged(e) = [i \in 1 .. Len(e) |-> Older(e[i], Window)]
  BY <1>1 DEF Aged
<1> QED
  BY <1>1, <1>2, <1>3

-----------------------------------------------------------------------------
(* What the steps do to a limiter and the admissions.                      *)

LEMMA MatchesWhenAdmitting ==
  ASSUME NEW h \in Seq(Age), NEW a \in Seq(Age), NEW died \in Age, NEW x, NEW p,
         Matches(h, a, died, x, p)
  PROVE  /\ Fresh(h) \in Seq(Age) /\ Len(Fresh(h)) = Len(a) - p
         /\ Matches(Fresh(h), a, died, 0, p)
         /\ Matches(Append(Fresh(h), 0), Append(a, 0), died, 0, p)
<1>1. /\ Len(h) \in Nat /\ Len(a) \in Nat /\ x \in Nat /\ p \in Nat
      /\ x <= Len(h) /\ p <= Len(a) /\ Len(h) - x = Len(a) - p
  BY DEF Matches
<1>2. Expired(h) = x
  <2>1. ASSUME x < Len(h) PROVE h[x + 1] < Window
    <3>1. 1 \in 1 .. Len(a) - p /\ Len(a) > p
      BY <1>1, <2>1
    <3> QED
      BY <3>1 DEF Matches
  <2> QED
    BY <1>1, <2>1, ExpiredIs DEF Matches
<1>3. PICK f : f = Fresh(h)
  OBVIOUS
<1>4. /\ f \in Seq(Age) /\ Len(f) = Len(a) - p
      /\ \A i \in 1 .. Len(a) - p : f[i] = a[p + i]
  BY <1>1, <1>2, <1>3, FreshOf DEF Matches
<1>5. Matches(f, a, died, 0, p)
  BY <1>1, <1>4 DEF Matches
<1>6. PICK g, b : g = Append(f, 0) /\ b = Append(a, 0)
  OBVIOUS
<1>7. /\ Len(g) = Len(f) + 1 /\ \A i \in 1 .. Len(f) : g[i] = f[i]
      /\ g[Len(f) + 1] = 0
      /\ Len(b) = Len(a) + 1 /\ \A i \in 1 .. Len(a) : b[i] = a[i]
      /\ b[Len(a) + 1] = 0
  BY <1>4, <1>6, WindowNat, AppendProperties
<1>8. Matches(g, b, died, 0, p)
  <2>1. \A i \in 1 .. Len(b) - p : g[0 + i] = b[p + i]
    <3> SUFFICES ASSUME NEW i \in 1 .. Len(b) - p PROVE g[0 + i] = b[p + i]
      OBVIOUS
    <3>1. CASE i = Len(b) - p
      BY <1>1, <1>4, <1>7, <3>1
    <3>2. CASE i # Len(b) - p
      <4>1. i \in 1 .. Len(a) - p /\ p + i \in 1 .. Len(a) /\ 0 + i = i
        BY <1>1, <1>7, <3>2
      <4> QED
        BY <1>4, <1>7, <4>1
    <3> QED
      BY <3>1, <3>2
  <2>2. ASSUME NEW i \in 1 .. p PROVE b[i] >= died
    <3>1. i \in 1 .. Len(a)
      BY <1>1
    <3> QED
      BY <1>7, <3>1 DEF Matches
  <2>3. ASSUME p > 0, NEW i \in p + 1 .. Len(b) PROVE b[i] <= died
    <3>1. CASE i = Len(b)
      <4>1. b[i] = 0 /\ died \in Nat
        BY <1>7, <3>1, WindowNat DEF Age
      <4> QED
        BY <4>1
    <3>2. CASE i # Len(b)
      <4>1. Len(b) = Len(a) + 1 /\ i \in p + 1 .. Len(b) /\ i # Len(b)
        BY <1>7, <3>2
      <4>2. i \in p + 1 .. Len(a) /\ i \in 1 .. Len(a)
        BY <1>1, <4>1
      <4> QED
        BY <1>7, <2>3, <4>2 DEF Matches
    <3> QED
      BY <3>1, <3>2
  <2>4. b[1] < Window
    <3>1. CASE Len(a) = 0
      BY <1>7, <3>1, WindowNat
    <3>2. CASE Len(a) # 0
      <4>1. 1 \in 1 .. Len(a) /\ Len(a) > 0
        BY <1>1, <3>2
      <4> QED
        BY <1>7, <4>1 DEF Matches
    <3> QED
      BY <3>1, <3>2
  <2>5. b[p + 1] < Window
    <3>1. CASE Len(a) = p
      BY <1>7, <3>1, WindowNat
    <3>2. CASE Len(a) # p
      <4>1. p + 1 \in 1 .. Len(a) /\ Len(a) > p
        BY <1>1, <3>2
      <4> QED
        BY <1>7, <4>1 DEF Matches
    <3> QED
      BY <3>1, <3>2
  <2>6. 0 \in 0 .. Len(g) /\ p \in 0 .. Len(b) /\ Len(g) - 0 = Len(b) - p
    BY <1>1, <1>4, <1>7
  <2> QED
    BY <2>1, <2>2, <2>3, <2>4, <2>5, <2>6 DEF Matches
<1> QED
  BY <1>3, <1>4, <1>5, <1>6, <1>8

LEMMA MatchesWhenOlder ==
  ASSUME NEW h \in Seq(Age), NEW a \in Seq(Age), NEW died \in Age, NEW x, NEW p,
         Matches(h, a, died, x, p)
  PROVE  \E y, q \in Nat :
           /\ Matches(Aged(h), Fresh(Aged(a)), Older(died, Window), y, q)
           /\ Len(Fresh(Aged(a))) - q <= Len(a) - p
<1>1. /\ Len(h) \in Nat /\ Len(a) \in Nat /\ x \in Nat /\ p \in Nat
      /\ x <= Len(h) /\ p <= Len(a) /\ Len(h) - x = Len(a) - p
  BY DEF Matches
<1>2. PICK g, b, e : g = Aged(h) /\ b = Aged(a) /\ e = Older(died, Window)
  OBVIOUS
<1>3. /\ g \in Seq(Age) /\ Len(g) = Len(h) /\ \A i \in 1 .. Len(h) : g[i] = Older(h[i], Window)
      /\ b \in Seq(Age) /\ Len(b) = Len(a) /\ \A i \in 1 .. Len(a) : b[i] = Older(a[i], Window)
  BY <1>2, AgedOf
<1>4. PICK n : n = Expired(b)
  OBVIOUS
<1>5. /\ n \in Nat /\ n <= Len(a) /\ \A i \in 1 .. n : b[i] = Window
      /\ n < Len(a) => b[n + 1] < Window
  <2>1. b \in Seq(Age) /\ Len(b) = Len(a)
    BY <1>3
  <2>2. /\ n \in 0 .. Len(b) /\ \A i \in 1 .. n : b[i] = Window
        /\ n < Len(b) => b[n + 1] < Window
    BY <1>4, <2>1, ExpiredOf
  <2> QED
    BY <1>1, <2>1, <2>2
<1>6. PICK f : f = Fresh(b)
  OBVIOUS
<1>7. f \in Seq(Age) /\ Len(f) = Len(a) - n /\ \A i \in 1 .. Len(f) : f[i] = b[n + i]
  BY <1>3, <1>4, <1>6, FreshOf
<1>8. \A i \in 1 .. x : g[i] = Window
  <2>1. ASSUME NEW i \in 1 .. x PROVE h[i] = Window /\ i \in 1 .. Len(h)
    BY <1>1 DEF Matches
  <2> QED
    BY <1>3, <2>1, WindowNat DEF Older
<1>9. \A i \in 1 .. Len(a) - p : g[x + i] = b[p + i]
  <2>1. ASSUME NEW i \in 1 .. Len(a) - p
        PROVE  x + i \in 1 .. Len(h) /\ p + i \in 1 .. Len(a) /\ h[x + i] = a[p + i]
    BY <1>1 DEF Matches
  <2> QED
    BY <1>3, <2>1
<1>10. Len(f) > 0 => f[1] < Window
  <2> SUFFICES ASSUME Len(f) > 0 PROVE f[1] < Window
    OBVIOUS
  <2>1. 1 \in 1 .. Len(f) /\ n < Len(a)
    BY <1>1, <1>5, <1>7
  <2> QED
    BY <1>5, <1>7, <2>1
\* The admissions that a death lost are gone: what else leaves the window is still held.
<1>11. CASE n >= p
  <2>1. PICK y : y = x + (n - p)
    OBVIOUS
  <2>2. y \in Nat /\ y <= Len(g) /\ Len(g) - y = Len(f)
    BY <1>1, <1>3, <1>5, <1>7, <1>11, <2>1
  <2>3. ASSUME NEW i \in 1 .. y PROVE g[i] = Window
    <3>1. CASE i <= x
      BY <1>8, <3>1
    <3>2. CASE i > x
      <4>1. PICK j : j = i - x
        OBVIOUS
      <4>2. j \in 1 .. Len(a) - p /\ i = x + j /\ p + j \in 1 .. n
        BY <1>1, <1>5, <1>11, <2>1, <2>2, <2>3, <3>2, <4>1
      <4> QED
        BY <1>5, <1>9, <4>2
    <3> QED
      BY <1>1, <2>2, <3>1, <3>2
  <2>4. ASSUME NEW i \in 1 .. Len(f) PROVE g[y + i] = f[0 + i]
    <3>1. PICK j : j = (n - p) + i
      OBVIOUS
    <3>2. j \in 1 .. Len(a) - p /\ y + i = x + j /\ n + i = p + j /\ 0 + i = i
      BY <1>1, <1>5, <1>7, <1>11, <2>1, <3>1
    <3>3. g[x + j] = b[p + j] /\ f[i] = b[n + i]
      BY <1>7, <1>9, <3>2
    <3> QED
      BY <3>2, <3>3
  <2>5. Matches(g, f, e, y, 0)
    BY <1>7, <1>10, <2>2, <2>3, <2>4 DEF Matches
  <2>6. Len(f) - 0 <= Len(a) - p
    BY <1>1, <1>5, <1>7, <1>11
  <2> QED
    BY <1>2, <1>6, <2>2, <2>5, <2>6
\* Some are within the window, and what is held is younger than the death.
<1>12. CASE n < p
  <2>1. PICK q : q = p - n
    OBVIOUS
  <2>2. q \in Nat \ {0} /\ q <= Len(f) /\ Len(f) - q = Len(a) - p /\ n + q = p
    BY <1>1, <1>5, <1>7, <1>12, <2>1
  <2>3. p > 0 /\ died \in Nat /\ e \in Nat /\ e = (IF died < Window THEN died + 1 ELSE died)
    BY <1>1, <1>2, <1>5, <1>12, WindowNat DEF Older, Age
  <2>4. ASSUME NEW i \in 1 .. Len(a)
        PROVE  /\ a[i] \in Nat /\ b[i] = IF a[i] < Window THEN a[i] + 1 ELSE a[i]
               /\ a[i] <= Window
    BY <1>3, WindowNat DEF Older, Age
  <2>5. died < Window
    <3>1. 1 \in 1 .. Len(a) /\ 1 \in 1 .. p
      BY <1>1, <2>3
    <3>2. a[1] >= died /\ a[1] < Window
      BY <3>1 DEF Matches
    <3> QED
      BY <2>3, <2>4, <3>1, <3>2, WindowNat
  <2>6. e < Window
    <3>1. n + 1 \in 1 .. p /\ n + 1 \in 1 .. Len(a) /\ n < Len(a)
      BY <1>1, <1>5, <1>12
    <3>2. a[n + 1] >= died /\ b[n + 1] < Window
      BY <1>5, <3>1 DEF Matches
    <3> QED
      BY <2>3, <2>4, <2>5, <3>1, <3>2, WindowNat
  <2>7. ASSUME NEW i \in 1 .. q PROVE f[i] >= e
    <3>1. i \in 1 .. Len(f) /\ n + i \in 1 .. p /\ n + i \in 1 .. Len(a)
      BY <1>1, <1>5, <1>7, <2>2
    <3>2. f[i] = b[n + i] /\ a[n + i] >= died
      BY <1>7, <3>1 DEF Matches
    <3> QED
      BY <2>3, <2>4, <2>5, <3>1, <3>2, WindowNat
  <2>8. ASSUME NEW i \in q + 1 .. Len(f) PROVE f[i] <= e
    <3>1. i \in 1 .. Len(f) /\ n + i \in p + 1 .. Len(a) /\ n + i \in 1 .. Len(a)
      BY <1>1, <1>5, <1>7, <2>2
    <3>2. f[i] = b[n + i] /\ a[n + i] <= died
      BY <1>7, <2>3, <3>1 DEF Matches
    <3> QED
      BY <2>3, <2>4, <2>5, <3>1, <3>2, WindowNat
  <2>9. ASSUME Len(f) > q PROVE f[q + 1] < Window
    <3>1. q + 1 \in q + 1 .. Len(f) /\ q + 1 \in 1 .. Len(f) /\ f[q + 1] \in Nat
      BY <1>7, <2>2, <2>9, WindowNat DEF Age
    <3> QED
      BY <2>3, <2>6, <2>8, <3>1, WindowNat
  <2>10. ASSUME NEW i \in 1 .. Len(f) - q PROVE g[x + i] = f[q + i]
    <3>1. i \in 1 .. Len(a) - p /\ q + i \in 1 .. Len(f) /\ n + (q + i) = p + i
      BY <1>1, <1>5, <1>7, <2>2
    <3> QED
      BY <1>7, <1>9, <3>1
  <2>11. Matches(g, f, e, x, q)
    BY <1>1, <1>3, <1>7, <1>8, <1>10, <2>2, <2>7, <2>8, <2>9, <2>10 DEF Matches
  <2> QED
    BY <1>1, <1>2, <1>6, <2>2, <2>11
<1> QED
  BY <1>1, <1>5, <1>11, <1>12

-----------------------------------------------------------------------------
(* The steps.                                                              *)

LEMMA KeyTypes ==
  ASSUME GatewayTypes, NEW k \in Caller
  PROVE  /\ k[1] \in Route /\ Quota[k[1]] \in Nat \ {0}
         /\ HomeOf[k[2]] \in Shard
         /\ admitted[k] \in Seq(Age) /\ held[HomeOf[k[2]]][k] \in Seq(Age)
         /\ sinceDeath[HomeOf[k[2]]] \in Age
         /\ container[HomeOf[k[2]]].idle \in 0 .. IdleStop
<1>1. k[1] \in Route /\ k[2] \in Client
  BY DEF Route, Client
<1>2. k[1] \in Route /\ Quota[k[1]] \in Nat \ {0} /\ HomeOf[k[2]] \in Shard
  BY <1>1, GatewayAssumption
<1>3. container[HomeOf[k[2]]] \in ContainerState
  BY <1>2 DEF GatewayTypes
<1>4. container[HomeOf[k[2]]].idle \in 0 .. IdleStop
  BY <1>3 DEF ContainerState
<1> QED
  BY <1>2, <1>4 DEF GatewayTypes

(* A container that is set to a state of its own, and one that is used.    *)
LEMMA ContainerSet ==
  ASSUME GatewayTypes, NEW s \in Shard, NEW new \in ContainerState,
         container' = [container EXCEPT ![s] = new]
  PROVE  /\ container' \in [Shard -> ContainerState] /\ container'[s] = new
         /\ \A z \in Shard \ {s} : container'[z] = container[z]
  BY DEF GatewayTypes

LEMMA ContainerUsed ==
  ASSUME GatewayTypes, NEW s \in Shard, container' = [container EXCEPT ![s].idle = 0]
  PROVE  /\ container' \in [Shard -> ContainerState] /\ container'[s].idle = 0
         /\ \A z \in Shard \ {s} : container'[z] = container[z]
<1>1. container[s] \in ContainerState
  BY DEF GatewayTypes
<1>2. PICK new : new = [container[s] EXCEPT !.idle = 0]
  OBVIOUS
<1>3. new \in ContainerState /\ new.idle = 0
  BY <1>1, <1>2, GatewayAssumption DEF ContainerState
<1>4. container' = [container EXCEPT ![s] = new]
  BY <1>2
<1> QED
  BY <1>3, <1>4, ContainerSet

LEMMA NewContainer ==
  ASSUME NEW state \in {"stopped", "starting", "healthy"}
  PROVE  Container(state) \in ContainerState /\ Container(state).idle = 0
  BY GatewayAssumption DEF Container, ContainerState

(* A key whose counts stay, while its container does not idle longer.      *)
LEMMA KeyKept ==
  ASSUME GatewayInv, GatewayTypes', NEW k \in Caller,
         admitted'[k] = admitted[k], held'[HomeOf[k[2]]][k] = held[HomeOf[k[2]]][k],
         sinceDeath'[HomeOf[k[2]]] = sinceDeath[HomeOf[k[2]]],
         container'[HomeOf[k[2]]].idle \in {0, container[HomeOf[k[2]]].idle}
  PROVE  Counted(k)' /\ IdleSince(k)'
<1>1. Counted(k) /\ IdleSince(k)
  BY DEF GatewayInv
<1>2. Counted(k)'
  BY <1>1 DEF Counted
<1>3. \A i \in 1 .. Len(admitted[k]) : admitted[k][i] \in Nat
  BY KeyTypes, WindowNat DEF GatewayInv, Age
<1>4. IdleSince(k)'
  BY <1>1, <1>3 DEF IdleSince
<1> QED
  BY <1>2, <1>4

LEMMA CallSteps ==
  ASSUME GatewayInv, NEW c \in Call, PassOn(c) \/ WakeFails(c)
  PROVE  GatewayInv'
<1>1. UNCHANGED <<container, held, admitted, sinceDeath>>
  BY DEF PassOn, WakeFails
<1>2. /\ call' \in [Call -> InFlight \union {Done}]
      /\ \A d \in Call : call'[d] # Done => call'[d].shard = HomeOf[call'[d].key[2]]
  <2>1. CASE PassOn(c)
    <3>1. PICK k \in Caller :
            call' = [call EXCEPT ![c] = [at |-> "waking", key |-> k, shard |-> HomeOf[k[2]]]]
      BY <2>1 DEF PassOn, ShardsFor
    <3>2. HomeOf[k[2]] \in Shard
      BY KeyTypes DEF GatewayInv
    <3>3. PICK new : new = [at |-> "waking", key |-> k, shard |-> HomeOf[k[2]]]
      OBVIOUS
    <3>4. new \in InFlight
          /\ new.shard = HomeOf[new.key[2]]
      BY <3>2, <3>3 DEF InFlight
    <3> QED
      BY <3>1, <3>3, <3>4 DEF GatewayInv, GatewayTypes
  <2>2. CASE WakeFails(c)
    BY <2>2 DEF WakeFails, GatewayInv, GatewayTypes
  <2> QED
    BY <2>1, <2>2
<1>3. GatewayTypes'
  BY <1>1, <1>2 DEF GatewayInv, GatewayTypes
<1> QED
  BY <1>1, <1>3, KeyKept DEF GatewayInv

LEMMA ContainerSteps ==
  ASSUME GatewayInv,
         \/ \E c \in Call : Wake(c) \/ Handle(c)
         \/ \E s \in Shard : StartContainer(s) \/ ContainerFails(s)
  PROVE  GatewayInv'
<1>1. UNCHANGED <<held, admitted, sinceDeath>>
  BY DEF Wake, Handle, StartContainer, ContainerFails
<1> DEFINE Used == /\ container' \in [Shard -> ContainerState]
                   /\ \A s \in Shard : container'[s].idle \in {0, container[s].idle}
<1>2. Used
  <2>1. GatewayTypes /\ \A s \in Shard : container[s] \in ContainerState
    BY DEF GatewayInv, GatewayTypes
  <2>2. ASSUME NEW s \in Shard, NEW state \in {"stopped", "starting"},
               container' = [container EXCEPT ![s] = Container(state)]
        PROVE  Used
    <3>1. PICK new : new = Container(state)
      OBVIOUS
    <3>2. new \in ContainerState /\ new.idle = 0
      BY <3>1, NewContainer
    <3>3. container' = [container EXCEPT ![s] = new]
      BY <2>2, <3>1
    <3> QED
      BY <2>1, <3>2, <3>3, ContainerSet
  <2>3. ASSUME NEW s \in Shard, container' = [container EXCEPT ![s].idle = 0]
        PROVE  Used
    BY <2>1, <2>3, ContainerUsed
  <2>4. CASE \E c \in Call : Wake(c)
    <3>1. PICK c \in Call : Wake(c)
      BY <2>4
    <3>2. call[c].shard \in Shard
      BY <3>1 DEF Wake, IsAt, Done, GatewayInv, GatewayTypes, InFlight
    <3> QED
      BY <2>2, <3>1, <3>2 DEF Wake
  <2>5. CASE \E c \in Call : Handle(c)
    <3>1. PICK c \in Call : Handle(c)
      BY <2>5
    <3>2. call[c].shard \in Shard
      BY <3>1 DEF Handle, IsAt, Done, GatewayInv, GatewayTypes, InFlight
    <3> QED
      BY <2>3, <3>1, <3>2 DEF Handle
  <2>6. CASE \E s \in Shard : StartContainer(s)
    <3>1. PICK s \in Shard : container' = [container EXCEPT ![s].state = "healthy"]
      BY <2>6 DEF StartContainer
    <3>2. PICK new : new = [container[s] EXCEPT !.state = "healthy"]
      OBVIOUS
    <3>3. new \in ContainerState /\ new.idle = container[s].idle
      BY <2>1, <3>2 DEF ContainerState
    <3>4. container' = [container EXCEPT ![s] = new]
      BY <3>1, <3>2
    <3> QED
      BY <2>1, <3>3, <3>4, ContainerSet
  <2>7. CASE \E s \in Shard : ContainerFails(s)
    BY <2>2, <2>7 DEF ContainerFails
  <2> QED
    BY <2>4, <2>5, <2>6, <2>7
<1>3. /\ call' \in [Call -> InFlight \union {Done}]
      /\ \A d \in Call : call'[d] # Done => call'[d].shard = HomeOf[call'[d].key[2]]
  BY DEF Wake, Handle, StartContainer, ContainerFails, GatewayInv, GatewayTypes
<1>4. GatewayTypes'
  BY <1>1, <1>2, <1>3 DEF GatewayInv, GatewayTypes
<1>5. \A k \in Caller : Counted(k)' /\ IdleSince(k)'
  <2> SUFFICES ASSUME NEW k \in Caller PROVE Counted(k)' /\ IdleSince(k)'
    OBVIOUS
  <2>1. HomeOf[k[2]] \in Shard
    BY KeyTypes DEF GatewayInv
  <2> QED
    BY <1>1, <1>2, <1>4, <2>1, KeyKept
<1> QED
  BY <1>4, <1>5 DEF GatewayInv

LEMMA EnterStep ==
  ASSUME GatewayInv, NEW c \in Call, Enter(c)
  PROVE  GatewayInv'
<1>1. PICK s, k, events, refused :
        /\ s = call[c].shard /\ k = call[c].key
        /\ events = Fresh(held[s][k]) /\ (refused <=> Full(events, k[1]))
  OBVIOUS
<1>2. /\ call[c] # Done /\ k \in Caller /\ s \in Shard /\ s = HomeOf[k[2]]
  <2>1. call[c].at = "waking"
    BY DEF Enter, IsAt
  <2>2. call[c] # Done
    BY <2>1 DEF Done
  <2>3. call[c] \in InFlight /\ call[c].shard = HomeOf[call[c].key[2]]
    BY <2>2 DEF GatewayInv, GatewayTypes
  <2> QED
    BY <1>1, <2>2, <2>3 DEF InFlight
<1>3. /\ container' = [container EXCEPT ![s].idle = 0]
      /\ held' = [held EXCEPT ![s][k] = IF refused THEN events ELSE Append(events, 0)]
      /\ admitted' = IF refused THEN admitted ELSE [admitted EXCEPT ![k] = Append(@, 0)]
      /\ call' = [call EXCEPT ![c] = IF refused THEN Done ELSE [@ EXCEPT !.at = "inside"]]
      /\ UNCHANGED sinceDeath
  BY <1>1 DEF Enter
<1>4. PICK x \in Nat, p \in Nat :
        /\ Matches(held[s][k], admitted[k], sinceDeath[s], x, p)
        /\ Len(admitted[k]) - p <= Quota[k[1]]
  BY <1>2 DEF GatewayInv, Counted
<1>5. /\ held[s][k] \in Seq(Age) /\ admitted[k] \in Seq(Age) /\ sinceDeath[s] \in Age
      /\ Quota[k[1]] \in Nat
  BY <1>2, KeyTypes DEF GatewayInv
<1>6. /\ events \in Seq(Age) /\ Len(events) = Len(admitted[k]) - p
      /\ Matches(events, admitted[k], sinceDeath[s], 0, p)
      /\ Matches(Append(events, 0), Append(admitted[k], 0), sinceDeath[s], 0, p)
  <2>1. PICK h, a, d : h = held[s][k] /\ a = admitted[k] /\ d = sinceDeath[s]
    OBVIOUS
  <2>2. h \in Seq(Age) /\ a \in Seq(Age) /\ d \in Age /\ Matches(h, a, d, x, p) /\ events = Fresh(h)
    BY <1>1, <1>4, <1>5, <2>1
  <2>3. /\ Fresh(h) \in Seq(Age) /\ Len(Fresh(h)) = Len(a) - p
        /\ Matches(Fresh(h), a, d, 0, p)
        /\ Matches(Append(Fresh(h), 0), Append(a, 0), d, 0, p)
    BY <2>2, MatchesWhenAdmitting
  <2> QED
    BY <2>1, <2>2, <2>3
<1>7. /\ Append(events, 0) \in Seq(Age) /\ Append(admitted[k], 0) \in Seq(Age)
      /\ Len(Append(admitted[k], 0)) = Len(admitted[k]) + 1
  BY <1>5, <1>6, WindowNat, AppendProperties
<1>8. PICK h, a : /\ h = (IF refused THEN events ELSE Append(events, 0))
                  /\ a = (IF refused THEN admitted[k] ELSE Append(admitted[k], 0))
  OBVIOUS
<1>9. h \in Seq(Age) /\ a \in Seq(Age) /\ Matches(h, a, sinceDeath[s], 0, p)
  BY <1>5, <1>6, <1>7, <1>8
<1>10. /\ held'[s][k] = h /\ admitted'[k] = a
       /\ \A z \in Shard, l \in Caller : z # s \/ l # k => held'[z][l] = held[z][l]
       /\ \A l \in Caller : l # k => admitted'[l] = admitted[l]
       /\ held' \in [Shard -> [Caller -> Seq(Age)]] /\ admitted' \in [Caller -> Seq(Age)]
  <2>1. held' = [held EXCEPT ![s] = [held[s] EXCEPT ![k] = h]]
    BY <1>3, <1>8
  <2>2. held[s] \in [Caller -> Seq(Age)]
    BY <1>2 DEF GatewayInv, GatewayTypes
  <2>3. PICK row : row = [held[s] EXCEPT ![k] = h]
    OBVIOUS
  <2>4. row \in [Caller -> Seq(Age)] /\ row[k] = h /\ \A l \in Caller \ {k} : row[l] = held[s][l]
    BY <1>2, <1>9, <2>2, <2>3
  <2>5. admitted' = [admitted EXCEPT ![k] = a]
    BY <1>3, <1>8 DEF GatewayInv, GatewayTypes
  <2> QED
    BY <1>2, <1>9, <2>1, <2>3, <2>4, <2>5 DEF GatewayInv, GatewayTypes
<1>11. /\ container' \in [Shard -> ContainerState]
       /\ container'[s].idle = 0 /\ \A z \in Shard \ {s} : container'[z] = container[z]
  BY <1>2, <1>3, ContainerUsed DEF GatewayInv
<1>12. /\ call' \in [Call -> InFlight \union {Done}]
       /\ \A d \in Call : call'[d] # Done => call'[d].shard = HomeOf[call'[d].key[2]]
  <2>1. call[c] \in InFlight
    BY <1>2 DEF GatewayInv, GatewayTypes
  <2>2. PICK new : new = [call[c] EXCEPT !.at = "inside"]
    OBVIOUS
  <2>3. /\ new \in InFlight
        /\ new.shard = HomeOf[new.key[2]]
    BY <1>1, <1>2, <2>1, <2>2 DEF InFlight
  <2>4. call' \in {[call EXCEPT ![c] = Done], [call EXCEPT ![c] = new]}
    BY <1>3, <2>2
  <2> QED
    BY <2>3, <2>4 DEF GatewayInv, GatewayTypes
<1>13. GatewayTypes'
  BY <1>3, <1>10, <1>11, <1>12 DEF GatewayInv, GatewayTypes
<1>14. Counted(k)'
  <2>1. Len(a) - p <= Quota[k[1]]
    <3>1. CASE refused
      BY <1>4, <1>8, <3>1
    <3>2. CASE ~refused
      <4>1. ~(Len(admitted[k]) - p >= Quota[k[1]])
        BY <1>1, <1>6, <3>2 DEF Full
      <4>2. Len(a) = Len(admitted[k]) + 1 /\ Len(admitted[k]) \in Nat
        BY <1>5, <1>7, <1>8, <3>2
      <4> QED
        BY <1>5, <4>1, <4>2
    <3> QED
      BY <3>1, <3>2
  <2>2. 0 \in Nat /\ Matches(h, a, sinceDeath'[s], 0, p)
    BY <1>3, <1>9
  <2> QED
    BY <1>2, <1>10, <2>1, <2>2 DEF Counted
<1>15. IdleSince(k)'
  <2>1. \A i \in 1 .. Len(a) : a[i] \in Nat
    BY <1>9, WindowNat DEF Age
  <2> QED
    BY <1>2, <1>10, <1>11, <2>1 DEF IdleSince
<1>16. ASSUME NEW l \in Caller, l # k PROVE Counted(l)' /\ IdleSince(l)'
  <2>1. HomeOf[l[2]] \in Shard
    BY <1>16, KeyTypes DEF GatewayInv
  <2> QED
    BY <1>3, <1>10, <1>11, <1>13, <1>16, <2>1, KeyKept
<1> QED
  BY <1>13, <1>14, <1>15, <1>16 DEF GatewayInv

(* A container forgets its counts: none matters if it slept long enough,   *)
(* and the admissions are lost if it died.                                 *)
LEMMA ForgetSteps ==
  ASSUME GatewayInv, NEW s \in Shard, Sleep(s) \/ ContainerDies(s)
  PROVE  GatewayInv'
<1>1. /\ container' = [container EXCEPT ![s] = Container("stopped")]
      /\ held' = Forgotten(s) /\ UNCHANGED admitted
      /\ sinceDeath' = sinceDeath \/ sinceDeath' = [sinceDeath EXCEPT ![s] = 0]
      /\ call' = call \/ \E S \in SUBSET Call : call' = [d \in Call |-> IF d \in S THEN Done ELSE call[d]]
  <2>1. CASE Sleep(s)
    BY <2>1 DEF Sleep
  <2>2. CASE ContainerDies(s)
    <3>1. PICK S : S = {d \in Call : IsAt(d, "inside") /\ call[d].shard = s}
      OBVIOUS
    <3>2. call' = [d \in Call |-> IF d \in S THEN Done ELSE call[d]]
      BY <2>2, <3>1 DEF ContainerDies
    <3> QED
      BY <2>2, <3>1, <3>2 DEF ContainerDies
  <2> QED
    BY <2>1, <2>2
<1>2. /\ container' \in [Shard -> ContainerState]
      /\ container'[s].idle = 0 /\ \A z \in Shard \ {s} : container'[z] = container[z]
  <2>1. PICK new : new = Container("stopped")
    OBVIOUS
  <2>2. new \in ContainerState /\ new.idle = 0
    BY <2>1, NewContainer
  <2>3. container' = [container EXCEPT ![s] = new]
    BY <1>1, <2>1
  <2> QED
    BY <2>2, <2>3, ContainerSet DEF GatewayInv
<1>3. /\ held' \in [Shard -> [Caller -> Seq(Age)]]
      /\ \A k \in Caller : held'[s][k] = <<>>
      /\ \A z \in Shard \ {s} : held'[z] = held[z]
  BY <1>1 DEF Forgotten, GatewayInv, GatewayTypes
<1>4. /\ call' \in [Call -> InFlight \union {Done}]
      /\ \A d \in Call : call'[d] # Done => call'[d].shard = HomeOf[call'[d].key[2]]
  BY <1>1 DEF GatewayInv, GatewayTypes
<1>5. GatewayTypes'
  BY <1>1, <1>2, <1>3, <1>4, WindowNat DEF GatewayInv, GatewayTypes
<1>6. ASSUME NEW k \in Caller, HomeOf[k[2]] = s PROVE Counted(k)' /\ IdleSince(k)'
  <2>1. PICK a : a = admitted[k]
    OBVIOUS
  <2>2. a \in Seq(Age) /\ Len(a) \in Nat /\ Quota[k[1]] \in Nat
    BY <2>1, KeyTypes DEF GatewayInv
  <2>3. \A i \in 1 .. Len(a) : a[i] \in Nat /\ a[i] <= Window
    BY <2>2, WindowNat DEF Age
  <2>4. Len(a) > 0 => a[1] < Window
    BY <2>1 DEF GatewayInv, Counted, Matches
  <2>5. CASE Sleep(s)
    <3>1. container[s].idle >= Window
      BY <2>5, GatewayAssumption DEF Sleep
    <3>2. \A i \in 1 .. Len(a) : a[i] = Window \/ a[i] >= container[s].idle
      BY <1>6, <2>1 DEF GatewayInv, IdleSince
    <3>3. container[s].idle \in Nat
      <4>1. container[s].idle \in 0 .. IdleStop
        BY <1>6, KeyTypes DEF GatewayInv
      <4> QED
        BY <4>1, GatewayAssumption
    <3>4. Len(a) = 0
      <4> SUFFICES ASSUME Len(a) # 0 PROVE FALSE
        OBVIOUS
      <4>1. 1 \in 1 .. Len(a) /\ Len(a) > 0
        BY <2>2
      <4> QED
        BY <2>3, <2>4, <3>1, <3>2, <3>3, <4>1, WindowNat
    <3>5. Matches(<<>>, a, sinceDeath'[s], 0, 0)
      BY <3>4 DEF Matches
    <3>6. Counted(k)'
      <4>1. held'[s][k] = <<>> /\ admitted'[k] = a /\ s = HomeOf[k[2]]
        BY <1>1, <1>3, <1>6, <2>1
      <4>2. 0 \in Nat /\ Len(a) - 0 <= Quota[k[1]]
        BY <2>2, <3>4
      <4> QED
        BY <3>5, <4>1, <4>2 DEF Counted
    <3> QED
      BY <1>1, <2>1, <2>2, <3>4, <3>6 DEF IdleSince
  <2>6. CASE ContainerDies(s)
    <3>1. sinceDeath'[s] = 0
      BY <2>6 DEF ContainerDies, GatewayInv, GatewayTypes
    <3>2. Matches(<<>>, a, 0, 0, Len(a))
      BY <2>2, <2>3, <2>4 DEF Matches
    <3>3. Counted(k)'
      <4>1. held'[s][k] = <<>> /\ admitted'[k] = a /\ s = HomeOf[k[2]]
        BY <1>1, <1>3, <1>6, <2>1
      <4>2. 0 \in Nat /\ Len(a) - Len(a) <= Quota[k[1]]
        BY <2>2
      <4> QED
        BY <2>2, <3>1, <3>2, <4>1, <4>2 DEF Counted
    <3> QED
      BY <1>1, <1>2, <1>6, <2>1, <2>3, <3>3 DEF IdleSince
  <2> QED
    BY <2>5, <2>6
<1>7. ASSUME NEW k \in Caller, HomeOf[k[2]] # s PROVE Counted(k)' /\ IdleSince(k)'
  <2>1. HomeOf[k[2]] \in Shard
    BY KeyTypes DEF GatewayInv
  <2>2. sinceDeath'[HomeOf[k[2]]] = sinceDeath[HomeOf[k[2]]]
    BY <1>1, <1>7, <2>1 DEF GatewayInv, GatewayTypes
  <2> QED
    BY <1>1, <1>2, <1>3, <1>5, <1>7, <2>1, <2>2, KeyKept
<1> QED
  BY <1>5, <1>6, <1>7 DEF GatewayInv

LEMMA TickStep == ASSUME GatewayInv, Tick PROVE GatewayInv'
<1>1. \A n \in Age : Older(n, Window) \in Age
  BY WindowNat DEF Age, Older
<1>2. \A k \in Caller : Fresh(Aged(admitted[k])) \in Seq(Age)
  BY AgedOf, FreshOf DEF GatewayInv, GatewayTypes
<1>3. \A s \in Shard, k \in Caller : Aged(held[s][k]) \in Seq(Age)
  BY AgedOf DEF GatewayInv, GatewayTypes
<1>4. ASSUME NEW s \in Shard
      PROVE  /\ container'[s] \in ContainerState
             /\ container'[s].idle \in {0, Older(container[s].idle, IdleStop)}
  <2>1. PICK idle : /\ idle \in {0, Older(container[s].idle, IdleStop)}
                    /\ container'[s] = [container[s] EXCEPT !.idle = idle]
    BY DEF Tick
  <2>2. container[s] \in ContainerState
    BY DEF GatewayInv, GatewayTypes
  <2>3. container[s].idle \in 0 .. IdleStop
    BY <2>2 DEF ContainerState
  <2>4. idle \in 0 .. IdleStop
    BY <2>1, <2>3, GatewayAssumption DEF Older
  <2> QED
    BY <2>1, <2>2, <2>4 DEF ContainerState
<1>5. GatewayTypes'
  BY <1>1, <1>2, <1>3, <1>4 DEF Tick, GatewayInv, GatewayTypes
<1>6. ASSUME NEW k \in Caller PROVE Counted(k)'
  <2>1. PICK s : s = HomeOf[k[2]]
    OBVIOUS
  <2>2. /\ s \in Shard /\ held[s][k] \in Seq(Age) /\ admitted[k] \in Seq(Age)
        /\ sinceDeath[s] \in Age /\ Quota[k[1]] \in Nat
    BY <2>1, KeyTypes DEF GatewayInv
  <2>3. PICK x \in Nat, p \in Nat :
          /\ Matches(held[s][k], admitted[k], sinceDeath[s], x, p)
          /\ Len(admitted[k]) - p <= Quota[k[1]]
    BY <2>1 DEF GatewayInv, Counted
  <2>4. PICK y \in Nat, q \in Nat :
          /\ Matches(Aged(held[s][k]), Fresh(Aged(admitted[k])), Older(sinceDeath[s], Window), y, q)
          /\ Len(Fresh(Aged(admitted[k]))) - q <= Len(admitted[k]) - p
    BY <2>2, <2>3, MatchesWhenOlder
  <2>5. Len(Fresh(Aged(admitted[k]))) - q <= Quota[k[1]]
    <3>1. Len(Fresh(Aged(admitted[k]))) \in Nat /\ Len(admitted[k]) \in Nat
      BY <1>2, <2>2
    <3> QED
      BY <2>2, <2>3, <2>4, <3>1
  <2>6. /\ held'[s][k] = Aged(held[s][k]) /\ admitted'[k] = Fresh(Aged(admitted[k]))
        /\ sinceDeath'[s] = Older(sinceDeath[s], Window)
    BY <2>2 DEF Tick
  <2> QED
    BY <2>1, <2>4, <2>5, <2>6 DEF Counted
<1>7. ASSUME NEW k \in Caller PROVE IdleSince(k)'
  <2>1. PICK s, b : s = HomeOf[k[2]] /\ b = Aged(admitted[k])
    OBVIOUS
  <2>2. /\ s \in Shard /\ admitted[k] \in Seq(Age) /\ container[s].idle \in Nat
        /\ b \in Seq(Age) /\ Len(b) = Len(admitted[k])
        /\ \A i \in 1 .. Len(b) : b[i] = Older(admitted[k][i], Window)
    BY <2>1, KeyTypes, AgedOf, GatewayAssumption DEF GatewayInv
  <2>3. ASSUME NEW i \in 1 .. Len(b) PROVE b[i] = Window \/ b[i] >= container'[s].idle
    <3>1. /\ admitted[k][i] \in Nat /\ admitted[k][i] <= Window
          /\ admitted[k][i] = Window \/ admitted[k][i] >= container[s].idle
      <4>1. i \in 1 .. Len(admitted[k]) /\ IdleSince(k)
        BY <2>2 DEF GatewayInv
      <4>2. admitted[k][i] \in Nat /\ admitted[k][i] <= Window
        BY <2>2, <4>1, WindowNat DEF Age
      <4> QED
        BY <2>1, <4>1, <4>2 DEF IdleSince
    <3>2. container'[s].idle \in {0, container[s].idle, container[s].idle + 1}
      BY <1>4, <2>2 DEF Older
    <3>3. b[i] = IF admitted[k][i] < Window THEN admitted[k][i] + 1 ELSE admitted[k][i]
      BY <2>2 DEF Older
    <3>4. PICK x, y : x = admitted[k][i] /\ y = container[s].idle
      OBVIOUS
    <3>5. CASE x < Window
      <4>1. b[i] = x + 1 /\ x >= y /\ x \in Nat
        BY <3>1, <3>3, <3>4, <3>5, WindowNat
      <4> QED
        BY <3>2, <3>4, <4>1, <2>2
    <3>6. CASE ~(x < Window)
      BY <3>1, <3>3, <3>4, <3>6, WindowNat
    <3> QED
      BY <3>5, <3>6
  <2>4. PICK f : f = Fresh(b)
    OBVIOUS
  <2>5. \A i \in 1 .. Len(f) : \E j \in 1 .. Len(b) : f[i] = b[j]
    <3>1. PICK n : n = Expired(b)
      OBVIOUS
    <3>2. /\ n \in Nat /\ Len(f) = Len(b) - n /\ Len(b) \in Nat
          /\ \A i \in 1 .. Len(f) : f[i] = b[n + i]
      <4>1. n \in 0 .. Len(b) /\ Len(b) \in Nat
        BY <2>2, <3>1, ExpiredOf
      <4>2. Len(f) = Len(b) - n /\ \A i \in 1 .. Len(f) : f[i] = b[n + i]
        BY <2>2, <2>4, <3>1, FreshOf
      <4> QED
        BY <4>1, <4>2
    <3>3. \A i \in 1 .. Len(f) : n + i \in 1 .. Len(b)
      BY <3>2
    <3> QED
      BY <3>2, <3>3
  <2>6. admitted'[k] = f
    BY <2>1, <2>4 DEF Tick
  <2> QED
    BY <2>1, <2>3, <2>5, <2>6 DEF IdleSince
<1> QED
  BY <1>5, <1>6, <1>7 DEF GatewayInv

LEMMA GatewayInvStep == GatewayInv /\ [GatewayNext]_gatewayVars => GatewayInv'
<1> SUFFICES ASSUME GatewayInv, [GatewayNext]_gatewayVars PROVE GatewayInv'
  OBVIOUS
<1>1. CASE UNCHANGED gatewayVars
  BY <1>1 DEF gatewayVars, GatewayInv, GatewayTypes, Counted, IdleSince
<1> QED
  BY <1>1, CallSteps, ContainerSteps, EnterStep, ForgetSteps, TickStep DEF GatewayNext

LEMMA InitGatewayInv == GatewayInit => GatewayInv
<1> SUFFICES ASSUME GatewayInit PROVE GatewayInv
  OBVIOUS
<1>1. <<>> \in Seq(Age) /\ Len(<<>>) = 0
  OBVIOUS
<1>2. GatewayTypes
  <2>1. PICK stopped : stopped = Container("stopped")
    OBVIOUS
  <2>2. stopped \in ContainerState
    BY <2>1, NewContainer
  <2>3. container \in [Shard -> ContainerState]
    BY <2>1, <2>2 DEF GatewayInit
  <2>4. /\ call \in [Call -> InFlight \union {Done}]
        /\ \A c \in Call : call[c] = Done
    BY DEF GatewayInit
  <2>5. /\ held \in [Shard -> [Caller -> Seq(Age)]] /\ admitted \in [Caller -> Seq(Age)]
        /\ sinceDeath \in [Shard -> Age]
    BY <1>1, WindowNat DEF GatewayInit
  <2> QED
    BY <2>3, <2>4, <2>5 DEF GatewayTypes
<1>3. ASSUME NEW k \in Caller PROVE Counted(k) /\ IdleSince(k)
  <2>1. HomeOf[k[2]] \in Shard /\ Quota[k[1]] \in Nat
    BY <1>2, KeyTypes
  <2>2. held[HomeOf[k[2]]][k] = <<>> /\ admitted[k] = <<>>
    BY <2>1 DEF GatewayInit
  <2>3. Matches(<<>>, <<>>, sinceDeath[HomeOf[k[2]]], 0, 0)
    BY <1>1 DEF Matches
  <2> QED
    BY <1>1, <2>1, <2>2, <2>3 DEF Counted, IdleSince
<1> QED
  BY <1>2, <1>3 DEF GatewayInv

(* No client gets more of a route through than the API's limit for one     *)
(* window, over all containers and their sleeps, unless its own container  *)
(* died within the window.                                                 *)
THEOREM LimitHoldsForWindow == GatewaySpec => []WindowLimitHolds
<1>1. ASSUME GatewayInv PROVE WindowLimitHolds
  <2> SUFFICES ASSUME NEW k \in Caller, ~(sinceDeath[HomeOf[k[2]]] < Window)
               PROVE  Len(admitted[k]) <= Quota[k[1]]
    BY DEF WindowLimitHolds
  <2>1. PICK s, a : s = HomeOf[k[2]] /\ a = admitted[k]
    OBVIOUS
  <2>2. PICK x \in Nat, p \in Nat :
          Matches(held[s][k], a, sinceDeath[s], x, p) /\ Len(a) - p <= Quota[k[1]]
    BY <1>1, <2>1 DEF GatewayInv, Counted
  <2>3. a \in Seq(Age) /\ Len(a) \in Nat /\ sinceDeath[s] = Window
    <3>1. sinceDeath[s] \in Age /\ a \in Seq(Age)
      BY <1>1, <2>1, KeyTypes DEF GatewayInv
    <3> QED
      BY <2>1, <3>1, WindowNat DEF Age
  <2>4. p = 0
    <3> SUFFICES ASSUME p # 0 PROVE FALSE
      OBVIOUS
    <3>1. 1 \in 1 .. p /\ 1 \in 1 .. Len(a) /\ Len(a) > 0
      BY <2>2, <2>3 DEF Matches
    <3>2. a[1] >= Window /\ a[1] < Window /\ a[1] \in Nat
      BY <2>2, <2>3, <3>1, WindowNat DEF Matches, Age
    <3> QED
      BY <3>2, WindowNat
  <2> QED
    BY <2>1, <2>2, <2>3, <2>4
<1> QED
  BY <1>1, InitGatewayInv, GatewayInvStep, PTL DEF GatewaySpec

\* Containers, requests and ages keep their types.
THEOREM GatewayTypeCorrect == GatewaySpec => []GatewayTypeOK
<1> DEFINE DeathsBounded == deaths \in 0 .. MaxDeaths
<1>1. GatewayInit => DeathsBounded
  BY GatewayAssumption DEF GatewayInit
<1>2. DeathsBounded /\ [GatewayNext]_gatewayVars => DeathsBounded'
  <2> SUFFICES ASSUME DeathsBounded, [GatewayNext]_gatewayVars PROVE DeathsBounded'
    OBVIOUS
  <2>1. deaths' = deaths \/ (deaths < MaxDeaths /\ deaths' = deaths + 1)
    BY DEF GatewayNext, gatewayVars, Tick, PassOn, Wake, WakeFails, Enter, Handle, StartContainer,
           ContainerFails, Sleep, ContainerDies
  <2> QED
    BY <2>1, GatewayAssumption
<1>3. ASSUME GatewayInv, DeathsBounded PROVE GatewayTypeOK
  <2>1. ASSUME NEW c \in Call PROVE call[c].at \in {"answered", "waking", "inside"}
    <3>1. call[c] \in InFlight \union {Done}
      BY <1>3 DEF GatewayInv, GatewayTypes
    <3> QED
      BY <3>1 DEF InFlight, Done
  <2>2. \A s \in Shard : /\ container[s].state \in {"stopped", "starting", "healthy"}
                         /\ container[s].idle \in 0 .. IdleStop
    BY <1>3 DEF GatewayInv, GatewayTypes, ContainerState
  <2> QED
    BY <1>3, <2>1, <2>2 DEF GatewayInv, GatewayTypes, GatewayTypeOK, Age
<1> HIDE DEF DeathsBounded
<1> QED
  BY <1>1, <1>2, <1>3, InitGatewayInv, GatewayInvStep, PTL DEF GatewaySpec

-----------------------------------------------------------------------------
(***************************************************************************)
(* Proofs about RankFusion for any corpus, rankings and limits.            *)
(*                                                                         *)
(* A work that another one dominates comes after it in every list that is  *)
(* made on the way (Ranking): a list of the nearest of either ranking has  *)
(* with a work all that dominate it (Upward), the fused scores fall        *)
(* strictly (ShareFalls), a cut keeps a beginning, and the artist limit    *)
(* skips a work only after its artist's quota (Diversified).               *)
(***************************************************************************)

FusionTypes ==
  /\ place \in [{"clip", "style"} -> [Art -> Art]]
  /\ \A list \in {"clip", "style"} : \A x, y \in Art : place[list][x] = place[list][y] => x = y
  /\ \A x \in Art : place["clip"][x] = x
  /\ by \in [Art -> ArtistName] /\ cap \in Nat \ {0}

FusionInv == FusionTypes /\ NoDominatedHit

-----------------------------------------------------------------------------
(* Shares of a score.                                                      *)

LEMMA Dividing ==
  ASSUME NEW m \in Nat \ {0}, NEW n \in Nat, n % m = 0
  PROVE  n \div m \in Nat /\ n = m * (n \div m)
OBVIOUS

LEMMA LargerDivisor ==
  ASSUME NEW a \in Nat \ {0}, NEW b \in Nat \ {0}, NEW p \in Nat, NEW q \in Nat, a * p = b * q, q # 0
  PROVE  (a < b => p > q) /\ (a <= b => p >= q)
<1>1. ASSUME a <= b PROVE p >= q
  <2> SUFFICES ASSUME p < q PROVE FALSE
    OBVIOUS
  <2>1. a * p < a * q /\ a * q <= b * q
    BY <1>1
  <2> QED
    BY <2>1
<1>2. ASSUME a < b PROVE p # q
  BY <1>2
<1> QED
  BY <1>1, <1>2

LEMMA ShareFalls ==
  ASSUME NEW i \in 1 .. Size + 1, NEW j \in 1 .. Size + 1
  PROVE  /\ Share(i) \in Nat \ {0}
         /\ i < j => Share(i) > Share(j)
         /\ i <= j => Share(i) >= Share(j)
<1>1. Size \in Nat /\ RrfK \in Nat \ {0} /\ Scale \in Nat \ {0}
  BY FusionAssumption
<1>2. ASSUME NEW rank \in 1 .. Size + 1
      PROVE  /\ RrfK + rank \in Nat \ {0} /\ Share(rank) \in Nat \ {0}
             /\ Scale = (RrfK + rank) * Share(rank)
  <2>1. PICK m \in Nat \ {0} : m = RrfK + rank
    BY <1>1
  <2>2. Scale % m = 0
    BY <2>1, FusionAssumption
  <2>3. Scale \div m \in Nat /\ Scale = m * (Scale \div m)
    BY <1>1, <2>2, Dividing
  <2>4. Share(rank) \in Nat /\ Scale = m * Share(rank)
    BY <2>1, <2>3 DEF Share
  <2>5. Share(rank) # 0
    BY <1>1, <2>4
  <2> QED
    BY <2>1, <2>4, <2>5
<1>3. PICK a \in Nat \ {0}, b \in Nat \ {0} : a = RrfK + i /\ b = RrfK + j
  BY <1>2
<1>4. PICK p \in Nat \ {0}, q \in Nat \ {0} : p = Share(i) /\ q = Share(j)
  BY <1>2
<1>5. a * p = b * q
  BY <1>2, <1>3, <1>4
<1>6. (a < b => p > q) /\ (a <= b => p >= q)
  BY <1>5, LargerDivisor
<1>7. i < j => a < b
  BY <1>1, <1>3
<1>8. i <= j => a <= b
  BY <1>1, <1>3
<1> QED
  BY <1>4, <1>6, <1>7, <1>8

-----------------------------------------------------------------------------
(* Numbers and sequences.                                                  *)

LEMMA LesserGreater ==
  ASSUME NEW m \in Int, NEW n \in Int
  PROVE  /\ Min({m, n}) = (IF m <= n THEN m ELSE n) /\ Max({m, n}) = (IF m <= n THEN n ELSE m)
<1>1. \E x \in {m, n} : \A y \in {m, n} : x <= y
  OBVIOUS
<1>2. \E x \in {m, n} : \A y \in {m, n} : x >= y
  OBVIOUS
<1>3. Min({m, n}) \in {m, n} /\ \A y \in {m, n} : Min({m, n}) <= y
  BY <1>1 DEF Min
<1>4. Max({m, n}) \in {m, n} /\ \A y \in {m, n} : Max({m, n}) >= y
  BY <1>2 DEF Max
<1> QED
  BY <1>3, <1>4

LEMMA LeastOf ==
  ASSUME NEW S \in SUBSET Nat, S # {}
  PROVE  \E m \in S : \A x \in S : m <= x
<1>1. PICK m \in S : \A y \in S : <<y, m>> \notin OpToRel(<, Nat)
  BY NatLessThanWellFounded, WFMin, Zenon
<1>2. \A y \in S : ~(y < m)
  BY <1>1 DEF OpToRel
<1> QED
  BY <1>2

\* What is picked stands in the order of its places.
LEMMA PlacesOf ==
  ASSUME NEW n \in Nat, NEW places \in SUBSET (1 .. n)
  PROVE  /\ Cardinality(places) \in Nat /\ IsFiniteSet(places)
         /\ \E at \in [1 .. Cardinality(places) -> places] :
              /\ \A i \in places : \E k \in 1 .. Cardinality(places) : at[k] = i
              /\ \A k, l \in 1 .. Cardinality(places) : k < l => at[k] < at[l]
              /\ \A k \in 1 .. Cardinality(places) : Before(places, at[k]) = k - 1
              /\ \A hits : Picked(hits, places) = [k \in 1 .. Cardinality(places) |-> hits[at[k]]]
<1> DEFINE Below(i) == {j \in places : j < i}
<1>1. IsFiniteSet(places) /\ \A T \in SUBSET places : IsFiniteSet(T) /\ Cardinality(T) \in Nat
  <2>1. IsFiniteSet(1 .. n)
    BY FS_Interval
  <2> QED
    BY <2>1, FS_Subset, FS_CardinalityType
<1>2. PICK many \in Nat : many = Cardinality(places)
  BY <1>1
<1>3. ASSUME NEW i \in places, NEW above \in SUBSET places,
             above \in {places} \union {Below(j) : j \in places},
             Below(i) \subseteq above, i \in above
      PROVE  Cardinality(Below(i)) < Cardinality(above)
  <2>1. PICK low : low = Below(i)
    OBVIOUS
  <2>2. i \notin low /\ low \in SUBSET above
    BY <1>3, <2>1
  <2>3. IsFiniteSet(above) /\ Cardinality(above) \in Nat /\ Cardinality(low) \in Nat
    BY <1>1, <2>2
  <2>4. Cardinality(low) <= Cardinality(above) /\ Cardinality(low) # Cardinality(above)
    BY <1>3, <2>2, <2>3, FS_Subset
  <2> QED
    BY <2>1, <2>3, <2>4
<1>4. ASSUME NEW i \in places PROVE Cardinality(Below(i)) \in Nat /\ Cardinality(Below(i)) < many
  BY <1>1, <1>2, <1>3
<1>5. ASSUME NEW a \in places, NEW b \in places, a < b PROVE Cardinality(Below(a)) < Cardinality(Below(b))
  <2>1. a \in Nat /\ b \in Nat /\ \A x \in places : x \in Nat
    OBVIOUS
  <2>2. \A x \in places : x < a => x < b
    BY <1>5, <2>1
  <2>3. a \in Below(b) /\ Below(a) \subseteq Below(b) /\ Below(b) \in SUBSET places
    BY <1>5, <2>2
  <2> HIDE DEF Below
  <2> QED
    BY <1>3, <2>3
<1>6. PICK rank : rank = [i \in places |-> Cardinality(Below(i)) + 1]
  OBVIOUS
<1> HIDE DEF Below
<1>7. rank \in [places -> 1 .. many]
  BY <1>4, <1>6
<1>8. \A a, b \in places : a < b => rank[a] < rank[b]
  BY <1>4, <1>5, <1>6
<1>9. \A a, b \in places : rank[a] = rank[b] => a = b
  <2>1. \A a \in places : a \in Nat /\ rank[a] \in Nat
    BY <1>7
  <2> QED
    BY <1>8, <2>1
<1>10. rank \in Injection(places, 1 .. many)
  BY <1>7, <1>9 DEF Injection, IsInjective
<1>11. rank \in Surjection(places, 1 .. many)
  <2>1. IsFiniteSet(1 .. many) /\ Cardinality(1 .. many) = many
    BY FS_Interval
  <2> QED
    BY <1>2, <1>10, <2>1, FS_Injection
<1>12. PICK at : at = [k \in 1 .. many |-> CHOOSE i \in places : Cardinality(Below(i)) = k - 1]
  OBVIOUS
<1>13. \A k \in 1 .. many : at[k] \in places /\ Cardinality(Below(at[k])) = k - 1
  <2> SUFFICES ASSUME NEW k \in 1 .. many PROVE \E i \in places : Cardinality(Below(i)) = k - 1
    BY <1>12
  <2>1. PICK i \in places : rank[i] = k
    BY <1>11 DEF Surjection
  <2> QED
    BY <1>4, <1>6, <2>1
<1>14. \A k \in 1 .. many : rank[at[k]] = k
  BY <1>6, <1>13
<1>15. \A i \in places : \E k \in 1 .. many : at[k] = i
  <2> SUFFICES ASSUME NEW i \in places PROVE at[rank[i]] = i
    BY <1>7
  <2>1. rank[i] \in 1 .. many /\ at[rank[i]] \in places /\ rank[at[rank[i]]] = rank[i]
    BY <1>7, <1>13, <1>14
  <2> QED
    BY <1>9, <2>1
<1>16. ASSUME NEW k \in 1 .. many, NEW l \in 1 .. many, k < l PROVE at[k] < at[l]
  <2>1. PICK a \in places, b \in places : a = at[k] /\ b = at[l] /\ rank[a] = k /\ rank[b] = l
    BY <1>13, <1>14
  <2>2. b < a => l < k
    BY <1>8, <2>1
  <2>3. a # b /\ ~(l < k) /\ a \in Nat /\ b \in Nat
    BY <1>16, <2>1
  <2> QED
    BY <2>1, <2>2, <2>3
<1>17. at \in [1 .. many -> places]
  BY <1>12, <1>13
<1>18. ASSUME NEW hits PROVE Picked(hits, places) = [k \in 1 .. many |-> hits[at[k]]]
  BY <1>2, <1>12 DEF Picked, Before, Below
<1>19. \A k \in 1 .. many : Before(places, at[k]) = k - 1
  BY <1>13 DEF Before, Below
<1> QED
  BY <1>1, <1>2, <1>15, <1>16, <1>17, <1>18, <1>19

\* The first places of many are as many as asked for.
LEMMA FirstOf ==
  ASSUME NEW n \in Nat, NEW places \in SUBSET (1 .. n), NEW m \in Nat
  PROVE  /\ IsFiniteSet(First(places, m)) /\ Cardinality(First(places, m)) \in Nat
         /\ Cardinality(First(places, m)) <= m
         /\ Cardinality(places) >= m => Cardinality(First(places, m)) = m
<1>1. PICK many \in Nat : many = Cardinality(places) /\ IsFiniteSet(places)
  BY PlacesOf
<1>2. PICK at \in [1 .. many -> places] :
        /\ \A i \in places : \E k \in 1 .. many : at[k] = i
        /\ \A k, l \in 1 .. many : k < l => at[k] < at[l]
        /\ \A k \in 1 .. many : Before(places, at[k]) = k - 1
  <2>1. PICK at \in [1 .. Cardinality(places) -> places] :
          /\ \A i \in places : \E k \in 1 .. Cardinality(places) : at[k] = i
          /\ \A k, l \in 1 .. Cardinality(places) : k < l => at[k] < at[l]
          /\ \A k \in 1 .. Cardinality(places) : Before(places, at[k]) = k - 1
          /\ \A hits : Picked(hits, places) = [k \in 1 .. Cardinality(places) |-> hits[at[k]]]
    BY PlacesOf, Zenon
  <2> QED
    BY <1>1, <2>1
<1>3. PICK less \in Nat : less = IF many <= m THEN many ELSE m
  BY <1>1
<1>4. less <= many /\ less <= m /\ (many >= m => less = m)
  BY <1>3
<1>5. PICK f : f = [k \in 1 .. less |-> at[k]]
  OBVIOUS
<1>6. PICK first : first = First(places, m)
  OBVIOUS
<1>7. \A k \in 1 .. many : at[k] \in first <=> k \in 1 .. less
  <2> SUFFICES ASSUME NEW k \in 1 .. many PROVE Before(places, at[k]) < m <=> k \in 1 .. less
    BY <1>2, <1>6 DEF First
  <2>1. k - 1 < m <=> k <= less
    BY <1>3
  <2> QED
    BY <1>2, <2>1
<1>8. first \subseteq places
  BY <1>6 DEF First
<1>9. f \in [1 .. less -> first]
  BY <1>2, <1>4, <1>5, <1>7
<1>10. \A k, l \in 1 .. less : f[k] = f[l] => k = l
  <2>1. \A k, l \in 1 .. less : k < l => f[k] < f[l]
    BY <1>2, <1>4, <1>5
  <2>2. \A k \in 1 .. less : f[k] \in Nat
    <3>1. first \subseteq Nat
      BY <1>8
    <3> QED
      BY <1>9, <3>1
  <2> SUFFICES ASSUME NEW k \in 1 .. less, NEW l \in 1 .. less, f[k] = f[l] PROVE k = l
    OBVIOUS
  <2>3. ~(k < l) /\ ~(l < k)
    BY <2>1, <2>2
  <2> QED
    BY <2>3
<1>11. \A i \in first : \E k \in 1 .. less : f[k] = i
  <2> SUFFICES ASSUME NEW i \in first PROVE \E k \in 1 .. less : f[k] = i
    OBVIOUS
  <2>1. PICK k \in 1 .. many : at[k] = i
    BY <1>2, <1>8
  <2>2. k \in 1 .. less
    BY <1>7, <2>1
  <2> QED
    BY <1>5, <2>1, <2>2
<1>12. f \in Bijection(1 .. less, first)
  BY <1>9, <1>10, <1>11 DEF Bijection, Injection, Surjection, IsInjective
<1>13. IsFiniteSet(1 .. less) /\ Cardinality(1 .. less) = less
  BY FS_Interval
<1>14. IsFiniteSet(first) /\ Cardinality(first) = less
  BY <1>12, <1>13, FS_Bijection DEF ExistsBijection
<1> QED
  BY <1>1, <1>4, <1>6, <1>14

-----------------------------------------------------------------------------
(* Rankings.                                                               *)

\* A list in which no work stands before one of `among` that dominates it.
Ranking(o, among) ==
  /\ o \in Seq(Art) /\ \A i, j \in DOMAIN o : o[i] = o[j] => i = j
  /\ \A i \in DOMAIN o : \A x \in among : Dominates(x, o[i]) => \E j \in 1 .. i - 1 : o[j] = x

Upward(S, among) == \A y \in S : \A x \in among : Dominates(x, y) => x \in S

LEMMA Arts ==
  /\ Size \in Nat \ {0} /\ Art = 1 .. Size /\ Probe \in Art
  /\ IsFiniteSet(Art) /\ Cardinality(Art) = Size
  /\ \A S \in SUBSET Art : IsFiniteSet(S) /\ Cardinality(S) \in Nat /\ Cardinality(S) <= Size
<1>1. Size \in Nat \ {0}
  BY FusionAssumption
<1>2. IsFiniteSet(1 .. Size) /\ Cardinality(1 .. Size) = Size
  BY <1>1, FS_Interval
<1>3. Art = 1 .. Size /\ Probe \in Art
  BY <1>1 DEF Art, Probe
<1> QED
  BY <1>1, <1>2, <1>3, FS_Subset, FS_CardinalityType

LEMMA Places ==
  ASSUME FusionTypes, NEW list \in {"clip", "style"}, NEW x \in Art
  PROVE  place[list][x] \in Art /\ place[list][x] \in Nat /\ place[list][x] <= Size
<1>1. place[list] \in [Art -> Art]
  BY DEF FusionTypes
<1> QED
  BY <1>1, Arts

LEMMA RankKind ==
  ASSUME NEW list, NEW S \in SUBSET Art, NEW x
  PROVE  RankIn(list, S, x) \in 1 .. Size + 1
<1>1. PICK ahead \in SUBSET Art : ahead = {y \in S : place[list][y] < place[list][x]}
  OBVIOUS
<1>2. Cardinality(ahead) \in Nat /\ Cardinality(ahead) <= Size /\ Size \in Nat
  BY Arts
<1> QED
  BY <1>1, <1>2 DEF RankIn

\* Who is ahead of a work is ranked before it.
LEMMA RankFalls ==
  ASSUME FusionTypes, NEW list \in {"clip", "style"}, NEW S \in SUBSET Art, NEW x \in S, NEW y \in Art,
         place[list][x] < place[list][y]
  PROVE  RankIn(list, S, x) < RankIn(list, S, y)
<1>1. PICK a, b : /\ a = {z \in S : place[list][z] < place[list][x]}
                  /\ b = {z \in S : place[list][z] < place[list][y]}
  OBVIOUS
<1>2. \A z \in Art : place[list][z] \in Nat
  BY Places
<1>3. a \subseteq b /\ x \in b /\ x \notin a
  BY <1>1, <1>2
<1>4. IsFiniteSet(b) /\ Cardinality(a) \in Nat /\ Cardinality(b) \in Nat
  BY <1>1, Arts
<1>5. Cardinality(a) < Cardinality(b)
  BY <1>3, <1>4, FS_Subset
<1> QED
  BY <1>1, <1>4, <1>5 DEF RankIn

LEMMA NearestUpward ==
  ASSUME FusionTypes, NEW among \in SUBSET Art, NEW depth \in Int, NEW list \in {"clip", "style"},
         NEW y \in Nearest(list, among, depth), NEW x \in among, Dominates(x, y)
  PROVE  x \in Nearest(list, among, depth)
<1>1. y \in Art /\ x \in Art /\ place[list][x] < place[list][y]
  BY DEF Dominates, Nearest
<1>2. RankIn(list, among, x) < RankIn(list, among, y)
  BY <1>1, RankFalls
<1>3. RankIn(list, among, x) \in Int /\ RankIn(list, among, y) \in Int
  BY RankKind, Arts
<1> QED
  BY <1>2, <1>3 DEF Nearest

LEMMA BothUpward ==
  ASSUME FusionTypes, NEW among \in SUBSET Art, NEW depth \in Int
  PROVE  /\ Upward(Nearest("clip", among, depth) \union Nearest("style", among, depth), among)
         /\ Upward(Nearest("clip", among, depth), among)
         /\ \A list \in {"clip", "style"} : Nearest(list, among, depth) \subseteq among
BY NearestUpward DEF Upward, Nearest

\* Where the score falls strictly with domination, no ordering puts a work before
\* one that dominates it.
LEMMA OrderedRanking ==
  ASSUME FusionTypes, NEW S \in SUBSET Art, NEW among \in SUBSET Art, Upward(S, among),
         NEW score \in [S -> Nat], \A x, y \in S : Dominates(x, y) => score[x] > score[y],
         NEW o \in Ordered(S, score)
  PROVE  Ranking(o, among) /\ ToSet(o) = S
<1>1. PICK n \in Nat : n = Cardinality(S) /\ IsFiniteSet(S)
  BY Arts
<1>2. /\ o \in [1 .. n -> S] /\ \A i, j \in 1 .. n : i # j => o[i] # o[j]
  BY <1>1 DEF Ordered, SetToSeqs
<1>3. o \in Seq(Art) /\ DOMAIN o = 1 .. n /\ Len(o) = n
  <2>1. o \in [1 .. n -> Art]
    BY <1>2
  <2>2. o \in Seq(Art)
    BY <2>1, SeqDef
  <2>3. DOMAIN o = 1 .. Len(o) /\ Len(o) \in Nat
    BY <2>2, LenProperties
  <2> QED
    BY <1>2, <2>2, <2>3
<1>4. \A i \in 2 .. n : score[o[i - 1]] >= score[o[i]]
  BY <1>3 DEF Ordered
<1>5. o \in Surjection(1 .. n, S)
  <2>1. o \in Injection(1 .. n, S)
    BY <1>2 DEF Injection, IsInjective
  <2>2. Cardinality(1 .. n) = n
    BY FS_Interval
  <2> QED
    BY <1>1, <2>1, <2>2, FS_Injection
<1>6. \A x \in S : \E i \in 1 .. n : o[i] = x
  BY <1>5 DEF Surjection
<1>7. ToSet(o) = S
  BY <1>2, <1>3, <1>6 DEF ToSet
<1>8. ASSUME NEW i \in 1 .. n, NEW j \in 1 .. n, i < j PROVE score[o[i]] >= score[o[j]]
  <2>0. i + 1 .. n \subseteq Nat
    OBVIOUS
  <2>1. PICK less \in SUBSET Nat : less = {k \in i + 1 .. n : ~(score[o[i]] >= score[o[k]])}
    BY <2>0
  <2> SUFFICES ASSUME less # {} PROVE FALSE
    BY <1>8, <2>1
  <2>2. PICK k \in less : \A l \in less : k <= l
    BY LeastOf
  <2>3. k \in i + 1 .. n /\ k \in 2 .. n /\ k - 1 \in 1 .. n /\ k - 1 >= i
    BY <2>1, <2>2
  <2>4. PICK a \in Nat, b \in Nat, c \in Nat : a = score[o[i]] /\ b = score[o[k - 1]] /\ c = score[o[k]]
    BY <1>2, <2>3
  <2>5. a >= b
    <3>1. CASE k - 1 = i
      BY <2>4, <3>1
    <3>2. CASE k - 1 # i
      <4>1. k - 1 \in i + 1 .. n /\ k - 1 \notin less
        BY <2>2, <2>3, <3>2
      <4> QED
        BY <2>1, <2>4, <4>1
    <3> QED
      BY <3>1, <3>2
  <2>6. b >= c
    BY <1>4, <2>3, <2>4
  <2> QED
    BY <2>1, <2>2, <2>4, <2>5, <2>6
<1>9. ASSUME NEW i \in 1 .. n, NEW x \in among, Dominates(x, o[i]) PROVE \E j \in 1 .. i - 1 : o[j] = x
  <2>1. o[i] \in S
    BY <1>2
  <2>2. x \in S
    BY <1>9, <2>1 DEF Upward
  <2>3. PICK j \in 1 .. n : o[j] = x
    BY <1>6, <2>2
  <2>4. score[o[j]] > score[o[i]] /\ score[o[j]] \in Nat /\ score[o[i]] \in Nat
    BY <1>9, <2>1, <2>2, <2>3
  <2>5. ~(i < j) /\ i # j
    BY <1>8, <2>4
  <2> QED
    BY <2>3, <2>5
<1> QED
  BY <1>2, <1>3, <1>7, <1>9 DEF Ranking

LEMMA CutList ==
  ASSUME NEW S, NEW o \in Seq(S), NEW n \in Nat
  PROVE  /\ Cut(o, n) \in Seq(S) /\ DOMAIN Cut(o, n) = 1 .. Min({n, Len(o)})
         /\ DOMAIN Cut(o, n) \subseteq DOMAIN o
         /\ \A i \in DOMAIN Cut(o, n) : Cut(o, n)[i] = o[i]
         /\ Len(o) \in Nat /\ DOMAIN o = 1 .. Len(o)
<1>1. PICK len \in Nat : len = Len(o) /\ DOMAIN o = 1 .. len
  BY LenProperties
<1>2. PICK m \in Nat : m = Min({n, Len(o)}) /\ m <= len
  BY <1>1, LesserGreater
<1>3. \A i \in 1 .. m : o[i] \in S
  BY <1>1, <1>2, ElementOfSeq
<1>4. PICK cut : cut = SubSeq(o, 1, m)
  OBVIOUS
<1>5. cut \in Seq(S) /\ Len(cut) = IF 1 <= m THEN m - 1 + 1 ELSE 0
  BY <1>3, <1>4, SubSeqProperties
<1>6. \A i \in 1 .. m - 1 + 1 : cut[i] = o[1 + i - 1]
  BY <1>3, <1>4, SubSeqProperties
<1>7. DOMAIN cut = 1 .. m /\ \A i \in 1 .. m : cut[i] = o[i]
  <2>1. Len(cut) = m /\ DOMAIN cut = 1 .. Len(cut)
    BY <1>5, LenProperties
  <2> QED
    BY <1>6, <2>1
<1>8. cut = Cut(o, n)
  BY <1>2, <1>4 DEF Cut
<1>9. /\ cut \in Seq(S) /\ DOMAIN cut = 1 .. Min({n, Len(o)}) /\ DOMAIN cut \subseteq DOMAIN o
      /\ \A i \in DOMAIN cut : cut[i] = o[i]
  <2>1. 1 .. m \subseteq 1 .. len
    BY <1>2
  <2> QED
    BY <1>1, <1>2, <1>5, <1>7, <2>1
<1> QED
  BY <1>1, <1>8, <1>9

LEMMA CutRanking ==
  ASSUME NEW o, NEW among, Ranking(o, among), NEW n \in Nat
  PROVE  Ranking(Cut(o, n), among) /\ ToSet(Cut(o, n)) \subseteq ToSet(o)
<1>1. PICK cut \in Seq(Art) : cut = Cut(o, n)
  BY CutList DEF Ranking
<1>2. PICK m \in Nat, len \in Nat : /\ DOMAIN cut = 1 .. m /\ DOMAIN o = 1 .. len /\ m <= len
                                    /\ \A i \in 1 .. m : cut[i] = o[i]
  <2>1. /\ Len(o) \in Nat /\ DOMAIN o = 1 .. Len(o) /\ DOMAIN cut = 1 .. Min({n, Len(o)})
        /\ \A i \in DOMAIN cut : cut[i] = o[i]
    BY <1>1, CutList DEF Ranking
  <2>2. PICK len \in Nat : len = Len(o)
    BY <2>1
  <2>3. PICK m \in Nat : m = Min({n, Len(o)}) /\ m <= len
    BY <2>2, LesserGreater
  <2>4. DOMAIN cut = 1 .. m /\ DOMAIN o = 1 .. len /\ \A i \in 1 .. m : cut[i] = o[i]
    BY <2>1, <2>2, <2>3
  <2> QED
    BY <2>3, <2>4
<1>3. \A i \in 1 .. m : \A j \in 1 .. i - 1 : j \in 1 .. m
  OBVIOUS
<1>4. \A i, j \in DOMAIN cut : cut[i] = cut[j] => i = j
  BY <1>2 DEF Ranking
<1>5. \A i \in DOMAIN cut : \A x \in among : Dominates(x, cut[i]) => \E j \in 1 .. i - 1 : cut[j] = x
  <2> SUFFICES ASSUME NEW i \in 1 .. m, NEW x \in among, Dominates(x, cut[i])
               PROVE  \E j \in 1 .. i - 1 : cut[j] = x
    BY <1>2
  <2>1. i \in DOMAIN o /\ cut[i] = o[i]
    BY <1>2
  <2>2. PICK j \in 1 .. i - 1 : o[j] = x
    BY <2>1 DEF Ranking
  <2> QED
    BY <1>2, <1>3, <2>2
<1>6. ToSet(cut) \subseteq ToSet(o)
  BY <1>2 DEF ToSet
<1> QED
  BY <1>1, <1>4, <1>5, <1>6 DEF Ranking

LEMMA RankingUpward ==
  ASSUME NEW o, NEW among, Ranking(o, among)
  PROVE  Upward(ToSet(o), among) /\ ToSet(o) \subseteq Art
<1>1. PICK len \in Nat : DOMAIN o = 1 .. len
  BY LenProperties DEF Ranking
<1>2. \A i \in 1 .. len : o[i] \in Art
  BY <1>1, LenProperties DEF Ranking
<1>3. ASSUME NEW i \in 1 .. len, NEW x \in among, Dominates(x, o[i]) PROVE \E j \in 1 .. len : o[j] = x
  BY <1>1, <1>3 DEF Ranking
<1> QED
  BY <1>1, <1>2, <1>3 DEF Upward, ToSet

-----------------------------------------------------------------------------
(* The artist limit.                                                       *)

\* Where a place is among the first, the places before it are too.
LEMMA BeforeKind ==
  ASSUME NEW n \in Nat, NEW places \in SUBSET (1 .. n), NEW m \in Nat
  PROVE  /\ \A i : Before(places, i) \in Nat
         /\ \A i, j \in 1 .. n : i <= j => Before(places, i) <= Before(places, j)
         /\ Before(places, 1) = 0
         /\ First(places, m) \subseteq places
         /\ \A i \in places : \A j \in First(places, m) : i < j => i \in First(places, m)
<1>0. \A l \in places : l \in Nat /\ ~(l < 1)
  OBVIOUS
<1>1. \A T \in SUBSET places : IsFiniteSet(T) /\ Cardinality(T) \in Nat
  <2>1. IsFiniteSet(1 .. n)
    BY FS_Interval
  <2> QED
    BY <2>1, FS_Subset, FS_CardinalityType
<1>2. \A i : Before(places, i) \in Nat
  <2> SUFFICES ASSUME NEW i PROVE Before(places, i) \in Nat
    OBVIOUS
  <2>1. {j \in places : j < i} \in SUBSET places
    OBVIOUS
  <2> QED
    BY <1>1, <2>1 DEF Before
<1>3. ASSUME NEW i \in 1 .. n, NEW j \in 1 .. n, i <= j PROVE Before(places, i) <= Before(places, j)
  <2>1. PICK a \in SUBSET places, b \in SUBSET places :
          a = {l \in places : l < i} /\ b = {l \in places : l < j}
    OBVIOUS
  <2>2. a \subseteq b
    <3>1. \A l \in places : l < i => l < j
      BY <1>0, <1>3
    <3> QED
      BY <2>1, <3>1
  <2>3. Cardinality(a) <= Cardinality(b)
    BY <1>1, <2>2, FS_Subset
  <2> QED
    BY <2>1, <2>3 DEF Before
<1>4. Before(places, 1) = 0
  <2>1. {j \in places : j < 1} = {}
    BY <1>0
  <2> QED
    BY <2>1, FS_EmptySet DEF Before
<1>5. First(places, m) \subseteq places
  BY DEF First
<1>6. ASSUME NEW i \in places, NEW j \in First(places, m), i < j PROVE i \in First(places, m)
  <2>1. j \in places /\ Before(places, j) < m
    BY DEF First
  <2>2. Before(places, i) <= Before(places, j)
    BY <1>3, <1>6, <2>1
  <2> QED
    BY <1>2, <2>1, <2>2 DEF First
<1> QED
  BY <1>2, <1>3, <1>4, <1>5, <1>6

\* No more works than places.
LEMMA WorksOfPlaces ==
  ASSUME NEW o, NEW places \in SUBSET DOMAIN o, IsFiniteSet(places), NEW works, works = {o[i] : i \in places}
  PROVE  /\ IsFiniteSet(works) /\ Cardinality(works) \in Nat /\ Cardinality(works) <= Cardinality(places)
         /\ (\A i, j \in places : o[i] = o[j] => i = j) => Cardinality(works) = Cardinality(places)
<1>1. PICK f : f = [i \in places |-> o[i]]
  OBVIOUS
<1>2. f \in Surjection(places, works)
  BY <1>1 DEF Surjection
<1>3. /\ IsFiniteSet(works) /\ Cardinality(works) <= Cardinality(places)
      /\ Cardinality(works) = Cardinality(places) <=> f \in Injection(places, works)
  BY <1>2, FS_Surjection
<1>4. ASSUME \A i, j \in places : o[i] = o[j] => i = j PROVE f \in Injection(places, works)
  BY <1>1, <1>4 DEF Injection, IsInjective
<1> QED
  BY <1>3, <1>4, FS_CardinalityType

\* What the artist limit leaves of a ranking: a work that dominates a hit and is
\* not before it was passed over when its artist already had `most` hits.
LimitedList(r, o, among, most) ==
  /\ r \in Seq(Art) /\ \A i, j \in DOMAIN r : r[i] = r[j] => i = j
  /\ \A i \in DOMAIN r : \A x \in among :
       Dominates(x, r[i]) =>
         \/ \E j \in 1 .. i - 1 : r[j] = x
         \/ Cardinality({y \in {r[j] : j \in 1 .. i - 1} : by[y] = by[x]}) >= most
  /\ \A artist : Cardinality({y \in ToSet(r) : by[y] = artist}) <= most
  /\ o # <<>> => r # <<>> /\ r[1] = o[1]
  /\ ToSet(r) \subseteq ToSet(o)

LEMMA Diversified ==
  ASSUME FusionTypes, NEW among \in SUBSET Art, NEW o, Ranking(o, among),
         NEW k \in Nat \ {0}, NEW most \in Nat \ {0}, NEW r, r = Diversify(o, k, most)
  PROVE  LimitedList(r, o, among, most)
<1>1. PICK n \in Nat : DOMAIN o = 1 .. n /\ (o # <<>> => 1 <= n) /\ \A i \in 1 .. n : o[i] \in Art
  <2>1. o \in Seq(Art)
    BY DEF Ranking
  <2>2. Len(o) \in Nat /\ DOMAIN o = 1 .. Len(o) /\ (Len(o) = 0 <=> o = <<>>)
    BY <2>1, LenProperties, EmptySeq
  <2>3. \A i \in 1 .. Len(o) : o[i] \in Art
    BY <2>1, ElementOfSeq
  <2>4. PICK len \in Nat : len = Len(o)
    BY <2>2
  <2>5. len # 0 => 1 <= len
    OBVIOUS
  <2> QED
    BY <2>2, <2>3, <2>4, <2>5
<1>2. PICK early \in SUBSET (1 .. n) : early = {i \in DOMAIN o : i \in First(OfArtist(o, by[o[i]]), most)}
  BY <1>1
<1>3. PICK kept \in SUBSET early : kept = First(early, k)
  BY BeforeKind, <1>1
<1>4. r = Picked(o, kept)
  BY <1>2, <1>3 DEF Diversify
<1>5. PICK many \in Nat : many = Cardinality(kept) /\ IsFiniteSet(kept)
  BY PlacesOf
<1>6. PICK at \in [1 .. many -> kept] :
        /\ \A i \in kept : \E l \in 1 .. many : at[l] = i
        /\ \A l, m \in 1 .. many : l < m => at[l] < at[m]
        /\ r = [l \in 1 .. many |-> o[at[l]]]
  <2>1. PICK at \in [1 .. Cardinality(kept) -> kept] :
          /\ \A i \in kept : \E l \in 1 .. Cardinality(kept) : at[l] = i
          /\ \A l, m \in 1 .. Cardinality(kept) : l < m => at[l] < at[m]
          /\ \A l \in 1 .. Cardinality(kept) : Before(kept, at[l]) = l - 1
          /\ \A hits : Picked(hits, kept) = [l \in 1 .. Cardinality(kept) |-> hits[at[l]]]
    <3>1. kept \in SUBSET (1 .. n)
      OBVIOUS
    <3> QED
      BY <3>1, PlacesOf, Zenon
  <2>2. at \in [1 .. many -> kept] /\ \A i \in kept : \E l \in 1 .. many : at[l] = i
    BY <1>5, <2>1
  <2>3. \A l, m \in 1 .. many : l < m => at[l] < at[m]
    BY <1>5, <2>1
  <2>4. Picked(o, kept) = [l \in 1 .. Cardinality(kept) |-> o[at[l]]]
    BY <2>1
  <2>5. r = [l \in 1 .. many |-> o[at[l]]]
    BY <1>4, <1>5, <2>4
  <2> QED
    BY <2>2, <2>3, <2>5
<1>7. kept \subseteq 1 .. n /\ \A i \in kept : i \in Nat /\ 1 <= i
  OBVIOUS
<1>8. r \in Seq(Art) /\ DOMAIN r = 1 .. many /\ Len(r) = many
  <2>1. r \in [1 .. many -> Art]
    BY <1>1, <1>6, <1>7
  <2>2. r \in Seq(Art)
    BY <2>1, SeqDef
  <2>3. Len(r) \in Nat /\ DOMAIN r = 1 .. Len(r)
    BY <2>2, LenProperties
  <2>4. 1 .. many = 1 .. Len(r)
    BY <2>1, <2>3
  <2> QED
    BY <2>1, <2>2, <2>3, <2>4
<1>9. \A i, j \in 1 .. n : o[i] = o[j] => i = j
  BY <1>1 DEF Ranking
<1>10. \A i, j \in DOMAIN r : r[i] = r[j] => i = j
  <2> SUFFICES ASSUME NEW i \in 1 .. many, NEW j \in 1 .. many, r[i] = r[j] PROVE i = j
    BY <1>8
  <2>1. PICK a \in kept, b \in kept : a = at[i] /\ b = at[j]
    BY <1>6
  <2>2. o[a] = o[b] /\ a \in 1 .. n /\ b \in 1 .. n
    BY <1>6, <1>7, <2>1
  <2>3. a = b /\ a \in Nat
    BY <1>9, <2>2
  <2>4. ~(i < j) /\ ~(j < i)
    <3>1. ~(a < b) /\ ~(b < a)
      BY <2>3
    <3> QED
      BY <1>6, <2>1, <3>1
  <2> QED
    BY <2>4
<1>11. \A artist : OfArtist(o, artist) \in SUBSET (1 .. n) /\ OfArtist(o, artist) \subseteq DOMAIN o
  BY <1>1 DEF OfArtist
\* A kept place that is before the l-th is one of the first l - 1.
<1>12. ASSUME NEW l \in 1 .. many, NEW i \in kept, i < at[l] PROVE \E m \in 1 .. l - 1 : r[m] = o[i]
  <2>1. PICK m \in 1 .. many : at[m] = i
    BY <1>6
  <2>2. ~(l < m) /\ l # m
    <3>1. PICK c \in kept : c = at[l] /\ c \in Nat /\ i \in Nat
      BY <1>6, <1>7
    <3>2. ~(c < i) /\ c # i
      BY <1>12, <3>1
    <3> QED
      BY <1>6, <2>1, <3>1, <3>2
  <2>3. m \in 1 .. l - 1
    BY <2>2
  <2> QED
    BY <1>6, <2>1, <2>3
\* An early place that is before a kept one is kept.
<1>13. ASSUME NEW i \in early, NEW j \in kept, i < j PROVE i \in kept
  BY <1>3, <1>13, BeforeKind
<1>14. ASSUME NEW l \in 1 .. many, NEW x \in among, Dominates(x, r[l]),
              ~\E j \in 1 .. l - 1 : r[j] = x
       PROVE  Cardinality({y \in {r[j] : j \in 1 .. l - 1} : by[y] = by[x]}) >= most
  <2>1. PICK q \in kept : q = at[l] /\ r[l] = o[q] /\ q \in 1 .. n
    BY <1>6, <1>7
  <2>2. PICK p \in 1 .. q - 1 : o[p] = x
    BY <1>1, <1>14, <2>1 DEF Ranking
  <2>3. p \in 1 .. n /\ p < q
    BY <2>1, <2>2
  <2>4. p \notin early
    BY <1>12, <1>13, <1>14, <2>1, <2>2, <2>3
  <2>5. PICK own \in SUBSET (1 .. n) : own = OfArtist(o, by[x])
    BY <1>11
  <2>6. p \in own /\ p \notin First(own, most)
    BY <1>1, <1>2, <2>2, <2>3, <2>4, <2>5 DEF OfArtist
  <2>7. PICK ahead \in SUBSET (1 .. n) : ahead = {i \in own : i < p} /\ ahead \subseteq own
    OBVIOUS
  <2>8. Cardinality(ahead) >= most
    <3>1. Before(own, p) \in Nat /\ ~(Before(own, p) < most)
      BY <2>6, BeforeKind DEF First
    <3> QED
      BY <2>7, <3>1 DEF Before
  <2>9. PICK full \in SUBSET ahead :
          full = First(ahead, most) /\ Cardinality(full) = most /\ IsFiniteSet(full)
    BY <2>8, FirstOf, BeforeKind
  <2>10. \A i \in full : i \in First(own, most)
    <3> SUFFICES ASSUME NEW i \in full PROVE Before(own, i) < most
      BY <2>7 DEF First
    <3>1. Before(ahead, i) < most
      BY <2>9 DEF First
    <3>2. i < p /\ i \in Nat /\ \A j \in own : j \in Nat
      BY <2>7
    <3>3. \A j \in own : j < i => j < p
      BY <2>3, <3>2
    <3>4. {j \in own : j < i} = {j \in ahead : j < i}
      BY <2>7, <3>3
    <3> QED
      BY <3>1, <3>4 DEF Before
  <2>11. \A i \in full : i \in kept /\ i < q /\ by[o[i]] = by[x]
    <3> SUFFICES ASSUME NEW i \in full PROVE i \in kept /\ i < q /\ by[o[i]] = by[x]
      OBVIOUS
    <3>1. i \in own /\ i < p /\ i \in 1 .. n
      BY <2>7
    <3>2. by[o[i]] = by[x]
      BY <2>5, <3>1 DEF OfArtist
    <3>3. i \in early
      BY <1>1, <1>2, <2>5, <2>10, <3>1, <3>2
    <3>4. i < q
      BY <2>1, <2>3, <3>1
    <3> QED
      BY <1>13, <3>2, <3>3, <3>4
  <2>12. PICK works : works = {o[i] : i \in full}
    OBVIOUS
  <2>13. Cardinality(works) = most
    <3>1. full \in SUBSET DOMAIN o /\ \A i, j \in full : o[i] = o[j] => i = j
      BY <1>1, <1>9
    <3> QED
      BY <2>9, <2>12, <3>1, WorksOfPlaces
  <2>14. PICK there : there = {y \in {r[j] : j \in 1 .. l - 1} : by[y] = by[x]}
    OBVIOUS
  <2>15. works \subseteq there
    BY <1>12, <2>1, <2>11, <2>12, <2>14
  <2>16. IsFiniteSet(there)
    <3>1. 1 .. l - 1 \in SUBSET DOMAIN r /\ IsFiniteSet(1 .. l - 1)
      <4>1. 1 .. l - 1 \subseteq 1 .. many /\ l - 1 \in Int
        OBVIOUS
      <4>2. IsFiniteSet(1 .. l - 1)
        BY <4>1, FS_Interval
      <4> QED
        BY <1>8, <4>1, <4>2
    <3>2. IsFiniteSet({r[j] : j \in 1 .. l - 1})
      BY <3>1, WorksOfPlaces
    <3> QED
      BY <2>14, <3>2, FS_Subset
  <2>17. Cardinality(there) \in Nat /\ Cardinality(works) <= Cardinality(there)
    BY <2>15, <2>16, FS_Subset, FS_CardinalityType
  <2> QED
    BY <2>13, <2>14, <2>17
<1>15. ASSUME NEW artist PROVE Cardinality({y \in ToSet(r) : by[y] = artist}) <= most
  <2>1. PICK own \in SUBSET (1 .. n) : own = OfArtist(o, artist)
    BY <1>11
  <2>2. PICK first \in SUBSET (1 .. n) :
          /\ first = First(own, most) /\ IsFiniteSet(first)
          /\ Cardinality(first) \in Nat /\ Cardinality(first) <= most
    BY <2>1, FirstOf, BeforeKind
  <2>3. PICK works : works = {o[i] : i \in first}
    OBVIOUS
  <2>4. IsFiniteSet(works) /\ Cardinality(works) \in Nat /\ Cardinality(works) <= Cardinality(first)
    BY <1>1, <2>2, <2>3, WorksOfPlaces
  <2>5. PICK there : there = {y \in ToSet(r) : by[y] = artist}
    OBVIOUS
  <2>6. ASSUME NEW y \in there PROVE y \in works
    <3>1. PICK l \in 1 .. many : y = r[l] /\ by[r[l]] = artist
      BY <1>8, <2>5 DEF ToSet
    <3>2. PICK q \in early : q = at[l] /\ y = o[q] /\ by[o[q]] = artist
      <4>1. at[l] \in kept /\ r[l] = o[at[l]]
        BY <1>6
      <4>2. at[l] \in early /\ y = o[at[l]] /\ by[o[at[l]]] = artist
        BY <3>1, <4>1
      <4> QED
        BY <4>2
    <3>3. q \in First(own, most)
      BY <1>2, <2>1, <3>2
    <3> QED
      BY <2>2, <2>3, <3>2, <3>3
  <2>7. Cardinality(there) \in Nat /\ Cardinality(there) <= Cardinality(works)
    BY <2>4, <2>6, FS_Subset, FS_CardinalityType
  <2> QED
    BY <2>2, <2>4, <2>5, <2>7
<1>16. ASSUME o # <<>> PROVE r # <<>> /\ r[1] = o[1]
  <2>1. 1 \in 1 .. n
    BY <1>1, <1>16
  <2>2. 1 \in OfArtist(o, by[o[1]]) /\ Before(OfArtist(o, by[o[1]]), 1) = 0
    BY <1>1, <1>11, <2>1, BeforeKind DEF OfArtist
  <2>3. 1 \in early /\ Before(early, 1) = 0
    <3>1. 1 \in First(OfArtist(o, by[o[1]]), most)
      <4>1. 0 < most
        OBVIOUS
      <4> QED
        BY <2>2, <4>1 DEF First
    <3>2. 1 \in early
      BY <1>1, <1>2, <2>1, <3>1
    <3> QED
      BY <3>2, BeforeKind
  <2>4. 1 \in kept
    BY <1>3, <2>3 DEF First
  <2>5. PICK l \in 1 .. many : at[l] = 1
    BY <1>6, <2>4
  <2>6. 1 \in 1 .. many /\ at[1] \in kept
    BY <1>6, <2>5
  <2>7. ~(1 < l)
    <3>1. PICK c \in kept : c = at[1]
      BY <2>6
    <3>2. c \in Nat /\ ~(c < 1)
      BY <1>7
    <3> QED
      BY <1>6, <2>5, <2>6, <3>1, <3>2
  <2>8. l = 1
    BY <2>7
  <2> QED
    BY <1>6, <1>8, <2>5, <2>6, <2>8, EmptySeq
<1>17. ToSet(r) \subseteq ToSet(o)
  <2>1. \A l \in 1 .. many : at[l] \in 1 .. n /\ r[l] = o[at[l]]
    BY <1>6, <1>7
  <2> QED
    BY <1>1, <1>8, <2>1 DEF ToSet
<1>18. \A i \in DOMAIN r : \A x \in among :
         Dominates(x, r[i]) =>
           \/ \E j \in 1 .. i - 1 : r[j] = x
           \/ Cardinality({y \in {r[j] : j \in 1 .. i - 1} : by[y] = by[x]}) >= most
  BY <1>8, <1>14
<1> QED
  BY <1>8, <1>10, <1>15, <1>16, <1>17, <1>18 DEF LimitedList

-----------------------------------------------------------------------------
(* The lists the backends make are rankings.                               *)

LEMMA Falling ==
  ASSUME NEW a \in Nat, NEW b \in Nat, NEW c \in Nat, NEW d \in Nat, a >= c, b >= d, a > c \/ b > d
  PROVE  a + b \in Nat /\ c + d \in Nat /\ a + b > c + d
OBVIOUS

\* By one vector
LEMMA PlaceRanking ==
  ASSUME FusionTypes, NEW list \in {"clip", "style"}, NEW S \in SUBSET Art, NEW among \in SUBSET Art,
         Upward(S, among), NEW o \in ByPlace(list, S)
  PROVE  Ranking(o, among)
<1>1. PICK score : score = [x \in S |-> Size - place[list][x]]
  OBVIOUS
<1>2. \A x \in S : place[list][x] \in Nat /\ place[list][x] <= Size
  BY Places
<1>3. Size \in Nat
  BY Arts
<1>4. score \in [S -> Nat]
  <2>1. \A x \in S : Size - place[list][x] \in Nat
    BY <1>2, <1>3
  <2> QED
    BY <1>1, <2>1
<1>5. ASSUME NEW x \in S, NEW y \in S, Dominates(x, y) PROVE score[x] > score[y]
  <2>1. place[list][x] < place[list][y]
    BY <1>5 DEF Dominates
  <2> QED
    BY <1>1, <1>2, <1>3, <2>1
<1>6. o \in Ordered(S, score)
  BY <1>1 DEF ByPlace
<1> QED
  BY <1>4, <1>5, <1>6, OrderedRanking

\* By the ranks of the rows among themselves
LEMMA ExactRanking ==
  ASSUME FusionTypes, NEW rows \in SUBSET Art, NEW among \in SUBSET Art, Upward(rows, among),
         NEW hits \in ExactFusion(rows)
  PROVE  Ranking(hits, among)
<1>1. PICK score : score = [x \in rows |-> Share(RankIn("clip", rows, x)) + Share(RankIn("style", rows, x))]
  OBVIOUS
<1>2. ASSUME NEW list \in {"clip", "style"}, NEW x \in rows, NEW y \in rows, Dominates(x, y)
      PROVE  Share(RankIn(list, rows, x)) > Share(RankIn(list, rows, y))
  <2>1. place[list][x] < place[list][y]
    BY <1>2 DEF Dominates
  <2>2. RankIn(list, rows, x) < RankIn(list, rows, y)
    BY <2>1, RankFalls
  <2> QED
    BY <2>2, RankKind, ShareFalls
<1>3. ASSUME NEW list, NEW x PROVE Share(RankIn(list, rows, x)) \in Nat
  BY RankKind, ShareFalls
<1>4. score \in [rows -> Nat]
  <2>1. \A x \in rows : Share(RankIn("clip", rows, x)) + Share(RankIn("style", rows, x)) \in Nat
    BY <1>3
  <2> QED
    BY <1>1, <2>1
<1>5. ASSUME NEW x \in rows, NEW y \in rows, Dominates(x, y) PROVE score[x] > score[y]
  <2>1. PICK a \in Nat, b \in Nat, c \in Nat, d \in Nat :
          /\ a = Share(RankIn("clip", rows, x)) /\ b = Share(RankIn("style", rows, x))
          /\ c = Share(RankIn("clip", rows, y)) /\ d = Share(RankIn("style", rows, y))
    BY <1>3
  <2>2. a > c /\ b > d
    BY <1>2, <1>5, <2>1
  <2>3. a + b > c + d
    BY <2>2
  <2> QED
    BY <1>1, <2>1, <2>3
<1>6. PICK o \in Ordered(rows, score) : hits = Cut(o, FusionLimit)
  BY <1>1 DEF ExactFusion
<1>7. Ranking(o, among)
  BY <1>4, <1>5, OrderedRanking
<1>8. FusionLimit \in Nat
  BY FusionAssumption
<1> QED
  BY <1>6, <1>7, <1>8, CutRanking

LEMMA ApproximateFalls ==
  ASSUME FusionTypes, NEW list \in {"clip", "style"}, NEW x \in Art, NEW y \in Art,
         place[list][x] < place[list][y]
  PROVE  /\ Share(ApproximateRank(list, x)) \in Nat /\ Share(ApproximateRank(list, y)) \in Nat
         /\ Share(ApproximateRank(list, x)) >= Share(ApproximateRank(list, y))
         /\ y \in Nearest(list, Art, CandidateLimit) =>
              Share(ApproximateRank(list, x)) > Share(ApproximateRank(list, y))
<1>1. PICK end \in 1 .. Size : end = CandidateLimit
  <2>1. PrefetchLimit \in Nat \ {0} /\ Size \in Nat \ {0}
    BY FusionAssumption
  <2> QED
    BY <2>1, LesserGreater DEF CandidateLimit
<1>2. Size \in Nat
  BY Arts
<1>3. PICK near \in SUBSET Art : near = Nearest(list, Art, end)
  BY DEF Nearest
<1>4. PICK a \in 1 .. Size + 1, b \in 1 .. Size + 1 : a = RankIn(list, Art, x) /\ b = RankIn(list, Art, y)
  BY RankKind
<1>5. a < b
  BY <1>4, RankFalls
<1>6. (x \in near <=> a <= end) /\ (y \in near <=> b <= end)
  BY <1>3, <1>4 DEF Nearest
<1>7. PICK p \in 1 .. Size + 1, q \in 1 .. Size + 1 :
        /\ p = (IF x \in near THEN a ELSE end + 1) /\ q = (IF y \in near THEN b ELSE end + 1)
  <2>1. end + 1 \in 1 .. Size + 1
    BY <1>2
  <2> QED
    BY <2>1
<1>8. p = ApproximateRank(list, x) /\ q = ApproximateRank(list, y)
  BY <1>1, <1>3, <1>4, <1>7 DEF ApproximateRank, MissingRank
<1>9. p <= q /\ (y \in near => p < q)
  BY <1>5, <1>6, <1>7
<1> QED
  BY <1>1, <1>3, <1>8, <1>9, ShareFalls

LEMMA CandidateRows ==
  ASSUME FusionTypes, NEW rows \in CandidateUnion
  PROVE  rows \in SUBSET Art /\ Upward(rows, Art)
<1>1. PICK end \in Int : end = CandidateLimit
  <2>1. PrefetchLimit \in Nat \ {0} /\ Size \in Nat \ {0}
    BY FusionAssumption
  <2> QED
    BY <2>1, LesserGreater DEF CandidateLimit
<1>2. PICK found \in SUBSET Art :
        /\ found = Nearest("clip", Art, CandidateLimit) \union Nearest("style", Art, CandidateLimit)
        /\ Upward(found, Art)
  BY <1>1, BothUpward DEF Nearest
<1>3. PICK score :
        score = [x \in found |-> Share(ApproximateRank("clip", x)) + Share(ApproximateRank("style", x))]
  OBVIOUS
<1>4. PICK o \in Ordered(found, score) : rows = ToSet(Cut(o, RerankLimit))
  BY <1>2, <1>3 DEF CandidateUnion
<1>5. ASSUME NEW x \in found, NEW list \in {"clip", "style"} PROVE Share(ApproximateRank(list, x)) \in Nat
  <2>1. end + 1 \in 1 .. Size + 1
    <3>1. PrefetchLimit \in Nat \ {0} /\ Size \in Nat \ {0}
      BY FusionAssumption
    <3>2. end \in 1 .. Size
      BY <1>1, <3>1, LesserGreater DEF CandidateLimit
    <3> QED
      BY <3>1, <3>2
  <2>2. ApproximateRank(list, x) \in 1 .. Size + 1
    BY <1>1, <2>1, RankKind DEF ApproximateRank, MissingRank
  <2> QED
    BY <2>2, ShareFalls
<1>6. score \in [found -> Nat]
  <2>1. \A x \in found : Share(ApproximateRank("clip", x)) + Share(ApproximateRank("style", x)) \in Nat
    BY <1>5
  <2> QED
    BY <1>3, <2>1
<1>7. ASSUME NEW x \in found, NEW y \in found, Dominates(x, y) PROVE score[x] > score[y]
  <2>1. PICK a \in Nat, b \in Nat, c \in Nat, d \in Nat :
          /\ a = Share(ApproximateRank("clip", x)) /\ b = Share(ApproximateRank("style", x))
          /\ c = Share(ApproximateRank("clip", y)) /\ d = Share(ApproximateRank("style", y))
    BY <1>5
  <2>2. place["clip"][x] < place["clip"][y] /\ place["style"][x] < place["style"][y] /\ x \in Art /\ y \in Art
    BY <1>7 DEF Dominates
  <2>3. a >= c /\ (y \in Nearest("clip", Art, CandidateLimit) => a > c)
    BY <2>1, <2>2, ApproximateFalls
  <2>4. b >= d /\ (y \in Nearest("style", Art, CandidateLimit) => b > d)
    BY <2>1, <2>2, ApproximateFalls
  <2>5. a > c \/ b > d
    BY <1>2, <2>3, <2>4
  <2>6. a + b > c + d
    BY <2>3, <2>4, <2>5, Falling
  <2> QED
    BY <1>3, <2>1, <2>6
<1>8. Ranking(o, Art)
  BY <1>2, <1>6, <1>7, OrderedRanking
<1>9. Ranking(Cut(o, RerankLimit), Art)
  <2>1. RerankLimit \in Nat
    BY FusionAssumption
  <2> QED
    BY <1>8, <2>1, CutRanking
<1> QED
  BY <1>4, <1>9, RankingUpward

\* By the ranks in the two lists, as far as they go
LEMMA FusedRanking ==
  ASSUME FusionTypes, NEW among \in SUBSET Art, NEW depth \in Int, NEW o \in FusedLists(among, depth)
  PROVE  Ranking(o, among)
<1>1. PICK found \in SUBSET Art :
        /\ found = Nearest("clip", among, depth) \union Nearest("style", among, depth)
        /\ Upward(found, among) /\ found \subseteq among
  <2>1. Nearest("clip", among, depth) \subseteq among /\ Nearest("style", among, depth) \subseteq among
    BY DEF Nearest
  <2>2. Upward(Nearest("clip", among, depth) \union Nearest("style", among, depth), among)
    BY BothUpward
  <2> QED
    BY <2>1, <2>2
<1>2. PICK score :
        score = [x \in found |-> Term("clip", among, depth, x) + Term("style", among, depth, x)]
  OBVIOUS
<1>3. o \in Ordered(found, score)
  BY <1>1, <1>2 DEF FusedLists
<1>4. ASSUME NEW x, NEW list PROVE Term(list, among, depth, x) \in Nat
  <2>1. Share(RankIn(list, among, x)) \in Nat
    BY RankKind, ShareFalls
  <2> QED
    BY <2>1 DEF Term
<1>5. score \in [found -> Nat]
  <2>1. \A x \in found : Term("clip", among, depth, x) + Term("style", among, depth, x) \in Nat
    BY <1>4
  <2> QED
    BY <1>2, <2>1
<1>6. ASSUME NEW list \in {"clip", "style"}, NEW x \in found, NEW y \in found, Dominates(x, y)
      PROVE  /\ Term(list, among, depth, x) >= Term(list, among, depth, y)
             /\ y \in Nearest(list, among, depth) => Term(list, among, depth, x) > Term(list, among, depth, y)
  <2>1. CASE y \in Nearest(list, among, depth)
    <3>1. x \in Nearest(list, among, depth)
      BY <1>1, <1>6, <2>1, NearestUpward
    <3>2. place[list][x] < place[list][y] /\ x \in among /\ y \in Art
      BY <1>1, <1>6 DEF Dominates
    <3>3. RankIn(list, among, x) < RankIn(list, among, y)
      BY <3>2, RankFalls
    <3>4. Share(RankIn(list, among, x)) > Share(RankIn(list, among, y))
      BY <3>3, RankKind, ShareFalls
    <3>5. Term(list, among, depth, x) > Term(list, among, depth, y)
      BY <2>1, <3>1, <3>4 DEF Term
    <3> QED
      BY <1>4, <3>5
  <2>2. CASE y \notin Nearest(list, among, depth)
    <3>1. Term(list, among, depth, y) = 0
      BY <2>2 DEF Term
    <3> QED
      BY <1>4, <2>2, <3>1
  <2> QED
    BY <2>1, <2>2
<1>7. ASSUME NEW x \in found, NEW y \in found, Dominates(x, y) PROVE score[x] > score[y]
  <2>1. PICK a \in Nat, b \in Nat, c \in Nat, d \in Nat :
          /\ a = Term("clip", among, depth, x) /\ b = Term("style", among, depth, x)
          /\ c = Term("clip", among, depth, y) /\ d = Term("style", among, depth, y)
    BY <1>4
  <2>2. a >= c /\ (y \in Nearest("clip", among, depth) => a > c)
    BY <1>6, <1>7, <2>1
  <2>3. b >= d /\ (y \in Nearest("style", among, depth) => b > d)
    BY <1>6, <1>7, <2>1
  <2>4. a > c \/ b > d
    BY <1>1, <2>2, <2>3
  <2>5. a + b > c + d
    BY <2>2, <2>3, <2>4, Falling
  <2> QED
    BY <1>2, <2>1, <2>5
<1> QED
  BY <1>1, <1>3, <1>5, <1>7, OrderedRanking

-----------------------------------------------------------------------------
(* The answers.                                                            *)

HasOf(hits, counted, artist) == {y \in ToSet(hits) \union counted : by[y] = artist}

\* NoDominatedHit of an answer yet to be returned
GoodAnswer(hits, among, quota, counted) ==
  /\ \A i \in DOMAIN hits : \A x \in among :
       Dominates(x, hits[i]) => \/ \E j \in 1 .. i - 1 : hits[j] = x
                                \/ Cardinality(HasOf(hits, counted, by[x])) >= quota
  /\ hits # <<>> => \A artist \in ArtistName : Cardinality(HasOf(hits, counted, artist)) <= quota

LEMMA ReturnedGood ==
  ASSUME NEW hits, NEW among, NEW quota, NEW counted, Returned(hits, among, quota, counted),
         UNCHANGED <<place, by, cap>>, GoodAnswer(hits, among, quota, counted)
  PROVE  NoDominatedHit'
<1>1. answer'.hits = hits /\ answer'.among = among /\ answer'.quota = quota /\ answer'.counted = counted
  BY DEF Returned
<1> QED
  BY <1>1 DEF NoDominatedHit, GoodAnswer, HasOf, Dominates

LEMMA LimitedGood ==
  ASSUME FusionTypes, NEW among \in SUBSET Art, NEW o, Ranking(o, among),
         NEW k \in Nat \ {0}, NEW most \in Nat \ {0}
  PROVE  GoodAnswer(Diversify(o, k, most), among, most, {})
<1>1. PICK r : r = Diversify(o, k, most)
  OBVIOUS
<1>2. /\ r \in Seq(Art)
      /\ \A i \in DOMAIN r : \A x \in among :
           Dominates(x, r[i]) =>
             \/ \E j \in 1 .. i - 1 : r[j] = x
             \/ Cardinality({y \in {r[j] : j \in 1 .. i - 1} : by[y] = by[x]}) >= most
      /\ \A artist : Cardinality({y \in ToSet(r) : by[y] = artist}) <= most
  <2>1. LimitedList(r, o, among, most)
    BY <1>1, Diversified
  <2> QED
    BY <2>1 DEF LimitedList
<1>3. PICK n \in Nat : DOMAIN r = 1 .. n /\ \A i \in 1 .. n : r[i] \in Art
  BY <1>2, LenProperties, ElementOfSeq
<1>4. \A artist : HasOf(r, {}, artist) = {y \in ToSet(r) : by[y] = artist}
  BY DEF HasOf
<1>5. ASSUME NEW i \in 1 .. n, NEW x \in among,
             Cardinality({y \in {r[j] : j \in 1 .. i - 1} : by[y] = by[x]}) >= most
      PROVE  Cardinality(HasOf(r, {}, by[x])) >= most
  <2>1. PICK before, whole : /\ before = {y \in {r[j] : j \in 1 .. i - 1} : by[y] = by[x]}
                             /\ whole = {y \in ToSet(r) : by[y] = by[x]}
    OBVIOUS
  <2>2. 1 .. i - 1 \subseteq 1 .. n
    OBVIOUS
  <2>3. before \subseteq whole /\ whole \in SUBSET Art
    BY <1>3, <2>1, <2>2 DEF ToSet
  <2>4. /\ IsFiniteSet(whole) /\ Cardinality(whole) \in Nat /\ Cardinality(before) \in Nat
        /\ Cardinality(before) <= Cardinality(whole)
    BY <2>3, Arts, FS_Subset, FS_CardinalityType
  <2>5. HasOf(r, {}, by[x]) = whole
    BY <1>4, <2>1
  <2>6. Cardinality(before) >= most
    BY <1>5, <2>1, Zenon
  <2> QED
    BY <2>4, <2>5, <2>6
<1>6. GoodAnswer(r, among, most, {})
  BY <1>2, <1>3, <1>4, <1>5 DEF GoodAnswer
<1> QED
  BY <1>1, <1>6

LEMMA UnlimitedGood ==
  ASSUME FusionTypes, NEW among \in SUBSET Art, NEW o, Ranking(o, among), NEW k \in Nat
  PROVE  GoodAnswer(Cut(o, k), among, Size, {})
<1>1. PICK cut : cut = Cut(o, k) /\ Ranking(cut, among)
  BY CutRanking
<1>2. ToSet(cut) \subseteq Art
  BY <1>1, RankingUpward
<1>3. \A artist : Cardinality(HasOf(cut, {}, artist)) <= Size
  <2>1. \A artist : HasOf(cut, {}, artist) \in SUBSET Art
    BY <1>2 DEF HasOf
  <2> QED
    BY <2>1, Arts
<1>4. GoodAnswer(cut, among, Size, {})
  BY <1>1, <1>3 DEF GoodAnswer, Ranking
<1> QED
  BY <1>1, <1>4

\* Without the artwork the search starts from, which is its own nearest, and maybe
\* without its artist's.
Others(same) == {x \in Art : Similar(x, same)}
Shown(found, same, k) == Cut(Picked(found, {i \in DOMAIN found : Similar(found[i], same)}), k)

LEMMA ArtworkGood ==
  ASSUME FusionTypes, QueryIsArtwork, NEW o, Ranking(o, Art), NEW k \in Nat, NEW big \in Nat \ {0},
         NEW most \in Nat \ {0}, NEW same \in BOOLEAN, NEW found, found = Diversify(o, big, most)
  PROVE  GoodAnswer(Shown(found, same, k), Others(same), most, {Probe})
<1>1. /\ found \in Seq(Art)
      /\ \A i \in DOMAIN found : \A x \in Art :
           Dominates(x, found[i]) =>
             \/ \E j \in 1 .. i - 1 : found[j] = x
             \/ Cardinality({y \in {found[j] : j \in 1 .. i - 1} : by[y] = by[x]}) >= most
      /\ \A artist : Cardinality({y \in ToSet(found) : by[y] = artist}) <= most
      /\ o # <<>> => found # <<>> /\ found[1] = o[1]
      /\ ToSet(found) \subseteq ToSet(o)
  <2>1. Art \in SUBSET Art
    OBVIOUS
  <2>2. LimitedList(found, o, Art, most)
    BY <2>1, Diversified
  <2> QED
    BY <2>2 DEF LimitedList
<1>2. PICK n \in Nat : DOMAIN found = 1 .. n /\ \A i \in 1 .. n : found[i] \in Art
  BY <1>1, LenProperties, ElementOfSeq
<1>3. PICK similar \in SUBSET (1 .. n) : similar = {i \in DOMAIN found : Similar(found[i], same)}
  BY <1>2
<1>4. PICK many \in Nat : many = Cardinality(similar)
  BY PlacesOf
<1>5. PICK shown : shown = Picked(found, similar)
  OBVIOUS
<1>6. PICK at \in [1 .. many -> similar] :
        /\ \A i \in similar : \E l \in 1 .. many : at[l] = i
        /\ \A l, m \in 1 .. many : l < m => at[l] < at[m]
        /\ shown = [l \in 1 .. many |-> found[at[l]]]
  <2>1. PICK at \in [1 .. Cardinality(similar) -> similar] :
          /\ \A i \in similar : \E l \in 1 .. Cardinality(similar) : at[l] = i
          /\ \A l, m \in 1 .. Cardinality(similar) : l < m => at[l] < at[m]
          /\ \A l \in 1 .. Cardinality(similar) : Before(similar, at[l]) = l - 1
          /\ \A hits : Picked(hits, similar) = [l \in 1 .. Cardinality(similar) |-> hits[at[l]]]
    BY PlacesOf, Zenon
  <2>2. at \in [1 .. many -> similar] /\ \A i \in similar : \E l \in 1 .. many : at[l] = i
    BY <1>4, <2>1
  <2>3. \A l, m \in 1 .. many : l < m => at[l] < at[m]
    BY <1>4, <2>1
  <2>4. Picked(found, similar) = [l \in 1 .. Cardinality(similar) |-> found[at[l]]]
    BY <2>1
  <2>5. shown = [l \in 1 .. many |-> found[at[l]]]
    BY <1>4, <1>5, <2>4
  <2> QED
    BY <2>2, <2>3, <2>5
<1>7. \A l \in 1 .. many : at[l] \in similar /\ at[l] \in 1 .. n /\ shown[l] = found[at[l]]
  BY <1>6
<1>8. shown \in Seq(Art)
  <2>1. shown \in [1 .. many -> Art]
    BY <1>2, <1>6, <1>7
  <2> QED
    BY <2>1, SeqDef
<1>9. PICK hits : hits = Cut(shown, k)
  OBVIOUS
<1>10. PICK m \in Nat : /\ DOMAIN hits = 1 .. m /\ 1 .. m \subseteq 1 .. many
                        /\ \A i \in 1 .. m : hits[i] = found[at[i]]
  <2>1. /\ DOMAIN hits = 1 .. Min({k, Len(shown)}) /\ DOMAIN hits \subseteq DOMAIN shown
        /\ \A i \in DOMAIN hits : hits[i] = shown[i]
        /\ Len(shown) \in Nat
    BY <1>8, <1>9, CutList
  <2>2. PICK m \in Nat : m = Min({k, Len(shown)})
    BY <2>1, LesserGreater
  <2>3. DOMAIN shown = 1 .. many
    BY <1>6
  <2>4. DOMAIN hits = 1 .. m
    BY <2>1, <2>2
  <2>5. 1 .. m \subseteq 1 .. many /\ \A i \in 1 .. m : hits[i] = shown[i]
    BY <2>1, <2>3, <2>4
  <2>6. \A i \in 1 .. m : hits[i] = found[at[i]]
    BY <1>7, <2>5
  <2> QED
    BY <2>4, <2>5, <2>6
<1>11. ASSUME NEW i \in 1 .. m PROVE Probe \in ToSet(found)
  <2>1. at[i] \in 1 .. n
    BY <1>7, <1>10
  <2>2. PICK p \in DOMAIN o : o[p] = found[at[i]]
    BY <1>1, <1>2, <2>1 DEF ToSet
  <2>3. PICK len \in Nat : DOMAIN o = 1 .. len /\ len = Len(o)
    BY LenProperties DEF Ranking
  <2>4. 1 \in DOMAIN o /\ o # <<>> /\ 1 \in 1 .. n
    BY <2>1, <2>2, <2>3
  <2>5. o[1] \in Art
    BY <2>3, <2>4, ElementOfSeq DEF Ranking
  <2>6. o[1] = Probe
    <3> SUFFICES ASSUME o[1] # Probe PROVE FALSE
      OBVIOUS
    <3>1. Probe \in Art /\ Probe = 1 /\ Art = 1 .. Size /\ Size \in Nat
      BY Arts DEF Probe
    <3>2. place["clip"][Probe] = 1 /\ place["style"][Probe] = 1
      BY <3>1 DEF FusionTypes, QueryIsArtwork
    <3>3. ASSUME NEW list \in {"clip", "style"} PROVE place[list][Probe] < place[list][o[1]]
      <4>1. place[list][o[1]] \in 1 .. Size /\ place[list][o[1]] # place[list][Probe]
        BY <2>5, <3>1, Places DEF FusionTypes
      <4> QED
        BY <3>1, <3>2, <4>1
    <3>4. Dominates(Probe, o[1])
      BY <3>3 DEF Dominates
    <3>5. \E j \in 1 .. 1 - 1 : o[j] = Probe
      BY <2>4, <3>1, <3>4 DEF Ranking
    <3> QED
      BY <3>5
  <2> QED
    BY <1>1, <1>2, <2>4, <2>6 DEF ToSet
<1>12. \A artist : HasOf(hits, {Probe}, artist) \in SUBSET Art
  <2>1. \A i \in 1 .. m : hits[i] \in Art
    BY <1>2, <1>7, <1>10
  <2>2. ToSet(hits) \subseteq Art
    BY <1>10, <2>1 DEF ToSet
  <2> QED
    BY <2>2, Arts DEF HasOf
<1>13. ASSUME hits # <<>>, NEW artist PROVE Cardinality(HasOf(hits, {Probe}, artist)) <= most
  <2>1. 1 \in 1 .. m
    <3>1. hits \in Seq(Art)
      BY <1>8, <1>9, CutList
    <3>2. Len(hits) # 0 /\ Len(hits) \in Nat /\ DOMAIN hits = 1 .. Len(hits)
      BY <1>13, <3>1, LenProperties, EmptySeq
    <3> QED
      BY <1>10, <3>2
  <2>2. Probe \in ToSet(found)
    BY <1>11, <2>1
  <2>3. ToSet(hits) \subseteq ToSet(found)
    <3>1. \A i \in 1 .. m : at[i] \in 1 .. n /\ hits[i] = found[at[i]]
      BY <1>7, <1>10
    <3>2. ASSUME NEW i \in 1 .. m PROVE hits[i] \in ToSet(found)
      <4>1. at[i] \in DOMAIN found /\ hits[i] = found[at[i]]
        BY <1>2, <3>1
      <4> QED
        BY <4>1 DEF ToSet
    <3>3. ASSUME NEW y \in ToSet(hits) PROVE \E i \in 1 .. m : y = hits[i]
      BY <1>10 DEF ToSet
    <3> QED
      BY <3>2, <3>3
  <2>4. PICK has \in SUBSET Art, all \in SUBSET Art :
          has = HasOf(hits, {Probe}, artist) /\ all = {y \in ToSet(found) : by[y] = artist}
    BY <1>2, <1>12 DEF ToSet
  <2>5. has \subseteq all
    BY <2>2, <2>3, <2>4 DEF HasOf
  <2>6. Cardinality(has) <= Cardinality(all) /\ Cardinality(has) \in Nat /\ Cardinality(all) \in Nat
    BY <2>5, Arts, FS_Subset
  <2>7. Cardinality(all) <= most
    BY <1>1, <2>4
  <2> QED
    BY <2>4, <2>6, <2>7
<1>14. ASSUME NEW i \in 1 .. m, NEW x \in Art, Similar(x, same), Dominates(x, hits[i]),
              ~\E j \in 1 .. i - 1 : hits[j] = x
       PROVE  Cardinality(HasOf(hits, {Probe}, by[x])) >= most
  <2>1. PICK q \in 1 .. n : q = at[i] /\ hits[i] = found[q]
    BY <1>7, <1>10
  <2>2. ASSUME NEW p \in similar, p < q PROVE \E j \in 1 .. i - 1 : hits[j] = found[p]
    <3>1. PICK l \in 1 .. many : at[l] = p
      BY <1>6
    <3>2. i \in 1 .. many /\ p \in Nat /\ ~(q < p) /\ q # p
      BY <1>10, <2>2
    <3>3. ~(i < l) /\ l # i
      BY <1>6, <2>1, <3>1, <3>2
    <3>4. l \in 1 .. i - 1 /\ l \in 1 .. m
      BY <3>3
    <3> QED
      BY <1>10, <3>1, <3>4
  <2>3. \A j \in 1 .. q - 1 : j \in 1 .. n /\ j < q
    OBVIOUS
  <2>4. ~\E j \in 1 .. q - 1 : found[j] = x
    BY <1>2, <1>3, <1>14, <2>2, <2>3
  <2>5. PICK before : before = {y \in {found[j] : j \in 1 .. q - 1} : by[y] = by[x]}
    OBVIOUS
  <2>6. Cardinality(before) >= most
    BY <1>1, <1>2, <1>14, <2>1, <2>4, <2>5
  <2>7. ASSUME NEW y \in before PROVE y \in HasOf(hits, {Probe}, by[x])
    <3>1. PICK j \in 1 .. q - 1 : y = found[j] /\ by[y] = by[x]
      BY <2>5
    <3>2. CASE y = Probe
      BY <3>1, <3>2 DEF HasOf
    <3>3. CASE y # Probe
      <4>1. Similar(y, same)
        BY <1>14, <3>1, <3>3 DEF Similar
      <4>2. j \in similar /\ j < q
        BY <1>2, <1>3, <2>3, <3>1, <4>1
      <4>3. PICK l \in 1 .. i - 1 : hits[l] = y
        BY <2>2, <3>1, <4>2
      <4>4. l \in DOMAIN hits
        BY <1>10
      <4> QED
        BY <3>1, <4>3, <4>4 DEF HasOf, ToSet
    <3> QED
      BY <3>2, <3>3
  <2>8. PICK has \in SUBSET Art : has = HasOf(hits, {Probe}, by[x])
    BY <1>12
  <2>9. before \in SUBSET has
    BY <2>7, <2>8
  <2>10. Cardinality(before) <= Cardinality(has) /\ Cardinality(has) \in Nat /\ Cardinality(before) \in Nat
    BY <2>9, Arts, FS_Subset
  <2> QED
    BY <2>6, <2>8, <2>10
<1>15. GoodAnswer(hits, Others(same), most, {Probe})
  BY <1>10, <1>13, <1>14 DEF GoodAnswer, Others
<1> QED
  BY <1>3, <1>5, <1>9, <1>15 DEF Shown

-----------------------------------------------------------------------------
(* The steps.                                                              *)

LEMMA FusionStart == FusionInit => FusionInv
<1> SUFFICES ASSUME FusionInit PROVE FusionInv
  OBVIOUS
<1>1. place \in [{"clip", "style"} -> [Art -> Art]]
  BY DEF FusionInit
<1>2. \A list \in {"clip", "style"} : \A x, y \in Art : place[list][x] = place[list][y] => x = y
  <2> SUFFICES ASSUME NEW list \in {"clip", "style"}, NEW x \in Art, NEW y \in Art,
                      place[list][x] = place[list][y]
               PROVE  x = y
    OBVIOUS
  <2>1. place[list] \in [Art -> Art] /\ IsInjective(place[list])
    BY DEF FusionInit
  <2> QED
    BY <2>1 DEF IsInjective
<1>3. FusionTypes
  BY <1>1, <1>2 DEF FusionInit, FusionTypes
<1>4. NoDominatedHit
  BY DEF FusionInit, NoAnswer, NoDominatedHit
<1> QED
  BY <1>3, <1>4 DEF FusionInv

LEMMA Counts ==
  ASSUME FusionTypes, NEW k \in TopK
  PROVE  /\ k \in Nat \ {0} /\ cap \in Nat \ {0} /\ k * cap \in Nat /\ Max({k + 1, k * cap}) \in Nat \ {0}
         /\ PrefetchLimit \in Int /\ FusionLimit \in Nat /\ k * cap \in Int
<1>1. /\ k \in Nat \ {0} /\ cap \in Nat \ {0} /\ PrefetchLimit \in Nat \ {0} /\ FusionLimit \in Nat \ {0}
  BY FusionAssumption DEF FusionTypes
<1>2. PICK all \in Nat : all = k * cap
  BY <1>1
<1>3. PICK more \in Nat \ {0} : more = k + 1
  BY <1>1
<1>4. Max({more, all}) = (IF more <= all THEN all ELSE more)
  BY LesserGreater
<1>5. Max({more, all}) \in Nat \ {0}
  BY <1>4
<1> QED
  BY <1>1, <1>2, <1>3, <1>5

LEMMA DepthKind ==
  ASSUME FusionTypes, NEW k \in TopK, NEW among \in SUBSET Art
  PROVE  Min({Cardinality(among), Max({k, ShortlistSize})}) \in Int
<1>1. k \in Int /\ ShortlistSize \in Int
  BY FusionAssumption
<1>2. PICK b \in Int : b = Max({k, ShortlistSize})
  BY <1>1, LesserGreater
<1>3. PICK a \in Int : a = Cardinality(among)
  BY Arts
<1> QED
  BY <1>2, <1>3, LesserGreater

\* What a search by vectors, by the subject alone or by an artwork returns, for
\* each backend.
LEMMA FaissByVectorsGood ==
  ASSUME FusionTypes, NEW k \in TopK, FaissByVectors(k), UNCHANGED <<place, by, cap>>
  PROVE  NoDominatedHit'
<1>1. k \in Nat \ {0} /\ cap \in Nat \ {0} /\ Art \in SUBSET Art
  BY Counts
<1>2. ASSUME NEW rows \in CandidateUnion, NEW hits \in ExactFusion(rows),
             Returned(Diversify(hits, k, cap), Art, cap, {})
      PROVE  NoDominatedHit'
  <2>1. Ranking(hits, Art)
    BY <1>1, CandidateRows, ExactRanking
  <2>2. GoodAnswer(Diversify(hits, k, cap), Art, cap, {})
    BY <1>1, <2>1, LimitedGood
  <2> QED
    BY <1>2, <2>2, ReturnedGood
<1>3. ASSUME NEW artist \in ArtistName, NEW hits \in ExactFusion(WorksOf(artist)),
             Returned(Diversify(hits, k, k), WorksOf(artist), k, {})
      PROVE  NoDominatedHit'
  <2>1. WorksOf(artist) \in SUBSET Art /\ Upward(WorksOf(artist), WorksOf(artist))
    BY DEF WorksOf, Upward
  <2>2. Ranking(hits, WorksOf(artist))
    BY <2>1, ExactRanking
  <2>3. GoodAnswer(Diversify(hits, k, k), WorksOf(artist), k, {})
    BY <1>1, <2>1, <2>2, LimitedGood
  <2> QED
    BY <1>3, <2>3, ReturnedGood
<1> QED
  BY <1>2, <1>3 DEF FaissByVectors

LEMMA ByClipGood ==
  ASSUME FusionTypes, NEW k \in TopK, FaissByClip(k) \/ QdrantByClip(k), UNCHANGED <<place, by, cap>>
  PROVE  NoDominatedHit'
<1>1. k \in Nat \ {0} /\ cap \in Nat \ {0} /\ PrefetchLimit \in Int /\ k * cap \in Int /\ Art \in SUBSET Art
  BY Counts
<1>2. PICK depth \in Int : \E hits \in ByPlace("clip", Nearest("clip", Art, depth)) :
                               Returned(Diversify(hits, k, cap), Art, cap, {})
  BY <1>1 DEF FaissByClip, QdrantByClip
<1>3. Nearest("clip", Art, depth) \in SUBSET Art /\ Upward(Nearest("clip", Art, depth), Art)
  BY <1>1, BothUpward DEF Nearest
<1>4. PICK hits \in ByPlace("clip", Nearest("clip", Art, depth)) :
        Returned(Diversify(hits, k, cap), Art, cap, {})
  BY <1>2
<1>5. Ranking(hits, Art)
  BY <1>1, <1>3, PlaceRanking
<1>6. GoodAnswer(Diversify(hits, k, cap), Art, cap, {})
  BY <1>1, <1>5, LimitedGood
<1> QED
  BY <1>4, <1>6, ReturnedGood

LEMMA QdrantGood ==
  ASSUME FusionTypes, NEW k \in TopK, NEW most \in Nat \ {0}, NEW among \in SUBSET Art,
         NEW hits \in FusedLists(among, PrefetchLimit), UNCHANGED <<place, by, cap>>,
         Returned(Diversify(Cut(hits, FusionLimit), k, most), among, most, {})
  PROVE  NoDominatedHit'
<1>1. k \in Nat \ {0} /\ PrefetchLimit \in Int /\ FusionLimit \in Nat
  BY Counts
<1>2. Ranking(hits, among)
  BY <1>1, FusedRanking
<1>3. Ranking(Cut(hits, FusionLimit), among)
  BY <1>1, <1>2, CutRanking
<1>4. GoodAnswer(Diversify(Cut(hits, FusionLimit), k, most), among, most, {})
  BY <1>1, <1>3, LimitedGood
<1> QED
  BY <1>4, ReturnedGood

LEMMA QdrantByVectorsGood ==
  ASSUME FusionTypes, NEW k \in TopK, QdrantByVectors(k), UNCHANGED <<place, by, cap>>
  PROVE  NoDominatedHit'
<1>1. k \in Nat \ {0} /\ cap \in Nat \ {0} /\ Art \in SUBSET Art
  BY Counts
<1>2. \A artist : WorksOf(artist) \in SUBSET Art
  BY DEF WorksOf
<1> QED
  BY <1>1, <1>2, QdrantGood DEF QdrantByVectors

LEMMA ByArtworkGood ==
  ASSUME FusionTypes, NEW k \in TopK, NEW same \in BOOLEAN, UNCHANGED <<place, by, cap>>,
         FaissByArtwork(k, same) \/ QdrantByArtwork(k, same)
  PROVE  NoDominatedHit'
<1>1. /\ k \in Nat \ {0} /\ cap \in Nat \ {0} /\ Max({k + 1, k * cap}) \in Nat \ {0}
      /\ Art \in SUBSET Art /\ {x \in Art : Similar(x, same)} \in SUBSET Art
  BY Counts
<1>2. CASE FaissByArtwork(k, same)
  <2>1. PICK big \in Nat \ {0} : big = Max({k + 1, k * cap})
    BY <1>1
  <2>2. QueryIsArtwork
    BY <1>2 DEF FaissByArtwork
  <2>3. PICK hits, found : /\ \E rows \in CandidateUnion : hits \in ExactFusion(rows)
                           /\ found = Diversify(hits, big, cap)
                           /\ Returned(Shown(found, same, k), Others(same), cap, {Probe})
    BY <1>2, <2>1 DEF FaissByArtwork, Shown, Others
  <2>4. Ranking(hits, Art)
    BY <1>1, <2>3, CandidateRows, ExactRanking
  <2>5. GoodAnswer(Shown(found, same, k), Others(same), cap, {Probe})
    BY <1>1, <2>2, <2>3, <2>4, ArtworkGood
  <2> QED
    BY <2>3, <2>5, ReturnedGood
<1>3. CASE QdrantByArtwork(k, same)
  BY <1>1, <1>3, QdrantGood DEF QdrantByArtwork
<1> QED
  BY <1>2, <1>3

\* What the in-memory search returns.
LEMMA InMemoryGood ==
  ASSUME FusionTypes, NEW k \in TopK, NEW same \in BOOLEAN, UNCHANGED <<place, by, cap>>,
         EnsembleSearch(k, same) \/ \E list \in {"clip", "style"} : OneVectorSearch(list, k, same)
  PROVE  NoDominatedHit'
<1>1. PICK among \in SUBSET Art : among = {x \in Art : Similar(x, same)}
  OBVIOUS
<1>2. k \in Nat /\ Min({Cardinality(among), Max({k, ShortlistSize})}) \in Int
  BY Counts, DepthKind
<1>3. Upward(among, among)
  BY DEF Upward
<1>4. PICK hits : Ranking(hits, among) /\ Returned(Cut(hits, k), among, Size, {})
  <2>1. CASE EnsembleSearch(k, same)
    <3>1. PICK depth \in Int : depth = Min({Cardinality(among), Max({k, ShortlistSize})})
      BY <1>2
    <3>2. PICK hits \in FusedLists(among, depth) : Returned(Cut(hits, k), among, Size, {})
      BY <1>1, <2>1, <3>1 DEF EnsembleSearch
    <3> QED
      BY <3>2, FusedRanking
  <2>2. ASSUME NEW list \in {"clip", "style"}, OneVectorSearch(list, k, same)
        PROVE  \E hits : Ranking(hits, among) /\ Returned(Cut(hits, k), among, Size, {})
    <3>1. PICK hits \in ByPlace(list, among) : Returned(Cut(hits, k), among, Size, {})
      BY <1>1, <2>2 DEF OneVectorSearch
    <3> QED
      BY <1>3, <3>1, PlaceRanking
  <2> QED
    BY <2>1, <2>2
<1>5. GoodAnswer(Cut(hits, k), among, Size, {})
  BY <1>2, <1>4, UnlimitedGood
<1> QED
  BY <1>4, <1>5, ReturnedGood

LEMMA FusionStep == FusionInv /\ [FusionNext]_fusionVars => FusionInv'
<1> SUFFICES ASSUME FusionInv, [FusionNext]_fusionVars PROVE FusionInv'
  OBVIOUS
<1>1. FusionTypes
  BY DEF FusionInv
<1>2. CASE FusionNext
  <2>1. UNCHANGED <<place, by, cap>>
    BY <1>2 DEF FusionNext
  <2>2. FusionTypes'
    BY <1>1, <2>1 DEF FusionTypes
  <2>3. NoDominatedHit'
    <3>1. PICK k \in TopK :
            \/ FaissByVectors(k) \/ FaissByClip(k) \/ QdrantByVectors(k) \/ QdrantByClip(k)
            \/ \E same \in BOOLEAN :
                 \/ FaissByArtwork(k, same) \/ QdrantByArtwork(k, same) \/ EnsembleSearch(k, same)
                 \/ \E list \in {"clip", "style"} : OneVectorSearch(list, k, same)
      BY <1>2 DEF FusionNext
    <3>2. CASE FaissByVectors(k)
      BY <1>1, <2>1, <3>2, FaissByVectorsGood
    <3>3. CASE FaissByClip(k) \/ QdrantByClip(k)
      BY <1>1, <2>1, <3>3, ByClipGood
    <3>4. CASE QdrantByVectors(k)
      BY <1>1, <2>1, <3>4, QdrantByVectorsGood
    <3>5. ASSUME NEW same \in BOOLEAN, FaissByArtwork(k, same) \/ QdrantByArtwork(k, same)
          PROVE  NoDominatedHit'
      BY <1>1, <2>1, <3>5, ByArtworkGood
    <3>6. ASSUME NEW same \in BOOLEAN,
                 EnsembleSearch(k, same) \/ \E list \in {"clip", "style"} : OneVectorSearch(list, k, same)
          PROVE  NoDominatedHit'
      BY <1>1, <2>1, <3>6, InMemoryGood
    <3> QED
      BY <3>1, <3>2, <3>3, <3>4, <3>5, <3>6
  <2> QED
    BY <2>2, <2>3 DEF FusionInv
<1>3. CASE UNCHANGED fusionVars
  BY <1>1, <1>3 DEF FusionInv, FusionTypes, NoDominatedHit, Dominates, fusionVars
<1> QED
  BY <1>2, <1>3

\* No shortlist, fusion, cut or artist limit of a backend loses the better of two
\* works, for any corpus, rankings, artists and limits.
THEOREM NoBetterLost == FusionSpec => []NoDominatedHit
<1>1. FusionInv => NoDominatedHit
  BY DEF FusionInv
<1> QED
  BY <1>1, FusionStart, FusionStep, PTL DEF FusionSpec
=============================================================================
