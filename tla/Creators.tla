------------------------------ MODULE Creators ------------------------------
(***************************************************************************)
(* The moderation state of discovered creators: the rows of                *)
(* discovery.creator_candidates, discovery.media, discovery.exclusions and *)
(* discovery.removal_requests (artsearch/discovery/repository.py), written *)
(* concurrently by                                                         *)
(*   - ingestion of a suggestion (pipeline.py, _ingest_suggestion),        *)
(*   - the handler of a sample task (_sample_creator),                     *)
(*   - a human reviewer (review_creator) and the approver of removals.     *)
(*                                                                         *)
(* A job is one coroutine of one coordinator process.  Its steps are the   *)
(* repository's transactions; anything may happen between two of them.     *)
(* hydrate_creator and review_creator read the previous state without a    *)
(* row lock and write later in the same transaction: two steps each.       *)
(*                                                                         *)
(* Abstractions.  One media object per creator stands for its posts and    *)
(* media.  queued is the set of creators with a sample task waiting to be  *)
(* claimed; leases are modelled in Frontier, and expansion tasks, which    *)
(* change no row of the creator they expand, are left out.  A profile is   *)
(* reduced to whether profile_safety_state blocks it, and may change       *)
(* between hydrations: the safety state "open" stands for unknown, allowed *)
(* and review.  The state "reviewed" stands for needs_review, deferred and *)
(* rejected.  Removal can be requested and approved any number of times,   *)
(* so the rows of removal_requests need no variable.                       *)
(***************************************************************************)
EXTENDS Naturals, FiniteSets

CONSTANTS
  Creator,   \* creator DIDs
  Job        \* coroutines able to run at once, over all processes

Barred == {"blocked", "deleted"}
Reviewed == {"qualified", "reviewed"}
State == Barred \union Reviewed \union {"none", "discovered", "hydrated"}
Safety == {"open", "blocked"}
Decision == {"approve", "defer", "block"}    \* a rejection is like a deferral

IngestPc == {"profiled", "judged", "recorded", "hydrating", "hydrated"}
SamplePc == {"sampling", "sampled"}

VARIABLES
  state,       \* state[c]: creator_candidates.state, "none" without a row
  safety,      \* safety[c]: creator_candidates.safety_state
  sampledAt,   \* creators whose media_sampled_at is set
  media,       \* media[c]: "none" (no row), "present" or "deleted"
  excluded,    \* creators with an active exclusion
  queued,      \* creators with a sample task pending or waiting for a retry
  review,      \* the decision being written by the reviewer, or NoReview
  job,         \* job[j]: the local state of a coroutine
  torn         \* creators whose ingestion died between its two writes

vars == <<state, safety, sampledAt, media, excluded, queued, review, job, torn>>

NoReview == [did |-> {}, decision |-> "none"]

\* did is the singleton of the creator a job works on, {} when it is idle;
\* task is the answer of _should_sample, prev the state hydration read.
Local(pc, did, verdict, task, prev) ==
  [pc |-> pc, did |-> did, safety |-> verdict, task |-> task, prev |-> prev]

IdleJob == Local("idle", {}, "open", "none", "none")

JobState ==
  [pc : {"idle"} \union IngestPc \union SamplePc, did : SUBSET Creator, safety : Safety,
   task : {"sample", "none"}, prev : State]

TypeOK ==
  /\ state \in [Creator -> State]
  /\ safety \in [Creator -> Safety]
  /\ sampledAt \subseteq Creator
  /\ media \in [Creator -> {"none", "present", "deleted"}]
  /\ excluded \subseteq Creator
  /\ queued \subseteq Creator
  /\ review \in {NoReview} \union [did : {{c} : c \in Creator}, decision : Decision]
  /\ job \in [Job -> JobState]
  /\ torn \subseteq Creator

Init ==
  /\ state = [c \in Creator |-> "none"]
  /\ safety = [c \in Creator |-> "open"]
  /\ sampledAt = {}
  /\ media = [c \in Creator |-> "none"]
  /\ excluded = {}
  /\ queued = {}
  /\ review = NoReview
  /\ job = [j \in Job |-> IdleJob]
  /\ torn = {}

At(j, c, pcs) == job[j].pc \in pcs /\ job[j].did = {c}

Goto(j, pc) == job' = [job EXCEPT ![j].pc = pc]

Finish(j) == job' = [job EXCEPT ![j] = IdleJob]

-----------------------------------------------------------------------------
(* Ingestion of a suggestion.                                              *)

\* _should_sample: a creator never sampled, or neither barred nor fresh.
ShouldSample(c) ==
  IF state[c] = "none" \/ c \notin sampledAt THEN {"sample"}
  ELSE IF state[c] \in Barred THEN {"none"} ELSE {"sample", "none"}

\* The profile arrives; the sampling status is read.
IngestProfile(j, c) ==
  /\ job[j] = IdleJob
  /\ \E task \in ShouldSample(c) :
       job' = [job EXCEPT ![j] = Local("profiled", {c}, "open", task, "none")]
  /\ UNCHANGED <<state, safety, sampledAt, media, excluded, queued, review, torn>>

\* is_excluded overrides what the profile itself says.
IngestJudge(j, c) ==
  /\ At(j, c, {"profiled"})
  /\ \E verdict \in (IF c \in excluded THEN {"blocked"} ELSE Safety) :
       job' = [job EXCEPT ![j] = Local("judged", {c}, verdict, @.task, "none")]
  /\ UNCHANGED <<state, safety, sampledAt, media, excluded, queued, review, torn>>

\* record_suggestion: the upsert keeps an existing state and overwrites safety.
IngestRecord(j, c) ==
  /\ At(j, c, {"judged"})
  /\ state' = [state EXCEPT ![c] = IF @ = "none" THEN "discovered" ELSE @]
  /\ safety' = [safety EXCEPT ![c] = job[j].safety]
  /\ Goto(j, "recorded")
  /\ UNCHANGED <<sampledAt, media, excluded, queued, review, torn>>

\* hydrate_creator reads the previous state ...
HydrateRead(j, c) ==
  /\ At(j, c, {"recorded"})
  /\ job' = [job EXCEPT ![j] = Local("hydrating", {c}, @.safety, @.task, state[c])]
  /\ UNCHANGED <<state, safety, sampledAt, media, excluded, queued, review, torn>>

\* Mutant: a deleted creator is treated like any other.
HydrateTargetLosing(prev, verdict) ==
  CASE prev = "blocked" \/ verdict = "blocked" -> "blocked"
    [] prev # "blocked" /\ verdict # "blocked" /\ prev \in Reviewed -> prev
    [] OTHER -> "hydrated"

HydrateTarget(prev, verdict) ==
  CASE prev = "deleted" -> "deleted"
    [] prev # "deleted" /\ (prev = "blocked" \/ verdict = "blocked") -> "blocked"
    [] prev \in Reviewed /\ verdict # "blocked" -> prev
    [] OTHER -> "hydrated"

HydrateSafety(target, verdict) == IF target \in Barred THEN "blocked" ELSE verdict

\* ... and writes what follows from it.
HydrateWrite(j, c) ==
  /\ At(j, c, {"hydrating"})
  /\ LET target == HydrateTarget(job[j].prev, job[j].safety)
     IN  /\ state' = [state EXCEPT ![c] = target]
         /\ safety' = [safety EXCEPT ![c] = HydrateSafety(target, job[j].safety)]
  /\ torn' = torn \ {c}
  /\ Goto(j, "hydrated")
  /\ UNCHANGED <<sampledAt, media, excluded, queued, review>>

\* A blocked profile gets an exclusion; ingestion stops there.
IngestExclude(j, c) ==
  /\ At(j, c, {"hydrated"})
  /\ job[j].safety = "blocked"
  /\ excluded' = excluded \union {c}
  /\ Finish(j)
  /\ UNCHANGED <<state, safety, sampledAt, media, queued, review, torn>>

\* Otherwise the sample task, if it is wanted and the creator is neither too deep
\* nor a trusted seed; enqueue_task refuses an excluded creator.
IngestEnqueue(j, c) ==
  /\ At(j, c, {"hydrated"})
  /\ job[j].safety # "blocked"
  /\ \/ UNCHANGED queued
     \/ job[j].task = "sample" /\ c \notin excluded /\ queued' = queued \union {c}
  /\ Finish(j)
  /\ UNCHANGED <<state, safety, sampledAt, media, excluded, review, torn>>

-----------------------------------------------------------------------------
(* The handler of a sample task.                                           *)

StartSampling(j, c) ==
  \E verdict \in Safety :
    job' = [job EXCEPT ![j] = Local("sampling", {c}, verdict, "none", "none")]

\* Mutant: the sample handler trusts that a queued task is still wanted.
SampleStartUnchecked(j, c) ==
  /\ job[j] = IdleJob
  /\ c \in queued
  /\ queued' = queued \ {c}
  /\ StartSampling(j, c)
  /\ UNCHANGED <<state, safety, sampledAt, media, excluded, review, torn>>

\* _sample_creator: nothing for an excluded creator or without media budget.
SampleStart(j, c) ==
  /\ job[j] = IdleJob
  /\ c \in queued
  /\ queued' = queued \ {c}
  /\ \/ UNCHANGED job
     \/ c \notin excluded /\ StartSampling(j, c)
  /\ UNCHANGED <<state, safety, sampledAt, media, excluded, review, torn>>

\* record_media_results, after the initial and again after the deep sample.  It
\* clears deleted_at of every media row it meets.
SampleMedia(j, c) ==
  /\ \/ At(j, c, {"sampling"})
     \/ At(j, c, {"sampled"}) /\ job[j].safety # "blocked"
  /\ Goto(j, "sampled")
  /\ media' \in {media, [media EXCEPT ![c] = "present"]}
  /\ sampledAt' = sampledAt \union {c}
  /\ UNCHANGED <<state, safety, excluded, queued, review, torn>>

\* score_creator's decision.
ScoreOutcome(verdict) == IF verdict = "blocked" THEN {"blocked"} ELSE Reviewed

\* record_creator_profile writes state and safety whatever the row says by now.
SampleProfile(j, c) ==
  /\ At(j, c, {"sampled"})
  /\ \E outcome \in ScoreOutcome(job[j].safety) : state' = [state EXCEPT ![c] = outcome]
  /\ safety' = [safety EXCEPT ![c] = job[j].safety]
  /\ sampledAt' = sampledAt \union {c}
  /\ Finish(j)
  /\ UNCHANGED <<media, excluded, queued, review, torn>>

\* The job ends early: an error, or the process died.  A sample task is retried
\* or its lease expires, unless its attempts are used up.
Abort(j, c) ==
  /\ At(j, c, IngestPc \union SamplePc)
  /\ \/ UNCHANGED queued
     \/ job[j].pc \in SamplePc /\ queued' = queued \union {c}
  /\ torn' = IF At(j, c, {"recorded", "hydrating"}) THEN torn \union {c} ELSE torn
  /\ Finish(j)
  /\ UNCHANGED <<state, safety, sampledAt, media, excluded, review>>

-----------------------------------------------------------------------------
(* Humans.                                                                 *)

ReviewTarget(d) ==
  CASE d = "approve" -> "qualified" [] d = "defer" -> "reviewed" [] d = "block" -> "blocked"

\* review_creator refuses an unknown creator and a deleted one ...
ReviewRead(c, d) ==
  /\ review = NoReview
  /\ state[c] \notin {"none", "deleted"}
  /\ review' = [did |-> {c}, decision |-> d]
  /\ UNCHANGED <<state, safety, sampledAt, media, excluded, queued, job, torn>>

\* ... and writes; a block also excludes and cancels what is queued.
ReviewWrite(c) ==
  /\ review.did = {c}
  /\ state' = [state EXCEPT ![c] = ReviewTarget(review.decision)]
  /\ IF review.decision = "block"
       THEN /\ safety' = [safety EXCEPT ![c] = "blocked"]
            /\ excluded' = excluded \union {c}
            /\ queued' = queued \ {c}
       ELSE UNCHANGED <<safety, excluded, queued>>
  /\ review' = NoReview
  /\ UNCHANGED <<sampledAt, media, job, torn>>

\* approve_removal of a creator: exclusion and deletion mark in one transaction.
RemoveCreator(c) ==
  /\ excluded' = excluded \union {c}
  /\ IF state[c] = "none"
       THEN UNCHANGED <<state, safety>>
       ELSE /\ state' = [state EXCEPT ![c] = "deleted"]
            /\ safety' = [safety EXCEPT ![c] = "blocked"]
  /\ UNCHANGED <<sampledAt, media, queued, review, job, torn>>

\* approve_removal of a media object: the mark; nothing reads its exclusion.
RemoveMedia(c) ==
  /\ media[c] # "none"
  /\ media' = [media EXCEPT ![c] = "deleted"]
  /\ UNCHANGED <<state, safety, sampledAt, excluded, queued, review, job, torn>>

\* The operator's exclude command.
AddExclusion(c) ==
  /\ c \notin excluded
  /\ excluded' = excluded \union {c}
  /\ UNCHANGED <<state, safety, sampledAt, media, queued, review, job, torn>>

-----------------------------------------------------------------------------
Next ==
  \/ \E j \in Job, c \in Creator : IngestProfile(j, c)
  \/ \E j \in Job, c \in Creator : IngestJudge(j, c)
  \/ \E j \in Job, c \in Creator : IngestRecord(j, c)
  \/ \E j \in Job, c \in Creator : HydrateRead(j, c)
  \/ \E j \in Job, c \in Creator : HydrateWrite(j, c)
  \/ \E j \in Job, c \in Creator : IngestExclude(j, c)
  \/ \E j \in Job, c \in Creator : IngestEnqueue(j, c)
  \/ \E j \in Job, c \in Creator : SampleStart(j, c)
  \/ \E j \in Job, c \in Creator : SampleMedia(j, c)
  \/ \E j \in Job, c \in Creator : SampleProfile(j, c)
  \/ \E j \in Job, c \in Creator : Abort(j, c)
  \/ \E c \in Creator, d \in Decision : ReviewRead(c, d)
  \/ \E c \in Creator : ReviewWrite(c)
  \/ \E c \in Creator : RemoveCreator(c)
  \/ \E c \in Creator : RemoveMedia(c)
  \/ \E c \in Creator : AddExclusion(c)

Spec == Init /\ [][Next]_vars

-----------------------------------------------------------------------------
(* Properties.                                                             *)

Sampling(c) == \E j \in Job : At(j, c, SamplePc)
\* A decision on c is being written, or a hydration of c read it while not barred.
Pending(c) ==
  \/ review.did = {c}
  \/ \E j \in Job : At(j, c, {"hydrating"}) /\ job[j].prev \notin Barred

(* An exclusion stops sampling: once a creator is excluded and the samples *)
(* under way have ended, none starts, whatever is still queued, and its    *)
(* media is only ever removed.                                             *)
ExclusionQuiesces ==
  [][\A c \in Creator :
       c \in excluded /\ ~Sampling(c)
         => ~Sampling(c)' /\ media'[c] \in {media[c], "deleted"}]_vars

(* Barred for good: a blocked or deleted creator that is excluded is not   *)
(* brought back by any automated step, however often campaigns find it     *)
(* again and whatever an ingestion under way judged before, unless a sample*)
(* is under way or a hydration or review had read an earlier state.        *)
BarredStaysBarred ==
  [][\A c \in Creator :
       state[c] \in Barred /\ c \in excluded /\ ~Sampling(c) /\ ~Pending(c)
         => state'[c] \in Barred]_vars

(* A barred creator's safety is blocked: readers of either column agree,   *)
(* except while an ingestion is between its two transactions or after one  *)
(* died there.                                                             *)
BarredIsUnsafe ==
  \A c \in Creator :
    state[c] \in Barred /\ c \notin torn /\ ~(\E j \in Job : At(j, c, {"recorded", "hydrating"}))
      => safety[c] = "blocked"

(* corpus_discovery.md: a removal approval "marks canonical discovery state*)
(* deleted, blocks future work".  The code does not keep a media object    *)
(* deleted: the next sample of its creator clears the mark.                *)
RemovedMediaStaysRemoved ==
  [][\A c \in Creator : media[c] = "deleted" => media'[c] = "deleted"]_vars

=============================================================================
