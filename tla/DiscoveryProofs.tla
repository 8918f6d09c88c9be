-------------------------- MODULE DiscoveryProofs ---------------------------
(* Proofs about finding creators and their posts: the moderation of        *)
(* creators, the budgets of campaigns, the scans of author feeds, and the  *)
(* initial sources of a campaign.                                          *)
EXTENDS Creators, Campaign, AuthorFeed, SeedSources, FiniteSetTheorems, SequenceTheorems,
  WellFoundedInduction, TLAPS

-----------------------------------------------------------------------------
(***************************************************************************)
(* Proofs about Creators for any number of creators and coroutines.        *)
(*                                                                         *)
(* The invariant is inductive with the types because every transaction that*)
(* writes a barred state writes the blocked safety with it; the only writer*)
(* of safety alone, record_suggestion, is followed by hydration, and a     *)
(* process that dies between the two marks the creator torn.               *)
(***************************************************************************)

IInv == TypeOK /\ BarredIsUnsafe

\* A job that goes on to another step keeps a job's type.
LEMMA GotoTyped ==
  ASSUME job \in [Job -> JobState], NEW j \in Job, NEW pc \in IngestPc \union SamplePc, Goto(j, pc)
  PROVE  job' \in [Job -> JobState]
<1>1. PICK new \in JobState : new = [job[j] EXCEPT !.pc = pc]
  BY DEF JobState
<1>2. job' = [job EXCEPT ![j] = new]
  BY <1>1 DEF Goto
<1> QED
  BY <1>2

(* Every step keeps the types.                                             *)
LEMMA TypeStep == TypeOK /\ [Next]_vars => TypeOK'
<1> SUFFICES ASSUME TypeOK, [Next]_vars PROVE TypeOK'
  OBVIOUS
<1> USE DEF TypeOK, JobState, IdleJob, Local, NoReview, State, Barred, Reviewed, Safety, Decision,
            IngestPc, SamplePc, At, Goto, Finish
<1>1. ASSUME NEW j \in Job, NEW d \in Creator, IngestProfile(j, d) PROVE TypeOK'
  BY <1>1 DEF IngestProfile, ShouldSample
<1>2. ASSUME NEW j \in Job, NEW d \in Creator, IngestJudge(j, d) PROVE TypeOK'
  BY <1>2 DEF IngestJudge
<1>3. ASSUME NEW j \in Job, NEW d \in Creator, IngestRecord(j, d) PROVE TypeOK'
  <2>1. job' \in [Job -> JobState]
    <3>1. Goto(j, "recorded")
      BY <1>3 DEF IngestRecord
    <3> QED
      BY <3>1, GotoTyped
  <2>2. state' \in [Creator -> State] /\ safety' \in [Creator -> Safety]
    BY <1>3 DEF IngestRecord
  <2> QED
    BY <1>3, <2>1, <2>2 DEF IngestRecord
<1>4. ASSUME NEW j \in Job, NEW d \in Creator, HydrateRead(j, d) PROVE TypeOK'
  BY <1>4 DEF HydrateRead
<1>5. ASSUME NEW j \in Job, NEW d \in Creator, HydrateWrite(j, d) PROVE TypeOK'
  BY <1>5 DEF HydrateWrite, HydrateTarget, HydrateSafety
<1>6. ASSUME NEW j \in Job, NEW d \in Creator, IngestExclude(j, d) PROVE TypeOK'
  BY <1>6 DEF IngestExclude
<1>7. ASSUME NEW j \in Job, NEW d \in Creator, IngestEnqueue(j, d) PROVE TypeOK'
  BY <1>7 DEF IngestEnqueue
<1>8. ASSUME NEW j \in Job, NEW d \in Creator, SampleStart(j, d) PROVE TypeOK'
  BY <1>8 DEF SampleStart, StartSampling
<1>9. ASSUME NEW j \in Job, NEW d \in Creator, SampleMedia(j, d) PROVE TypeOK'
  <2>1. job' \in [Job -> JobState]
    <3>1. Goto(j, "sampled")
      BY <1>9 DEF SampleMedia
    <3> QED
      BY <3>1, GotoTyped
  <2> QED
    BY <1>9, <2>1 DEF SampleMedia
<1>10. ASSUME NEW j \in Job, NEW d \in Creator, SampleProfile(j, d) PROVE TypeOK'
  BY <1>10 DEF SampleProfile, ScoreOutcome
<1>11. ASSUME NEW j \in Job, NEW d \in Creator, Abort(j, d) PROVE TypeOK'
  BY <1>11 DEF Abort
<1>12. ASSUME NEW d \in Creator, NEW e \in Decision, ReviewRead(d, e) PROVE TypeOK'
  BY <1>12 DEF ReviewRead
<1>13. ASSUME NEW d \in Creator, ReviewWrite(d) PROVE TypeOK'
  <2>1. ReviewTarget(review.decision) \in State
    BY <1>13 DEF ReviewWrite, ReviewTarget, NoReview
  <2> QED
    BY <1>13, <2>1 DEF ReviewWrite
<1>14. ASSUME NEW d \in Creator, RemoveCreator(d) PROVE TypeOK'
  BY <1>14 DEF RemoveCreator
<1>15. ASSUME NEW d \in Creator, RemoveMedia(d) PROVE TypeOK'
  BY <1>15 DEF RemoveMedia
<1>16. ASSUME NEW d \in Creator, AddExclusion(d) PROVE TypeOK'
  BY <1>16 DEF AddExclusion
<1>17. CASE UNCHANGED vars
  BY <1>17 DEF vars
<1> HIDE DEF TypeOK, JobState, IdleJob, Local, NoReview, State, Barred, Reviewed, Safety, Decision,
             IngestPc, SamplePc, At, Goto, Finish
<1> QED
  BY <1>1, <1>2, <1>3, <1>4, <1>5, <1>6, <1>7, <1>8, <1>9, <1>10, <1>11, <1>12, <1>13, <1>14,
     <1>15, <1>16, <1>17 DEF Next

(* A review that is about to write has its reviewer's decision.            *)
LEMMA ReviewUnderWay ==
  ASSUME TypeOK, NEW d \in Creator, review.did = {d}
  PROVE  review.decision \in Decision
<1>1. review \in {NoReview} \union [did : {{x} : x \in Creator}, decision : Decision]
  BY DEF TypeOK
<1>2. review # NoReview
  BY DEF NoReview
<1> QED
  BY <1>1, <1>2

(* Every step keeps barred creators unsafe.                                *)
LEMMA BarredIsUnsafeStep ==
  ASSUME TypeOK, BarredIsUnsafe, [Next]_vars, NEW c \in Creator,
         state'[c] \in Barred, c \notin torn',
         ~(\E j \in Job : At(j, c, {"recorded", "hydrating"}))'
  PROVE  safety'[c] = "blocked"
<1> USE DEF TypeOK, JobState, IdleJob, Local, BarredIsUnsafe, Barred, Reviewed, Safety, IngestPc,
            SamplePc, At, Goto, Finish
<1>1. ASSUME NEW j \in Job, NEW d \in Creator, IngestProfile(j, d) PROVE safety'[c] = "blocked"
  <2>1. ASSUME NEW k \in Job, At(k, c, {"recorded", "hydrating"})
        PROVE  At(k, c, {"recorded", "hydrating"})'
    BY <1>1, <2>1 DEF IngestProfile, ShouldSample
  <2> QED
    BY <1>1, <2>1 DEF IngestProfile
<1>2. ASSUME NEW j \in Job, NEW d \in Creator, IngestJudge(j, d) PROVE safety'[c] = "blocked"
  <2>1. ASSUME NEW k \in Job, At(k, c, {"recorded", "hydrating"})
        PROVE  At(k, c, {"recorded", "hydrating"})'
    <3>1. k # j
      BY <1>2, <2>1 DEF IngestJudge
    <3>2. job'[k] = job[k]
      BY <1>2, <3>1 DEF IngestJudge
    <3> QED
      BY <2>1, <3>2
  <2> QED
    BY <1>2, <2>1 DEF IngestJudge
<1>3. ASSUME NEW j \in Job, NEW d \in Creator, IngestRecord(j, d) PROVE safety'[c] = "blocked"
  <2>1. CASE c = d
    BY <1>3, <2>1 DEF IngestRecord
  <2>2. CASE c # d
    BY <1>3, <2>2 DEF IngestRecord
  <2> QED
    BY <2>1, <2>2
<1>4. ASSUME NEW j \in Job, NEW d \in Creator, HydrateRead(j, d) PROVE safety'[c] = "blocked"
  BY <1>4 DEF HydrateRead
<1>5. ASSUME NEW j \in Job, NEW d \in Creator, HydrateWrite(j, d) PROVE safety'[c] = "blocked"
  BY <1>5 DEF HydrateWrite, HydrateTarget, HydrateSafety
<1>6. ASSUME NEW j \in Job, NEW d \in Creator, IngestExclude(j, d) PROVE safety'[c] = "blocked"
  BY <1>6 DEF IngestExclude
<1>7. ASSUME NEW j \in Job, NEW d \in Creator, IngestEnqueue(j, d) PROVE safety'[c] = "blocked"
  BY <1>7 DEF IngestEnqueue
<1>8. ASSUME NEW j \in Job, NEW d \in Creator, SampleStart(j, d) PROVE safety'[c] = "blocked"
  <2>1. ASSUME NEW k \in Job, At(k, c, {"recorded", "hydrating"})
        PROVE  At(k, c, {"recorded", "hydrating"})'
    BY <1>8, <2>1 DEF SampleStart, StartSampling
  <2> QED
    BY <1>8, <2>1 DEF SampleStart
<1>9. ASSUME NEW j \in Job, NEW d \in Creator, SampleMedia(j, d) PROVE safety'[c] = "blocked"
  BY <1>9 DEF SampleMedia
<1>10. ASSUME NEW j \in Job, NEW d \in Creator, SampleProfile(j, d) PROVE safety'[c] = "blocked"
  BY <1>10 DEF SampleProfile, ScoreOutcome
<1>11. ASSUME NEW j \in Job, NEW d \in Creator, Abort(j, d) PROVE safety'[c] = "blocked"
  BY <1>11 DEF Abort
<1>12. ASSUME NEW d \in Creator, NEW e \in Decision, ReviewRead(d, e) PROVE safety'[c] = "blocked"
  BY <1>12 DEF ReviewRead
<1>13. ASSUME NEW d \in Creator, ReviewWrite(d) PROVE safety'[c] = "blocked"
  <2>1. CASE review.decision = "block" /\ c = d
    BY <1>13, <2>1 DEF ReviewWrite
  <2>2. CASE review.decision # "block" /\ c = d
    <3>1. review.decision \in {"approve", "defer"}
      BY <1>13, <2>2, ReviewUnderWay DEF ReviewWrite, Decision
    <3>2. ReviewTarget(review.decision) \in Reviewed
      BY <3>1 DEF ReviewTarget
    <3>3. state'[c] \in Reviewed
      BY <1>13, <2>2, <3>2 DEF ReviewWrite
    <3> QED
      BY <3>3
  <2>3. CASE c # d
    BY <1>13, <2>3 DEF ReviewWrite
  <2> QED
    BY <2>1, <2>2, <2>3
<1>14. ASSUME NEW d \in Creator, RemoveCreator(d) PROVE safety'[c] = "blocked"
  BY <1>14 DEF RemoveCreator
<1>15. ASSUME NEW d \in Creator, RemoveMedia(d) PROVE safety'[c] = "blocked"
  BY <1>15 DEF RemoveMedia
<1>16. ASSUME NEW d \in Creator, AddExclusion(d) PROVE safety'[c] = "blocked"
  BY <1>16 DEF AddExclusion
<1>17. CASE UNCHANGED vars
  BY <1>17 DEF vars
<1> QED
  BY <1>1, <1>2, <1>3, <1>4, <1>5, <1>6, <1>7, <1>8, <1>9, <1>10, <1>11, <1>12, <1>13, <1>14,
     <1>15, <1>16, <1>17 DEF Next

(* The inductive invariant holds in every reachable state.                 *)
LEMMA Invariant == Spec => []IInv
<1>1. Init => IInv
  BY DEF Init, IInv, TypeOK, JobState, IdleJob, Local, NoReview, State, Safety, BarredIsUnsafe,
     Barred,
         At
<1>2. IInv /\ [Next]_vars => IInv'
  BY TypeStep, BarredIsUnsafeStep DEF IInv, BarredIsUnsafe
<1> QED
  BY <1>1, <1>2, PTL DEF Spec

(* The columns and the coroutines' locals keep their types.                *)
THEOREM TypeCorrect == Spec => []TypeOK
  BY Invariant, PTL DEF IInv

(* A barred creator is also unsafe, outside the window of an ingestion.    *)
THEOREM BarredUnsafe == Spec => []BarredIsUnsafe
  BY Invariant, PTL DEF IInv

(* No step starts a sample of an excluded creator, or restores its media   *)
(* while none is under way.                                                *)
LEMMA QuiescesStep ==
  ASSUME TypeOK, [Next]_vars, NEW c \in Creator, c \in excluded, ~Sampling(c)
  PROVE  ~Sampling(c)' /\ media'[c] \in {media[c], "deleted"}
<1> USE DEF TypeOK, JobState, IdleJob, Local, IngestPc, SamplePc, Sampling, At, Goto, Finish
<1>1. ASSUME NEW j \in Job, NEW d \in Creator, IngestProfile(j, d)
      PROVE ~Sampling(c)' /\ media'[c] \in {media[c], "deleted"}
  BY <1>1 DEF IngestProfile, ShouldSample
<1>2. ASSUME NEW j \in Job, NEW d \in Creator, IngestJudge(j, d)
      PROVE ~Sampling(c)' /\ media'[c] \in {media[c], "deleted"}
  BY <1>2 DEF IngestJudge
<1>3. ASSUME NEW j \in Job, NEW d \in Creator, IngestRecord(j, d)
      PROVE ~Sampling(c)' /\ media'[c] \in {media[c], "deleted"}
  BY <1>3 DEF IngestRecord
<1>4. ASSUME NEW j \in Job, NEW d \in Creator, HydrateRead(j, d)
      PROVE ~Sampling(c)' /\ media'[c] \in {media[c], "deleted"}
  BY <1>4 DEF HydrateRead
<1>5. ASSUME NEW j \in Job, NEW d \in Creator, HydrateWrite(j, d)
      PROVE ~Sampling(c)' /\ media'[c] \in {media[c], "deleted"}
  BY <1>5 DEF HydrateWrite, HydrateTarget, HydrateSafety
<1>6. ASSUME NEW j \in Job, NEW d \in Creator, IngestExclude(j, d)
      PROVE ~Sampling(c)' /\ media'[c] \in {media[c], "deleted"}
  BY <1>6 DEF IngestExclude
<1>7. ASSUME NEW j \in Job, NEW d \in Creator, IngestEnqueue(j, d)
      PROVE ~Sampling(c)' /\ media'[c] \in {media[c], "deleted"}
  BY <1>7 DEF IngestEnqueue
<1>8. ASSUME NEW j \in Job, NEW d \in Creator, SampleStart(j, d)
      PROVE ~Sampling(c)' /\ media'[c] \in {media[c], "deleted"}
  <2>1. CASE UNCHANGED job
    BY <1>8, <2>1 DEF SampleStart
  <2>2. CASE d \notin excluded /\ StartSampling(j, d)
    <3>1. d # c
      BY <2>2
    <3>2. PICK verdict \in Safety :
            job' = [job EXCEPT ![j] = Local("sampling", {d}, verdict, "none", "none")]
      BY <2>2 DEF StartSampling
    <3>3. \A i \in Job : job'[i].did = {c} /\ job'[i].pc \in SamplePc => job'[i] = job[i]
      BY <3>1, <3>2
    <3>4. media' = media
      BY <1>8 DEF SampleStart
    <3> QED
      BY <3>3, <3>4
  <2> QED
    BY <1>8, <2>1, <2>2 DEF SampleStart
<1>9. ASSUME NEW j \in Job, NEW d \in Creator, SampleMedia(j, d)
      PROVE ~Sampling(c)' /\ media'[c] \in {media[c], "deleted"}
  BY <1>9 DEF SampleMedia
<1>10. ASSUME NEW j \in Job, NEW d \in Creator, SampleProfile(j, d)
       PROVE ~Sampling(c)' /\ media'[c] \in {media[c], "deleted"}
  BY <1>10 DEF SampleProfile, ScoreOutcome
<1>11. ASSUME NEW j \in Job, NEW d \in Creator, Abort(j, d)
       PROVE ~Sampling(c)' /\ media'[c] \in {media[c], "deleted"}
  BY <1>11 DEF Abort
<1>12. ASSUME NEW d \in Creator, NEW e \in Decision, ReviewRead(d, e)
       PROVE ~Sampling(c)' /\ media'[c] \in {media[c], "deleted"}
  BY <1>12 DEF ReviewRead
<1>13. ASSUME NEW d \in Creator, ReviewWrite(d)
       PROVE ~Sampling(c)' /\ media'[c] \in {media[c], "deleted"}
  BY <1>13 DEF ReviewWrite, ReviewTarget
<1>14. ASSUME NEW d \in Creator, RemoveCreator(d)
       PROVE ~Sampling(c)' /\ media'[c] \in {media[c], "deleted"}
  BY <1>14 DEF RemoveCreator
<1>15. ASSUME NEW d \in Creator, RemoveMedia(d)
       PROVE ~Sampling(c)' /\ media'[c] \in {media[c], "deleted"}
  BY <1>15 DEF RemoveMedia
<1>16. ASSUME NEW d \in Creator, AddExclusion(d)
       PROVE ~Sampling(c)' /\ media'[c] \in {media[c], "deleted"}
  BY <1>16 DEF AddExclusion
<1>17. CASE UNCHANGED vars
  BY <1>17 DEF vars
<1> QED
  BY <1>1, <1>2, <1>3, <1>4, <1>5, <1>6, <1>7, <1>8, <1>9, <1>10, <1>11, <1>12, <1>13, <1>14,
     <1>15, <1>16, <1>17 DEF Next

(* An exclusion stops sampling.                                            *)
THEOREM ExclusionStopsSampling == Spec => ExclusionQuiesces
<1>1. IInv /\ [Next]_vars =>
        [\A c \in Creator :
           c \in excluded /\ ~Sampling(c)
             => ~Sampling(c)' /\ media'[c] \in {media[c], "deleted"}]_vars
  BY QuiescesStep DEF IInv
<1> QED
  BY Invariant, <1>1, PTL DEF Spec, ExclusionQuiesces

(* No automated step takes a barred and excluded creator out of the barred *)
(* states.                                                                 *)
LEMMA BarredStep ==
  ASSUME TypeOK, [Next]_vars, NEW c \in Creator,
         state[c] \in Barred, c \in excluded, ~Sampling(c), ~Pending(c)
  PROVE  state'[c] \in Barred
<1> USE DEF TypeOK, JobState, IdleJob, Local, Barred, IngestPc, SamplePc, Sampling, Pending, At, Goto,
            Finish
<1>1. ASSUME NEW j \in Job, NEW d \in Creator, IngestProfile(j, d) PROVE state'[c] \in Barred
  BY <1>1 DEF IngestProfile, ShouldSample
<1>2. ASSUME NEW j \in Job, NEW d \in Creator, IngestJudge(j, d) PROVE state'[c] \in Barred
  BY <1>2 DEF IngestJudge
<1>3. ASSUME NEW j \in Job, NEW d \in Creator, IngestRecord(j, d) PROVE state'[c] \in Barred
  BY <1>3 DEF IngestRecord
<1>4. ASSUME NEW j \in Job, NEW d \in Creator, HydrateRead(j, d) PROVE state'[c] \in Barred
  BY <1>4 DEF HydrateRead
<1>5. ASSUME NEW j \in Job, NEW d \in Creator, HydrateWrite(j, d) PROVE state'[c] \in Barred
  BY <1>5 DEF HydrateWrite, HydrateTarget, HydrateSafety
<1>6. ASSUME NEW j \in Job, NEW d \in Creator, IngestExclude(j, d) PROVE state'[c] \in Barred
  BY <1>6 DEF IngestExclude
<1>7. ASSUME NEW j \in Job, NEW d \in Creator, IngestEnqueue(j, d) PROVE state'[c] \in Barred
  BY <1>7 DEF IngestEnqueue
<1>8. ASSUME NEW j \in Job, NEW d \in Creator, SampleStart(j, d) PROVE state'[c] \in Barred
  BY <1>8 DEF SampleStart, StartSampling
<1>9. ASSUME NEW j \in Job, NEW d \in Creator, SampleMedia(j, d) PROVE state'[c] \in Barred
  BY <1>9 DEF SampleMedia
<1>10. ASSUME NEW j \in Job, NEW d \in Creator, SampleProfile(j, d) PROVE state'[c] \in Barred
  BY <1>10 DEF SampleProfile, ScoreOutcome
<1>11. ASSUME NEW j \in Job, NEW d \in Creator, Abort(j, d) PROVE state'[c] \in Barred
  BY <1>11 DEF Abort
<1>12. ASSUME NEW d \in Creator, NEW e \in Decision, ReviewRead(d, e) PROVE state'[c] \in Barred
  BY <1>12 DEF ReviewRead
<1>13. ASSUME NEW d \in Creator, ReviewWrite(d) PROVE state'[c] \in Barred
  BY <1>13 DEF ReviewWrite, ReviewTarget
<1>14. ASSUME NEW d \in Creator, RemoveCreator(d) PROVE state'[c] \in Barred
  BY <1>14 DEF RemoveCreator
<1>15. ASSUME NEW d \in Creator, RemoveMedia(d) PROVE state'[c] \in Barred
  BY <1>15 DEF RemoveMedia
<1>16. ASSUME NEW d \in Creator, AddExclusion(d) PROVE state'[c] \in Barred
  BY <1>16 DEF AddExclusion
<1>17. CASE UNCHANGED vars
  BY <1>17 DEF vars
<1> QED
  BY <1>1, <1>2, <1>3, <1>4, <1>5, <1>6, <1>7, <1>8, <1>9, <1>10, <1>11, <1>12, <1>13, <1>14,
     <1>15, <1>16, <1>17 DEF Next

(* A barred and excluded creator stays barred.                             *)
THEOREM BarredForGood == Spec => BarredStaysBarred
<1>1. IInv /\ [Next]_vars =>
        [\A c \in Creator :
           state[c] \in Barred /\ c \in excluded /\ ~Sampling(c) /\ ~Pending(c)
             => state'[c] \in Barred]_vars
  BY BarredStep DEF IInv
<1> QED
  BY Invariant, <1>1, PTL DEF Spec, BarredStaysBarred

-----------------------------------------------------------------------------
(***************************************************************************)
(* Proofs about Campaign for any number of campaigns, jobs and creators    *)
(* and any budgets.                                                        *)
(*                                                                         *)
(* The media budget holds because a job takes its share of what is left    *)
(* when it takes it.  The fan-out limit holds because who expands a        *)
(* creator holds the creator's lock, and while one job does, the edges of  *)
(* the creator and the room the job has left stay within the limit.        *)
(***************************************************************************)

(* What a job can be at.                                                   *)
Media == [pc : {"profiling", "listing"}, did : Did, had : Nat, want : Nat]
Found == [pc : {"listed"}, did : Did, had : Nat, found : Nat]
Asking == [pc : {"asking"}, parent : SUBSET Did, list : SUBSET Did, room : Nat]
Ingesting == [pc : {"ingesting"}, parent : SUBSET Did, left : SUBSET Did, room : Nat]
Hand == {IdleHand} \union Works \union Media \union Found \union Asking \union Ingesting

Types ==
  /\ phase \in [Campaigner -> {"sources", "draining", "completed", "failed"}]
  /\ hands \in [Campaigner -> [JobId -> Hand]]
  /\ requests \in [Campaigner -> Nat] /\ mediaCount \in [Campaigner -> Nat]
  /\ seen \in [Campaigner -> SUBSET Did] /\ profiles \in [Campaigner -> SUBSET Did]
  /\ tasks \in [Campaigner -> Nat] /\ exhausted \in [Campaigner -> BOOLEAN]
  /\ children \in [Did -> SUBSET Did] /\ contended \subseteq Did

(* The budgets a campaign keeps by itself.                                 *)
WithinBudgets ==
  \A p \in Campaigner :
    /\ requests[p] <= RequestBudget[p] /\ mediaCount[p] <= MediaBudget /\ tasks[p] <= TaskBudget
    /\ profiles[p] \subseteq seen[p] /\ Cardinality(seen[p]) <= CreatorBudget

(* Two jobs expand one creator only if they are of two processes.          *)
OneHolder ==
  \A d \in Did \ contended : \A p, q \in Campaigner : \A i, k \in JobId :
    Holds(p, i, d) /\ Holds(q, k, d) => p = q /\ i = k

(* The room of who expands a creator is room the creator has.              *)
RoomLeft ==
  \A d \in Did \ contended : \A p \in Campaigner : \A i \in JobId :
    Holds(p, i, d) => Cardinality(children[d]) + hands[p][i].room <= MaxFanout

(* The inductive invariant.                                                *)
CampaignInv ==
  /\ Types
  /\ WithinBudgets
  /\ OneHolder
  /\ RoomLeft
  /\ FanoutWithinLimit

-----------------------------------------------------------------------------
(* Sets and numbers.                                                       *)

(* The smaller of two numbers is one of them.                              *)
LEMMA MinOfTwo ==
  ASSUME NEW a \in Nat, NEW b \in Nat
  PROVE  Min({a, b}) \in {a, b} /\ Min({a, b}) <= a /\ Min({a, b}) <= b
<1>1. \E x \in {a, b} : \A y \in {a, b} : x <= y
  <2>1. CASE a <= b
    BY <2>1
  <2>2. CASE b <= a
    BY <2>2
  <2> QED
    BY <2>1, <2>2
<1> QED
  BY <1>1 DEF Min

(* Creators are finitely many.                                             *)
LEMMA FiniteCreators ==
  ASSUME NEW S \in SUBSET Did
  PROVE  IsFiniteSet(S) /\ Cardinality(S) \in Nat
  BY CampaignAssumption, FS_Subset, FS_CardinalityType

(* A creator adds at most one to a set of creators.                        *)
LEMMA OneMore ==
  ASSUME NEW S \in SUBSET Did, NEW d \in Did
  PROVE  /\ Cardinality(S \union {d}) <= Cardinality(S) + 1
         /\ d \in S => Cardinality(S \union {d}) = Cardinality(S)
<1>1. Cardinality(S) \in Nat /\ IsFiniteSet(S)
  BY FiniteCreators
<1>2. Cardinality(S \union {d}) = IF d \in S THEN Cardinality(S) ELSE Cardinality(S) + 1
  BY <1>1, FS_AddElement
<1> QED
  BY <1>1, <1>2

(* What a job is at tells what its hand holds.                             *)
LEMMA HandKinds ==
  ASSUME NEW hand \in Hand
  PROVE  /\ hand.pc = "sampling" => hand.did \in Did
         /\ hand.pc = "expanding" => hand.task \in ExpandTask
         /\ hand.pc \in {"profiling", "listing"} => hand \in Media
         /\ hand.pc = "listed" => hand \in Found
         /\ hand.pc = "asking" => hand \in Asking
         /\ hand.pc = "ingesting" => hand \in Ingesting
<1>1. CASE hand = IdleHand
  BY <1>1 DEF IdleHand
<1>2. ASSUME NEW d \in SampleTask, hand = SamplingOf(d)
      PROVE  hand.pc = "sampling" /\ hand.did \in Did
  BY <1>2, CampaignAssumption DEF SamplingOf
<1>3. ASSUME NEW t \in ExpandTask, hand = Expanding(t)
      PROVE  hand.pc = "expanding" /\ hand.task \in ExpandTask
  BY <1>3 DEF Expanding
<1>4. CASE hand \in Works
  BY <1>2, <1>3, <1>4 DEF Works
<1>5. CASE hand \in Media
  BY <1>5 DEF Media
<1>6. CASE hand \in Found
  BY <1>6 DEF Found
<1>7. CASE hand \in Asking
  BY <1>7 DEF Asking
<1>8. CASE hand \in Ingesting
  BY <1>8 DEF Ingesting
<1> QED
  BY <1>1, <1>4, <1>5, <1>6, <1>7, <1>8 DEF Hand

-----------------------------------------------------------------------------
(* The initial states satisfy the inductive invariant.                     *)
LEMMA InitCampaignInv == CampaignInit => CampaignInv
<1> SUFFICES ASSUME CampaignInit PROVE CampaignInv
  OBVIOUS
<1> USE CampaignAssumption DEF CampaignInit
<1>1. Cardinality({}) = 0 /\ Cardinality(Seed) \in Nat
  BY FiniteCreators, FS_EmptySet
<1>2. [pc |-> "ingesting", parent |-> {}, left |-> Seed, room |-> Cardinality(Seed)] \in Ingesting
  BY <1>1 DEF Ingesting
<1>3. Types
  BY <1>2 DEF Types, Hand, IdleHand
<1>4. WithinBudgets
  BY <1>1 DEF WithinBudgets
<1>5. \A p \in Campaigner, i \in JobId, d \in Did : ~Holds(p, i, d)
  BY DEF Holds, IdleHand
<1> QED
  BY <1>1, <1>3, <1>4, <1>5 DEF CampaignInv, OneHolder, RoomLeft, FanoutWithinLimit

(* Each step keeps the types and the budgets.                              *)
LEMMA BudgetsStep ==
  Types /\ WithinBudgets /\ [CampaignNext]_campaignVars => Types' /\ WithinBudgets'
<1> SUFFICES ASSUME Types, WithinBudgets, [CampaignNext]_campaignVars
             PROVE  Types' /\ WithinBudgets'
  OBVIOUS
<1> USE CampaignAssumption DEF Types, WithinBudgets, counters
<1>1. IdleHand \in Hand
  BY DEF Hand
<1>2. ASSUME NEW p \in Campaigner, SourcesDone(p) \/ CampaignEnds(p) \/ CampaignFails(p)
      PROVE  Types' /\ WithinBudgets'
  <2>1. hands' \in [Campaigner -> [JobId -> Hand]]
    BY <1>2, <1>1 DEF SourcesDone, CampaignEnds, CampaignFails
  <2> QED
    BY <1>2, <2>1 DEF SourcesDone, CampaignEnds, CampaignFails
<1>3. ASSUME NEW p \in Campaigner, ClaimBatch(p) PROVE Types' /\ WithinBudgets'
  <2>1. JobCount \in Nat /\ TaskBudget - tasks[p] \in Nat
    BY <1>3
  <2>2. PICK n \in 1 .. Min({JobCount, TaskBudget - tasks[p]}) : \E batch \in [1 .. n -> Works] :
          /\ hands' = [hands EXCEPT ![p] = [k \in JobId |-> IF k \in 1 .. n THEN batch[k] ELSE IdleHand]]
          /\ tasks' = [tasks EXCEPT ![p] = @ + n]
    BY <1>3 DEF ClaimBatch
  <2>3. PICK batch \in [1 .. n -> Works] :
          /\ hands' = [hands EXCEPT ![p] = [k \in JobId |-> IF k \in 1 .. n THEN batch[k] ELSE IdleHand]]
          /\ tasks' = [tasks EXCEPT ![p] = @ + n]
    BY <2>2
  <2>4. /\ Min({JobCount, TaskBudget - tasks[p]}) \in Nat
        /\ Min({JobCount, TaskBudget - tasks[p]}) <= TaskBudget - tasks[p]
    BY <2>1, MinOfTwo
  <2>5. n <= TaskBudget - tasks[p] /\ n \in Nat
    BY <2>1, <2>4
  <2>6. [k \in JobId |-> IF k \in 1 .. n THEN batch[k] ELSE IdleHand] \in [JobId -> Hand]
    BY DEF Hand
  <2>7. hands' \in [Campaigner -> [JobId -> Hand]]
    BY <2>3, <2>6
  <2>8. tasks' \in [Campaigner -> Nat] /\ \A q \in Campaigner : tasks'[q] <= TaskBudget
    BY <2>3, <2>5
  <2> QED
    BY <1>3, <2>7, <2>8 DEF ClaimBatch
<1>4. ASSUME NEW p \in Campaigner, NEW k \in JobId, NEW hand \in Hand, Become(p, k, hand)
      PROVE  hands' \in [Campaigner -> [JobId -> Hand]]
  BY <1>4 DEF Become
<1>5. ASSUME NEW p \in Campaigner, Request(p)
      PROVE  /\ requests' \in [Campaigner -> Nat]
             /\ \A q \in Campaigner : requests'[q] <= RequestBudget[q]
  BY <1>5 DEF Request, Granted
<1>6. ASSUME NEW p \in Campaigner, NEW k \in JobId, Refused(p, k) PROVE Types' /\ WithinBudgets'
  <2>1. hands' \in [Campaigner -> [JobId -> Hand]]
    BY <1>4, <1>1, <1>6 DEF Refused
  <2> QED
    BY <1>6, <2>1 DEF Refused
<1>7. ASSUME NEW p \in Campaigner, NEW k \in JobId, JobFails(p, k) \/ Ingested(p, k)
      PROVE  Types' /\ WithinBudgets'
  <2>1. hands' \in [Campaigner -> [JobId -> Hand]]
    BY <1>4, <1>1, <1>7 DEF JobFails, Ingested
  <2> QED
    BY <1>7, <2>1 DEF JobFails, Ingested
<1>8. ASSUME NEW p \in Campaigner, NEW k \in JobId, SampleBegins(p, k)
      PROVE  Types' /\ WithinBudgets'
  <2>1. hands[p][k].did \in Did
    BY <1>8, HandKinds DEF SampleBegins, InHand
  <2>2. MediaLeft(p) \in Nat /\ InitialSample \in Nat
    BY DEF MediaLeft
  <2>3. Min({InitialSample, MediaLeft(p)}) \in Nat
    BY <2>2, MinOfTwo
  <2>4. [pc |-> IF hands[p][k].did \in profiles[p] THEN "listing" ELSE "profiling",
         did |-> hands[p][k].did, had |-> 0, want |-> Min({InitialSample, MediaLeft(p)})] \in Media
    BY <2>1, <2>3 DEF Media
  <2>5. hands' \in [Campaigner -> [JobId -> Hand]]
    BY <1>4, <1>1, <1>8, <2>4 DEF SampleBegins, Hand
  <2> QED
    BY <1>8, <2>5 DEF SampleBegins
<1>9. ASSUME NEW p \in Campaigner, NEW k \in JobId, SampleProfiles(p, k)
      PROVE  Types' /\ WithinBudgets'
  <2>1. CASE Refused(p, k)
    BY <1>6, <2>1
  <2>2. CASE ~Refused(p, k)
    <3>1. hands[p][k] \in Media
      BY <1>9, HandKinds DEF SampleProfiles, InHand
    <3>2. [hands[p][k] EXCEPT !.pc = "listing"] \in Hand
      BY <3>1 DEF Media, Hand
    <3>3. hands' \in [Campaigner -> [JobId -> Hand]]
      BY <1>4, <1>9, <2>2, <3>2 DEF SampleProfiles
    <3> QED
      BY <1>5, <1>9, <2>2, <3>3 DEF SampleProfiles
  <2> QED
    BY <2>1, <2>2
<1>10. ASSUME NEW p \in Campaigner, NEW k \in JobId, ListMedia(p, k) PROVE Types' /\ WithinBudgets'
  <2>1. CASE Refused(p, k)
    BY <1>6, <2>1
  <2>2. CASE ~Refused(p, k)
    <3>1. hands[p][k] \in Media
      BY <1>10, HandKinds DEF ListMedia, InHand
    <3>2. \A found \in 0 .. hands[p][k].want :
            [pc |-> "listed", did |-> hands[p][k].did, had |-> hands[p][k].had, found |-> found] \in Hand
      BY <3>1 DEF Media, Found, Hand
    <3>3. hands' \in [Campaigner -> [JobId -> Hand]]
      BY <1>4, <1>10, <2>2, <3>2 DEF ListMedia
    <3> QED
      BY <1>5, <1>10, <2>2, <3>3 DEF ListMedia
  <2> QED
    BY <2>1, <2>2
<1>11. ASSUME NEW p \in Campaigner, NEW k \in JobId, ReserveMedia(p, k)
       PROVE  Types' /\ WithinBudgets'
  <2>1. hands[p][k] \in Found
    BY <1>11, HandKinds DEF ReserveMedia, InHand
  <2> DEFINE taken == Reserved(p, hands[p][k].found)
  <2>2. MediaLeft(p) \in Nat /\ hands[p][k].found \in Nat
    BY <2>1 DEF MediaLeft, Found
  <2>3. taken \in Nat /\ taken <= MediaLeft(p)
    <3>1. PICK found \in Nat, left \in Nat : found = hands[p][k].found /\ left = MediaLeft(p)
      BY <2>2
    <3>2. Min({found, left}) \in Nat /\ Min({found, left}) <= left
      BY MinOfTwo
    <3> QED
      BY <3>1, <3>2 DEF Reserved
  <2>4. mediaCount' = [mediaCount EXCEPT ![p] = @ + taken]
    BY <1>11 DEF ReserveMedia
  <2> HIDE DEF taken
  <2>5. mediaCount' \in [Campaigner -> Nat] /\ \A q \in Campaigner : mediaCount'[q] <= MediaBudget
    BY <2>3, <2>4 DEF MediaLeft
  <2>6. [pc |-> "listing", did |-> hands[p][k].did, had |-> taken, want |-> DeepSample] \in Hand
    BY <2>1, <2>3 DEF Found, Media, Hand
  <2>7. hands' \in [Campaigner -> [JobId -> Hand]]
    BY <1>4, <1>1, <1>11, <2>6 DEF ReserveMedia, taken
  <2> QED
    BY <1>11, <2>5, <2>7 DEF ReserveMedia
<1>12. ASSUME NEW p \in Campaigner, NEW k \in JobId, ExpandBegins(p, k)
       PROVE  Types' /\ WithinBudgets'
  <2>1. hands[p][k].task \in ExpandTask
    BY <1>12, HandKinds DEF ExpandBegins, InHand
  <2> DEFINE t == hands[p][k].task
             d == t[2]
             left == MaxFanout - Cardinality(children[d])
  <2>2. d \in Did /\ Listed[t] \in SUBSET Did
    BY <2>1
  <2>3. Cardinality(children[d]) \in Nat
    BY <2>2, FiniteCreators
  <2>4. CASE Cardinality(children[d]) >= MaxFanout
    <3>1. Become(p, k, IdleHand) /\ UNCHANGED contended
      BY <1>12, <2>3, <2>4 DEF ExpandBegins
    <3> QED
      BY <1>4, <1>1, <1>12, <3>1 DEF ExpandBegins
  <2>5. CASE ~(Cardinality(children[d]) >= MaxFanout)
    <3>1. left \in Nat /\ KindLimit \in Nat
      BY <2>3, <2>5
    <3>2. Min({KindLimit, left}) \in Nat
      BY <3>1, MinOfTwo
    <3>3. [pc |-> "asking", parent |-> {d}, list |-> Listed[t], room |-> Min({KindLimit, left})]
            \in Hand
      BY <2>2, <3>2 DEF Asking, Hand
    <3>4. /\ Become(p, k, [pc |-> "asking", parent |-> {d}, list |-> Listed[t],
                           room |-> Min({KindLimit, left})])
          /\ contended' \subseteq Did
      BY <1>12, <2>2, <2>5 DEF ExpandBegins
    <3> HIDE DEF t, d, left
    <3>5. hands' \in [Campaigner -> [JobId -> Hand]]
      BY <1>4, <3>3, <3>4
    <3> QED
      BY <1>12, <3>4, <3>5 DEF ExpandBegins
  <2> QED
    BY <2>4, <2>5
<1>13. ASSUME NEW p \in Campaigner, NEW k \in JobId, AskOracle(p, k) PROVE Types' /\ WithinBudgets'
  <2>1. CASE Refused(p, k)
    BY <1>6, <2>1
  <2>2. CASE ~Refused(p, k)
    <3>1. hands[p][k] \in Asking
      BY <1>13, HandKinds DEF AskOracle, InHand
    <3>2. [pc |-> "ingesting", parent |-> hands[p][k].parent, left |-> hands[p][k].list,
           room |-> hands[p][k].room] \in Hand
      BY <3>1 DEF Asking, Ingesting, Hand
    <3>3. hands' \in [Campaigner -> [JobId -> Hand]]
      BY <1>4, <1>13, <2>2, <3>2 DEF AskOracle
    <3> QED
      BY <1>5, <1>13, <2>2, <3>3 DEF AskOracle
  <2> QED
    BY <2>1, <2>2
<1>14. ASSUME NEW p \in Campaigner, NEW k \in JobId, Ingest(p, k) PROVE Types' /\ WithinBudgets'
  <2>1. hands[p][k] \in Ingesting /\ hands[p][k].room > 0
    BY <1>14, HandKinds DEF Ingest, InHand
  <2>2. PICK d \in hands[p][k].left :
          \/ Record(p, k, d) /\ d \in profiles[p] /\ UNCHANGED <<phase, requests, counters, contended>>
          \/ /\ Request(p) /\ UNCHANGED <<phase, counters, contended>>
             /\ \/ Record(p, k, d)
                \/ Consume(p, k, d) /\ UNCHANGED <<seen, profiles, children>>
          \/ Refused(p, k)
    BY <1>14 DEF Ingest
  <2>3. d \in Did
    BY <2>1 DEF Ingesting
  <2>4. CASE Refused(p, k)
    BY <1>6, <2>4
  <2>5. ASSUME Consume(p, k, d) PROVE hands' \in [Campaigner -> [JobId -> Hand]]
    <3>1. [hands[p][k] EXCEPT !.left = @ \ {d}, !.room = @ - 1] \in Ingesting
      <4> DEFINE r == hands[p][k]
      <4>1. r.left \ {d} \in SUBSET Did /\ r.room - 1 \in Nat
        BY <2>1 DEF Ingesting
      <4>2. ASSUME NEW L \in SUBSET Did, NEW n \in Nat
            PROVE  [r EXCEPT !.left = L, !.room = n] \in Ingesting
        BY <2>1 DEF Ingesting
      <4> QED
        BY <4>1, <4>2
    <3>2. [hands[p][k] EXCEPT !.left = @ \ {d}, !.room = @ - 1] \in Hand
      BY <3>1 DEF Hand
    <3> QED
      BY <1>4, <2>5, <3>2 DEF Consume
  <2>6. ASSUME Record(p, k, d)
        PROVE  /\ seen' \in [Campaigner -> SUBSET Did] /\ profiles' \in [Campaigner -> SUBSET Did]
               /\ children' \in [Did -> SUBSET Did]
               /\ \A q \in Campaigner : /\ profiles'[q] \subseteq seen'[q]
                                        /\ Cardinality(seen'[q]) <= CreatorBudget
    <3>1. CASE UNCHANGED <<seen, profiles, children>>
      BY <3>1
    <3>2. CASE ~UNCHANGED <<seen, profiles, children>>
      <4>1. /\ d \in seen[p] \/ Cardinality(seen[p]) < CreatorBudget
            /\ seen' = [seen EXCEPT ![p] = @ \union {d}]
            /\ profiles' = [profiles EXCEPT ![p] = @ \union {d}]
            /\ children' = [e \in Did |-> IF hands[p][k].parent = {e} THEN children[e] \union {d}
                                          ELSE children[e]]
        BY <2>6, <3>2 DEF Record
      <4>2. Cardinality(seen[p]) \in Nat /\ Cardinality(seen[p] \union {d}) \in Nat
        BY <2>3, FiniteCreators
      <4>3. Cardinality(seen[p] \union {d}) <= CreatorBudget
        <5>1. /\ Cardinality(seen[p] \union {d}) <= Cardinality(seen[p]) + 1
              /\ d \in seen[p] => Cardinality(seen[p] \union {d}) = Cardinality(seen[p])
          BY <2>3, OneMore
        <5> QED
          BY <4>1, <4>2, <5>1
      <4> QED
        BY <2>3, <4>1, <4>3
    <3> QED
      BY <3>1, <3>2
  <2>7. CASE ~Refused(p, k)
    <3>1. Consume(p, k, d)
      BY <2>2, <2>7 DEF Record
    <3>2. Record(p, k, d) \/ UNCHANGED <<seen, profiles, children>>
      BY <2>2, <2>7
    <3>3. /\ UNCHANGED <<phase, counters, contended>>
          /\ Request(p) \/ UNCHANGED requests
      BY <2>2, <2>7
    <3> QED
      BY <1>5, <2>5, <2>6, <3>1, <3>2, <3>3
  <2> QED
    BY <2>4, <2>7
<1>15. CASE UNCHANGED campaignVars
  BY <1>15 DEF campaignVars
<1> QED
  BY <1>2, <1>3, <1>6, <1>7, <1>8, <1>9, <1>10, <1>11, <1>12, <1>13, <1>14, <1>15 DEF CampaignNext

-----------------------------------------------------------------------------
(* Expansion.                                                              *)

(* A step that expands nobody: no job comes to hold a creator, and who     *)
(* holds one has no more room than before.                                 *)
Quiet ==
  /\ children' = children /\ contended' = contended
  /\ \A p \in Campaigner, k \in JobId, d \in Did :
       Holds(p, k, d)' => Holds(p, k, d) /\ hands'[p][k].room <= hands[p][k].room

(* Such a step keeps the room of who expands, and with it the limit.       *)
LEMMA QuietKeeps ==
  ASSUME Types, Types', Quiet, OneHolder, RoomLeft, FanoutWithinLimit
  PROVE  OneHolder' /\ RoomLeft' /\ FanoutWithinLimit'
<1>1. OneHolder'
  BY DEF OneHolder, Quiet
<1>2. ASSUME NEW d \in (Did \ contended)', NEW p \in Campaigner, NEW k \in JobId, Holds(p, k, d)'
      PROVE  Cardinality(children'[d]) + hands'[p][k].room <= MaxFanout
  <2>1. /\ Holds(p, k, d) /\ hands'[p][k].room <= hands[p][k].room
        /\ children'[d] = children[d] /\ d \in Did \ contended
    BY <1>2 DEF Quiet
  <2>2. Cardinality(children[d]) + hands[p][k].room <= MaxFanout
    BY <2>1 DEF RoomLeft
  <2>3. hands[p][k] \in Asking \union Ingesting /\ hands'[p][k] \in Asking \union Ingesting
    BY <1>2, <2>1, HandKinds DEF Types, Holds
  <2>4. hands[p][k].room \in Nat /\ hands'[p][k].room \in Nat /\ Cardinality(children[d]) \in Nat
    BY <2>1, <2>3, FiniteCreators DEF Types, Asking, Ingesting
  <2> QED
    BY <2>1, <2>2, <2>4, CampaignAssumption
<1>3. RoomLeft'
  BY <1>2 DEF RoomLeft
<1>4. FanoutWithinLimit'
  BY DEF FanoutWithinLimit, Quiet
<1> QED
  BY <1>1, <1>3, <1>4

(* Every step but taking a creator's lock and recording an edge is quiet.  *)
LEMMA QuietSteps ==
  ASSUME Types, Types', [CampaignNext]_campaignVars
  PROVE  \/ Quiet
         \/ \E p \in Campaigner, k \in JobId :
              ExpandBegins(p, k) \/ (Ingest(p, k) /\ children' # children)
<1> USE DEF counters
<1>1. ASSUME NEW p \in Campaigner, NEW k \in JobId, NEW hand, Become(p, k, hand),
             UNCHANGED <<children, contended>>,
             \A d \in Did : /\ hand.pc \in {"asking", "ingesting"} /\ hand.parent = {d}
                            => Holds(p, k, d) /\ hand.room <= hands[p][k].room
      PROVE  Quiet
  <2>1. SUFFICES ASSUME NEW q \in Campaigner, NEW i \in JobId, NEW d \in Did, Holds(q, i, d)'
                 PROVE  Holds(q, i, d) /\ hands'[q][i].room <= hands[q][i].room
    BY <1>1 DEF Quiet
  <2>2. CASE q = p /\ i = k
    BY <1>1, <2>1, <2>2 DEF Types, Become, Holds
  <2>3. CASE ~(q = p /\ i = k)
    <3>1. hands'[q][i] = hands[q][i]
      BY <1>1, <2>3 DEF Types, Become
    <3>2. Holds(q, i, d)
      BY <2>1, <3>1 DEF Holds
    <3>3. hands[q][i].room \in Nat
      BY <3>2, HandKinds DEF Types, Holds, Asking, Ingesting
    <3> QED
      BY <3>1, <3>2, <3>3
  <2> QED
    BY <2>2, <2>3
<1>2. ASSUME UNCHANGED <<hands, children, contended>> PROVE Quiet
  <2>1. \A q \in Campaigner, i \in JobId, d \in Did : Holds(q, i, d) => hands[q][i].room \in Nat
    BY HandKinds DEF Types, Holds, Asking, Ingesting
  <2> QED
    BY <1>2, <2>1 DEF Quiet, Holds
<1>3. ASSUME NEW p \in Campaigner, NEW k \in JobId, NEW hand,
             hand.pc \notin {"asking", "ingesting"}, Become(p, k, hand),
             UNCHANGED <<children, contended>>
      PROVE  Quiet
  BY <1>1, <1>3
<1>4. ASSUME NEW p \in Campaigner, NEW k \in JobId,
             Become(p, k, IdleHand), UNCHANGED <<children, contended>>
      PROVE  Quiet
  BY <1>3, <1>4 DEF IdleHand
<1>5. ASSUME NEW p \in Campaigner, SourcesDone(p) \/ CampaignEnds(p) PROVE Quiet
  BY <1>2, <1>5 DEF SourcesDone, CampaignEnds
<1>6. ASSUME NEW p \in Campaigner, NEW k \in JobId, Refused(p, k) PROVE Quiet
  BY <1>4, <1>6 DEF Refused
<1>7. ASSUME NEW p \in Campaigner, NEW k \in JobId, JobFails(p, k) \/ Ingested(p, k) PROVE Quiet
  BY <1>4, <1>7 DEF JobFails, Ingested
<1>8. ASSUME NEW p \in Campaigner, UNCHANGED <<children, contended>>,
             \A q \in Campaigner \ {p} : hands'[q] = hands[q],
             \A k \in JobId : hands'[p][k].pc \notin {"asking", "ingesting"}
      PROVE  Quiet
  <2>1. \A q \in Campaigner, i \in JobId, d \in Did : Holds(q, i, d) => hands[q][i].room \in Nat
    BY HandKinds DEF Types, Holds, Asking, Ingesting
  <2> QED
    BY <1>8, <2>1 DEF Quiet, Holds
<1>9. ASSUME NEW p \in Campaigner, CampaignFails(p) PROVE Quiet
  <2>1. hands'[p] = [k \in JobId |-> IdleHand] /\ \A q \in Campaigner \ {p} : hands'[q] = hands[q]
    BY <1>9 DEF CampaignFails, Types
  <2>2. \A k \in JobId : hands'[p][k].pc \notin {"asking", "ingesting"}
    BY <2>1 DEF IdleHand
  <2> QED
    BY <1>8, <1>9, <2>1, <2>2 DEF CampaignFails
<1>10. ASSUME NEW p \in Campaigner, ClaimBatch(p) PROVE Quiet
  <2>1. PICK n \in 1 .. Min({JobCount, TaskBudget - tasks[p]}) : \E batch \in [1 .. n -> Works] :
          hands' = [hands EXCEPT ![p] = [k \in JobId |-> IF k \in 1 .. n THEN batch[k] ELSE IdleHand]]
    BY <1>10 DEF ClaimBatch
  <2>2. PICK batch \in [1 .. n -> Works] :
          hands' = [hands EXCEPT ![p] = [k \in JobId |-> IF k \in 1 .. n THEN batch[k] ELSE IdleHand]]
    BY <2>1
  <2>3. \A w \in Works : w.pc \notin {"asking", "ingesting"}
    BY DEF Works, SamplingOf, Expanding
  <2>4. \A k \in JobId : hands'[p][k] \in Works \union {IdleHand}
    BY <2>2 DEF Types
  <2>5. \A k \in JobId : hands'[p][k].pc \notin {"asking", "ingesting"}
    BY <2>3, <2>4 DEF IdleHand
  <2>6. \A q \in Campaigner \ {p} : hands'[q] = hands[q]
    BY <2>2 DEF Types
  <2> QED
    BY <1>8, <1>10, <2>5, <2>6 DEF ClaimBatch
<1>11. ASSUME NEW p \in Campaigner, NEW k \in JobId,
              SampleBegins(p, k) \/ SampleProfiles(p, k) \/ ListMedia(p, k) \/ ReserveMedia(p, k)
       PROVE  Quiet
  <2>1. CASE SampleBegins(p, k)
    <3>1. PICK hand \in {IdleHand, [pc |-> IF hands[p][k].did \in profiles[p] THEN "listing"
                                          ELSE "profiling", did |-> hands[p][k].did,
                                    had |-> 0, want |-> Min({InitialSample, MediaLeft(p)})]} :
            Become(p, k, hand)
      BY <2>1 DEF SampleBegins
    <3>2. hand.pc \notin {"asking", "ingesting"}
      BY <3>1 DEF IdleHand
    <3> QED
      BY <1>3, <2>1, <3>1, <3>2 DEF SampleBegins
  <2>2. CASE SampleProfiles(p, k) /\ ~Refused(p, k)
    <3>1. hands[p][k] \in Media
      BY <2>2, HandKinds DEF SampleProfiles, InHand, Types
    <3>2. [hands[p][k] EXCEPT !.pc = "listing"].pc = "listing"
      BY <3>1 DEF Media
    <3> QED
      BY <1>3, <2>2, <3>2 DEF SampleProfiles
  <2>3. CASE ListMedia(p, k) /\ ~Refused(p, k)
    BY <1>3, <2>3 DEF ListMedia
  <2>4. CASE ReserveMedia(p, k)
    BY <1>3, <1>4, <2>4 DEF ReserveMedia
  <2> QED
    BY <1>6, <1>11, <2>1, <2>2, <2>3, <2>4
<1>12. ASSUME NEW p \in Campaigner, NEW k \in JobId, AskOracle(p, k) PROVE Quiet
  <2>1. CASE Refused(p, k)
    BY <1>6, <2>1
  <2>2. CASE ~Refused(p, k)
    <3> DEFINE hand == [pc |-> "ingesting", parent |-> hands[p][k].parent, left |-> hands[p][k].list,
                        room |-> hands[p][k].room]
    <3>1. hands[p][k] \in Asking /\ hands[p][k].pc = "asking"
      BY <1>12, HandKinds DEF AskOracle, InHand, Types
    <3>2. \A d \in Did : hand.parent = {d} => Holds(p, k, d) /\ hand.room <= hands[p][k].room
      BY <3>1 DEF Asking, Holds
    <3>3. Become(p, k, hand) /\ UNCHANGED <<children, contended>>
      BY <1>12, <2>2 DEF AskOracle
    <3> QED
      BY <1>1, <3>2, <3>3
  <2> QED
    BY <2>1, <2>2
<1>13. ASSUME NEW p \in Campaigner, NEW k \in JobId, Ingest(p, k), children' = children PROVE Quiet
  <2>1. CASE Refused(p, k)
    BY <1>6, <2>1
  <2>2. CASE ~Refused(p, k)
    <3>1. PICK d \in hands[p][k].left : Consume(p, k, d)
      BY <1>13, <2>2 DEF Ingest, Record
    <3> DEFINE hand == [hands[p][k] EXCEPT !.left = @ \ {d}, !.room = @ - 1]
    <3>2. hands[p][k] \in Ingesting /\ hands[p][k].pc = "ingesting"
      BY <1>13, HandKinds DEF Ingest, InHand, Types
    <3>3. hand.parent = hands[p][k].parent /\ hand.room = hands[p][k].room - 1 /\ hands[p][k].room \in Nat
      BY <3>2 DEF Ingesting
    <3>4. \A e \in Did : hand.parent = {e} => Holds(p, k, e) /\ hand.room <= hands[p][k].room
      BY <3>2, <3>3 DEF Holds
    <3>5. Become(p, k, hand) /\ UNCHANGED <<children, contended>>
      BY <1>13, <2>2, <3>1 DEF Ingest, Consume
    <3> HIDE DEF hand
    <3> QED
      BY <1>1, <3>4, <3>5
  <2> QED
    BY <2>1, <2>2
<1>14. CASE UNCHANGED campaignVars
  BY <1>2, <1>14 DEF campaignVars
<1> QED
  BY <1>5, <1>7, <1>9, <1>10, <1>11, <1>12, <1>13, <1>14 DEF CampaignNext

(* Who takes the lock of a creator starts with the room there is; the      *)
(* creator is contended if another process is at it.                       *)
LEMMA ExpandBeginsKeeps ==
  ASSUME Types, Types', OneHolder, RoomLeft, FanoutWithinLimit,
         NEW p \in Campaigner, NEW k \in JobId, ExpandBegins(p, k)
  PROVE  OneHolder' /\ RoomLeft' /\ FanoutWithinLimit'
<1> DEFINE t == hands[p][k].task
           d == t[2]
           left == MaxFanout - Cardinality(children[d])
           hand == [pc |-> "asking", parent |-> {d}, list |-> Listed[t],
                    room |-> Min({KindLimit, left})]
<1>1. hands[p][k].pc = "expanding" /\ children' = children
  BY DEF ExpandBegins, InHand
<1>2. d \in Did
  BY <1>1, HandKinds, CampaignAssumption DEF Types
<1>3. Cardinality(children[d]) \in Nat
  BY <1>2, FiniteCreators DEF Types
<1>4. FanoutWithinLimit'
  BY <1>1 DEF ExpandBegins, FanoutWithinLimit
<1>5. \A q \in Campaigner, i \in JobId : q # p \/ i # k => hands'[q][i] = hands[q][i]
  BY DEF ExpandBegins, Become, Types
<1>6. CASE Cardinality(children[d]) >= MaxFanout
  <2>1. hands'[p][k] = IdleHand /\ contended' = contended
    BY <1>6 DEF ExpandBegins, Become, Types
  <2>2. \A q \in Campaigner, i \in JobId, e \in Did :
          Holds(q, i, e)' => Holds(q, i, e) /\ hands'[q][i] = hands[q][i]
    BY <1>5, <2>1 DEF Holds, IdleHand
  <2> QED
    BY <1>1, <1>4, <2>1, <2>2 DEF OneHolder, RoomLeft
<1>7. CASE ~(Cardinality(children[d]) >= MaxFanout)
  <2>1. /\ hands'[p][k] = hand
        /\ ExpansionLockFree(p, d)
        /\ contended' = contended \union
             {e \in {d} : \E q \in Campaigner \ {p}, i \in JobId : Holds(q, i, d)}
    <3>1. /\ Become(p, k, hand)
          /\ ExpansionLockFree(p, d)
          /\ contended' = contended \union
               {e \in {d} : \E q \in Campaigner \ {p}, i \in JobId : Holds(q, i, d)}
      BY <1>7 DEF ExpandBegins
    <3>2. Become(p, k, hand) => hands'[p][k] = hand
      BY DEF Become, Types
    <3> QED
      BY <3>1, <3>2
  <2>2. left \in Nat /\ KindLimit \in Nat
    BY <1>3, <1>7, CampaignAssumption
  <2>3. hand.room \in Nat /\ hand.room <= left
    BY <2>2, MinOfTwo
  <2>4. \A e \in Did : Holds(p, k, e)' <=> e = d
    BY <1>2, <2>1 DEF Holds
  <2> HIDE DEF hand, left, d
  <2>5. \A q \in Campaigner, i \in JobId, e \in Did :
          q # p \/ i # k => (Holds(q, i, e)' <=> Holds(q, i, e))
    BY <1>5 DEF Holds
  <2>6. d \notin contended' => \A q \in Campaigner, i \in JobId : ~Holds(q, i, d)
    BY <2>1 DEF ExpansionLockFree
  <2>7. OneHolder'
    BY <2>1, <2>4, <2>5, <2>6 DEF OneHolder
  <2>8. Cardinality(children[d]) + hand.room <= MaxFanout
    BY <1>3, <2>3, CampaignAssumption DEF left
  <2>9. RoomLeft'
    BY <1>1, <1>5, <2>1, <2>4, <2>5, <2>8 DEF RoomLeft
  <2> QED
    BY <1>4, <2>7, <2>9
<1> QED
  BY <1>6, <1>7

(* An edge takes the room it needs.                                        *)
LEMMA RecordKeeps ==
  ASSUME Types, Types', OneHolder, RoomLeft, FanoutWithinLimit,
         NEW p \in Campaigner, NEW k \in JobId, Ingest(p, k), children' # children
  PROVE  OneHolder' /\ RoomLeft' /\ FanoutWithinLimit'
<1>1. hands[p][k] \in Ingesting /\ hands[p][k].pc = "ingesting" /\ hands[p][k].room > 0
  BY HandKinds DEF Ingest, InHand, Types
<1>2. contended' = contended
  BY DEF Ingest, Refused
<1>3. PICK c \in hands[p][k].left :
        /\ Consume(p, k, c)
        /\ children' = [e \in Did |-> IF hands[p][k].parent = {e} THEN children[e] \union {c}
                                      ELSE children[e]]
  BY DEF Ingest, Refused, Record
<1>4. c \in Did
  BY <1>1 DEF Ingesting
<1> DEFINE hand == [hands[p][k] EXCEPT !.left = @ \ {c}, !.room = @ - 1]
<1>5. hand.pc = "ingesting" /\ hand.parent = hands[p][k].parent /\ hand.room = hands[p][k].room - 1
  BY <1>1 DEF Ingesting
<1>6. hands'[p][k] = hand /\ \A q \in Campaigner, i \in JobId : q # p \/ i # k => hands'[q][i] = hands[q][i]
  BY <1>3 DEF Consume, Become, Types
<1> HIDE DEF hand
<1>7. \A q \in Campaigner, i \in JobId, d \in Did : Holds(q, i, d)' <=> Holds(q, i, d)
  BY <1>1, <1>5, <1>6 DEF Holds
<1>8. OneHolder'
  BY <1>2, <1>7 DEF OneHolder
<1>9. ASSUME NEW d \in Did \ contended, hands[p][k].parent = {d}
      PROVE  /\ Cardinality(children'[d]) + hands'[p][k].room <= MaxFanout
             /\ Cardinality(children'[d]) <= MaxFanout
  <2>1. Holds(p, k, d)
    BY <1>1, <1>9 DEF Holds
  <2>2. Cardinality(children[d]) + hands[p][k].room <= MaxFanout
    BY <2>1 DEF RoomLeft
  <2>3. children'[d] = children[d] \union {c} /\ children[d] \in SUBSET Did
    BY <1>3, <1>9 DEF Types
  <2>4. Cardinality(children'[d]) <= Cardinality(children[d]) + 1
    BY <1>4, <2>3, OneMore
  <2>5. Cardinality(children[d]) \in Nat /\ Cardinality(children'[d]) \in Nat
        /\ hands[p][k].room \in Nat
    BY <1>1, FiniteCreators DEF Types, Ingesting
  <2> QED
    BY <1>1, <1>5, <1>6, <2>2, <2>4, <2>5, CampaignAssumption
<1>10. \A d \in Did : hands[p][k].parent # {d} => children'[d] = children[d]
  BY <1>3
<1>11. FanoutWithinLimit'
  BY <1>2, <1>9, <1>10 DEF FanoutWithinLimit
<1>12. ASSUME NEW d \in Did \ contended, NEW q \in Campaigner, NEW i \in JobId, Holds(q, i, d)
       PROVE  Cardinality(children'[d]) + hands'[q][i].room <= MaxFanout
  <2>1. CASE hands[p][k].parent = {d}
    <3>1. Holds(p, k, d)
      BY <1>1, <2>1 DEF Holds
    <3>2. q = p /\ i = k
      BY <1>12, <3>1 DEF OneHolder
    <3> QED
      BY <1>9, <2>1, <3>2
  <2>2. CASE hands[p][k].parent # {d}
    <3>1. q # p \/ i # k
      BY <1>12, <2>2 DEF Holds
    <3> QED
      BY <1>6, <1>10, <1>12, <2>2, <3>1 DEF RoomLeft
  <2> QED
    BY <2>1, <2>2
<1>13. RoomLeft'
  BY <1>2, <1>7, <1>12 DEF RoomLeft
<1> QED
  BY <1>8, <1>11, <1>13

-----------------------------------------------------------------------------
(* The invariant holds in every reachable state.                           *)
LEMMA CampaignInvariant == CampaignSpec => []CampaignInv
<1>1. CampaignInv /\ [CampaignNext]_campaignVars => CampaignInv'
  <2> SUFFICES ASSUME CampaignInv, [CampaignNext]_campaignVars PROVE CampaignInv'
    OBVIOUS
  <2>1. Types' /\ WithinBudgets'
    BY BudgetsStep DEF CampaignInv
  <2>2. OneHolder' /\ RoomLeft' /\ FanoutWithinLimit'
    BY <2>1, QuietSteps, QuietKeeps, ExpandBeginsKeeps, RecordKeeps DEF CampaignInv
  <2> QED
    BY <2>1, <2>2 DEF CampaignInv
<1> QED
  BY InitCampaignInv, <1>1, PTL DEF CampaignSpec

-----------------------------------------------------------------------------
(* The counters keep within the budgets of the configuration, and a        *)
(* campaign counts every creator it has a profile of (CrawlConfig,         *)
(* DiscoveryPipeline).                                                     *)
THEOREM CampaignTypeCorrect == CampaignSpec => []CampaignTypeOK
<1>1. CampaignInv => CampaignTypeOK
  <2> SUFFICES ASSUME CampaignInv PROVE CampaignTypeOK
    OBVIOUS
  <2>1. \A hand \in Hand : hand.pc \in {"idle", "sampling", "profiling", "listing", "listed",
                                        "expanding", "asking", "ingesting"}
    BY DEF Hand, IdleHand, Works, SamplingOf, Expanding, Media, Found, Asking, Ingesting
  <2> QED
    BY <2>1, CampaignAssumption DEF CampaignInv, Types, WithinBudgets, CampaignTypeOK
<1> QED
  BY CampaignInvariant, <1>1, PTL

(* No campaign classifies more media than its budget, whatever its jobs    *)
(* read of it before their requests (_sample_creator).                     *)
THEOREM MediaBudgetKept == CampaignSpec => []MediaWithinBudget
<1>1. CampaignInv => MediaWithinBudget
  BY DEF CampaignInv, WithinBudgets, MediaWithinBudget
<1> QED
  BY CampaignInvariant, <1>1, PTL

(* Where no two processes expand a creator at once, its edges keep within  *)
(* the fan-out limit (_expand_creator, expansion_child_dids).              *)
THEOREM FanoutKept == CampaignSpec => []FanoutWithinLimit
  BY CampaignInvariant, PTL DEF CampaignInv

-----------------------------------------------------------------------------
(***************************************************************************)
(* Proofs about AuthorFeed for any actors and posts, any page sizes, caps  *)
(* and quotas, and any number of collectors.                               *)
(*                                                                         *)
(* A page settles the newest posts below its cursor and no hole between    *)
(* them, so what a scan looked at is always an interval that ends at the   *)
(* mark it will leave (ScanSound), and what its row says after it is one   *)
(* too (RowSound). That a row is read once and written at the end is safe  *)
(* as long as nobody else scans the actor (AloneAt).                       *)
(***************************************************************************)
Turn == [pc : {"choosing", "advancing"}, start : Actor, pos : Nat, total : Nat]
End == {"none", "quota", "reached", "exhausted", "capped"}
Scan == [pc : {"scanning", "scanned", "advancing"}, start : Actor, pos : Nat, total : Nat,
         stop : Nat, newest : Nat, cursor : Nat, pages : Nat, hand : SUBSET Nat, oldest : Nat \ {0},
         end : End]
Recording == [pc : {"recording"}, start : Actor, pos : Nat, total : Nat, stop : Nat, newest : Nat,
              cursor : Nat, oldest : Nat \ {0}, end : End, high : Nat, pendingHigh : Nat]

Run == {NoRun} \union Turn \union Scan \union Recording

FeedTypes ==
  /\ posts \in [Actor -> Nat] /\ \A a \in Actor : posts[a] <= MaxPosts[a]
  /\ high \in [Actor -> Nat] /\ pendingHigh \in [Actor -> Nat] /\ resume \in [Actor -> Nat]
  /\ handled \in [Actor -> SUBSET Nat] /\ \A a \in Actor : handled[a] \subseteq 1 .. posts[a]
  /\ waived \in [Actor -> SUBSET Nat]
  /\ nextActor \in Actor /\ overlapped \subseteq Actor /\ known \subseteq Actor
  /\ run \in [Collector -> Run]
  /\ \A c \in Collector : run[c].pc \in {"scanning", "scanned"} =>
       run[c].hand \subseteq 1 .. posts[ActorAt(c)]
  /\ \A c \in Collector : run[c].pc = "scanning" =>
       run[c].end = "none" /\ Cardinality(run[c].hand) < Quota[c]

\* A collector that has an actor's feed under way.
Busy(c) == run[c].pc \notin {"idle", "choosing"}

Covered(a) == handled[a] \union waived[a] \union NoImage[a]

\* Two collectors are at one actor only where that is remembered.
AloneAt == \A c, d \in Collector :
  c # d /\ Busy(c) /\ Busy(d) /\ ActorAt(c) = ActorAt(d) => ActorAt(c) \in overlapped

\* What the row of an actor says.
RowSound(a) ==
  /\ 1 .. high[a] \subseteq Covered(a)
  /\ resume[a] = 0 <=> pendingHigh[a] = 0
  /\ resume[a] <= pendingHigh[a] /\ pendingHigh[a] <= posts[a]
  /\ resume[a] # 0 => resume[a] .. pendingHigh[a] \subseteq Covered(a)

\* What a scan of an actor has in hand, with everything that was settled before.
Looked(c) == Covered(ActorAt(c)) \union run[c].hand

ScanSound(c) ==
  LET r == run[c] IN
  /\ 1 .. r.stop \subseteq Covered(ActorAt(c))
  /\ r.newest <= posts[ActorAt(c)]
  /\ pendingHigh[ActorAt(c)] # 0 => r.newest = pendingHigh[ActorAt(c)]
  /\ r.oldest .. r.newest \subseteq Looked(c)
  /\ r.end \in {"reached", "exhausted"} => 1 .. r.newest \subseteq Looked(c)
  /\ r.end \in {"none", "capped"} =>
       /\ r.cursor = 0 <=> r.newest = 0
       /\ r.cursor <= r.newest
       /\ r.cursor # 0 => r.cursor .. r.newest \subseteq Looked(c)
  /\ r.end = "capped" => r.cursor # 0
  /\ r.end = "none" /\ r.cursor = 0 => r.oldest > MaxPosts[ActorAt(c)]
  /\ r.pc = "scanned" => r.end # "none"

RecordSound(c) ==
  LET r == run[c]  done == Covered(ActorAt(c)) IN
  /\ 1 .. r.high \subseteq done /\ r.newest <= posts[ActorAt(c)]
  /\ r.pendingHigh # 0 => r.newest = r.pendingHigh
  /\ r.oldest .. r.newest \subseteq done
  /\ r.end \in {"reached", "exhausted"} => 1 .. r.newest \subseteq done
  /\ r.end = "capped" =>
       r.cursor # 0 /\ r.cursor <= r.newest /\ r.cursor .. r.newest \subseteq done
  /\ r.end # "none"

FeedInv ==
  /\ FeedTypes
  /\ AloneAt
  /\ \A a \in Actor \ overlapped : RowSound(a)
  /\ \A c \in Collector : Busy(c) /\ ActorAt(c) \notin overlapped =>
       /\ run[c].pc \in {"scanning", "scanned"} => ScanSound(c)
       /\ run[c].pc = "recording" => RecordSound(c)

-----------------------------------------------------------------------------
(* Sets of posts.                                                          *)

LEMMA GreatestPost ==
  ASSUME NEW n \in Nat, NEW S \in SUBSET (1 .. n), S # {}
  PROVE  Max(S) \in S /\ \A x \in S : x <= Max(S)
<1> DEFINE T == {n - x : x \in S}
<1>1. T \subseteq Nat /\ T # {}
  <2>1. \A x \in S : n - x \in Nat
    OBVIOUS
  <2> QED
    BY <2>1
<1> HIDE DEF T
<1>2. PICK m \in T : \A y \in T : <<y, m>> \notin OpToRel(<, Nat)
  BY <1>1, NatLessThanWellFounded, WFMin, Zenon
<1>3. \A y \in T : ~(y < m)
  BY <1>1, <1>2 DEF OpToRel
<1>4. PICK x \in S : m = n - x
  BY DEF T
<1>5. \A y \in S : x >= y
  <2> SUFFICES ASSUME NEW y \in S PROVE x >= y
    OBVIOUS
  <2>1. n - y \in T
    BY DEF T
  <2> QED
    BY <1>3, <1>4, <2>1
<1> QED
  BY <1>4, <1>5 DEF Max

LEMMA LeastPost ==
  ASSUME NEW S \in SUBSET Nat, S # {}
  PROVE  Min(S) \in S /\ \A x \in S : Min(S) <= x
<1>1. PICK m \in S : \A y \in S : <<y, m>> \notin OpToRel(<, Nat)
  BY NatLessThanWellFounded, WFMin, Zenon
<1>2. \A y \in S : ~(y < m)
  BY <1>1 DEF OpToRel
<1>3. \A y \in S : m =< y
  BY <1>2
<1> QED
  BY <1>3 DEF Min

\* The k newest of a set of posts.
Newest(S, k) == {p \in S : Cardinality({q \in S : q > p}) < k}

LEMMA NewestOf ==
  ASSUME NEW n \in Nat, NEW S \in SUBSET (1 .. n), NEW k \in Int
  PROVE  /\ IsFiniteSet(S) /\ Newest(S, k) \subseteq S
         /\ \A p \in Newest(S, k), q \in S : p <= q => q \in Newest(S, k)
         /\ k > 0 /\ S # {} => Max(S) \in Newest(S, k)
         /\ Cardinality(S) < k => Newest(S, k) = S
<1>1. IsFiniteSet(1 .. n)
  BY FS_Interval
<1>2. IsFiniteSet(S) /\ Cardinality(S) \in Nat
  BY <1>1, FS_Subset, FS_CardinalityType
<1>3. ASSUME NEW T \in SUBSET S PROVE IsFiniteSet(T) /\ Cardinality(T) \in Nat
  BY <1>2, FS_Subset, FS_CardinalityType
<1>4. Newest(S, k) \subseteq S
  BY DEF Newest
<1>5. ASSUME NEW p \in Newest(S, k), NEW q \in S, p <= q PROVE q \in Newest(S, k)
  <2>1. PICK above : above = {x \in S : x > p}
    OBVIOUS
  <2>2. PICK beyond : beyond = {x \in S : x > q}
    OBVIOUS
  <2>3. p \in S /\ Cardinality(above) < k
    BY <2>1 DEF Newest
  <2>4. above \in SUBSET S /\ beyond \in SUBSET above
    <3>1. p \in Nat /\ q \in Nat /\ \A x \in S : x \in Nat
      BY <2>3
    <3>2. \A x \in S : x > q => x > p
      BY <1>5, <3>1
    <3> QED
      BY <2>1, <2>2, <3>2
  <2>5. Cardinality(beyond) <= Cardinality(above)
    BY <1>3, <2>4, FS_Subset
  <2>6. Cardinality(beyond) \in Nat /\ Cardinality(above) \in Nat
    BY <1>3, <2>4
  <2>7. Cardinality(beyond) < k
    BY <2>3, <2>5, <2>6
  <2> QED
    BY <2>2, <2>7 DEF Newest
<1>6. ASSUME k > 0, S # {} PROVE Max(S) \in Newest(S, k)
  <2>1. Max(S) \in S /\ \A x \in S : x <= Max(S)
    BY <1>6, GreatestPost
  <2>2. {q \in S : q > Max(S)} = {}
    <3>1. \A q \in S : q \in Nat
      OBVIOUS
    <3>2. PICK m \in S : m = Max(S)
      BY <2>1
    <3>3. \A q \in S : ~(q > m)
      BY <2>1, <3>1, <3>2
    <3> QED
      BY <3>2, <3>3
  <2>3. Cardinality({q \in S : q > Max(S)}) = 0
    BY <2>2, FS_EmptySet
  <2> QED
    BY <1>6, <2>1, <2>3 DEF Newest
<1>7. ASSUME Cardinality(S) < k PROVE Newest(S, k) = S
  <2> SUFFICES ASSUME NEW p \in S PROVE Cardinality({q \in S : q > p}) < k
    BY DEF Newest
  <2>1. PICK above : above = {q \in S : q > p}
    OBVIOUS
  <2>2. above \in SUBSET S
    BY <2>1
  <2>3. Cardinality(above) <= Cardinality(S) /\ Cardinality(above) \in Nat
    BY <1>2, <1>3, <2>2, FS_Subset
  <2>4. Cardinality(above) < k
    BY <1>2, <1>7, <2>3
  <2> QED
    BY <2>1, <2>4
<1> QED
  BY <1>2, <1>4, <1>5, <1>6, <1>7

\* The newest post a page after a cursor can have.
Top(a, cursor) == IF cursor = 0 \/ cursor > posts[a] THEN posts[a] ELSE cursor - 1

LEMMA PageOf ==
  ASSUME FeedTypes, NEW a \in Actor, NEW cursor \in Nat
  PROVE  /\ Top(a, cursor) \in 0 .. posts[a]
         /\ Page(a, cursor) \in SUBSET (1 .. Top(a, cursor))
         /\ \A p \in Page(a, cursor), q \in 1 .. Top(a, cursor) : p <= q => q \in Page(a, cursor)
         /\ Top(a, cursor) > 0 => Page(a, cursor) # {}
<1>1. posts[a] \in Nat
  BY DEF FeedTypes
<1>2. PICK top : top = Top(a, cursor)
  OBVIOUS
<1>3. top \in 0 .. posts[a]
  BY <1>1, <1>2 DEF Top
<1>4. PICK listed : listed = {p \in 1 .. posts[a] : cursor = 0 \/ p < cursor}
  OBVIOUS
<1>5. listed = 1 .. top
  BY <1>1, <1>2, <1>4 DEF Top
<1>6. Page(a, cursor) = Newest(listed, PageSize)
  BY <1>4 DEF Page, Newest
<1>7. top \in Nat /\ listed \in SUBSET (1 .. top) /\ PageSize \in Int /\ PageSize > 0
  BY <1>1, <1>3, <1>5, AuthorFeedAssumption
<1>8. /\ Newest(listed, PageSize) \subseteq listed
      /\ \A p \in Newest(listed, PageSize), q \in listed : p <= q => q \in Newest(listed, PageSize)
      /\ listed # {} => Max(listed) \in Newest(listed, PageSize)
  BY <1>7, NewestOf
<1>9. top > 0 => listed # {}
  BY <1>5, <1>7
<1> QED
  BY <1>2, <1>3, <1>5, <1>6, <1>8, <1>9

-----------------------------------------------------------------------------
(* Collectors.                                                             *)

LEMMA RunKinds ==
  ASSUME FeedTypes, NEW c \in Collector
  PROVE  /\ run[c].pc = "idle" => run[c] = NoRun
         /\ run[c].pc = "choosing" => run[c] \in Turn
         /\ run[c].pc \in {"scanning", "scanned"} => run[c] \in Scan
         /\ run[c].pc = "recording" => run[c] \in Recording
         /\ run[c].pc = "advancing" => run[c] \in Turn \union Scan
         /\ run[c].pc # "idle" => ActorAt(c) \in Actor
<1>1. run[c] \in Run
  BY DEF FeedTypes
<1>2. /\ run[c].pc = "idle" => run[c] = NoRun
      /\ run[c].pc = "choosing" => run[c] \in Turn
      /\ run[c].pc \in {"scanning", "scanned"} => run[c] \in Scan
      /\ run[c].pc = "recording" => run[c] \in Recording
      /\ run[c].pc = "advancing" => run[c] \in Turn \union Scan
      /\ run[c].pc # "idle" => run[c] \in Turn \union Scan \union Recording
  BY <1>1 DEF Run, NoRun, Turn, Scan, Recording
<1>3. run[c] \in Turn \union Scan \union Recording => run[c].start \in Actor /\ run[c].pos \in Nat
  BY DEF Turn, Scan, Recording
<1>4. ASSUME NEW n \in Nat PROVE n % ActorCount \in Actor
  <2>1. ActorCount \in Nat /\ ActorCount > 0
    BY AuthorFeedAssumption
  <2>2. n % ActorCount \in 0 .. ActorCount - 1
    BY <2>1, Z3
  <2> QED
    BY <2>2 DEF Actor
<1>5. ASSUME NEW s \in Actor, NEW p \in Nat PROVE s + p \in Nat
  <2>1. s \in Nat
    BY AuthorFeedAssumption DEF Actor
  <2> QED
    BY <2>1
<1> QED
  BY <1>2, <1>3, <1>4, <1>5 DEF ActorAt

LEMMA RunMoves ==
  ASSUME FeedTypes, NEW c \in Collector, NEW new \in Run, run' = [run EXCEPT ![c] = new]
  PROVE  /\ run' \in [Collector -> Run] /\ run'[c] = new
         /\ \A d \in Collector \ {c} : run'[d] = run[d] /\ ActorAt(d)' = ActorAt(d)
  BY DEF FeedTypes, ActorAt

\* What a step of c leaves of the other collectors and of the rows.
Kept(c) ==
  /\ \A a \in Actor : Covered(a) \subseteq Covered(a)' /\ posts[a] <= posts'[a]
  /\ overlapped \subseteq overlapped'
  /\ \A d \in Collector \ {c} : run'[d] = run[d]
  /\ \A a \in Actor : pendingHigh'[a] = pendingHigh[a] \/ (Busy(c) /\ ActorAt(c) = a)

CollectorSound(c) ==
  Busy(c) /\ ActorAt(c) \notin overlapped =>
    /\ run[c].pc \in {"scanning", "scanned"} => ScanSound(c)
    /\ run[c].pc = "recording" => RecordSound(c)

LEMMA OthersKept ==
  ASSUME FeedInv, FeedTypes', NEW c \in Collector, Kept(c), NEW d \in Collector \ {c}
  PROVE  CollectorSound(d)'
<1> SUFFICES ASSUME Busy(d)', ActorAt(d)' \notin overlapped'
             PROVE  /\ run'[d].pc \in {"scanning", "scanned"} => ScanSound(d)'
                    /\ run'[d].pc = "recording" => RecordSound(d)'
  BY DEF CollectorSound
<1>1. run'[d] = run[d] /\ ActorAt(d)' = ActorAt(d) /\ Busy(d)
  BY DEF Kept, ActorAt, Busy
<1>2. PICK a : a = ActorAt(d)
  OBVIOUS
<1>3. a \in Actor /\ a \notin overlapped /\ posts[a] \in Nat /\ posts'[a] \in Nat
  BY <1>1, <1>2, RunKinds DEF Busy, FeedInv, FeedTypes, Kept
<1>4. /\ Covered(a) \subseteq Covered(a)' /\ posts[a] <= posts'[a]
      /\ pendingHigh'[a] = pendingHigh[a]
  BY <1>1, <1>2, <1>3 DEF Kept, FeedInv, AloneAt
<1>5. ASSUME run[d].pc \in {"scanning", "scanned"} PROVE ScanSound(d)'
  <2>1. ScanSound(d) /\ run[d] \in Scan
    BY <1>1, <1>2, <1>3, <1>5, RunKinds DEF FeedInv
  <2>2. Looked(d) \subseteq Looked(d)'
    BY <1>1, <1>2, <1>4 DEF Looked
  <2>3. run[d].newest <= posts'[a]
    BY <1>2, <1>3, <1>4, <2>1 DEF ScanSound, Scan
  <2> QED
    BY <1>1, <1>2, <1>4, <2>1, <2>2, <2>3 DEF ScanSound
<1>6. ASSUME run[d].pc = "recording" PROVE RecordSound(d)'
  <2>1. RecordSound(d) /\ run[d] \in Recording
    BY <1>1, <1>2, <1>3, <1>6, RunKinds DEF FeedInv
  <2>2. run[d].newest <= posts'[a]
    BY <1>2, <1>3, <1>4, <2>1 DEF RecordSound, Recording
  <2> QED
    BY <1>1, <1>2, <1>4, <2>1, <2>2 DEF RecordSound
<1> QED
  BY <1>1, <1>5, <1>6

LEMMA RowKept ==
  ASSUME FeedInv, NEW c, Kept(c), NEW a \in Actor \ overlapped', posts[a] \in Nat, posts'[a] \in Nat,
         high'[a] = high[a], pendingHigh'[a] = pendingHigh[a], resume'[a] = resume[a]
  PROVE  RowSound(a)'
<1>1. RowSound(a) /\ Covered(a) \subseteq Covered(a)' /\ posts[a] <= posts'[a]
  BY DEF FeedInv, Kept
<1>2. pendingHigh[a] <= posts'[a]
  BY <1>1 DEF RowSound, FeedInv, FeedTypes
<1> QED
  BY <1>1, <1>2 DEF RowSound

LEMMA AloneKept ==
  ASSUME FeedInv, NEW c \in Collector, Kept(c), Busy(c)' => Busy(c) /\ ActorAt(c)' = ActorAt(c)
  PROVE  AloneAt'
<1>1. \A d \in Collector \ {c} : run'[d] = run[d] /\ ActorAt(d)' = ActorAt(d) /\ (Busy(d)' <=> Busy(d))
  BY DEF Kept, ActorAt, Busy
<1>2. \A d \in Collector : Busy(d)' => Busy(d) /\ ActorAt(d)' = ActorAt(d)
  BY <1>1
<1>3. ASSUME NEW d \in Collector, NEW e \in Collector, d # e, Busy(d)', Busy(e)', ActorAt(d)' = ActorAt(e)'
      PROVE  ActorAt(d)' \in overlapped'
  BY <1>2, <1>3 DEF FeedInv, AloneAt, Kept
<1> QED
  BY <1>3 DEF AloneAt

LEMMA StepSound ==
  ASSUME FeedInv, FeedTypes', AloneAt', NEW c \in Collector, Kept(c), CollectorSound(c)',
         \A a \in Actor \ overlapped' : RowSound(a)'
  PROVE  FeedInv'
<1>1. \A d \in Collector : CollectorSound(d)'
  BY OthersKept
<1> QED
  BY <1>1 DEF FeedInv, CollectorSound

-----------------------------------------------------------------------------
(* The steps.                                                              *)

LEMMA PublishStep == ASSUME FeedInv, NEW a \in Actor, Publish(a) PROVE FeedInv'
<1>1. /\ UNCHANGED <<high, pendingHigh, resume, known, nextActor, run, handled, waived, overlapped>>
      /\ posts[a] < MaxPosts[a] /\ posts' = [posts EXCEPT ![a] = posts[a] + 1]
  BY DEF Publish, marks, feedHistory
<1>2. /\ posts \in [Actor -> Nat] /\ MaxPosts \in [Actor -> Nat]
      /\ \A b \in Actor : posts[b] <= MaxPosts[b]
  BY AuthorFeedAssumption DEF FeedInv, FeedTypes
<1>3. \A b \in Actor : posts'[b] \in Nat /\ posts[b] <= posts'[b] /\ posts'[b] <= MaxPosts[b]
  BY <1>1, <1>2
<1>4. FeedTypes'
  <2>1. posts' \in [Actor -> Nat]
    BY <1>1, <1>2
  <2>2. \A b \in Actor : handled[b] \subseteq 1 .. posts'[b]
    BY <1>2, <1>3 DEF FeedInv, FeedTypes
  <2>3. \A d \in Collector : ActorAt(d)' = ActorAt(d)
    BY <1>1 DEF ActorAt
  <2>4. ASSUME NEW d \in Collector, run[d].pc \in {"scanning", "scanned"}
        PROVE  run[d].hand \subseteq 1 .. posts'[ActorAt(d)]
    <3>1. ActorAt(d) \in Actor /\ run[d].hand \subseteq 1 .. posts[ActorAt(d)]
      BY <2>4, RunKinds DEF FeedInv, FeedTypes
    <3> QED
      BY <1>2, <1>3, <3>1
  <2> QED
    BY <1>1, <1>3, <2>1, <2>2, <2>3, <2>4 DEF FeedInv, FeedTypes
<1>5. \A c \in Collector : Kept(c)
  BY <1>1, <1>3 DEF Kept, Covered
<1>6. AloneAt'
  BY <1>1 DEF FeedInv, AloneAt, Busy, ActorAt
<1>7. \A b \in Actor \ overlapped' : RowSound(b)'
  <2> SUFFICES ASSUME NEW b \in Actor \ overlapped' PROVE RowSound(b)'
    OBVIOUS
  <2>1. RowSound(b) /\ pendingHigh[b] \in Nat
    BY <1>1 DEF FeedInv, FeedTypes
  <2>2. pendingHigh[b] <= posts'[b]
    BY <1>2, <1>3, <2>1 DEF RowSound
  <2> QED
    BY <1>1, <2>1, <2>2 DEF RowSound, Covered
<1>8. ASSUME NEW c \in Collector PROVE CollectorSound(c)'
  <2> SUFFICES ASSUME Busy(c), ActorAt(c) \notin overlapped
               PROVE  /\ run[c].pc \in {"scanning", "scanned"} => ScanSound(c)'
                      /\ run[c].pc = "recording" => RecordSound(c)'
    BY <1>1 DEF CollectorSound, Busy, ActorAt
  <2>1. ActorAt(c) \in Actor
    BY RunKinds DEF Busy, FeedInv
  <2>2. PICK b \in Actor : b = ActorAt(c) /\ b = ActorAt(c)'
    BY <1>1, <2>1 DEF ActorAt
  <2>3. ASSUME run[c].pc \in {"scanning", "scanned"} PROVE ScanSound(c)'
    <3>1. ScanSound(c) /\ run[c].newest \in Nat
      BY <2>3, RunKinds DEF FeedInv, Scan
    <3>2. run[c].newest <= posts'[b]
      BY <1>2, <1>3, <2>2, <3>1 DEF ScanSound
    <3> QED
      BY <1>1, <2>2, <3>1, <3>2 DEF ScanSound, Looked, Covered
  <2>4. ASSUME run[c].pc = "recording" PROVE RecordSound(c)'
    <3>1. RecordSound(c) /\ run[c].newest \in Nat
      BY <2>4, RunKinds DEF FeedInv, Recording
    <3>2. run[c].newest <= posts'[b]
      BY <1>2, <1>3, <2>2, <3>1 DEF RecordSound
    <3> QED
      BY <1>1, <2>2, <3>1, <3>2 DEF RecordSound, Covered
  <2> QED
    BY <2>3, <2>4
<1> QED
  BY <1>4, <1>6, <1>7, <1>8 DEF FeedInv, CollectorSound

(* A run that begins, and the seeds of a refresh.                          *)
LEMMA BeginRunStep == ASSUME FeedInv, NEW c \in Collector, BeginRun(c) PROVE FeedInv'
<1>1. PICK new : new = [pc |-> "choosing", start |-> nextActor, pos |-> 0, total |-> 0]
  OBVIOUS
<1>2. /\ run' = [run EXCEPT ![c] = new] /\ run[c].pc = "idle"
      /\ UNCHANGED <<posts, nextActor, handled, overlapped, pendingHigh, resume>>
  BY <1>1 DEF BeginRun, marks
<1>3. new \in Run /\ new.pc = "choosing"
  BY <1>1 DEF FeedInv, FeedTypes, Run, Turn
<1>4. /\ run' \in [Collector -> Run] /\ run'[c] = new
      /\ \A d \in Collector \ {c} : run'[d] = run[d] /\ ActorAt(d)' = ActorAt(d)
  BY <1>2, <1>3, RunMoves DEF FeedInv
<1>5. ASSUME NEW a \in Actor
      PROVE  /\ high'[a] \in Nat /\ waived'[a] \in SUBSET Nat /\ waived[a] \subseteq waived'[a]
             /\ high'[a] = high[a] \/ 1 .. high'[a] \subseteq waived'[a]
  <2>1. high[a] \in Nat /\ waived[a] \in SUBSET Nat
    BY DEF FeedInv, FeedTypes
  <2>2. CASE a \in Unseen /\ c # Nightly
    <3>1. PICK m : m = Max(handled[a])
      OBVIOUS
    <3>2. posts[a] \in Nat /\ handled[a] \in SUBSET (1 .. posts[a])
      BY DEF FeedInv, FeedTypes
    <3>5. handled[a] # {}
      BY <2>2 DEF Unseen
    <3>3. m \in Nat
      <4>1. Max(handled[a]) \in handled[a]
        BY <3>2, <3>5, GreatestPost
      <4> QED
        BY <3>1, <3>2, <4>1
    <3>4. high'[a] = m /\ waived'[a] = waived[a] \union 1 .. m
      BY <2>2, <3>1 DEF BeginRun
    <3> QED
      BY <2>1, <3>3, <3>4
  <2>3. CASE ~(a \in Unseen /\ c # Nightly)
    <3>1. high'[a] = high[a] /\ waived'[a] = waived[a]
      BY <2>3 DEF BeginRun, marks
    <3> QED
      BY <2>1, <3>1
  <2> QED
    BY <2>2, <2>3
<1>6. FeedTypes'
  <2>1. high' \in [Actor -> Nat] /\ waived' \in [Actor -> SUBSET Nat]
    <3>1. \/ high' = high /\ waived' = waived
          \/ /\ high' = [a \in Actor |-> IF a \in Unseen THEN Max(handled[a]) ELSE high[a]]
             /\ waived' = [a \in Actor |-> IF a \in Unseen THEN waived[a] \union 1 .. Max(handled[a])
                                           ELSE waived[a]]
      BY DEF BeginRun, marks
    <3>2. DOMAIN high' = Actor /\ high' = [a \in Actor |-> high'[a]]
      BY <3>1 DEF FeedInv, FeedTypes
    <3>3. DOMAIN waived' = Actor /\ waived' = [a \in Actor |-> waived'[a]]
      BY <3>1 DEF FeedInv, FeedTypes
    <3> QED
      BY <1>5, <3>2, <3>3
  <2>2. known' \subseteq Actor
    BY DEF BeginRun, marks, Unseen, FeedInv, FeedTypes
  <2>3. \A d \in Collector : run'[d].pc \in {"scanning", "scanned"} => d # c
    BY <1>3, <1>4
  <2> QED
    BY <1>2, <1>4, <2>1, <2>2, <2>3 DEF FeedInv, FeedTypes
<1>7. Kept(c)
  <2>1. \A a \in Actor : Covered(a) \subseteq Covered(a)'
    BY <1>2, <1>5 DEF Covered
  <2>2. \A a \in Actor : posts[a] <= posts[a]
    BY DEF FeedInv, FeedTypes
  <2> QED
    BY <1>2, <1>4, <2>1, <2>2 DEF Kept
<1>8. AloneAt' /\ CollectorSound(c)'
  BY <1>3, <1>4, <1>7, AloneKept DEF Busy, CollectorSound
<1>9. ASSUME NEW a \in Actor \ overlapped' PROVE RowSound(a)'
  <2>1. RowSound(a) /\ Covered(a) \subseteq Covered(a)'
    BY <1>2, <1>7 DEF FeedInv, Kept
  <2>2. 1 .. high'[a] \subseteq Covered(a)'
    BY <1>5, <2>1 DEF RowSound, Covered
  <2> QED
    BY <1>2, <2>1, <2>2 DEF RowSound
<1> QED
  BY <1>6, <1>7, <1>8, <1>9, StepSound

(* Steps that leave a collector between two actors, or without a run.      *)
LEMMA LeavingSteps ==
  ASSUME FeedInv, NEW c \in Collector, EndRun(c) \/ Advance(c) \/ ScanFails(c) \/ CollectorDies(c)
  PROVE  FeedInv'
<1>1. PICK new : run' = [run EXCEPT ![c] = new] /\ new \in Run
                 /\ new.pc \in {"idle", "choosing", "advancing"}
                 /\ (new.pc = "advancing" => Busy(c) /\ new.start = run[c].start /\ new.pos = run[c].pos)
  <2>1. CASE EndRun(c) \/ CollectorDies(c)
    BY <2>1 DEF EndRun, CollectorDies, Run, NoRun
  <2>2. CASE Advance(c)
    <3>1. PICK r, new : r = run[c] /\ new = [pc |-> "choosing", start |-> r.start, pos |-> r.pos + 1,
                                            total |-> r.total]
      OBVIOUS
    <3>2. r \in Turn \union Scan
      BY <2>2, <3>1, RunKinds DEF Advance, FeedInv
    <3>3. new \in Turn
      BY <3>1, <3>2 DEF Turn, Scan
    <3>4. run' = [run EXCEPT ![c] = new]
      BY <2>2, <3>1 DEF Advance
    <3>5. new \in Run /\ new.pc = "choosing"
      BY <3>1, <3>3 DEF Run
    <3> QED
      BY <3>4, <3>5
  <2>3. CASE ScanFails(c)
    <3>1. PICK r, new : r = run[c] /\ new = [r EXCEPT !.pc = "advancing",
                                                      !.total = r.total + Cardinality(r.hand)]
      OBVIOUS
    <3>7. run[c].pc = "scanning" /\ FeedTypes
      BY <2>3 DEF ScanFails, FeedInv
    <3>2. r \in Scan /\ ActorAt(c) \in Actor
      BY <3>1, <3>7, RunKinds
    <3>8. PICK n \in Nat : n = posts[ActorAt(c)] /\ r.hand \subseteq 1 .. n
      BY <3>1, <3>2, <3>7 DEF FeedTypes
    <3>9. IsFiniteSet(1 .. n)
      BY FS_Interval
    <3>10. IsFiniteSet(r.hand)
      BY <3>8, <3>9, FS_Subset
    <3>3. Cardinality(r.hand) \in Nat
      BY <3>10, FS_CardinalityType
    <3>11. PICK k \in Nat : k = Cardinality(r.hand)
      BY <3>3
    <3>12. new = [r EXCEPT !.pc = "advancing", !.total = r.total + k]
      BY <3>1, <3>11
    <3>13. r.total + k \in Nat
      BY <3>2, <3>11 DEF Scan
    <3>4. new \in Scan /\ new.pc = "advancing" /\ new.start = r.start /\ new.pos = r.pos
      BY <3>2, <3>12, <3>13 DEF Scan
    <3>5. run' = [run EXCEPT ![c] = new]
      BY <2>3, <3>1 DEF ScanFails
    <3>6. Busy(c)
      BY <2>3 DEF ScanFails, Busy
    <3> QED
      BY <3>1, <3>4, <3>5, <3>6 DEF Run
  <2> QED
    BY <2>1, <2>2, <2>3
<1>2. /\ run' \in [Collector -> Run] /\ run'[c] = new
      /\ \A d \in Collector \ {c} : run'[d] = run[d] /\ ActorAt(d)' = ActorAt(d)
  BY <1>1, RunMoves DEF FeedInv
<1>3. /\ UNCHANGED <<posts, high, pendingHigh, resume, waived, overlapped>>
      /\ known' \subseteq Actor /\ nextActor' \in Actor
      /\ handled' = handled \/ (run[c].pc \in {"scanning", "scanned"} /\ handled' = Processed(c))
  <2>1. run[c].pc # "idle" => ActorAt(c) \in Actor
    BY RunKinds DEF FeedInv
  <2>2. CASE EndRun(c)
    BY <2>2 DEF EndRun, marks, feedHistory, FeedInv, FeedTypes
  <2>3. CASE Advance(c)
    <3>1. ActorCount \in Nat /\ ActorCount > 0 /\ ActorAt(c) \in Nat
      BY <2>1, <2>3, AuthorFeedAssumption DEF Advance, Actor
    <3>2. (ActorAt(c) + 1) % ActorCount \in 0 .. ActorCount - 1
      <4>1. PICK n \in Nat : n = ActorAt(c) + 1
        BY <3>1
      <4>2. n % ActorCount \in 0 .. ActorCount - 1
        BY <3>1, Z3
      <4> QED
        BY <4>1, <4>2
    <3>3. nextActor' \in Actor
      BY <2>3, <3>2 DEF Advance, NextPosition, Actor
    <3> QED
      BY <2>3, <3>3 DEF Advance, marks, feedHistory, FeedInv, FeedTypes
  <2>4. CASE ScanFails(c)
    BY <2>1, <2>4 DEF ScanFails, FeedInv, FeedTypes
  <2>5. CASE CollectorDies(c)
    BY <2>5 DEF CollectorDies, marks, FeedInv, FeedTypes
  <2> QED
    BY <2>2, <2>3, <2>4, <2>5
<1>4. /\ handled' \in [Actor -> SUBSET Nat]
      /\ \A a \in Actor : handled[a] \subseteq handled'[a] /\ handled'[a] \subseteq 1 .. posts[a]
  <2>1. CASE handled' = handled
    BY <2>1 DEF FeedInv, FeedTypes
  <2>2. CASE run[c].pc \in {"scanning", "scanned"} /\ handled' = Processed(c)
    <3>1. run[c].hand \in SUBSET Nat /\ run[c].hand \subseteq 1 .. posts[ActorAt(c)]
      BY <2>2, RunKinds DEF Scan, FeedInv, FeedTypes
    <3> QED
      BY <2>2, <3>1 DEF Processed, FeedInv, FeedTypes
  <2> QED
    BY <1>3, <2>1, <2>2
<1>5. FeedTypes'
  <2>1. \A d \in Collector : run'[d].pc \in {"scanning", "scanned"} => d # c
    BY <1>1, <1>2
  <2> QED
    BY <1>2, <1>3, <1>4, <2>1 DEF FeedInv, FeedTypes
<1>6. Kept(c)
  <2>1. \A a \in Actor : Covered(a) \subseteq Covered(a)'
    BY <1>3, <1>4 DEF Covered
  <2>2. \A a \in Actor : posts[a] <= posts[a]
    BY DEF FeedInv, FeedTypes
  <2> QED
    BY <1>2, <1>3, <2>1, <2>2 DEF Kept
<1>7. AloneAt' /\ CollectorSound(c)'
  <2>1. Busy(c)' => Busy(c) /\ ActorAt(c)' = ActorAt(c)
    BY <1>1, <1>2 DEF Busy, ActorAt
  <2>2. run'[c].pc \notin {"scanning", "scanned", "recording"}
    BY <1>1, <1>2
  <2> QED
    BY <1>6, <2>1, <2>2, AloneKept DEF CollectorSound
<1>8. \A a \in Actor \ overlapped' : RowSound(a)'
  <2>1. \A a \in Actor : posts[a] \in Nat /\ posts'[a] \in Nat
    BY <1>3 DEF FeedInv, FeedTypes
  <2> QED
    BY <1>3, <1>6, <2>1, RowKept
<1> QED
  BY <1>5, <1>6, <1>7, <1>8, StepSound

(* The next actor is asked for, from where its row stands.                 *)
LEMMA BeginActorStep == ASSUME FeedInv, NEW c \in Collector, BeginActor(c) PROVE FeedInv'
<1>1. run[c].pc = "choosing" /\ run[c] \in Turn /\ ActorAt(c) \in Actor
  BY RunKinds DEF BeginActor, FeedInv
<1>2. PICK a \in Actor : a = ActorAt(c)
  BY <1>1
<1>3. PICK r : r = run[c]
  OBVIOUS
<1>4. PICK new : new = [pc |-> "scanning", start |-> r.start, pos |-> r.pos, total |-> r.total,
                        stop |-> high[a], newest |-> pendingHigh[a], cursor |-> resume[a],
                        pages |-> 0, hand |-> {}, oldest |-> MaxPosts[a] + 1, end |-> "none"]
  OBVIOUS
<1>5. /\ run' = [run EXCEPT ![c] = new]
      /\ overlapped' = overlapped \union
           {b \in {a} : \E d \in Collector \ {c} :
                          run[d].pc \notin {"idle", "choosing"} /\ ActorAt(d) = a}
      /\ UNCHANGED <<posts, high, pendingHigh, resume, known, nextActor, handled, waived>>
  BY <1>2, <1>3, <1>4 DEF BeginActor, marks
<1>6. /\ high[a] \in Nat /\ pendingHigh[a] \in Nat /\ resume[a] \in Nat /\ posts[a] \in Nat
      /\ MaxPosts[a] \in Nat /\ posts[a] <= MaxPosts[a]
  BY AuthorFeedAssumption DEF FeedInv, FeedTypes
<1>7. new \in Scan
  <2>1. MaxPosts[a] + 1 \in Nat \ {0}
    BY <1>6
  <2> QED
    BY <1>1, <1>3, <1>4, <1>6, <2>1 DEF Turn, Scan, End
<1>8. /\ run' \in [Collector -> Run] /\ run'[c] = new
      /\ \A d \in Collector \ {c} : run'[d] = run[d] /\ ActorAt(d)' = ActorAt(d)
  <2>1. new \in Run
    BY <1>7 DEF Run
  <2> QED
    BY <1>5, <2>1, RunMoves DEF FeedInv
<1>9. ActorAt(c)' = a
  BY <1>2, <1>3, <1>4, <1>8 DEF ActorAt
<1>10. FeedTypes'
  <2>1. Cardinality({}) < Quota[c]
    BY FS_EmptySet, AuthorFeedAssumption
  <2>2. overlapped' \subseteq Actor
    BY <1>5 DEF FeedInv, FeedTypes
  <2>3. new.hand = {} /\ new.end = "none"
    BY <1>4
  <2>4. ASSUME NEW d \in Collector, run'[d].pc \in {"scanning", "scanned"}
        PROVE  /\ run'[d].hand \subseteq 1 .. posts[ActorAt(d)']
               /\ run'[d].pc = "scanning" => run'[d].end = "none" /\ Cardinality(run'[d].hand) < Quota[d]
    <3>1. CASE d = c
      BY <1>8, <2>1, <2>3, <3>1
    <3>2. CASE d # c
      BY <1>8, <2>4, <3>2 DEF FeedInv, FeedTypes
    <3> QED
      BY <3>1, <3>2
  <2> QED
    BY <1>5, <1>8, <2>2, <2>4 DEF FeedInv, FeedTypes
<1>11. Kept(c)
  <2>1. \A b \in Actor : posts[b] <= posts[b]
    BY DEF FeedInv, FeedTypes
  <2> QED
    BY <1>5, <1>8, <2>1 DEF Kept, Covered
<1>12. AloneAt'
  <2> SUFFICES ASSUME NEW d \in Collector, NEW e \in Collector, d # e, Busy(d)', Busy(e)',
                      ActorAt(d)' = ActorAt(e)'
               PROVE  ActorAt(d)' \in overlapped'
    BY DEF AloneAt
  <2>1. \A f \in Collector \ {c} : Busy(f)' <=> Busy(f)
    BY <1>8 DEF Busy
  <2>2. CASE d # c /\ e # c
    BY <1>5, <1>8, <2>1, <2>2 DEF FeedInv, AloneAt
  <2>3. ASSUME NEW f \in Collector \ {c}, Busy(f), ActorAt(f) = a PROVE a \in overlapped'
    BY <1>5, <2>3 DEF Busy
  <2>4. CASE d = c
    BY <1>8, <1>9, <2>1, <2>3, <2>4
  <2>5. CASE e = c
    BY <1>8, <1>9, <2>1, <2>3, <2>5
  <2> QED
    BY <2>2, <2>4, <2>5
<1>13. CollectorSound(c)'
  <2> SUFFICES ASSUME a \notin overlapped' PROVE ScanSound(c)'
    BY <1>4, <1>8, <1>9 DEF CollectorSound
  <2>1. RowSound(a)
    BY <1>5 DEF FeedInv
  <2>2. PICK D : D = Covered(a) /\ D = Covered(a)'
    BY <1>5 DEF Covered
  <2>3. Looked(c)' = D
    BY <1>4, <1>8, <1>9, <2>2 DEF Looked
  <2>4. /\ new.stop = high[a] /\ new.newest = pendingHigh[a] /\ new.cursor = resume[a]
        /\ new.oldest = MaxPosts[a] + 1 /\ new.end = "none" /\ new.pc = "scanning"
    BY <1>4
  <2>5. new.oldest .. new.newest = {} /\ new.oldest > MaxPosts[a] /\ new.newest <= posts[a]
    BY <1>6, <2>1, <2>4 DEF RowSound
  <2>6. /\ 1 .. new.stop \subseteq D
        /\ new.cursor = 0 <=> new.newest = 0
        /\ new.cursor <= new.newest
        /\ new.cursor # 0 => new.cursor .. new.newest \subseteq D
    BY <2>1, <2>2, <2>4 DEF RowSound
  <2>7. posts' = posts /\ pendingHigh' = pendingHigh
    BY <1>5
  <2> QED
    BY <1>8, <1>9, <2>2, <2>3, <2>4, <2>5, <2>6, <2>7 DEF ScanSound
<1>14. \A b \in Actor \ overlapped' : RowSound(b)'
  <2>1. \A b \in Actor : posts[b] \in Nat /\ posts'[b] \in Nat
    BY <1>5 DEF FeedInv, FeedTypes
  <2> QED
    BY <1>5, <1>11, <2>1, RowKept
<1> QED
  BY <1>10, <1>11, <1>12, <1>13, <1>14, StepSound

(* The batch is stored and the row is read.                                *)
LEMMA RecordReadStep == ASSUME FeedInv, NEW c \in Collector, RecordRead(c) PROVE FeedInv'
<1>1. run[c].pc = "scanned" /\ run[c] \in Scan /\ ActorAt(c) \in Actor
  BY RunKinds DEF RecordRead, FeedInv
<1>2. PICK a \in Actor : a = ActorAt(c)
  BY <1>1
<1>3. PICK r \in Scan : r = run[c]
  BY <1>1
<1>4. PICK n \in Nat : n = posts[a] /\ r.hand \subseteq 1 .. n
  BY <1>1, <1>2, <1>3 DEF FeedInv, FeedTypes
<1>5. PICK k \in Nat : k = Cardinality(r.hand)
  <2>1. IsFiniteSet(1 .. n)
    BY FS_Interval
  <2>2. IsFiniteSet(r.hand)
    BY <1>4, <2>1, FS_Subset
  <2> QED
    BY <2>2, FS_CardinalityType
<1>6. PICK new : new = [pc |-> "recording", start |-> r.start, pos |-> r.pos, total |-> r.total + k,
        stop |-> r.stop, newest |-> r.newest, cursor |-> r.cursor, oldest |-> r.oldest,
        end |-> r.end, high |-> high[a], pendingHigh |-> pendingHigh[a]]
  OBVIOUS
<1>7. /\ run' = [run EXCEPT ![c] = new]
      /\ handled' = [handled EXCEPT ![a] = handled[a] \union r.hand]
      /\ UNCHANGED <<posts, high, pendingHigh, resume, known, nextActor, waived, overlapped>>
  BY <1>2, <1>3, <1>5, <1>6 DEF RecordRead, marks, Processed
<1>8. /\ high[a] \in Nat /\ pendingHigh[a] \in Nat
      /\ handled \in [Actor -> SUBSET Nat] /\ \A b \in Actor : handled[b] \subseteq 1 .. posts[b]
  BY DEF FeedInv, FeedTypes
<1>9. new \in Recording
  <2>1. r.total + k \in Nat
    BY <1>3, <1>5 DEF Scan
  <2> QED
    BY <1>3, <1>6, <1>8, <2>1 DEF Scan, Recording
<1>10. /\ run' \in [Collector -> Run] /\ run'[c] = new
       /\ \A d \in Collector \ {c} : run'[d] = run[d] /\ ActorAt(d)' = ActorAt(d)
  <2>1. new \in Run
    BY <1>9 DEF Run
  <2> QED
    BY <1>7, <2>1, RunMoves DEF FeedInv
<1>11. ActorAt(c)' = a /\ Busy(c) /\ new.pc = "recording"
  BY <1>1, <1>2, <1>3, <1>6, <1>10 DEF ActorAt, Busy
<1>12. \A b \in Actor : handled[b] \subseteq handled'[b] /\ handled'[b] \subseteq 1 .. posts[b]
  BY <1>4, <1>7, <1>8
<1>13. FeedTypes'
  <2>1. handled' \in [Actor -> SUBSET Nat]
    BY <1>3, <1>7, <1>8 DEF Scan
  <2>2. \A d \in Collector : run'[d].pc \in {"scanning", "scanned"} => d # c
    BY <1>10, <1>11
  <2> QED
    BY <1>7, <1>10, <1>12, <2>1, <2>2 DEF FeedInv, FeedTypes
<1>14. Kept(c)
  <2>1. \A b \in Actor : posts[b] <= posts[b]
    BY DEF FeedInv, FeedTypes
  <2>2. \A b \in Actor : Covered(b) \subseteq Covered(b)'
    BY <1>7, <1>12 DEF Covered
  <2> QED
    BY <1>7, <1>10, <2>1, <2>2 DEF Kept
<1>15. AloneAt'
  BY <1>2, <1>11, <1>14, AloneKept
<1>16. CollectorSound(c)'
  <2> SUFFICES ASSUME a \notin overlapped PROVE RecordSound(c)'
    BY <1>7, <1>10, <1>11 DEF CollectorSound
  <2>1. RowSound(a) /\ ScanSound(c)
    BY <1>1, <1>2, <1>11 DEF FeedInv
  <2>2. PICK D : D = Covered(a)'
    OBVIOUS
  <2>3. Covered(a) \subseteq D /\ Looked(c) \subseteq D
    BY <1>2, <1>3, <1>7, <1>8, <2>2 DEF Covered, Looked
  <2>4. /\ new.high = high[a] /\ new.pendingHigh = pendingHigh[a] /\ new.newest = r.newest
        /\ new.oldest = r.oldest /\ new.cursor = r.cursor /\ new.end = r.end
    BY <1>6
  <2>5. 1 .. new.high \subseteq D /\ new.newest <= posts[a]
    BY <1>2, <1>3, <2>1, <2>3, <2>4 DEF RowSound, ScanSound
  <2>6. /\ new.pendingHigh # 0 => new.newest = new.pendingHigh
        /\ new.oldest .. new.newest \subseteq D
        /\ new.end \in {"reached", "exhausted"} => 1 .. new.newest \subseteq D
        /\ new.end = "capped" =>
             new.cursor # 0 /\ new.cursor <= new.newest /\ new.cursor .. new.newest \subseteq D
        /\ new.end # "none"
    BY <1>1, <1>2, <1>3, <2>1, <2>3, <2>4 DEF ScanSound
  <2> QED
    BY <1>7, <1>10, <1>11, <2>2, <2>5, <2>6 DEF RecordSound
<1>17. \A b \in Actor \ overlapped' : RowSound(b)'
  <2>1. \A b \in Actor : posts[b] \in Nat /\ posts'[b] \in Nat
    BY <1>7 DEF FeedInv, FeedTypes
  <2> QED
    BY <1>7, <1>14, <2>1, RowKept
<1> QED
  BY <1>13, <1>14, <1>15, <1>16, <1>17, StepSound

(* The row is written.                                                     *)
LEMMA RecordWriteStep == ASSUME FeedInv, NEW c \in Collector, RecordWrite(c) PROVE FeedInv'
<1>1. run[c].pc = "recording" /\ run[c] \in Recording /\ ActorAt(c) \in Actor
  BY RunKinds DEF RecordWrite, FeedInv
<1>2. PICK a \in Actor : a = ActorAt(c)
  BY <1>1
<1>3. PICK r \in Recording : r = run[c]
  BY <1>1
<1>4. PICK complete \in BOOLEAN : complete <=> ScanComplete(r)
  OBVIOUS
<1>5. PICK newHigh \in Nat : newHigh = IF complete /\ r.newest # 0 THEN r.newest ELSE r.high
  BY <1>3 DEF Recording
<1>6. PICK newPending \in Nat : newPending = IF complete THEN 0 ELSE PendingKept(r)
  BY <1>3 DEF Recording, PendingKept
<1>7. PICK newResume \in Nat : newResume = IF complete THEN 0 ELSE r.cursor
  BY <1>3 DEF Recording
<1>8. PICK lost : lost = IF r.stop = 0 \/ r.end = "quota" THEN {p \in 1 .. r.newest : p < r.oldest}
                         ELSE {}
  OBVIOUS
<1>9. PICK new : new = [pc |-> "advancing", start |-> r.start, pos |-> r.pos, total |-> r.total]
  OBVIOUS
<1>10. /\ run' = [run EXCEPT ![c] = new]
       /\ high' = [high EXCEPT ![a] = newHigh]
       /\ pendingHigh' = [pendingHigh EXCEPT ![a] = newPending]
       /\ resume' = [resume EXCEPT ![a] = newResume]
       /\ waived' = [waived EXCEPT ![a] = waived[a] \union lost]
       /\ known' = known \union {a}
       /\ UNCHANGED <<posts, nextActor, handled, overlapped>>
  <2>1. run' = [run EXCEPT ![c] = new] /\ known' = known \union {a}
    BY <1>2, <1>3, <1>9 DEF RecordWrite
  <2>2. high' = [high EXCEPT ![a] = newHigh]
    BY <1>2, <1>3, <1>4, <1>5 DEF RecordWrite
  <2>3. pendingHigh' = [pendingHigh EXCEPT ![a] = newPending]
    BY <1>2, <1>3, <1>4, <1>6 DEF RecordWrite
  <2>4. resume' = [resume EXCEPT ![a] = newResume]
    BY <1>2, <1>3, <1>4, <1>7 DEF RecordWrite, CursorStored
  <2>5. waived' = [waived EXCEPT ![a] = waived[a] \union lost]
    BY <1>2, <1>3, <1>8 DEF RecordWrite
  <2>6. UNCHANGED <<posts, nextActor, handled, overlapped>>
    BY DEF RecordWrite
  <2> QED
    BY <2>1, <2>2, <2>3, <2>4, <2>5, <2>6
<1>11. new \in Turn /\ new.pc = "advancing"
  BY <1>3, <1>9 DEF Turn, Recording
<1>12. /\ run' \in [Collector -> Run] /\ run'[c] = new
       /\ \A d \in Collector \ {c} : run'[d] = run[d] /\ ActorAt(d)' = ActorAt(d)
  <2>1. new \in Run
    BY <1>11 DEF Run
  <2> QED
    BY <1>10, <2>1, RunMoves DEF FeedInv
<1>13. ActorAt(c)' = a /\ Busy(c)
  BY <1>1, <1>2, <1>3, <1>9, <1>12 DEF ActorAt, Busy
<1>14. lost \in SUBSET Nat
  BY <1>3, <1>8 DEF Recording
<1>15. FeedTypes'
  <2>1. /\ high' \in [Actor -> Nat] /\ pendingHigh' \in [Actor -> Nat] /\ resume' \in [Actor -> Nat]
        /\ waived' \in [Actor -> SUBSET Nat] /\ known' \subseteq Actor
    BY <1>10, <1>14 DEF FeedInv, FeedTypes
  <2>2. \A d \in Collector : run'[d].pc \in {"scanning", "scanned"} => d # c
    BY <1>11, <1>12
  <2> QED
    BY <1>10, <1>12, <2>1, <2>2 DEF FeedInv, FeedTypes
<1>16. Kept(c)
  <2>1. \A b \in Actor : posts[b] <= posts[b]
    BY DEF FeedInv, FeedTypes
  <2>2. \A b \in Actor : Covered(b) \subseteq Covered(b)'
    BY <1>10 DEF Covered, FeedInv, FeedTypes
  <2>3. \A b \in Actor : pendingHigh'[b] = pendingHigh[b] \/ (Busy(c) /\ ActorAt(c) = b)
    BY <1>2, <1>10, <1>13 DEF FeedInv, FeedTypes
  <2> QED
    BY <1>10, <1>12, <2>1, <2>2, <2>3 DEF Kept
<1>17. AloneAt' /\ CollectorSound(c)'
  <2>1. AloneAt'
    BY <1>2, <1>13, <1>16, AloneKept
  <2> QED
    BY <1>11, <1>12, <2>1 DEF CollectorSound
<1>18. ASSUME NEW b \in Actor \ overlapped' PROVE RowSound(b)'
  <2>1. CASE b # a
    <3>1. /\ posts[b] \in Nat /\ posts'[b] \in Nat
          /\ high'[b] = high[b] /\ pendingHigh'[b] = pendingHigh[b] /\ resume'[b] = resume[b]
      BY <1>10, <2>1 DEF FeedInv, FeedTypes
    <3> QED
      BY <1>16, <3>1, RowKept
  <2>2. CASE b = a
    <3>1. RecordSound(c)
      BY <1>1, <1>2, <1>10, <1>13, <2>2 DEF FeedInv
    <3>2. PICK D : D = Covered(a)'
      OBVIOUS
    <3>3. Covered(a) \subseteq D /\ lost \subseteq D
      BY <1>10, <3>2 DEF Covered, FeedInv, FeedTypes
    <3>4. /\ r.newest \in Nat /\ r.cursor \in Nat /\ r.oldest \in Nat /\ r.high \in Nat
          /\ r.pendingHigh \in Nat /\ r.end \in End /\ posts[a] \in Nat
      BY <1>3 DEF Recording, FeedInv, FeedTypes
    <3>5. /\ 1 .. r.high \subseteq D /\ r.newest <= posts[a]
          /\ r.pendingHigh # 0 => r.newest = r.pendingHigh
          /\ r.oldest .. r.newest \subseteq D
          /\ r.end \in {"reached", "exhausted"} => 1 .. r.newest \subseteq D
          /\ r.end = "capped" =>
               r.cursor # 0 /\ r.cursor <= r.newest /\ r.cursor .. r.newest \subseteq D
          /\ r.end # "none"
      BY <1>2, <1>3, <3>1, <3>3 DEF RecordSound
    <3>6. high'[a] = newHigh /\ pendingHigh'[a] = newPending /\ resume'[a] = newResume
      BY <1>10 DEF FeedInv, FeedTypes
    <3>7. 1 .. newHigh \subseteq D
      <4>1. CASE complete /\ r.newest # 0
        <5>1. r.stop = 0 \/ r.end \in {"reached", "exhausted", "quota"}
          BY <1>4, <4>1 DEF ScanComplete
        <5>2. CASE r.end \in {"reached", "exhausted"}
          BY <1>5, <3>5, <4>1, <5>2
        <5>3. CASE r.stop = 0 \/ r.end = "quota"
          <6>1. \A p \in 1 .. r.newest : p < r.oldest => p \in D
            BY <1>8, <3>3, <5>3
          <6>2. \A p \in 1 .. r.newest : ~(p < r.oldest) => p \in D
            BY <3>4, <3>5
          <6> QED
            BY <1>5, <4>1, <6>1, <6>2
        <5> QED
          BY <5>1, <5>2, <5>3
      <4>2. CASE ~(complete /\ r.newest # 0)
        BY <1>5, <3>5, <4>2
      <4> QED
        BY <4>1, <4>2
    <3>8. /\ newResume = 0 <=> newPending = 0
          /\ newResume <= newPending /\ newPending <= posts[a]
          /\ newResume # 0 => newResume .. newPending \subseteq D
      <4>1. CASE complete
        BY <1>6, <1>7, <3>4, <4>1
      <4>2. CASE ~complete
        <5>1. r.end = "capped"
          BY <1>4, <3>4, <3>5, <4>2 DEF ScanComplete, End
        <5>2. newPending = r.newest /\ newResume = r.cursor
          BY <1>6, <1>7, <3>5, <4>2 DEF PendingKept
        <5> QED
          BY <3>4, <3>5, <5>1, <5>2
      <4> QED
        BY <4>1, <4>2
    <3>9. posts' = posts
      BY <1>10
    <3> QED
      BY <2>2, <3>2, <3>6, <3>7, <3>8, <3>9 DEF RowSound
  <2> QED
    BY <2>1, <2>2
<1> QED
  BY <1>15, <1>16, <1>17, <1>18, StepSound

(* A page: what it settles, and what it leaves for the next.               *)
LEMMA ScanPageStep == ASSUME FeedInv, NEW c \in Collector, ScanPage(c) PROVE FeedInv'
<1>1. run[c].pc = "scanning" /\ run[c] \in Scan /\ ActorAt(c) \in Actor
  BY RunKinds DEF ScanPage, FeedInv
<1>2. PICK a \in Actor : a = ActorAt(c)
  BY <1>1
<1>3. PICK r \in Scan : r = run[c]
  BY <1>1
<1>4. PICK n \in Nat : n = posts[a] /\ n <= MaxPosts[a] /\ r.hand \subseteq 1 .. n
  BY <1>1, <1>2, <1>3 DEF FeedInv, FeedTypes
<1>5. /\ r.start \in Actor /\ r.pos \in Nat /\ r.total \in Nat /\ r.stop \in Nat /\ r.newest \in Nat
      /\ r.cursor \in Nat /\ r.pages \in Nat /\ r.hand \in SUBSET Nat /\ r.oldest \in Nat \ {0}
      /\ r.pc = "scanning" /\ r.end = "none"
  BY <1>1, <1>3 DEF Scan, FeedInv, FeedTypes
<1>6. PICK top : top = Top(a, r.cursor)
  OBVIOUS
<1>7. PICK page : page = Page(a, r.cursor)
  OBVIOUS
<1>8. /\ top \in 0 .. n /\ page \in SUBSET (1 .. top)
      /\ \A p \in page, q \in 1 .. top : p <= q => q \in page
      /\ top > 0 => page # {}
  BY <1>4, <1>5, <1>6, <1>7, PageOf DEF FeedInv
<1>9. PICK images : images = Fresh(page, r.stop) \ NoImage[a]
  OBVIOUS
<1>10. /\ images \in SUBSET page
      /\ \A p \in page : p > r.stop \/ r.stop \notin page => p \in images \/ p \in NoImage[a]
  BY <1>9 DEF Fresh
<1>11. PICK held \in Nat : held = Cardinality(r.hand) /\ held < Quota[c] /\ IsFiniteSet(r.hand)
  <2>1. IsFiniteSet(1 .. n)
    BY FS_Interval
  <2>2. IsFiniteSet(r.hand)
    BY <1>4, <2>1, FS_Subset
  <2>3. Cardinality(r.hand) \in Nat
    BY <2>2, FS_CardinalityType
  <2>4. Cardinality(r.hand) < Quota[c]
    BY <1>1, <1>3 DEF FeedInv, FeedTypes
  <2> QED
    BY <2>2, <2>3, <2>4
<1>12. PICK room \in Nat \ {0} : room = Quota[c] - held
  <2>1. Quota[c] \in Nat
    BY AuthorFeedAssumption
  <2> QED
    BY <1>11, <2>1
<1>13. PICK taken : taken = Newest(images, room)
  OBVIOUS
<1>14. /\ IsFiniteSet(images) /\ taken \subseteq images
       /\ \A p \in taken, q \in images : p <= q => q \in taken
       /\ images # {} => taken # {}
       /\ Cardinality(images) < room => taken = images
  <2>1. images \in SUBSET (1 .. n) /\ room \in Int /\ room > 0
    BY <1>8, <1>10, <1>12
  <2> QED
    BY <1>13, <2>1, NewestOf
<1>15. PICK many \in Nat : many = Cardinality(images)
  BY <1>14, FS_CardinalityType
<1>16. PICK end : end = CASE many >= room -> "quota"
                          [] many < room /\ r.stop \in page -> "reached"
                          [] many < room /\ r.stop \notin page /\ CursorAfter(page) = 0 -> "exhausted"
                          [] OTHER -> IF r.pages + 1 = PageCap[c] THEN "capped" ELSE "none"
  OBVIOUS
<1>17. /\ end \in End
       /\ end = "quota" => many >= room
       /\ end # "quota" => many < room
       /\ end = "reached" => r.stop \in page
       /\ end = "exhausted" => CursorAfter(page) = 0
       /\ end \in {"none", "capped"} => CursorAfter(page) # 0
  <2>1. CASE many >= room
    BY <1>12, <1>15, <1>16, <2>1 DEF End
  <2>2. CASE many < room /\ r.stop \in page
    BY <1>12, <1>15, <1>16, <2>2 DEF End
  <2>3. CASE many < room /\ r.stop \notin page /\ CursorAfter(page) = 0
    BY <1>12, <1>15, <1>16, <2>3 DEF End
  <2>4. CASE many < room /\ r.stop \notin page /\ CursorAfter(page) # 0
    <3>1. end = IF r.pages + 1 = PageCap[c] THEN "capped" ELSE "none"
      BY <1>12, <1>15, <1>16, <2>4
    <3> QED
      BY <2>4, <3>1 DEF End
  <2> QED
    BY <1>12, <1>15, <2>1, <2>2, <2>3, <2>4
<1>18. PICK oldest : oldest = IF end = "quota" THEN Min(taken) ELSE Min(page \union {r.oldest})
  OBVIOUS
<1>19. PICK newest : newest = IF r.newest = 0 /\ page # {} THEN Max(page) ELSE r.newest
  OBVIOUS
<1>20. PICK cursor : cursor = CursorAfter(page)
  OBVIOUS
<1>21. PICK new : new = [r EXCEPT !.pc = IF end = "none" THEN "scanning" ELSE "scanned",
                                  !.newest = newest, !.cursor = cursor, !.pages = r.pages + 1,
                                  !.hand = r.hand \union taken, !.oldest = oldest, !.end = end]
  OBVIOUS
<1>22. /\ run' = [run EXCEPT ![c] = new]
       /\ UNCHANGED <<posts, high, pendingHigh, resume, known, nextActor, handled, waived, overlapped>>
  <2>1. UNCHANGED <<posts, high, pendingHigh, resume, known, nextActor, handled, waived, overlapped>>
    BY DEF ScanPage, marks, feedHistory
  <2>2. taken = {p \in images : Cardinality({q \in images : q > p}) < room}
    BY <1>13 DEF Newest
  <2>3. run' = [run EXCEPT ![c] = new]
    <3>1. room = Quota[c] - Cardinality(r.hand) /\ many = Cardinality(images)
      BY <1>11, <1>12, <1>15
    <3>2. run' = [run EXCEPT ![c] = [r EXCEPT
            !.pc = IF end = "none" THEN "scanning" ELSE "scanned",
            !.newest = IF r.newest = 0 /\ page # {} THEN Max(page) ELSE r.newest,
            !.cursor = CursorAfter(page), !.pages = r.pages + 1, !.hand = r.hand \union taken,
            !.oldest = IF end = "quota" THEN Min(taken) ELSE Min(page \union {r.oldest}), !.end = end]]
      BY <1>2, <1>3, <1>7, <1>9, <1>16, <2>2, <3>1, SMT DEF ScanPage
    <3> QED
      BY <1>18, <1>19, <1>20, <1>21, <3>2, Zenon
  <2> QED
    BY <2>1, <2>3

\* The posts of the page, its extremes and the cursor after it.
<1>23. /\ oldest \in Nat \ {0}
       /\ end = "quota" => oldest \in taken
       /\ end # "quota" => oldest = r.oldest \/ oldest \in page
  <2>1. CASE end = "quota"
    <3>1. images # {}
      <4>1. many # 0
        BY <1>12, <1>15, <1>17, <2>1
      <4> QED
        BY <1>15, <4>1, FS_EmptySet
    <3>2. taken \in SUBSET Nat /\ taken # {} /\ 0 \notin taken
      BY <1>8, <1>10, <1>14, <3>1
    <3> QED
      BY <1>18, <2>1, <3>2, LeastPost
  <2>2. CASE end # "quota"
    <3>1. PICK some : some = page \union {r.oldest}
      OBVIOUS
    <3>4. page \subseteq Nat \ {0}
      BY <1>8
    <3>5. some \subseteq Nat \ {0} /\ r.oldest \in some
      BY <1>5, <3>1, <3>4
    <3>2. some \in SUBSET Nat /\ some # {} /\ 0 \notin some
      BY <3>5
    <3>3. oldest \in some
      <4>1. Min(some) \in some
        BY <3>2, LeastPost
      <4>2. oldest = Min(some)
        BY <1>18, <2>2, <3>1
      <4> QED
        BY <4>1, <4>2
    <3> QED
      BY <2>2, <3>1, <3>2, <3>3
  <2> QED
    BY <2>1, <2>2
<1>24. /\ newest \in Nat
       /\ r.newest # 0 => newest = r.newest
       /\ r.newest = 0 /\ page # {} => newest \in page /\ \A p \in page : p <= newest
       /\ newest <= n \/ newest = r.newest
  <2>1. CASE r.newest = 0 /\ page # {}
    <3>1. n \in Nat /\ page \in SUBSET (1 .. n) /\ page # {}
      BY <1>8, <2>1
    <3>2. Max(page) \in page /\ \A p \in page : p <= Max(page)
      BY <3>1, GreatestPost
    <3>3. newest = Max(page)
      BY <1>19, <2>1
    <3>4. newest \in page /\ \A p \in page : p <= newest
      BY <3>2, <3>3
    <3>5. newest \in Nat /\ newest <= n
      BY <3>1, <3>4
    <3> QED
      BY <2>1, <3>4, <3>5
  <2>2. CASE ~(r.newest = 0 /\ page # {})
    BY <1>5, <1>19, <2>2
  <2> QED
    BY <2>1, <2>2
<1>25. /\ cursor \in Nat
       /\ cursor # 0 => cursor \in page /\ \A p \in page : cursor <= p
       /\ cursor = 0 => page = {} \/ 1 \in page
  <2>1. CASE page \subseteq {1} \/ 1 \in page
    BY <1>20, <2>1 DEF CursorAfter
  <2>2. CASE ~(page \subseteq {1} \/ 1 \in page)
    <3>1. page \in SUBSET Nat /\ page # {} /\ 0 \notin page
      BY <1>8, <2>2
    <3>2. cursor = Min(page)
      BY <1>20, <2>2 DEF CursorAfter
    <3> QED
      BY <3>1, <3>2, LeastPost
  <2> QED
    BY <2>1, <2>2
<1>26. /\ new \in Scan /\ new.start = r.start /\ new.pos = r.pos /\ new.stop = r.stop
       /\ new.newest = newest /\ new.cursor = cursor /\ new.hand = r.hand \union taken
       /\ new.oldest = oldest /\ new.end = end
       /\ new.pc \in {"scanning", "scanned"} /\ (new.pc = "scanning" <=> end = "none")
  <2>1. r.hand \union taken \in SUBSET Nat /\ r.pages + 1 \in Nat
    <3>1. taken \subseteq page /\ page \subseteq Nat
      BY <1>8, <1>10, <1>14
    <3>2. r.hand \union taken \subseteq Nat
      BY <1>5, <3>1
    <3>3. r.pages + 1 \in Nat
      BY <1>5
    <3> QED
      BY <3>2, <3>3
  <2>2. PICK pc \in {"scanning", "scanned"} : pc = IF end = "none" THEN "scanning" ELSE "scanned"
    OBVIOUS
  <2>3. PICK hand \in SUBSET Nat : hand = r.hand \union taken
    BY <2>1
  <2>4. new = [r EXCEPT !.pc = pc, !.newest = newest, !.cursor = cursor, !.pages = r.pages + 1,
                        !.hand = hand, !.oldest = oldest, !.end = end]
    BY <1>21, <2>2, <2>3
  <2>5. /\ new \in Scan /\ new.start = r.start /\ new.pos = r.pos /\ new.stop = r.stop
        /\ new.newest = newest /\ new.cursor = cursor /\ new.hand = hand
        /\ new.oldest = oldest /\ new.end = end /\ new.pc = pc
    BY <1>17, <1>23, <1>24, <1>25, <2>1, <2>4 DEF Scan
  <2> QED
    BY <2>2, <2>3, <2>5
<1>27. /\ run' \in [Collector -> Run] /\ run'[c] = new
       /\ \A d \in Collector \ {c} : run'[d] = run[d] /\ ActorAt(d)' = ActorAt(d)
  <2>1. new \in Run
    BY <1>26 DEF Run
  <2> QED
    BY <1>22, <2>1, RunMoves DEF FeedInv
<1>28. ActorAt(c)' = a /\ Busy(c)
  BY <1>1, <1>2, <1>3, <1>26, <1>27 DEF ActorAt, Busy
<1>29. FeedTypes'
  <2>1. new.hand \subseteq 1 .. posts[a]
    <3>1. taken \subseteq page /\ page \subseteq 1 .. n
      BY <1>8, <1>10, <1>14
    <3> QED
      BY <1>4, <1>26, <3>1
  <2>2. new.pc = "scanning" => new.end = "none" /\ Cardinality(new.hand) < Quota[c]
    <3> SUFFICES ASSUME end = "none" PROVE Cardinality(new.hand) < Quota[c]
      BY <1>26
    <3>1. taken = images /\ many < room
      BY <1>14, <1>15, <1>17
    <3>2. PICK both : both = r.hand \intersect images
      OBVIOUS
    <3>3. IsFiniteSet(both)
      BY <1>14, <3>2, FS_Subset
    <3>4. PICK b \in Nat : b = Cardinality(both)
      BY <3>3, FS_CardinalityType
    <3>5. Cardinality(r.hand \union images) = held + many - b
      BY <1>11, <1>14, <1>15, <3>2, <3>4, FS_Union
    <3>6. Quota[c] \in Nat
      BY AuthorFeedAssumption
    <3>7. held + many - b < Quota[c]
      BY <1>11, <1>12, <1>15, <3>1, <3>4, <3>6
    <3> QED
      BY <1>26, <3>1, <3>5, <3>7
  <2>3. ASSUME NEW d \in Collector, run'[d].pc \in {"scanning", "scanned"}
        PROVE  /\ run'[d].hand \subseteq 1 .. posts[ActorAt(d)']
               /\ run'[d].pc = "scanning" => run'[d].end = "none" /\ Cardinality(run'[d].hand) < Quota[d]
    <3>1. CASE d = c
      BY <1>27, <1>28, <2>1, <2>2, <3>1
    <3>2. CASE d # c
      BY <1>27, <2>3, <3>2 DEF FeedInv, FeedTypes
    <3> QED
      BY <3>1, <3>2
  <2> QED
    BY <1>22, <1>27, <2>3 DEF FeedInv, FeedTypes
<1>30. Kept(c)
  <2>1. \A b \in Actor : posts[b] <= posts[b]
    BY DEF FeedInv, FeedTypes
  <2> QED
    BY <1>22, <1>27, <2>1 DEF Kept, Covered
<1>31. AloneAt'
  BY <1>2, <1>28, <1>30, AloneKept
<1>32. ASSUME a \notin overlapped PROVE ScanSound(c)'
  <2>1. ScanSound(c)
    BY <1>1, <1>2, <1>28, <1>32 DEF FeedInv
  <2>2. PICK D : D = Covered(a)
    OBVIOUS
  <2>3. PICK L : L = D \union r.hand \union taken
    OBVIOUS
  <2>4. /\ 1 .. r.stop \subseteq D /\ r.newest <= n
        /\ pendingHigh[a] # 0 => r.newest = pendingHigh[a]
        /\ r.oldest .. r.newest \subseteq L
        /\ r.cursor = 0 <=> r.newest = 0
        /\ r.cursor <= r.newest
        /\ r.cursor # 0 => r.cursor .. r.newest \subseteq L
        /\ r.cursor = 0 => r.oldest > MaxPosts[a]
    BY <1>2, <1>3, <1>4, <1>5, <2>1, <2>2, <2>3 DEF ScanSound, Looked
  <2>5. newest <= n
    BY <1>24, <2>4
  <2>6. r.cursor # 0 => top = r.cursor - 1
    BY <1>4, <1>5, <1>6, <2>4 DEF Top
  <2>7. r.cursor = 0 => top = n
    BY <1>4, <1>6 DEF Top
  \* Above the page everything was looked at.
  <2>8. ASSUME NEW p \in Nat, p > top, p <= newest PROVE p \in L
    BY <1>5, <1>8, <1>24, <2>4, <2>5, <2>6, <2>7, <2>8
  \* Of the page, everything from the oldest post that was handed on.
  <2>9. ASSUME NEW p \in page, p >= oldest \/ end # "quota" PROVE p \in L
    <3>1. p \in Nat \ {0}
      BY <1>8
    <3>2. CASE p <= r.stop
      BY <1>5, <2>3, <2>4, <3>1, <3>2
    <3>3. CASE p > r.stop
      <4>1. p \in images \/ p \in NoImage[a]
        BY <1>10, <3>3
      <4>2. NoImage[a] \subseteq D
        BY <2>2 DEF Covered
      <4>3. p \in images => p \in taken
        <5>1. CASE end = "quota"
          BY <1>14, <1>23, <2>9, <5>1
        <5>2. CASE end # "quota"
          BY <1>14, <1>15, <1>17, <5>2
        <5> QED
          BY <5>1, <5>2
      <4> QED
        BY <2>3, <4>1, <4>2, <4>3
    <3> QED
      BY <1>5, <3>1, <3>2, <3>3
  <2>10. oldest .. newest \subseteq L
    <3> SUFFICES ASSUME NEW p \in oldest .. newest PROVE p \in L
      OBVIOUS
    <3>1. p \in Nat /\ p >= oldest /\ p <= newest /\ p >= 1
      BY <1>23, <1>24
    <3>2. CASE p > top
      BY <2>8, <3>1, <3>2
    <3>3. CASE p <= top /\ oldest \in page
      <4>1. p \in page
        BY <1>8, <3>1, <3>3
      <4> QED
        BY <2>9, <3>1, <4>1
    <3>4. CASE oldest = r.oldest
      <4>1. CASE newest = r.newest
        BY <2>4, <3>1, <3>4, <4>1
      <4>2. CASE newest # r.newest
        <5>1. r.newest = 0
          BY <1>24, <4>2
        <5>2. r.oldest > MaxPosts[a]
          BY <2>4, <5>1
        <5>3. MaxPosts[a] \in Nat
          BY AuthorFeedAssumption
        <5> QED
          BY <1>4, <1>5, <1>24, <2>5, <3>1, <3>4, <5>2, <5>3
      <4> QED
        BY <4>1, <4>2
    <3>5. oldest \in page \/ oldest = r.oldest
      BY <1>10, <1>14, <1>23
    <3> QED
      BY <1>8, <3>1, <3>2, <3>3, <3>4, <3>5
  <2>11. ASSUME end \in {"reached", "exhausted"} PROVE 1 .. newest \subseteq L
    <3> SUFFICES ASSUME NEW p \in 1 .. newest PROVE p \in L
      OBVIOUS
    <3>1. p \in Nat /\ p >= 1 /\ p <= newest
      BY <1>24
    <3>2. CASE p > top
      BY <2>8, <3>1, <3>2
    <3>3. CASE p <= top /\ end = "reached"
      <4>1. r.stop \in page
        BY <1>17, <3>3
      <4>2. CASE p <= r.stop
        BY <1>5, <2>3, <2>4, <3>1, <4>2
      <4>3. CASE p > r.stop
        <5>1. p \in page
          BY <1>5, <1>8, <3>1, <3>3, <4>1, <4>3
        <5> QED
          BY <2>9, <3>3, <5>1
      <4> QED
        BY <1>5, <3>1, <4>2, <4>3
    <3>4. CASE p <= top /\ end = "exhausted"
      <4>1. page = {} \/ 1 \in page
        BY <1>17, <1>20, <1>25, <3>4
      <4>2. top \in Nat /\ top > 0
        BY <1>8, <3>1, <3>4
      <4>3. 1 \in page
        BY <1>8, <4>1, <4>2
      <4>4. p \in 1 .. top
        BY <3>1, <3>4, <4>2
      <4>5. p \in page
        BY <1>8, <3>1, <4>3, <4>4
      <4> QED
        BY <2>9, <3>4, <4>5
    <3> QED
      BY <1>8, <2>11, <3>1, <3>2, <3>3, <3>4
  <2>12. ASSUME end \in {"none", "capped"}
         PROVE  /\ cursor # 0 /\ newest # 0 /\ cursor <= newest
                /\ cursor .. newest \subseteq L
    <3>1. cursor # 0
      BY <1>17, <1>20, <2>12
    <3>2. cursor \in page /\ page # {}
      BY <1>25, <3>1
    <3>3. cursor <= newest /\ newest # 0
      <4>1. CASE r.newest = 0
        <5>1. cursor <= newest
          BY <1>24, <3>2, <4>1
        <5> QED
          BY <1>24, <1>25, <3>1, <5>1
      <4>2. CASE r.newest # 0
        <5>1. top = r.cursor - 1 /\ newest = r.newest
          BY <1>24, <2>4, <2>6, <4>2
        <5>2. cursor <= top
          BY <1>8, <3>2
        <5> QED
          BY <1>5, <1>8, <1>25, <2>4, <4>2, <5>1, <5>2
      <4> QED
        BY <4>1, <4>2
    <3>4. ASSUME NEW p \in cursor .. newest PROVE p \in L
      <4>1. p \in Nat /\ p >= cursor /\ p <= newest /\ p >= 1
        BY <1>24, <1>25, <3>1
      <4>2. CASE p > top
        BY <2>8, <4>1, <4>2
      <4>3. CASE p <= top
        <5>1. p \in page
          BY <1>8, <3>2, <4>1, <4>3
        <5>2. end # "quota"
          BY <2>12
        <5> QED
          BY <2>9, <5>1, <5>2
      <4> QED
        BY <1>8, <4>1, <4>2, <4>3
    <3> QED
      BY <3>1, <3>3, <3>4
  <2>13. /\ Covered(a)' = D /\ Looked(c)' = L /\ posts'[a] = n /\ pendingHigh' = pendingHigh
    <3>1. Covered(a)' = D
      BY <1>22, <2>2 DEF Covered
    <3>2. Looked(c)' = L
      BY <1>26, <1>27, <1>28, <2>3, <3>1 DEF Looked
    <3> QED
      BY <1>4, <1>22, <3>1, <3>2
  <2>14. pendingHigh[a] # 0 => newest = pendingHigh[a]
    BY <1>24, <2>4
  <2>15. new.end = "none" \/ new.pc = "scanned"
    BY <1>26
  <2> QED
    BY <1>26, <1>27, <1>28, <2>4, <2>5, <2>10, <2>11, <2>12, <2>13, <2>14, <2>15 DEF ScanSound
<1>33. CollectorSound(c)'
  BY <1>22, <1>26, <1>27, <1>28, <1>32 DEF CollectorSound
<1>34. \A b \in Actor \ overlapped' : RowSound(b)'
  <2>1. \A b \in Actor : posts[b] \in Nat /\ posts'[b] \in Nat
    BY <1>22 DEF FeedInv, FeedTypes
  <2> QED
    BY <1>22, <1>30, <2>1, RowKept
<1> QED
  BY <1>29, <1>30, <1>31, <1>33, <1>34, StepSound

-----------------------------------------------------------------------------
(* Theorems.                                                               *)

LEMMA FeedInvInit == FeedInit => FeedInv
<1> SUFFICES ASSUME FeedInit PROVE FeedInv
  OBVIOUS
<1>1. FeedTypes
  <2>1. /\ MaxPosts \in [Actor -> Nat] /\ Seeded \in [Actor -> Nat] /\ 0 \in Actor
        /\ \A a \in Actor : Seeded[a] <= MaxPosts[a]
    BY AuthorFeedAssumption DEF Actor
  <2>2. NoRun \in Run /\ NoRun.pc = "idle"
    BY DEF Run, NoRun
  <2> QED
    BY <2>1, <2>2 DEF FeedInit, FeedTypes
<1>2. \A c \in Collector : ~Busy(c)
  BY DEF FeedInit, Busy, NoRun
<1>3. \A a \in Actor : RowSound(a)
  <2>1. \A a \in Actor : posts[a] \in Nat
    BY <1>1 DEF FeedTypes
  <2> QED
    BY <2>1 DEF FeedInit, RowSound
<1> QED
  BY <1>1, <1>2, <1>3 DEF FeedInv, AloneAt

LEMMA FeedInvStep == FeedInv /\ [FeedNext]_feedVars => FeedInv'
<1> SUFFICES ASSUME FeedInv, [FeedNext]_feedVars PROVE FeedInv'
  OBVIOUS
<1>1. ASSUME NEW a \in Actor, Publish(a) PROVE FeedInv'
  BY <1>1, PublishStep
<1>2. ASSUME NEW c \in Collector, CollectorStep(c) \/ ScanFails(c) \/ CollectorDies(c)
      PROVE  FeedInv'
  BY <1>2, BeginRunStep, BeginActorStep, LeavingSteps, ScanPageStep, RecordReadStep, RecordWriteStep
     DEF CollectorStep
<1>3. ASSUME UNCHANGED feedVars PROVE FeedInv'
  <2>1. UNCHANGED <<posts, high, pendingHigh, resume, known, nextActor, run, handled, waived, overlapped>>
    BY <1>3 DEF feedVars
  <2>2. FeedTypes'
    BY <2>1 DEF FeedInv, FeedTypes, ActorAt
  <2>3. AloneAt'
    BY <2>1 DEF FeedInv, AloneAt, Busy, ActorAt
  <2>4. \A a \in Actor \ overlapped' : RowSound(a)'
    BY <2>1 DEF FeedInv, RowSound, Covered
  <2>5. ASSUME NEW c \in Collector PROVE /\ ScanSound(c) => ScanSound(c)'
                                         /\ RecordSound(c) => RecordSound(c)'
    BY <2>1 DEF ScanSound, RecordSound, Looked, Covered, ActorAt
  <2>6. \A c \in Collector : Busy(c)' = Busy(c) /\ ActorAt(c)' = ActorAt(c)
    BY <2>1 DEF Busy, ActorAt
  <2> QED
    BY <2>1, <2>2, <2>3, <2>4, <2>5, <2>6 DEF FeedInv
<1> QED
  BY <1>1, <1>2, <1>3 DEF FeedNext

LEMMA FeedInvAlways == FeedSpec => []FeedInv
<1> QED
  BY FeedInvInit, FeedInvStep, PTL DEF FeedSpec

\* No image below a high-water mark goes unseen: however runs, failures,
\* page caps, quotas and deaths are interleaved, each post up to the mark of
\* an actor that no two collectors scanned at once was stored, given up by
\* an initial scan, a quota or a seed, or has no image (record_scan).
THEOREM NoImageBelowTheMarkIsMissed == FeedSpec => []NoPostSkipped
<1>1. FeedInv => NoPostSkipped
  BY DEF FeedInv, RowSound, Covered, NoPostSkipped
<1> QED
  BY <1>1, FeedInvAlways, PTL

\* A backlog is resumed where it was left: a cursor is stored only with the
\* mark it leads to, and the posts from the one to the other are settled.
THEOREM BacklogResumesSoundly == FeedSpec => []ResumeSound
<1>1. FeedInv => ResumeSound
  BY DEF FeedInv, FeedTypes, RowSound, Covered, ResumeSound
<1> QED
  BY <1>1, FeedInvAlways, PTL

-----------------------------------------------------------------------------
(* Marks within what an actor ever publishes.                              *)

RowBounded(a) ==
  /\ high[a] \in Mark(a) /\ pendingHigh[a] \in Mark(a) /\ resume[a] \in Mark(a)
  /\ waived[a] \subseteq Mark(a)

HeldBounded(c) ==
  /\ run[c].pc \in {"scanning", "scanned", "recording"} =>
       run[c].newest \in Mark(ActorAt(c)) /\ run[c].cursor \in Mark(ActorAt(c))
  /\ run[c].pc = "recording" =>
       run[c].high \in Mark(ActorAt(c)) /\ run[c].pendingHigh \in Mark(ActorAt(c))

MarksBounded ==
  /\ \A a \in Actor : RowBounded(a)
  /\ \A c \in Collector : HeldBounded(c)
  /\ crashes \in 0 .. MaxCrashes /\ refreshes \in 0 .. MaxRefreshes

\* A step of c that moves its own run.
LEMMA MarksMove ==
  ASSUME FeedInv, MarksBounded, NEW c \in Collector, NEW new, run' = [run EXCEPT ![c] = new],
         HeldBounded(c)', \A a \in Actor : RowBounded(a)',
         crashes' \in 0 .. MaxCrashes, refreshes' \in 0 .. MaxRefreshes
  PROVE  MarksBounded'
<1>1. ASSUME NEW d \in Collector \ {c} PROVE HeldBounded(d)'
  <2>1. run'[d] = run[d] /\ ActorAt(d)' = ActorAt(d)
    BY DEF FeedInv, FeedTypes, ActorAt
  <2> QED
    BY <2>1 DEF MarksBounded, HeldBounded
<1> QED
  BY <1>1 DEF MarksBounded

LEMMA BeginRunBounded == ASSUME FeedInv, MarksBounded, NEW c \in Collector, BeginRun(c) PROVE MarksBounded'
<1>1. PICK new : new = [pc |-> "choosing", start |-> nextActor, pos |-> 0, total |-> 0]
  OBVIOUS
<1>2. run' = [run EXCEPT ![c] = new] /\ UNCHANGED <<pendingHigh, resume, crashes>>
  BY <1>1 DEF BeginRun, marks
<1>3. HeldBounded(c)'
  BY <1>1, <1>2 DEF FeedInv, FeedTypes, HeldBounded
<1>4. ASSUME NEW a \in Actor PROVE RowBounded(a)'
  <2>1. RowBounded(a)
    BY DEF MarksBounded
  <2>2. CASE a \in Unseen /\ c # Nightly
    <3>1. PICK m : m = Max(handled[a])
      OBVIOUS
    <3>2. /\ posts[a] \in Nat /\ handled[a] \in SUBSET (1 .. posts[a]) /\ handled[a] # {}
          /\ posts[a] <= MaxPosts[a] /\ MaxPosts[a] \in Nat
      BY <2>2, AuthorFeedAssumption DEF FeedInv, FeedTypes, Unseen
    <3>3. m \in handled[a]
      BY <3>1, <3>2, GreatestPost
    <3>4. m \in 1 .. MaxPosts[a] /\ 1 .. m \subseteq Mark(a)
      BY <3>2, <3>3 DEF Mark
    <3>5. high'[a] = m /\ waived'[a] = waived[a] \union 1 .. m
      BY <2>2, <3>1 DEF BeginRun
    <3> QED
      BY <1>2, <2>1, <3>4, <3>5 DEF RowBounded, Mark
  <2>3. CASE ~(a \in Unseen /\ c # Nightly)
    <3>1. high'[a] = high[a] /\ waived'[a] = waived[a]
      BY <2>3 DEF BeginRun, marks
    <3> QED
      BY <1>2, <2>1, <3>1 DEF RowBounded
  <2> QED
    BY <2>2, <2>3
<1>5. crashes' \in 0 .. MaxCrashes /\ refreshes' \in 0 .. MaxRefreshes
  <2>1. refreshes' = refreshes \/ (refreshes < MaxRefreshes /\ refreshes' = refreshes + 1)
    BY DEF BeginRun
  <2> QED
    BY <1>2, <2>1, AuthorFeedAssumption DEF MarksBounded
<1> QED
  BY <1>2, <1>3, <1>4, <1>5, MarksMove

LEMMA BeginActorBounded ==
  ASSUME FeedInv, MarksBounded, NEW c \in Collector, BeginActor(c) PROVE MarksBounded'
<1>1. ActorAt(c) \in Actor
  BY RunKinds DEF BeginActor, FeedInv
<1>2. PICK a, r : a = ActorAt(c) /\ a \in Actor /\ r = run[c]
  BY <1>1
<1>3. PICK new : new = [pc |-> "scanning", start |-> r.start, pos |-> r.pos, total |-> r.total,
                        stop |-> high[a], newest |-> pendingHigh[a], cursor |-> resume[a],
                        pages |-> 0, hand |-> {}, oldest |-> MaxPosts[a] + 1, end |-> "none"]
  OBVIOUS
<1>4. /\ run' = [run EXCEPT ![c] = new]
      /\ UNCHANGED <<high, pendingHigh, resume, waived, crashes, refreshes>>
  BY <1>2, <1>3 DEF BeginActor, marks
<1>5. ActorAt(c)' = a /\ run'[c] = new
  BY <1>2, <1>3, <1>4 DEF ActorAt, FeedInv, FeedTypes
<1>6. HeldBounded(c)'
  BY <1>2, <1>3, <1>5 DEF HeldBounded, MarksBounded, RowBounded
<1>7. \A b \in Actor : RowBounded(b)'
  BY <1>4 DEF MarksBounded, RowBounded
<1> QED
  BY <1>4, <1>6, <1>7, MarksMove DEF MarksBounded

LEMMA LeavingBounded ==
  ASSUME FeedInv, MarksBounded, NEW c \in Collector,
         EndRun(c) \/ Advance(c) \/ ScanFails(c) \/ CollectorDies(c)
  PROVE  MarksBounded'
<1>1. PICK new : run' = [run EXCEPT ![c] = new] /\ new.pc \in {"idle", "choosing", "advancing"}
  <2>1. CASE EndRun(c) \/ CollectorDies(c)
    <3>1. run' = [run EXCEPT ![c] = NoRun]
      BY <2>1 DEF EndRun, CollectorDies
    <3>2. NoRun.pc = "idle"
      BY DEF NoRun
    <3> QED
      BY <3>1, <3>2
  <2>2. CASE Advance(c)
    <3>1. PICK r, new : r = run[c] /\ new = [pc |-> "choosing", start |-> r.start, pos |-> r.pos + 1,
                                            total |-> r.total]
      OBVIOUS
    <3>2. run' = [run EXCEPT ![c] = new] /\ new.pc = "choosing"
      BY <2>2, <3>1 DEF Advance
    <3> QED
      BY <3>2
  <2>3. CASE ScanFails(c)
    <3>1. PICK r, k : r = run[c] /\ k = r.total + Cardinality(r.hand)
      OBVIOUS
    <3>2. r \in Scan
      BY <2>3, <3>1, RunKinds DEF ScanFails, FeedInv
    <3>3. PICK new : new = [r EXCEPT !.pc = "advancing", !.total = k]
      OBVIOUS
    <3>4. run' = [run EXCEPT ![c] = new]
      BY <2>3, <3>1, <3>3 DEF ScanFails
    <3>5. new.pc = "advancing"
      BY <3>2, <3>3 DEF Scan
    <3> QED
      BY <3>4, <3>5
  <2> QED
    BY <2>1, <2>2, <2>3
<1>2. HeldBounded(c)'
  BY <1>1 DEF FeedInv, FeedTypes, HeldBounded
<1>3. UNCHANGED <<high, pendingHigh, resume, waived, refreshes>>
  BY DEF EndRun, Advance, ScanFails, CollectorDies, marks, feedHistory
<1>4. \A a \in Actor : RowBounded(a)'
  BY <1>3 DEF MarksBounded, RowBounded
<1>5. crashes' \in 0 .. MaxCrashes
  <2>1. crashes' = crashes \/ (crashes < MaxCrashes /\ crashes' = crashes + 1)
    BY DEF EndRun, Advance, ScanFails, CollectorDies, feedHistory
  <2> QED
    BY <2>1, AuthorFeedAssumption DEF MarksBounded
<1> QED
  BY <1>1, <1>2, <1>3, <1>4, <1>5, MarksMove DEF MarksBounded

LEMMA ScanPageBounded ==
  ASSUME FeedInv, MarksBounded, NEW c \in Collector, ScanPage(c) PROVE MarksBounded'
<1>1. run[c].pc = "scanning" /\ run[c] \in Scan /\ ActorAt(c) \in Actor
  BY RunKinds DEF ScanPage, FeedInv
<1>2. PICK a, r : a = ActorAt(c) /\ a \in Actor /\ r = run[c] /\ r \in Scan
  BY <1>1
<1>3. PICK page : page = Page(a, r.cursor)
  OBVIOUS
<1>4. PICK new : /\ run' = [run EXCEPT ![c] = new]
                 /\ new.newest = (IF r.newest = 0 /\ page # {} THEN Max(page) ELSE r.newest)
                 /\ new.cursor = CursorAfter(page)
                 /\ new.pc \in {"scanning", "scanned"} /\ new.start = r.start /\ new.pos = r.pos
  <2>1. PICK images : images = Fresh(page, r.stop) \ NoImage[a]
    OBVIOUS
  <2>2. PICK room : room = Quota[c] - Cardinality(r.hand)
    OBVIOUS
  <2>3. PICK taken : taken = {p \in images : Cardinality({q \in images : q > p}) < room}
    OBVIOUS
  <2>4. PICK end : end = CASE Cardinality(images) >= room -> "quota"
                           [] Cardinality(images) < room /\ r.stop \in page -> "reached"
                           [] Cardinality(images) < room /\ r.stop \notin page
                                /\ CursorAfter(page) = 0 -> "exhausted"
                           [] OTHER -> IF r.pages + 1 = PageCap[c] THEN "capped" ELSE "none"
    OBVIOUS
  <2>5. PICK new : new = [r EXCEPT
          !.pc = IF end = "none" THEN "scanning" ELSE "scanned",
          !.newest = IF r.newest = 0 /\ page # {} THEN Max(page) ELSE r.newest,
          !.cursor = CursorAfter(page),
          !.pages = r.pages + 1,
          !.hand = r.hand \union taken,
          !.oldest = IF end = "quota" THEN Min(taken) ELSE Min(page \union {r.oldest}),
          !.end = end]
    OBVIOUS
  <2>6. run' = [run EXCEPT ![c] = new]
    <3>1. run' = [run EXCEPT ![c] = [r EXCEPT
            !.pc = IF end = "none" THEN "scanning" ELSE "scanned",
            !.newest = IF r.newest = 0 /\ page # {} THEN Max(page) ELSE r.newest,
            !.cursor = CursorAfter(page), !.pages = r.pages + 1, !.hand = r.hand \union taken,
            !.oldest = IF end = "quota" THEN Min(taken) ELSE Min(page \union {r.oldest}), !.end = end]]
      BY <1>2, <1>3, <2>1, <2>2, <2>3, <2>4, SMT DEF ScanPage
    <3> QED
      BY <2>5, <3>1, Zenon
  <2>7. /\ new.newest = (IF r.newest = 0 /\ page # {} THEN Max(page) ELSE r.newest)
        /\ new.cursor = CursorAfter(page)
        /\ new.pc \in {"scanning", "scanned"} /\ new.start = r.start /\ new.pos = r.pos
    BY <1>2, <2>5 DEF Scan
  <2> QED
    BY <2>6, <2>7
<1>5. /\ r.cursor \in Nat /\ posts[a] \in Nat /\ MaxPosts[a] \in Nat /\ posts[a] <= MaxPosts[a]
  BY <1>2, AuthorFeedAssumption DEF FeedInv, FeedTypes, Scan
<1>6. page \in SUBSET (1 .. posts[a])
  <2>1. PICK top \in 0 .. posts[a] : page \in SUBSET (1 .. top)
    BY <1>2, <1>3, <1>5, PageOf DEF FeedInv
  <2> QED
    BY <1>5, <2>1
<1>7. new.newest \in Mark(a)
  <2>1. r.newest \in Mark(a)
    BY <1>1, <1>2 DEF MarksBounded, HeldBounded
  <2>2. page # {} => Max(page) \in page
    BY <1>5, <1>6, GreatestPost
  <2>3. \A p \in page : p \in Mark(a)
    BY <1>5, <1>6 DEF Mark
  <2> QED
    BY <1>4, <2>1, <2>2, <2>3
<1>8. new.cursor \in Mark(a)
  <2>1. page # {} => Min(page) \in page
    <3>1. page \in SUBSET Nat
      BY <1>5, <1>6
    <3> QED
      BY <3>1, LeastPost
  <2>2. 0 \in Mark(a) /\ \A p \in page : p \in Mark(a)
    BY <1>5, <1>6 DEF Mark
  <2> QED
    BY <1>4, <2>1, <2>2 DEF CursorAfter
<1>9. run'[c] = new /\ ActorAt(c)' = a
  BY <1>2, <1>4 DEF ActorAt, FeedInv, FeedTypes
<1>10. HeldBounded(c)'
  BY <1>4, <1>7, <1>8, <1>9 DEF HeldBounded
<1>11. UNCHANGED <<high, pendingHigh, resume, waived, crashes, refreshes>>
  BY DEF ScanPage, marks, feedHistory
<1>12. \A b \in Actor : RowBounded(b)'
  BY <1>11 DEF MarksBounded, RowBounded
<1> QED
  BY <1>4, <1>10, <1>11, <1>12, MarksMove DEF MarksBounded

LEMMA RecordReadBounded ==
  ASSUME FeedInv, MarksBounded, NEW c \in Collector, RecordRead(c) PROVE MarksBounded'
<1>1. run[c].pc = "scanned" /\ ActorAt(c) \in Actor
  BY RunKinds DEF RecordRead, FeedInv
<1>2. PICK a, r : a = ActorAt(c) /\ a \in Actor /\ r = run[c]
  BY <1>1
<1>3. PICK new : /\ run' = [run EXCEPT ![c] = new]
                 /\ new.pc = "recording" /\ new.start = r.start /\ new.pos = r.pos
                 /\ new.newest = r.newest /\ new.cursor = r.cursor
                 /\ new.high = high[a] /\ new.pendingHigh = pendingHigh[a]
  <2>1. PICK new : new = [pc |-> "recording", start |-> r.start, pos |-> r.pos,
          total |-> r.total + Cardinality(r.hand), stop |-> r.stop, newest |-> r.newest,
          cursor |-> r.cursor, oldest |-> r.oldest, end |-> r.end, high |-> high[a],
          pendingHigh |-> pendingHigh[a]]
    OBVIOUS
  <2>2. run' = [run EXCEPT ![c] = new]
    BY <1>2, <2>1 DEF RecordRead
  <2>3. /\ new.pc = "recording" /\ new.start = r.start /\ new.pos = r.pos
        /\ new.newest = r.newest /\ new.cursor = r.cursor
        /\ new.high = high[a] /\ new.pendingHigh = pendingHigh[a]
    BY <2>1
  <2> QED
    BY <2>2, <2>3
<1>4. run'[c] = new /\ ActorAt(c)' = a
  BY <1>2, <1>3 DEF ActorAt, FeedInv, FeedTypes
<1>5. HeldBounded(c) /\ RowBounded(a)
  BY <1>2 DEF MarksBounded
<1>6. HeldBounded(c)'
  BY <1>1, <1>2, <1>3, <1>4, <1>5 DEF HeldBounded, RowBounded
<1>7. UNCHANGED <<high, pendingHigh, resume, waived, crashes, refreshes>>
  BY DEF RecordRead, marks
<1>8. \A b \in Actor : RowBounded(b)'
  BY <1>7 DEF MarksBounded, RowBounded
<1> QED
  BY <1>3, <1>6, <1>7, <1>8, MarksMove DEF MarksBounded

LEMMA RecordWriteBounded ==
  ASSUME FeedInv, MarksBounded, NEW c \in Collector, RecordWrite(c) PROVE MarksBounded'
<1>1. run[c].pc = "recording" /\ ActorAt(c) \in Actor
  BY RunKinds DEF RecordWrite, FeedInv
<1>2. PICK a, r : a = ActorAt(c) /\ a \in Actor /\ r = run[c]
  BY <1>1
<1>3. /\ r.newest \in Mark(a) /\ r.cursor \in Mark(a) /\ r.high \in Mark(a)
      /\ r.pendingHigh \in Mark(a) /\ RowBounded(a) /\ 0 \in Mark(a) /\ MaxPosts[a] \in Nat
  BY <1>1, <1>2, AuthorFeedAssumption DEF MarksBounded, HeldBounded, Mark
<1>4. PICK lost, new :
        /\ lost = IF r.stop = 0 \/ r.end = "quota" THEN {p \in 1 .. r.newest : p < r.oldest} ELSE {}
        /\ new = [pc |-> "advancing", start |-> r.start, pos |-> r.pos, total |-> r.total]
  OBVIOUS
<1>5. PICK newHigh, newPending, newResume :
        /\ newHigh = (IF ScanComplete(r) /\ r.newest # 0 THEN r.newest ELSE r.high)
        /\ newPending = (IF ScanComplete(r) THEN 0 ELSE PendingKept(r))
        /\ newResume = CursorStored(r)
  OBVIOUS
<1>6. /\ high' = [high EXCEPT ![a] = newHigh]
       /\ pendingHigh' = [pendingHigh EXCEPT ![a] = newPending]
       /\ resume' = [resume EXCEPT ![a] = newResume]
       /\ run' = [run EXCEPT ![c] = new]
  BY <1>2, <1>4, <1>5 DEF RecordWrite
<1>7. waived' = [waived EXCEPT ![a] = waived[a] \union lost]
  BY <1>2, <1>4 DEF RecordWrite
<1>8. newHigh \in Mark(a) /\ newPending \in Mark(a) /\ newResume \in Mark(a) /\ lost \subseteq Mark(a)
  <2>1. newHigh \in Mark(a) /\ newPending \in Mark(a) /\ newResume \in Mark(a)
    BY <1>3, <1>5 DEF PendingKept, CursorStored
  <2>2. lost \subseteq 1 .. r.newest
    BY <1>4
  <2> QED
    BY <1>3, <2>1, <2>2 DEF Mark
<1>9. ASSUME NEW b \in Actor PROVE RowBounded(b)'
  BY <1>3, <1>8, <1>6, <1>7 DEF RowBounded, MarksBounded, FeedInv, FeedTypes
<1>10. HeldBounded(c)'
  BY <1>4, <1>6 DEF HeldBounded, FeedInv, FeedTypes
<1>11. UNCHANGED <<crashes, refreshes>>
  BY DEF RecordWrite
<1> QED
  BY <1>9, <1>10, <1>11, <1>6, MarksMove DEF MarksBounded

LEMMA MarksBoundedStep == FeedInv /\ MarksBounded /\ [FeedNext]_feedVars => MarksBounded'
<1> SUFFICES ASSUME FeedInv, MarksBounded, [FeedNext]_feedVars PROVE MarksBounded'
  OBVIOUS
<1>1. CASE UNCHANGED <<high, pendingHigh, resume, waived, run, crashes, refreshes>>
  BY <1>1 DEF MarksBounded, RowBounded, HeldBounded, ActorAt
<1>2. ASSUME NEW a \in Actor, Publish(a) PROVE MarksBounded'
  BY <1>1, <1>2 DEF Publish, marks, feedHistory
<1>3. ASSUME NEW c \in Collector, CollectorStep(c) \/ ScanFails(c) \/ CollectorDies(c)
      PROVE  MarksBounded'
  BY <1>3, BeginRunBounded, BeginActorBounded, LeavingBounded, ScanPageBounded, RecordReadBounded,
     RecordWriteBounded DEF CollectorStep
<1> QED
  BY <1>1, <1>2, <1>3 DEF FeedNext, feedVars

\* Every mark is one of a post the actor has published or may publish, also in
\* the hands of a collector that others overtake (bluesky_actor_intake_state).
THEOREM FeedTypeCorrect == FeedSpec => []FeedTypeOK
<1>1. ASSUME FeedInit PROVE MarksBounded
  <2>1. ASSUME NEW a \in Actor PROVE RowBounded(a)
    BY <1>1, AuthorFeedAssumption DEF FeedInit, RowBounded, Mark
  <2>2. \A c \in Collector : HeldBounded(c)
    BY <1>1 DEF FeedInit, HeldBounded, NoRun
  <2> QED
    BY <1>1, <2>1, <2>2, AuthorFeedAssumption DEF FeedInit, MarksBounded
<1>2. ASSUME FeedInv, MarksBounded PROVE FeedTypeOK
  <2>1. ASSUME NEW a \in Actor PROVE posts[a] \in Mark(a) /\ handled[a] \subseteq Mark(a)
    <3>1. /\ posts[a] \in Nat /\ posts[a] <= MaxPosts[a] /\ MaxPosts[a] \in Nat
          /\ handled[a] \subseteq 1 .. posts[a]
      BY <1>2, AuthorFeedAssumption DEF FeedInv, FeedTypes
    <3> QED
      BY <3>1 DEF Mark
  <2>2. ASSUME NEW c \in Collector
        PROVE  run[c].pc \in {"idle", "choosing", "scanning", "scanned", "recording", "advancing"}
    <3>1. run[c] \in Run
      BY <1>2 DEF FeedInv, FeedTypes
    <3> QED
      BY <3>1 DEF Run, NoRun, Turn, Scan, Recording
  <2> QED
    BY <1>2, <2>1, <2>2 DEF FeedInv, FeedTypes, MarksBounded, RowBounded, FeedTypeOK
<1>3. FeedSpec => []MarksBounded
  BY <1>1, MarksBoundedStep, FeedInvAlways, PTL DEF FeedSpec
<1> QED
  BY <1>2, <1>3, FeedInvAlways, PTL

-----------------------------------------------------------------------------
(***************************************************************************)
(* Proofs about SeedSources for any sources, packs and lists.              *)
(*                                                                         *)
(* While nothing went wrong, what a source found is in one of three places:*)
(* hydrated, in the queue it hands over, or not asked for yet. A pack asked*)
(* for page by page has among its members all that its sample and its list *)
(* show up to the cursor, and the whole list once the list has gone round, *)
(* which is when the cursor 0 was met (GatheringSound); without it cursors *)
(* only grow, so none is met again before the list's end.                  *)
(***************************************************************************)

PackAccounts == UNION {In(SampleOf[g]) \union In(ListOf[g]) : g \in DOMAIN ListOf}
Accounts == PackAccounts \union UNION {In(HitsOf[s]) : s \in Source}

Oracles == [at : {"waiting", "asking", "sent", "listing", "ended"},
            wants : {"query", "pack", "list", "profile"}, tries : 0 .. MaxRetries, nth : Nat \ {0},
            members : Seq(Accounts), cursor : Nat \union {NoCursor}, cursors : SUBSET Nat,
            queue : Seq(Accounts), suggested : Nat]

Distinct(seq) == \A i, j \in DOMAIN seq : seq[i] = seq[j] => i = j

\* As many of a pack's accounts as max_members asks for, or all there are.
EnoughOf(pack, some) ==
  \E W \in SUBSET some :
    W \subseteq AccountsOf(pack) /\ (W = AccountsOf(pack) \/ Cardinality(W) >= MaxMembers)

\* A source that waits for the answer to such a request.
Wanting(s, wants) == oracle[s].at \in {"asking", "sent"} /\ oracle[s].wants \in wants

\* The members of a pack whose list is being read.
GatheringSound(pack, members, cursor, cursors) ==
  /\ Distinct(members) /\ Len(members) < MaxMembers
  /\ In(SampleOf[pack]) \subseteq In(members) /\ In(members) \subseteq AccountsOf(pack)
  /\ \A i \in DOMAIN ListOf[pack] :
       (i <= cursor \/ 0 \in cursors) => ListOf[pack][i] \in Hidden \union In(members)
  /\ 0 \in cursors \/ \A c \in cursors : c <= cursor

\* What a source does follows from what its oracle is.
OracleSound(s) ==
  LET o == oracle[s] IN
  /\ o.suggested <= LimitOf[s]
  /\ (o.at = "waiting" \/ Wanting(s, {"query"})) => o.nth = 1 /\ o.queue = <<>>
  /\ Wanting(s, {"query"}) => OracleOf[s] # "manual"
  /\ Wanting(s, {"pack", "list"}) =>
       OracleOf[s] = "packs" /\ o.nth \in DOMAIN Taken(s) /\ o.queue = <<>>
  /\ Wanting(s, {"list"}) => GatheringSound(Pack(s), o.members, o.cursor, o.cursors)
  /\ Wanting(s, {"profile"}) => o.queue # <<>>

\* What a source has been through is hydrated or on its way.
FoundIsKept(s) ==
  LET o == oracle[s]  held == hydrated \union In(o.queue) IN
  IF OracleOf[s] = "packs"
  THEN \A i \in DOMAIN Taken(s) : i < o.nth => EnoughOf(Taken(s)[i], held) \/ Taken(s)[i] \in cutShort
  ELSE In(Taken(s)) \subseteq held

SourceSound(s) ==
  LET o == oracle[s] IN
  /\ (o.at = "listing" \/ Wanting(s, {"pack", "list", "profile"})) => FoundIsKept(s)
  /\ o.at = "ended" /\ o.suggested # LimitOf[s] =>
       /\ FoundIsKept(s) /\ o.queue = <<>>
       /\ OracleOf[s] = "packs" => o.nth > Len(Taken(s))

SeedTypes ==
  /\ oracle \in [Source -> Oracles] /\ used \in 0 .. RequestLimit
  /\ erred \in BOOLEAN /\ overdrawn \in BOOLEAN

SeedInv ==
  /\ SeedTypes
  /\ \A s \in Source : OracleSound(s)
  /\ ~erred /\ ~overdrawn => \A s \in Source : SourceSound(s)

-----------------------------------------------------------------------------
(* Sequences of accounts.                                                  *)

LEMMA InOf ==
  ASSUME NEW S, NEW seq \in Seq(S)
  PROVE  /\ DOMAIN seq = 1 .. Len(seq) /\ Len(seq) \in Nat /\ In(seq) \subseteq S
         /\ IsFiniteSet(In(seq)) /\ (seq = <<>> <=> In(seq) = {})
         /\ Distinct(seq) => Cardinality(In(seq)) = Len(seq)
<1>1. DOMAIN seq = 1 .. Len(seq) /\ Len(seq) \in Nat /\ \A i \in 1 .. Len(seq) : seq[i] \in S
  BY LenProperties
<1>2. In(seq) \subseteq S /\ seq \in [1 .. Len(seq) -> In(seq)]
  BY <1>1, LenProperties DEF In
<1>3. seq \in Surjection(1 .. Len(seq), In(seq))
  BY <1>1, <1>2 DEF Surjection, In
<1>4. IsFiniteSet(1 .. Len(seq)) /\ Cardinality(1 .. Len(seq)) = Len(seq)
  <2>1. PICK n \in Nat : n = Len(seq)
    BY <1>1
  <2>2. IsFiniteSet(1 .. n) /\ Cardinality(1 .. n) = IF 1 > n THEN 0 ELSE n - 1 + 1
    BY FS_Interval
  <2> QED
    BY <2>1, <2>2
<1>5. IsFiniteSet(In(seq))
  BY <1>3, <1>4, FS_Surjection
<1>6. Distinct(seq) => Cardinality(In(seq)) = Len(seq)
  <2> SUFFICES ASSUME Distinct(seq) PROVE Cardinality(In(seq)) = Len(seq)
    OBVIOUS
  <2>1. seq \in Injection(1 .. Len(seq), In(seq))
    BY <1>1, <1>2 DEF Distinct, Injection, IsInjective
  <2> QED
    BY <1>3, <1>4, <2>1, FS_Surjection
<1>7. seq = <<>> => In(seq) = {}
  BY EmptySeq, <1>1 DEF In
<1>8. seq # <<>> => In(seq) # {}
  <2>1. seq # <<>> => 1 \in DOMAIN seq
    BY EmptySeq, <1>1
  <2> QED
    BY <2>1 DEF In
<1> QED
  BY <1>1, <1>2, <1>5, <1>6, <1>7, <1>8

LEMMA InTail ==
  ASSUME NEW S, NEW seq \in Seq(S), seq # <<>>
  PROVE  /\ Head(seq) \in S /\ Tail(seq) \in Seq(S) /\ Head(seq) \in In(seq)
         /\ In(seq) = {Head(seq)} \union In(Tail(seq))
<1>1. PICK rest \in Seq(S) : rest = Tail(seq)
  BY HeadTailProperties
<1>2. /\ DOMAIN seq = 1 .. Len(seq) /\ Len(seq) \in Nat /\ Len(seq) # 0
      /\ DOMAIN rest = 1 .. Len(seq) - 1 /\ \A i \in 1 .. Len(seq) - 1 : rest[i] = seq[i + 1]
  BY <1>1, InOf, HeadTailProperties, EmptySeq
<1>3. Head(seq) = seq[1] /\ Head(seq) \in S
  BY HeadTailProperties
<1>4. ASSUME NEW i \in DOMAIN seq PROVE seq[i] \in {Head(seq)} \union In(rest)
  <2>1. i # 1 => i - 1 \in 1 .. Len(seq) - 1 /\ rest[i - 1] = seq[i]
    BY <1>2
  <2> QED
    BY <1>2, <1>3, <2>1 DEF In
<1>5. ASSUME NEW i \in DOMAIN rest PROVE rest[i] \in In(seq)
  <2>1. i + 1 \in DOMAIN seq /\ rest[i] = seq[i + 1]
    BY <1>2
  <2> QED
    BY <2>1 DEF In
<1>6. Head(seq) \in In(seq)
  BY <1>2, <1>3 DEF In
<1> QED
  BY <1>1, <1>3, <1>4, <1>5, <1>6 DEF In

LEMMA CutOf ==
  ASSUME NEW S, NEW seq \in Seq(S), NEW n \in Nat
  PROVE  /\ Cut(seq, n) \in Seq(S) /\ In(Cut(seq, n)) \subseteq In(seq)
         /\ Len(seq) <= n => Cut(seq, n) = seq
         /\ Len(seq) >= n => Len(Cut(seq, n)) = n
         /\ Distinct(seq) => Distinct(Cut(seq, n))
         /\ Len(Cut(seq, n)) <= Len(seq)
<1>0. PICK len \in Nat : len = Len(seq)
  BY InOf
<1>1. PICK m \in Nat : m = IF len < n THEN len ELSE n
  OBVIOUS
<1>2. m <= len /\ m <= n /\ DOMAIN seq = 1 .. len /\ (len <= n => m = len) /\ (len >= n => m = n)
  BY <1>0, <1>1, InOf
<1>3. \A i \in 1 .. m : i \in DOMAIN seq /\ seq[i] \in S
  BY <1>0, <1>2, ElementOfSeq
<1>4. PICK cut : cut = SubSeq(seq, 1, m)
  OBVIOUS
<1>5. cut = Cut(seq, n)
  BY <1>0, <1>1, <1>4 DEF Cut
<1>6. cut \in Seq(S) /\ Len(cut) = m /\ \A i \in 1 .. m : cut[i] = seq[i]
  <2>1. cut \in Seq(S) /\ Len(cut) = IF 1 <= m THEN m - 1 + 1 ELSE 0
    BY <1>3, <1>4, SubSeqProperties
  <2>2. \A i \in 1 .. m - 1 + 1 : cut[i] = seq[1 + i - 1]
    BY <1>3, <1>4, SubSeqProperties
  <2> QED
    BY <2>1, <2>2
<1>7. DOMAIN cut = 1 .. m
  BY <1>6, InOf
<1>8. In(cut) \subseteq In(seq) /\ (Distinct(seq) => Distinct(cut))
  BY <1>3, <1>6, <1>7 DEF In, Distinct
<1>9. len <= n => cut = seq
  <2> SUFFICES ASSUME len <= n PROVE cut = seq
    OBVIOUS
  <2>1. Len(cut) = Len(seq) /\ m = Len(seq)
    BY <1>0, <1>2, <1>6
  <2> QED
    BY <1>6, <2>1, SeqEqual
<1> QED
  <2>1. cut \in Seq(S) /\ Len(cut) <= Len(seq) /\ (Len(seq) >= n => Len(cut) = n)
    BY <1>0, <1>2, <1>6
  <2> QED
    BY <1>0, <1>5, <1>8, <1>9, <2>1

(* What is picked is what stands at the places, each once.                  *)
LEMMA PickedOf ==
  ASSUME NEW S, NEW seq \in Seq(S), NEW places \in SUBSET DOMAIN seq
  PROVE  /\ Picked(seq, places) \in Seq(S) /\ In(Picked(seq, places)) = {seq[i] : i \in places}
         /\ (\A i, j \in places : seq[i] = seq[j] => i = j) => Distinct(Picked(seq, places))
         /\ Picked(seq, places) = <<>> <=> places = {}
<1> DEFINE Below(i) == {j \in places : j < i}
<1>0. DOMAIN seq \subseteq Nat /\ \A i \in DOMAIN seq : seq[i] \in S
  BY InOf, ElementOfSeq
<1>1. IsFiniteSet(places) /\ \A T \in SUBSET places : IsFiniteSet(T) /\ Cardinality(T) \in Nat
  <2>1. PICK n \in Nat : DOMAIN seq = 1 .. n
    BY InOf
  <2>2. IsFiniteSet(1 .. n)
    BY FS_Interval
  <2> QED
    BY <2>1, <2>2, FS_Subset, FS_CardinalityType
<1>2. PICK many \in Nat : many = Cardinality(places)
  BY <1>1
<1>3. ASSUME NEW i \in places, NEW above \in SUBSET places,
             above \in {places} \union {Below(j) : j \in places},
             Below(i) \subseteq above, i \in above
      PROVE  Cardinality(Below(i)) < Cardinality(above)
  <2>1. PICK low : low = Below(i)
    OBVIOUS
  <2>2. i \notin low /\ low \in SUBSET above
    BY <1>0, <1>3, <2>1
  <2>3. IsFiniteSet(above) /\ Cardinality(above) \in Nat /\ Cardinality(low) \in Nat
    BY <1>1, <2>2
  <2>4. Cardinality(low) <= Cardinality(above) /\ Cardinality(low) # Cardinality(above)
    BY <1>3, <2>2, <2>3, FS_Subset
  <2> QED
    BY <2>1, <2>3, <2>4
<1>4. ASSUME NEW i \in places PROVE Cardinality(Below(i)) \in Nat /\ Cardinality(Below(i)) < many
  BY <1>0, <1>1, <1>2, <1>3
<1>5. ASSUME NEW i \in places, NEW j \in places, Cardinality(Below(i)) = Cardinality(Below(j)) PROVE i = j
  <2>1. ASSUME NEW a \in places, NEW b \in places, a < b PROVE Cardinality(Below(a)) < Cardinality(Below(b))
    <3>1. a \in Nat /\ b \in Nat /\ \A x \in places : x \in Nat
      BY <1>0
    <3>2. \A x \in places : x < a => x < b
      BY <2>1, <3>1
    <3>3. a \in Below(b) /\ Below(a) \subseteq Below(b) /\ Below(b) \in SUBSET places
      BY <2>1, <3>2
    <3> HIDE DEF Below
    <3> QED
      BY <1>3, <3>3
  <2>2. i \in Nat /\ j \in Nat /\ Cardinality(Below(i)) \in Nat /\ Cardinality(Below(j)) \in Nat
    BY <1>0, <1>4
  <2> HIDE DEF Below
  <2>3. ~(i < j)
    BY <1>5, <2>1, <2>2
  <2>4. ~(j < i)
    BY <1>5, <2>1, <2>2
  <2> QED
    BY <2>2, <2>3, <2>4
<1>6. PICK rank : rank = [i \in places |-> Cardinality(Below(i)) + 1]
  OBVIOUS
<1> HIDE DEF Below
<1>7. rank \in [places -> 1 .. many]
  BY <1>4, <1>6
<1>8. rank \in Injection(places, 1 .. many)
  BY <1>4, <1>5, <1>6, <1>7 DEF Injection, IsInjective
<1>9. rank \in Surjection(places, 1 .. many)
  <2>1. IsFiniteSet(1 .. many) /\ Cardinality(1 .. many) = many
    BY FS_Interval
  <2> QED
    BY <1>2, <1>8, <2>1, FS_Injection
<1>10. PICK at : at = [k \in 1 .. many |-> CHOOSE i \in places : Cardinality(Below(i)) = k - 1]
  OBVIOUS
<1>11. \A k \in 1 .. many : at[k] \in places /\ Cardinality(Below(at[k])) = k - 1
  <2> SUFFICES ASSUME NEW k \in 1 .. many PROVE \E i \in places : Cardinality(Below(i)) = k - 1
    BY <1>10
  <2>1. PICK i \in places : rank[i] = k
    BY <1>9 DEF Surjection
  <2> QED
    BY <1>4, <1>6, <2>1
<1>12. \A i \in places : \E k \in 1 .. many : at[k] = i
  <2> SUFFICES ASSUME NEW i \in places PROVE \E k \in 1 .. many : at[k] = i
    OBVIOUS
  <2>1. rank[i] \in 1 .. many /\ Cardinality(Below(i)) = rank[i] - 1
    BY <1>4, <1>6, <1>7
  <2> QED
    BY <1>5, <1>11, <2>1
<1>13. \A k, l \in 1 .. many : at[k] = at[l] => k = l
  BY <1>11
<1>14. PICK chosen : chosen = [k \in 1 .. many |-> seq[at[k]]]
  OBVIOUS
<1>15. Picked(seq, places) = chosen
  BY <1>2, <1>10, <1>14 DEF Picked, Below
<1>16. /\ chosen \in Seq(S) /\ DOMAIN chosen = 1 .. many
       /\ \A k \in 1 .. many : chosen[k] = seq[at[k]]
  <2>1. chosen \in [1 .. many -> S]
    BY <1>0, <1>11, <1>14
  <2>2. chosen \in Seq(S)
    BY <2>1, SeqDef
  <2> QED
    BY <1>14, <2>2
<1>17. In(chosen) = {seq[i] : i \in places}
  <2>1. \A k \in 1 .. many : chosen[k] = seq[at[k]] /\ at[k] \in places
    BY <1>11, <1>16
  <2>2. \A i \in places : \E k \in 1 .. many : chosen[k] = seq[i]
    BY <1>12, <1>16
  <2>3. In(chosen) = {chosen[k] : k \in 1 .. many}
    BY <1>16 DEF In
  <2> QED
    BY <2>1, <2>2, <2>3
<1>18. (\A i, j \in places : seq[i] = seq[j] => i = j) => Distinct(chosen)
  <2> SUFFICES ASSUME \A i, j \in places : seq[i] = seq[j] => i = j,
                      NEW k \in 1 .. many, NEW l \in 1 .. many, chosen[k] = chosen[l]
               PROVE  k = l
    BY <1>16 DEF Distinct
  <2>1. seq[at[k]] = seq[at[l]] /\ at[k] \in places /\ at[l] \in places
    BY <1>11, <1>16
  <2>2. at[k] = at[l]
    BY <2>1
  <2> QED
    BY <1>13, <2>2
<1>19. chosen = <<>> <=> places = {}
  <2>1. chosen = <<>> <=> In(chosen) = {}
    BY <1>16, InOf
  <2> QED
    BY <1>17, <2>1
<1> QED
  BY <1>15, <1>16, <1>17, <1>18, <1>19

(* The least place of a sequence where something is said.                   *)
LEMMA FirstPlace ==
  ASSUME NEW S, NEW seq \in Seq(S), NEW x \in In(seq)
  PROVE  \E i \in DOMAIN seq : seq[i] = x /\ \A j \in 1 .. i - 1 : seq[j] # x
<1>0. DOMAIN seq = 1 .. Len(seq) /\ Len(seq) \in Nat
  BY InOf
<1>1. PICK places \in SUBSET Nat : places = {i \in DOMAIN seq : seq[i] = x}
  <2>1. DOMAIN seq \subseteq Nat
    BY <1>0
  <2> QED
    BY <2>1
<1>2. places # {}
  BY <1>1 DEF In
<1>3. PICK i \in places : \A j \in places : i <= j
  BY <1>2, LeastPost
<1>4. i \in Nat /\ i \in DOMAIN seq
  BY <1>1
<1>5. \A j \in 1 .. i - 1 : j \in DOMAIN seq /\ ~(i <= j)
  BY <1>0, <1>4
<1> QED
  BY <1>1, <1>3, <1>4, <1>5

(* extend_members keeps what it has, adds what is new, and nothing twice.   *)
LEMMA ExtendedOf ==
  ASSUME NEW S, NEW members \in Seq(S), NEW accounts \in Seq(S), Distinct(members)
  PROVE  /\ Extended(members, accounts) \in Seq(S) /\ Distinct(Extended(members, accounts))
         /\ In(Extended(members, accounts)) = In(members) \union In(accounts)
<1>1. PICK fresh \in SUBSET DOMAIN accounts :
        fresh = {i \in DOMAIN accounts :
                   accounts[i] \notin In(members) \union {accounts[j] : j \in 1 .. i - 1}}
  OBVIOUS
<1>2. PICK new : new = Picked(accounts, fresh)
  OBVIOUS
<1>3. DOMAIN accounts \subseteq Nat \ {0}
  BY InOf
<1>4. \A i, j \in fresh : accounts[i] = accounts[j] => i = j
  <2> SUFFICES ASSUME NEW i \in fresh, NEW j \in fresh, accounts[i] = accounts[j], i < j PROVE FALSE
    BY <1>1, <1>3
  <2>1. i \in 1 .. j - 1
    BY <1>1, <1>3
  <2> QED
    BY <1>1, <2>1
<1>5. new \in Seq(S) /\ Distinct(new) /\ In(new) = {accounts[i] : i \in fresh}
  BY <1>2, <1>4, PickedOf
<1>6. PICK all : all = members \o new
  OBVIOUS
<1>7. all = Extended(members, accounts)
  BY <1>1, <1>2, <1>6 DEF Extended
<1>8. PICK m \in Nat, n \in Nat : m = Len(members) /\ n = Len(new)
      /\ DOMAIN members = 1 .. m /\ DOMAIN new = 1 .. n
  BY <1>5, InOf
<1>9. /\ all \in Seq(S) /\ Len(all) = m + n
      /\ \A i \in 1 .. m + n : all[i] = IF i <= m THEN members[i] ELSE new[i - m]
  BY <1>5, <1>6, <1>8, ConcatProperties
<1>10. DOMAIN all = 1 .. m + n
  BY <1>9, InOf
<1>11. \A i \in 1 .. m : i \in DOMAIN all /\ all[i] = members[i]
  BY <1>8, <1>9, <1>10
<1>12. \A i \in 1 .. n : m + i \in DOMAIN all /\ all[m + i] = new[i]
  <2> SUFFICES ASSUME NEW i \in 1 .. n PROVE m + i \in DOMAIN all /\ all[m + i] = new[i]
    OBVIOUS
  <2>1. m + i \in 1 .. m + n /\ ~(m + i <= m) /\ (m + i) - m = i
    BY <1>8
  <2> QED
    BY <1>9, <1>10, <2>1
<1>13. \A i \in DOMAIN all : i \in 1 .. m \/ \E k \in 1 .. n : i = m + k
  <2> SUFFICES ASSUME NEW i \in DOMAIN all, i \notin 1 .. m PROVE \E k \in 1 .. n : i = m + k
    OBVIOUS
  <2>1. i \in Int /\ i - m \in 1 .. n /\ i = m + (i - m)
    BY <1>8, <1>10
  <2> QED
    BY <2>1
<1>14. In(all) = In(members) \union In(new)
  BY <1>8, <1>11, <1>12, <1>13 DEF In
<1>15. In(new) \intersect In(members) = {}
  BY <1>1, <1>5
<1>16. Distinct(all)
  <2> SUFFICES ASSUME NEW i \in DOMAIN all, NEW j \in DOMAIN all, all[i] = all[j] PROVE i = j
    BY DEF Distinct
  <2>1. CASE i \in 1 .. m /\ j \in 1 .. m
    BY <1>8, <1>11, <2>1 DEF Distinct
  <2>2. CASE \E k, l \in 1 .. n : i = m + k /\ j = m + l
    <3>1. PICK k \in 1 .. n, l \in 1 .. n : i = m + k /\ j = m + l
      BY <2>2
    <3>2. new[k] = new[l]
      BY <1>12, <3>1
    <3> QED
      BY <1>5, <1>8, <3>1, <3>2 DEF Distinct
  <2>3. ASSUME NEW a \in 1 .. m, NEW k \in 1 .. n PROVE all[a] # all[m + k]
    BY <1>8, <1>11, <1>12, <1>15 DEF In
  <2> QED
    BY <1>13, <2>1, <2>2, <2>3
<1>17. In(accounts) \subseteq In(members) \union In(new)
  <2> SUFFICES ASSUME NEW x \in In(accounts), x \notin In(members) PROVE x \in In(new)
    OBVIOUS
  <2>1. PICK i \in DOMAIN accounts : accounts[i] = x /\ \A j \in 1 .. i - 1 : accounts[j] # x
    BY FirstPlace
  <2>2. i \in fresh
    BY <1>1, <2>1
  <2> QED
    BY <1>5, <2>1, <2>2
<1>18. In(new) \subseteq In(accounts)
  BY <1>1, <1>5 DEF In
<1> QED
  BY <1>7, <1>9, <1>14, <1>16, <1>17, <1>18

-----------------------------------------------------------------------------
(* Packs.                                                                  *)

LEMMA TakenOf ==
  ASSUME NEW s \in Source
  PROVE  /\ Taken(s) \in Seq(Accounts) /\ DOMAIN Taken(s) = 1 .. Len(Taken(s)) /\ Len(Taken(s)) \in Nat
         /\ OracleOf[s] = "packs" => \A i \in DOMAIN Taken(s) : Taken(s)[i] \in DOMAIN ListOf
<1>1. PICK found \in Seq(In(HitsOf[s])) : found = Taken(s)
  BY SourcesAssumption, CutOf DEF Taken
<1>2. found \in Seq(Accounts)
  <2>1. In(HitsOf[s]) \subseteq Accounts
    BY DEF Accounts
  <2> QED
    BY <2>1, SeqMonotonic
<1>3. DOMAIN found = 1 .. Len(found) /\ Len(found) \in Nat
  BY InOf
<1>4. \A i \in DOMAIN found : found[i] \in In(HitsOf[s])
  BY <1>3, ElementOfSeq
<1>5. OracleOf[s] = "packs" => In(HitsOf[s]) \subseteq DOMAIN ListOf
  BY SourcesAssumption
<1> QED
  BY <1>1, <1>2, <1>3, <1>4, <1>5

LEMMA PackLists ==
  ASSUME NEW g \in DOMAIN ListOf
  PROVE  /\ SampleOf[g] \in Seq(Accounts) /\ ListOf[g] \in Seq(Accounts)
         /\ DOMAIN ListOf[g] = 1 .. Len(ListOf[g]) /\ Len(ListOf[g]) \in Nat
         /\ IsFiniteSet(AccountsOf(g)) /\ AccountsOf(g) \subseteq Accounts
<1>1. SampleOf[g] \in Seq(In(SampleOf[g])) /\ ListOf[g] \in Seq(In(ListOf[g]))
  BY SourcesAssumption
<1>2. In(SampleOf[g]) \subseteq Accounts /\ In(ListOf[g]) \subseteq Accounts
  <2>1. In(SampleOf[g]) \union In(ListOf[g])
          \in {In(SampleOf[h]) \union In(ListOf[h]) : h \in DOMAIN ListOf}
    OBVIOUS
  <2>2. In(SampleOf[g]) \union In(ListOf[g]) \subseteq PackAccounts
    BY <2>1, Zenon DEF PackAccounts
  <2> QED
    BY <2>2 DEF Accounts
<1>3. SampleOf[g] \in Seq(Accounts) /\ ListOf[g] \in Seq(Accounts)
  BY <1>1, <1>2, SeqMonotonic
<1>4. IsFiniteSet(In(SampleOf[g])) /\ IsFiniteSet(In(ListOf[g]) \ Hidden)
  BY <1>3, InOf, FS_Subset
<1>5. IsFiniteSet(AccountsOf(g))
  BY <1>4, FS_Union DEF AccountsOf
<1> QED
  BY <1>2, <1>3, <1>5, InOf DEF AccountsOf

LEMMA EnoughGrows ==
  ASSUME NEW g, NEW some, NEW more, EnoughOf(g, some), some \subseteq more
  PROVE  EnoughOf(g, more)
BY DEF EnoughOf

\* What is cut from the members of a pack that are complete or many is enough.
LEMMA EnoughMembers ==
  ASSUME NEW g \in DOMAIN ListOf, NEW members \in Seq(Accounts), Distinct(members),
         In(members) \subseteq AccountsOf(g), Len(members) >= MaxMembers \/ In(members) = AccountsOf(g)
  PROVE  EnoughOf(g, In(Cut(members, MaxMembers)))
<1>1. MaxMembers \in Nat /\ Len(members) \in Nat
  BY SourcesAssumption, InOf
<1>2. PICK cut \in Seq(Accounts) : cut = Cut(members, MaxMembers)
  BY <1>1, CutOf
<1>3. Distinct(cut) /\ In(cut) \subseteq AccountsOf(g)
  BY <1>1, <1>2, CutOf
<1>4. CASE Len(members) >= MaxMembers
  <2>1. Len(cut) = MaxMembers
    BY <1>1, <1>2, <1>4, CutOf
  <2>2. Cardinality(In(cut)) = MaxMembers
    BY <1>3, <2>1, InOf
  <2>3. Cardinality(In(cut)) >= MaxMembers
    BY <1>1, <2>2
  <2> QED
    BY <1>2, <1>3, <2>3 DEF EnoughOf
<1>5. CASE ~(Len(members) >= MaxMembers)
  <2>1. Len(members) <= MaxMembers
    BY <1>1, <1>5
  <2>2. cut = members
    BY <1>1, <1>2, <2>1, CutOf
  <2> QED
    BY <1>2, <1>5, <2>2 DEF EnoughOf
<1> QED
  BY <1>4, <1>5

LEMMA EnoughIsSampled ==
  ASSUME NEW g \in DOMAIN ListOf, EnoughOf(g, hydrated)
  PROVE  Sampled(g)
<1>1. PICK W \in SUBSET hydrated :
        W \subseteq AccountsOf(g) /\ (W = AccountsOf(g) \/ Cardinality(W) >= MaxMembers)
  BY DEF EnoughOf
<1>2. PICK all : all = AccountsOf(g)
  OBVIOUS
<1>3. PICK these \in SUBSET all : these = all \intersect hydrated
  OBVIOUS
<1>4. IsFiniteSet(all) /\ IsFiniteSet(these) /\ W \in SUBSET these
  BY <1>1, <1>2, <1>3, PackLists, FS_Subset
<1>5. Cardinality(W) <= Cardinality(these) /\ Cardinality(W) \in Nat /\ Cardinality(these) \in Nat
  BY <1>4, FS_Subset, FS_CardinalityType
<1>6. MaxMembers \in Nat
  BY SourcesAssumption
<1>7. CASE W = all
  BY <1>2, <1>3, <1>4, <1>7 DEF Sampled
<1>8. CASE Cardinality(W) >= MaxMembers
  <2>1. Cardinality(these) >= MaxMembers
    BY <1>5, <1>6, <1>8
  <2> QED
    BY <1>2, <1>3, <2>1 DEF Sampled
<1> QED
  BY <1>1, <1>2, <1>7, <1>8

\* A page of a list, read from where the last one ended.
LEMMA ListPageOf ==
  ASSUME NEW g \in DOMAIN ListOf, NEW cursor \in Nat \union {NoCursor}, NEW limit \in Nat \ {0}
  PROVE  LET page == ListPage(g, cursor, limit) IN
         /\ page.items \in Seq(Accounts) /\ page.cursor \in Nat \union {NoCursor}
         /\ In(page.items) \subseteq AccountsOf(g)
         /\ page.cursor \in {0, NoCursor} \/ page.cursor > cursor
         /\ \A i \in DOMAIN ListOf[g] :
              i <= cursor \/ (page.cursor \notin {0, NoCursor} /\ i > page.cursor)
              \/ ListOf[g][i] \in Hidden \union In(page.items)
<1>1. PICK len \in Nat : len = Len(ListOf[g]) /\ DOMAIN ListOf[g] = 1 .. len
  BY PackLists
<1>2. PICK start \in Nat : start = IF cursor = NoCursor THEN 0 ELSE cursor
  BY DEF NoCursor
<1>3. PICK end \in Nat : end = IF start + limit < len THEN start + limit ELSE len
  OBVIOUS
<1>4. PICK shown : shown = {i \in start + 1 .. end : ListOf[g][i] \notin Hidden}
  OBVIOUS
<1>5. shown \in SUBSET DOMAIN ListOf[g]
  BY <1>1, <1>3, <1>4
<1>6. PICK items \in Seq(Accounts) : items = Picked(ListOf[g], shown)
  BY <1>5, PackLists, PickedOf
<1>7. In(items) = {ListOf[g][i] : i \in shown}
  BY <1>5, <1>6, PackLists, PickedOf
<1>8. PICK next : next = IF end < len THEN end ELSE IF g \in Circular THEN 0 ELSE NoCursor
  OBVIOUS
<1>9. ListPage(g, cursor, limit) = [items |-> items, cursor |-> next]
  BY <1>1, <1>2, <1>3, <1>4, <1>6, <1>8 DEF ListPage
<1>10. next \in Nat \union {NoCursor} /\ (next \in {0, NoCursor} \/ next > cursor)
  BY <1>2, <1>3, <1>8 DEF NoCursor
<1>11. In(items) \subseteq AccountsOf(g)
  BY <1>4, <1>5, <1>7 DEF AccountsOf, In
<1>12. ASSUME NEW i \in DOMAIN ListOf[g]
       PROVE  i <= cursor \/ (next \notin {0, NoCursor} /\ i > next)
               \/ ListOf[g][i] \in Hidden \union In(items)
  <2>1. i \in Nat /\ 1 <= i /\ i <= len
    BY <1>1
  <2>2. i <= start => i <= cursor
    BY <1>2, <2>1
  <2>3. i > end => next = end /\ end # 0 /\ end # NoCursor
    BY <1>1, <1>3, <1>8, <2>1 DEF NoCursor
  <2>4. i \in start + 1 .. end => ListOf[g][i] \in Hidden \union In(items)
    BY <1>4, <1>7
  <2> QED
    BY <2>1, <2>2, <2>3, <2>4
<1> QED
  BY <1>6, <1>9, <1>10, <1>11, <1>12

-----------------------------------------------------------------------------
(* A step of a source leaves the others as they are, and what is hydrated  *)
(* or was cut short stays so.                                              *)

Grows == hydrated \subseteq hydrated' /\ cutShort \subseteq cutShort'
         /\ (erred => erred') /\ (overdrawn => overdrawn')

LEMMA FoundStays ==
  ASSUME NEW s \in Source, Grows, FoundIsKept(s), oracle'[s].nth = oracle[s].nth,
         hydrated \union In(oracle[s].queue) \subseteq hydrated' \union In(oracle'[s].queue)
  PROVE  FoundIsKept(s)'
<1>1. PICK held, held2 : /\ held = hydrated \union In(oracle[s].queue)
                         /\ held2 = hydrated' \union In(oracle'[s].queue)
  OBVIOUS
<1>2. CASE OracleOf[s] = "packs"
  <2>1. \A i \in DOMAIN Taken(s) : i < oracle[s].nth =>
          EnoughOf(Taken(s)[i], held) \/ Taken(s)[i] \in cutShort
    BY <1>1, <1>2 DEF FoundIsKept
  <2>2. \A i \in DOMAIN Taken(s) : EnoughOf(Taken(s)[i], held) => EnoughOf(Taken(s)[i], held2)
    BY <1>1, EnoughGrows
  <2>3. \A i \in DOMAIN Taken(s) : i < oracle'[s].nth =>
          EnoughOf(Taken(s)[i], held2) \/ Taken(s)[i] \in cutShort'
    BY <2>1, <2>2 DEF Grows
  <2> QED
    BY <1>1, <1>2, <2>3 DEF FoundIsKept
<1>3. CASE OracleOf[s] # "packs"
  BY <1>1, <1>3 DEF FoundIsKept
<1> QED
  BY <1>2, <1>3

LEMMA OthersStay ==
  ASSUME NEW t \in Source, Grows, oracle'[t] = oracle[t]
  PROVE  (OracleSound(t) => OracleSound(t)') /\ (SourceSound(t) => SourceSound(t)')
<1>1. OracleSound(t) => OracleSound(t)'
  BY DEF OracleSound, Wanting, Pack
<1>2. FoundIsKept(t) => FoundIsKept(t)'
  BY FoundStays DEF Grows
<1>3. SourceSound(t) => SourceSound(t)'
  BY <1>2 DEF SourceSound, Wanting
<1> QED
  BY <1>1, <1>3

LEMMA SourceStep ==
  ASSUME SeedInv, NEW s \in Source, Grows, SeedTypes', \A t \in Source \ {s} : oracle'[t] = oracle[t],
         OracleSound(s)', ~erred' /\ ~overdrawn' => SourceSound(s)'
  PROVE  SeedInv'
<1>1. \A t \in Source \ {s} : OracleSound(t)' /\ (SourceSound(t) => SourceSound(t)')
  BY OthersStay DEF SeedInv
<1>2. ~erred' /\ ~overdrawn' => \A t \in Source : SourceSound(t)'
  BY <1>1 DEF SeedInv, Grows
<1> QED
  BY <1>1, <1>2 DEF SeedInv

LEMMA SeedInit == SourcesInit => SeedInv
<1> SUFFICES ASSUME SourcesInit PROVE SeedInv
  OBVIOUS
<1>1. <<>> \in Seq(Accounts) /\ RequestLimit \in Nat /\ MaxRetries \in Nat
  BY SourcesAssumption, EmptySeq
<1>2. SeedTypes
  <2>1. PICK first : first = [at |-> "waiting", wants |-> "query", tries |-> 0, nth |-> 1,
                              members |-> <<>>, cursor |-> NoCursor, cursors |-> {}, queue |-> <<>>,
                              suggested |-> 0]
    OBVIOUS
  <2>2. first \in Oracles
    <3>1. {} \in SUBSET Nat /\ 0 \in 0 .. MaxRetries /\ 1 \in Nat \ {0} /\ 0 \in Nat
      BY <1>1
    <3> QED
      BY <1>1, <2>1, <3>1 DEF Oracles
  <2>3. oracle = [s \in Source |-> first]
    BY <2>1 DEF SourcesInit
  <2>4. oracle \in [Source -> Oracles]
    BY <2>2, <2>3
  <2>5. used \in 0 .. RequestLimit /\ erred \in BOOLEAN /\ overdrawn \in BOOLEAN
    <3>1. used = 0 /\ erred = FALSE /\ overdrawn = FALSE
      BY DEF SourcesInit
    <3>2. 0 \in 0 .. RequestLimit
      BY <1>1
    <3> QED
      BY <3>1, <3>2
  <2> QED
    BY <2>4, <2>5 DEF SeedTypes
<1>3. ASSUME NEW s \in Source PROVE OracleSound(s) /\ SourceSound(s)
  <2>1. LimitOf[s] \in Nat /\ 0 <= LimitOf[s]
    BY SourcesAssumption
  <2>2. /\ oracle[s].at = "waiting" /\ oracle[s].suggested = 0 /\ oracle[s].nth = 1
        /\ oracle[s].queue = <<>>
    BY DEF SourcesInit
  <2> QED
    BY <2>1, <2>2 DEF OracleSound, SourceSound, Wanting
<1> QED
  BY <1>2, <1>3 DEF SeedInv

\* What the moves of a source change.
Moved(s) == oracle' \in [Source -> Oracles] /\ \A t \in Source \ {s} : oracle'[t] = oracle[t]
Keeps(s) == /\ oracle'[s].nth = oracle[s].nth /\ oracle'[s].members = oracle[s].members
            /\ oracle'[s].cursor = oracle[s].cursor /\ oracle'[s].cursors = oracle[s].cursors
            /\ oracle'[s].suggested = oracle[s].suggested

LEMMA SourceTypes ==
  ASSUME SeedTypes, NEW s \in Source
  PROVE  /\ oracle[s] \in Oracles
         /\ oracle[s].nth \in Nat \ {0} /\ oracle[s].members \in Seq(Accounts)
         /\ oracle[s].cursor \in Nat \union {NoCursor} /\ oracle[s].cursors \in SUBSET Nat
         /\ oracle[s].queue \in Seq(Accounts) /\ oracle[s].suggested \in Nat
         /\ LimitOf[s] \in Nat /\ oracle[s].tries \in Nat
<1>1. oracle[s] \in Oracles
  BY DEF SeedTypes
<1>2. /\ oracle[s].nth \in Nat \ {0} /\ oracle[s].members \in Seq(Accounts)
      /\ oracle[s].cursor \in Nat \union {NoCursor} /\ oracle[s].cursors \in SUBSET Nat
      /\ oracle[s].queue \in Seq(Accounts) /\ oracle[s].suggested \in Nat
      /\ oracle[s].tries \in 0 .. MaxRetries
  BY <1>1 DEF Oracles
<1>3. LimitOf[s] \in Nat
  BY SourcesAssumption
<1>4. oracle[s].tries \in Nat
  BY <1>2
<1> QED
  BY <1>1, <1>2, <1>3, <1>4

\* One source's record is replaced.
LEMMA Becomes ==
  ASSUME SeedTypes, NEW s \in Source, NEW new \in Oracles, oracle' = [oracle EXCEPT ![s] = new]
  PROVE  Moved(s) /\ oracle'[s] = new
<1>1. oracle \in [Source -> Oracles]
  BY DEF SeedTypes
<1> QED
  BY <1>1 DEF Moved

LEMMA AskMoves ==
  ASSUME SeedTypes, NEW s \in Source, NEW wants \in {"query", "pack", "list", "profile"}, Ask(s, wants)
  PROVE  /\ Moved(s) /\ Keeps(s)
         /\ oracle'[s].at = "asking" /\ oracle'[s].wants = wants /\ oracle'[s].queue = oracle[s].queue
<1>1. oracle[s] \in Oracles /\ 0 \in 0 .. MaxRetries
  BY SourceTypes, SourcesAssumption
<1>2. PICK new \in Oracles :
        new = [oracle[s] EXCEPT !.at = "asking", !.wants = wants, !.tries = 0]
  BY <1>1 DEF Oracles
<1>3. Moved(s) /\ oracle'[s] = new
  <2>1. oracle' = [oracle EXCEPT ![s] = new]
    BY <1>2 DEF Ask
  <2> QED
    BY <2>1, Becomes
<1>4. /\ new.at = "asking" /\ new.wants = wants /\ new.queue = oracle[s].queue
      /\ new.nth = oracle[s].nth /\ new.members = oracle[s].members /\ new.cursor = oracle[s].cursor
      /\ new.cursors = oracle[s].cursors /\ new.suggested = oracle[s].suggested
  BY <1>1, <1>2 DEF Oracles
<1> QED
  BY <1>3, <1>4 DEF Keeps

LEMMA EndMoves ==
  ASSUME SeedTypes, NEW s \in Source, EndSource(s)
  PROVE  Moved(s) /\ Keeps(s) /\ oracle'[s].at = "ended" /\ oracle'[s].queue = oracle[s].queue
<1>1. oracle[s] \in Oracles
  BY SourceTypes
<1>2. PICK new \in Oracles : new = [oracle[s] EXCEPT !.at = "ended"]
  BY <1>1 DEF Oracles
<1>3. Moved(s) /\ oracle'[s] = new
  <2>1. oracle' = [oracle EXCEPT ![s] = new]
    BY <1>2 DEF EndSource
  <2> QED
    BY <2>1, Becomes
<1>4. /\ new.at = "ended" /\ new.queue = oracle[s].queue /\ new.nth = oracle[s].nth
      /\ new.members = oracle[s].members /\ new.cursor = oracle[s].cursor
      /\ new.cursors = oracle[s].cursors /\ new.suggested = oracle[s].suggested
  BY <1>1, <1>2 DEF Oracles
<1> QED
  BY <1>3, <1>4 DEF Keeps

LEMMA ListsMoves ==
  ASSUME SeedTypes, NEW s \in Source, NEW queue \in Seq(Accounts), Lists(s, queue)
  PROVE  Moved(s) /\ Keeps(s) /\ oracle'[s].at = "listing" /\ oracle'[s].queue = queue
<1>1. oracle[s] \in Oracles
  BY SourceTypes
<1>2. PICK new \in Oracles : new = [oracle[s] EXCEPT !.at = "listing", !.queue = queue]
  BY <1>1 DEF Oracles
<1>3. Moved(s) /\ oracle'[s] = new
  <2>1. oracle' = [oracle EXCEPT ![s] = new]
    BY <1>2 DEF Lists
  <2> QED
    BY <2>1, Becomes
<1>4. /\ new.at = "listing" /\ new.queue = queue /\ new.nth = oracle[s].nth
      /\ new.members = oracle[s].members /\ new.cursor = oracle[s].cursor
      /\ new.cursors = oracle[s].cursors /\ new.suggested = oracle[s].suggested
  BY <1>1, <1>2 DEF Oracles
<1> QED
  BY <1>3, <1>4 DEF Keeps

LEMMA PassMoves ==
  ASSUME SeedTypes, NEW s \in Source, PassOn(s), oracle[s].queue # <<>>
  PROVE  Moved(s) /\ Keeps(s) /\ oracle'[s].at = "listing" /\ oracle'[s].queue = Tail(oracle[s].queue)
<1>1. Tail(oracle[s].queue) \in Seq(Accounts)
  BY SourceTypes, InTail
<1>2. Lists(s, Tail(oracle[s].queue))
  BY DEF PassOn, Lists, SeedTypes
<1> QED
  BY <1>1, <1>2, ListsMoves

\* What a source meets after it has ended, or while it lists, depends on little.
LEMMA ListingSound ==
  ASSUME NEW s \in Source, oracle'[s].at = "listing", oracle'[s].suggested <= LimitOf[s]
  PROVE  OracleSound(s)' /\ (FoundIsKept(s)' => SourceSound(s)')
BY DEF OracleSound, SourceSound, Wanting

LEMMA EndedSound ==
  ASSUME NEW s \in Source, oracle'[s].at = "ended", oracle'[s].suggested <= LimitOf[s]
  PROVE  OracleSound(s)'
BY DEF OracleSound, Wanting

-----------------------------------------------------------------------------
(* A request.                                                              *)

\* What a step says of the campaign, unless it is told.
SameCampaign == used' \in 0 .. RequestLimit /\ erred' \in BOOLEAN /\ overdrawn' \in BOOLEAN

LEMMA StartSourceStep == ASSUME SeedInv, NEW s \in Source, StartSource(s) PROVE SeedInv'
<1>1. SeedTypes /\ OracleSound(s) /\ SameCampaign /\ Grows /\ Stands(s, "waiting")
  BY DEF SeedInv, SeedTypes, StartSource, Sound, SameCampaign, Grows
<1>2. oracle[s].nth = 1 /\ oracle[s].queue = <<>> /\ oracle[s].suggested <= LimitOf[s]
  BY <1>1 DEF OracleSound, Stands
<1>3. CASE OracleOf[s] = "manual"
  <2>1. Moved(s) /\ Keeps(s) /\ oracle'[s].at = "listing" /\ oracle'[s].queue = Taken(s)
    BY <1>1, <1>3, TakenOf, ListsMoves DEF StartSource
  <2>2. FoundIsKept(s)'
    BY <1>3, <2>1 DEF FoundIsKept
  <2> QED
    BY <1>1, <1>2, <2>1, <2>2, ListingSound, SourceStep DEF Moved, Keeps, SeedTypes, SameCampaign
<1>4. CASE OracleOf[s] # "manual"
  <2>1. /\ Moved(s) /\ Keeps(s) /\ oracle'[s].at = "asking" /\ oracle'[s].wants = "query"
        /\ oracle'[s].queue = oracle[s].queue
    BY <1>1, <1>4, AskMoves DEF StartSource
  <2>2. OracleSound(s)' /\ SourceSound(s)'
    BY <1>2, <1>4, <2>1 DEF OracleSound, SourceSound, Wanting, Keeps
  <2> QED
    BY <1>1, <2>1, <2>2, SourceStep DEF Moved, SeedTypes, SameCampaign
<1> QED
  BY <1>3, <1>4

\* A request that is sent, or to be sent again, asks for the same.
LEMMA SameRequest ==
  ASSUME SeedInv, NEW s \in Source, oracle[s].at \in {"asking", "sent"}, Grows, Moved(s), Keeps(s),
         oracle'[s].at \in {"asking", "sent"}, oracle'[s].wants = oracle[s].wants,
         oracle'[s].queue = oracle[s].queue, hydrated' = hydrated, SameCampaign
  PROVE  SeedInv'
<1>1. OracleSound(s) /\ (~erred' /\ ~overdrawn' => SourceSound(s))
  BY DEF SeedInv, Grows
<1>2. OracleSound(s)'
  BY <1>1 DEF OracleSound, Wanting, Keeps, Pack
<1>3. FoundIsKept(s) => FoundIsKept(s)'
  BY FoundStays DEF Keeps
<1>4. SourceSound(s) => SourceSound(s)'
  BY <1>3 DEF SourceSound, Wanting, Keeps
<1> QED
  BY <1>1, <1>2, <1>4, SourceStep DEF Moved, SeedTypes, SameCampaign

LEMMA SendRequestStep == ASSUME SeedInv, NEW s \in Source, SendRequest(s) PROVE SeedInv'
<1>1. SeedTypes /\ OracleSound(s) /\ Stands(s, "asking") /\ used \in 0 .. RequestLimit /\ RequestLimit \in Nat
  BY SourcesAssumption DEF SeedInv, SeedTypes, SendRequest
<1>2. CASE used < RequestLimit
  <2>1. /\ oracle' = [oracle EXCEPT ![s].at = "sent"] /\ used' = used + 1
        /\ UNCHANGED <<erred, overdrawn, hydrated, cutShort>>
    BY <1>2 DEF SendRequest
  <2>2. /\ Moved(s) /\ Keeps(s) /\ oracle'[s].at = "sent" /\ oracle'[s].wants = oracle[s].wants
        /\ oracle'[s].queue = oracle[s].queue
    BY <1>1, <2>1, SourceTypes DEF SeedTypes, Oracles, Moved, Keeps
  <2>3. used' \in 0 .. RequestLimit
    BY <1>1, <1>2, <2>1
  <2>4. SameCampaign /\ Grows
    BY <1>1, <2>1, <2>3 DEF SeedTypes, SameCampaign, Grows
  <2> QED
    BY <1>1, <2>1, <2>2, <2>4, SameRequest DEF Stands
<1>3. CASE ~(used < RequestLimit)
  <2>1. overdrawn' = TRUE /\ EndSource(s) /\ UNCHANGED <<used, erred, hydrated, cutShort>>
    BY <1>3 DEF SendRequest
  <2>2. Moved(s) /\ Keeps(s) /\ oracle'[s].at = "ended"
    BY <1>1, <2>1, EndMoves
  <2>3. SameCampaign /\ Grows
    BY <1>1, <2>1 DEF SeedTypes, SameCampaign, Grows
  <2>4. OracleSound(s)'
    BY <1>1, <2>2, EndedSound DEF OracleSound, Keeps
  <2> QED
    BY <2>1, <2>2, <2>3, <2>4, SourceStep DEF Moved, SeedTypes, SameCampaign
<1> QED
  BY <1>2, <1>3

LEMMA LosesStep == ASSUME SeedInv, NEW s \in Source, Stands(s, "sent"), Loses(s) PROVE SeedInv'
<1>1. SeedTypes /\ OracleSound(s) /\ erred' = TRUE /\ UNCHANGED <<used, overdrawn, hydrated, cutShort>>
  BY DEF SeedInv, Loses
<1>2. SameCampaign /\ Grows
  BY <1>1 DEF SeedTypes, SameCampaign, Grows
<1>3. CASE oracle[s].wants = "profile"
  <2>1. oracle[s].queue # <<>>
    BY <1>1, <1>3 DEF OracleSound, Wanting, Stands
  <2>2. Moved(s) /\ Keeps(s) /\ oracle'[s].at = "listing"
    BY <1>1, <1>3, <2>1, PassMoves DEF Loses
  <2>3. OracleSound(s)'
    BY <1>1, <2>2, ListingSound DEF OracleSound, Keeps
  <2> QED
    BY <1>1, <1>2, <2>2, <2>3, SourceStep DEF Moved, SeedTypes, SameCampaign
<1>4. CASE oracle[s].wants # "profile"
  <2>1. Moved(s) /\ Keeps(s) /\ oracle'[s].at = "ended"
    BY <1>1, <1>4, EndMoves DEF Loses
  <2>2. OracleSound(s)'
    BY <1>1, <2>1, EndedSound DEF OracleSound, Keeps
  <2> QED
    BY <1>1, <1>2, <2>1, <2>2, SourceStep DEF Moved, SeedTypes, SameCampaign
<1> QED
  BY <1>3, <1>4

LEMMA FailRequestStep == ASSUME SeedInv, NEW s \in Source, FailRequest(s) PROVE SeedInv'
<1>1. SeedTypes /\ Stands(s, "sent")
  BY DEF SeedInv, FailRequest
<1>2. CASE oracle[s].tries < MaxRetries
  <2>1. /\ oracle' = [oracle EXCEPT ![s].at = "asking", ![s].tries = @ + 1]
        /\ UNCHANGED <<used, erred, overdrawn, hydrated, cutShort>>
    BY <1>2 DEF FailRequest, Sound
  <2>2. oracle[s].tries + 1 \in 0 .. MaxRetries
    BY <1>1, <1>2, SourceTypes, SourcesAssumption
  <2>3. /\ Moved(s) /\ Keeps(s) /\ oracle'[s].at = "asking" /\ oracle'[s].wants = oracle[s].wants
        /\ oracle'[s].queue = oracle[s].queue
    <3>1. oracle[s] \in Oracles
      BY <1>1, SourceTypes
    <3>2. PICK new \in Oracles :
            new = [oracle[s] EXCEPT !.at = "asking", !.tries = oracle[s].tries + 1]
      BY <2>2, <3>1 DEF Oracles
    <3>3. Moved(s) /\ oracle'[s] = new
      <4>1. oracle' = [oracle EXCEPT ![s] = new]
        BY <2>1, <3>2
      <4> QED
        BY <1>1, <4>1, Becomes
    <3>4. /\ new.at = "asking" /\ new.wants = oracle[s].wants /\ new.queue = oracle[s].queue
          /\ new.nth = oracle[s].nth /\ new.members = oracle[s].members
          /\ new.cursor = oracle[s].cursor /\ new.cursors = oracle[s].cursors
          /\ new.suggested = oracle[s].suggested
      BY <3>1, <3>2 DEF Oracles
    <3> QED
      BY <3>3, <3>4 DEF Keeps
  <2>4. SameCampaign /\ Grows
    BY <1>1, <2>1 DEF SeedTypes, SameCampaign, Grows
  <2> QED
    BY <1>1, <2>1, <2>3, <2>4, SameRequest DEF Stands
<1>3. CASE ~(oracle[s].tries < MaxRetries)
  BY <1>1, <1>3, LosesStep DEF FailRequest
<1> QED
  BY <1>2, <1>3

-----------------------------------------------------------------------------
(* Answers.                                                                *)

LEMMA GetHitsStep == ASSUME SeedInv, NEW s \in Source, GetHits(s) PROVE SeedInv'
<1>1. /\ SeedTypes /\ OracleSound(s) /\ oracle[s].at = "sent" /\ oracle[s].wants = "query"
      /\ UNCHANGED <<used, erred, overdrawn, hydrated, cutShort>>
  BY DEF SeedInv, GetHits, Sound, Answered, Stands
<1>2. SameCampaign /\ Grows
  BY <1>1 DEF SeedTypes, SameCampaign, Grows
<1>3. oracle[s].nth = 1 /\ oracle[s].suggested <= LimitOf[s] /\ OracleOf[s] \in {"search", "packs"}
  BY <1>1, SourcesAssumption DEF OracleSound, Wanting
<1>4. PICK queue \in Seq(Accounts) : queue = IF OracleOf[s] = "search" THEN Taken(s) ELSE <<>>
  BY TakenOf, EmptySeq
<1>5. Moved(s) /\ Keeps(s) /\ oracle'[s].at = "listing" /\ oracle'[s].queue = queue
  BY <1>1, <1>4, ListsMoves DEF GetHits
<1>6. CASE OracleOf[s] = "search"
  <2>1. FoundIsKept(s)'
    BY <1>4, <1>5, <1>6 DEF FoundIsKept
  <2> QED
    BY <1>1, <1>2, <1>3, <1>5, <2>1, ListingSound, SourceStep DEF Moved, Keeps, SeedTypes, SameCampaign
<1>7. CASE OracleOf[s] = "packs"
  <2>1. oracle'[s].nth = 1 /\ \A i \in DOMAIN Taken(s) : ~(i < 1)
    BY <1>3, <1>5, TakenOf DEF Keeps
  <2>2. FoundIsKept(s)'
    BY <1>7, <2>1 DEF FoundIsKept
  <2> QED
    BY <1>1, <1>2, <1>3, <1>5, <2>2, ListingSound, SourceStep DEF Moved, Keeps, SeedTypes, SameCampaign
<1> QED
  BY <1>3, <1>6, <1>7

\* A pack whose members are gathered is sound, and so is one that is handed over.
LEMMA GathersStep ==
  ASSUME SeedInv, NEW s \in Source, Wanting(s, {"pack", "list"}), Grows, SameCampaign, hydrated' = hydrated,
         NEW members \in Seq(Accounts), Distinct(members), NEW more \in BOOLEAN,
         NEW cursor \in Nat \union {NoCursor}, NEW cursors, Gathers(s, members, more, cursor, cursors),
         In(members) \subseteq AccountsOf(Pack(s)), more => cursors \in SUBSET Nat,
         more /\ Len(members) < MaxMembers => GatheringSound(Pack(s), members, cursor, cursors),
         ~more => In(members) = AccountsOf(Pack(s)) \/ Pack(s) \in cutShort'
  PROVE  SeedInv'
<1>1. SeedTypes /\ OracleSound(s) /\ (~erred' /\ ~overdrawn' => SourceSound(s))
  BY DEF SeedInv, Grows
<1>2. /\ OracleOf[s] = "packs" /\ oracle[s].nth \in DOMAIN Taken(s) /\ oracle[s].queue = <<>>
      /\ oracle[s].suggested <= LimitOf[s]
  BY <1>1 DEF OracleSound
<1>3. /\ oracle[s].nth \in Nat \ {0} /\ MaxMembers \in Nat /\ Len(members) \in Nat
      /\ 0 \in 0 .. MaxRetries
  BY <1>1, SourceTypes, SourcesAssumption, InOf
<1>4. Wanting(s, {"pack", "list", "profile"}) /\ Pack(s) \in DOMAIN ListOf
  BY <1>2, TakenOf DEF Wanting, Pack
<1>5. ~erred' /\ ~overdrawn' => FoundIsKept(s)
  BY <1>1, <1>4 DEF SourceSound
<1>6. CASE more /\ Len(members) < MaxMembers
  <2>1. oracle' = [oracle EXCEPT ![s].at = "asking", ![s].wants = "list", ![s].tries = 0,
                     ![s].members = members, ![s].cursor = cursor, ![s].cursors = cursors]
    BY <1>6 DEF Gathers
  <2>2. cursors \in SUBSET Nat
    BY <1>6
  <2>3. /\ Moved(s) /\ oracle'[s].at = "asking" /\ oracle'[s].wants = "list"
        /\ oracle'[s].members = members /\ oracle'[s].cursor = cursor /\ oracle'[s].cursors = cursors
        /\ oracle'[s].nth = oracle[s].nth /\ oracle'[s].queue = oracle[s].queue
        /\ oracle'[s].suggested = oracle[s].suggested
    <3>1. PICK now \in Oracles :
            now = [oracle[s] EXCEPT !.at = "asking", !.wants = "list", !.tries = 0,
                     !.members = members, !.cursor = cursor, !.cursors = cursors]
      BY <1>1, <1>3, <2>2, SourceTypes DEF Oracles
    <3>2. oracle' = [oracle EXCEPT ![s] = now]
      BY <2>1, <3>1
    <3> QED
      BY <1>1, <3>1, <3>2, SourceTypes DEF SeedTypes, Oracles, Moved
  <2>4. OracleSound(s)'
    BY <1>2, <1>6, <2>3 DEF OracleSound, Wanting, Pack
  <2>5. FoundIsKept(s) => FoundIsKept(s)'
    BY <2>3, FoundStays
  <2>6. ~erred' /\ ~overdrawn' => SourceSound(s)'
    BY <1>5, <2>3, <2>5 DEF SourceSound, Wanting
  <2> QED
    BY <1>1, <2>3, <2>4, <2>6, SourceStep DEF Moved, SeedTypes, SameCampaign
<1>7. CASE ~(more /\ Len(members) < MaxMembers)
  <2>1. PICK queue \in Seq(Accounts) : queue = Cut(members, MaxMembers)
    BY <1>3, CutOf
  <2>2. oracle' = [oracle EXCEPT ![s].at = "listing", ![s].nth = @ + 1, ![s].queue = queue]
    BY <1>7, <2>1 DEF Gathers
  <2>3. /\ Moved(s) /\ oracle'[s].at = "listing" /\ oracle'[s].nth = oracle[s].nth + 1
        /\ oracle'[s].queue = queue /\ oracle'[s].suggested = oracle[s].suggested
    <3>1. oracle[s].nth + 1 \in Nat \ {0}
      BY <1>3
    <3>2. PICK now \in Oracles :
            now = [oracle[s] EXCEPT !.at = "listing", !.nth = oracle[s].nth + 1, !.queue = queue]
      BY <1>1, <3>1, SourceTypes DEF Oracles
    <3>3. oracle' = [oracle EXCEPT ![s] = now]
      BY <2>2, <3>2
    <3> QED
      BY <1>1, <3>2, <3>3, SourceTypes DEF SeedTypes, Oracles, Moved
  <2>4. ASSUME ~erred', ~overdrawn' PROVE FoundIsKept(s)'
    <3>1. PICK held, held2 : held = hydrated \union In(oracle[s].queue) /\ held2 = hydrated' \union In(queue)
      OBVIOUS
    <3>2. held \subseteq held2 /\ In(queue) \subseteq held2
      BY <1>2, <3>1, EmptySeq DEF In
    <3>3. PICK pack \in DOMAIN ListOf : pack = Pack(s)
      BY <1>4
    <3>4. In(members) \subseteq AccountsOf(pack)
          /\ (Len(members) >= MaxMembers \/ In(members) = AccountsOf(pack) \/ pack \in cutShort')
      BY <1>3, <1>7, <3>3
    <3>5. EnoughOf(pack, In(queue)) \/ pack \in cutShort'
      BY <2>1, <3>4, EnoughMembers
    <3>6. EnoughOf(pack, held2) \/ pack \in cutShort'
      BY <3>2, <3>5, EnoughGrows
    <3>7. FoundIsKept(s)
      BY <1>5, <2>4
    <3>8. \A i \in DOMAIN Taken(s) : i < oracle[s].nth =>
            EnoughOf(Taken(s)[i], held) \/ Taken(s)[i] \in cutShort
      BY <1>2, <3>1, <3>7 DEF FoundIsKept
    <3>9. \A i \in DOMAIN Taken(s) : i < oracle[s].nth =>
            EnoughOf(Taken(s)[i], held2) \/ Taken(s)[i] \in cutShort'
      BY <3>2, <3>8, EnoughGrows DEF Grows
    <3>10. \A i \in DOMAIN Taken(s) : i < oracle[s].nth + 1 => i < oracle[s].nth \/ i = oracle[s].nth
      BY <1>3, TakenOf
    <3>11. Taken(s)[oracle[s].nth] = pack
      BY <3>3 DEF Pack
    <3>12. \A i \in DOMAIN Taken(s) : i < oracle'[s].nth =>
             EnoughOf(Taken(s)[i], held2) \/ Taken(s)[i] \in cutShort'
      BY <2>3, <3>6, <3>9, <3>10, <3>11
    <3> QED
      BY <1>2, <2>3, <3>1, <3>12 DEF FoundIsKept
  <2>5. OracleSound(s)' /\ (~erred' /\ ~overdrawn' => SourceSound(s)')
    BY <1>2, <2>3, <2>4, ListingSound
  <2> QED
    BY <2>3, <2>5, SourceStep DEF Moved, SeedTypes, SameCampaign
<1> QED
  BY <1>6, <1>7

LEMMA GetPackStep == ASSUME SeedInv, NEW s \in Source, GetPack(s) PROVE SeedInv'
<1>1. /\ SeedTypes /\ OracleSound(s) /\ oracle[s].at = "sent" /\ oracle[s].wants = "pack"
      /\ UNCHANGED <<used, erred, overdrawn, hydrated, cutShort>>
  BY DEF SeedInv, GetPack, Sound, Answered, Stands
<1>2. SameCampaign /\ Grows /\ Wanting(s, {"pack", "list"})
  BY <1>1 DEF SeedTypes, SameCampaign, Grows, Wanting
<1>3. PICK pack \in DOMAIN ListOf : pack = Pack(s)
  BY <1>1, <1>2, TakenOf DEF OracleSound, Pack
<1>4. /\ <<>> \in Seq(Accounts) /\ In(<<>>) = {} /\ Distinct(<<>>) /\ SampleOf[pack] \in Seq(Accounts)
  BY EmptySeq, PackLists DEF In, Distinct
<1>5. PICK members \in Seq(Accounts) : members = Extended(<<>>, SampleOf[pack])
  BY <1>4, ExtendedOf
<1>6. Distinct(members) /\ In(members) = In(SampleOf[pack])
  <2>1. PICK none \in Seq(Accounts) : none = <<>>
    BY <1>4
  <2>2. PICK sample \in Seq(Accounts) : sample = SampleOf[pack]
    BY <1>4
  <2>3. Distinct(none) /\ In(none) = {} /\ members = Extended(none, sample)
    BY <1>4, <1>5, <2>1, <2>2
  <2>4. /\ Distinct(Extended(none, sample))
        /\ In(Extended(none, sample)) = In(none) \union In(sample)
    <3>1. Distinct(none)
      BY <2>3
    <3> QED
      BY <3>1, ExtendedOf
  <2>5. Distinct(members) /\ In(members) = In(sample)
    BY <2>3, <2>4, Zenon
  <2> QED
    BY <2>2, <2>5
<1>7. PICK more \in BOOLEAN : more = (ListOf[pack] # <<>>)
  OBVIOUS
<1>8. In(members) \subseteq AccountsOf(pack)
  BY <1>6 DEF AccountsOf
<1>9. Gathers(s, members, more, NoCursor, {})
  BY <1>3, <1>5, <1>7 DEF GetPack
<1>10. Len(members) < MaxMembers => GatheringSound(pack, members, NoCursor, {})
  <2>1. \A i \in DOMAIN ListOf[pack] : ~(i <= NoCursor)
    BY PackLists DEF NoCursor
  <2> QED
    BY <1>6, <1>8, <2>1 DEF GatheringSound
<1>11. ~more => In(members) = AccountsOf(pack)
  <2>1. ~more => In(ListOf[pack]) = {}
    BY <1>7, PackLists, InOf
  <2> QED
    BY <1>6, <2>1 DEF AccountsOf
<1>12. NoCursor \in Nat \union {NoCursor} /\ {} \in SUBSET Nat
  OBVIOUS
<1> QED
  BY <1>1, <1>2, <1>3, <1>6, <1>8, <1>9, <1>10, <1>11, <1>12, GathersStep

LEMMA GetListStep == ASSUME SeedInv, NEW s \in Source, GetList(s) PROVE SeedInv'
<1>1. /\ SeedTypes /\ OracleSound(s) /\ oracle[s].at = "sent" /\ oracle[s].wants = "list"
      /\ UNCHANGED <<used, erred, overdrawn, hydrated>>
  BY DEF SeedInv, GetList, Sound, Answered, Stands
<1>2. Wanting(s, {"pack", "list"}) /\ Wanting(s, {"list"})
  BY <1>1 DEF Wanting
<1>3. PICK pack \in DOMAIN ListOf : pack = Pack(s)
  BY <1>1, <1>2, TakenOf DEF OracleSound, Pack
<1>4. PICK had \in Seq(Accounts) : had = oracle[s].members
  BY <1>1, SourceTypes
<1>5. PICK from \in Nat \union {NoCursor} : from = oracle[s].cursor
  BY <1>1, SourceTypes
<1>6. PICK asked \in SUBSET Nat : asked = oracle[s].cursors
  BY <1>1, SourceTypes
<1>7. GatheringSound(pack, had, from, asked)
  BY <1>1, <1>2, <1>3, <1>4, <1>5, <1>6 DEF OracleSound
<1>8. PICK limit \in Nat \ {0} : limit = PageLimit(s)
  <2>1. Len(had) \in Nat /\ Len(had) < MaxMembers /\ MaxMembers \in Nat /\ ListPageSize \in Nat \ {0}
    BY <1>7, InOf, SourcesAssumption DEF GatheringSound
  <2>2. PICK room \in Nat \ {0} : room = MaxMembers - Len(had)
    BY <2>1
  <2>3. PageLimit(s) = IF room < ListPageSize THEN room ELSE ListPageSize
    BY <1>4, <2>2 DEF PageLimit
  <2> QED
    BY <2>1, <2>2, <2>3
<1>9. PICK page : page = ListPage(pack, from, limit)
  OBVIOUS
<1>10. /\ page.items \in Seq(Accounts) /\ page.cursor \in Nat \union {NoCursor}
       /\ In(page.items) \subseteq AccountsOf(pack)
       /\ page.cursor \in {0, NoCursor} \/ page.cursor > from
       /\ \A i \in DOMAIN ListOf[pack] :
            i <= from \/ (page.cursor \notin {0, NoCursor} /\ i > page.cursor)
            \/ ListOf[pack][i] \in Hidden \union In(page.items)
  BY <1>9, ListPageOf
<1>11. PICK next \in Nat \union {NoCursor}, items \in Seq(Accounts) : next = page.cursor /\ items = page.items
  BY <1>10
<1>12. PICK members \in Seq(Accounts) : members = Extended(had, items)
  BY <1>7, ExtendedOf DEF GatheringSound
<1>13. Distinct(members) /\ In(members) = In(had) \union In(items)
  BY <1>7, <1>12, ExtendedOf DEF GatheringSound
<1>14. PICK more \in BOOLEAN : more = ~LastPage(page, asked, limit)
  OBVIOUS
<1>15. more <=> next # NoCursor /\ next \notin asked /\ items # <<>>
  BY <1>11, <1>14 DEF LastPage
<1>16. PICK cursors : cursors = asked \union {next}
  OBVIOUS
<1>17. /\ Gathers(s, members, more, next, cursors)
       /\ cutShort' = IF items = <<>> /\ next # NoCursor THEN cutShort \union {pack} ELSE cutShort
  BY <1>3, <1>4, <1>5, <1>6, <1>8, <1>9, <1>11, <1>12, <1>14, <1>16 DEF GetList
<1>18. SameCampaign /\ Grows
  BY <1>1, <1>17 DEF SeedTypes, SameCampaign, Grows
<1>19. In(SampleOf[pack]) \subseteq In(members) /\ In(members) \subseteq AccountsOf(pack)
  BY <1>7, <1>10, <1>11, <1>13 DEF GatheringSound
<1>20. more => cursors \in SUBSET Nat
  BY <1>15, <1>16
\* What is shown up to the new cursor is among the members, or the whole list.
<1>21. ASSUME NEW i \in DOMAIN ListOf[pack], i <= next \/ next \in {0, NoCursor} \/ 0 \in asked
       PROVE  ListOf[pack][i] \in Hidden \union In(members)
  <2>1. i \in Nat /\ from \in Int /\ next \in Int
    BY PackLists DEF NoCursor
  <2>2. i <= from => ListOf[pack][i] \in Hidden \union In(had)
    BY <1>7 DEF GatheringSound
  <2>3. 0 \in asked => ListOf[pack][i] \in Hidden \union In(had)
    BY <1>7 DEF GatheringSound
  <2>4. i <= from \/ (next \notin {0, NoCursor} /\ i > next) \/ ListOf[pack][i] \in Hidden \union In(items)
    BY <1>10, <1>11
  <2>5. ~(i <= next /\ i > next)
    BY <2>1
  <2> QED
    BY <1>13, <1>21, <2>2, <2>3, <2>4, <2>5
<1>22. 0 \in asked \/ \A c \in asked : c <= from
  BY <1>7 DEF GatheringSound
<1>23. next \in {0, NoCursor} \/ next > from
  BY <1>10, <1>11
<1>24. more => 0 \in cursors \/ \A c \in cursors : c <= next
  <2> SUFFICES ASSUME more, 0 \notin cursors, NEW c \in cursors PROVE c <= next
    OBVIOUS
  <2>1. next \in Nat /\ next > from /\ asked \subseteq Nat /\ from \in Int
    BY <1>15, <1>16, <1>23 DEF NoCursor
  <2>2. c \in asked => c <= from /\ c \in Nat
    BY <1>16, <1>22
  <2> QED
    BY <1>16, <2>1, <2>2
<1>25. more /\ Len(members) < MaxMembers => GatheringSound(pack, members, next, cursors)
  <2>1. more => \A i \in DOMAIN ListOf[pack] :
          (i <= next \/ 0 \in cursors) => ListOf[pack][i] \in Hidden \union In(members)
    BY <1>16, <1>21
  <2> QED
    BY <1>13, <1>19, <1>24, <2>1 DEF GatheringSound
<1>26. ~more => In(members) = AccountsOf(pack) \/ pack \in cutShort'
  <2> SUFFICES ASSUME ~more, pack \notin cutShort' PROVE AccountsOf(pack) \subseteq In(members)
    BY <1>19
  <2>1. next \in {0, NoCursor} \/ 0 \in asked
    <3> SUFFICES ASSUME next \notin {0, NoCursor}, 0 \notin asked PROVE FALSE
      OBVIOUS
    <3>1. items # <<>>
      BY <1>17
    <3>2. next \in asked
      BY <1>15, <3>1
    <3>3. next <= from /\ next > from /\ next \in Nat /\ from \in Int
      BY <1>22, <1>23, <3>2 DEF NoCursor
    <3> QED
      BY <3>3
  <2>2. In(ListOf[pack]) \ Hidden \subseteq In(members)
    BY <1>21, <2>1 DEF In
  <2> QED
    BY <1>19, <2>2 DEF AccountsOf
<1> QED
  BY <1>1, <1>2, <1>3, <1>13, <1>17, <1>18, <1>19, <1>20, <1>25, <1>26, GathersStep

-----------------------------------------------------------------------------
(* The coordinator.                                                        *)

LEMMA NextAccountStep == ASSUME SeedInv, NEW s \in Source, NextAccount(s) PROVE SeedInv'
<1>1. /\ SeedTypes /\ OracleSound(s) /\ oracle[s].at = "listing" /\ oracle[s].queue # <<>>
      /\ UNCHANGED <<used, erred, overdrawn, hydrated, cutShort>>
      /\ (~erred' /\ ~overdrawn' => SourceSound(s))
  BY DEF SeedInv, NextAccount, Sound, Stands
<1>2. SameCampaign /\ Grows
  BY <1>1 DEF SeedTypes, SameCampaign, Grows
<1>3. oracle[s].suggested \in Nat /\ oracle[s].suggested <= LimitOf[s] /\ LimitOf[s] \in Nat
  BY <1>1, SourceTypes DEF OracleSound
<1>4. /\ Head(oracle[s].queue) \in Accounts /\ Tail(oracle[s].queue) \in Seq(Accounts)
      /\ In(oracle[s].queue) = {Head(oracle[s].queue)} \union In(Tail(oracle[s].queue))
  BY <1>1, SourceTypes, InTail
<1>5. ~erred' /\ ~overdrawn' => FoundIsKept(s)
  BY <1>1 DEF SourceSound
<1>6. oracle[s].suggested + 1 \in Nat /\ 0 \in 0 .. MaxRetries
  BY <1>3, SourcesAssumption
<1>7. CASE oracle[s].suggested = LimitOf[s]
  <2>1. Moved(s) /\ Keeps(s) /\ oracle'[s].at = "ended"
    BY <1>1, <1>7, EndMoves DEF NextAccount
  <2>2. OracleSound(s)' /\ SourceSound(s)'
    BY <1>3, <1>7, <2>1, EndedSound DEF Keeps, SourceSound, Wanting
  <2> QED
    BY <1>1, <1>2, <2>1, <2>2, SourceStep DEF Moved, SeedTypes, SameCampaign
<1>8. CASE oracle[s].suggested # LimitOf[s] /\ Head(oracle[s].queue) \in hydrated
  <2>1. oracle' = [oracle EXCEPT ![s].suggested = @ + 1, ![s].queue = Tail(@)]
    BY <1>8 DEF NextAccount
  <2>2. PICK now \in Oracles :
          now = [oracle[s] EXCEPT !.suggested = oracle[s].suggested + 1, !.queue = Tail(oracle[s].queue)]
    BY <1>1, <1>4, <1>6, SourceTypes DEF Oracles
  <2>3. oracle' = [oracle EXCEPT ![s] = now]
    BY <2>1, <2>2
  <2>4. /\ Moved(s) /\ oracle'[s].at = "listing" /\ oracle'[s].nth = oracle[s].nth
        /\ oracle'[s].queue = Tail(oracle[s].queue) /\ oracle'[s].suggested = oracle[s].suggested + 1
    BY <1>1, <2>2, <2>3, SourceTypes DEF SeedTypes, Oracles, Moved
  <2>5. oracle'[s].suggested <= LimitOf[s]
    BY <1>3, <1>8, <2>4
  <2>6. FoundIsKept(s) => FoundIsKept(s)'
    BY <1>1, <1>2, <1>4, <1>8, <2>4, FoundStays
  <2> QED
    BY <1>1, <1>2, <1>5, <2>4, <2>5, <2>6, ListingSound, SourceStep DEF Moved, SeedTypes, SameCampaign
<1>9. CASE oracle[s].suggested # LimitOf[s] /\ Head(oracle[s].queue) \notin hydrated
  <2>1. oracle' = [oracle EXCEPT ![s].suggested = @ + 1, ![s].at = "asking", ![s].wants = "profile",
                     ![s].tries = 0]
    BY <1>9 DEF NextAccount
  <2>2. PICK now \in Oracles :
          now = [oracle[s] EXCEPT !.suggested = oracle[s].suggested + 1, !.at = "asking",
                   !.wants = "profile", !.tries = 0]
    BY <1>1, <1>6, SourceTypes DEF Oracles
  <2>3. oracle' = [oracle EXCEPT ![s] = now]
    BY <2>1, <2>2
  <2>4. /\ Moved(s) /\ oracle'[s].at = "asking" /\ oracle'[s].wants = "profile"
        /\ oracle'[s].nth = oracle[s].nth /\ oracle'[s].queue = oracle[s].queue
        /\ oracle'[s].suggested = oracle[s].suggested + 1
    BY <1>1, <2>2, <2>3, SourceTypes DEF SeedTypes, Oracles, Moved
  <2>5. oracle'[s].suggested <= LimitOf[s]
    BY <1>3, <1>9, <2>4
  <2>6. FoundIsKept(s) => FoundIsKept(s)'
    BY <1>1, <1>2, <2>4, FoundStays
  <2>7. OracleSound(s)' /\ (~erred' /\ ~overdrawn' => SourceSound(s)')
    BY <1>1, <1>5, <2>4, <2>5, <2>6 DEF OracleSound, SourceSound, Wanting
  <2> QED
    BY <1>1, <1>2, <2>4, <2>7, SourceStep DEF Moved, SeedTypes, SameCampaign
<1> QED
  BY <1>7, <1>8, <1>9

LEMMA MeetFlawedAccountStep == ASSUME SeedInv, NEW s \in Source, MeetFlawedAccount(s) PROVE SeedInv'
<1>1. /\ SeedTypes /\ OracleSound(s) /\ EndSource(s) /\ erred' = TRUE
      /\ UNCHANGED <<used, overdrawn, hydrated, cutShort>>
  BY DEF SeedInv, MeetFlawedAccount
<1>2. SameCampaign /\ Grows
  BY <1>1 DEF SeedTypes, SameCampaign, Grows
<1>3. Moved(s) /\ Keeps(s) /\ oracle'[s].at = "ended"
  BY <1>1, EndMoves
<1>4. OracleSound(s)'
  BY <1>1, <1>3, EndedSound DEF OracleSound, Keeps
<1> QED
  BY <1>1, <1>2, <1>3, <1>4, SourceStep DEF Moved, SeedTypes, SameCampaign

LEMMA GetProfileStep == ASSUME SeedInv, NEW s \in Source, GetProfile(s) PROVE SeedInv'
<1>1. /\ SeedTypes /\ OracleSound(s) /\ oracle[s].at = "sent" /\ oracle[s].wants = "profile" /\ PassOn(s)
      /\ hydrated' = hydrated \union {Head(oracle[s].queue)}
      /\ UNCHANGED <<used, erred, overdrawn, cutShort>>
      /\ (~erred' /\ ~overdrawn' => SourceSound(s))
  BY DEF SeedInv, GetProfile, Sound, Answered, Stands
<1>2. SameCampaign /\ Grows
  BY <1>1 DEF SeedTypes, SameCampaign, Grows
<1>3. oracle[s].queue # <<>> /\ oracle[s].suggested <= LimitOf[s]
  BY <1>1 DEF OracleSound, Wanting
<1>4. In(oracle[s].queue) = {Head(oracle[s].queue)} \union In(Tail(oracle[s].queue))
  BY <1>1, <1>3, SourceTypes, InTail
<1>5. Moved(s) /\ Keeps(s) /\ oracle'[s].at = "listing" /\ oracle'[s].queue = Tail(oracle[s].queue)
  BY <1>1, <1>3, PassMoves
<1>6. ~erred' /\ ~overdrawn' => FoundIsKept(s)
  BY <1>1 DEF SourceSound, Wanting
<1>7. FoundIsKept(s) => FoundIsKept(s)'
  BY <1>1, <1>2, <1>4, <1>5, FoundStays DEF Keeps
<1> QED
  BY <1>1, <1>2, <1>3, <1>5, <1>6, <1>7, ListingSound, SourceStep DEF Moved, Keeps, SeedTypes, SameCampaign

LEMMA NextPackStep == ASSUME SeedInv, NEW s \in Source, NextPack(s) PROVE SeedInv'
<1>1. /\ SeedTypes /\ OracleSound(s) /\ oracle[s].at = "listing" /\ oracle[s].queue = <<>>
      /\ UNCHANGED <<used, erred, overdrawn, hydrated, cutShort>>
      /\ (~erred' /\ ~overdrawn' => SourceSound(s))
  BY DEF SeedInv, NextPack, Sound, Stands
<1>2. SameCampaign /\ Grows
  BY <1>1 DEF SeedTypes, SameCampaign, Grows
<1>3. oracle[s].suggested <= LimitOf[s]
  BY <1>1 DEF OracleSound
<1>4. ~erred' /\ ~overdrawn' => FoundIsKept(s)
  BY <1>1 DEF SourceSound
<1>5. CASE OracleOf[s] = "packs" /\ oracle[s].nth <= Len(Taken(s))
  <2>1. /\ Moved(s) /\ Keeps(s) /\ oracle'[s].at = "asking" /\ oracle'[s].wants = "pack"
        /\ oracle'[s].queue = oracle[s].queue
    BY <1>1, <1>5, AskMoves DEF NextPack
  <2>2. oracle[s].nth \in DOMAIN Taken(s)
    BY <1>1, <1>5, SourceTypes, TakenOf
  <2>3. FoundIsKept(s) => FoundIsKept(s)'
    BY <1>1, <1>2, <2>1, FoundStays DEF Keeps
  <2>4. OracleSound(s)' /\ (~erred' /\ ~overdrawn' => SourceSound(s)')
    BY <1>1, <1>3, <1>4, <1>5, <2>1, <2>2, <2>3 DEF OracleSound, SourceSound, Wanting, Keeps
  <2> QED
    BY <1>1, <1>2, <2>1, <2>4, SourceStep DEF Moved, SeedTypes, SameCampaign
<1>6. CASE ~(OracleOf[s] = "packs" /\ oracle[s].nth <= Len(Taken(s)))
  <2>1. Moved(s) /\ Keeps(s) /\ oracle'[s].at = "ended" /\ oracle'[s].queue = oracle[s].queue
    BY <1>1, <1>6, EndMoves DEF NextPack
  <2>2. OracleOf[s] = "packs" => oracle[s].nth > Len(Taken(s))
    BY <1>1, <1>6, SourceTypes, TakenOf
  <2>3. FoundIsKept(s) => FoundIsKept(s)'
    BY <1>1, <1>2, <2>1, FoundStays DEF Keeps
  <2>4. OracleSound(s)' /\ (~erred' /\ ~overdrawn' => SourceSound(s)')
    BY <1>1, <1>3, <1>4, <2>1, <2>2, <2>3, EndedSound DEF SourceSound, Wanting, Keeps
  <2> QED
    BY <1>1, <1>2, <2>1, <2>4, SourceStep DEF Moved, SeedTypes, SameCampaign
<1> QED
  BY <1>5, <1>6

-----------------------------------------------------------------------------
(* The theorems.                                                           *)

LEMMA SeedInvStep == SeedInv /\ [SourcesNext]_sourceVars => SeedInv'
<1> SUFFICES ASSUME SeedInv, [SourcesNext]_sourceVars PROVE SeedInv'
  OBVIOUS
<1>1. ASSUME NEW s \in Source, StartSource(s) PROVE SeedInv'
  BY <1>1, StartSourceStep
<1>2. ASSUME NEW s \in Source, SendRequest(s) PROVE SeedInv'
  BY <1>2, SendRequestStep
<1>3. ASSUME NEW s \in Source, FailRequest(s) PROVE SeedInv'
  BY <1>3, FailRequestStep
<1>4. ASSUME NEW s \in Source, RefuseRequest(s) PROVE SeedInv'
  BY <1>4, LosesStep DEF RefuseRequest
<1>5. ASSUME NEW s \in Source, GetHits(s) PROVE SeedInv'
  BY <1>5, GetHitsStep
<1>6. ASSUME NEW s \in Source, GetPack(s) PROVE SeedInv'
  BY <1>6, GetPackStep
<1>7. ASSUME NEW s \in Source, GetList(s) PROVE SeedInv'
  BY <1>7, GetListStep
<1>8. ASSUME NEW s \in Source, GetProfile(s) PROVE SeedInv'
  BY <1>8, GetProfileStep
<1>9. ASSUME NEW s \in Source, NextAccount(s) PROVE SeedInv'
  BY <1>9, NextAccountStep
<1>10. ASSUME NEW s \in Source, MeetFlawedAccount(s) PROVE SeedInv'
  BY <1>10, MeetFlawedAccountStep
<1>11. ASSUME NEW s \in Source, NextPack(s) PROVE SeedInv'
  BY <1>11, NextPackStep
<1>12. CASE UNCHANGED sourceVars
  <2>1. Grows /\ oracle' = oracle /\ SeedTypes'
    BY <1>12 DEF sourceVars, Grows, SeedInv, SeedTypes
  <2>2. \A t \in Source : (OracleSound(t) => OracleSound(t)') /\ (SourceSound(t) => SourceSound(t)')
    BY <2>1, OthersStay
  <2> QED
    BY <2>1, <2>2 DEF SeedInv, Grows
<1> QED
  BY <1>1, <1>2, <1>3, <1>4, <1>5, <1>6, <1>7, <1>8, <1>9, <1>10, <1>11, <1>12 DEF SourcesNext

LEMMA SeedInvAlways == SourcesSpec => []SeedInv
<1> QED
  BY SeedInit, SeedInvStep, PTL DEF SourcesSpec

\* What is written of a source, its requests and its budget is of its kind
\* (discovery/bluesky.py, bluesky/client.py).
THEOREM SourcesTypeCorrect == SourcesSpec => []SourcesTypeOK
<1>1. SeedInv => SourcesTypeOK
  <2> SUFFICES ASSUME SeedInv PROVE SourcesTypeOK
    OBVIOUS
  <2>1. used \in 0 .. RequestLimit /\ {erred, overdrawn} \subseteq BOOLEAN
    BY DEF SeedInv, SeedTypes
  <2>2. ASSUME NEW s \in Source
        PROVE  /\ oracle[s].at \in {"waiting", "asking", "sent", "listing", "ended"}
               /\ oracle[s].wants \in {"query", "pack", "list", "profile"}
               /\ oracle[s].tries \in 0 .. MaxRetries /\ oracle[s].suggested \in 0 .. LimitOf[s]
    <3>1. oracle[s] \in Oracles /\ oracle[s].suggested \in Nat /\ LimitOf[s] \in Nat
      BY SourceTypes DEF SeedInv
    <3>2. oracle[s].suggested <= LimitOf[s]
      BY DEF SeedInv, OracleSound
    <3>3. oracle[s].suggested \in 0 .. LimitOf[s]
      BY <3>1, <3>2
    <3> QED
      BY <3>1, <3>3 DEF Oracles
  <2> QED
    BY <2>1, <2>2 DEF SourcesTypeOK
<1> QED
  BY <1>1, SeedInvAlways, PTL

\* A campaign that reports no error and no exhausted budget has been handed all
\* that its sources found, up to their limits, whatever pages and circles the
\* lists have and whatever requests were repeated (discovery/pipeline.py,
\* _run_initial_sources; discovery/bluesky.py, StarterPackSearchOracle).
THEOREM CleanRunComplete == SourcesSpec => []CleanRunIsComplete
<1>1. SeedInv => CleanRunIsComplete
  <2> SUFFICES ASSUME SeedInv, CleanRun, NEW s \in Source, oracle[s].suggested # LimitOf[s]
               PROVE  IF OracleOf[s] = "packs"
                      THEN \A pack \in In(Taken(s)) : Sampled(pack) \/ pack \in cutShort
                      ELSE In(Taken(s)) \subseteq hydrated
    BY DEF CleanRunIsComplete
  <2>1. FoundIsKept(s) /\ oracle[s].queue = <<>> /\ (OracleOf[s] = "packs" => oracle[s].nth > Len(Taken(s)))
    BY DEF SeedInv, SourceSound, CleanRun, Stands
  <2>2. PICK held : held = hydrated \union In(oracle[s].queue)
    OBVIOUS
  <2>3. held = hydrated
    BY <2>1, <2>2, EmptySeq DEF In
  <2>4. CASE OracleOf[s] = "packs"
    <3>1. \A i \in DOMAIN Taken(s) : i < oracle[s].nth =>
            EnoughOf(Taken(s)[i], held) \/ Taken(s)[i] \in cutShort
      BY <2>1, <2>2, <2>4 DEF FoundIsKept
    <3>2. \A i \in DOMAIN Taken(s) : i < oracle[s].nth /\ Taken(s)[i] \in DOMAIN ListOf
      BY <2>1, <2>4, TakenOf, SourceTypes DEF SeedInv
    <3>3. \A i \in DOMAIN Taken(s) : Sampled(Taken(s)[i]) \/ Taken(s)[i] \in cutShort
      BY <2>3, <3>1, <3>2, EnoughIsSampled
    <3> QED
      BY <2>4, <3>3 DEF In
  <2>5. CASE OracleOf[s] # "packs"
    BY <2>1, <2>2, <2>3, <2>5 DEF FoundIsKept
  <2> QED
    BY <2>4, <2>5
<1> QED
  BY <1>1, SeedInvAlways, PTL
=============================================================================
