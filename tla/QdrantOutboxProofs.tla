------------------------- MODULE QdrantOutboxProofs -------------------------
(***************************************************************************)
(* Proofs about QdrantOutbox for any catalog, any contents, any number of  *)
(* workers and any bounds.                                                 *)
(*                                                                         *)
(* A takedown is honoured because whatever a drain may still do wrong to an*)
(* artwork that became ineligible behind its back, the publication that    *)
(* made it so left an event that this drain did not claim.                 *)
(***************************************************************************)
EXTENDS QdrantOutbox, FiniteSetTheorems, TLAPS

\* Until two drains overlap, at most one is under way.
OneDrain == ~overlapped => \A w, x \in Worker : At(w, "idle") \/ At(x, "idle") \/ w = x

\* An event of a that no drain has claimed.
Unclaimed(a) == \E e \in events : e.art = a /\ e.status \notin Locked

\* w acts on artwork a according to a plan it has read.
Acting(w, a) ==
  /\ drain[w].pc \in {"upserting", "deleting", "settling"}
  /\ \E m \in drain[w].mine : m[1] = a

\* A drain leaves alone what it did not claim.
PlanOfClaimed == \A w \in Worker, a \in Artwork :
  drain[w].pc \in {"upserting", "deleting", "settling"} /\ drain[w].plan[a] # Keep => Acting(w, a)

\* A drain deletes an ineligible artwork, or its takedown came after the read.
TakedownPlanned == \A w \in Worker, a \in Artwork :
  Acting(w, a) /\ content[a] = Absent => drain[w].plan[a] = Absent \/ Unclaimed(a)

\* Before it settles the artwork it has deleted it, or the takedown came later.
TakedownWritten == ~overlapped => \A w \in Worker, a \in Artwork :
  Acting(w, a) /\ At(w, "settling") /\ content[a] = Absent => remote[a] = Absent \/ Unclaimed(a)

\* TakedownHonoured during drains too.
NotServed == ~overlapped => \A a \in Artwork :
  Quiet(a) /\ content[a] = Absent => remote[a] = Absent

\* The inductive invariant.
IInv ==
  /\ TypeOK
  /\ OneDrain
  /\ PlanOfClaimed
  /\ ~overlapped => TakedownPlanned
  /\ TakedownWritten
  /\ NotServed

(* The number of points fits the catalog.                                  *)
LEMMA CardinalityType ==
  ASSUME NEW S \in SUBSET Artwork
  PROVE  Cardinality(S) \in 0 .. Cardinality(Artwork)
<1>1. IsFiniteSet(S) /\ Cardinality(S) <= Cardinality(Artwork)
  BY BoundAssumption, FS_Subset
<1> QED
  BY <1>1, BoundAssumption, FS_CardinalityType

(* An idle drain is well typed.                                            *)
LEMMA IdleTyped == IdleDrain \in DrainState /\ NoPlan \in [Artwork -> Content \union {Keep}]
<1>1. 0 \in 0 .. Cardinality(Artwork)
  BY BoundAssumption, FS_CardinalityType
<1> QED
  BY <1>1 DEF IdleDrain, NoPlan, DrainState, Pc

(* Neither does a drain that goes on to its next call lose its type.       *)
LEMMA MoveTyped ==
  ASSUME TypeOK, NEW w \in Worker, NEW pc \in Pc
  PROVE  [drain[w] EXCEPT !.pc = pc] \in DrainState
<1>1. PICK d \in DrainState : d = drain[w]
  BY DEF TypeOK
<1>2. [d EXCEPT !.pc = pc] \in DrainState
  BY DEF DrainState
<1> QED
  BY <1>1, <1>2

(* Every step keeps the types.                                             *)
LEMMA TypeStep == TypeOK /\ [Next]_vars => TypeOK'
<1> SUFFICES ASSUME TypeOK, [Next]_vars PROVE TypeOK'
  OBVIOUS
<1> USE SentinelAssumption, BoundAssumption
    DEF TypeOK, outbox, qdrant, bounds, At, Goto
<1>1. ASSUME NEW a \in Artwork, NEW v \in Content, Publish(a, v) PROVE TypeOK'
  <2>1. drain' \in [Worker -> DrainState]
    BY <1>1 DEF Publish
  <2>2. events' \subseteq Event
    BY <1>1 DEF Publish, NewEvent, Content, Event, Status
  <2> QED
    BY <1>1, <2>1, <2>2 DEF Publish
<1>2. ASSUME NEW w \in Worker, Start(w) PROVE TypeOK'
  <2>1. drain' \in [Worker -> DrainState]
    BY <1>2, IdleTyped, CardinalityType DEF Start, DrainState, Points, Pc, IdleDrain
  <2>2. events' \subseteq Event
    BY <1>2 DEF Start
  <2> QED
    BY <1>2, <2>1, <2>2 DEF Start
<1>3. ASSUME NEW w \in Worker, CompareCounts(w) PROVE TypeOK'
  <2>1. drain' \in [Worker -> DrainState]
    BY <1>3, IdleTyped DEF CompareCounts, DrainState, Drift, Pc, IdleDrain
  <2>2. events' \subseteq Event
    BY <1>3 DEF CompareCounts
  <2> QED
    BY <1>3, <2>1, <2>2 DEF CompareCounts
<1>4. ASSUME NEW w \in Worker, ClearState(w) PROVE TypeOK'
  <2>1. drain' \in [Worker -> DrainState]
    <3>1. [drain[w] EXCEPT !.pc = "queueing", !.todo = Artwork] \in DrainState
      <4>1. drain[w] \in DrainState /\ "queueing" \in Pc /\ Artwork \in SUBSET Artwork
        BY DEF Pc
      <4> QED
        BY <4>1 DEF DrainState
    <3>2. drain' = [drain EXCEPT ![w] = [drain[w] EXCEPT !.pc = "queueing", !.todo = Artwork]]
      BY <1>4 DEF ClearState
    <3> QED
      BY <3>1, <3>2
  <2>2. events' \subseteq Event
    BY <1>4 DEF ClearState
  <2> QED
    BY <1>4, <2>1, <2>2 DEF ClearState, Content
<1>5. ASSUME NEW w \in Worker, QueuePage(w) PROVE TypeOK'
  <2>1. drain' \in [Worker -> DrainState]
    <3>1. PICK a \in drain[w].todo : drain' = [drain EXCEPT ![w].todo = @ \ {a},
                               ![w].pc = IF drain[w].todo = {a} THEN "releasing" ELSE @]
      BY <1>5 DEF QueuePage
    <3> DEFINE r == [drain[w] EXCEPT !.todo = @ \ {a},
                               !.pc = IF drain[w].todo = {a} THEN "releasing" ELSE @]
    <3>2. r \in DrainState
      <4>1. drain[w] \in DrainState /\ drain[w].todo \ {a} \in SUBSET Artwork
        BY DEF DrainState
      <4>2. (IF drain[w].todo = {a} THEN "releasing" ELSE drain[w].pc) \in Pc
        BY <4>1 DEF DrainState, Pc
      <4> QED
        BY <4>1, <4>2 DEF DrainState
    <3>3. drain' = [drain EXCEPT ![w] = r]
      BY <3>1
    <3> QED
      BY <3>2, <3>3
  <2>2. events' \subseteq Event
    BY <1>5 DEF QueuePage, NewEvent, DrainState, Event, Status
  <2> QED
    BY <1>5, <2>1, <2>2 DEF QueuePage
<1>6. ASSUME NEW w \in Worker, ReleaseStale(w) PROVE TypeOK'
  <2>1. drain' \in [Worker -> DrainState]
    <3>1. [drain[w] EXCEPT !.pc = "claiming"] \in DrainState
      BY MoveTyped DEF Pc
    <3>2. drain' = [drain EXCEPT ![w] = [drain[w] EXCEPT !.pc = "claiming"]]
      BY <1>6 DEF ReleaseStale
    <3> QED
      BY <3>1, <3>2
  <2>2. events' \subseteq Event
    <3>1. ASSUME NEW e \in events PROVE Unlocked(e) \in Event
      BY DEF Unlocked, Event, Status
    <3>2. ASSUME NEW x \in events'
          PROVE  \E e \in events : x = e \/ x = Unlocked(e)
      BY <1>6, <3>2 DEF ReleaseStale
    <3> QED
      BY <3>1, <3>2
  <2> QED
    BY <1>6, <2>1, <2>2 DEF ReleaseStale
<1>7. ASSUME NEW w \in Worker, NEW S \in SUBSET Claimable, Claim(w, S) PROVE TypeOK'
  <2>1. drain' \in [Worker -> DrainState]
    <3> DEFINE mine == {<<e.art, e.tries + 1>> : e \in S}
               r == [drain[w] EXCEPT !.pc = "claimed", !.claimed = TRUE, !.mine = mine]
    <3>1. \A e \in S : e.art \in Artwork /\ e.tries + 1 \in Nat
      BY DEF Claimable, Event
    <3>2. mine \in SUBSET (Artwork \X Nat)
      BY <3>1
    <3>3. drain' = [drain EXCEPT ![w] = r]
      BY <1>7 DEF Claim
    <3> HIDE DEF mine
    <3>4. r \in DrainState
      <4>1. drain[w] \in DrainState
        OBVIOUS
      <4>2. "claimed" \in Pc
        BY DEF Pc
      <4> QED
        BY <3>2, <4>1, <4>2 DEF DrainState
    <3> QED
      BY <3>3, <3>4
  <2>2. events' \subseteq Event
    <3>1. ASSUME NEW e \in S PROVE ClaimedBy(w, e) \in Event
      <4>1. e \in Event /\ e.tries + 1 \in Nat
        BY DEF Claimable, Event
      <4> QED
        BY <4>1 DEF ClaimedBy, Event, Status
    <3> QED
      BY <1>7, <3>1 DEF Claim
  <2> QED
    BY <1>7, <2>1, <2>2 DEF Claim
<1>8. ASSUME NEW w \in Worker, ClaimNothing(w) PROVE TypeOK'
  <2>1. drain' \in [Worker -> DrainState]
    <3>1. [drain[w] EXCEPT !.pc = "promoting"] \in DrainState
      BY MoveTyped DEF Pc
    <3>2. drain' = [drain EXCEPT ![w] = [drain[w] EXCEPT !.pc = "promoting"]]
      BY <1>8 DEF ClaimNothing
    <3> QED
      BY <3>1, <3>2
  <2>2. events' \subseteq Event
    BY <1>8 DEF ClaimNothing
  <2> QED
    BY <1>8, <2>1, <2>2 DEF ClaimNothing
<1>9. ASSUME NEW w \in Worker, ReadEligible(w) PROVE TypeOK'
  <2>1. drain' \in [Worker -> DrainState]
    <3> DEFINE plan == [a \in Artwork |->
                         IF \E m \in drain[w].mine : m[1] = a THEN Planned(a) ELSE Keep]
    <3>1. plan \in [Artwork -> Content \union {Keep}]
      BY DEF Planned, Content
    <3>2. drain' = [drain EXCEPT ![w] = [drain[w] EXCEPT !.pc = "upserting", !.plan = plan]]
      BY <1>9 DEF ReadEligible
    <3>3. drain[w] \in DrainState /\ "upserting" \in Pc
      BY DEF Pc
    <3> HIDE DEF plan
    <3>4. [drain[w] EXCEPT !.pc = "upserting", !.plan = plan] \in DrainState
      BY <3>1, <3>3 DEF DrainState
    <3> QED
      BY <3>2, <3>4
  <2>2. events' \subseteq Event
    BY <1>9 DEF ReadEligible
  <2> QED
    BY <1>9, <2>1, <2>2 DEF ReadEligible
<1>10. ASSUME NEW w \in Worker, Upsert(w) PROVE TypeOK'
  <2>1. drain' \in [Worker -> DrainState]
    <3>1. [drain[w] EXCEPT !.pc = "deleting"] \in DrainState
      BY MoveTyped DEF Pc
    <3>2. drain' = [drain EXCEPT ![w] = [drain[w] EXCEPT !.pc = "deleting"]]
      BY <1>10 DEF Upsert
    <3> QED
      BY <3>1, <3>2
  <2>2. events' \subseteq Event
    BY <1>10 DEF Upsert
  <2> QED
    BY <1>10, <2>1, <2>2 DEF Upsert, Upserted, Content
<1>11. ASSUME NEW w \in Worker, Delete(w) PROVE TypeOK'
  <2>1. drain' \in [Worker -> DrainState]
    <3>1. [drain[w] EXCEPT !.pc = "settling"] \in DrainState
      BY MoveTyped DEF Pc
    <3>2. drain' = [drain EXCEPT ![w] = [drain[w] EXCEPT !.pc = "settling"]]
      BY <1>11 DEF Delete
    <3> QED
      BY <3>1, <3>2
  <2>2. events' \subseteq Event
    BY <1>11 DEF Delete
  <2> QED
    BY <1>11, <2>1, <2>2 DEF Delete, Content
<1>12. ASSUME NEW w \in Worker, Settle(w) PROVE TypeOK'
  <2>1. drain' \in [Worker -> DrainState]
    <3>1. [drain[w] EXCEPT !.pc = "claiming", !.mine = {}, !.plan = NoPlan] \in DrainState
      BY IdleTyped DEF DrainState, Pc
    <3>2. drain' = [drain EXCEPT ![w] = [drain[w] EXCEPT !.pc = "claiming", !.mine = {}, !.plan = NoPlan]]
      BY <1>12 DEF Settle
    <3> QED
      BY <3>1, <3>2
  <2>2. events' \subseteq Event
    BY <1>12 DEF Settle, Owned, Event, Status
  <2> QED
    BY <1>12, <2>1, <2>2 DEF Settle, RecordedBy, DrainState, Content
<1>13. ASSUME NEW w \in Worker, Fail(w) PROVE TypeOK'
  <2>1. drain' \in [Worker -> DrainState]
    BY <1>13, IdleTyped DEF Fail, FailBatch
  <2>2. events' \subseteq Event
    <3>1. \A e \in events : [e EXCEPT !.status = "delayed", !.owner = NoWorker] \in Event
      BY DEF Event, Status
    <3> QED
      BY <1>13, <3>1 DEF Fail, FailBatch, Owned
  <2>3. dead' \subseteq Artwork
    BY <1>13 DEF Fail, FailBatch, Owned, Event
  <2> QED
    BY <1>13, <2>1, <2>2, <2>3 DEF Fail, FailBatch
<1>14. ASSUME NEW w \in Worker, EndEarly(w) PROVE TypeOK'
  <2>1. drain' \in [Worker -> DrainState]
    BY <1>14, IdleTyped DEF EndEarly
  <2>2. events' \subseteq Event
    BY <1>14 DEF EndEarly
  <2> QED
    BY <1>14, <2>1, <2>2 DEF EndEarly
<1>15. ASSUME NEW w \in Worker, Promote(w) PROVE TypeOK'
  <2>1. drain' \in [Worker -> DrainState]
    <3>1. [drain[w] EXCEPT !.pc = "sweeping", !.count = Cardinality(Points)] \in DrainState
      <4>1. drain[w] \in DrainState /\ "sweeping" \in Pc
        BY DEF Pc
      <4>2. Cardinality(Points) \in 0 .. Cardinality(Artwork)
        BY CardinalityType DEF Points
      <4> QED
        BY <4>1, <4>2 DEF DrainState
    <3>2. drain' = [drain EXCEPT ![w] = [drain[w] EXCEPT !.pc = "sweeping", !.count = Cardinality(Points)]]
      BY <1>15 DEF Promote
    <3> QED
      BY <3>1, <3>2
  <2>2. events' \subseteq Event
    BY <1>15 DEF Promote
  <2> QED
    BY <1>15, <2>1, <2>2 DEF Promote
<1>16. ASSUME NEW w \in Worker, Sweep(w) PROVE TypeOK'
  <2>1. drain' \in [Worker -> DrainState]
    BY <1>16, IdleTyped DEF Sweep
  <2>2. events' \subseteq Event
    BY <1>16 DEF Sweep
  <2> QED
    BY <1>16, <2>1, <2>2 DEF Sweep, Content
<1>17. ASSUME NEW w \in Worker, FailAfterWrite(w) PROVE TypeOK'
  <2>1. drain' \in [Worker -> DrainState]
    BY <1>17, IdleTyped DEF FailAfterWrite, FailBatch
  <2>2. events' \subseteq Event
    <3>1. \A e \in events : [e EXCEPT !.status = "delayed", !.owner = NoWorker] \in Event
      BY DEF Event, Status
    <3> QED
      BY <1>17, <3>1 DEF FailAfterWrite, FailBatch, Owned
  <2>3. remote' \in [Artwork -> Content]
    BY <1>17 DEF FailAfterWrite, Upserted, Content
  <2>4. dead' \subseteq Artwork
    BY <1>17 DEF FailAfterWrite, FailBatch, Owned, Event
  <2>5. faults' \in 0 .. MaxFaults
    BY <1>17 DEF FailAfterWrite
  <2> QED
    BY <1>17, <2>1, <2>2, <2>3, <2>4, <2>5 DEF FailAfterWrite, FailBatch
<1>18. ASSUME NEW e \in events, BecomeAvailable(e) PROVE TypeOK'
  <2>1. drain' \in [Worker -> DrainState]
    BY <1>18 DEF BecomeAvailable
  <2>2. events' \subseteq Event
    BY <1>18 DEF BecomeAvailable, Event, Status
  <2> QED
    BY <1>18, <2>1, <2>2 DEF BecomeAvailable
<1>19. ASSUME NEW e \in events, GrowStale(e) PROVE TypeOK'
  <2>1. drain' \in [Worker -> DrainState]
    BY <1>19 DEF GrowStale
  <2>2. events' \subseteq Event
    BY <1>19 DEF GrowStale, Event, Status
  <2> QED
    BY <1>19, <2>1, <2>2 DEF GrowStale
<1>20. ASSUME NEW w \in Worker, Crash(w) PROVE TypeOK'
  <2>1. drain' \in [Worker -> DrainState]
    BY <1>20, IdleTyped DEF Crash
  <2>2. events' \subseteq Event
    BY <1>20 DEF Crash
  <2> QED
    BY <1>20, <2>1, <2>2 DEF Crash
<1>21. CASE UNCHANGED vars
  BY <1>21 DEF vars
<1> QED
  BY <1>1, <1>2, <1>3, <1>4, <1>5, <1>6, <1>7, <1>8, <1>9, <1>10, <1>11, <1>12,
     <1>13, <1>14, <1>15, <1>16, <1>17, <1>18, <1>19, <1>20, <1>21 DEF Next, DrainStep

(* Only a drain that starts stops being idle.                              *)
LEMMA OneDrainStep ==
  ASSUME TypeOK, OneDrain, [Next]_vars
  PROVE  OneDrain'
<1> USE DEF outbox, qdrant, bounds, At, Goto, OneDrain, TypeOK
<1>1. ASSUME NEW a \in Artwork, NEW v \in Content, Publish(a, v) PROVE OneDrain'
  BY <1>1 DEF Publish, NewEvent
<1>2. ASSUME NEW w \in Worker, Start(w) PROVE OneDrain'
  BY <1>2 DEF Start, Alone, IdleDrain, Points
<1>3. ASSUME NEW w \in Worker, CompareCounts(w) PROVE OneDrain'
  BY <1>3 DEF CompareCounts, Drift, IdleDrain
<1>4. ASSUME NEW w \in Worker, ClearState(w) PROVE OneDrain'
  BY <1>4 DEF ClearState
<1>5. ASSUME NEW w \in Worker, QueuePage(w) PROVE OneDrain'
  BY <1>5 DEF QueuePage, NewEvent
<1>6. ASSUME NEW w \in Worker, ReleaseStale(w) PROVE OneDrain'
  BY <1>6 DEF ReleaseStale, Unlocked
<1>7. ASSUME NEW w \in Worker, NEW S \in SUBSET Claimable, Claim(w, S) PROVE OneDrain'
  BY <1>7 DEF Claim, Claimable, ClaimedBy
<1>8. ASSUME NEW w \in Worker, ClaimNothing(w) PROVE OneDrain'
  BY <1>8 DEF ClaimNothing
<1>9. ASSUME NEW w \in Worker, ReadEligible(w) PROVE OneDrain'
  BY <1>9 DEF ReadEligible, Planned
<1>10. ASSUME NEW w \in Worker, Upsert(w) PROVE OneDrain'
  BY <1>10 DEF Upsert, Upserted
<1>11. ASSUME NEW w \in Worker, Delete(w) PROVE OneDrain'
  BY <1>11 DEF Delete
<1>12. ASSUME NEW w \in Worker, Settle(w) PROVE OneDrain'
  BY <1>12 DEF Settle, Owned, StillOwned, RecordedBy
<1>13. ASSUME NEW w \in Worker, Fail(w) PROVE OneDrain'
  BY <1>13 DEF Fail, FailBatch, Owned, StillOwned, Exhausted, IdleDrain
<1>14. ASSUME NEW w \in Worker, EndEarly(w) PROVE OneDrain'
  BY <1>14 DEF EndEarly, IdleDrain
<1>15. ASSUME NEW w \in Worker, Promote(w) PROVE OneDrain'
  BY <1>15 DEF Promote, Points
<1>16. ASSUME NEW w \in Worker, Sweep(w) PROVE OneDrain'
  BY <1>16 DEF Sweep, Recorded, IdleDrain
<1>17. ASSUME NEW w \in Worker, FailAfterWrite(w) PROVE OneDrain'
  BY <1>17 DEF FailAfterWrite, FailBatch, Owned, Upserted, Exhausted, IdleDrain
<1>18. ASSUME NEW e \in events, BecomeAvailable(e) PROVE OneDrain'
  BY <1>18 DEF BecomeAvailable
<1>19. ASSUME NEW e \in events, GrowStale(e) PROVE OneDrain'
  BY <1>19 DEF GrowStale
<1>20. ASSUME NEW w \in Worker, Crash(w) PROVE OneDrain'
  BY <1>20 DEF Crash, IdleDrain
<1>21. CASE UNCHANGED vars
  BY <1>21 DEF vars
<1> QED
  BY <1>1, <1>2, <1>3, <1>4, <1>5, <1>6, <1>7, <1>8, <1>9, <1>10, <1>11, <1>12,
     <1>13, <1>14, <1>15, <1>16, <1>17, <1>18, <1>19, <1>20, <1>21 DEF Next, DrainStep

(* What nobody has claimed stays unclaimed until a drain claims.           *)
LEMMA UnclaimedKept ==
  ASSUME TypeOK, [Next]_vars, NEW b \in Artwork, Unclaimed(b),
         \A x \in Worker : ~At(x, "claiming")
  PROVE  Unclaimed(b)'
<1> USE DEF outbox, qdrant, bounds, At, Goto, Unclaimed, Locked
<1>1. ASSUME NEW a \in Artwork, NEW v \in Content, Publish(a, v) PROVE Unclaimed(b)'
  BY <1>1 DEF Publish, NewEvent
<1>2. ASSUME NEW w \in Worker, Start(w) PROVE Unclaimed(b)'
  BY <1>2 DEF Start, Alone, IdleDrain, Points
<1>3. ASSUME NEW w \in Worker, CompareCounts(w) PROVE Unclaimed(b)'
  BY <1>3 DEF CompareCounts, Drift, IdleDrain
<1>4. ASSUME NEW w \in Worker, ClearState(w) PROVE Unclaimed(b)'
  BY <1>4 DEF ClearState
<1>5. ASSUME NEW w \in Worker, QueuePage(w) PROVE Unclaimed(b)'
  BY <1>5 DEF QueuePage, NewEvent
<1>6. ASSUME NEW w \in Worker, ReleaseStale(w) PROVE Unclaimed(b)'
  BY <1>6 DEF ReleaseStale, Unlocked
<1>7. ASSUME NEW w \in Worker, NEW S \in SUBSET Claimable, Claim(w, S) PROVE Unclaimed(b)'
  BY <1>7 DEF Claim, Claimable, ClaimedBy
<1>8. ASSUME NEW w \in Worker, ClaimNothing(w) PROVE Unclaimed(b)'
  BY <1>8 DEF ClaimNothing
<1>9. ASSUME NEW w \in Worker, ReadEligible(w) PROVE Unclaimed(b)'
  BY <1>9 DEF ReadEligible, Planned
<1>10. ASSUME NEW w \in Worker, Upsert(w) PROVE Unclaimed(b)'
  BY <1>10 DEF Upsert, Upserted
<1>11. ASSUME NEW w \in Worker, Delete(w) PROVE Unclaimed(b)'
  BY <1>11 DEF Delete
<1>12. ASSUME NEW w \in Worker, Settle(w) PROVE Unclaimed(b)'
  BY <1>12 DEF Settle, Owned, StillOwned, RecordedBy
<1>13. ASSUME NEW w \in Worker, Fail(w) PROVE Unclaimed(b)'
  BY <1>13 DEF Fail, FailBatch, Owned, StillOwned, Exhausted, IdleDrain
<1>14. ASSUME NEW w \in Worker, EndEarly(w) PROVE Unclaimed(b)'
  BY <1>14 DEF EndEarly, IdleDrain
<1>15. ASSUME NEW w \in Worker, Promote(w) PROVE Unclaimed(b)'
  BY <1>15 DEF Promote, Points
<1>16. ASSUME NEW w \in Worker, Sweep(w) PROVE Unclaimed(b)'
  BY <1>16 DEF Sweep, Recorded, IdleDrain
<1>17. ASSUME NEW w \in Worker, FailAfterWrite(w) PROVE Unclaimed(b)'
  BY <1>17 DEF FailAfterWrite, FailBatch, Owned, Upserted, Exhausted, IdleDrain
<1>18. ASSUME NEW e \in events, BecomeAvailable(e) PROVE Unclaimed(b)'
  <2>1. PICK f \in events : f.art = b /\ f.status \notin Locked
    BY DEF Locked
  <2>2. CASE f = e
    <3>1. e \in Event
      BY DEF TypeOK
    <3>2. [e EXCEPT !.status = "pending"].art = b /\ [e EXCEPT !.status = "pending"].status = "pending"
      BY <2>1, <2>2, <3>1 DEF Event
    <3>3. [e EXCEPT !.status = "pending"] \in events'
      BY <1>18 DEF BecomeAvailable
    <3> QED
      BY <3>2, <3>3
  <2>3. CASE f # e
    BY <1>18, <2>1, <2>3 DEF BecomeAvailable
  <2> QED
    BY <2>2, <2>3
<1>19. ASSUME NEW e \in events, GrowStale(e) PROVE Unclaimed(b)'
  BY <1>19 DEF GrowStale
<1>20. ASSUME NEW w \in Worker, Crash(w) PROVE Unclaimed(b)'
  BY <1>20 DEF Crash, IdleDrain
<1>21. CASE UNCHANGED vars
  BY <1>21 DEF vars
<1> QED
  BY <1>1, <1>2, <1>3, <1>4, <1>5, <1>6, <1>7, <1>8, <1>9, <1>10, <1>11, <1>12,
     <1>13, <1>14, <1>15, <1>16, <1>17, <1>18, <1>19, <1>20, <1>21 DEF Next, DrainStep

(* A plan only touches what its drain claimed.                             *)
LEMMA PlanStep ==
  ASSUME TypeOK, PlanOfClaimed, [Next]_vars
  PROVE  PlanOfClaimed'
<1> USE DEF outbox, qdrant, bounds, At, Goto, PlanOfClaimed, Acting, TypeOK, DrainState
<1>1. ASSUME NEW a \in Artwork, NEW v \in Content, Publish(a, v) PROVE PlanOfClaimed'
  BY <1>1 DEF Publish, NewEvent
<1>2. ASSUME NEW w \in Worker, Start(w) PROVE PlanOfClaimed'
  BY <1>2 DEF Start, Alone, IdleDrain, Points
<1>3. ASSUME NEW w \in Worker, CompareCounts(w) PROVE PlanOfClaimed'
  BY <1>3 DEF CompareCounts, Drift, IdleDrain
<1>4. ASSUME NEW w \in Worker, ClearState(w) PROVE PlanOfClaimed'
  BY <1>4 DEF ClearState
<1>5. ASSUME NEW w \in Worker, QueuePage(w) PROVE PlanOfClaimed'
  BY <1>5 DEF QueuePage, NewEvent
<1>6. ASSUME NEW w \in Worker, ReleaseStale(w) PROVE PlanOfClaimed'
  <2>1. /\ drain'[w].pc = "claiming"
        /\ \A x \in Worker \ {w} : drain'[x] = drain[x]
    BY <1>6 DEF ReleaseStale
  <2> QED
    BY <2>1
<1>7. ASSUME NEW w \in Worker, NEW S \in SUBSET Claimable, Claim(w, S) PROVE PlanOfClaimed'
  <2>1. drain'[w].pc = "claimed" /\ \A x \in Worker \ {w} : drain'[x] = drain[x]
    BY <1>7 DEF Claim
  <2> QED
    BY <2>1
<1>8. ASSUME NEW w \in Worker, ClaimNothing(w) PROVE PlanOfClaimed'
  BY <1>8 DEF ClaimNothing
<1>9. ASSUME NEW w \in Worker, ReadEligible(w) PROVE PlanOfClaimed'
  BY <1>9 DEF ReadEligible, Planned
<1>10. ASSUME NEW w \in Worker, Upsert(w) PROVE PlanOfClaimed'
  BY <1>10 DEF Upsert, Upserted
<1>11. ASSUME NEW w \in Worker, Delete(w) PROVE PlanOfClaimed'
  BY <1>11 DEF Delete
<1>12. ASSUME NEW w \in Worker, Settle(w) PROVE PlanOfClaimed'
  BY <1>12 DEF Settle, Owned, StillOwned, RecordedBy
<1>13. ASSUME NEW w \in Worker, Fail(w) PROVE PlanOfClaimed'
  BY <1>13 DEF Fail, FailBatch, Owned, StillOwned, Exhausted, IdleDrain
<1>14. ASSUME NEW w \in Worker, EndEarly(w) PROVE PlanOfClaimed'
  BY <1>14 DEF EndEarly, IdleDrain
<1>15. ASSUME NEW w \in Worker, Promote(w) PROVE PlanOfClaimed'
  BY <1>15 DEF Promote, Points
<1>16. ASSUME NEW w \in Worker, Sweep(w) PROVE PlanOfClaimed'
  BY <1>16 DEF Sweep, Recorded, IdleDrain
<1>17. ASSUME NEW w \in Worker, FailAfterWrite(w) PROVE PlanOfClaimed'
  BY <1>17 DEF FailAfterWrite, FailBatch, Owned, Upserted, Exhausted, IdleDrain
<1>18. ASSUME NEW e \in events, BecomeAvailable(e) PROVE PlanOfClaimed'
  BY <1>18 DEF BecomeAvailable
<1>19. ASSUME NEW e \in events, GrowStale(e) PROVE PlanOfClaimed'
  BY <1>19 DEF GrowStale
<1>20. ASSUME NEW w \in Worker, Crash(w) PROVE PlanOfClaimed'
  BY <1>20 DEF Crash, IdleDrain
<1>21. CASE UNCHANGED vars
  BY <1>21 DEF vars
<1> QED
  BY <1>1, <1>2, <1>3, <1>4, <1>5, <1>6, <1>7, <1>8, <1>9, <1>10, <1>11, <1>12,
     <1>13, <1>14, <1>15, <1>16, <1>17, <1>18, <1>19, <1>20, <1>21 DEF Next, DrainStep

(* Having overlapped is remembered.                                        *)
LEMMA OverlapStep ==
  ASSUME overlapped, [Next]_vars
  PROVE  overlapped'
<1> USE DEF outbox, qdrant, bounds, At, Goto
<1>1. ASSUME NEW a \in Artwork, NEW v \in Content, Publish(a, v) PROVE overlapped'
  BY <1>1 DEF Publish
<1>2. ASSUME NEW w \in Worker, Start(w) PROVE overlapped'
  BY <1>2 DEF Start
<1>3. ASSUME NEW w \in Worker, CompareCounts(w) PROVE overlapped'
  BY <1>3 DEF CompareCounts
<1>4. ASSUME NEW w \in Worker, ClearState(w) PROVE overlapped'
  BY <1>4 DEF ClearState
<1>5. ASSUME NEW w \in Worker, QueuePage(w) PROVE overlapped'
  BY <1>5 DEF QueuePage
<1>6. ASSUME NEW w \in Worker, ReleaseStale(w) PROVE overlapped'
  BY <1>6 DEF ReleaseStale
<1>7. ASSUME NEW w \in Worker, NEW S \in SUBSET Claimable, Claim(w, S) PROVE overlapped'
  BY <1>7 DEF Claim
<1>8. ASSUME NEW w \in Worker, ClaimNothing(w) PROVE overlapped'
  BY <1>8 DEF ClaimNothing
<1>9. ASSUME NEW w \in Worker, ReadEligible(w) PROVE overlapped'
  BY <1>9 DEF ReadEligible
<1>10. ASSUME NEW w \in Worker, Upsert(w) PROVE overlapped'
  BY <1>10 DEF Upsert
<1>11. ASSUME NEW w \in Worker, Delete(w) PROVE overlapped'
  BY <1>11 DEF Delete
<1>12. ASSUME NEW w \in Worker, Settle(w) PROVE overlapped'
  BY <1>12 DEF Settle
<1>13. ASSUME NEW w \in Worker, Fail(w) PROVE overlapped'
  BY <1>13 DEF FailBatch, Fail
<1>14. ASSUME NEW w \in Worker, EndEarly(w) PROVE overlapped'
  BY <1>14 DEF EndEarly
<1>15. ASSUME NEW w \in Worker, Promote(w) PROVE overlapped'
  BY <1>15 DEF Promote
<1>16. ASSUME NEW w \in Worker, Sweep(w) PROVE overlapped'
  BY <1>16 DEF Sweep
<1>17. ASSUME NEW w \in Worker, FailAfterWrite(w) PROVE overlapped'
  BY <1>17 DEF FailBatch, FailAfterWrite
<1>18. ASSUME NEW e \in events, BecomeAvailable(e) PROVE overlapped'
  BY <1>18 DEF BecomeAvailable
<1>19. ASSUME NEW e \in events, GrowStale(e) PROVE overlapped'
  BY <1>19 DEF GrowStale
<1>20. ASSUME NEW w \in Worker, Crash(w) PROVE overlapped'
  BY <1>20 DEF Crash
<1>21. CASE UNCHANGED vars
  BY <1>21 DEF vars
<1> QED
  BY <1>1, <1>2, <1>3, <1>4, <1>5, <1>6, <1>7, <1>8, <1>9, <1>10, <1>11, <1>12,
     <1>13, <1>14, <1>15, <1>16, <1>17, <1>18, <1>19, <1>20, <1>21 DEF Next, DrainStep

(* A takedown stays planned and written by the drain that acts on it.      *)
LEMMA TakedownStep ==
  ASSUME IInv, [Next]_vars, ~overlapped', NEW x \in Worker, NEW b \in Artwork,
         Acting(x, b)', content'[b] = Absent
  PROVE  /\ drain'[x].plan[b] = Absent \/ Unclaimed(b)'
         /\ At(x, "settling")' => remote'[b] = Absent \/ Unclaimed(b)'
<1> USE DEF outbox, qdrant, bounds, At, Goto
<1>o. ~overlapped
  <2>1. overlapped => overlapped'
    BY OverlapStep
  <2> QED
    BY <2>1
<1>a. \A w \in Worker : Acting(w, b) /\ content[b] = Absent => drain[w].plan[b] = Absent \/ Unclaimed(b)
  BY <1>o DEF IInv, TakedownPlanned
<1>b. TypeOK /\ \A w, y \in Worker : At(w, "idle") \/ At(y, "idle") \/ w = y
  BY <1>o DEF IInv, OneDrain
<1>c. \A w \in Worker : Acting(w, b) /\ Unclaimed(b) => Unclaimed(b)'
  <2> SUFFICES ASSUME NEW w \in Worker, Acting(w, b), Unclaimed(b) PROVE Unclaimed(b)'
    OBVIOUS
  <2>1. \A y \in Worker : ~At(y, "claiming")
    BY <1>b DEF Acting
  <2> QED
    BY <2>1, <1>b, UnclaimedKept
<1>d. Acting(x, b) /\ At(x, "settling") /\ content[b] = Absent => remote[b] = Absent \/ Unclaimed(b)
  BY <1>o DEF IInv, TakedownWritten
<1> DEFINE Goal == /\ drain'[x].plan[b] = Absent \/ Unclaimed(b)'
                   /\ At(x, "settling")' => remote'[b] = Absent \/ Unclaimed(b)'
<1>1. ASSUME NEW a \in Artwork, NEW v \in Content, Publish(a, v) PROVE Goal
  <2>1. CASE a = b
    <3>1. NewEvent(b) \in events'
      BY <1>1, <2>1 DEF Publish
    <3>2. NewEvent(b).art = b /\ NewEvent(b).status \notin Locked
      BY DEF NewEvent, Locked
    <3> QED
      BY <3>1, <3>2 DEF Unclaimed
  <2>2. CASE a # b
    <3>1. Acting(x, b) /\ content[b] = Absent
      BY <1>1, <2>2 DEF Publish, Acting, TypeOK
    <3> QED
      BY <1>1, <3>1, <1>a, <1>c, <1>d DEF Publish
  <2> QED
    BY <2>1, <2>2
<1>2. ASSUME NEW w \in Worker, Start(w) PROVE Goal
  BY <1>2, <1>b DEF Start, Alone, IdleDrain, Acting, TypeOK
<1>3. ASSUME NEW w \in Worker, CompareCounts(w) PROVE Goal
  BY <1>3, <1>b DEF CompareCounts, IdleDrain, Acting, TypeOK, DrainState, Pc
<1>4. ASSUME NEW w \in Worker, ClearState(w) PROVE Goal
  BY <1>4, <1>b DEF ClearState, Acting, TypeOK, DrainState, Pc
<1>5. ASSUME NEW w \in Worker, QueuePage(w) PROVE Goal
  BY <1>5, <1>b DEF QueuePage, Acting, TypeOK, DrainState, Pc
<1>6. ASSUME NEW w \in Worker, ReleaseStale(w) PROVE Goal
  BY <1>6, <1>b DEF ReleaseStale, Acting, TypeOK, DrainState, Pc
<1>7. ASSUME NEW w \in Worker, NEW S \in SUBSET Claimable, Claim(w, S) PROVE Goal
  <2>1. drain'[w].pc = "claimed" /\ \A y \in Worker \ {w} : drain'[y] = drain[y]
    BY <1>7, <1>b DEF Claim, TypeOK, DrainState
  <2>2. At(w, "claiming")
    BY <1>7 DEF Claim
  <2> QED
    BY <2>1, <2>2, <1>b DEF Acting
<1>8. ASSUME NEW w \in Worker, ClaimNothing(w) PROVE Goal
  BY <1>8, <1>b DEF ClaimNothing, Acting, TypeOK, DrainState, Pc
<1>9. ASSUME NEW w \in Worker, ReadEligible(w) PROVE Goal
  <2>1. x = w
    BY <1>9, <1>b DEF ReadEligible, Acting, TypeOK
  <2>2. drain'[w].pc = "upserting" /\ drain'[w].mine = drain[w].mine
    BY <1>9, <1>b DEF ReadEligible, TypeOK, DrainState
  <2>3. \E m \in drain[w].mine : m[1] = b
    BY <2>1, <2>2 DEF Acting
  <2>4. drain'[w].plan[b] = Planned(b)
    BY <1>9, <1>b, <2>3 DEF ReadEligible, TypeOK, DrainState
  <2>5. Planned(b) = Absent
    BY <1>9 DEF ReadEligible, Planned
  <2> QED
    BY <2>1, <2>2, <2>4, <2>5
<1>10. ASSUME NEW w \in Worker, Upsert(w) PROVE Goal
  <2>1. x = w
    BY <1>10, <1>b DEF Upsert, Acting, TypeOK
  <2>2. drain'[w].pc = "deleting" /\ drain'[w].mine = drain[w].mine /\ drain'[w].plan = drain[w].plan
    BY <1>10, <1>b DEF Upsert, TypeOK, DrainState
  <2>3. Acting(w, b) /\ content[b] = Absent
    BY <1>10, <2>1, <2>2 DEF Upsert, Acting
  <2>4. drain[w].plan[b] = Absent \/ Unclaimed(b)
    BY <2>3, <1>a
  <2>5. Unclaimed(b) => Unclaimed(b)'
    BY <2>1, <2>3, <1>c
  <2> QED
    BY <2>1, <2>2, <2>4, <2>5
<1>11. ASSUME NEW w \in Worker, Delete(w) PROVE Goal
  <2>1. x = w
    BY <1>11, <1>b DEF Delete, Acting, TypeOK
  <2>2. drain'[w].pc = "settling" /\ drain'[w].mine = drain[w].mine /\ drain'[w].plan = drain[w].plan
    BY <1>11, <1>b DEF Delete, TypeOK, DrainState
  <2>3. Acting(w, b) /\ content[b] = Absent
    BY <1>11, <2>1, <2>2 DEF Delete, Acting
  <2>4. drain[w].plan[b] = Absent \/ Unclaimed(b)
    BY <2>3, <1>a
  <2>5. Unclaimed(b) => Unclaimed(b)'
    BY <2>1, <2>3, <1>c
  <2>6. drain[w].plan[b] = Absent => remote'[b] = Absent
    BY <1>11 DEF Delete
  <2> QED
    BY <2>1, <2>2, <2>4, <2>5, <2>6
<1>12. ASSUME NEW w \in Worker, Settle(w) PROVE Goal
  BY <1>12, <1>b DEF Settle, Acting, TypeOK, DrainState, Pc
<1>13. ASSUME NEW w \in Worker, Fail(w) PROVE Goal
  BY <1>13, <1>b DEF Fail, FailBatch, IdleDrain, Acting, TypeOK, DrainState, Pc
<1>14. ASSUME NEW w \in Worker, EndEarly(w) PROVE Goal
  BY <1>14, <1>b DEF EndEarly, IdleDrain, Acting, TypeOK, DrainState, Pc
<1>15. ASSUME NEW w \in Worker, Promote(w) PROVE Goal
  BY <1>15, <1>b DEF Promote, Acting, TypeOK, DrainState, Pc
<1>16. ASSUME NEW w \in Worker, Sweep(w) PROVE Goal
  BY <1>16, <1>b DEF Sweep, IdleDrain, Acting, TypeOK, DrainState, Pc
<1>17. ASSUME NEW w \in Worker, FailAfterWrite(w) PROVE Goal
  BY <1>17, <1>b DEF FailAfterWrite, FailBatch, IdleDrain, Acting, TypeOK, DrainState, Pc
<1>18. ASSUME NEW e \in events, BecomeAvailable(e) PROVE Goal
  <2>1. Acting(x, b) /\ content[b] = Absent
    BY <1>18 DEF BecomeAvailable, Acting
  <2> QED
    BY <1>18, <2>1, <1>a, <1>c, <1>d DEF BecomeAvailable
<1>19. ASSUME NEW e \in events, GrowStale(e) PROVE Goal
  <2>1. Acting(x, b) /\ content[b] = Absent
    BY <1>19 DEF GrowStale, Acting
  <2> QED
    BY <1>19, <2>1, <1>a, <1>c, <1>d DEF GrowStale
<1>20. ASSUME NEW w \in Worker, Crash(w) PROVE Goal
  BY <1>20, <1>b DEF Crash, IdleDrain, Acting, TypeOK, DrainState, Pc
<1>21. CASE UNCHANGED vars
  <2>1. Acting(x, b) /\ content[b] = Absent
    BY <1>21 DEF vars, Acting
  <2> QED
    BY <1>21, <2>1, <1>a, <1>c, <1>d DEF vars
<1> QED
  BY <1>1, <1>2, <1>3, <1>4, <1>5, <1>6, <1>7, <1>8, <1>9, <1>10, <1>11, <1>12,
     <1>13, <1>14, <1>15, <1>16, <1>17, <1>18, <1>19, <1>20, <1>21 DEF Next, DrainStep

(* An artwork becomes quiet only by the settlement of a drain acting on it. *)
LEMMA QuietStep ==
  ASSUME TypeOK, [Next]_vars, NEW b \in Artwork, Quiet(b)'
  PROVE  Quiet(b) \/ \E w \in Worker :
           Acting(w, b) /\ At(w, "settling") /\ UNCHANGED <<content, remote>>
<1> USE DEF outbox, qdrant, bounds, At, Goto
<1> DEFINE Goal == Quiet(b) \/ \E w \in Worker :
                     Acting(w, b) /\ At(w, "settling") /\ UNCHANGED <<content, remote>>
<1>1. ASSUME NEW a \in Artwork, NEW v \in Content, Publish(a, v) PROVE Goal
  BY <1>1 DEF Publish, Quiet, TypeOK, Event, NewEvent
<1>2. ASSUME NEW w \in Worker, Start(w) PROVE Goal
  BY <1>2 DEF Start, Quiet, TypeOK, Event
<1>3. ASSUME NEW w \in Worker, CompareCounts(w) PROVE Goal
  BY <1>3 DEF CompareCounts, Quiet, TypeOK, Event
<1>4. ASSUME NEW w \in Worker, ClearState(w) PROVE Goal
  BY <1>4 DEF ClearState, Quiet, TypeOK, Event
<1>5. ASSUME NEW w \in Worker, QueuePage(w) PROVE Goal
  BY <1>5 DEF QueuePage, Quiet, TypeOK, Event, NewEvent
<1>6. ASSUME NEW w \in Worker, ReleaseStale(w) PROVE Goal
  <2>1. \A e \in events : (IF e.status = "stale" THEN Unlocked(e) ELSE e).art = e.art
    BY DEF Unlocked, TypeOK, Event
  <2> QED
    BY <1>6, <2>1 DEF ReleaseStale, Quiet
<1>7. ASSUME NEW w \in Worker, NEW S \in SUBSET Claimable, Claim(w, S) PROVE Goal
  <2>1. \A e \in S : ClaimedBy(w, e).art = e.art
    BY DEF Claimable, ClaimedBy, TypeOK, Event
  <2> QED
    BY <1>7, <2>1 DEF Claim, Quiet
<1>8. ASSUME NEW w \in Worker, ClaimNothing(w) PROVE Goal
  BY <1>8 DEF ClaimNothing, Quiet, TypeOK, Event
<1>9. ASSUME NEW w \in Worker, ReadEligible(w) PROVE Goal
  BY <1>9 DEF ReadEligible, Quiet, TypeOK, Event
<1>10. ASSUME NEW w \in Worker, Upsert(w) PROVE Goal
  BY <1>10 DEF Upsert, Quiet, TypeOK, Event
<1>11. ASSUME NEW w \in Worker, Delete(w) PROVE Goal
  BY <1>11 DEF Delete, Quiet, TypeOK, Event
<1>12. ASSUME NEW w \in Worker, Settle(w) PROVE Goal
  <2>1. CASE \E e \in Owned(w) : e.art = b
    <3>1. Acting(w, b) /\ At(w, "settling")
      BY <1>12, <2>1 DEF Settle, Owned, Acting
    <3> QED
      BY <1>12, <3>1 DEF Settle
  <2>2. CASE ~\E e \in Owned(w) : e.art = b
    BY <1>12, <2>2 DEF Settle, Quiet, Owned
  <2> QED
    BY <2>1, <2>2
<1>13. ASSUME NEW w \in Worker, Fail(w) PROVE Goal
  <2>1. \A e \in events : [e EXCEPT !.status = "delayed", !.owner = NoWorker].art = e.art
    BY DEF TypeOK, Event
  <2>2. ASSUME NEW e \in events PROVE e.art \in dead' \/ \E f \in events' : f.art = e.art
    BY <1>13, <2>1, <2>2 DEF Fail, FailBatch
  <2>3. dead \subseteq dead'
    BY <1>13 DEF Fail, FailBatch
  <2> QED
    BY <2>2, <2>3 DEF Quiet
<1>14. ASSUME NEW w \in Worker, EndEarly(w) PROVE Goal
  BY <1>14 DEF EndEarly, Quiet, TypeOK, Event
<1>15. ASSUME NEW w \in Worker, Promote(w) PROVE Goal
  BY <1>15 DEF Promote, Quiet, TypeOK, Event
<1>16. ASSUME NEW w \in Worker, Sweep(w) PROVE Goal
  BY <1>16 DEF Sweep, Quiet, TypeOK, Event
<1>17. ASSUME NEW w \in Worker, FailAfterWrite(w) PROVE Goal
  <2>1. \A e \in events : [e EXCEPT !.status = "delayed", !.owner = NoWorker].art = e.art
    BY DEF TypeOK, Event
  <2>2. ASSUME NEW e \in events PROVE e.art \in dead' \/ \E f \in events' : f.art = e.art
    BY <1>17, <2>1, <2>2 DEF FailAfterWrite, FailBatch
  <2>3. dead \subseteq dead'
    BY <1>17 DEF FailAfterWrite, FailBatch
  <2> QED
    BY <2>2, <2>3 DEF Quiet
<1>18. ASSUME NEW e \in events, BecomeAvailable(e) PROVE Goal
  <2>1. [e EXCEPT !.status = "pending"].art = e.art
    BY DEF TypeOK, Event
  <2> QED
    BY <1>18, <2>1 DEF BecomeAvailable, Quiet
<1>19. ASSUME NEW e \in events, GrowStale(e) PROVE Goal
  <2>1. [e EXCEPT !.status = "stale"].art = e.art
    BY DEF TypeOK, Event
  <2> QED
    BY <1>19, <2>1 DEF GrowStale, Quiet
<1>20. ASSUME NEW w \in Worker, Crash(w) PROVE Goal
  BY <1>20 DEF Crash, Quiet, TypeOK, Event
<1>21. CASE UNCHANGED vars
  BY <1>21 DEF vars, Quiet
<1> QED
  BY <1>1, <1>2, <1>3, <1>4, <1>5, <1>6, <1>7, <1>8, <1>9, <1>10, <1>11, <1>12,
     <1>13, <1>14, <1>15, <1>16, <1>17, <1>18, <1>19, <1>20, <1>21 DEF Next, DrainStep

(* An ineligible artwork that is quiet stays unserved.                     *)
LEMMA NotServedStep ==
  ASSUME IInv, [Next]_vars, ~overlapped', NEW b \in Artwork, Quiet(b)', content'[b] = Absent
  PROVE  remote'[b] = Absent
<1>o. ~overlapped
  <2>1. overlapped => overlapped'
    BY OverlapStep
  <2> QED
    BY <2>1
<1>t. TypeOK
  BY DEF IInv
<1>q. Quiet(b) \/ \E w \in Worker :
                     Acting(w, b) /\ At(w, "settling") /\ UNCHANGED <<content, remote>>
  BY <1>t, QuietStep
<1>s. CASE ~Quiet(b)
  <2>1. PICK w \in Worker : Acting(w, b) /\ At(w, "settling") /\ UNCHANGED <<content, remote>>
    BY <1>q, <1>s
  <2>2. remote[b] = Absent \/ Unclaimed(b)
    BY <1>o, <2>1 DEF IInv, TakedownWritten
  <2>3. \A y \in Worker : ~At(y, "claiming")
    BY <1>o, <2>1 DEF IInv, OneDrain, At
  <2>4. ~Unclaimed(b)'
    BY DEF Quiet, Unclaimed
  <2> QED
    BY <1>t, <2>1, <2>2, <2>3, <2>4, UnclaimedKept
<1>u. CASE Quiet(b)
  <2> USE DEF outbox, qdrant, bounds
  <2>a. ~Unclaimed(b)
    BY <1>u DEF Quiet, Unclaimed
  <2>b. content[b] = Absent => remote[b] = Absent
    BY <1>o, <1>u DEF IInv, NotServed
  <2>1. ASSUME NEW w \in Worker, drain[w].pc = "upserting", content[b] = Absent
        PROVE  Upserted(w)[b] = Absent
    <3>1. drain[w].plan[b] \in Version => Acting(w, b)
      BY <1>o, <2>1, SentinelAssumption DEF IInv, PlanOfClaimed
    <3>2. drain[w].plan[b] \notin Version
      BY <1>o, <2>1, <2>a, <3>1, SentinelAssumption DEF IInv, TakedownPlanned
    <3> QED
      BY <2>1, <2>b, <3>2 DEF Upserted
  <2>2. CASE \E a \in Artwork, v \in Content : Publish(a, v)
    <3>1. PICK a \in Artwork, v \in Content : Publish(a, v)
      BY <2>2
    <3>2. NewEvent(a) \in events' /\ NewEvent(a).art = a
      BY <3>1 DEF Publish, NewEvent
    <3>3. a # b
      BY <3>2 DEF Quiet
    <3> QED
      BY <1>t, <2>b, <3>1, <3>3 DEF Publish, TypeOK
  <2>3. ASSUME NEW w \in Worker, Upsert(w) PROVE remote'[b] = Absent
    BY <2>1, <2>3 DEF Upsert, At
  <2>4. ASSUME NEW w \in Worker, FailAfterWrite(w) PROVE remote'[b] = Absent
    BY <2>1, <2>4, <2>b DEF FailAfterWrite, FailBatch, At
  <2>5. ASSUME NEW w \in Worker, Delete(w) PROVE remote'[b] = Absent
    BY <2>5, <2>b DEF Delete
  <2>6. ASSUME NEW w \in Worker, Sweep(w) PROVE remote'[b] = Absent
    BY <2>6, <2>b DEF Sweep
  <2>7. ASSUME UNCHANGED <<content, remote>> PROVE remote'[b] = Absent
    BY <2>7, <2>b
  <2>8. ASSUME NEW w \in Worker, DrainStep(w), ~Upsert(w), ~Delete(w), ~Sweep(w)
        PROVE  UNCHANGED <<content, remote>>
    BY <2>8 DEF DrainStep, CompareCounts, ClearState, QueuePage, ReleaseStale, Claim, ClaimNothing,
                ReadEligible, Settle, Fail, FailBatch, EndEarly, Promote
  <2>9. ASSUME NEW w \in Worker, Start(w) \/ Crash(w) PROVE UNCHANGED <<content, remote>>
    BY <2>9 DEF Start, Crash
  <2>10. ASSUME NEW e \in events, BecomeAvailable(e) \/ GrowStale(e)
         PROVE  UNCHANGED <<content, remote>>
    BY <2>10 DEF BecomeAvailable, GrowStale
  <2>11. ASSUME UNCHANGED vars PROVE UNCHANGED <<content, remote>>
    BY <2>11 DEF vars
  <2> QED
    BY <2>2, <2>3, <2>4, <2>5, <2>6, <2>7, <2>8, <2>9, <2>10, <2>11 DEF Next
<1> QED
  BY <1>s, <1>u

(* The inductive invariant holds in every reachable state.                 *)
LEMMA Invariant == Spec => []IInv
<1>1. Init => IInv
  <2> SUFFICES ASSUME Init PROVE IInv
    OBVIOUS
  <2>1. TypeOK
    <3>1. drain \in [Worker -> DrainState]
      BY IdleTyped DEF Init
    <3>2. changes \in 0 .. MaxChanges /\ faults \in 0 .. MaxFaults
      BY BoundAssumption DEF Init
    <3> QED
      BY <3>1, <3>2 DEF Init, TypeOK, Content
  <2>2. \A w \in Worker : drain[w].pc = "idle"
    BY DEF Init, IdleDrain
  <2> QED
    BY <2>1, <2>2
    DEF Init, IInv, OneDrain, At, PlanOfClaimed, TakedownPlanned, TakedownWritten, NotServed, Acting
<1>2. IInv /\ [Next]_vars => IInv'
  <2> SUFFICES ASSUME IInv, [Next]_vars PROVE IInv'
    OBVIOUS
  <2>1. TypeOK' /\ OneDrain' /\ PlanOfClaimed'
    BY TypeStep, OneDrainStep, PlanStep DEF IInv
  <2>2. (~overlapped => TakedownPlanned)'
    BY TakedownStep DEF TakedownPlanned
  <2>3. TakedownWritten'
    BY TakedownStep DEF TakedownWritten
  <2>4. NotServed'
    BY NotServedStep DEF NotServed
  <2> QED
    BY <2>1, <2>2, <2>3, <2>4 DEF IInv
<1> QED
  BY <1>1, <1>2, PTL DEF Spec

(* The rows of the outbox, the index records, the points and every drain's *)
(* local state keep their types.                                           *)
THEOREM TypeCorrect == Spec => []TypeOK
<1>1. IInv => TypeOK
  BY DEF IInv
<1> QED
  BY <1>1, Invariant, PTL

(* An ineligible artwork without an open event is not served, whatever     *)
(* crashed and whichever replies were lost, until drains overlap           *)
(* (drain_qdrant_outbox, _reconcile_claim).                                *)
THEOREM TakedownsHonoured == Spec => []TakedownHonoured
<1>1. IInv => TakedownHonoured
  BY DEF IInv, NotServed, TakedownHonoured
<1> QED
  BY <1>1, Invariant, PTL


(* An event in hand leaves its lock by its holder's step or grows stale.   *)
LEMMA LocksStep ==
  ASSUME TypeOK, [Next]_vars, NEW f \in events, f.status = "processing", InHand(f), f \notin events'
  PROVE  \/ drain'[f.owner] # drain[f.owner]
         \/ [f EXCEPT !.status = "stale"] \in events'
<1> USE DEF outbox, qdrant, bounds, At, Goto
<1> DEFINE Goal == \/ drain'[f.owner] # drain[f.owner]
                   \/ [f EXCEPT !.status = "stale"] \in events'
<1>1. ASSUME NEW a \in Artwork, NEW v \in Content, Publish(a, v) PROVE Goal
  BY <1>1 DEF Publish
<1>2. ASSUME NEW w \in Worker, Start(w) PROVE Goal
  BY <1>2 DEF Start
<1>3. ASSUME NEW w \in Worker, CompareCounts(w) PROVE Goal
  BY <1>3 DEF CompareCounts
<1>4. ASSUME NEW w \in Worker, ClearState(w) PROVE Goal
  BY <1>4 DEF ClearState
<1>5. ASSUME NEW w \in Worker, QueuePage(w) PROVE Goal
  BY <1>5 DEF QueuePage
<1>6. ASSUME NEW w \in Worker, ReleaseStale(w) PROVE Goal
  BY <1>6 DEF ReleaseStale
<1>7. ASSUME NEW w \in Worker, NEW S \in SUBSET Claimable, Claim(w, S) PROVE Goal
  BY <1>7 DEF Claim, Claimable
<1>8. ASSUME NEW w \in Worker, ClaimNothing(w) PROVE Goal
  BY <1>8 DEF ClaimNothing
<1>9. ASSUME NEW w \in Worker, ReadEligible(w) PROVE Goal
  BY <1>9 DEF ReadEligible
<1>10. ASSUME NEW w \in Worker, Upsert(w) PROVE Goal
  BY <1>10 DEF Upsert
<1>11. ASSUME NEW w \in Worker, Delete(w) PROVE Goal
  BY <1>11 DEF Delete
<1>12. ASSUME NEW w \in Worker, Settle(w) PROVE Goal
  <2>1. f \in Owned(w)
    BY <1>12 DEF Settle
  <2>2. f.owner = w /\ drain[w].pc # drain'[w].pc
    BY <1>12, <2>1 DEF Settle, FailBatch, Owned, IdleDrain, TypeOK, DrainState
  <2> QED
    BY <2>2
<1>13. ASSUME NEW w \in Worker, Fail(w) PROVE Goal
  <2>1. f \in Owned(w)
    BY <1>13 DEF Fail, FailBatch
  <2>2. f.owner = w /\ drain[w].pc # drain'[w].pc
    BY <1>13, <2>1 DEF Fail, FailBatch, Owned, IdleDrain, TypeOK, DrainState
  <2> QED
    BY <2>2
<1>14. ASSUME NEW w \in Worker, EndEarly(w) PROVE Goal
  BY <1>14 DEF EndEarly
<1>15. ASSUME NEW w \in Worker, Promote(w) PROVE Goal
  BY <1>15 DEF Promote
<1>16. ASSUME NEW w \in Worker, Sweep(w) PROVE Goal
  BY <1>16 DEF Sweep
<1>17. ASSUME NEW w \in Worker, FailAfterWrite(w) PROVE Goal
  <2>1. f \in Owned(w)
    BY <1>17 DEF FailAfterWrite, FailBatch
  <2>2. f.owner = w /\ drain[w].pc # drain'[w].pc
    BY <1>17, <2>1 DEF FailAfterWrite, FailBatch, Owned, IdleDrain, TypeOK, DrainState
  <2> QED
    BY <2>2
<1>18. ASSUME NEW e \in events, BecomeAvailable(e) PROVE Goal
  BY <1>18 DEF BecomeAvailable
<1>19. ASSUME NEW e \in events, GrowStale(e) PROVE Goal
  BY <1>19 DEF GrowStale
<1>20. ASSUME NEW w \in Worker, Crash(w) PROVE Goal
  BY <1>20 DEF Crash
<1>21. CASE UNCHANGED vars
  BY <1>21 DEF vars
<1> QED
  BY <1>1, <1>2, <1>3, <1>4, <1>5, <1>6, <1>7, <1>8, <1>9, <1>10, <1>11, <1>12,
     <1>13, <1>14, <1>15, <1>16, <1>17, <1>18, <1>19, <1>20, <1>21 DEF Next, DrainStep

(* A drain whose lock was taken over settles and fails none of its events  *)
(* (_reconcile_claim and mark_failed compare locked_by).                   *)
THEOREM LocksStayRespected == Spec => LocksRespected
<1>1. TypeOK /\ [Next]_vars
        => [\A e \in events :
              e.status = "processing" /\ InHand(e) /\ e \notin events'
                => \/ drain'[e.owner] # drain[e.owner]
                   \/ [e EXCEPT !.status = "stale"] \in events']_vars
  BY LocksStep
<1> QED
  BY <1>1, TypeCorrect, PTL DEF Spec, LocksRespected

-----------------------------------------------------------------------------
(***************************************************************************)
(* Without faults the index converges.                                     *)
(*                                                                         *)
(* QuietIsServed speaks of the moments between drains.  During a drain, an *)
(* artwork without an open event is served as well, or waits to be queued  *)
(* by a drain that found a drift (ToQueue).  An event leaves the outbox in *)
(* a settlement only: its plan was current when it was read, or a later    *)
(* publication has left an event the drain did not claim (PlansCurrent),   *)
(* and by then it is written (PlansWritten).  An unchanged hash is left    *)
(* alone, so that what is recorded has to be served (RecordsServed); and a *)
(* batch that is written settles, because its events are still its drain's *)
(* (Held).                                                                 *)
(***************************************************************************)

Batch == {"claimed", "upserting", "deleting", "settling"}

Held == \A w \in Worker : drain[w].pc \in Batch =>
  \A m \in drain[w].mine : \E e \in Owned(w) : <<e.art, e.tries>> = m

PlansCurrent == \A w \in Worker, a \in Artwork : Acting(w, a) =>
  \/ Unclaimed(a)
  \/ drain[w].plan[a] = content[a]
  \/ drain[w].plan[a] = Keep /\ content[a] = indexed[a] /\ content[a] # Absent

PlansWritten == \A w \in Worker, a \in Artwork : drain[w].plan[a] # Keep =>
  /\ At(w, "deleting") /\ drain[w].plan[a] # Absent => remote[a] = drain[w].plan[a]
  /\ At(w, "settling") => remote[a] = drain[w].plan[a]

RecordsServed == \A a \in Artwork : indexed[a] # Absent =>
  \/ remote[a] = indexed[a]
  \/ \E w \in Worker : drain[w].pc \in {"deleting", "settling"} /\ drain[w].plan[a] # Keep

ToQueue(a) == \E w \in Worker :
  \/ At(w, "counted") /\ drain[w].created
  \/ At(w, "clearing")
  \/ At(w, "queueing") /\ a \in drain[w].todo

QuietServed == \A a \in Artwork : Quiet(a) =>
  ToQueue(a) \/ (remote[a] = content[a] /\ indexed[a] = content[a])

CalmInv ==
  faults = 0 =>
    /\ ~overlapped
    /\ Held
    /\ PlansCurrent
    /\ PlansWritten
    /\ RecordsServed
    /\ collection => QuietServed
    /\ \A w \in Worker : At(w, "idle") \/ collection

\* What the proofs of the steps assume of the state before.
Calm == IInv /\ CalmInv /\ faults = 0

LEMMA CalmState ==
  ASSUME Calm
  PROVE  /\ TypeOK /\ PlanOfClaimed /\ ~overlapped /\ faults = 0
         /\ Held /\ PlansCurrent /\ PlansWritten /\ RecordsServed
         /\ collection => QuietServed
         /\ \A w \in Worker : At(w, "idle") \/ collection
         /\ \A w, x \in Worker : At(w, "idle") \/ At(x, "idle") \/ w = x
  BY DEF Calm, IInv, CalmInv, OneDrain

(* Drains outside a batch hold nothing.                                    *)
LEMMA NoBatch ==
  ASSUME \A w \in Worker : drain[w].pc \notin Batch
  PROVE  Held /\ PlansCurrent /\ PlansWritten
  BY DEF Held, PlansCurrent, PlansWritten, Acting, Batch, At

LEMMA NoBatchLater ==
  ASSUME \A w \in Worker : drain'[w].pc \notin Batch
  PROVE  Held' /\ PlansCurrent' /\ PlansWritten'
  BY DEF Held, PlansCurrent, PlansWritten, Acting, Batch, At

LEMMA CalmPublish ==
  ASSUME Calm, NEW a \in Artwork, NEW v \in Content, Publish(a, v)
  PROVE  CalmInv'
<1> USE CalmState DEF qdrant, At
<1>1. /\ NewEvent(a) \in events' /\ NewEvent(a).art = a /\ NewEvent(a).status = "pending"
      /\ events \subseteq events'
  BY DEF Publish, NewEvent
<1>2. \A b \in Artwork : (b # a => content'[b] = content[b]) /\ (Unclaimed(b) => Unclaimed(b)')
  BY <1>1 DEF Publish, TypeOK, Unclaimed
<1>3. Unclaimed(a)' /\ ~Quiet(a)'
  BY <1>1 DEF Unclaimed, Locked, Quiet
<1>4. \A b \in Artwork : Quiet(b)' => Quiet(b)
  BY <1>1 DEF Publish, Quiet
<1>5. \A w \in Worker : Owned(w) \subseteq Owned(w)'
  BY <1>1 DEF Publish, Owned
<1>6. UNCHANGED <<indexed, collection, remote, drain, overlapped>>
  BY DEF Publish
<1>7. Held'
  BY <1>5, <1>6 DEF Held
<1>8. PlansCurrent'
  BY <1>2, <1>3, <1>6 DEF PlansCurrent, Acting
<1>9. PlansWritten' /\ RecordsServed'
  BY <1>6 DEF PlansWritten, RecordsServed
<1>10. collection' => QuietServed'
  BY <1>2, <1>3, <1>4, <1>6 DEF QuietServed, ToQueue
<1> QED
  BY <1>6, <1>7, <1>8, <1>9, <1>10 DEF CalmInv

(* Steps of a drain outside its batches.                                   *)
LEMMA CalmOutside ==
  ASSUME Calm, faults' = 0, NEW w \in Worker,
         \/ Start(w) \/ CompareCounts(w) \/ ClearState(w) \/ QueuePage(w) \/ ReleaseStale(w)
         \/ ClaimNothing(w) \/ EndEarly(w) \/ Promote(w) \/ Sweep(w)
  PROVE  CalmInv'
<1> USE CalmState DEF outbox, qdrant, bounds, At, Goto
<1>1. /\ \A x \in Worker \ {w} : drain'[x] = drain[x] /\ drain[x].pc = "idle"
      /\ drain[w].pc \notin Batch /\ drain'[w].pc \notin Batch
  <2>1. CASE Start(w)
    BY <2>1, BoundAssumption DEF Start, Alone, IdleDrain, TypeOK, Batch
  <2>2. CASE CompareCounts(w) \/ EndEarly(w) \/ Sweep(w)
    BY <2>2 DEF CompareCounts, EndEarly, Sweep, IdleDrain, TypeOK, Batch
  <2>3. CASE ClearState(w)
    BY <2>3 DEF ClearState, TypeOK, DrainState, Batch
  <2>4. CASE QueuePage(w)
    <3>1. PICK rest, pc :
            /\ pc \in {"queueing", "releasing"}
            /\ drain' = [drain EXCEPT ![w].todo = rest, ![w].pc = pc]
      BY <2>4 DEF QueuePage
    <3>2. drain'[w].pc = pc /\ drain[w].pc = "queueing"
      <4>1. drain[w].pc = "queueing"
        BY <2>4 DEF QueuePage
      <4>2. drain \in [Worker -> DrainState]
        BY DEF TypeOK
      <4> QED
        BY <3>1, <4>1, <4>2 DEF DrainState
    <3>3. drain'[w].pc \notin Batch /\ drain[w].pc \notin Batch
      BY <3>1, <3>2 DEF Batch
    <3>4. ASSUME NEW x \in Worker \ {w} PROVE drain'[x] = drain[x] /\ drain[x].pc = "idle"
      BY <3>1, <3>2 DEF TypeOK
    <3> QED
      BY <3>3, <3>4
  <2>5. CASE ReleaseStale(w) \/ ClaimNothing(w) \/ Promote(w)
    BY <2>5 DEF ReleaseStale, ClaimNothing, Promote, TypeOK, DrainState, Batch
  <2> QED
    BY <2>1, <2>2, <2>3, <2>4, <2>5
<1>2. Held' /\ PlansCurrent' /\ PlansWritten'
  BY <1>1, NoBatchLater DEF Batch
<1>3. /\ content' = content /\ ~overlapped' /\ collection' /\ dead' = dead
      /\ indexed' = indexed \/ indexed' = [a \in Artwork |-> Absent]
  <2>1. CASE Start(w)
    <3>1. Alone(w)
      BY <2>1 DEF Start, Calm, TypeOK
    <3> QED
      BY <2>1, <3>1 DEF Start
  <2>2. CASE ~Start(w)
    <3>1. collection
      <4>1. drain[w].pc # "idle"
        BY <2>2 DEF CompareCounts, ClearState, QueuePage, ReleaseStale, ClaimNothing, EndEarly,
                    Promote, Sweep
      <4> QED
        BY <4>1
    <3>2. UNCHANGED <<content, collection, overlapped, dead>>
      BY <2>2 DEF CompareCounts, ClearState, QueuePage, ReleaseStale, ClaimNothing, EndEarly,
                  Promote, Sweep
    <3>3. indexed' = indexed \/ indexed' = [a \in Artwork |-> Absent]
      BY <2>2 DEF CompareCounts, ClearState, QueuePage, ReleaseStale, ClaimNothing, EndEarly,
                  Promote, Sweep
    <3> QED
      BY <3>1, <3>2, <3>3
  <2> QED
    BY <2>1, <2>2
<1>4. \A a \in Artwork : indexed[a] # Absent => remote[a] = indexed[a]
  BY <1>1 DEF RecordsServed, Batch
<1>5. RecordsServed'
  BY <1>3, <1>4 DEF RecordsServed, Start, CompareCounts, ClearState, QueuePage, ReleaseStale,
         ClaimNothing, EndEarly, Promote, Sweep, Recorded
<1>6. \A b \in Artwork : Quiet(b)' => Quiet(b)
  <2>1. [Next]_vars
    BY DEF Next, DrainStep
  <2>2. \A x \in Worker : ~(At(x, "settling"))
    BY <1>1 DEF Batch
  <2> QED
    BY <2>1, <2>2, QuietStep
<1>7. ASSUME NEW b \in Artwork, Quiet(b)'
      PROVE  ToQueue(b)' \/ (remote'[b] = content'[b] /\ indexed'[b] = content'[b])
  <2>1. Quiet(b) /\ (collection => ToQueue(b) \/ (remote[b] = content[b] /\ indexed[b] = content[b]))
    BY <1>6, <1>7 DEF QuietServed
  <2>2. CASE Start(w)
    <3>1. drain'[w].pc = "counted" /\ (drain'[w].created <=> ~collection) /\ ~ToQueue(b)
      BY <2>2, <1>1 DEF Start, IdleDrain, TypeOK, ToQueue
    <3> QED
      BY <1>3, <2>1, <2>2, <3>1 DEF Start, ToQueue
  <2>3. CASE CompareCounts(w)
    <3>1. drain[w].created => drain'[w].pc = "clearing"
      BY <2>3 DEF CompareCounts, Drift, IdleDrain, TypeOK, DrainState
    <3> QED
      BY <1>1, <2>1, <2>3, <3>1 DEF CompareCounts, ToQueue
  <2>4. CASE ClearState(w)
    <3>1. drain'[w].pc = "queueing" /\ drain'[w].todo = Artwork
      BY <2>4 DEF ClearState, TypeOK, DrainState
    <3> QED
      BY <3>1 DEF ToQueue
  <2>5. CASE QueuePage(w)
    <3>1. PICK a \in drain[w].todo :
            /\ events' = events \union {NewEvent(a)}
            /\ drain' = [drain EXCEPT ![w].todo = @ \ {a},
                                      ![w].pc = IF drain[w].todo = {a} THEN "releasing" ELSE @]
      BY <2>5 DEF QueuePage
    <3>2. NewEvent(a).art = a
      BY DEF NewEvent
    <3>3. a # b
      BY <1>7, <3>1, <3>2 DEF Quiet
    <3>4. CASE ToQueue(b)
      <4>1. drain[w].pc = "queueing" /\ b \in drain[w].todo
        BY <1>1, <2>5, <3>4 DEF QueuePage, ToQueue
      <4>2. drain'[w].pc = "queueing" /\ b \in drain'[w].todo
        BY <3>1, <3>3, <4>1 DEF TypeOK, DrainState
      <4> QED
        BY <4>2 DEF ToQueue
    <3>5. CASE ~ToQueue(b)
      BY <2>1, <2>5, <3>5 DEF QueuePage
    <3> QED
      BY <3>4, <3>5
  <2>6. CASE ReleaseStale(w) \/ ClaimNothing(w) \/ EndEarly(w) \/ Promote(w) \/ Sweep(w)
    <3>1. ~ToQueue(b)
      BY <1>1, <2>6 DEF ReleaseStale, ClaimNothing, EndEarly, Promote, Sweep, ToQueue
    <3>2. remote[b] = content[b] /\ indexed[b] = content[b]
      BY <1>1, <2>1, <2>6, <3>1 DEF ReleaseStale, ClaimNothing, EndEarly, Promote, Sweep
    <3> QED
      BY <2>6, <3>2 DEF ReleaseStale, ClaimNothing, EndEarly, Promote, Sweep, Recorded
  <2> QED
    BY <2>2, <2>3, <2>4, <2>5, <2>6
<1>8. QuietServed'
  BY <1>7 DEF QuietServed
<1> QED
  BY <1>2, <1>3, <1>5, <1>8 DEF CalmInv

(* The steps of a batch before anything is written.                        *)
LEMMA CalmClaim ==
  ASSUME Calm, NEW w \in Worker, NEW S \in SUBSET Claimable, Claim(w, S)
  PROVE  CalmInv'
<1> USE CalmState DEF outbox, qdrant, bounds, At
<1>1. /\ drain'[w].pc = "claimed" /\ drain'[w].mine = {<<e.art, e.tries + 1>> : e \in S}
      /\ \A x \in Worker \ {w} : drain'[x] = drain[x] /\ drain[x].pc = "idle"
      /\ drain[w].pc = "claiming"
  BY DEF Claim, TypeOK, DrainState
<1>2. \A e \in S : /\ ClaimedBy(w, e) \in events' /\ ClaimedBy(w, e).art = e.art
                   /\ ClaimedBy(w, e).tries = e.tries + 1 /\ ClaimedBy(w, e).owner = w
                   /\ ClaimedBy(w, e).status \in Locked
  BY DEF Claim, Claimable, ClaimedBy, TypeOK, Event, Locked
<1>3. Held'
  <2>1. ASSUME NEW m \in drain'[w].mine PROVE \E e \in Owned(w)' : <<e.art, e.tries>> = m
    <3>1. PICK e \in S : m = <<e.art, e.tries + 1>>
      BY <1>1, <2>1
    <3>2. ClaimedBy(w, e) \in Owned(w)' /\ <<ClaimedBy(w, e).art, ClaimedBy(w, e).tries>> = m
      BY <1>2, <2>1, <3>1 DEF Owned
    <3> QED
      BY <3>2
  <2> QED
    BY <1>1, <2>1 DEF Held, Batch
<1>4. PlansCurrent' /\ PlansWritten'
  BY <1>1 DEF PlansCurrent, PlansWritten, Acting
<1>5. UNCHANGED <<content, indexed, remote, collection, dead, faults, overlapped>>
  BY DEF Claim
<1>6. RecordsServed'
  BY <1>1, <1>5 DEF RecordsServed
<1>7. \A b \in Artwork : Quiet(b)' => Quiet(b)
  BY <1>2, <1>5 DEF Claim, Quiet
<1>8. collection' /\ QuietServed'
  BY <1>1, <1>5, <1>7 DEF QuietServed, ToQueue
<1> QED
  BY <1>3, <1>4, <1>5, <1>6, <1>8 DEF CalmInv

LEMMA CalmReadEligible ==
  ASSUME Calm, NEW w \in Worker, ReadEligible(w)
  PROVE  CalmInv'
<1> USE CalmState DEF outbox, qdrant, bounds, At
<1>1. /\ drain'[w].pc = "upserting" /\ drain'[w].mine = drain[w].mine /\ drain[w].pc = "claimed"
      /\ \A b \in Artwork : drain'[w].plan[b] =
           IF \E m \in drain[w].mine : m[1] = b THEN Planned(b) ELSE Keep
      /\ \A x \in Worker \ {w} : drain'[x] = drain[x] /\ drain[x].pc = "idle"
  BY DEF ReadEligible, TypeOK, DrainState
<1>2. UNCHANGED <<content, indexed, remote, collection, events, dead, faults, overlapped>>
  BY DEF ReadEligible
<1>3. Owned(w)' = Owned(w)
  BY <1>1, <1>2 DEF Owned
<1>4. Held'
  BY <1>1, <1>3 DEF Held, Batch
<1>5. PlansCurrent'
  <2>1. ASSUME NEW b \in Artwork, Acting(w, b)'
        PROVE  \/ drain'[w].plan[b] = content[b]
               \/ drain'[w].plan[b] = Keep /\ content[b] = indexed[b] /\ content[b] # Absent
    BY <1>1, <2>1 DEF Acting, Planned
  <2> QED
    BY <1>1, <1>2, <2>1 DEF PlansCurrent, Acting
<1>6. PlansWritten' /\ RecordsServed'
  BY <1>1, <1>2 DEF PlansWritten, RecordsServed
<1>7. collection' /\ QuietServed'
  BY <1>1, <1>2 DEF QuietServed, ToQueue, Quiet
<1> QED
  BY <1>2, <1>4, <1>5, <1>6, <1>7 DEF CalmInv

(* The writes of a batch.                                                  *)
LEMMA CalmWrite ==
  ASSUME Calm, NEW w \in Worker, Upsert(w) \/ Delete(w)
  PROVE  CalmInv'
<1> USE CalmState DEF outbox, qdrant, bounds, At, Goto
<1>1. /\ drain'[w].mine = drain[w].mine /\ drain'[w].plan = drain[w].plan
      /\ \A x \in Worker \ {w} : drain'[x] = drain[x] /\ drain[x].pc = "idle"
      /\ Upsert(w) => drain[w].pc = "upserting" /\ drain'[w].pc = "deleting"
      /\ Delete(w) => drain[w].pc = "deleting" /\ drain'[w].pc = "settling"
  BY DEF Upsert, Delete, TypeOK, DrainState
<1>2. UNCHANGED <<content, indexed, collection, events, dead, faults, overlapped>>
  BY DEF Upsert, Delete
<1>3. Held'
  <2>1. Owned(w)' = Owned(w)
    BY <1>1, <1>2 DEF Owned
  <2> QED
    BY <1>1, <2>1 DEF Held, Batch
<1>4. PlansCurrent'
  BY <1>1, <1>2 DEF PlansCurrent, Acting, Unclaimed
<1>5. \A a \in Artwork : drain[w].plan[a] \in Version \union {Absent, Keep}
  BY DEF TypeOK, DrainState, Content
<1>6. /\ Upsert(w) => \A a \in Artwork :
           remote'[a] = IF drain[w].plan[a] \in Version THEN drain[w].plan[a] ELSE remote[a]
      /\ Delete(w) => \A a \in Artwork :
           remote'[a] = IF drain[w].plan[a] = Absent THEN Absent ELSE remote[a]
  BY DEF Upsert, Upserted, Delete
<1>7. PlansWritten'
  <2>1. ASSUME NEW a \in Artwork, drain[w].plan[a] # Keep
        PROVE  /\ Upsert(w) /\ drain[w].plan[a] # Absent => remote'[a] = drain[w].plan[a]
               /\ Delete(w) => remote'[a] = drain[w].plan[a]
    BY <1>1, <1>5, <1>6, <2>1 DEF PlansWritten
  <2> QED
    BY <1>1, <2>1 DEF PlansWritten
<1>8. \A a \in Artwork : drain[w].plan[a] = Keep => remote'[a] = remote[a]
  BY <1>6, SentinelAssumption
<1>9. RecordsServed'
  BY <1>1, <1>2, <1>8 DEF RecordsServed
<1>10. collection' /\ QuietServed'
  <2>1. ASSUME NEW a \in Artwork, Quiet(a) PROVE drain[w].plan[a] = Keep
    <3>1. ASSUME Acting(w, a) PROVE FALSE
      <4>1. PICK m \in drain[w].mine : m[1] = a
        BY <3>1 DEF Acting
      <4>2. PICK e \in Owned(w) : <<e.art, e.tries>> = m
        BY <3>1 DEF Acting, Held, Batch
      <4>3. e \in events /\ e.art = a
        BY <4>1, <4>2 DEF Owned
      <4> QED
        BY <2>1, <4>3 DEF Quiet
    <3> QED
      BY <1>1, <2>1, <3>1 DEF Quiet, PlanOfClaimed
  <2>2. \A a \in Artwork : Quiet(a)' => Quiet(a)
    BY <1>2 DEF Quiet
  <2>3. collection /\ \A a \in Artwork : ~ToQueue(a)
    BY <1>1 DEF ToQueue
  <2> QED
    BY <1>2, <1>8, <2>1, <2>2, <2>3 DEF QuietServed
<1> QED
  BY <1>2, <1>3, <1>4, <1>7, <1>9, <1>10 DEF CalmInv

(* A settlement: what it takes out of the outbox is served as it should be.*)
LEMMA CalmSettle ==
  ASSUME Calm, NEW w \in Worker, Settle(w)
  PROVE  CalmInv'
<1> USE CalmState DEF outbox, qdrant, bounds, At, Goto
<1>1. /\ drain[w].pc = "settling" /\ drain'[w].pc = "claiming"
      /\ \A x \in Worker \ {w} : drain'[x] = drain[x] /\ drain[x].pc = "idle"
  BY DEF Settle, TypeOK, DrainState
<1>2. UNCHANGED <<content, remote, collection, dead, faults, overlapped>>
  BY DEF Settle
<1>3. \A a \in Artwork :
        indexed'[a] = IF drain[w].plan[a] = Keep THEN indexed[a] ELSE drain[w].plan[a]
  BY DEF Settle, RecordedBy
<1>4. Held' /\ PlansCurrent' /\ PlansWritten'
  BY <1>1, NoBatchLater DEF Batch
<1>5. \A a \in Artwork : drain[w].plan[a] # Keep => remote[a] = drain[w].plan[a]
  BY <1>1 DEF PlansWritten
<1>6. \A a \in Artwork :
        drain[w].plan[a] = Keep /\ indexed[a] # Absent => remote[a] = indexed[a]
  BY <1>1 DEF RecordsServed
<1>7. RecordsServed'
  BY <1>2, <1>3, <1>5, <1>6 DEF RecordsServed
<1>8. ASSUME NEW a \in Artwork, Quiet(a)' PROVE remote[a] = content[a] /\ indexed'[a] = content[a]
  <2>1. CASE Acting(w, a)
    <3>1. ~Unclaimed(a)
      BY <1>8 DEF Settle, Owned, Quiet, Unclaimed
    <3>2. \/ drain[w].plan[a] = content[a]
          \/ drain[w].plan[a] = Keep /\ content[a] = indexed[a] /\ content[a] # Absent
      BY <2>1, <3>1 DEF PlansCurrent
    <3>3. content[a] # Keep
      BY SentinelAssumption DEF TypeOK, Content
    <3> QED
      BY <1>3, <1>5, <1>6, <3>2, <3>3
  <2>2. CASE ~Acting(w, a)
    <3>1. drain[w].plan[a] = Keep
      BY <1>1, <2>2 DEF PlanOfClaimed
    <3>2. Quiet(a)
      BY <1>2, <1>8, <2>2, <1>1 DEF Settle, Quiet, Owned, Acting
    <3>3. collection /\ ~ToQueue(a)
      BY <1>1 DEF ToQueue
    <3> QED
      BY <1>3, <3>1, <3>2, <3>3 DEF QuietServed
  <2> QED
    BY <2>1, <2>2
<1>9. collection' /\ QuietServed'
  BY <1>1, <1>2, <1>8 DEF QuietServed
<1> QED
  BY <1>2, <1>4, <1>7, <1>9 DEF CalmInv

(* A batch fails before its first write only: it owns what it holds.       *)
LEMMA CalmFail ==
  ASSUME Calm, NEW w \in Worker, Fail(w)
  PROVE  CalmInv'
<1> USE CalmState DEF outbox, qdrant, bounds, At, Goto
<1>1. drain[w].pc \in {"claimed", "upserting"}
  <2>1. CASE drain[w].pc = "settling"
    <3>1. \A m \in drain[w].mine : \E e \in Owned(w) : <<e.art, e.tries>> = m
      BY <2>1 DEF Held, Batch
    <3>2. StillOwned(w)
      BY <3>1 DEF StillOwned
    <3> QED
      BY <2>1, <3>2 DEF Fail
  <2> QED
    BY <2>1 DEF Fail
<1>2. /\ drain'[w].pc = "idle"
      /\ \A x \in Worker \ {w} : drain'[x] = drain[x] /\ drain[x].pc = "idle"
  BY <1>1 DEF Fail, FailBatch, TypeOK, IdleDrain
<1>3. UNCHANGED <<content, remote, indexed, collection, faults, overlapped>>
  BY DEF Fail, FailBatch
<1>4. Held' /\ PlansCurrent' /\ PlansWritten'
  BY <1>2, NoBatchLater DEF Batch
<1>5. RecordsServed'
  BY <1>1, <1>2, <1>3 DEF RecordsServed
<1>6. \A a \in Artwork : Quiet(a)' => Quiet(a)
  <2>1. [Next]_vars /\ \A x \in Worker : ~At(x, "settling")
    BY <1>1, <1>2 DEF Next, DrainStep
  <2> QED
    BY <2>1, QuietStep
<1>7. collection' /\ QuietServed'
  <2>1. collection /\ \A a \in Artwork : ~ToQueue(a)
    BY <1>1, <1>2 DEF ToQueue
  <2> QED
    BY <1>3, <1>6, <2>1 DEF QuietServed
<1> QED
  BY <1>3, <1>4, <1>5, <1>7 DEF CalmInv

(* Time passes: only locks of events that nobody holds grow stale.         *)
LEMMA CalmTime ==
  ASSUME Calm, faults' = 0, NEW e \in events, BecomeAvailable(e) \/ GrowStale(e)
  PROVE  CalmInv'
<1> USE CalmState DEF outbox, qdrant, bounds, At, Goto
<1>1. PICK f : f \in {[e EXCEPT !.status = "pending"], [e EXCEPT !.status = "stale"]}
               /\ events' = (events \ {e}) \union {f}
  BY DEF BecomeAvailable, GrowStale
<1>2. f.art = e.art /\ e \in Event
  BY <1>1 DEF TypeOK, Event
<1>3. UNCHANGED <<content, remote, indexed, collection, drain, dead, overlapped>>
  BY DEF BecomeAvailable, GrowStale
<1>4. Held'
  <2>1. \A w \in Worker : e \notin Owned(w)
    BY DEF BecomeAvailable, GrowStale, Owned, InHand, Locked
  <2>2. \A w \in Worker : Owned(w) \subseteq Owned(w)'
    BY <1>1, <1>3, <2>1 DEF Owned
  <2> QED
    BY <1>3, <2>2 DEF Held
<1>5. PlansCurrent'
  <2>1. ASSUME NEW w \in Worker, NEW a \in Artwork, Acting(w, a), Unclaimed(a) PROVE Unclaimed(a)'
    <3>1. [Next]_vars /\ \A x \in Worker : ~At(x, "claiming")
      BY <2>1 DEF Next, Acting
    <3> QED
      BY <2>1, <3>1, UnclaimedKept
  <2> QED
    BY <1>3, <2>1 DEF PlansCurrent, Acting
<1>6. PlansWritten' /\ RecordsServed'
  BY <1>3 DEF PlansWritten, RecordsServed
<1>7. collection' => QuietServed'
  <2>1. \A a \in Artwork : Quiet(a)' => Quiet(a)
    BY <1>1, <1>2, <1>3 DEF Quiet
  <2> QED
    BY <1>3, <2>1 DEF QuietServed, ToQueue
<1> QED
  BY <1>3, <1>4, <1>5, <1>6, <1>7 DEF CalmInv

LEMMA CalmStep == IInv /\ CalmInv /\ [Next]_vars => CalmInv'
<1> SUFFICES ASSUME IInv, CalmInv, [Next]_vars, faults' = 0 PROVE CalmInv'
  BY DEF CalmInv
<1>1. faults = 0 /\ ~(\E w \in Worker : FailAfterWrite(w) \/ Crash(w))
  <2>1. faults \in Nat
    BY BoundAssumption DEF IInv, TypeOK
  <2>2. faults' \in {faults, faults + 1}
    BY DEF Next, DrainStep, vars, bounds, Publish, Start, CompareCounts, ClearState, QueuePage, ReleaseStale,
       Claim, ClaimNothing, ReadEligible, Upsert, Delete, Settle, Fail, FailAfterWrite, EndEarly,
       Promote, Sweep, BecomeAvailable, GrowStale, Crash
  <2>3. \A w \in Worker : FailAfterWrite(w) \/ Crash(w) => faults' = faults + 1
    BY DEF FailAfterWrite, Crash
  <2> QED
    BY <2>1, <2>2, <2>3
<1>2. Calm
  BY <1>1 DEF Calm
<1>3. CASE UNCHANGED vars
  BY <1>3 DEF vars, outbox, qdrant, bounds, CalmInv, Held, PlansCurrent, PlansWritten, RecordsServed,
     QuietServed, Acting, Owned, Unclaimed, ToQueue, Quiet, At
<1> QED
  BY <1>1, <1>2, <1>3, CalmPublish, CalmOutside, CalmClaim, CalmReadEligible, CalmWrite, CalmSettle,
     CalmFail, CalmTime DEF Next, DrainStep

(* Without faults an artwork without an open event is served as the        *)
(* catalog has it, between drains, and its record agrees: however          *)
(* publications, failing batches and retries fall (drain_qdrant_outbox,    *)
(* _repair_drift, _reconcile_claim).                                       *)
THEOREM CalmIndexConverges == Spec => []QuietIsServed
<1>1. Init => CalmInv
  <2> SUFFICES ASSUME Init PROVE CalmInv
    OBVIOUS
  <2>1. ~overlapped /\ ~collection /\ \A w \in Worker : drain[w].pc = "idle"
    BY DEF Init, IdleDrain
  <2>2. Held /\ PlansCurrent /\ PlansWritten
    BY <2>1, NoBatch DEF Batch
  <2>3. RecordsServed
    BY DEF Init, RecordsServed
  <2> QED
    BY <2>1, <2>2, <2>3 DEF CalmInv, At
<1>2. IInv /\ CalmInv => QuietIsServed
  BY DEF CalmInv, QuietIsServed, QuietServed, ToQueue, Resting, At
<1> QED
  BY <1>1, <1>2, CalmStep, Invariant, PTL DEF Spec
=============================================================================
