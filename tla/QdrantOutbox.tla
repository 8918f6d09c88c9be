---------------------------- MODULE QdrantOutbox ----------------------------
(***************************************************************************)
(* Publication of the PostgreSQL catalog to the Qdrant serving index       *)
(* through the transactional outbox: publish_sqlite_snapshot               *)
(* (artsearch/postgres/migration.py) commits catalog rows together with    *)
(* their reconcile events, and drain_qdrant_outbox                         *)
(* (artsearch/postgres/qdrant_outbox.py, with OutboxRepository of          *)
(* repositories.py) brings Qdrant up to date afterwards.                   *)
(*                                                                         *)
(* A drain is one pass of drain_qdrant_outbox by a worker; each of its     *)
(* transactions and each of its calls to Qdrant is one action, and         *)
(* publications, other drains and crashes come between them.               *)
(*                                                                         *)
(* Abstractions.  What the eligibility query and _point_from_mapping make  *)
(* of an artwork's rows is its content: Absent when it is not eligible,    *)
(* else the version whose hash is stored.  Of the times compared with      *)
(* now() the model keeps the outcome: a pending event is delayed           *)
(* (available_at in the future) or not, the lock of a processing one is    *)
(* stale or not.  The open events are a set of records: events that agree  *)
(* in every column are one, a published event leaves the set, and of a dead*)
(* one its artwork is kept.  A page of the catalog is one artwork; the     *)
(* final sweep compares and deletes in one step.                           *)
(***************************************************************************)
EXTENDS Naturals, FiniteSets

CONSTANTS
  Artwork,       \* catalog artworks
  Version,       \* contents an eligible artwork can have
  Absent,        \* no point, no row, or an ineligible artwork
  Keep,          \* a drain's plan to leave an artwork as it is
  Worker,        \* drain workers
  NoWorker,      \* locked_by IS NULL
  BatchSize,     \* postgres.outbox_batch_size
  MaxTries,      \* max_attempts of mark_failed
  MaxChanges,    \* bound on publications
  MaxFaults      \* bound on crashes, lost replies and overlapping drains

ASSUME SentinelAssumption ==
  /\ Absent \notin Version
  /\ Keep \notin Version \union {Absent}
  /\ NoWorker \notin Worker

ASSUME BoundAssumption ==
  /\ IsFiniteSet(Artwork)
  /\ BatchSize \in Nat \ {0}
  /\ MaxTries \in Nat \ {0}
  /\ MaxChanges \in Nat
  /\ MaxFaults \in Nat

Content == Version \union {Absent}

\* "delayed" is pending and not yet available, "stale" is processing with an old lock.
Status == {"pending", "delayed", "processing", "stale"}
Event == [art : Artwork, tries : Nat, status : Status, owner : Worker \union {NoWorker}]
Locked == {"processing", "stale"}

Pc == {"idle", "counted", "clearing", "queueing", "releasing", "claiming", "claimed",
       "upserting", "deleting", "settling", "promoting", "sweeping"}

VARIABLES
  content,     \* content[a]: what PostgreSQL says should be served
  events,      \* open events
  dead,        \* artworks of events given up
  indexed,     \* indexed[a]: content hash in vector_index_points
  collection,  \* the physical collection exists
  remote,      \* remote[a]: content of the point in the collection
  alias,       \* the read alias names this collection
  drain,       \* drain[w]: the local state of a worker's drain
  changes,     \* publications so far
  faults,      \* faults so far
  overlapped   \* two drains have run at the same time

outbox == <<events, dead>>
qdrant == <<collection, remote, alias>>
bounds == <<changes, faults, overlapped>>
vars == <<content, outbox, indexed, qdrant, drain, bounds>>

NoPlan == [a \in Artwork |-> Keep]

IdleDrain ==
  [pc |-> "idle", mine |-> {}, plan |-> NoPlan, todo |-> {}, count |-> 0,
   created |-> FALSE, claimed |-> FALSE]

DrainState ==
  [pc : Pc, mine : SUBSET (Artwork \X Nat), plan : [Artwork -> Content \union {Keep}],
   todo : SUBSET Artwork, count : 0 .. Cardinality(Artwork),
   created : BOOLEAN, claimed : BOOLEAN]

TypeOK ==
  /\ content \in [Artwork -> Content]
  /\ events \subseteq Event
  /\ dead \subseteq Artwork
  /\ indexed \in [Artwork -> Content]
  /\ collection \in BOOLEAN
  /\ remote \in [Artwork -> Content]
  /\ alias \in BOOLEAN
  /\ drain \in [Worker -> DrainState]
  /\ changes \in 0 .. MaxChanges
  /\ faults \in 0 .. MaxFaults
  /\ overlapped \in BOOLEAN

\* A catalog published under an earlier collection version; the configured
\* collection does not exist yet.
Init ==
  /\ content \in [Artwork -> Content]
  /\ events = {}
  /\ dead = {}
  /\ indexed = [a \in Artwork |-> Absent]
  /\ collection = FALSE
  /\ remote = [a \in Artwork |-> Absent]
  /\ alias = FALSE
  /\ drain = [w \in Worker |-> IdleDrain]
  /\ changes = 0
  /\ faults = 0
  /\ overlapped = FALSE

Points == {a \in Artwork : remote[a] # Absent}
Recorded == {a \in Artwork : indexed[a] # Absent}

NewEvent(a) == [art |-> a, tries |-> 0, status |-> "pending", owner |-> NoWorker]

(* A publication: an artwork's rows and its reconcile event, in one        *)
(* transaction.                                                            *)
Publish(a, v) ==
  /\ changes < MaxChanges
  /\ v # content[a]
  /\ content' = [content EXCEPT ![a] = v]
  /\ events' = events \union {NewEvent(a)}
  /\ changes' = changes + 1
  /\ UNCHANGED <<dead, indexed, qdrant, drain, faults, overlapped>>

-----------------------------------------------------------------------------
(* A drain, up to its claims.                                              *)

At(w, pc) == drain[w].pc = pc
Goto(w, pc) == drain' = [drain EXCEPT ![w].pc = pc]
Alone(w) == \A x \in Worker \ {w} : At(x, "idle")

\* ensure_qdrant_collection, then the exact count.
Start(w) ==
  /\ At(w, "idle")
  /\ Alone(w) \/ faults < MaxFaults
  /\ faults' = IF Alone(w) THEN faults ELSE faults + 1
  /\ overlapped' = (overlapped \/ ~Alone(w))
  /\ collection' = TRUE
  /\ drain' = [drain EXCEPT ![w] =
                 [IdleDrain EXCEPT !.pc = "counted", !.created = ~collection,
                                   !.count = Cardinality(Points)]]
  /\ UNCHANGED <<content, outbox, indexed, remote, alias, changes>>

\* Mutant: a freshly created collection is not reconciled.
DriftIgnoringCreation(w) == drain[w].count # Cardinality(Recorded)

Drift(w) == drain[w].created \/ drain[w].count # Cardinality(Recorded)

CompareCounts(w) ==
  /\ At(w, "counted")
  /\ drain' = [drain EXCEPT ![w] =
                 [IdleDrain EXCEPT !.pc = IF Drift(w) THEN "clearing" ELSE "releasing"]]
  /\ UNCHANGED <<content, outbox, indexed, qdrant, bounds>>

\* On drift the recorded state is dropped ...
ClearState(w) ==
  /\ At(w, "clearing")
  /\ indexed' = [a \in Artwork |-> Absent]
  /\ drain' = [drain EXCEPT ![w].pc = "queueing", ![w].todo = Artwork]
  /\ UNCHANGED <<content, outbox, qdrant, bounds>>

\* ... and every artwork queued, a page of the catalog per transaction.
QueuePage(w) ==
  /\ At(w, "queueing")
  /\ \E a \in drain[w].todo :
       /\ events' = events \union {NewEvent(a)}
       /\ drain' = [drain EXCEPT ![w].todo = @ \ {a},
                                 ![w].pc = IF drain[w].todo = {a} THEN "releasing" ELSE @]
  /\ UNCHANGED <<content, dead, indexed, qdrant, bounds>>

\* Mutant: an event released from its lock is lost.
UnlockedLost(e) == [e EXCEPT !.status = "processing"]

Unlocked(e) == [e EXCEPT !.status = "pending", !.owner = NoWorker]

ReleaseStale(w) ==
  /\ At(w, "releasing")
  /\ events' = {IF e.status = "stale" THEN Unlocked(e) ELSE e : e \in events}
  /\ Goto(w, "claiming")
  /\ UNCHANGED <<content, dead, indexed, qdrant, bounds>>

-----------------------------------------------------------------------------
(* The claim loop.                                                         *)

Claimable == {e \in events : e.status = "pending"}

ClaimedBy(w, e) == [e EXCEPT !.status = "processing", !.owner = w, !.tries = @ + 1]

Claim(w, S) ==
  /\ At(w, "claiming")
  /\ S # {} /\ Cardinality(S) <= BatchSize
  /\ events' = (events \ S) \union {ClaimedBy(w, e) : e \in S}
  /\ drain' = [drain EXCEPT ![w].pc = "claimed", ![w].claimed = TRUE,
                            ![w].mine = {<<e.art, e.tries + 1>> : e \in S}]
  /\ UNCHANGED <<content, dead, indexed, qdrant, bounds>>

ClaimNothing(w) ==
  /\ At(w, "claiming")
  /\ Claimable = {}
  /\ Goto(w, "promoting")
  /\ UNCHANGED <<content, outbox, indexed, qdrant, bounds>>

\* Mutant: an ineligible artwork is left alone.
PlannedUpsertsOnly(a) == IF content[a] \in {indexed[a], Absent} THEN Keep ELSE content[a]

\* An ineligible artwork is deleted, one with an unchanged hash is left alone.
Planned(a) ==
  IF content[a] = Absent THEN Absent
  ELSE IF content[a] = indexed[a] THEN Keep ELSE content[a]

ReadEligible(w) ==
  /\ At(w, "claimed")
  /\ drain' = [drain EXCEPT ![w].pc = "upserting",
                 ![w].plan = [a \in Artwork |->
                   IF \E m \in drain[w].mine : m[1] = a THEN Planned(a) ELSE Keep]]
  /\ UNCHANGED <<content, outbox, indexed, qdrant, bounds>>

Upserted(w) ==
  [a \in Artwork |-> IF drain[w].plan[a] \in Version THEN drain[w].plan[a] ELSE remote[a]]

Upsert(w) ==
  /\ At(w, "upserting")
  /\ remote' = Upserted(w)
  /\ Goto(w, "deleting")
  /\ UNCHANGED <<content, outbox, indexed, collection, alias, bounds>>

Delete(w) ==
  /\ At(w, "deleting")
  /\ remote' = [a \in Artwork |-> IF drain[w].plan[a] = Absent THEN Absent ELSE remote[a]]
  /\ Goto(w, "settling")
  /\ UNCHANGED <<content, outbox, indexed, collection, alias, bounds>>

\* The claimed events that are still locked by this worker.
Owned(w) ==
  {e \in events : e.status \in Locked /\ e.owner = w /\ <<e.art, e.tries>> \in drain[w].mine}

StillOwned(w) == \A m \in drain[w].mine : \E e \in Owned(w) : e.art = m[1]

RecordedBy(w) ==
  [a \in Artwork |-> IF drain[w].plan[a] = Keep THEN indexed[a] ELSE drain[w].plan[a]]

\* One transaction: the recorded state and all the events, or nothing.
Settle(w) ==
  /\ At(w, "settling")
  /\ StillOwned(w)
  /\ indexed' = RecordedBy(w)
  /\ events' = events \ Owned(w)
  /\ drain' = [drain EXCEPT ![w].pc = "claiming", ![w].mine = {}, ![w].plan = NoPlan]
  /\ UNCHANGED <<content, dead, qdrant, bounds>>

Exhausted(e) == e.tries >= MaxTries

\* The batch raised: mark_failed for each event still owned, and the drain ends.
FailBatch(w) ==
  LET given_up == {e \in Owned(w) : Exhausted(e)}
      retried == Owned(w) \ given_up
  IN  /\ events' = (events \ Owned(w)) \union
                      {[e EXCEPT !.status = "delayed", !.owner = NoWorker] : e \in retried}
      /\ dead' = dead \union {e.art : e \in given_up}
      /\ drain' = [drain EXCEPT ![w] = IdleDrain]
      /\ UNCHANGED <<content, indexed, collection, alias, changes, overlapped>>

\* A row, a payload or a call that fails before any remote write; a settlement
\* that lost ownership.
Fail(w) ==
  /\ \/ At(w, "claimed") \/ At(w, "upserting")
     \/ At(w, "settling") /\ ~StillOwned(w)
  /\ FailBatch(w)
  /\ UNCHANGED <<remote, faults>>

\* A Qdrant write takes effect and its reply is lost, or the deletion fails
\* after the upsert, or the settlement transaction fails.
FailAfterWrite(w) ==
  /\ faults < MaxFaults
  /\ \/ At(w, "upserting") /\ remote' = Upserted(w)
     \/ At(w, "deleting") /\ UNCHANGED remote
     \/ At(w, "settling") /\ UNCHANGED remote
  /\ FailBatch(w)
  /\ faults' = faults + 1

-----------------------------------------------------------------------------
(* The end of a drain.                                                     *)

\* --max-events reached: the alias moves, and nothing is swept.
EndEarly(w) ==
  /\ At(w, "claiming")
  /\ drain[w].claimed
  /\ alias' = TRUE
  /\ drain' = [drain EXCEPT ![w] = IdleDrain]
  /\ UNCHANGED <<content, outbox, indexed, collection, remote, bounds>>

\* The alias moves if anything was claimed; then both sides are counted.
Promote(w) ==
  /\ At(w, "promoting")
  /\ alias' = (alias \/ drain[w].claimed)
  /\ drain' = [drain EXCEPT ![w].pc = "sweeping", ![w].count = Cardinality(Points)]
  /\ UNCHANGED <<content, outbox, indexed, collection, remote, bounds>>

\* _reconcile_untracked_remote: equal counts end the drain, else the points
\* without a record go.
Sweep(w) ==
  /\ At(w, "sweeping")
  /\ remote' = IF drain[w].count = Cardinality(Recorded) THEN remote
               ELSE [a \in Artwork |-> IF a \in Recorded THEN remote[a] ELSE Absent]
  /\ drain' = [drain EXCEPT ![w] = IdleDrain]
  /\ UNCHANGED <<content, outbox, indexed, collection, alias, bounds>>

-----------------------------------------------------------------------------
(* Time and crashes.                                                       *)

BecomeAvailable(e) ==
  /\ e.status = "delayed"
  /\ events' = (events \ {e}) \union {[e EXCEPT !.status = "pending"]}
  /\ UNCHANGED <<content, dead, indexed, qdrant, drain, bounds>>

InHand(e) == e.owner \in Worker /\ <<e.art, e.tries>> \in drain[e.owner].mine

\* A lock outlives its drain; a running drain is assumed to be faster, or its
\* delay counts as a fault.
GrowStale(e) ==
  /\ e.status = "processing"
  /\ InHand(e) => faults < MaxFaults
  /\ faults' = IF InHand(e) THEN faults + 1 ELSE faults
  /\ events' = (events \ {e}) \union {[e EXCEPT !.status = "stale"]}
  /\ UNCHANGED <<content, dead, indexed, qdrant, drain, changes, overlapped>>

Crash(w) ==
  /\ faults < MaxFaults
  /\ ~At(w, "idle")
  /\ faults' = faults + 1
  /\ drain' = [drain EXCEPT ![w] = IdleDrain]
  /\ UNCHANGED <<content, outbox, indexed, qdrant, changes, overlapped>>

-----------------------------------------------------------------------------
DrainStep(w) ==
  \/ CompareCounts(w)
  \/ ClearState(w)
  \/ QueuePage(w)
  \/ ReleaseStale(w)
  \/ \E S \in SUBSET Claimable : Claim(w, S)
  \/ ClaimNothing(w)
  \/ ReadEligible(w)
  \/ Upsert(w)
  \/ Delete(w)
  \/ Settle(w)
  \/ Fail(w)
  \/ EndEarly(w)
  \/ Promote(w)
  \/ Sweep(w)

Next ==
  \/ \E a \in Artwork, v \in Content : Publish(a, v)
  \/ \E w \in Worker : Start(w)
  \/ \E w \in Worker : DrainStep(w)
  \/ \E w \in Worker : FailAfterWrite(w)
  \/ \E e \in events : BecomeAvailable(e)
  \/ \E e \in events : GrowStale(e)
  \/ \E w \in Worker : Crash(w)

(* Drains are scheduled again and again and each runs to its end; delays   *)
(* elapse and abandoned locks grow stale.                                  *)
Fairness ==
  /\ \A w \in Worker : WF_vars(Start(w)) /\ WF_vars(DrainStep(w))
  /\ WF_vars(\E e \in events : BecomeAvailable(e))
  /\ WF_vars(\E e \in events : ~InHand(e) /\ GrowStale(e))

Spec == Init /\ [][Next]_vars
FairSpec == Spec /\ Fairness

-----------------------------------------------------------------------------
(* Properties.                                                             *)

\* No event of a is waiting or in hand, nor was given up.
Quiet(a) == a \notin dead /\ \A e \in events : e.art # a

Resting == \A w \in Worker : At(w, "idle")

(* Without faults the index converges: between drains, an artwork without  *)
(* an open event is served with exactly the content the catalog has, and   *)
(* its record agrees, whatever was published during the drains and however *)
(* often batches failed and were retried.                                  *)
QuietIsServed ==
  collection /\ faults = 0 /\ Resting
    => \A a \in Artwork : Quiet(a) => remote[a] = content[a] /\ indexed[a] = content[a]

(* A takedown is honoured through crashes and lost replies: as long as     *)
(* drains have not overlapped, an artwork that is no longer eligible and   *)
(* has no open event is not served.                                        *)
TakedownHonoured ==
  ~overlapped /\ Resting
    => \A a \in Artwork : Quiet(a) /\ content[a] = Absent => remote[a] = Absent

(* A drain whose events were released and claimed again settles none of    *)
(* them, nor does it fail them: an event leaves its lock while in hand only*)
(* by a step of the drain that holds it, or when its lock is stale.        *)
LocksRespected ==
  [][\A e \in events :
       e.status = "processing" /\ InHand(e) /\ e \notin events'
         => \/ drain'[e.owner] # drain[e.owner]
            \/ [e EXCEPT !.status = "stale"] \in events']_vars

(* Once batches stop failing, the outbox empties: events released from     *)
(* stale locks and events waiting for a retry included.                    *)
OutboxDrains ==
  <>[][\A w \in Worker : ~Fail(w)]_vars => []<>(events = {})

(* postgresql_control_plane.md, "a crash after the Qdrant write produces a *)
(* harmless repeat": as long as drains have not overlapped, what is served *)
(* of an artwork without an open event is its current content.  The code   *)
(* does not keep this when the artwork returns to its recorded content     *)
(* between the crash and the repeat, which then finds the hash unchanged.  *)
CrashIsHarmless ==
  alias /\ Resting /\ ~overlapped
    => \A a \in Artwork :
         Quiet(a) /\ content[a] # Absent /\ remote[a] # Absent => remote[a] = content[a]

=============================================================================
