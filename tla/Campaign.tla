------------------------------ MODULE Campaign ------------------------------
(***************************************************************************)
(* A discovery campaign: DiscoveryCoordinator (artsearch/discovery/        *)
(* pipeline.py) with its hydrator and oracles (discovery/bluesky.py), the  *)
(* request budget of the client (bluesky/client.py) and the edges that     *)
(* record a creator's fan-out (discovery/repository.py).                   *)
(*                                                                         *)
(* A process runs one campaign; its jobs are coroutines of one event loop, *)
(* which change over only where they await.  The frontier's rows, leases   *)
(* and retries are in Frontier, the creators' states in Creators: here a   *)
(* batch is any of the tasks that exist.                                   *)
(*                                                                         *)
(* Abstractions.  A request the server answers counts once; its retries    *)
(* would use up the same budget sooner.  Media are numbers of candidates.  *)
(* The lock around the classifier orders jobs and changes nothing here.    *)
(***************************************************************************)
EXTENDS Naturals, FiniteSets, FiniteSetsExt

CONSTANTS
  Campaigner,     \* processes, a campaign each
  JobCount,       \* crawl.concurrency
  Did,            \* creators
  SampleTask,     \* creators with a sample task
  ExpandTask,     \* <<kind, creator>>, kind "outbound" or "suggested"
  Listed,         \* whom each expansion task's oracle lists
  Seed,           \* whom the initial source lists
  MaxFanout,      \* max_expansion_candidates_per_creator
  KindLimit,      \* max_outbound_ and max_suggested_follows_per_creator
  CreatorBudget,  \* daily_creator_budget
  MediaBudget,    \* daily_media_budget
  InitialSample, DeepSample,
  RequestBudget,  \* max_api_requests_per_run of each campaign
  TaskBudget      \* max_tasks_per_run

JobId == 1 .. JobCount

ASSUME CampaignAssumption ==
  /\ JobCount \in Nat \ {0}
  /\ IsFiniteSet(Did) /\ SampleTask \subseteq Did /\ Seed \subseteq Did
  /\ ExpandTask \subseteq {"outbound", "suggested"} \X Did
  /\ Listed \in [ExpandTask -> SUBSET Did]
  /\ MaxFanout \in Nat /\ KindLimit \in Nat /\ CreatorBudget \in Nat /\ MediaBudget \in Nat
  /\ InitialSample \in Nat \ {0} /\ DeepSample \in Nat /\ InitialSample <= DeepSample
  /\ RequestBudget \in [Campaigner -> Nat] /\ TaskBudget \in Nat

VARIABLES
  phase,       \* of each campaign
  hands,       \* of each process, what its coroutines are at
  requests,    \* BlueskyRequestBudget.used
  mediaCount,  \* _media_count
  seen,        \* _seen_dids
  profiles,    \* _profiles
  tasks,       \* tasks claimed so far
  exhausted,   \* _request_budget_exhausted
  children,    \* edges: expansion_child_dids of each creator
  contended    \* history: creators two processes have expanded at once

campaignVars == <<phase, hands, requests, mediaCount, seen, profiles, tasks, exhausted, children,
                  contended>>
counters == <<mediaCount, tasks, exhausted>>

IdleHand == [pc |-> "idle"]

CampaignInit ==
  /\ phase = [p \in Campaigner |-> "sources"]
  /\ hands = [p \in Campaigner |->
              [k \in JobId |-> IF k = 1 THEN [pc |-> "ingesting", parent |-> {}, left |-> Seed,
                                              room |-> Cardinality(Seed)]
                                        ELSE IdleHand]]
  /\ requests = [p \in Campaigner |-> 0]
  /\ mediaCount = [p \in Campaigner |-> 0]
  /\ seen = [p \in Campaigner |-> {}]
  /\ profiles = [p \in Campaigner |-> {}]
  /\ tasks = [p \in Campaigner |-> 0]
  /\ exhausted = [p \in Campaigner |-> FALSE]
  /\ children = [d \in Did |-> {}]
  /\ contended = {}

InHand(p, k, pc) == phase[p] \in {"sources", "draining"} /\ hands[p][k].pc = pc
Become(p, k, hand) == hands' = [hands EXCEPT ![p][k] = hand]
AllIdle(p) == \A k \in JobId : hands[p][k] = IdleHand

\* A request: the budget counts it, or is used up and ends the job.
Granted(p) == requests[p] < RequestBudget[p]
Request(p) == Granted(p) /\ requests' = [requests EXCEPT ![p] = @ + 1]

Refused(p, k) ==
  /\ ~Granted(p)
  /\ exhausted' = [exhausted EXCEPT ![p] = TRUE]
  /\ Become(p, k, IdleHand)
  /\ UNCHANGED <<phase, requests, mediaCount, seen, profiles, tasks, children, contended>>

-----------------------------------------------------------------------------
(* The run.                                                                *)

\* The sources are through; the frontier is next, unless the budget is gone.
SourcesDone(p) ==
  /\ phase[p] = "sources" /\ AllIdle(p)
  /\ phase' = [phase EXCEPT ![p] = IF exhausted[p] THEN "completed" ELSE "draining"]
  /\ UNCHANGED <<hands, requests, seen, profiles, counters, children, contended>>

SamplingOf(d) == [pc |-> "sampling", did |-> d]
Expanding(t) == [pc |-> "expanding", task |-> t]
Works == {SamplingOf(d) : d \in SampleTask} \union {Expanding(t) : t \in ExpandTask}

\* A batch of tasks is claimed once the one before it is through.
ClaimBatch(p) ==
  /\ phase[p] = "draining" /\ AllIdle(p) /\ ~exhausted[p] /\ tasks[p] < TaskBudget
  /\ \E n \in 1 .. Min({JobCount, TaskBudget - tasks[p]}) :
       \E batch \in [1 .. n -> Works] :
         /\ \A i, k \in 1 .. n : i # k => batch[i] # batch[k]
         /\ hands' = [hands EXCEPT ![p] = [k \in JobId |-> IF k \in 1 .. n THEN batch[k] ELSE IdleHand]]
         /\ tasks' = [tasks EXCEPT ![p] = @ + n]
  /\ UNCHANGED <<phase, requests, mediaCount, seen, profiles, exhausted, children, contended>>

\* Nothing to claim, or a budget is used up.
CampaignEnds(p) ==
  /\ phase[p] = "draining" /\ AllIdle(p)
  /\ phase' = [phase EXCEPT ![p] = "completed"]
  /\ UNCHANGED <<hands, requests, seen, profiles, counters, children, contended>>

\* An exception run does not expect: the campaign failed, its jobs are dropped.
CampaignFails(p) ==
  /\ phase[p] \in {"sources", "draining"}
  /\ phase' = [phase EXCEPT ![p] = "failed"]
  /\ hands' = [hands EXCEPT ![p] = [k \in JobId |-> IdleHand]]
  /\ UNCHANGED <<requests, seen, profiles, counters, children, contended>>

\* fail_task: a job fails and is queued again or dead.
JobFails(p, k) ==
  /\ phase[p] \in {"sources", "draining"} /\ hands[p][k] # IdleHand
  /\ Become(p, k, IdleHand)
  /\ UNCHANGED <<phase, requests, seen, profiles, counters, children, contended>>

-----------------------------------------------------------------------------
(* SamplingOf a creator's media.                                             *)

MediaLeft(p) == IF mediaCount[p] < MediaBudget THEN MediaBudget - mediaCount[p] ELSE 0

\* The budget is read; with nothing left the task is complete.
SampleBegins(p, k) ==
  /\ InHand(p, k, "sampling")
  /\ LET d == hands[p][k].did IN
     Become(p, k, IF MediaLeft(p) = 0 THEN IdleHand
                  ELSE [pc |-> IF d \in profiles[p] THEN "listing" ELSE "profiling", did |-> d,
                        had |-> 0, want |-> Min({InitialSample, MediaLeft(p)})])
  /\ UNCHANGED <<phase, requests, seen, profiles, counters, children, contended>>

SampleProfiles(p, k) ==
  /\ InHand(p, k, "profiling")
  /\ \/ Refused(p, k)
     \/ /\ Request(p)
        /\ Become(p, k, [hands[p][k] EXCEPT !.pc = "listing"])
        /\ UNCHANGED <<phase, seen, profiles, counters, children, contended>>

\* The author's feed, for at most `want` candidates it does not have yet.
ListMedia(p, k) ==
  /\ InHand(p, k, "listing")
  /\ \/ Refused(p, k)
     \/ /\ Request(p)
        /\ \E found \in 0 .. hands[p][k].want :
             Become(p, k, [pc |-> "listed", did |-> hands[p][k].did, had |-> hands[p][k].had,
                           found |-> found])
        /\ UNCHANGED <<phase, seen, profiles, counters, children, contended>>

\* Mutant: the limit read before the requests is trusted.
ReservedUnchecked(p, found) == found
Reserved(p, found) == Min({found, MediaLeft(p)})

\* The budget is reserved and the candidates classified.  A creator that
\* qualifies on its first sample is sampled more deeply.
ReserveMedia(p, k) ==
  /\ InHand(p, k, "listed")
  /\ LET taken == Reserved(p, hands[p][k].found)
         first == hands[p][k].had = 0
     IN /\ mediaCount' = [mediaCount EXCEPT ![p] = @ + taken]
        /\ \/ Become(p, k, IdleHand)
           \/ /\ first /\ taken > 0 /\ DeepSample > InitialSample
              /\ Become(p, k, [pc |-> "listing", did |-> hands[p][k].did, had |-> taken,
                               want |-> DeepSample])
  /\ UNCHANGED <<phase, requests, seen, profiles, tasks, exhausted, children, contended>>

-----------------------------------------------------------------------------
(* Expanding a creator.                                                    *)

Holds(q, i, d) == hands[q][i].pc \in {"asking", "ingesting"} /\ hands[q][i].parent = {d}

\* Mutant: no lock, or one for each task instead of one for each creator.
LockPerTask(p, d) == TRUE
ExpansionLockFree(p, d) == \A i \in JobId : ~Holds(p, i, d)

\* Under the creator's lock: what its fan-out has left decides how many
\* suggestions are taken.
ExpandBegins(p, k) ==
  /\ InHand(p, k, "expanding")
  /\ LET t    == hands[p][k].task
         d    == t[2]
         left == MaxFanout - Cardinality(children[d])
     IN /\ ExpansionLockFree(p, d)
        /\ IF Cardinality(children[d]) >= MaxFanout
           THEN Become(p, k, IdleHand) /\ UNCHANGED contended
           ELSE /\ Become(p, k, [pc |-> "asking", parent |-> {d}, list |-> Listed[t],
                                 room |-> Min({KindLimit, left})])
                /\ contended' = contended \union
                     {e \in {d} : \E q \in Campaigner \ {p}, i \in JobId : Holds(q, i, d)}
  /\ UNCHANGED <<phase, requests, seen, profiles, counters, children>>

AskOracle(p, k) ==
  /\ InHand(p, k, "asking")
  /\ \/ Refused(p, k)
     \/ /\ Request(p)
        /\ Become(p, k, [pc |-> "ingesting", parent |-> hands[p][k].parent,
                         left |-> hands[p][k].list, room |-> hands[p][k].room])
        /\ UNCHANGED <<phase, seen, profiles, counters, children, contended>>

\* A suggestion is consumed, whatever comes of it.
Consume(p, k, d) == Become(p, k, [hands[p][k] EXCEPT !.left = @ \ {d}, !.room = @ - 1])

\* The creator budget, and the edge to the creator's parent.  A suggestion over
\* the budget is dropped.
Record(p, k, d) ==
  /\ Consume(p, k, d)
  /\ \/ /\ d \in seen[p] \/ Cardinality(seen[p]) < CreatorBudget
        /\ seen' = [seen EXCEPT ![p] = @ \union {d}]
        /\ profiles' = [profiles EXCEPT ![p] = @ \union {d}]
        /\ children' = [e \in Did |-> IF hands[p][k].parent = {e} THEN children[e] \union {d}
                                      ELSE children[e]]
     \/ /\ d \notin seen[p] /\ Cardinality(seen[p]) >= CreatorBudget
        /\ UNCHANGED <<seen, profiles, children>>

\* Its profile comes first, from the cache or by a request; without one the
\* suggestion is dropped.
Ingest(p, k) ==
  /\ InHand(p, k, "ingesting")
  /\ hands[p][k].room > 0
  /\ \E d \in hands[p][k].left :
       \/ /\ d \in profiles[p]
          /\ Record(p, k, d)
          /\ UNCHANGED <<phase, requests, counters, contended>>
       \/ /\ d \notin profiles[p]
          /\ Request(p)
          /\ \/ Record(p, k, d)
             \/ Consume(p, k, d) /\ UNCHANGED <<seen, profiles, children>>
          /\ UNCHANGED <<phase, counters, contended>>
       \/ /\ d \notin profiles[p]
          /\ Refused(p, k)

\* The list is through, or the limit is reached.
Ingested(p, k) ==
  /\ InHand(p, k, "ingesting")
  /\ hands[p][k].room = 0 \/ hands[p][k].left = {}
  /\ Become(p, k, IdleHand)
  /\ UNCHANGED <<phase, requests, seen, profiles, counters, children, contended>>

CampaignNext ==
  \E p \in Campaigner :
    \/ SourcesDone(p) \/ ClaimBatch(p) \/ CampaignEnds(p) \/ CampaignFails(p)
    \/ \E k \in JobId :
         \/ JobFails(p, k) \/ SampleBegins(p, k) \/ SampleProfiles(p, k) \/ ListMedia(p, k)
         \/ ReserveMedia(p, k) \/ ExpandBegins(p, k) \/ AskOracle(p, k) \/ Ingest(p, k)
         \/ Ingested(p, k)

CampaignSpec == CampaignInit /\ [][CampaignNext]_campaignVars

-----------------------------------------------------------------------------
(* Properties.                                                             *)

CampaignTypeOK ==
  /\ phase \in [Campaigner -> {"sources", "draining", "completed", "failed"}]
  /\ \A p \in Campaigner :
       /\ requests[p] \in 0 .. RequestBudget[p] /\ mediaCount[p] \in Nat
       /\ seen[p] \subseteq Did /\ profiles[p] \subseteq seen[p]
       /\ Cardinality(seen[p]) <= CreatorBudget
       /\ tasks[p] \in 0 .. TaskBudget /\ exhausted[p] \in BOOLEAN
       /\ \A k \in JobId : hands[p][k].pc \in {"idle", "sampling", "profiling", "listing", "listed",
                                             "expanding", "asking", "ingesting"}
  /\ children \in [Did -> SUBSET Did] /\ contended \subseteq Did

\* The coroutines of a campaign never classify more media than its budget,
\* although each reads what is left of it, awaits requests, and takes its
\* share later.
MediaWithinBudget == \A p \in Campaigner : mediaCount[p] <= MediaBudget

\* The follows and the suggestions of a creator, expanded by tasks of their
\* own, together never attach more creators to it than the fan-out limit,
\* over all the campaigns there were.  The lock that sees to it lives in one
\* process: two that expand a creator at once may pass the limit.
FanoutWithinLimit == \A d \in Did \ contended : Cardinality(children[d]) <= MaxFanout
=============================================================================
