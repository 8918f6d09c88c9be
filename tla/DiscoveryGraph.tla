-------------------------- MODULE DiscoveryGraph ---------------------------
(* The discovery graph in PostgreSQL (discovery/repository.py): the          *)
(* provenance campaigns write while their frontier moves, and what coverage  *)
(* snapshots, the dashboards and the corpus map read of it.                  *)
(*                                                                           *)
(* A process (a campaign run, or the operations application) runs one        *)
(* transaction at a time: the repository's calls are synchronous. A writing  *)
(* transaction takes its rows statement by statement, in the order of the    *)
(* code, and waits where another one holds the row; what it writes shows     *)
(* when it commits. The rows of a waiting transaction stay locked, so that   *)
(* two of them may wait for each other: PostgreSQL ends one, whose error no  *)
(* handler of the campaign names. Reports read table after table, each       *)
(* statement what is committed by then. What happens to the state of a       *)
(* creator is in Creators; here it only waits for review or does not.        *)
EXTENDS Integers, FiniteSets, SequencesExt

CONSTANTS
  Process,     \* campaign runs and dashboards
  Did,         \* creators
  Ref,         \* queries, packs and seed lists a suggestion came from
  Suggestion,  \* [campaign, parent, did, edge, depth]: an account one oracle found
  Feeds,       \* creator -> the samples of its feed, sequences of
               \* [image, post, cid, quoted], quoted possibly `nobody`
  nobody,
  MaxWork,     \* bound: transactions begun
  MaxMishaps   \* bound: failures of a process

\* The edges a sampled image stands for; a suggestion has one of the others
\* (GraphEdgeType).
ImageEdge == {"authored", "attached_media", "quoted"}
ASSUME SuggestionAssumption ==
  \A s \in Suggestion :
    s.parent \in Did \union Ref /\ s.did \in Did /\ s.depth \in Nat /\ s.edge \notin ImageEdge

Shots == UNION {ToSet(f) : f \in UNION {Feeds[d] : d \in Did}}
ASSUME FeedsAssumption == \A d \in Did : Feeds[d] \subseteq Seq(Shots)
CreatorRow == [depth : Nat, count : Nat]
ASSUME NobodyAssumption == nobody \notin Nat \union CreatorRow
ASSUME BoundsAssumption == MaxWork \in Nat /\ MaxMishaps \in Nat

Authored(d, shot) == <<d, shot.post, "authored">>
Attached(shot) == <<shot.post, shot.image, "attached_media">>
Quoted(d, shot) == <<d, shot.quoted, "quoted">>
EdgeOf(s) == <<s.parent, s.did, s.edge>>

\* The edges of one sampled image: a creator that quotes itself has none to itself.
EdgesOfShot(d, shot) ==
  {Authored(d, shot), Attached(shot)} \union
  IF shot.quoted \in Did \ {d} THEN {Quoted(d, shot)} ELSE {}

Edge ==
  {EdgeOf(s) : s \in Suggestion} \union
  UNION {EdgesOfShot(d, shot) : d \in Did, shot \in Shots}
Entity ==
  Did \union Ref \union {shot.post : shot \in Shots} \union {shot.image : shot \in Shots}

VARIABLES
  creators,      \* did -> nobody, or the depth and the count of its row
  depths,        \* entity -> nobody, or the minimum depth of its row
  observations,  \* the rows of the observations: [key, depth, run]
  evidence,      \* the rows of the edges' evidence: <<edge, reference>>
  support,       \* edge -> its support count, 0 while it has no row
  media,         \* image -> nobody, or the version its row was sampled at
  told,          \* did -> the events that say it was discovered
  unreviewed,    \* the creators that need a review
  due,           \* process -> the creators it sampled and has yet to score
  run,           \* process -> how many runs failed before this one
  tx,            \* process -> its open transaction, or nobody
  report,        \* the last report finished, or nobody
  begun          \* how many transactions were begun

graphVars ==
  <<creators, depths, observations, evidence, support, media, told, unreviewed, due, run,
    tx, report, begun>>

GraphInit ==
  /\ creators = [d \in Did |-> nobody]
  /\ depths = [x \in Entity |-> nobody]
  /\ observations = {} /\ evidence = {}
  /\ support = [e \in Edge |-> 0]
  /\ media = [i \in {shot.image : shot \in Shots} |-> nobody]
  /\ told = [d \in Did |-> 0]
  /\ unreviewed = {}
  /\ due = [p \in Process |-> {}] /\ run = [p \in Process |-> 0]
  /\ tx = [p \in Process |-> nobody]
  /\ report = nobody /\ begun = 0

-----------------------------------------------------------------------------
\* An observation is known by where it was made, and neither by the run that
\* made it nor by its depth.
KeyOf(s) == [campaign |-> s.campaign, parent |-> s.parent, did |-> s.did, edge |-> s.edge]
\* Mutant: each run counts for itself.
ReplayedInRun(s, r) == \E o \in observations : o.key = KeyOf(s) /\ o.run = r
Replayed(s, r) == \E o \in observations : o.key = KeyOf(s)

\* The rows a writing transaction locks, in the order of its statements. A
\* replayed suggestion ends at its observation.
RowsOfShot(d, shot) ==
  <<<<"entity", shot.post>>, <<"entity", shot.image>>, <<"edge", Authored(d, shot)>>>> \o
  (IF shot.quoted \in Did \ {d}
     THEN <<<<"entity", shot.quoted>>, <<"edge", Quoted(d, shot)>>>> ELSE <<>>) \o
  <<<<"edge", Attached(shot)>>, <<"media", shot.image>>>>

RowsOf(t) ==
  CASE t.kind = "suggest" ->
         <<<<"source", t.of.campaign, t.of.parent>>, <<"entity", t.of.parent>>,
           <<"entity", t.of.did>>, <<"creator", t.of.did>>>> \o
         (IF Replayed(t.of, t.run) \/ t.of.parent = t.of.did
            THEN <<>> ELSE <<<<"edge", EdgeOf(t.of)>>>>)
    [] t.kind = "hydrate" -> <<<<"creator", t.of>>>>
    [] t.kind = "sample" ->
         FlattenSeq([i \in DOMAIN t.feed |-> RowsOfShot(t.of, t.feed[i])]) \o
         <<<<"creator", t.of>>>>
    [] t.kind = "profile" -> <<<<"creator", t.of>>, <<"entity", t.of>>>>

Writing(p) == tx[p] # nobody /\ tx[p].kind \in {"suggest", "hydrate", "sample", "profile"}
Locked(p) == IF Writing(p) THEN {RowsOf(tx[p])[i] : i \in 1..tx[p].at} ELSE {}
HasMore(p) == Writing(p) /\ tx[p].at < Len(RowsOf(tx[p]))
WaitsFor(p, q) == q # p /\ HasMore(p) /\ RowsOf(tx[p])[tx[p].at + 1] \in Locked(q)

Opened(kind, of, p) == [kind |-> kind, of |-> of, run |-> <<p, run[p]>>, at |-> 0]
Begin(p, t) ==
  /\ tx[p] = nobody /\ begun < MaxWork
  /\ tx' = [tx EXCEPT ![p] = t]
  /\ begun' = begun + 1

Statement(p) ==
  /\ HasMore(p)
  /\ \A q \in Process : ~WaitsFor(p, q)
  /\ tx' = [tx EXCEPT ![p].at = @ + 1]
  /\ UNCHANGED <<creators, depths, observations, evidence, support, media, told, unreviewed,
                 due, run, report, begun>>

-----------------------------------------------------------------------------
Shallower(old, depth) == IF old = nobody \/ depth < old THEN depth ELSE old
DepthsUpserted(xs, depth) ==
  depths' = [x \in Entity |-> IF x \in xs THEN Shallower(depths[x], depth) ELSE depths[x]]
\* Evidence that is there already adds no support.
Supported(rows) ==
  /\ evidence' = evidence \union rows
  /\ support' = [e \in Edge |-> support[e] + Cardinality({r \in rows \ evidence : r[1] = e})]

\* An expansion is of a creator the graph knows. Whether the account itself
\* is known is read before anything is locked.
BeginSuggestion(p) ==
  \E s \in Suggestion :
    /\ s.parent \in Did => creators[s.parent] # nobody
    /\ Begin(p, [kind |-> "suggest", of |-> s, run |-> <<p, run[p]>>, at |-> 0,
                 known |-> creators[s.did] # nobody])
    /\ UNCHANGED <<creators, depths, observations, evidence, support, media, told,
                   unreviewed, due, run, report>>

\* record_suggestion commits; the same call of the campaign hydrates the
\* creator in a transaction of its own.
CommitSuggestion(p) ==
  /\ Writing(p) /\ tx[p].kind = "suggest" /\ ~HasMore(p)
  /\ LET s == tx[p].of
         new == ~Replayed(s, tx[p].run)
         old == creators[s.did]
         n == IF new THEN 1 ELSE 0
         row == [key |-> KeyOf(s), depth |-> s.depth, run |-> tx[p].run]
     IN /\ creators' = [creators EXCEPT ![s.did] =
             IF old = nobody THEN [depth |-> s.depth, count |-> n]
             ELSE [depth |-> Shallower(old.depth, s.depth), count |-> old.count + n]]
        /\ DepthsUpserted({s.parent, s.did}, s.depth)
        /\ observations' = observations \union IF new THEN {row} ELSE {}
        /\ Supported(IF new /\ s.parent # s.did THEN {<<EdgeOf(s), row>>} ELSE {})
        /\ told' = [told EXCEPT ![s.did] = IF new /\ ~tx[p].known THEN @ + 1 ELSE @]
        /\ tx' = [tx EXCEPT ![p] = Opened("hydrate", s.did, p)]
  /\ UNCHANGED <<media, unreviewed, due, run, report, begun>>

\* hydrate_creator writes the creator at depth 0. A blocked one no longer
\* waits for review.
CommitHydration(p) ==
  /\ Writing(p) /\ tx[p].kind = "hydrate" /\ ~HasMore(p)
  /\ LET d == tx[p].of IN
       /\ creators' = [creators EXCEPT ![d].depth = Shallower(@, 0)]
       /\ unreviewed' \in {unreviewed, unreviewed \ {d}}
  /\ tx' = [tx EXCEPT ![p] = nobody]
  /\ UNCHANGED <<depths, observations, evidence, support, media, told, due, run, report,
                 begun>>

BeginSample(p) ==
  \E d \in Did : \E f \in Feeds[d] :
    /\ creators[d] # nobody
    /\ Begin(p, [kind |-> "sample", of |-> d, run |-> <<p, run[p]>>, at |-> 0, feed |-> f])
    /\ UNCHANGED <<creators, depths, observations, evidence, support, media, told,
                   unreviewed, due, run, report>>

\* record_media_results commits. The version of the post is part of what an
\* edge is supported by.
EvidenceOfShot(d, shot) == EdgesOfShot(d, shot) \X {<<shot.image, shot.cid>>}
MediaOf(feed) ==
  FoldSeq(LAMBDA shot, rows : [rows EXCEPT ![shot.image] = shot.cid], media, feed)
CommitSample(p) ==
  /\ Writing(p) /\ tx[p].kind = "sample" /\ ~HasMore(p)
  /\ LET d == tx[p].of
         shots == ToSet(tx[p].feed)
         refs == UNION {{shot.post, shot.image, shot.quoted} : shot \in shots} \ {d, nobody}
     IN /\ DepthsUpserted(refs, 0)
        /\ Supported(UNION {EvidenceOfShot(d, shot) : shot \in shots})
        /\ media' = MediaOf(tx[p].feed)
        /\ due' = [due EXCEPT ![p] = @ \union {d}]
  /\ tx' = [tx EXCEPT ![p] = nobody]
  /\ UNCHANGED <<creators, observations, told, unreviewed, run, report, begun>>

BeginProfile(p) ==
  \E d \in due[p] :
    /\ Begin(p, Opened("profile", d, p))
    /\ UNCHANGED <<creators, depths, observations, evidence, support, media, told,
                   unreviewed, due, run, report>>

\* record_creator_profile: the row of the creator, then the one of its entity.
CommitProfile(p) ==
  /\ Writing(p) /\ tx[p].kind = "profile" /\ ~HasMore(p)
  /\ unreviewed' \in {unreviewed \union {tx[p].of}, unreviewed \ {tx[p].of}}
  /\ due' = [due EXCEPT ![p] = @ \ {tx[p].of}]
  /\ tx' = [tx EXCEPT ![p] = nobody]
  /\ UNCHANGED <<creators, depths, observations, evidence, support, media, told, run,
                 report, begun>>

\* A reviewer decides: one row, one statement.
Decide ==
  /\ \E d \in unreviewed :
       /\ \A p \in Process : <<"creator", d>> \notin Locked(p)
       /\ unreviewed' = unreviewed \ {d}
  /\ UNCHANGED <<creators, depths, observations, evidence, support, media, told, due, run,
                 tx, report, begun>>

-----------------------------------------------------------------------------
\* Of transactions that wait for each other PostgreSQL ends one; nothing of
\* it stays. The campaign knows no handler for the error and fails: the
\* process that takes its place is another run.
Circle(set) == \A p \in set : \E q \in set : WaitsFor(p, q)
Fail(p) ==
  /\ run[p] < MaxMishaps
  /\ run' = [run EXCEPT ![p] = @ + 1]
  /\ tx' = [tx EXCEPT ![p] = nobody]
  /\ due' = [due EXCEPT ![p] = {}]
  /\ UNCHANGED <<creators, depths, observations, evidence, support, media, told, unreviewed,
                 report, begun>>
Deadlock(p) == Fail(p) /\ \E set \in SUBSET Process : p \in set /\ Circle(set)
Die(p) == Fail(p) /\ (Writing(p) \/ due[p] # {})

-----------------------------------------------------------------------------
Known == {d \in Did : creators[d] # nobody}
ObservationsOf(d) == {o \in observations : o.key.did = d}

\* What a report counts, statement by statement: the states, the safety, the
\* depths and the popularity of creators, the sources, the media; or what
\* the dashboard shows, its totals last and in one statement.
SizeOf(table) ==
  CASE table = "creators" -> Cardinality(Known)
    [] table = "observations" -> Cardinality(observations)
    [] table = "edges" -> Cardinality({e \in Edge : support[e] > 0})
    [] table = "media" -> Cardinality({i \in DOMAIN media : media[i] # nobody})
\* Mutant: the observations are counted before the creators.
ObservationsFirst ==
  <<<<"observations">>, <<"creators">>, <<"creators">>, <<"creators">>, <<"creators">>,
    <<"media">>>>
CoverageReads ==
  <<<<"creators">>, <<"creators">>, <<"creators">>, <<"creators">>, <<"observations">>,
    <<"media">>>>
StatusReads ==
  <<<<"creators">>, <<"creators">>, <<"observations">>,
    <<"creators", "observations", "edges">>>>
ReadsOf(kind) == IF kind = "coverage" THEN CoverageReads ELSE StatusReads

\* A campaign takes its coverage when it is finished.
BeginReport(p) ==
  \E kind \in {"coverage", "status", "queue", "map"} :
    /\ kind = "coverage" => due[p] = {}
    /\ Begin(p, [kind |-> kind, of |-> nobody, run |-> <<p, run[p]>>, at |-> 0, seen |-> <<>>])
    /\ UNCHANGED <<creators, depths, observations, evidence, support, media, told,
                   unreviewed, due, run, report>>

Reads(p, kinds) == tx[p] # nobody /\ tx[p].kind \in kinds
Sees(p, seen, done) ==
  /\ tx' = [tx EXCEPT ![p] =
             IF done THEN nobody ELSE [tx[p] EXCEPT !.at = tx[p].at + 1, !.seen = seen]]
  /\ report' = IF done THEN [kind |-> tx[p].kind, seen |-> seen] ELSE report
  /\ UNCHANGED <<creators, depths, observations, evidence, support, media, told, unreviewed,
                 due, run, begun>>

ReadCounts(p) ==
  /\ Reads(p, {"coverage", "status"})
  /\ LET reads == ReadsOf(tx[p].kind)
         tables == reads[tx[p].at + 1]
     IN Sees(p, tx[p].seen \o [i \in DOMAIN tables |-> SizeOf(tables[i])],
             tx[p].at + 1 = Len(reads))

\* review_queue: how many wait, then the one at the reviewer's place among
\* them, or at the last place there is, then what was observed of it.
ReadTotal(p) ==
  /\ Reads(p, {"queue"}) /\ tx[p].at = 0
  /\ Sees(p, <<Cardinality(unreviewed)>>, unreviewed = {})
ReadPlace(p) ==
  /\ Reads(p, {"queue"}) /\ tx[p].at = 1
  /\ \E offset \in 0..(tx[p].seen[1] - 1), d \in unreviewed :
       /\ offset < Cardinality(unreviewed)
       /\ Sees(p, tx[p].seen \o <<offset, d>>, FALSE)
\* The queue has become shorter than the place: the statement wants one row.
PlaceGone(p) ==
  /\ Reads(p, {"queue"}) /\ tx[p].at = 1
  /\ tx[p].seen[1] > Cardinality(unreviewed)
  /\ tx' = [tx EXCEPT ![p] = nobody]
  /\ UNCHANGED <<creators, depths, observations, evidence, support, media, told, unreviewed,
                 due, run, report, begun>>
ReadItem(p) ==
  /\ Reads(p, {"queue"}) /\ tx[p].at = 2
  /\ Sees(p, Append(tx[p].seen, Cardinality(ObservationsOf(tx[p].seen[3]))), TRUE)

\* The corpus map: the creators, then the edges between those it drew.
ReadNodes(p) ==
  /\ Reads(p, {"map"}) /\ tx[p].at = 0
  /\ Sees(p, <<Known>>, FALSE)
ReadEdges(p) ==
  /\ Reads(p, {"map"}) /\ tx[p].at = 1
  /\ LET nodes == tx[p].seen[1] IN
       Sees(p, <<nodes, {e \in Edge : support[e] > 0 /\ e[1] \in nodes /\ e[2] \in nodes}>>,
            TRUE)

GraphNext ==
  \/ Decide
  \/ \E p \in Process :
       \/ Statement(p) \/ Deadlock(p) \/ Die(p)
       \/ BeginSuggestion(p) \/ CommitSuggestion(p) \/ CommitHydration(p)
       \/ BeginSample(p) \/ CommitSample(p)
       \/ BeginProfile(p) \/ CommitProfile(p)
       \/ BeginReport(p) \/ ReadCounts(p)
       \/ ReadTotal(p) \/ ReadPlace(p) \/ PlaceGone(p) \/ ReadItem(p)
       \/ ReadNodes(p) \/ ReadEdges(p)

GraphSpec == GraphInit /\ [][GraphNext]_graphVars

-----------------------------------------------------------------------------
GraphTypeOK ==
  /\ creators \in [Did -> CreatorRow \union {nobody}]
  /\ depths \in [Entity -> Nat \union {nobody}]
  /\ support \in [Edge -> Nat]
  /\ told \in [Did -> Nat]
  /\ unreviewed \subseteq Known
  /\ due \in [Process -> SUBSET Known]
  /\ run \in [Process -> 0..MaxMishaps]
  /\ begun \in 0..MaxWork

\* The counts the rows of creators and edges keep are those of the distinct
\* observations and pieces of evidence behind them, however often a run, a
\* retry or another campaign's process replays them and wherever one of them
\* dies or is ended as the victim of a deadlock (record_suggestion,
\* _record_edge, _record_media_result); no row says it was reached deeper
\* than an observation of it, and of every creator some event tells that it
\* was discovered.
RowsSumUpEvidence ==
  /\ \A d \in Known :
       /\ creators[d].count = Cardinality({o.key : o \in ObservationsOf(d)})
       /\ creators[d].count > 0 /\ told[d] > 0
  /\ \A e \in Edge :
       support[e] =
         IF \E s \in Suggestion : e = EdgeOf(s)
           THEN Cardinality({o.key : o \in {o \in observations :
                              EdgeOf(o.key) = e /\ e[1] # e[2]}})
           ELSE Cardinality({r[2] : r \in {r \in evidence : r[1] = e}})
  /\ \A o \in observations :
       /\ creators[o.key.did].depth <= o.depth
       /\ depths[o.key.did] <= o.depth /\ depths[o.key.parent] <= o.depth

\* What one report says agrees, though its statements read at different
\* times (record_coverage_snapshot, snapshot, review_queue, graph): later
\* counts of creators are not below earlier ones, no report has more creators
\* than observations, a page of the review queue lies within its total and
\* shows what its creator was found by, and the edges of a map join creators
\* it drew and that some evidence relates.
ReportAddsUp ==
  report # nobody =>
    LET n == report.seen IN
      /\ report.kind = "coverage" => \A i \in 1..4 : n[i] <= n[i + 1]
      /\ report.kind = "status" => n[1] <= n[2] /\ n[2] <= n[4] /\ n[3] <= n[5] /\ n[4] <= n[5]
      /\ report.kind = "queue" => Len(n) = 1 \/ (n[2] < n[1] /\ n[4] > 0)
      /\ report.kind = "map" => \A e \in n[2] : \E r \in evidence : r[1] = e
=============================================================================
