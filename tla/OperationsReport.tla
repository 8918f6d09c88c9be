------------------------- MODULE OperationsReport --------------------------
(* One build of the operations report (monitoring/snapshot.py): what it      *)
(* reads, in the order in which it reads it, and the alerts it derives.      *)
(*                                                                           *)
(* The sources belong to other programs and go on changing while the report  *)
(* is built: the catalog, which it reads in single statements and not in one *)
(* transaction, the decisions of filter runs, the files of evaluations, the  *)
(* telemetry and the frontier in PostgreSQL, and the index in Qdrant. A rate *)
(* that is compared with a target is the outcome of the comparison; artworks *)
(* and decisions are counted, and any shortfall of a share is below target:  *)
(* the targets are close to one and the catalogs here are small.             *)
EXTENDS Integers, FiniteSets, SequencesExt

CONSTANTS
  Artwork,
  Line,          \* lines of the decisions: [image, at, error, class], `at` in days
  Lines,         \* the decisions of an installation in service
  Today,
  FreshDays,     \* decision_freshness_days
  RecentDays, BaselineDays, MinCohort,   \* the cohorts that drift compares
  Endpoint,      \* how the index may be configured
  none,          \* no artwork, no alias, nothing read yet
  absent, unreadable,                    \* a file, a catalog, what was read of it
  MaxChanges     \* bound: changes of a source

\* What stands for a value that is missing is none.
ASSUME MarkersAssumption ==
  \A marker \in {absent, unreadable} :
    marker \notin {"ok", "shown", "dead"} \union Nat \union Seq(Line) \union
                   [all : Nat, unreviewed : Nat]
ASSUME ArtworkAssumption == IsFiniteSet(Artwork)
ASSUME BoundAssumption == MaxChanges \in Nat
ASSUME LinesAssumption == Lines \in Seq(Line) /\ \A l \in Line : l.at \in Int

VARIABLES
  world,     \* the sources as they are
  read,      \* what the build read: step -> what it saw, or `none`
  step,      \* how many of its steps the build has done
  moved,     \* the sources that changed since its first step
  differed,  \* the counts that differed from what may be served while it read
  changes    \* how many changes there were

monitorVars == <<world, read, step, moved, differed, changes>>

\* The files that are looked for by name.
Found == {"decisions", "evaluation", "judgments", "ann", "smoke"}
Unmeasured == {absent, unreadable}

\* What the catalog holds.
Searchable(w) == {a \in Artwork : w[a] # none /\ w[a].searchable}
Complete(w) == {a \in Artwork : w[a] # none /\ w[a].embedded}
Unreviewed(w) == {a \in Artwork : w[a] # none /\ w[a].safety = "unknown"}
Eligible(w) == {a \in Searchable(w) \intersect Complete(w) : w[a].safety = "safe"}

-----------------------------------------------------------------------------
Statements == {"searchable", "complete", "ledger", "operations", "eligible"}
Steps ==
  <<"sources", "searchable", "complete", "ledger", "operations", "eligible", "decisions",
    "evaluation", "labels", "judgments", "ann", "product", "frontier", "smoke",
    "collection", "aliases", "scheduler">>
StepName == ToSet(Steps)
Built == step = Len(Steps)

\* Mutant: what may be served is counted without asking for its safety.
CountedUnreviewed(s) ==
  CASE s = "searchable" -> [all |-> Cardinality(Searchable(world.works)),
                            unreviewed |-> Cardinality(Unreviewed(world.works))]
    [] s = "complete" -> Cardinality(Complete(world.works))
    [] s = "ledger" -> Cardinality(world.ledger)
    [] s = "operations" -> "shown"
    [] s = "eligible" ->
         Cardinality(Searchable(world.works) \intersect Complete(world.works))

\* Each statement reads the catalog as it is when it runs. What operations
\* come to is shown, and no alert depends on it.
Counted(s) ==
  CASE s = "searchable" -> [all |-> Cardinality(Searchable(world.works)),
                            unreviewed |-> Cardinality(Unreviewed(world.works))]
    [] s = "complete" -> Cardinality(Complete(world.works))
    [] s = "ledger" -> Cardinality(world.ledger)
    [] s = "operations" -> "shown"
    [] s = "eligible" -> Cardinality(Eligible(world.works))

\* Which files there are is settled first; one that came later is not opened.
SourcesFound == {f \in Found : world[f] # absent}
FileRead(f) == IF f \in read["sources"] THEN world[f] ELSE absent

\* The labels are evaluated against the catalog.
LabelsRead ==
  IF absent \in {world.labels, world.catalog} THEN absent
  ELSE IF world.catalog = unreadable THEN unreadable ELSE world.labels

\* What the judgments come to: too few of them, of several corpora, or enough.
Verdicts == {"few", "mixed", "poor", "good"}

\* Where PostgreSQL is not online, what is shown of it is its status; for the
\* frontier that is an error.
Telemetry == {"slow", "failing", "unrated", "poor", "weak", "good"}
ProductRead == IF world.postgres = "online" THEN world.product ELSE world.postgres
FrontierRead ==
  IF world.postgres = "online" THEN world.frontier
  ELSE IF world.postgres = "disabled" THEN "disabled" ELSE unreadable

\* Two requests, of a collection and of the aliases.
IndexRead(s) ==
  IF s = "collection" THEN [status |-> world.endpoint, points |-> Cardinality(world.points)]
  ELSE [status |-> world.endpoint, target |-> world.alias]

SchedulerRead == world.scheduler

Seen(s) ==
  CASE s = "sources" -> SourcesFound
    [] s \in Statements ->
         IF world.catalog = "ok" THEN Counted(s) ELSE unreadable
    [] s \in Found -> FileRead(s)
    [] s = "labels" -> LabelsRead
    [] s = "product" -> ProductRead
    [] s = "frontier" -> FrontierRead
    [] s \in {"collection", "aliases"} -> IndexRead(s)
    [] s = "scheduler" -> SchedulerRead

Unread == [s \in StepName |-> none]
Differ(w) ==
  {c \in {"points", "ledger"} : Cardinality(w[c]) # Cardinality(Eligible(w.works))}

\* The next report: nothing of the one before is used.
Rebuild ==
  /\ Built
  /\ read' = Unread /\ step' = 0
  /\ moved' = {} /\ differed' = {}
  /\ UNCHANGED <<world, changes>>

ReadNext ==
  /\ ~Built
  /\ step' = step + 1
  /\ read' = [read EXCEPT ![Steps[step + 1]] = Seen(Steps[step + 1])]
  /\ differed' = differed \union Differ(world)
  /\ UNCHANGED <<world, moved, changes>>

-----------------------------------------------------------------------------
\* How an artwork's rows may change: it is imported, edited (it is withdrawn
\* and its embeddings go in one transaction), standardized again or found to
\* be a duplicate, embedded, reviewed.
Changed(w) ==
  IF w = none
    THEN {[searchable |-> TRUE, safety |-> s, embedded |-> FALSE] : s \in {"unknown", "safe"}}
    ELSE {[w EXCEPT !.searchable = FALSE, !.embedded = FALSE], [w EXCEPT !.searchable = ~@]}
         \union {[w EXCEPT !.safety = s] : s \in {"safe", "unsafe"}}
         \union IF w.searchable THEN {[w EXCEPT !.embedded = TRUE]} ELSE {}

OneMoreOrLess(set) ==
  {set \union {a} : a \in Artwork} \union {set \ {a} : a \in Artwork}

IndexUp(w) == w.endpoint \in {"green", "yellow", "red"}
Works(a) == {[world.works EXCEPT ![a] = w] : w \in Changed(world.works[a])}
Becomes(source) ==
  CASE source = "catalog" -> {"ok", unreadable}
    [] source = "works" ->
         IF world.catalog = "ok" THEN UNION {Works(a) : a \in Artwork} ELSE {}
    [] source = "ledger" -> IF world.catalog = "ok" THEN OneMoreOrLess(world.ledger) ELSE {}
    [] source = "points" -> IF IndexUp(world) THEN OneMoreOrLess(world.points) ELSE {}
    [] source = "alias" -> IF IndexUp(world) THEN {"collection", "other"} ELSE {}
    [] source = "endpoint" ->
         IF IndexUp(world) \/ world.endpoint = "offline"
           THEN {"offline", "green", "yellow", "red"} ELSE {}
    [] source = "decisions" ->
         IF world.decisions = absent THEN {<<l>> : l \in Line}
         ELSE {Append(world.decisions, l) : l \in Line}
    [] source \in {"evaluation", "labels"} -> {unreadable, "few", "poor", "good"}
    [] source = "judgments" -> {unreadable} \union Verdicts
    [] source = "ann" -> {unreadable, "shallow", "poor", "good"}
    [] source = "smoke" -> {unreadable, "failed", "good"}
    [] source = "postgres" ->
         IF world.postgres \in {"online", "offline"} THEN {"online", "offline"} ELSE {}
    [] source = "product" -> Telemetry
    [] source = "frontier" -> {"dead", "removals", "good"}
    [] source = "scheduler" -> {unreadable, "good"}

Change(source) ==
  /\ changes < MaxChanges
  /\ \E value \in Becomes(source) \ {world[source]} :
       world' = [world EXCEPT ![source] = value]
  /\ changes' = changes + 1
  /\ moved' = IF step = 0 THEN {} ELSE moved \union {source}
  /\ differed' = IF step = 0 \/ Built THEN differed ELSE differed \union Differ(world')
  /\ UNCHANGED <<read, step>>

-----------------------------------------------------------------------------
\* Of the lines about one image the newest counts, the last one of equals.
Counting(lines) ==
  {i \in DOMAIN lines :
     \A j \in DOMAIN lines :
       lines[j].image = lines[i].image =>
         lines[j].at < lines[i].at \/ (lines[j].at = lines[i].at /\ j <= i)}
Newest(lines) == CHOOSE n \in {l.at : l \in ToSet(lines)} : \A l \in ToSet(lines) : l.at <= n

\* The newest day and those before it, and the cohort before them.
Recent(lines) == {i \in Counting(lines) : lines[i].at >= Newest(lines) - RecentDays}
Baseline(lines) ==
  {i \in Counting(lines) \ Recent(lines) :
     lines[i].at >= Newest(lines) - RecentDays - BaselineDays}
Measured(lines) ==
  Cardinality(Recent(lines)) >= MinCohort /\ Cardinality(Baseline(lines)) >= MinCohort
Of(lines, cohort, class) == Cardinality({i \in cohort : lines[i].class = class})
Drifted(lines) ==
  \E l \in ToSet(lines) :
    Of(lines, Recent(lines), l.class) * Cardinality(Baseline(lines)) #
      Of(lines, Baseline(lines), l.class) * Cardinality(Recent(lines))

Alert(told, id, severity) == IF told THEN {[id |-> id, severity |-> severity]} ELSE {}

\* One statement that fails leaves nothing of the catalog.
CatalogRead == \A s \in Statements : read[s] # unreadable
Count(s) == IF CatalogRead THEN read[s] ELSE 0

SourceAlerts ==
  Alert(~CatalogRead, "catalog", "critical") \union
  Alert(\E s \in StepName \ Statements : read[s] = unreadable, "source", "critical")

\* Nothing searchable, nothing to cover.
CatalogAlerts ==
  IF ~CatalogRead THEN {}
  ELSE Alert(read["complete"] < read["searchable"].all, "coverage", "critical") \union
       Alert(read["searchable"].unreviewed > 0, "safety_unknown", "warning")

DecisionAlerts ==
  LET lines == read["decisions"] IN
    IF lines \in Unmeasured THEN {}
    ELSE Alert(\E i \in Counting(lines) : lines[i].error, "error_rate", "critical") \union
         Alert(Today - Newest(lines) > FreshDays, "freshness", "warning")
DriftAlerts ==
  LET lines == read["decisions"] IN
    IF lines \in Unmeasured THEN {}
    ELSE Alert(Measured(lines) /\ Drifted(lines), "drift", "critical") \union
         Alert(~Measured(lines) /\ Cardinality(Counting(lines)) >= MinCohort, "no_drift", "info")

\* The labels are evaluated anew; where they cannot be, the saved report counts.
Evaluation == IF read["labels"] \in Unmeasured THEN read["evaluation"] ELSE read["labels"]
EvaluationAlerts ==
  Alert(Evaluation \in Unmeasured, "evaluation", "warning") \union
  Alert(Evaluation = "few", "evaluation_sample", "warning") \union
  Alert(Evaluation = "poor", "evaluation_precision", "critical")
RetrievalAlerts ==
  Alert(read["judgments"] \in Unmeasured \union {"few"}, "judgments", "warning") \union
  Alert(read["judgments"] = "mixed", "judgments_mixed", "critical") \union
  Alert(read["judgments"] = "poor", "judgments_precision", "warning")

\* What nothing is served from is worth a remark only.
Serious == IF Count("eligible") # 0 THEN "warning" ELSE "info"
AnnAlerts ==
  Alert(read["ann"] \in Unmeasured, "ann", Serious) \union
  Alert(read["ann"] = "poor", "ann_recall", "critical") \union
  Alert(read["smoke"] = "failed", "smoke", "critical")

\* Recall at 100 needs a report at that depth.
RecallMeasured == read["ann"] \notin Unmeasured \union {"shallow"}
ProductAlerts ==
  LET p == read["product"] IN
    Alert(p \in {"unset", "offline"}, "telemetry", "warning") \union
    Alert(p = "slow", "search_latency", "warning") \union
    Alert(p = "failing", "search_errors", "critical") \union
    Alert(p = "unrated", "feedback_sample", "info") \union
    Alert(p = "poor", "feedback_precision", "warning") \union
    Alert(p = "weak", "stage", "warning") \union
    Alert(p \in Telemetry /\ ~RecallMeasured, "recall", "info")
DiscoveryAlerts ==
  Alert(read["frontier"] = "dead", "dead_work", "warning") \union
  Alert(read["frontier"] = "removals", "removals", "warning")

\* The index answers two requests; where one fails neither counts.
Status ==
  IF read["aliases"].status = "offline" THEN "offline" ELSE read["collection"].status
Online == Status \in {"green", "yellow", "red"}
IndexAlerts ==
  Alert(Status \in {"offline", "unset"}, "connectivity", Serious) \union
  Alert(Status = "red", "unhealthy", "critical") \union
  Alert(Status = "yellow", "degraded", "warning") \union
  Alert(Online /\ read["collection"].points # Count("eligible"), "points", "critical") \union
  Alert(Online /\ read["aliases"].target # "collection", "alias", "critical") \union
  Alert(Status # "disabled" /\ Count("ledger") # Count("eligible"), "ledger", "warning")

Alerts ==
  SourceAlerts \union CatalogAlerts \union DecisionAlerts \union DriftAlerts \union
  EvaluationAlerts \union RetrievalAlerts \union AnnAlerts \union ProductAlerts \union
  DiscoveryAlerts \union IndexAlerts
Level ==
  CASE \E a \in Alerts : a.severity = "critical" -> "critical"
    [] \A a \in Alerts : a.severity = "info" -> "healthy"
    [] OTHER -> "attention"

-----------------------------------------------------------------------------
\* A new installation, and one in service.
Installed(endpoint) ==
  [catalog |-> absent, works |-> [a \in Artwork |-> none], ledger |-> {},
   points |-> {}, alias |-> none, endpoint |-> endpoint,
   decisions |-> absent, evaluation |-> absent, labels |-> absent,
   judgments |-> absent, ann |-> absent, smoke |-> absent,
   postgres |-> "disabled", product |-> "unrated", frontier |-> "good", scheduler |-> "good"]
InService(endpoint, postgres) ==
  [Installed(endpoint) EXCEPT
     !.catalog = "ok",
     !.works = [a \in Artwork |-> [searchable |-> TRUE, safety |-> "safe", embedded |-> TRUE]],
     !.ledger = Artwork, !.points = Artwork, !.alias = "collection",
     !.decisions = Lines, !.evaluation = "good", !.judgments = "good", !.ann = "good",
     !.smoke = "good", !.postgres = postgres, !.product = "good"]

MonitorInit ==
  /\ \E e \in Endpoint, p \in {"disabled", "unset", "online"} :
       world \in {Installed(e), InService(e, p)}
  /\ read = Unread /\ step = 0
  /\ moved = {} /\ differed = {}
  /\ changes = 0

MonitorNext ==
  \/ Rebuild
  \/ ReadNext
  \/ \E source \in DOMAIN world : Change(source)

MonitorSpec == MonitorInit /\ [][MonitorNext]_monitorVars

-----------------------------------------------------------------------------
MonitorTypeOK ==
  /\ step \in 0..Len(Steps) /\ DOMAIN read = StepName
  /\ \A i \in step + 1..Len(Steps) : read[Steps[i]] = none
  /\ moved \subseteq DOMAIN world /\ differed \subseteq {"points", "ledger"}
  /\ changes \in 0..MaxChanges

\* What an operator is to be told of, and the sources it is a matter of.
SourcesOf ==
  [catalog |-> {}, coverage |-> {"works"}, safety_unknown |-> {"works"},
   points |-> {"works", "points", "endpoint"}, ledger |-> {"works", "ledger"},
   alias |-> {"endpoint", "alias"}, connectivity |-> {"works", "endpoint"},
   error_rate |-> {"decisions"}, evaluation |-> {"evaluation", "labels"},
   judgments |-> {"judgments"}, ann |-> {"ann", "works"}, smoke |-> {"smoke"},
   telemetry |-> {"postgres"}, dead_work |-> {"postgres", "frontier"}]
Faults(w) ==
  {f \in DOMAIN SourcesOf :
     \/ f = "catalog" /\ w.catalog # "ok"
     \/ f = "coverage" /\ Cardinality(Complete(w.works)) < Cardinality(Searchable(w.works))
     \/ /\ f = "safety_unknown"
        /\ \E a \in Artwork : w.works[a] # none /\ w.works[a].safety = "unknown"
     \/ f = "points" /\ IndexUp(w) /\ Cardinality(w.points) # Cardinality(Eligible(w.works))
     \/ /\ f = "ledger" /\ w.endpoint # "disabled"
        /\ Cardinality(w.ledger) # Cardinality(Eligible(w.works))
     \/ f = "alias" /\ IndexUp(w) /\ w.alias # "collection"
     \/ f = "connectivity" /\ w.endpoint \in {"unset", "offline"} /\ Eligible(w.works) # {}
     \/ /\ f = "error_rate" /\ w.decisions # absent
        /\ \E i \in DOMAIN w.decisions :
             /\ w.decisions[i].error
             /\ ~\E j \in DOMAIN w.decisions :
                   /\ w.decisions[j].image = w.decisions[i].image
                   /\ \/ w.decisions[j].at > w.decisions[i].at
                      \/ w.decisions[j].at = w.decisions[i].at /\ j > i
     \/ f = "evaluation" /\ {w.evaluation, w.labels} \subseteq {absent, unreadable}
     \/ f = "judgments" /\ w.judgments \in {absent, unreadable, "few"}
     \/ f = "ann" /\ w.ann \in {absent, unreadable} /\ Eligible(w.works) # {}
     \/ f = "smoke" /\ w.smoke = "failed"
     \/ f = "telemetry" /\ w.postgres \in {"unset", "offline"}
     \/ f = "dead_work" /\ w.postgres = "online" /\ w.frontier = "dead"}

\* A report tells the faults of what it watches, and no others, as far as
\* nothing moved under it while it was built; what it tells of a catalog it
\* could not read is that it could not. Where the catalog or the index did
\* move, it reports that they differ only if at some moment they did. And a
\* report that says healthy keeps no such fault back (build_monitoring_snapshot).
ReportTrueToWorld ==
  LET told == {a.id : a \in {a \in Alerts : a.severity # "info"}}
      Calm(f) == moved \intersect (SourcesOf[f] \union {"catalog"}) = {}
      claimed == {f \in DOMAIN SourcesOf : Calm(f) /\ (world.catalog = "ok" \/ f = "catalog")}
  IN Built =>
       /\ \A f \in claimed : f \in told <=> f \in Faults(world)
       /\ CatalogRead => told \intersect {"points", "ledger"} \subseteq differed
       /\ Level = "healthy" => claimed \intersect Faults(world) = {}
=============================================================================
