--------------------------- MODULE FaissSnapshots ---------------------------
(***************************************************************************)
(* The versioned FAISS index: build, evaluate, promote and load            *)
(* (artsearch/retrieval/faiss_index.py, faiss_cli.py), over the corpus     *)
(* query all derived indexes share (retrieval/corpus.py).                  *)
(*                                                                         *)
(* Every command is a process of its own; what they share is a directory   *)
(* of snapshots, report files and the active pointer.                      *)
(*                                                                         *)
(* Abstractions.  A build's number stands for the bytes of its manifest,   *)
(* which holds the time it was made and the checksums of its files.  The   *)
(* two recalls and the latency of an evaluation are one grade, the limits  *)
(* of the configuration another.  A capacity plan is the number of points  *)
(* it covers.  Writes that replace a file are atomic.                      *)
(***************************************************************************)
EXTENDS Naturals, FiniteSets

CONSTANTS
  Builder,       \* build commands that may run at once
  Version,       \* snapshot versions
  MaxPoints,     \* bound: artworks with embeddings
  Grade,         \* results and limits of an evaluation
  PlannedPoints, \* points that ready capacity plans cover
  MaxBuilds,     \* bound: builds
  MaxReports     \* bound: evaluation reports kept

ASSUME FaissAssumption ==
  /\ Grade \subseteq Nat /\ Grade # {} /\ PlannedPoints \subseteq Nat
  /\ MaxPoints \in Nat /\ MaxBuilds \in Nat /\ MaxReports \in Nat

VARIABLES
  eligible,    \* number of artworks with current embeddings the policy admits
  build,       \* each builder: the snapshot in its temporary directory
  builds,      \* builds begun
  stored,      \* snapshots/<version>
  reports,     \* evaluation reports; `of` is history, the files do not have it
  limit,       \* the configured quality limits
  verify,      \* verify_checksums_on_load
  promotion,   \* the promote command under way
  pointer,     \* active.json; `limit` is history
  served,      \* what the search service has open
  promoted,    \* history: builds the pointer has named
  discarded    \* history: versions whose directory was removed

faissVars == <<eligible, build, builds, stored, reports, limit, verify, promotion, pointer, served,
               promoted, discarded>>
settings == <<limit, verify>>
faissHistory == <<promoted, discarded>>
Commands == <<build, builds, reports, promotion, pointer, served, promoted>>

Absent == [version |-> "none"]
Is(x) == x # Absent

FaissInit ==
  /\ eligible \in 0 .. MaxPoints
  /\ build = [b \in Builder |-> Absent]
  /\ builds = 0
  /\ stored = [v \in Version |-> Absent]
  /\ reports = {}
  /\ limit \in Grade /\ verify \in BOOLEAN
  /\ promotion = Absent /\ pointer = Absent /\ served = Absent
  /\ promoted = {} /\ discarded = {}

-----------------------------------------------------------------------------
(* Building.                                                               *)

\* The destination must be new.  Count, training and population read one
\* transaction's view; an empty corpus ends the build.
BuildBegins(b, v) ==
  /\ ~Is(build[b]) /\ builds < MaxBuilds
  /\ ~Is(stored[v])
  /\ eligible > 0
  /\ builds' = builds + 1
  /\ build' = [build EXCEPT ![b] = [version |-> v, id |-> builds + 1,
                                    points |-> eligible, whole |-> TRUE,
                                    sized |-> TRUE]]
  /\ UNCHANGED <<eligible, stored, reports, settings, promotion, pointer, served, faissHistory>>

DestinationFree(v) == ~Is(stored[v])

\* os.replace onto the destination: it refuses a directory that has files.
BuildFinishes(b) ==
  /\ Is(build[b])
  /\ LET v == build[b].version IN
     /\ DestinationFree(v)
     /\ stored' = [stored EXCEPT ![v] = build[b]]
  /\ build' = [build EXCEPT ![b] = Absent]
  /\ UNCHANGED <<eligible, builds, reports, settings, promotion, pointer, served, faissHistory>>

\* Any failure removes the temporary directory; a killed process leaves it,
\* under a name nothing reads.
BuildFails(b) ==
  /\ Is(build[b])
  /\ build' = [build EXCEPT ![b] = Absent]
  /\ UNCHANGED <<eligible, builds, stored, reports, settings, promotion, pointer, served, faissHistory>>

-----------------------------------------------------------------------------
(* Evaluating and promoting.                                               *)

\* load_faiss_snapshot: READY, the sizes of the files, and on request their
\* checksums.
Loads(v, check) == Is(stored[v]) /\ stored[v].sized /\ (check => stored[v].whole)

Evaluate(v) ==
  /\ Loads(v, verify)
  /\ stored[v].points >= 2
  /\ Cardinality(reports) < MaxReports
  /\ \E grade \in Grade :
       reports' = reports \union {[version |-> v, points |-> stored[v].points, grade |-> grade,
                                   limit |-> limit, of |-> stored[v].id]}
  /\ UNCHANGED <<eligible, build, builds, stored, settings, promotion, pointer, served, faissHistory>>

\* Mutant: a report about another snapshot of the same size will do.
AnyTarget(r, v) == TRUE
Targets(r, v) == r.version = v

\* quality_gate_passed, and the limits in force now.
Passes(r) == r.grade >= r.limit /\ r.grade >= limit /\ r.limit >= limit

PromoteChecks(v, r) ==
  /\ ~Is(promotion)
  /\ Loads(v, TRUE)
  /\ Targets(r, v) /\ r.points = stored[v].points
  /\ Passes(r)
  /\ \E points \in PlannedPoints : points >= stored[v].points
  /\ promotion' = [version |-> v, limit |-> limit]
  /\ UNCHANGED <<eligible, build, builds, stored, reports, settings, pointer, served, faissHistory>>

\* The pointer takes the checksum of the manifest that is there now.
PromoteWrites ==
  /\ Is(promotion) /\ Is(stored[promotion.version])
  /\ LET id == stored[promotion.version].id IN
     /\ pointer' = [version |-> promotion.version, manifest |-> id, limit |-> promotion.limit]
     /\ promoted' = promoted \union {id}
  /\ promotion' = Absent
  /\ UNCHANGED <<eligible, build, builds, stored, reports, settings, served, discarded>>

PromoteFails ==
  /\ Is(promotion)
  /\ promotion' = Absent
  /\ UNCHANGED <<eligible, build, builds, stored, reports, settings, pointer, served, faissHistory>>

-----------------------------------------------------------------------------
(* Serving.                                                                *)

\* Mutant: the version's name is enough.
AnyManifest(v) == TRUE
ManifestMatches(v) == stored[v].id = pointer.manifest

\* FaissSearchService.from_active.  The files stay open: later changes to the
\* directory do not reach the service.
Serve ==
  /\ Is(pointer)
  /\ Loads(pointer.version, verify)
  /\ ManifestMatches(pointer.version)
  /\ served' = stored[pointer.version]
  /\ UNCHANGED <<eligible, build, builds, stored, reports, settings, promotion, pointer, faissHistory>>

StopServing ==
  /\ Is(served)
  /\ served' = Absent
  /\ UNCHANGED <<eligible, build, builds, stored, reports, settings, promotion, pointer, faissHistory>>

-----------------------------------------------------------------------------
(* The surroundings.                                                       *)

\* Intake and moderation change the corpus.
CorpusChanges ==
  /\ eligible' \in (0 .. MaxPoints) \ {eligible}
  /\ UNCHANGED <<Commands, stored, settings, discarded>>

\* The operator edits the limits or removes an old snapshot.
Reconfigure ==
  /\ limit' \in Grade \ {limit}
  /\ UNCHANGED <<Commands, eligible, stored, verify, discarded>>

Discard(v) ==
  /\ Is(stored[v])
  /\ stored' = [stored EXCEPT ![v] = Absent]
  /\ discarded' = discarded \union {v}
  /\ UNCHANGED <<Commands, eligible, settings>>

\* A file is cut short, or its contents change.
Damage(v) ==
  /\ Is(stored[v]) /\ stored[v].whole
  /\ \E sized \in BOOLEAN :
       stored' = [stored EXCEPT ![v].whole = FALSE, ![v].sized = sized]
  /\ UNCHANGED <<Commands, eligible, settings, discarded>>

FaissNext ==
  \/ \E b \in Builder : \/ BuildFinishes(b) \/ BuildFails(b)
                        \/ \E v \in Version : BuildBegins(b, v)
  \/ \E v \in Version : \/ Evaluate(v) \/ Discard(v) \/ Damage(v)
                        \/ \E r \in reports : PromoteChecks(v, r)
  \/ PromoteWrites \/ PromoteFails \/ Serve \/ StopServing \/ CorpusChanges \/ Reconfigure

FaissSpec == FaissInit /\ [][FaissNext]_faissVars

-----------------------------------------------------------------------------
(* Properties.                                                             *)

Snapshot == [version : Version, id : 1 .. MaxBuilds, points : Nat, whole : BOOLEAN,
             sized : BOOLEAN]

FaissTypeOK ==
  /\ eligible \in 0 .. MaxPoints /\ verify \in BOOLEAN
  /\ build \in [Builder -> Snapshot \union {Absent}]
  /\ builds \in 0 .. MaxBuilds
  /\ stored \in [Version -> Snapshot \union {Absent}]
  /\ reports \subseteq [version : Version, points : Nat, grade : Grade, limit : Grade,
                        of : 1 .. MaxBuilds]
  /\ limit \in Grade
  /\ promotion \in [version : Version, limit : Grade] \union {Absent}
  /\ pointer \in [version : Version, manifest : 1 .. MaxBuilds, limit : Grade] \union {Absent}
  /\ served \in Snapshot \union {Absent}
  /\ promoted \subseteq 1 .. MaxBuilds /\ discarded \subseteq Version

\* The snapshot the pointer names is one that was measured, the very build and
\* not just its version, at a grade no lower than the limits of its promotion:
\* although reports are files that name a version, and two builds of a version
\* may race.  Only removing a version's directory lets another build stand in
\* for the one a report is about.
PromotedWasMeasured ==
  Is(pointer) /\ pointer.version \notin discarded
    => \E r \in reports : r.of = pointer.manifest /\ r.grade >= pointer.limit

\* The service only ever opens a build that was promoted, even after versions
\* are removed and built again, and never one whose files are cut short; with
\* checksums verified on load, never one whose contents have changed.
ServesPromoted ==
  Is(served) => served.id \in promoted /\ served.sized /\ (verify => served.whole)
=============================================================================
