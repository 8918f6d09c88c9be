----------------------------- MODULE RankFusion -----------------------------
(***************************************************************************)
(* How the search backends turn two rankings, by subject (CLIP) and by     *)
(* style (CSD), into one answer: FAISS (retrieval/faiss_index.py), Qdrant  *)
(* (retrieval/qdrant.py) and the in-memory search of the dashboards        *)
(* (retrieval/search.py).  Each takes a shortlist from both rankings,      *)
(* fuses them by reciprocal ranks, cuts the list and limits how many works *)
(* an artist may have in the answer.                                       *)
(*                                                                         *)
(* Abstractions.  Artworks are numbered by their place in the subject      *)
(* ranking of the query.  No two scores in a ranking are equal; equal      *)
(* fused scores may be ordered in any way.  The indexes are exact, as a    *)
(* flat index and a payload scan are.  The fusion inside the Qdrant server *)
(* is taken from its request.  A query that is an artwork of the corpus is *)
(* its own nearest neighbour, artwork 1.                                   *)
(***************************************************************************)
EXTENDS Integers, FiniteSets, FiniteSetsExt, SequencesExt

CONSTANTS
  Size,         \* artworks of the corpus
  ArtistName,
  PrefetchLimit, RerankLimit, FusionLimit, ShortlistSize,
  RrfK,         \* rrf_k
  TopK,         \* values of top_k
  Scale         \* a common multiple of all RrfK + rank: fused scores are counted in 1 / Scale

Art == 1 .. Size
Probe == 1

ASSUME FusionAssumption ==
  /\ {Size, PrefetchLimit, RerankLimit, FusionLimit, ShortlistSize, RrfK} \subseteq Nat \ {0}
  /\ TopK \subseteq Nat \ {0}
  /\ FusionLimit <= RerankLimit /\ RerankLimit <= 2 * PrefetchLimit
  /\ Scale \in Nat \ {0} /\ \A rank \in 1 .. Size + 1 : Scale % (RrfK + rank) = 0

VARIABLES
  place,   \* each artwork's place in the two rankings
  by,      \* its artist
  cap,     \* max_results_per_artist
  answer   \* the hits, what they were chosen from, and the artist quota

fusionVars == <<place, by, cap, answer>>

NoAnswer == [hits |-> <<>>, among |-> {}, quota |-> 0, counted |-> {}]

FusionInit ==
  /\ place \in [{"clip", "style"} -> {f \in [Art -> Art] : IsInjective(f)}]
  /\ place["clip"] = [x \in Art |-> x]
  /\ by \in [Art -> ArtistName]
  /\ cap \in 1 .. 2
  /\ answer = NoAnswer

-----------------------------------------------------------------------------
(* Rankings.                                                               *)

RankIn(list, S, x) == 1 + Cardinality({y \in S : place[list][y] < place[list][x]})
Nearest(list, S, n) == {x \in S : RankIn(list, S, x) <= n}

\* 1 / (RrfK + rank)
Share(rank) == Scale \div (RrfK + rank)

\* The sequences of S by falling score.
Ordered(S, score) ==
  {o \in SetToSeqs(S) : \A i \in 2 .. Len(o) : score[o[i - 1]] >= score[o[i]]}

Cut(hits, n) == SubSeq(hits, 1, Min({n, Len(hits)}))

\* The hits at the places, in their order; the first n places.
Before(places, i) == Cardinality({j \in places : j < i})
Picked(hits, places) ==
  [n \in 1 .. Cardinality(places) |-> hits[CHOOSE i \in places : Before(places, i) = n - 1]]
First(places, n) == {i \in places : Before(places, i) < n}

\* _apply_artist_diversity: the first k of those that are among the first `most`
\* hits of their artist.
OfArtist(hits, artist) == {i \in DOMAIN hits : by[hits[i]] = artist}
Diversify(hits, k, most) ==
  Picked(hits, First({i \in DOMAIN hits : i \in First(OfArtist(hits, by[hits[i]]), most)}, k))

-----------------------------------------------------------------------------
(* FAISS.                                                                  *)

\* Mutant: an artwork that one list lacks ranks before those it has.
FirstRank(limit) == 0
MissingRank(limit) == limit + 1

\* _ann_candidate_union: the shortlist, the best RerankLimit of both lists.
CandidateLimit == Min({PrefetchLimit, Size})
ApproximateRank(list, x) ==
  IF x \in Nearest(list, Art, CandidateLimit) THEN RankIn(list, Art, x) ELSE MissingRank(CandidateLimit)

CandidateUnion ==
  LET found == Nearest("clip", Art, CandidateLimit) \union Nearest("style", Art, CandidateLimit)
      score == [x \in found |-> Share(ApproximateRank("clip", x)) + Share(ApproximateRank("style", x))]
  IN {ToSet(Cut(o, RerankLimit)) : o \in Ordered(found, score)}

\* _exact_fusion: the rows ranked again among themselves.
ExactFusion(rows) ==
  LET score == [x \in rows |-> Share(RankIn("clip", rows, x)) + Share(RankIn("style", rows, x))]
  IN {Cut(o, FusionLimit) : o \in Ordered(rows, score)}

\* By one vector
ByPlace(list, S) == Ordered(S, [x \in S |-> Size - place[list][x]])

Returned(hits, among, quota, counted) ==
  answer' = [hits |-> hits, among |-> among, quota |-> quota, counted |-> counted]

WorksOf(artist) == {x \in Art : by[x] = artist}

FaissByVectors(k) ==
  \/ \E rows \in CandidateUnion : \E hits \in ExactFusion(rows) :
       Returned(Diversify(hits, k, cap), Art, cap, {})
  \/ \E artist \in ArtistName : \E hits \in ExactFusion(WorksOf(artist)) :
       Returned(Diversify(hits, k, k), WorksOf(artist), k, {})

\* search_by_artwork
Similar(x, sameArtist) == x # Probe /\ (sameArtist \/ by[x] # by[Probe])
QueryIsArtwork == place["style"][Probe] = 1

FaissByArtwork(k, sameArtist) ==
  /\ QueryIsArtwork
  /\ \E rows \in CandidateUnion : \E hits \in ExactFusion(rows) :
       LET found == Diversify(hits, Max({k + 1, k * cap}), cap)
       IN Returned(Cut(Picked(found, {i \in DOMAIN found : Similar(found[i], sameArtist)}), k),
                 {x \in Art : Similar(x, sameArtist)}, cap, {Probe})

FaissByClip(k) ==
  \E hits \in ByPlace("clip", Nearest("clip", Art, PrefetchLimit)) :
    Returned(Diversify(hits, k, cap), Art, cap, {})

-----------------------------------------------------------------------------
(* Fusion without a second ranking: the Qdrant server, and the ensemble of *)
(* search.py.  What a list lacks adds nothing to the score.                *)

Term(list, among, depth, x) ==
  IF x \in Nearest(list, among, depth) THEN Share(RankIn(list, among, x)) ELSE 0

FusedLists(among, depth) ==
  LET found == Nearest("clip", among, depth) \union Nearest("style", among, depth)
  IN Ordered(found, [x \in found |-> Term("clip", among, depth, x) + Term("style", among, depth, x)])

QdrantByVectors(k) ==
  \/ \E hits \in FusedLists(Art, PrefetchLimit) :
       Returned(Diversify(Cut(hits, FusionLimit), k, cap), Art, cap, {})
  \/ \E artist \in ArtistName : \E hits \in FusedLists(WorksOf(artist), PrefetchLimit) :
       Returned(Diversify(Cut(hits, FusionLimit), k, k), WorksOf(artist), k, {})

\* The filter is in the request, unlike FAISS.
QdrantByArtwork(k, sameArtist) ==
  LET among == {x \in Art : Similar(x, sameArtist)} IN
  /\ QueryIsArtwork
  /\ \E hits \in FusedLists(among, PrefetchLimit) :
       Returned(Diversify(Cut(hits, FusionLimit), k, cap), among, cap, {})

QdrantByClip(k) ==
  \E hits \in ByPlace("clip", Nearest("clip", Art, k * cap)) :
    Returned(Diversify(hits, k, cap), Art, cap, {})

\* search_similar: equal scores go by style, and there is no artist limit.
EnsembleSearch(k, sameArtist) ==
  LET among == {x \in Art : Similar(x, sameArtist)}
      depth == Min({Cardinality(among), Max({k, ShortlistSize})})
  IN /\ QueryIsArtwork
     /\ \E hits \in FusedLists(among, depth) : Returned(Cut(hits, k), among, Size, {})

OneVectorSearch(list, k, sameArtist) ==
  LET among == {x \in Art : Similar(x, sameArtist)} IN
  /\ QueryIsArtwork
  /\ \E hits \in ByPlace(list, among) :
       Returned(Cut(hits, k), among, Size, {})

FusionNext ==
  /\ answer = NoAnswer
  /\ \E k \in TopK :
       \/ FaissByVectors(k) \/ FaissByClip(k) \/ QdrantByVectors(k) \/ QdrantByClip(k)
       \/ \E same \in BOOLEAN :
            \/ FaissByArtwork(k, same) \/ QdrantByArtwork(k, same) \/ EnsembleSearch(k, same)
            \/ \E list \in {"clip", "style"} : OneVectorSearch(list, k, same)
  /\ UNCHANGED <<place, by, cap>>

FusionSpec == FusionInit /\ [][FusionNext]_fusionVars

-----------------------------------------------------------------------------
(* Properties.                                                             *)

Dominates(x, y) == place["clip"][x] < place["clip"][y] /\ place["style"][x] < place["style"][y]

\* No shortlist, cut or artist limit loses the better of two works: one that
\* beats a hit in both rankings stands before it in the answer, or its artist
\* has all the hits an artist may have.  The work a FAISS search starts from
\* takes one of them.  Unless the artist is asked for, none has more.
NoDominatedHit ==
  LET hits == answer.hits
      taken(artist) == {y \in ToSet(hits) \union answer.counted : by[y] = artist}
  IN /\ \A i \in DOMAIN hits : \A x \in answer.among :
          Dominates(x, hits[i]) => \/ \E j \in 1 .. i - 1 : hits[j] = x
                                   \/ Cardinality(taken(by[x])) >= answer.quota
     /\ hits # <<>> => \A artist \in ArtistName : Cardinality(taken(artist)) <= answer.quota
=============================================================================
