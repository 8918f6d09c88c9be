-------------------------- MODULE FilterDecisions --------------------------
(* Deciding a batch of candidates (artwork_filter/service.py): loading the *)
(* images, the rules, the embeddings with their cache on disk, the scores  *)
(* against the prompts, the decision and its persistence. Several          *)
(* processes share the cache directory; the model's branch may move while  *)
(* they run, and any of them may die between the two files of an entry.    *)
(*                                                                         *)
(* Abstractions. An embedding is named by what it was computed from. What  *)
(* the scores say of a picture is given. Retries and redirects of one URL  *)
(* are its one answer. storage.durability_mode is strict, the default.     *)
EXTENDS Naturals, Sequences, FiniteSets

CONSTANTS
  Sifter,      \* processes that classify
  Entry,       \* candidates
  Batch,       \* batches of candidates
  Picture,     \* image contents
  Nothing,     \* no file, no vector, no URL
  Urls,        \* the pictures behind each candidate's URLs, in order of preference
  Hits,        \* the dispositions of the rules that hit each picture
  ScoresOf,    \* what classify_embeddings says of each picture
  AutoAccept,  \* policy.automatic_accept_enabled
  Setting,     \* configurations: the commit each pins, or 0, and its preparation of images
  CommitCount, \* bound: commits of the model's branch
  MaxBatches,  \* bound: batches in all
  MaxMishaps   \* bound: failing calls and deaths

ASSUME DecisionAssumption ==
  /\ Nothing \notin Picture /\ CommitCount \in Nat \ {0} /\ {MaxBatches, MaxMishaps} \subseteq Nat
  /\ \A c \in Setting : c.pin \in {0, 1}
  /\ Batch \subseteq Seq(Entry)
  /\ Urls \in [Entry -> Seq(Picture)] /\ AutoAccept \in BOOLEAN
  /\ Hits \in [Picture -> SUBSET {"force_review", "force_reject"}]

VARIABLES
  arrays,   \* the feature store's array files: the embedding in each, by key
  records,  \* the keys whose metadata file exists
  branch,   \* the commit the model's branch is at
  mixed,    \* commits whose model was loaded with another commit's processor
  sifting,  \* what each process is doing
  tally     \* what the bounds count

decisionVars == <<arrays, records, branch, mixed, sifting, tally>>

\* Commit 0 stands for the name "main".
Commits == 0 .. CommitCount
Prompts == "prompts"
Preparation == {c.by : c \in Setting}  \* preprocessing_version, normalize_embeddings
Subject == Picture \union {Prompts}
Key == Subject \X Commits \X Preparation
Vector == [of : Subject, model : Commits, processor : Commits, by : Preparation]

Unloaded == [pin |-> 0, processor |-> 0, model |-> 0, named |-> 0, prompts |-> Nothing]
Fresh(pin, by) == [at |-> "idle", by |-> by, net |-> [Unloaded EXCEPT !.pin = pin]]
Off == [at |-> "off"]

DecisionInit ==
  /\ arrays = [k \in Key |-> Nothing] /\ records = {}
  /\ branch = 1 /\ mixed = {}
  /\ sifting = [s \in Sifter |-> Off]
  /\ tally = [batches |-> 0, mishaps |-> 0]

Doing(s, p) == sifting[s].at = p
Net(s) == sifting[s].net
Mishap == tally.mishaps < MaxMishaps /\ tally' = [tally EXCEPT !.mishaps = @ + 1]

-----------------------------------------------------------------------------
(* The decision.                                                           *)

\* evaluate_rules, aggregate_disposition
Disposition(picture) ==
  CASE "force_reject" \in Hits[picture] -> "force_reject"
    [] "force_review" \in Hits[picture] -> "force_review"
    [] OTHER -> "continue"

\* DecisionEngine._visual_decision. `kind` is which of the three tables the
\* predicted class is in; a class the policy does not accept is routed.
VisualDecision(score) ==
  CASE score.kind = "rejected" -> "reject"
    [] score.kind = "routed" -> "review"
    [] ~score.sure -> "review"
    [] score.level = "high" -> IF AutoAccept THEN "accept" ELSE "review"
    [] score.level = "low" -> "reject"
    [] OTHER -> "review"

\* DecisionEngine.decide
DecisionFor(disposition, score) ==
  CASE disposition = "force_reject" -> "reject"
    [] disposition = "force_review" -> "review"
    [] OTHER -> VisualDecision(score)

Error == [decision |-> "error"]
ByRules == [decision |-> "reject"]

-----------------------------------------------------------------------------
(* A batch.                                                                *)

\* HttpOrLocalImageLoader.load: the next URL is tried after a failed download,
\* an unsupported type or undecodable bytes, not after too large an image.
Loaded(e, answer) ==
  LET whole == {i \in DOMAIN Urls[e] : answer[i] # "broken"}
      first == CHOOSE i \in whole : \A j \in whole : i <= j
  IN  IF whole # {} /\ answer[first] = "image" THEN Urls[e][first] ELSE Nothing
Loadable(e) == {Loaded(e, answer) : answer \in [DOMAIN Urls[e] -> {"image", "broken", "oversized"}]}

\* The places a loop over an enumerated list keeps, in order.
Ascending(places) ==
  [row \in 1 .. Cardinality(places) |->
     CHOOSE i \in places : Cardinality({j \in places : j < i}) = row - 1]

Members(batch) == {batch[i] : i \in DOMAIN batch}
Loads(batch) ==
  {picture \in [Members(batch) -> Picture \union {Nothing}] :
     \A e \in Members(batch) : picture[e] \in Loadable(e)}

\* A process starts with a configuration: a pinned revision, or none.
Standing(s) ==
  IF Doing(s, "idle") THEN {sifting[s]}
  ELSE {Fresh(c.pin, c.by) : c \in Setting}

\* classify_many: every image is loaded, or its failure is its result, and the
\* rules reject some. The model is loaded when it is first needed.
TakeBatch(s) ==
  /\ Doing(s, "off") \/ Doing(s, "idle")
  /\ tally.batches < MaxBatches /\ tally' = [tally EXCEPT !.batches = @ + 1]
  /\ \E was \in Standing(s), batch \in Batch : \E picture \in Loads(batch) :
       LET Prepared(e) == picture[e] # Nothing /\ Disposition(picture[e]) # "force_reject"
           kept     == Ascending({i \in DOMAIN batch : Prepared(batch[i])})
           prepared == [row \in DOMAIN kept |-> batch[kept[row]]]
       IN  sifting' = [sifting EXCEPT ![s] =
             [at |-> IF prepared = <<>> THEN "persisting"
                     ELSE IF was.net.model = 0 THEN "fetching" ELSE "looking",
              by |-> was.by, net |-> was.net, prepared |-> prepared, picture |-> picture,
              vectors |-> <<>>, unsaved |-> <<>>,
              results |-> [e \in Members(batch) |->
                             IF picture[e] = Nothing THEN Error ELSE ByRules]]]
  /\ UNCHANGED <<arrays, records, branch, mixed>>

\* Siglip2Backend._ensure_loaded: two downloads, the processor's first. The
\* revision is the commit the model names, or what was asked for.
FetchProcessor(s) ==
  /\ Doing(s, "fetching")
  /\ sifting' = [sifting EXCEPT ![s].at = "loading",
                               ![s].net.processor = IF Net(s).pin = 0 THEN branch ELSE Net(s).pin]
  /\ UNCHANGED <<arrays, records, branch, mixed, tally>>

FetchModel(s) ==
  /\ Doing(s, "loading")
  /\ LET model == IF Net(s).pin = 0 THEN branch ELSE Net(s).pin IN
       /\ \E named \in {model, Net(s).pin} :
            sifting' = [sifting EXCEPT ![s].at = "looking", ![s].net.model = model,
                                       ![s].net.named = named]
       /\ mixed' = mixed \union ({model} \ {Net(s).processor})
  /\ UNCHANGED <<arrays, records, branch, tally>>

-----------------------------------------------------------------------------
(* Embeddings and their cache.                                             *)

\* image_feature_cache_key, prompt_feature_cache_key
KeyOf(s, x) == <<x, Net(s).named, sifting[s].by>>
VectorOf(s, x) ==
  [of |-> x, model |-> Net(s).model, processor |-> Net(s).processor, by |-> sifting[s].by]
PictureAt(s, i) == sifting[s].picture[sifting[s].prepared[i]]

\* LocalNumpyFeatureStore.get: an entry needs both files.
Cached(k) == IF k \in records THEN arrays[k] ELSE Nothing

LookingUp(s) == Doing(s, "looking") /\ Len(sifting[s].vectors) < Len(sifting[s].prepared)
NextKey(s) == KeyOf(s, PictureAt(s, Len(sifting[s].vectors) + 1))

LookUp(s) ==
  /\ LookingUp(s)
  /\ sifting' = [sifting EXCEPT ![s].vectors = Append(@, Cached(NextKey(s)))]
  /\ UNCHANGED <<arrays, records, branch, mixed, tally>>

\* An entry that cannot be read is discarded.
LookUpFails(s) ==
  /\ LookingUp(s) /\ Cached(NextKey(s)) # Nothing /\ Mishap
  /\ sifting' = [sifting EXCEPT ![s].vectors = Append(@, Nothing)]
  /\ arrays' = [arrays EXCEPT ![NextKey(s)] = Nothing]
  /\ records' = records \ {NextKey(s)}
  /\ UNCHANGED <<branch, mixed>>

LookedUp(s) == Doing(s, "looking") /\ Len(sifting[s].vectors) = Len(sifting[s].prepared)
Missing(s) ==
  Ascending({i \in DOMAIN sifting[s].prepared : sifting[s].vectors[i] = Nothing})

Computed(s) == [row \in DOMAIN Missing(s) |-> VectorOf(s, PictureAt(s, Missing(s)[row]))]
\* Mutant: a batch that memory made it halve comes back right half first.
RowOfSwapped(missing, i) == CHOOSE row \in DOMAIN missing : missing[Len(missing) + 1 - row] = i
\* The rows of encode_images are in the order of the missing images, however
\* memory made it halve its batches.
RowFor(missing, i) == CHOOSE row \in DOMAIN missing : missing[row] = i

Encode(s) ==
  /\ LookedUp(s)
  /\ sifting' = [sifting EXCEPT
       ![s].at = "saving",
       ![s].vectors = [i \in DOMAIN @ |-> IF @[i] = Nothing THEN Computed(s)[RowFor(Missing(s), i)]
                                                          ELSE @[i]],
       ![s].unsaved = [row \in DOMAIN Missing(s) |->
                         [key |-> KeyOf(s, PictureAt(s, Missing(s)[row])), vector |-> Computed(s)[row]]]]
  /\ UNCHANGED <<arrays, records, branch, mixed, tally>>

\* LocalNumpyFeatureStore.put: the array's file is replaced, then its metadata's.
SaveArray(s) ==
  /\ Doing(s, "saving") /\ sifting[s].unsaved # <<>>
  /\ LET item == Head(sifting[s].unsaved) IN
       arrays' = [arrays EXCEPT ![item.key] = item.vector]
  /\ sifting' = [sifting EXCEPT ![s].at = "recording"]
  /\ UNCHANGED <<records, branch, mixed, tally>>

SaveRecord(s) ==
  /\ Doing(s, "recording")
  /\ records' = records \union {Head(sifting[s].unsaved).key}
  /\ sifting' = [sifting EXCEPT ![s].at = "saving", ![s].unsaved = Tail(@)]
  /\ UNCHANGED <<arrays, branch, mixed, tally>>

\* PersistenceError of the store is logged.
SaveFails(s) ==
  /\ Doing(s, "recording") \/ (Doing(s, "saving") /\ sifting[s].unsaved # <<>>)
  /\ Mishap
  /\ sifting' = [sifting EXCEPT ![s].at = "saving", ![s].unsaved = Tail(@)]
  /\ UNCHANGED <<arrays, records, branch, mixed>>

Saved(s) == Doing(s, "saving") /\ sifting[s].unsaved = <<>>

\* ZeroShotArtworkClassifier._get_prompt_embeddings
GetPrompts(s) ==
  /\ Saved(s) /\ Net(s).prompts = Nothing
  /\ LET key == KeyOf(s, Prompts) IN
       sifting' = [sifting EXCEPT
         ![s].net.prompts = IF Cached(key) = Nothing THEN VectorOf(s, Prompts) ELSE Cached(key),
         ![s].unsaved = IF Cached(key) = Nothing
                        THEN <<[key |-> key, vector |-> VectorOf(s, Prompts)]>> ELSE <<>>]
  /\ UNCHANGED <<arrays, records, branch, mixed, tally>>

-----------------------------------------------------------------------------
(* Results.                                                                *)

ResultsWith(s, result(_)) ==
  [e \in DOMAIN sifting[s].results |->
     IF \E i \in DOMAIN sifting[s].prepared : sifting[s].prepared[i] = e
     THEN result(CHOOSE i \in DOMAIN sifting[s].prepared : sifting[s].prepared[i] = e)
     ELSE sifting[s].results[e]]

Score(s) ==
  /\ Saved(s) /\ Net(s).prompts # Nothing
  /\ LET Result(i) ==
           [decision |-> DecisionFor(Disposition(PictureAt(s, i)), ScoresOf[sifting[s].vectors[i].of]),
            vector |-> sifting[s].vectors[i], prompts |-> Net(s).prompts]
     IN  sifting' = [sifting EXCEPT ![s].at = "persisting", ![s].results = ResultsWith(s, Result)]
  /\ UNCHANGED <<arrays, records, branch, mixed, tally>>

\* The model cannot be loaded or fails: no prepared candidate gets a decision.
BatchFails(s) ==
  /\ Doing(s, "fetching") \/ Doing(s, "loading") \/ LookedUp(s)
     \/ (Saved(s) /\ Net(s).prompts = Nothing)
  /\ Mishap
  /\ LET Result(i) == Error IN
       sifting' = [sifting EXCEPT ![s].at = "persisting", ![s].results = ResultsWith(s, Result)]
  /\ UNCHANGED <<arrays, records, branch, mixed>>

Returned(s, results) ==
  [at |-> "idle", by |-> sifting[s].by, net |-> Net(s), picture |-> sifting[s].picture,
   results |-> results]

Persist(s) ==
  /\ Doing(s, "persisting")
  /\ sifting' = [sifting EXCEPT ![s] = Returned(s, @.results)]
  /\ UNCHANGED <<arrays, records, branch, mixed, tally>>

\* PersistenceError of the decision store: every result becomes an error.
PersistFails(s) ==
  /\ Doing(s, "persisting") /\ Mishap
  /\ sifting' = [sifting EXCEPT ![s] = Returned(s, [e \in DOMAIN @.results |-> Error])]
  /\ UNCHANGED <<arrays, records, branch, mixed>>

Die(s) ==
  /\ ~Doing(s, "off") /\ ~Doing(s, "idle") /\ Mishap
  /\ sifting' = [sifting EXCEPT ![s] = Off]
  /\ UNCHANGED <<arrays, records, branch, mixed>>

BranchMoves ==
  /\ branch < CommitCount
  /\ branch' = branch + 1
  /\ UNCHANGED <<arrays, records, mixed, sifting, tally>>

DecisionNext ==
  \/ BranchMoves
  \/ \E s \in Sifter :
       \/ TakeBatch(s) \/ FetchProcessor(s) \/ FetchModel(s)
       \/ LookUp(s) \/ LookUpFails(s) \/ Encode(s) \/ GetPrompts(s)
       \/ SaveArray(s) \/ SaveRecord(s) \/ SaveFails(s)
       \/ Score(s) \/ BatchFails(s) \/ Persist(s) \/ PersistFails(s) \/ Die(s)

DecisionSpec == DecisionInit /\ [][DecisionNext]_decisionVars

-----------------------------------------------------------------------------
(* Properties.                                                             *)

DecisionTypeOK ==
  /\ arrays \in [Key -> Vector \union {Nothing}] /\ records \subseteq Key
  /\ branch \in 1 .. CommitCount /\ mixed \subseteq Commits

\* Whatever the cache held, lost or was half written with, a candidate that
\* the model decided was decided as its own picture deserves: on the embedding
\* of that picture and of the prompts, both from the commit the result names.
\* Only a model that does not name its commit, and a processor of another
\* commit than its model, let the cache answer with something older.
DecidedOnOwnImage ==
  \A s \in Sifter : Doing(s, "idle") =>
    \A e \in DOMAIN sifting[s].results :
      LET result == sifting[s].results[e]
          picture == sifting[s].picture[e]
      IN  "vector" \in DOMAIN result =>
            /\ result.decision = DecisionFor(Disposition(picture), ScoresOf[picture])
            /\ result.vector.of = picture /\ result.prompts.of = Prompts
            /\ Net(s).named # 0 =>
                 \A v \in {result.vector, result.prompts} :
                   /\ v.model = Net(s).model /\ v.by = sifting[s].by
                   /\ v.model \in mixed \/ v.processor = v.model
=============================================================================
