---------------------------- MODULE ReviewQueue -----------------------------
(* Human review of filter decisions: reviewers on the dashboard            *)
(* (monitoring/review.py) and an operator with the review CSV              *)
(* (artwork_filter/review_export.py, labels.py) append labels to one JSONL *)
(* file, while filter runs decide the same candidates again.  A label      *)
(* names the decision it judges, and an evaluation looks that decision up  *)
(* in the database or in the decision file.                                *)
EXTENDS Naturals, Sequences, FiniteSets, FiniteSetsExt, SequencesExt

CONSTANTS
  Reviewer,       \* threads of the dashboard, and operators with a CSV
  ProcessOf,      \* the process of a reviewer
  Dashboard,      \* the processes that serve the dashboard
  Pick,           \* candidates of the filter
  Verdict,        \* what a label says
  MaxDecisions,   \* bound: decisions in all
  MaxLabels,      \* bound: labels written by reviewers in all
  MayTear         \* whether a write may be cut short

ASSUME ReviewAssumption ==
  /\ ProcessOf \in [Reviewer -> STRING] /\ Dashboard \subseteq STRING
  /\ {MaxDecisions, MaxLabels} \subseteq Nat /\ MayTear \in BOOLEAN

VARIABLES
  decided,  \* how many decisions there were; a decision is its number
  file,     \* the decisions in the decision file, by candidate
  rows,     \* the decisions in the database, by candidate
  dated,    \* the time of the last label
  lines,    \* the labels in the file
  torn,     \* whether the label file ends inside a line
  hand      \* what each reviewer is doing

reviewVars == <<decided, file, rows, dated, lines, torn, hand>>
labelVars == <<decided, file, rows, dated, lines, torn>>

Label ==
  [pick : Pick, says : Verdict, source : 1 .. MaxDecisions, time : 1 .. MaxLabels,
   seen : 1 .. MaxDecisions, known : 1 .. MaxDecisions, by : Reviewer]
NoHand == [at |-> "idle"]

ReviewInit ==
  /\ decided = 0
  /\ file = [c \in Pick |-> {}]
  /\ rows = [c \in Pick |-> {}]
  /\ dated = 0 /\ lines = <<>> /\ torn = FALSE
  /\ hand = [r \in Reviewer |-> NoHand]

Serves(r) == ProcessOf[r] \in Dashboard

-----------------------------------------------------------------------------
(* Filter runs.                                                            *)

\* A run appends its decision to the file or, without append, replaces the
\* file by it.
Decide(c) ==
  /\ decided < MaxDecisions
  /\ decided' = decided + 1
  /\ \E kept \in {file, [d \in Pick |-> {}]} :
       file' = [kept EXCEPT ![c] = @ \union {decided'}]
  /\ UNCHANGED <<rows, dated, lines, torn, hand>>

\* The import of the decision file into the database.
ImportDecisions ==
  /\ rows' = [c \in Pick |-> rows[c] \union file[c]]
  /\ rows' # rows
  /\ UNCHANGED <<decided, file, dated, lines, torn, hand>>

-----------------------------------------------------------------------------
(* Labels.                                                                 *)

LatestRow(c) == Max(rows[c])
LatestInFile(c) == Max(file[c])

Look(r, c, decision) ==
  /\ hand[r].at = "idle"
  /\ hand' = [hand EXCEPT ![r] = [at |-> "looking", pick |-> c, seen |-> decision]]
  /\ UNCHANGED labelVars

\* filter_item shows a candidate with its latest decision; it reads the label
\* file, too, and fails when that ends inside a line.
ShowItem(r, c) == Serves(r) /\ ~torn /\ rows[c] # {} /\ Look(r, c, LatestRow(c))

\* export_review_queue writes the latest decision of the file into the CSV.
ExportItem(r, c) == ~Serves(r) /\ file[c] # {} /\ Look(r, c, LatestInFile(c))

\* The reviewer answers: the label is made, and dated, before any lock.
Answers(r, v, source) ==
  /\ hand[r].at = "looking"
  /\ dated < MaxLabels
  /\ dated' = dated + 1
  /\ hand' = [hand EXCEPT ![r] =
       [at |-> "labeled",
        label |-> [pick |-> @.pick, says |-> v, source |-> source, time |-> dated',
                   seen |-> @.seen, known |-> Max(file[@.pick] \union rows[@.pick] \union {@.seen}),
                   by |-> r]]]
  /\ UNCHANGED <<decided, file, rows, lines, torn>>

\* submit_filter_label reads the candidate's row again.
SubmitLabel(r, v) == Serves(r) /\ hand[r].at = "looking" /\ Answers(r, v, LatestRow(hand[r].pick))

\* A row of the CSV says itself which decision it shows.
ImportRow(r, v) == ~Serves(r) /\ hand[r].at = "looking" /\ Answers(r, v, hand[r].seen)

\* with_annotation_hash: everything but the label's id and its date.
Annotation(l) == <<l.pick, l.says, l.source>>

\* Mutant: the dashboard's requests do not wait for each other.
NobodyWrites(r) == TRUE
\* The write lock of one dashboard process.
WriteLockFree(r) ==
  \A q \in Reviewer : ProcessOf[q] = ProcessOf[r] => hand[q].at # "writing"

AnnotationsOnFile == {Annotation(l) : l \in ToSet(lines)}

\* append_many reads the annotations on file; it raises at a torn line.
ReadAnnotations(r) ==
  /\ hand[r].at = "labeled"
  /\ WriteLockFree(r)
  /\ hand' = [hand EXCEPT ![r] =
       IF torn THEN NoHand
       ELSE [at |-> "writing", label |-> @.label, onFile |-> AnnotationsOnFile]]
  /\ UNCHANGED labelVars

\* An annotation on file is not written again; a line that follows a torn one
\* becomes part of it.
WriteLabel(r) ==
  /\ hand[r].at = "writing"
  /\ lines' = IF torn \/ Annotation(hand[r].label) \in hand[r].onFile THEN lines
              ELSE Append(lines, hand[r].label)
  /\ hand' = [hand EXCEPT ![r] = NoHand]
  /\ UNCHANGED <<decided, file, rows, dated, torn>>

\* The disk is full in the middle of the line.
WriteTorn(r) ==
  /\ hand[r].at = "writing" /\ MayTear
  /\ Annotation(hand[r].label) \notin hand[r].onFile
  /\ torn' = TRUE
  /\ hand' = [hand EXCEPT ![r] = NoHand]
  /\ UNCHANGED <<decided, file, rows, dated, lines>>

-----------------------------------------------------------------------------
(* Evaluation.                                                             *)

\* latest_labels.
LatestLabels(c) ==
  {l \in ToSet(lines) : l.pick = c /\ \A k \in ToSet(lines) : k.pick = c => k.time <= l.time}

\* Mutant: the latest decision is the one judged.
LatestDecision(history, l) == IF history = {} THEN {} ELSE {Max(history)}
\* _decision_for_label: the decision the label names, or a missing snapshot.
DecisionForLabel(history, l) == history \intersect {l.source}

Samples(store) ==
  UNION {{<<l, d>> : d \in DecisionForLabel(store[l.pick], l)} :
           l \in UNION {LatestLabels(c) : c \in Pick}}
DatabaseSamples == Samples(rows)
FileSamples == Samples(file)

ReviewNext ==
  \/ \E c \in Pick : Decide(c)
  \/ ImportDecisions
  \/ \E r \in Reviewer :
       \/ \E c \in Pick : ShowItem(r, c) \/ ExportItem(r, c)
       \/ \E v \in Verdict : SubmitLabel(r, v) \/ ImportRow(r, v)
       \/ ReadAnnotations(r) \/ WriteLabel(r) \/ WriteTorn(r)

ReviewSpec == ReviewInit /\ [][ReviewNext]_reviewVars

-----------------------------------------------------------------------------
(* Properties.                                                             *)

ReviewTypeOK ==
  /\ decided \in 0 .. MaxDecisions /\ dated \in 0 .. MaxLabels /\ torn \in BOOLEAN
  /\ file \in [Pick -> SUBSET (1 .. decided)] /\ rows \in [Pick -> SUBSET (1 .. decided)]
  /\ lines \in Seq(Label)
  /\ \A r \in Reviewer : hand[r].at \in {"idle", "looking", "labeled", "writing"}

\* The file holds no annotation twice, however often it is submitted: only two
\* processes that both read the file before either wrote can repeat one.
OneLinePerAnnotation ==
  \A i, j \in DOMAIN lines :
    i < j /\ Annotation(lines[i]) = Annotation(lines[j])
      => ProcessOf[lines[i].by] # ProcessOf[lines[j].by]

\* An evaluation judges a decision its reviewer was shown, or one made before
\* the answer: never one that a run made afterwards, whichever decisions the
\* database has got and the file has lost meanwhile.
EvaluatedAsSeen ==
  \A s \in DatabaseSamples \union FileSamples :
    s[1].seen <= s[2] /\ s[2] <= s[1].known
=============================================================================
