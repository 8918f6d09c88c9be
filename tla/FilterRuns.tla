----------------------------- MODULE FilterRuns -----------------------------
(***************************************************************************)
(* Classifying a file of candidates, and going on after a crash:           *)
(* classify_candidate_jsonl (artwork_filter/batch.py), the batches of      *)
(* ArtworkFilterService (artwork_filter/service.py), the decision file     *)
(* (artwork_filter/persistence.py) and the command that ties them together *)
(* (artwork_filter/cli.py).                                                *)
(*                                                                         *)
(* A run appends its decisions batch by batch, each with one write, and    *)
(* one that resumes skips what the file has decided.  A crash or a full    *)
(* disk cuts a write short, perhaps inside a row; the next row written     *)
(* then stands on the same line and nobody can read it.                    *)
(*                                                                         *)
(* Abstractions.  Candidates are numbered in the order of the input and    *)
(* each has one version.  The readable rows of a file are a set.  Accept,  *)
(* review and reject are one outcome unless the rules alone rejected.  The *)
(* model's revision and the prompts change only with the configuration.    *)
(* storage.durability_mode is strict, the default.                         *)
(***************************************************************************)
EXTENDS Naturals, FiniteSets, FiniteSetsExt

CONSTANTS
  CandidateCount,
  BatchSize,      \* model.batch_size
  Config,         \* configuration hashes
  MaxSweeps       \* bound: runs

Cands == 1 .. CandidateCount

ASSUME FilterAssumption == {CandidateCount, BatchSize} \subseteq Nat \ {0} /\ MaxSweeps \in Nat

VARIABLES
  decisions,   \* the decision file: its rows, and whether it ends inside one
  staged,      \* the temporary file of a run that overwrites
  sweep,       \* the run (sweep) under way, or the last one
  sweeps       \* runs started

filterVars == <<decisions, staged, sweep, sweeps>>

EmptyFile == [rows |-> {}, torn |-> FALSE]
NoSweep == [pc |-> "none"]

FilterInit == decisions = EmptyFile /\ staged = EmptyFile /\ sweep = NoSweep /\ sweeps = 0

-----------------------------------------------------------------------------
(* What a row says.                                                        *)

\* An error row has neither prompt nor scores, a rejection by the rules has
\* no scores, and without the model (deterministic_only) none has any.
Prompt(row) == row.visual /\ row.outcome # "error"
Revision(row) == row.visual /\ row.outcome = "decided"

\* Mutant: a row that reports an error counts as well.
CountsEveryRow(row) == TRUE
CountsOutcome(row) == row.outcome # "error"

\* completed_candidate_keys
Completed(config, visual) ==
  {row.candidate : row \in {r \in decisions.rows :
     /\ r.config = config
     /\ Revision(r) = visual \/ r.outcome = "rules"
     /\ Prompt(r) = visual
     /\ CountsOutcome(r)}}

-----------------------------------------------------------------------------
(* Runs.                                                                   *)

Sweeping == sweep.pc = "running"

\* --resume, --append, or neither: then the file is replaced once the first
\* batch is written.
StartSweep(mode, visual, config) ==
  /\ ~Sweeping /\ sweeps < MaxSweeps
  /\ sweeps' = sweeps + 1
  /\ sweep' = [pc |-> "running", visual |-> visual, config |-> config,
               onto |-> IF mode = "overwrite" THEN "staged" ELSE "decisions",
               left |-> IF mode = "resume" THEN Cands \ Completed(config, visual) ELSE Cands,
               failed |-> {}, garbled |-> {}, refused |-> FALSE]
  /\ staged' = EmptyFile
  /\ UNCHANGED decisions

NextBatch == {c \in sweep.left : Cardinality({d \in sweep.left : d < c}) < BatchSize}
File == IF sweep.onto = "staged" THEN staged ELSE decisions

\* Candidates of the batch whose rows have reached the file, and the one whose
\* row went onto a torn line.
Garbled(written) == IF File.torn /\ written # {} THEN {Min(written)} ELSE {}
Appended(outcome, written, torn) ==
  [rows |-> File.rows \union {[candidate |-> c, config |-> sweep.config, visual |-> sweep.visual,
                               outcome |-> outcome[c]] : c \in written \ Garbled(written)},
   torn |-> torn]

\* A prefix of the batch; a write that stops inside a row leaves a torn line,
\* and one that writes nothing leaves the one there was.
CutShort(written, torn) ==
  /\ \A c \in written, d \in NextBatch \ written : c < d
  /\ written = NextBatch => ~torn
  /\ written = {} /\ File.torn => torn

\* The batch is loaded, classified and written.  Writing it publishes what a
\* run has staged.
BatchWritten ==
  /\ Sweeping /\ NextBatch # {}
  /\ \E outcome \in [NextBatch -> {"decided", "rules", "error"}] :
       /\ decisions' = Appended(outcome, NextBatch, FALSE)
       /\ sweep' = [sweep EXCEPT !.left = @ \ NextBatch, !.onto = "decisions",
                               !.failed = @ \union {c \in NextBatch : outcome[c] = "error"},
                               !.garbled = @ \union Garbled(NextBatch)]
  /\ staged' = EmptyFile
  /\ UNCHANGED sweeps

\* A write that fails or is interrupted.
PartOfBatch ==
  \E outcome \in [NextBatch -> {"decided", "rules", "error"}], written \in SUBSET NextBatch,
     torn \in BOOLEAN :
    /\ CutShort(written, torn)
    /\ LET file == Appended(outcome, written, torn) IN
       IF sweep.onto = "staged" THEN staged' = file /\ UNCHANGED decisions
                                ELSE decisions' = file /\ UNCHANGED staged

\* PersistenceError: every result of the batch becomes an error, which is not
\* written, and the run goes on.
BatchRefused ==
  /\ Sweeping /\ NextBatch # {}
  /\ PartOfBatch
  /\ sweep' = [sweep EXCEPT !.left = @ \ NextBatch, !.failed = @ \union NextBatch, !.refused = TRUE]
  /\ UNCHANGED sweeps

\* The input is through; an overwriting run that wrote nothing empties the file.
FinishSweep ==
  /\ Sweeping /\ sweep.left = {}
  /\ decisions' = File
  /\ staged' = EmptyFile
  /\ sweep' = [sweep EXCEPT !.pc = "finished"]
  /\ UNCHANGED sweeps

\* The process ends, while it writes or elsewhere, and what it staged is lost.
Crash ==
  /\ Sweeping
  /\ \/ UNCHANGED <<decisions, staged>>
     \/ NextBatch # {} /\ PartOfBatch
  /\ sweep' = NoSweep
  /\ UNCHANGED sweeps

FilterNext ==
  \/ \E mode \in {"overwrite", "append", "resume"}, visual \in BOOLEAN, config \in Config :
       StartSweep(mode, visual, config)
  \/ BatchWritten \/ BatchRefused \/ FinishSweep \/ Crash

FilterSpec == FilterInit /\ [][FilterNext]_filterVars

-----------------------------------------------------------------------------
(* Properties.                                                             *)

RowSet == [candidate : Cands, config : Config, visual : BOOLEAN,
           outcome : {"decided", "rules", "error"}]

FilterTypeOK ==
  /\ decisions.rows \subseteq RowSet /\ staged.rows \subseteq RowSet
  /\ {decisions.torn, staged.torn} \subseteq BOOLEAN
  /\ sweeps \in 0 .. MaxSweeps
  /\ sweep # NoSweep => /\ sweep.pc \in {"running", "finished"}
                        /\ sweep.onto \in {"staged", "decisions"}
                        /\ sweep.left \union sweep.failed \union sweep.garbled \subseteq Cands

\* A run that comes to its end has a readable decision in the file for every
\* candidate of its input, made with the run's own configuration and model,
\* or has reported the candidate as an error: also when it skipped what
\* earlier runs had decided, whatever they were and wherever they stopped.
\* Only the row that follows a torn one is lost, and if no write of this run
\* failed there is at most one such row.
FinishedRunDecided ==
  sweep.pc = "finished" =>
    /\ \A c \in Cands \ (sweep.failed \union sweep.garbled) :
         \E row \in decisions.rows : /\ row.candidate = c /\ row.outcome # "error"
                                     /\ row.config = sweep.config /\ row.visual = sweep.visual
    /\ sweep.refused \/ Cardinality(sweep.garbled) <= 1
=============================================================================
