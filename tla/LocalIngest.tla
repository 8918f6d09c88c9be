---------------------------- MODULE LocalIngest ----------------------------
(* The ingest of local folders (ingest/pipeline.py): a run walks the raw   *)
(* files in order, hashes each, skips what has a validated row already,    *)
(* and writes a canonical JPEG for the rest; an audit at its end compares  *)
(* rows and files. Files change whenever their owner likes, and a run may  *)
(* die anywhere. Corpus has the import of candidates, which shares the     *)
(* tables but none of this code.                                           *)
(*                                                                         *)
(* Abstractions. A content stands for the bytes and their hash, and for    *)
(* the canonical image made from them. Near duplicates only log a warning  *)
(* and are left out with the other events that no later run reads.         *)
EXTENDS Naturals, FiniteSets

CONSTANTS
  FileCount,    \* raw files, in the order a run meets them
  OutputOf,     \* processed_path of each: the suffix is replaced by .jpg
  Bitmap,      \* what a raw file may hold
  Unreadable,   \* contents that fail audit_image_file
  Absent,
  Torn,         \* a JPEG whose writing was cut short
  MaxChanges,   \* bound: changes of files
  MaxStops      \* bound: deaths of runs and failing writes

RawFile == 1 .. FileCount
Output == {OutputOf[f] : f \in RawFile}

ASSUME LocalIngestAssumption ==
  /\ FileCount \in Nat /\ DOMAIN OutputOf = RawFile /\ Unreadable \subseteq Bitmap
  /\ Absent \notin Bitmap /\ Torn \notin Bitmap /\ Absent # Torn
  /\ MaxChanges \in Nat /\ MaxStops \in Nat

VARIABLES
  raw,        \* what each raw file holds, or Absent
  output,     \* what each processed file holds, or Absent, or Torn
  artwork,    \* artworks by raw_path: "none", or hash, validated, has processed_path
  ingest,     \* the run: where it is, the file it is at and the hash it read
  changes, stops,
  calm,       \* history: nothing changed or failed since the run began
  switched,   \* history: files replaced between their hash and their image
  forsaken    \* history: what validated rows held that the run gave up

localVars == <<raw, output, artwork, ingest, changes, stops,
               calm, switched, forsaken>>

NoArtwork == [hash |-> Absent, validated |-> FALSE, output |-> FALSE, kept |-> FALSE]
NoIngest == [at |-> "idle", file |-> 0, hash |-> Absent]

LocalInit ==
  /\ raw \in [RawFile -> Bitmap \union {Absent}]
  /\ output = [o \in Output |-> Absent]
  /\ artwork = [f \in RawFile |-> NoArtwork]
  /\ ingest = NoIngest
  /\ changes = 0 /\ stops = 0 /\ calm = FALSE /\ switched = {} /\ forsaken = {}

-----------------------------------------------------------------------------
(* One run.                                                                *)

\* standardize_corpus, start_run
StartIngest ==
  /\ ingest.at = "idle"
  /\ ingest' = [NoIngest EXCEPT !.at = "scanning", !.file = 1]
  /\ calm' = TRUE /\ forsaken' = {}
  /\ UNCHANGED <<raw, output, artwork, changes, stops, switched>>

AtFile == ingest.at = "scanning" /\ ingest.file \in RawFile
NextFile == [NoIngest EXCEPT !.at = "scanning", !.file = ingest.file + 1]

AlreadyValidated(f) ==
  artwork[f].validated /\ artwork[f].hash = raw[f] /\ output[OutputOf[f]] # Absent

\* Mutant: the file's own row counts.
DuplicatesWithItself(f) == {g \in RawFile : artwork[g].validated /\ artwork[g].hash = raw[f]}
\* find_validated_by_hash
DuplicatesOf(f) == {g \in RawFile \ {f} : artwork[g].validated /\ artwork[g].hash = raw[f]}

\* Not a file any more, or unreadable, or there already, or a duplicate.
SkipFile ==
  /\ AtFile
  /\ LET f == ingest.file IN
       raw[f] \in Unreadable \union {Absent} \/ AlreadyValidated(f) \/ DuplicatesOf(f) # {}
  /\ ingest' = NextFile
  /\ UNCHANGED <<raw, output, artwork, changes, stops, calm, switched, forsaken>>

\* What validated rows name although their files hold it no longer.
HashesOf(files) ==
  {artwork[f].hash : f \in {g \in files : artwork[g].validated /\ artwork[g].hash # raw[g]}}

\* insert_artwork or update_artwork_standardization: not valid until its image is written.
TakeFile ==
  /\ AtFile
  /\ LET f == ingest.file IN
       /\ raw[f] \in Bitmap \ Unreadable /\ ~AlreadyValidated(f) /\ DuplicatesOf(f) = {}
       /\ artwork' = [artwork EXCEPT ![f] =
            [@ EXCEPT !.kept = TRUE, !.hash = raw[f], !.validated = FALSE]]
       /\ ingest' = [ingest EXCEPT !.at = "taken", !.hash = raw[f]]
       /\ forsaken' = forsaken \union HashesOf({f})
  /\ UNCHANGED <<raw, output, changes, stops, calm, switched>>

\* standardize_image reads the file again, and truncates its output.
OpenOutput ==
  /\ ingest.at = "taken" /\ raw[ingest.file] \in Bitmap \ Unreadable
  /\ output' = [output EXCEPT ![OutputOf[ingest.file]] = Torn]
  /\ ingest' = [ingest EXCEPT !.at = "writing", !.hash = raw[ingest.file]]
  /\ switched' = IF raw[ingest.file] = artwork[ingest.file].hash THEN switched \ {ingest.file}
                ELSE switched \union {ingest.file}
  /\ UNCHANGED <<raw, artwork, changes, stops, calm, forsaken>>

WriteOutput ==
  /\ ingest.at = "writing"
  /\ output' = [output EXCEPT ![OutputOf[ingest.file]] = ingest.hash]
  /\ ingest' = [ingest EXCEPT !.at = "written"]
  /\ UNCHANGED <<raw, artwork, changes, stops, calm, switched, forsaken>>

MarkValidated ==
  /\ ingest.at = "written"
  /\ artwork' = [artwork EXCEPT ![ingest.file] = [@ EXCEPT !.validated = TRUE, !.output = TRUE]]
  /\ ingest' = NextFile
  /\ UNCHANGED <<raw, output, changes, stops, calm, switched, forsaken>>

\* standardization_failed: the file went away or broke, or the disk is full.
FileFails ==
  /\ \/ /\ ingest.at = "taken" /\ raw[ingest.file] \notin Bitmap \ Unreadable
        /\ UNCHANGED <<stops, output>>
     \/ /\ ingest.at = "writing" /\ stops < MaxStops /\ stops' = stops + 1
        /\ output' \in {output, [output EXCEPT ![OutputOf[ingest.file]] = Absent]}
  /\ calm' = FALSE /\ ingest' = NextFile
  /\ UNCHANGED <<raw, artwork, changes, switched, forsaken>>

Vanished(f) ==
  \/ raw[f] = Absent
  \/ artwork[f].validated /\ (~artwork[f].output \/ output[OutputOf[f]] = Absent)

\* _audit_corpus_metadata and finish_run
AuditCorpus ==
  /\ ingest.at = "scanning" /\ ingest.file \notin RawFile
  /\ LET lost == {f \in RawFile : artwork[f].kept /\ Vanished(f)} IN
       /\ artwork' = [f \in RawFile |->
            IF f \in lost THEN [artwork[f] EXCEPT !.validated = FALSE] ELSE artwork[f]]
       /\ forsaken' = forsaken \union HashesOf(lost)
  /\ ingest' = [NoIngest EXCEPT !.at = "ended"]
  /\ UNCHANGED <<raw, output, changes, stops, calm, switched>>

EndIngest ==
  /\ ingest.at = "ended" /\ ingest' = NoIngest /\ calm' = FALSE
  /\ UNCHANGED <<raw, output, artwork, changes, stops, switched, forsaken>>

IngestDies ==
  /\ ingest.at \notin {"idle", "ended"} /\ stops < MaxStops
  /\ stops' = stops + 1 /\ ingest' = NoIngest /\ calm' = FALSE
  /\ UNCHANGED <<raw, output, artwork, changes, switched, forsaken>>

-----------------------------------------------------------------------------
(* The owner of the files.                                                 *)

Edited == changes < MaxChanges /\ changes' = changes + 1 /\ calm' = FALSE

ChangeRaw(f) ==
  /\ Edited
  /\ raw' \in {[raw EXCEPT ![f] = c] : c \in (Bitmap \union {Absent}) \ {raw[f]}}
  /\ UNCHANGED <<output, artwork, ingest, stops, switched, forsaken>>

RemoveOutput(o) ==
  /\ Edited /\ output[o] # Absent /\ ~(ingest.at = "writing" /\ OutputOf[ingest.file] = o)
  /\ output' = [output EXCEPT ![o] = Absent]
  /\ UNCHANGED <<raw, artwork, ingest, stops, switched, forsaken>>

LocalNext ==
  \/ StartIngest \/ SkipFile \/ TakeFile \/ OpenOutput \/ WriteOutput \/ MarkValidated
  \/ FileFails \/ AuditCorpus \/ EndIngest \/ IngestDies
  \/ \E f \in RawFile : ChangeRaw(f)
  \/ \E o \in Output : RemoveOutput(o)

LocalSpec == LocalInit /\ [][LocalNext]_localVars

-----------------------------------------------------------------------------
(* Properties.                                                             *)

LocalTypeOK ==
  /\ raw \in [RawFile -> Bitmap \union {Absent}]
  /\ output \in [Output -> Bitmap \union {Absent, Torn}]
  /\ \A f \in RawFile : artwork[f].hash \in Bitmap \union {Absent}
  /\ switched \subseteq RawFile
  /\ ingest.at \in {"idle", "scanning", "taken", "writing", "written", "ended"}
  /\ changes \in 0 .. MaxChanges /\ stops \in 0 .. MaxStops

Alone(f) == \A g \in RawFile : OutputOf[g] = OutputOf[f] => g = f

\* A run that nothing disturbed leaves every readable image in the corpus: some
\* validated row's processed file was made from it, whatever earlier runs died
\* of or skipped. Three exceptions: files whose names differ in the suffix only
\* share one processed file; an image that was replaced between its hash and
\* its reading and then put back; a copy of a file that this run found gone or
\* changed after it had skipped the copy, which the next run takes up.
RunCoversFolder ==
  ingest.at = "ended" /\ calm =>
    \A f \in RawFile :
      raw[f] \in Bitmap \ Unreadable /\ raw[f] \notin forsaken /\ Alone(f) =>
        \E g \in RawFile :
          /\ artwork[g].validated /\ artwork[g].hash = raw[f]
          /\ output[OutputOf[g]] = raw[f] \/ g \in switched \/ ~Alone(g)
=============================================================================
