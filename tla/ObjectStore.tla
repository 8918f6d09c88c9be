----------------------------- MODULE ObjectStore -----------------------------
(* Publication of the corpus's images as immutable objects                 *)
(* (production/publisher.py and production/object_store.py).  A            *)
(* publication reads the rows it has to publish, gives each image to a     *)
(* thread, and records the references a batch obtained in one SQLite       *)
(* transaction.  put_file reads its source twice, to hash and to send.     *)
(* The intake run and an operator publish at the same time; images may be  *)
(* replaced meanwhile; store calls fail, and may have taken effect.        *)
(* A batch is the whole publication.  An object is named by its hash.      *)
EXTENDS Integers, FiniteSets

CONSTANTS
  Agent,        \* processes calling publish_corpus_images
  Image,        \* artworks with a standardized image
  Content,      \* what an image file can hold
  InitialFile,  \* what it holds first
  MissingFile,  \* no file
  MaxAttempts,  \* attempts per image
  MaxReplaced,  \* bound on the replacements of an image file
  MaxFailures,  \* bound on the failing calls of the store
  MaxPublishes  \* bound on the publications

ASSUME StoreAssumption ==
  /\ MissingFile \notin Content
  /\ InitialFile \in [Image -> Content]
  /\ MaxAttempts \in Nat \ {0}
  /\ MaxReplaced \in Nat /\ MaxFailures \in Nat /\ MaxPublishes \in Nat

VARIABLES
  backend,    \* the provider: LocalObjectStore or S3ObjectStore
  disk,       \* the image files
  stock,      \* the objects: what is stored under a hash
  reference,  \* artwork_objects: content_sha256 per artwork
  thread,     \* per publication and image: where _publish_row stands
  replaced,   \* replacements so far
  failures,   \* failing calls so far
  publishes,  \* publications so far
  swapped     \* history: hashes whose file was replaced between its two readings

storeVars ==
  <<backend, disk, stock, reference, thread, replaced, failures, publishes, swapped>>

Resting == [at |-> "resting"]

Threads ==
  [at : {"queued", "hashed", "identified", "absent", "copied", "sent"}, known : Content \cup {MissingFile},
   hash : Content \cup {MissingFile}, bytes : Content \cup {MissingFile}, attempts : 1..MaxAttempts]
  \cup [at : {"published"}, hash : Content]
  \cup {[at |-> "unchanged"], [at |-> "failed"], Resting}

StoreTypeOK ==
  /\ backend \in {"local", "s3"}
  /\ disk \in [Image -> Content \cup {MissingFile}]
  /\ stock \in [Content -> Content \cup {MissingFile}]
  /\ reference \in [Image -> Content \cup {MissingFile}]
  /\ thread \in [Agent -> [Image -> Threads]]
  /\ replaced \in 0..MaxReplaced /\ failures \in 0..MaxFailures /\ publishes \in 0..MaxPublishes
  /\ swapped \subseteq Content

StoreInit ==
  /\ backend \in {"local", "s3"}
  /\ disk = InitialFile
  /\ stock = [b \in Content |-> MissingFile]
  /\ reference = [i \in Image |-> MissingFile]
  /\ thread = [g \in Agent |-> [i \in Image |-> Resting]]
  /\ replaced = 0 /\ failures = 0 /\ publishes = 0 /\ swapped = {}

Stand(g, i, to) == thread' = [thread EXCEPT ![g][i] = to]

\* Another import rewrites the standardized image, or retention deletes it (Corpus).
ReplaceImage(i, b) ==
  /\ replaced < MaxReplaced /\ disk[i] # b
  /\ disk' = [disk EXCEPT ![i] = b]
  /\ replaced' = replaced + 1
  /\ swapped' = swapped \cup {thread[g][i].hash : g \in {h \in Agent :
                                thread[h][i].at = "identified"}}
  /\ UNCHANGED <<backend, stock, reference, thread, failures, publishes>>

\* publish_corpus_images: _eligible_rows joins what the artwork's reference says.
ReadRows(g) ==
  /\ publishes < MaxPublishes
  /\ \A i \in Image : thread[g][i].at = "resting"
  /\ publishes' = publishes + 1
  /\ thread' = [thread EXCEPT ![g] = [i \in Image |->
       [at |-> "queued", known |-> reference[i], hash |-> MissingFile, bytes |-> MissingFile,
        attempts |-> 1]]]
  /\ UNCHANGED <<backend, disk, stock, reference, replaced, failures, swapped>>

\* _publish_row, before its attempts: the file must exist; its hash makes the key.
HashImage(g, i) ==
  /\ thread[g][i].at = "queued"
  /\ Stand(g, i, IF disk[i] = MissingFile THEN [at |-> "failed"]
                 ELSE [thread[g][i] EXCEPT !.at = "hashed", !.hash = disk[i]])
  /\ UNCHANGED <<backend, disk, stock, reference, replaced, failures, publishes, swapped>>

\* An attempt that raised: the next one begins anew, or there is none left.
Retried(t) ==
  IF t.attempts < MaxAttempts THEN [t EXCEPT !.at = "hashed", !.attempts = @ + 1]
  ELSE [at |-> "failed"]

\* The reference already says this hash and the object exists.
KnownPublished(t) == t.known = t.hash /\ stock[t.hash] # MissingFile

\* An attempt: unchanged, or put_file hashes the source again and compares.
IdentifySource(g, i) ==
  LET t == thread[g][i]
  IN  /\ t.at = "hashed"
      /\ Stand(g, i, CASE KnownPublished(t) -> [at |-> "unchanged"]
                       [] ~KnownPublished(t) /\ disk[i] # t.hash -> Retried(t)
                       [] OTHER -> [t EXCEPT !.at = "identified"])
      /\ UNCHANGED <<backend, disk, stock, reference, replaced, failures, publishes, swapped>>

\* The object exists: equal bytes are a reference, others a collision, which is final.
\* The local store reads the object; S3 trusts the sha256 its writer attached.
Found(t) ==
  IF backend = "s3" \/ stock[t.hash] = t.hash THEN [at |-> "published", hash |-> t.hash]
  ELSE [at |-> "failed"]

FindObject(g, i) ==
  /\ thread[g][i].at = "identified" /\ stock[thread[g][i].hash] # MissingFile
  /\ Stand(g, i, Found(thread[g][i]))
  /\ UNCHANGED <<backend, disk, stock, reference, replaced, failures, publishes, swapped>>

\* The local store copies the source to a temporary file beside the object.
CopyLocally(g, i) ==
  /\ backend = "local"
  /\ thread[g][i].at = "identified" /\ stock[thread[g][i].hash] = MissingFile
  /\ Stand(g, i, IF disk[i] = MissingFile THEN Retried(thread[g][i])
                 ELSE [thread[g][i] EXCEPT !.at = "copied", !.bytes = disk[i]])
  /\ UNCHANGED <<backend, disk, stock, reference, replaced, failures, publishes, swapped>>

\* os.link makes the name appear with all its bytes, or finds that it exists.
Links(h) == stock[h] = MissingFile

LinkLocally(g, i) ==
  LET t == thread[g][i]
  IN  /\ t.at = "copied"
      /\ IF Links(t.hash)
         THEN /\ stock' = [stock EXCEPT ![t.hash] = t.bytes]
              /\ Stand(g, i, [at |-> "published", hash |-> t.hash])
         ELSE Stand(g, i, Found(t)) /\ UNCHANGED stock
      /\ UNCHANGED <<backend, disk, reference, replaced, failures, publishes, swapped>>

\* Mutant: no ContentMD5.
BodyUnchecked(t, body) == TRUE

\* S3 refuses a body whose MD5 is not the one sent with it.
BodyAccepted(t, body) == body = t.hash

LookRemotely(g, i) ==
  /\ backend = "s3"
  /\ thread[g][i].at = "identified" /\ stock[thread[g][i].hash] = MissingFile
  /\ Stand(g, i, [thread[g][i] EXCEPT !.at = "absent"])
  /\ UNCHANGED <<backend, disk, stock, reference, replaced, failures, publishes, swapped>>

\* The upload replaces what another publication stored since, and may take effect although
\* the call fails.
SendRemote(g, i) ==
  LET t == thread[g][i]
  IN  /\ t.at = "absent"
      /\ IF disk[i] # MissingFile /\ BodyAccepted(t, disk[i])
         THEN /\ stock' = [stock EXCEPT ![t.hash] = disk[i]]
              /\ \/ Stand(g, i, [t EXCEPT !.at = "sent"]) /\ UNCHANGED failures
                 \/ /\ failures < MaxFailures /\ failures' = failures + 1
                    /\ Stand(g, i, Retried(t))
         ELSE Stand(g, i, Retried(t)) /\ UNCHANGED <<stock, failures>>
      /\ UNCHANGED <<backend, disk, reference, replaced, publishes, swapped>>

\* The head request: size and sha256 metadata are those just sent.
VerifyRemote(g, i) ==
  /\ thread[g][i].at = "sent"
  /\ Stand(g, i, [at |-> "published", hash |-> thread[g][i].hash])
  /\ UNCHANGED <<backend, disk, stock, reference, replaced, failures, publishes, swapped>>

\* Any call may fail before it takes effect.
CallFails(g, i) ==
  /\ thread[g][i].at \in {"hashed", "identified", "absent", "copied", "sent"}
  /\ failures < MaxFailures /\ failures' = failures + 1
  /\ Stand(g, i, Retried(thread[g][i]))
  /\ UNCHANGED <<backend, disk, stock, reference, replaced, publishes, swapped>>

Ended(t) == t.at \in {"published", "unchanged", "failed"}

\* The references of the batch are one transaction; a failing one counts its images failed.
Checkpoint(g) ==
  /\ \A i \in Image : Ended(thread[g][i])
  /\ \/ reference' = [i \in Image |-> IF thread[g][i].at = "published" THEN thread[g][i].hash
                                      ELSE reference[i]]
        /\ UNCHANGED failures
     \/ failures < MaxFailures /\ failures' = failures + 1 /\ UNCHANGED reference
  /\ thread' = [thread EXCEPT ![g] = [i \in Image |-> Resting]]
  /\ UNCHANGED <<backend, disk, stock, replaced, publishes, swapped>>

PublicationDies(g) ==
  /\ \E i \in Image : thread[g][i].at # "resting"
  /\ failures < MaxFailures /\ failures' = failures + 1
  /\ thread' = [thread EXCEPT ![g] = [i \in Image |-> Resting]]
  /\ UNCHANGED <<backend, disk, stock, reference, replaced, publishes, swapped>>

StoreNext ==
  \/ \E i \in Image, b \in Content \cup {MissingFile} : ReplaceImage(i, b)
  \/ \E g \in Agent :
       \/ ReadRows(g) \/ Checkpoint(g) \/ PublicationDies(g)
       \/ \E i \in Image :
            \/ HashImage(g, i) \/ IdentifySource(g, i) \/ FindObject(g, i)
            \/ CopyLocally(g, i) \/ LinkLocally(g, i)
            \/ LookRemotely(g, i) \/ SendRemote(g, i) \/ VerifyRemote(g, i) \/ CallFails(g, i)

StoreSpec == StoreInit /\ [][StoreNext]_storeVars

(* Properties *)

\* A reference names an object that exists and holds the bytes of its hash. The local
\* store does not look at what it copied: an image replaced between the two readings is
\* stored under the hash of the one before it.
ReferenceHoldsItsBytes ==
  \A i \in Image :
    reference[i] # MissingFile =>
      \/ stock[reference[i]] = reference[i]
      \/ backend = "local" /\ reference[i] \in swapped /\ stock[reference[i]] # MissingFile
=============================================================================
