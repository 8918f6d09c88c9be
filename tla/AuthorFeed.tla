----------------------------- MODULE AuthorFeed -----------------------------
(***************************************************************************)
(* Incremental collection of Bluesky author feeds: run-authors of          *)
(* artsearch/bluesky_pipeline_cli.py with the SQLite intake state          *)
(* (bluesky/state.py), the feed client (bluesky/client.py), the scan       *)
(* progress (bluesky/candidates.py) and the batching of                    *)
(* bluesky_pipeline.py.                                                    *)
(*                                                                         *)
(* A collector is one process.  The nightly run and a refresh started from *)
(* the control page hold different locks, so two may run at once.          *)
(*                                                                         *)
(* Abstractions.  The posts of an author are numbered in the order they    *)
(* were published; a feed cursor is the number of the oldest post already  *)
(* listed.  A post carries one image or none.  Batches are handed on at    *)
(* the end of a scan, the latest moment there is.  The default feed filter *)
(* (posts_with_media) lists no reposts, and none is modelled.  A refresh   *)
(* asks for the actors of the nightly roster, under the same names.        *)
(***************************************************************************)
EXTENDS Naturals, FiniteSets, FiniteSetsExt

CONSTANTS
  Collector,     \* processes running run-authors
  Nightly,       \* the scheduled one; the others run when a person asks
  ActorCount,    \* the roster is 0 .. ActorCount - 1
  MaxPosts,      \* bound: posts each actor ever publishes
  Seeded,        \* the posts each actor has at the start
  NoImage,       \* posts without an image
  PageSize,      \* --limit
  PageCap,       \* --max-pages, per collector
  Quota,         \* --max-candidates-per-actor, per collector
  Target,        \* --max-candidates
  MaxCrashes,    \* bound: deaths of a collector
  MaxRefreshes   \* bound: runs a person asks for

Actor == 0 .. ActorCount - 1

ASSUME AuthorFeedAssumption ==
  /\ Nightly \in Collector
  /\ ActorCount \in Nat \ {0}
  /\ MaxPosts \in [Actor -> Nat]
  /\ Seeded \in [Actor -> Nat] /\ \A a \in Actor : Seeded[a] <= MaxPosts[a]
  /\ PageSize \in Nat \ {0} /\ Target \in Nat \ {0}
  /\ PageCap \in [Collector -> Nat \ {0}]
  /\ Quota \in [Collector -> Nat \ {0}]
  /\ MaxCrashes \in Nat /\ MaxRefreshes \in Nat

VARIABLES
  posts,         \* how many posts each actor has published
  high,          \* high_water_post_uri; 0 for NULL, in the next two too
  pendingHigh,   \* pending_high_water_post_uri
  resume,        \* resume_cursor
  known,         \* actors with a row in bluesky_actor_intake_state
  nextActor,     \* next_actor_index of the roster
  run,           \* what each collector is doing
  handled,       \* history: posts whose image was classified and stored
  waived,        \* history: posts an initial scan, a quota or a seed gave up on
  overlapped,    \* history: actors two collectors have scanned at once
  crashes, refreshes

feedVars == <<posts, high, pendingHigh, resume, known, nextActor, run, handled, waived, overlapped,
              crashes, refreshes>>
marks == <<high, pendingHigh, resume, known>>
feedHistory == <<handled, waived, overlapped, crashes, refreshes>>

NoRun == [pc |-> "idle"]

FeedInit ==
  /\ posts = Seeded
  /\ high = [a \in Actor |-> 0]
  /\ pendingHigh = [a \in Actor |-> 0]
  /\ resume = [a \in Actor |-> 0]
  /\ known = {}
  /\ nextActor = 0
  /\ run = [c \in Collector |-> NoRun]
  /\ handled = [a \in Actor |-> {}]
  /\ waived = [a \in Actor |-> {}]
  /\ overlapped = {}
  /\ crashes = 0 /\ refreshes = 0

Publish(a) ==
  /\ posts[a] < MaxPosts[a]
  /\ posts' = [posts EXCEPT ![a] = @ + 1]
  /\ UNCHANGED <<marks, nextActor, run, feedHistory>>

-----------------------------------------------------------------------------
(* The roster.                                                             *)

\* The actor a running collector is at.
ActorAt(c) == (run[c].start + run[c].pos) % ActorCount

\* seed_high_water, before a refresh: an actor without a row, of whom the
\* corpus has posts, starts from the newest of them.
Unseen == {a \in Actor \ known : handled[a] # {}}

\* A run begins at the stored roster position.
BeginRun(c) ==
  /\ run[c].pc = "idle"
  /\ \/ /\ c = Nightly
        /\ UNCHANGED <<marks, waived, refreshes>>
     \/ /\ c # Nightly /\ refreshes < MaxRefreshes
        /\ high' = [a \in Actor |-> IF a \in Unseen THEN Max(handled[a]) ELSE high[a]]
        /\ known' = known \union Unseen
        /\ waived' = [a \in Actor |-> IF a \in Unseen THEN waived[a] \union 1 .. Max(handled[a])
                                       ELSE waived[a]]
        /\ refreshes' = refreshes + 1
        /\ UNCHANGED <<pendingHigh, resume>>
  /\ run' = [run EXCEPT ![c] = [pc |-> "choosing", start |-> nextActor, pos |-> 0, total |-> 0]]
  /\ UNCHANGED <<posts, nextActor, handled, overlapped, crashes>>

\* The next actor: its stored marks are read once, for the whole scan.
BeginActor(c) ==
  /\ run[c].pc = "choosing"
  /\ run[c].pos < ActorCount
  /\ run[c].total < Target
  /\ LET a == ActorAt(c) IN
     /\ run' = [run EXCEPT ![c] =
                  [pc |-> "scanning", start |-> @.start, pos |-> @.pos, total |-> @.total,
                   stop |-> high[a], newest |-> pendingHigh[a], cursor |-> resume[a],
                   pages |-> 0, hand |-> {}, oldest |-> MaxPosts[a] + 1, end |-> "none"]]
     /\ overlapped' = overlapped \union
                        {b \in {a} : \E d \in Collector \ {c} :
                                       run[d].pc \notin {"idle", "choosing"} /\ ActorAt(d) = a}
  /\ UNCHANGED <<posts, marks, nextActor, handled, waived, crashes, refreshes>>

\* The roster is done, or candidate_target is reached.
EndRun(c) ==
  /\ run[c].pc = "choosing"
  /\ run[c].pos = ActorCount \/ run[c].total >= Target
  /\ run' = [run EXCEPT ![c] = NoRun]
  /\ UNCHANGED <<posts, marks, nextActor, feedHistory>>

\* advance_roster: the position after an actor.
NextPosition(c) == (ActorAt(c) + 1) % ActorCount

\* _advance_roster, after the scan of an actor or its failure.
Advance(c) ==
  /\ run[c].pc = "advancing"
  /\ nextActor' = NextPosition(c)
  /\ run' = [run EXCEPT ![c] = [pc |-> "choosing", start |-> @.start, pos |-> @.pos + 1,
                                total |-> @.total]]
  /\ UNCHANGED <<posts, marks, feedHistory>>

-----------------------------------------------------------------------------
(* A scan.                                                                 *)

\* The page of a's feed that follows a cursor, 0 for the first page.
Page(a, cursor) ==
  LET listed == {p \in 1 .. posts[a] : cursor = 0 \/ p < cursor}
  IN  {p \in listed : Cardinality({q \in listed : q > p}) < PageSize}

\* The cursor after a page: none once the oldest post was listed.
CursorAfter(page) == IF page \subseteq {1} \/ 1 \in page THEN 0 ELSE Min(page)

\* The posts of a page above the stop post, which ends the page.
Fresh(page, stop) == IF stop \in page THEN {p \in page : p > stop} ELSE page

\* One page: its posts newer than the stop post are collected, until the quota.
ScanPage(c) ==
  /\ run[c].pc = "scanning"
  /\ LET r      == run[c]
         a      == ActorAt(c)
         page   == Page(a, r.cursor)
         images == Fresh(page, r.stop) \ NoImage[a]
         room   == Quota[c] - Cardinality(r.hand)
         taken  == {p \in images : Cardinality({q \in images : q > p}) < room}
         end    == CASE Cardinality(images) >= room -> "quota"
                     [] Cardinality(images) < room /\ r.stop \in page -> "reached"
                     [] Cardinality(images) < room /\ r.stop \notin page
                          /\ CursorAfter(page) = 0 -> "exhausted"
                     [] OTHER -> IF r.pages + 1 = PageCap[c] THEN "capped" ELSE "none"
     IN run' = [run EXCEPT ![c] = [r EXCEPT
          !.pc = IF end = "none" THEN "scanning" ELSE "scanned",
          !.newest = IF r.newest = 0 /\ page # {} THEN Max(page) ELSE r.newest,
          !.cursor = CursorAfter(page),
          !.pages = r.pages + 1,
          !.hand = r.hand \union taken,
          !.oldest = IF end = "quota" THEN Min(taken) ELSE Min(page \union {r.oldest}),
          !.end = end]]
  /\ UNCHANGED <<posts, marks, nextActor, feedHistory>>

\* process_stream: the images at hand are classified, routed and stored.
Processed(c) == [handled EXCEPT ![ActorAt(c)] = @ \union run[c].hand]

\* BlueskyAPIError, once the retries are used up: what was collected is
\* processed, record_error leaves the marks alone, the roster goes on.
ScanFails(c) ==
  /\ run[c].pc = "scanning"
  /\ handled' = Processed(c)
  /\ run' = [run EXCEPT ![c].pc = "advancing", ![c].total = @ + Cardinality(run[c].hand)]
  /\ known' = known \union {ActorAt(c)}
  /\ UNCHANGED <<posts, high, pendingHigh, resume, nextActor, waived, overlapped, crashes, refreshes>>

\* The batch is processed, then record_scan reads the row it is about to write.
RecordRead(c) ==
  /\ run[c].pc = "scanned"
  /\ handled' = Processed(c)
  /\ run' = [run EXCEPT ![c] =
       [pc |-> "recording", start |-> @.start, pos |-> @.pos,
        total |-> @.total + Cardinality(@.hand),
        stop |-> @.stop, newest |-> @.newest, cursor |-> @.cursor, oldest |-> @.oldest,
        end |-> @.end, high |-> high[ActorAt(c)], pendingHigh |-> pendingHigh[ActorAt(c)]]]
  /\ UNCHANGED <<posts, marks, nextActor, waived, overlapped, crashes, refreshes>>

\* Mutant: a scan cut off by the page cap counts as complete.
CompleteWhenCapped(r) == TRUE
ScanComplete(r) == r.stop = 0 \/ r.end \in {"reached", "exhausted", "quota"}

PendingKept(r) == IF r.pendingHigh # 0 THEN r.pendingHigh ELSE r.newest

\* Mutant: the cursor that the page cap cut off is not kept.
CursorForgotten(r) == 0
CursorStored(r) == IF ScanComplete(r) THEN 0 ELSE r.cursor

\* record_scan writes: a complete scan moves the high-water mark, another
\* leaves a cursor and the mark to move to once it is complete.
RecordWrite(c) ==
  /\ run[c].pc = "recording"
  /\ LET r == run[c]  a == ActorAt(c)  done == ScanComplete(r) IN
     /\ high' = [high EXCEPT ![a] = IF done /\ r.newest # 0 THEN r.newest ELSE r.high]
     /\ pendingHigh' = [pendingHigh EXCEPT ![a] = IF done THEN 0 ELSE PendingKept(r)]
     /\ resume' = [resume EXCEPT ![a] = CursorStored(r)]
     /\ known' = known \union {a}
     /\ waived' = [waived EXCEPT ![a] = IF r.stop = 0 \/ r.end = "quota"
                                        THEN @ \union {p \in 1 .. r.newest : p < r.oldest}
                                        ELSE @]
     /\ run' = [run EXCEPT ![c] = [pc |-> "advancing", start |-> r.start, pos |-> r.pos,
                                   total |-> r.total]]
  /\ UNCHANGED <<posts, nextActor, handled, overlapped, crashes, refreshes>>

\* The process dies: what it had not recorded is lost, the batches it had
\* processed are not.
CollectorDies(c) ==
  /\ run[c].pc # "idle"
  /\ crashes < MaxCrashes
  /\ crashes' = crashes + 1
  /\ \/ UNCHANGED handled
     \/ /\ run[c].pc \in {"scanning", "scanned"}
        /\ handled' = Processed(c)
  /\ run' = [run EXCEPT ![c] = NoRun]
  /\ UNCHANGED <<posts, marks, nextActor, waived, overlapped, refreshes>>

CollectorStep(c) ==
  \/ BeginRun(c) \/ BeginActor(c) \/ EndRun(c) \/ Advance(c)
  \/ ScanPage(c) \/ RecordRead(c) \/ RecordWrite(c)

FeedNext ==
  \/ \E a \in Actor : Publish(a)
  \/ \E c \in Collector : CollectorStep(c) \/ ScanFails(c) \/ CollectorDies(c)

\* The scheduler starts nightly runs again and again and they go on; a page
\* that is asked for again and again is answered at last.  Nothing is assumed
\* of the runs a person asks for.
FeedFairness ==
  /\ WF_feedVars(CollectorStep(Nightly))
  /\ \A a \in Actor : SF_feedVars(ScanPage(Nightly) /\ ActorAt(Nightly) = a)

FeedSpec == FeedInit /\ [][FeedNext]_feedVars /\ FeedFairness

-----------------------------------------------------------------------------
(* Properties.                                                             *)

Mark(a) == 0 .. MaxPosts[a]

FeedTypeOK ==
  /\ posts \in [Actor -> Nat]
  /\ \A a \in Actor :
       /\ posts[a] \in Mark(a) /\ high[a] \in Mark(a) /\ pendingHigh[a] \in Mark(a)
       /\ resume[a] \in Mark(a)
       /\ handled[a] \subseteq Mark(a) /\ waived[a] \subseteq Mark(a)
  /\ known \subseteq Actor /\ nextActor \in Actor
  /\ \A c \in Collector : run[c].pc \in {"idle", "choosing", "scanning", "scanned", "recording",
                                         "advancing"}
  /\ overlapped \subseteq Actor
  /\ crashes \in 0 .. MaxCrashes /\ refreshes \in 0 .. MaxRefreshes

\* The high-water mark never passes an image nobody looked at: each one up to
\* the mark was processed, or an initial scan, a quota or a seed gave it up,
\* whatever errors, page caps and deaths cut the scans short.  Two collectors
\* scanning one actor at the same time can mix their marks, and then it may
\* not hold.
NoPostSkipped ==
  \A a \in Actor \ overlapped :
    \A p \in 1 .. high[a] : p \in handled[a] \union waived[a] \union NoImage[a]

\* A scan that is to be resumed remembers where it was going: the images
\* between its cursor and the mark it left pending were processed, and the
\* cursor never outlives that mark.
ResumeSound ==
  \A a \in Actor \ overlapped :
    resume[a] # 0 =>
      /\ pendingHigh[a] >= resume[a]
      /\ \A p \in resume[a] .. pendingHigh[a] :
           p \in handled[a] \union waived[a] \union NoImage[a]

\* When an actor has stopped posting, repeated runs reach its newest post,
\* although a run has a page cap per actor and stops at its target.
BacklogDrains ==
  \A a \in Actor : <>[](high[a] = posts[a])
=============================================================================
