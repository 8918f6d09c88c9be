----------------------------- MODULE MCBluesky ------------------------------
(* Instances for TLC of what is read from Bluesky page by page: the feeds  *)
(* of authors, and the initial sources of a discovery campaign. A          *)
(* behaviour is that of one of them, `part`; the other stays as it began.  *)
EXTENDS AuthorFeed, MCSeedSources

CONSTANTS night, refresh

VARIABLE part

MCCollector == {night, refresh}
MCMaxPosts == 0 :> 3 @@ 1 :> 1
MCSeeded == 0 :> 1 @@ 1 :> 1
MCNoImage == 0 :> {1} @@ 1 :> {1}
MCPageCap == night :> 1 @@ refresh :> 2
MCQuota == night :> 2 @@ refresh :> 1

MCInit ==
  /\ part \in {"feed", "sources"}
  /\ FeedInit
  /\ SourcesInit

\* Every source has come to its end.
SourcesEnded == (\A s \in Source : Stands(s, "ended")) /\ UNCHANGED sourceVars

MCNext ==
  \/ part = "feed" /\ FeedNext /\ UNCHANGED <<part, sourceVars>>
  \/ part = "sources" /\ (SourcesNext \/ SourcesEnded) /\ UNCHANGED <<part, feedVars>>

\* The fairness is that of the feeds, as BacklogDrains is about them.
MCSpec == MCInit /\ [][MCNext]_<<part, feedVars, sourceVars>> /\ FeedFairness
=============================================================================
