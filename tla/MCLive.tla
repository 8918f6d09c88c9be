------------------------------- MODULE MCLive -------------------------------
(* An instance for TLC of what must come to an end: the tasks of the       *)
(* discovery frontier, and the queries of the image search service. A      *)
(* behaviour is that of one of them, `part`; the other stays as it began.  *)
EXTENDS MCFrontier, MCImageSearch

VARIABLE part

MCRequest == {r1, r2}

MCInit ==
  /\ part \in {"frontier", "search"}
  /\ Init
  /\ SearchInit

\* Every request has had its answer: the service waits for the next.
Answered ==
  /\ \A r \in Request : pc[r] \in {"answered", "raised", "abandoned"}
  /\ UNCHANGED searchVars

MCNext ==
  \/ part = "frontier" /\ Next /\ UNCHANGED <<part, searchVars>>
  \/ part = "search" /\ (SearchNext \/ Answered) /\ UNCHANGED <<part, vars>>

MCSpec == MCInit /\ [][MCNext]_<<part, vars, searchVars>> /\ Fairness /\ SearchFairness
=============================================================================
