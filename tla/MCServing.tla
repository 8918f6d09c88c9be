----------------------------- MODULE MCServing ------------------------------
(* An instance of search for TLC: the image search service, the FAISS      *)
(* snapshots behind it, the fusion of ranks, the HTTP gateway, the         *)
(* feedback on what a search showed, or the reviewers' labels. A behaviour *)
(* is that of one of them, `part`; the others stay as they began.          *)
EXTENDS MCImageSearch, FaissSnapshots, RankFusion, Gateway, ResultFeedback, ReviewQueue,
        OperationsReport

CONSTANTS b1, b2, v1, v2, m, n, a1, a2, s1, s2, k1, k2, q1, x, y, ra, rb, rc, null,
          bare, broken

VARIABLE part

MCBuilder == {b1, b2}
MCVersion == {v1, v2}
MCGrade == {1, 2}
MCPlannedPoints == {2}

MCArtistName == {m, n}
MCTopK == {1, 2}

MCShard == {s1, s2}
MCCall == {k1, k2}
MCCaller == {<<"search", m>>, <<"visit", m>>, <<"search", n>>}
MCHomeOf == m :> s1 @@ n :> s1
MCQuota == "search" :> 2 @@ "visit" :> 1

MCSearch == {q1}
MCResult == {a1, a2}
MCShownOf == q1 :> <<a1, a2>>
MCMark == {"bad", "great"}

MCReviewer == {ra, rb, rc}
MCProcessOf == ra :> "dash" @@ rb :> "dash" @@ rc :> "csv"
MCDashboard == {"dash"}
MCPick == {x}
MCVerdict == {y}

MCArtwork == {x, y}
MCLine ==
  {[image |-> x, at |-> 3, error |-> TRUE, class |-> m],
   [image |-> x, at |-> 2, error |-> FALSE, class |-> m],
   [image |-> y, at |-> 3, error |-> FALSE, class |-> n]}
MCLines == <<[image |-> x, at |-> 2, error |-> FALSE, class |-> m]>>

MCInit ==
  /\ part \in {"search", "faiss", "fusion", "gateway", "feedback", "review", "monitor"}
  /\ SearchInit
  /\ FaissInit
  /\ part # "faiss" => eligible = 0 /\ limit = 1 /\ ~verify
  /\ FusionInit
  /\ part # "fusion" => place["style"] = place["clip"] /\ by = [k \in Art |-> m] /\ cap = 1
  /\ GatewayInit
  /\ FeedbackInit
  /\ ReviewInit
  /\ MonitorInit
  \* No alert depends on both: PostgreSQL is varied with a green index only.
  /\ world.postgres # "disabled" => world.endpoint = "green"

MCNext ==
  \/ /\ part = "search" /\ SearchNext
     /\ UNCHANGED <<part, faissVars, fusionVars, gatewayVars, feedbackVars, reviewVars,
                    monitorVars>>
  \/ /\ part = "faiss" /\ FaissNext
     /\ UNCHANGED <<part, searchVars, fusionVars, gatewayVars, feedbackVars, reviewVars,
                    monitorVars>>
  \/ /\ part = "fusion" /\ FusionNext
     /\ UNCHANGED <<part, searchVars, faissVars, gatewayVars, feedbackVars, reviewVars,
                    monitorVars>>
  \/ /\ part = "gateway" /\ GatewayNext
     /\ UNCHANGED <<part, searchVars, faissVars, fusionVars, feedbackVars, reviewVars,
                    monitorVars>>
  \/ /\ part = "feedback" /\ FeedbackNext
     /\ UNCHANGED <<part, searchVars, faissVars, fusionVars, gatewayVars, reviewVars,
                    monitorVars>>
  \/ /\ part = "review" /\ ReviewNext
     /\ UNCHANGED <<part, searchVars, faissVars, fusionVars, gatewayVars, feedbackVars,
                    monitorVars>>
  \/ /\ part = "monitor" /\ MonitorNext
     /\ UNCHANGED <<part, searchVars, faissVars, fusionVars, gatewayVars, feedbackVars,
                    reviewVars>>

MCSpec ==
  MCInit /\ [][MCNext]_<<part, searchVars, faissVars, fusionVars, gatewayVars,
                         feedbackVars, reviewVars, monitorVars>>

\* The parts that do not move tell no states apart.
MCView ==
  <<part, CASE part = "search" -> searchVars
            [] part = "faiss" -> faissVars
            [] part = "fusion" -> fusionVars
            [] part = "gateway" -> gatewayVars
            [] part = "feedback" -> feedbackVars
            [] part = "review" -> reviewVars
            [] part = "monitor" -> monitorVars>>
=============================================================================
