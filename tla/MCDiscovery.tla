---------------------------- MODULE MCDiscovery -----------------------------
(* An instance for TLC of the ways works come in: the moderation of        *)
(* creators, the budgets and the fan-out of discovery campaigns, the       *)
(* artwork filter that decides what they sample and its batch runs, or the *)
(* ingest of a local folder. A behaviour is that of one of them, `part`;   *)
(* the others stay as they began.                                          *)
EXTENDS MCCreators, Campaign, FilterDecisions, FilterRuns, LocalIngest

CONSTANTS p, q, da, db, dc, x, y, pa, pb, pc, k1, k2, null

VARIABLE part

MCCampaigner == {p, q}
MCDid == {da, db, dc}
MCSampleTask == {db, dc}
MCExpandTask == {<<"outbound", da>>, <<"suggested", da>>}
MCListed == <<"outbound", da>> :> {db, dc} @@ <<"suggested", da>> :> {db, dc}
MCRequestBudget == p :> 4 @@ q :> 1
MCSeed == {db}

MCEntry == {x, y}
MCBatch == {<<x, y>>, <<y>>}
MCPicture == {pa, pb, pc}
MCUrls == x :> <<pa>> @@ y :> <<pb, pc>>
MCHits == pa :> {} @@ pb :> {"force_review"} @@ pc :> {"force_review", "force_reject"}
MCScoresOf ==
  pa :> [kind |-> "art", sure |-> TRUE, level |-> "high"] @@
  pb :> [kind |-> "rejected", sure |-> TRUE, level |-> "low"] @@
  pc :> [kind |-> "art", sure |-> FALSE, level |-> "high"]
MCSetting == {[pin |-> 0, by |-> 1], [pin |-> 1, by |-> 2]}

MCConfig == {k1, k2}

MCOutputOf == <<x, y, x>>
MCBitmap == {k1, k2, "bad"}
MCUnreadable == {"bad"}

MCInit ==
  /\ part \in {"creators", "campaign", "decision", "filter", "local"}
  /\ Init
  /\ CampaignInit
  /\ DecisionInit
  /\ FilterInit
  /\ LocalInit
  /\ part # "local" => raw = [f \in RawFile |-> null]

MCNext ==
  \/ /\ part = "creators" /\ Next
     /\ UNCHANGED <<part, campaignVars, decisionVars, filterVars, localVars>>
  \/ /\ part = "campaign" /\ CampaignNext
     /\ UNCHANGED <<part, vars, decisionVars, filterVars, localVars>>
  \/ /\ part = "decision" /\ DecisionNext
     /\ UNCHANGED <<part, vars, campaignVars, filterVars, localVars>>
  \/ /\ part = "filter" /\ FilterNext
     /\ UNCHANGED <<part, vars, campaignVars, decisionVars, localVars>>
  \/ /\ part = "local" /\ LocalNext
     /\ UNCHANGED <<part, vars, campaignVars, decisionVars, filterVars>>

MCSpec ==
  MCInit /\ [][MCNext]_<<part, vars, campaignVars, decisionVars, filterVars, localVars>>

\* The parts that do not move tell no states apart.
MCView ==
  <<part, CASE part = "creators" -> vars
            [] part = "campaign" -> campaignVars
            [] part = "decision" -> decisionVars
            [] part = "filter" -> filterVars
            [] part = "local" -> localVars>>
=============================================================================
