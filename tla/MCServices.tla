----------------------------- MODULE MCServices -----------------------------
(* Instances for TLC of the components that share no state in the code or  *)
(* only share what each of them models: a behaviour is one component's,    *)
(* `part`, and the others stay as they began.                              *)
EXTENDS Corpus, CorpusControl, ImportLedger, ObjectStore, IntakeLauncher, QdrantSync,
        DiscoveryGraph, SchemaUpgrade, TLC

CONSTANTS x, y, null, c1, c2, s1, s2, pa, pb, k1, k2, a1, i1, i2, b1, b2, e1, e2, a2,
          o1, o2, o3, w1, w2

VARIABLE part

MCCandidate == {x, y}
MCBytesOf == x :> <<"first", "second">> @@ y :> <<"first">>

MCServer == {s1, s2}

MCPublisher == {pa, pb}
MCPost == {k1, k2}
MCPiece == {a1}
MCShownAs == k1 :> a1 @@ k2 :> a1
MCFirst == a1 :> k1
MCCallsOf ==
  pa :> {[full |-> FALSE, scope |-> {k}, replace |-> FALSE] : k \in MCPost} @@
  pb :> {[full |-> TRUE, scope |-> MCPost, replace |-> r] : r \in BOOLEAN}

MCAgent == {pa, pb}
MCImage == {i1, i2}
MCContent == {b1, b2}
MCInitialFile == i1 :> b1 @@ i2 :> b2

MCWork == {a1, a2}
MCEdition == {e1, e2}
MCSync == {s1, s2}

MCProcess == {pa, pb}
MCDid == {x, y}
MCRef == {a1}
MCSuggestion ==
  {[campaign |-> k1, parent |-> a1, did |-> x, edge |-> "search_hit", depth |-> 0],
   [campaign |-> k1, parent |-> x, did |-> y, edge |-> "follows", depth |-> 1],
   [campaign |-> k1, parent |-> y, did |-> x, edge |-> "follows", depth |-> 1]}
MCFeeds == x :> {<<[image |-> i1, post |-> k1, cid |-> b1, quoted |-> y]>>} @@ y :> {}

MCOpener == {o1, o2, o3}
MCRow == {w1, w2}

\* What the direct sync finds: no artwork, one, or both (which edition is
\* the first one the other is tells nothing apart).
MCHalf == [w \in Work |-> IF w = a1 THEN null ELSE e1]
MCWhole == [w \in Work |-> e1]

MCInit ==
  /\ part \in {"corpus", "control", "ledger", "store", "launch", "sync", "graph",
               "upgrade"}
  /\ CorpusInit
  /\ ControlInit
  /\ LedgerInit
  /\ StoreInit
  /\ part # "store" => backend = "local"
  /\ LaunchInit
  /\ SyncInit
  /\ \/ corpus = [w \in Work |-> null]
     \/ part = "sync" /\ corpus \in {MCHalf, MCWhole}
  /\ GraphInit
  /\ UpgradeInit

MCNext ==
  \/ /\ part = "corpus" /\ CorpusNext
     /\ UNCHANGED <<part, controlVars, ledgerVars, storeVars, launchVars, syncVars,
                    graphVars, upgradeVars>>
  \/ /\ part = "control" /\ ControlNext
     /\ UNCHANGED <<part, corpusVars, ledgerVars, storeVars, launchVars, syncVars,
                    graphVars, upgradeVars>>
  \/ /\ part = "ledger" /\ LedgerNext
     /\ UNCHANGED <<part, corpusVars, controlVars, storeVars, launchVars, syncVars,
                    graphVars, upgradeVars>>
  \/ /\ part = "store" /\ StoreNext
     /\ UNCHANGED <<part, corpusVars, controlVars, ledgerVars, launchVars, syncVars,
                    graphVars, upgradeVars>>
  \/ /\ part = "launch" /\ LaunchNext
     /\ UNCHANGED <<part, corpusVars, controlVars, ledgerVars, storeVars, syncVars,
                    graphVars, upgradeVars>>
  \/ /\ part = "sync" /\ SyncNext
     /\ UNCHANGED <<part, corpusVars, controlVars, ledgerVars, storeVars, launchVars,
                    graphVars, upgradeVars>>
  \/ /\ part = "graph" /\ GraphNext
     /\ UNCHANGED <<part, corpusVars, controlVars, ledgerVars, storeVars, launchVars,
                    syncVars, upgradeVars>>
  \/ /\ part = "upgrade" /\ UpgradeNext
     /\ UNCHANGED <<part, corpusVars, controlVars, ledgerVars, storeVars, launchVars,
                    syncVars, graphVars>>

MCSpec ==
  MCInit /\ [][MCNext]_<<part, corpusVars, controlVars, ledgerVars, storeVars,
                         launchVars, syncVars, graphVars, upgradeVars>>

\* The parts that do not move tell no states apart.
MCView ==
  <<part, CASE part = "corpus" -> corpusVars
            [] part = "control" -> controlVars
            [] part = "ledger" -> ledgerVars
            [] part = "store" -> storeVars
            [] part = "launch" -> launchVars
            [] part = "sync" -> syncVars
            [] part = "graph" -> graphVars
            [] part = "upgrade" -> upgradeVars>>
=============================================================================
