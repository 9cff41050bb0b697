------------------------- MODULE MCRefreshPipeline -------------------------
(***************************************************************************)
(* RefreshPipeline in two scenes: two markets refreshed by runs of their   *)
(* own, public scans in between; or one market with every kind of visitor, *)
(* several refreshes and every failure.                                    *)
(***************************************************************************)
EXTENDS RefreshPipeline, TLC

VARIABLE scene  \* the only market, or NoMarket when there are two

TwoMarketsNext ==
    /\ \/ Start \/ SpawnedRuns \/ Flush \/ RankFill \/ RankStore \/ Finish
       \/ \E scope \in Scopes : Nightly(scope)
       \/ \E m \in Markets : \/ IngestTicker(m) \/ RankRead(m) \/ Snapshot(m)
                             \/ Ask(m) \/ Publish(m) \/ Expire(m)
       \/ \E k \in Running : ScanRead(k) \/ ScanFill(k) \/ ScanStore(k)
    /\ generation' <= 1 /\ (run'.pc = "ingest" => generation = 0)
    /\ Cardinality({k \in TaskKeys : scans'[k].pc # "none"}) <= 1

OneMarketNext(only) ==
    \/ Nightly({only})
    \/ IngestTicker(only) \/ RankRead(only) \/ Snapshot(only)
    \/ Flush \/ PostFails \/ RankFill \/ RankStore \/ RunFails \/ Finish
    \/ Ask(only) \/ Browse(only) \/ BrowseStore(only)
    \/ \E k \in Running : ScanRead(k) \/ ScanFill(k) \/ ScanStore(k) \/ ScanFails(k)
    \/ \E p \in Pages : PageFill(p) \/ PageRead(p, only)
    \/ Publish(only) \/ Expire(only)

MCInit == Init /\ scene \in Markets \union {NoMarket}

MCNext ==
    /\ UNCHANGED scene
    /\ \/ scene = NoMarket /\ TwoMarketsNext
       \/ scene # NoMarket /\ OneMarketNext(scene)

MCSpec == MCInit /\ [][MCNext]_<<vars, scene>>

Symmetry == Permutations(Markets) \union Permutations(Pages)
=============================================================================
