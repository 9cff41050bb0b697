----------------------- MODULE RefreshPipeline_proofs -----------------------
(***************************************************************************)
(* Proofs about RefreshPipeline: for any markets, pages, versions and      *)
(* number of refreshes, the generation guard keeps both caches current,    *)
(* answers every caller from data at least as new as the last refresh it   *)
(* could know of, and makes last_refresh_at tell the truth.                *)
(***************************************************************************)
EXTENDS RefreshPipeline, TLAPS

\* The initial state is well typed.
LEMMA InitTypeOK == Init => TypeOK
BY PipelineAssumption
   DEF Init, TypeOK, IdleRun, NoScan, IdlePage, NoBrowse, Runs, Scans, Versions, TaskKeys

\* Only integers are compared: what TypeOK says of the numbers.
LEMMA Numbers ==
    ASSUME TypeOK
    PROVE  /\ generation \in Int
           /\ \A m \in Markets : /\ published[m] \in 1..MaxVersion
                                 /\ db[m] \in 1..MaxVersion
                                 /\ flushed[m] \in 1..MaxVersion
                                 /\ history[m] \in Versions
                                 /\ ranking[m] \in Versions
                                 /\ longTerm[m] \in Versions
                                 /\ served[m] \in Versions
                                 /\ browses[m].got \in Versions
                                 /\ browses[m].generation \in 0..MaxGeneration
           /\ \A k \in TaskKeys : /\ k[1] \in Markets
                                  /\ k[2] \in 0..MaxGeneration
                                  /\ scans[k].got \in Versions
                                  /\ scans[k].floor \in Versions
                                  /\ scans[k].generation \in 0..MaxGeneration
           /\ \A p \in Pages : pages[p].got \in Versions
           /\ run.got \in Versions
           /\ run.asked \in [Markets -> Versions]
           /\ 1..MaxVersion \subseteq Versions
           /\ Versions \subseteq Int
BY PipelineAssumption DEF TypeOK, Runs, Scans, Versions, TaskKeys

\* PutHistory keeps the entry and the ghost in range.
LEMMA PutHistoryType ==
    ASSUME TypeOK, NEW m \in Markets, NEW got \in Versions, PutHistory(m, got)
    PROVE  history' \in [Markets -> Versions] /\ late' \subseteq Markets
BY DEF TypeOK, PutHistory

\* A run that has just taken the lock.
LEMMA TakeLockType ==
    ASSUME TypeOK, NEW scope \in SUBSET Markets, TakeLock(scope)
    PROVE  run' \in Runs /\ run'.pc = "ingest"
<1>1. published \in [Markets -> Versions]
    BY DEF TypeOK, Versions
<1>2. run' = [pc |-> "ingest", scope |-> scope, todo |-> scope, failed |-> {},
              skipped |-> {}, market |-> NoMarket, got |-> 0, asked |-> published]
    BY DEF TakeLock, IdleRun
<1>. QED BY <1>1, <1>2, PipelineAssumption DEF Runs, Versions

\* A run that goes on from the ingest to the rankings is a run.
LEMMA SetOutToRank ==
    ASSUME NEW r \in Runs, NEW todo \in SUBSET Markets, NEW none \in SUBSET Markets,
           NEW asked \in [Markets -> Versions]
    PROVE  [r EXCEPT !.pc = "rank", !.todo = todo, !.failed = none, !.skipped = none,
                     !.asked = asked] \in Runs
<1>1. [r EXCEPT !.pc = "rank", !.todo = todo] \in Runs
    BY DEF Runs
<1>2. \A s \in Runs : [s EXCEPT !.failed = none] \in Runs
    BY DEF Runs
<1>3. \A s \in Runs : [s EXCEPT !.skipped = none] \in Runs
    BY DEF Runs
<1>4. \A s \in Runs : [s EXCEPT !.asked = asked] \in Runs
    BY DEF Runs
<1>. QED BY <1>1, <1>2, <1>3, <1>4

\* Every step keeps every variable in its range.
LEMMA NextTypeOK == TypeOK /\ [Next]_vars => TypeOK'
<1>. SUFFICES ASSUME TypeOK, [Next]_vars PROVE TypeOK'
    OBVIOUS
<1>. USE PipelineAssumption DEF caches, requests, ghosts
<1>0. MaxGeneration \in Int /\ MaxVersion \in Int /\ MaxSpawned \in Int
    OBVIOUS
<1>1. ASSUME NEW m \in Markets, Publish(m) PROVE TypeOK'
    BY <1>1 DEF Publish, TypeOK
<1>2. ASSUME NEW m \in Markets, Expire(m) PROVE TypeOK'
  <2>1. /\ 0 \in Versions
        /\ history \in [Markets -> Versions]
        /\ ranking \in [Markets -> Versions]
        /\ longTerm \in [Markets -> Versions]
      BY DEF Versions, TypeOK
  <2>2. /\ history' \in [Markets -> Versions]
        /\ ranking' \in [Markets -> Versions]
        /\ longTerm' \in [Markets -> Versions]
      BY <1>2, <2>1 DEF Expire
  <2>. QED BY <1>2, <2>2 DEF Expire, TypeOK
<1>3. CASE Start
    BY <1>3 DEF Start, TypeOK
<1>5. ASSUME NEW scope \in SUBSET Markets, Nightly(scope) PROVE TypeOK'
  <2>1. run' \in Runs /\ run'.pc = "ingest"
      BY <1>5, TakeLockType DEF Nightly
  <2>. QED BY <1>5, <2>1 DEF Nightly, TakeLock, TypeOK
<1>6. CASE SpawnedRuns
  <2>1. ASSUME NEW scope \in Scopes, TakeLock(scope) PROVE TypeOK'
    <3>1. run' \in Runs /\ run'.pc = "ingest"
        BY <2>1, TakeLockType DEF Scopes
    <3>2. spawned' \in 0..MaxSpawned
        BY <1>6 DEF SpawnedRuns, TypeOK
    <3>. QED BY <2>1, <3>1, <3>2 DEF TakeLock, TypeOK
  <2>2. CASE ~MayRun /\ UNCHANGED <<published, db, caches, run, requests, ghosts>>
      BY <1>6, <2>2 DEF SpawnedRuns, TypeOK
  <2>. QED BY <1>6, <2>1, <2>2 DEF SpawnedRuns
<1>7. ASSUME NEW m \in Markets, IngestTicker(m) PROVE TypeOK'
  <2>1. run' \in Runs /\ run'.pc = "ingest"
    <3>. DEFINE todo == run.todo \ {m}
                failed == run.failed \union {m}
                skipped == run.skipped \union {m}
    <3>1. /\ run \in Runs /\ run.pc = "ingest" /\ todo \in SUBSET Markets
          /\ failed \in SUBSET Markets /\ skipped \in SUBSET Markets
        BY <1>7 DEF IngestTicker, TypeOK, Runs
    <3>2. \/ run' = [run EXCEPT !.todo = todo]
          \/ run' = [run EXCEPT !.todo = todo, !.failed = failed]
          \/ run' = [run EXCEPT !.todo = todo, !.skipped = skipped]
        BY <1>7 DEF IngestTicker
    <3>. HIDE DEF todo, failed, skipped
    <3>. QED BY <3>1, <3>2 DEF Runs
  <2>2. db' \in [Markets -> 1..MaxVersion]
      BY <1>7 DEF IngestTicker, TypeOK
  <2>. QED BY <1>7, <2>1, <2>2 DEF IngestTicker, TypeOK
<1>8. IdleRun \in Runs /\ IdleRun.pc = "idle"
    BY DEF IdleRun, Runs, Versions
<1>9. CASE Flush
  <2>1. run' \in Runs /\ run'.pc \notin {"fill", "store"}
    <3>1. run \in Runs /\ Fetched \in [Markets -> Versions]
        BY Numbers DEF TypeOK, Runs, Fetched
    <3>2. \/ run' = IdleRun
          \/ run' = [run EXCEPT !.pc = "rank", !.todo = run.scope, !.failed = {},
                               !.skipped = {}, !.asked = Fetched]
        BY <1>9 DEF Flush
    <3>3. CASE run' = IdleRun
        BY <1>8, <3>3
    <3>4. CASE run' = [run EXCEPT !.pc = "rank", !.todo = run.scope, !.failed = {},
                                  !.skipped = {}, !.asked = Fetched]
        <4>1. run'.pc = "rank"
            BY <3>1, <3>4 DEF Runs
        <4>2. run.scope \in SUBSET Markets /\ {} \in SUBSET Markets
            BY <3>1 DEF Runs
        <4>3. run' \in Runs
            BY <3>1, <3>4, <4>2, SetOutToRank
        <4>. QED BY <4>1, <4>3
    <3>. QED BY <3>2, <3>3, <3>4
  <2>2. /\ history' \in [Markets -> Versions]
        /\ ranking' \in [Markets -> Versions]
        /\ longTerm' \in [Markets -> Versions]
      BY <1>9 DEF Flush, Dropped, TypeOK, Versions
  <2>3. generation' \in 0..MaxGeneration /\ flushed' \in [Markets -> 1..MaxVersion]
      BY <1>9 DEF Flush, TypeOK
  <2>. QED BY <1>9, <2>1, <2>2, <2>3 DEF Flush, TypeOK
<1>10. CASE PostFails
    BY <1>8, <1>10 DEF PostFails, TypeOK
<1>11. ASSUME NEW m \in Markets, RankRead(m) PROVE TypeOK'
  <2>1. run' \in Runs /\ run'.market = m
    <3>. DEFINE todo == run.todo \ {m}
                got == IF history[m] # 0 THEN history[m] ELSE db[m]
                pc == IF history[m] # 0 THEN "store" ELSE "fill"
    <3>1. run \in Runs /\ todo \in SUBSET Markets /\ got \in Versions /\ pc \in {"fill", "store"}
        BY DEF TypeOK, Runs, Versions
    <3>2. run' = [run EXCEPT !.todo = todo, !.market = m, !.got = got, !.pc = pc]
        BY <1>11 DEF RankRead
    <3>. HIDE DEF todo, got, pc
    <3>. QED BY <3>1, <3>2 DEF Runs
  <2>. QED BY <1>11, <2>1 DEF RankRead, TypeOK
<1>12. CASE RankFill
  <2>1. run.market \in Markets /\ run.got \in Versions
      BY <1>12 DEF RankFill, TypeOK, Runs
  <2>2. history' \in [Markets -> Versions] /\ late' \subseteq Markets
      BY <1>12, <2>1, PutHistoryType DEF RankFill
  <2>3. run' \in Runs /\ run'.market = run.market
      BY <1>12 DEF RankFill, TypeOK, Runs
  <2>. QED BY <1>12, <2>1, <2>2, <2>3 DEF RankFill, TypeOK
<1>13. CASE RankStore
  <2>1. run' \in Runs /\ run'.pc \in {"rank", "snapshot"}
    <3>. DEFINE todo == IF run.todo # {} THEN run.todo ELSE run.scope
                pc == IF run.todo # {} THEN "rank" ELSE "snapshot"
    <3>1. run \in Runs /\ todo \in SUBSET Markets /\ pc \in {"rank", "snapshot"} /\ 0 \in Versions
        BY DEF TypeOK, Runs, Versions
    <3>2. run' = [run EXCEPT !.market = NoMarket, !.got = 0, !.pc = pc, !.todo = todo]
        BY <1>13 DEF RankStore
    <3>. HIDE DEF todo, pc
    <3>. QED BY <3>1, <3>2 DEF Runs
  <2>2. ranking' \in [Markets -> Versions]
      BY <1>13 DEF RankStore, TypeOK, Runs
  <2>. QED BY <1>13, <2>1, <2>2 DEF RankStore, TypeOK
<1>14. CASE RunFails
    BY <1>8, <1>14 DEF RunFails, TypeOK
<1>15. ASSUME NEW m \in Markets, Snapshot(m) PROVE TypeOK'
  <2>1. run' \in Runs /\ run'.pc = "snapshot"
      BY <1>15 DEF Snapshot, TypeOK, Runs
  <2>2. longTerm' \in [Markets -> Versions]
      BY <1>15 DEF Snapshot, TypeOK, Versions
  <2>. QED BY <1>15, <2>1, <2>2 DEF Snapshot, TypeOK
<1>16. CASE Finish
  <2>1. served' \in [Markets -> Versions]
      BY <1>16 DEF Finish, TypeOK, Runs
  <2>. QED BY <1>8, <1>16, <2>1 DEF Finish, TypeOK
<1>17. ASSUME NEW m \in Markets, Ask(m) PROVE TypeOK'
  <2>1. TaskKey(m) \in TaskKeys /\ flushed[m] \in Versions
      BY <1>17 DEF TaskKey, TaskKeys, TypeOK, Versions
  <2>2. scans' \in [TaskKeys -> Scans]
    <3>. DEFINE k == TaskKey(m)
                pc == IF k \in Running THEN scans[k].pc ELSE "start"
                asked == [pc |-> pc, generation |-> scans[k].generation,
                          got |-> scans[k].got, floor |-> flushed[m]]
    <3>1. scans[k] \in Scans
        BY <2>1 DEF TypeOK
    <3>2. asked \in Scans
        BY <2>1, <3>1 DEF Scans
    <3>3. scans' = [scans EXCEPT ![k] = asked]
        BY <1>17 DEF Ask
    <3>. HIDE DEF asked, k
    <3>. QED BY <3>2, <3>3 DEF TypeOK
  <2>. QED BY <1>17, <2>2 DEF Ask, TypeOK
<1>18. ASSUME NEW k \in TaskKeys, ScanRead(k) PROVE TypeOK'
  <2>1. k[1] \in Markets
      BY DEF TaskKeys
  <2>2. scans' \in [TaskKeys -> Scans]
      BY <1>18, <2>1 DEF ScanRead, TypeOK, Scans, Versions
  <2>. QED BY <1>18, <2>2 DEF ScanRead, TypeOK
<1>19. ASSUME NEW k \in TaskKeys, ScanFill(k) PROVE TypeOK'
  <2>1. k[1] \in Markets /\ scans[k].got \in Versions
      BY DEF TaskKeys, TypeOK, Scans
  <2>2. history' \in [Markets -> Versions] /\ late' \subseteq Markets
      BY <1>19, <2>1, PutHistoryType DEF ScanFill
  <2>3. scans' \in [TaskKeys -> Scans]
      BY <1>19 DEF ScanFill, TypeOK, Scans
  <2>. QED BY <1>19, <2>2, <2>3 DEF ScanFill, TypeOK
<1>20. NoScan \in Scans
    BY DEF NoScan, Scans, Versions
<1>21. ASSUME NEW k \in TaskKeys, ScanStore(k) PROVE TypeOK'
  <2>1. k[1] \in Markets /\ scans[k].got \in Versions
      BY DEF TaskKeys, TypeOK, Scans
  <2>2. ranking' \in [Markets -> Versions]
      BY <1>21, <2>1 DEF ScanStore, TypeOK
  <2>3. scans' \in [TaskKeys -> Scans]
      BY <1>20, <1>21 DEF ScanStore, TypeOK
  <2>. QED BY <1>21, <2>2, <2>3 DEF ScanStore, TypeOK
<1>22. ASSUME NEW k \in TaskKeys, ScanFails(k) PROVE TypeOK'
    BY <1>20, <1>22 DEF ScanFails, TypeOK
<1>23. ASSUME NEW p \in Pages, NEW m \in Markets, PageRead(p, m) PROVE TypeOK'
  <2>1. db[m] \in Versions
      BY DEF TypeOK, Versions
  <2>. QED BY <1>23, <2>1 DEF PageRead, TypeOK
<1>24. ASSUME NEW p \in Pages, PageFill(p) PROVE TypeOK'
  <2>1. pages[p].market \in Markets /\ pages[p].got \in Versions
      BY <1>24 DEF PageFill, TypeOK
  <2>2. history' \in [Markets -> Versions] /\ late' \subseteq Markets
      BY <1>24, <2>1, PutHistoryType DEF PageFill
  <2>. QED BY <1>24, <2>2 DEF PageFill, IdlePage, TypeOK, Versions
<1>25. ASSUME NEW m \in Markets, Browse(m) PROVE TypeOK'
    BY <1>25 DEF Browse, TypeOK, Versions
<1>26. ASSUME NEW m \in Markets, BrowseStore(m) PROVE TypeOK'
  <2>1. longTerm' \in [Markets -> Versions]
      BY <1>26 DEF BrowseStore, TypeOK
  <2>. QED BY <1>26, <2>1 DEF BrowseStore, NoBrowse, TypeOK, Versions
<1>27. CASE UNCHANGED vars
    BY <1>27 DEF vars, TypeOK
<1>. QED
    BY <1>1, <1>2, <1>3, <1>5, <1>6, <1>7, <1>9, <1>10, <1>11, <1>12, <1>13, <1>14, <1>15,
       <1>16, <1>17, <1>18, <1>19, <1>21, <1>22, <1>23, <1>24, <1>25, <1>26, <1>27
    DEF Next, Refresh, Visitors, Scopes

\* Every variable of the pipeline stays in its range.
THEOREM TypeCorrect == Spec => []TypeOK
BY InitTypeOK, NextTypeOK, PTL DEF Spec

---------------------------------------------------------------------------
(* The inductive invariant. *)

\* Initially nothing is cached, in flight or refreshed.
LEMMA InitPipeline == Init => PipelineInv
BY PipelineAssumption
   DEF Init, PipelineInv, TablesInv, RunInv, ScanInv, BrowseInv, CachesAreCurrent,
       AnswersAreCurrent, Current, IdleRun, NoScan, NoBrowse, TaskKeys

\* What a step that leaves a part of the state alone keeps, one fact per part.  Entries
\* put back from before a flush only ever join late, and excuse more.
LEMMA FrameTables ==
    ASSUME PipelineInv, UNCHANGED <<published, db, flushed, served>>
    PROVE  TablesInv'
BY DEF PipelineInv, TablesInv

LEMMA FrameRun ==
    ASSUME PipelineInv, UNCHANGED <<published, db, flushed, run>>, late \subseteq late'
    PROVE  RunInv'
BY DEF PipelineInv, RunInv, PassedOver

LEMMA FrameScans ==
    ASSUME PipelineInv, UNCHANGED <<generation, flushed, scans>>, late \subseteq late'
    PROVE  (\A k \in TaskKeys : ScanInv(k)') /\ AnswersAreCurrent'
BY DEF PipelineInv, ScanInv, AnswersAreCurrent, TaskKeys

LEMMA FrameBrowses ==
    ASSUME PipelineInv, UNCHANGED <<generation, flushed, browses>>
    PROVE  \A m \in Markets : BrowseInv(m)'
BY DEF PipelineInv, BrowseInv

LEMMA FrameCaches ==
    ASSUME PipelineInv, UNCHANGED <<history, ranking, longTerm, flushed>>,
           late \subseteq late'
    PROVE  CachesAreCurrent'
BY DEF PipelineInv, CachesAreCurrent, Current

\* Putting an entry back keeps the caches current: an entry from before the flush is late.
LEMMA PutHistoryCurrent ==
    ASSUME TypeOK, PipelineInv, NEW m \in Markets, NEW got \in Versions, PutHistory(m, got),
           UNCHANGED <<ranking, longTerm, flushed>>
    PROVE  late \subseteq late' /\ CachesAreCurrent'
<1>1. late \subseteq late'
    BY DEF PutHistory
<1>2. ASSUME NEW n \in Markets \ late'
      PROVE  Current(history, n)' /\ Current(ranking, n)' /\ Current(longTerm, n)'
  <2>1. n \notin late
      BY <1>1, <1>2
  <2>2. Current(history, n) /\ Current(ranking, n) /\ Current(longTerm, n)
      BY <2>1 DEF PipelineInv, CachesAreCurrent
  <2>3. n = m => ~(got < flushed[m])
      BY <1>2 DEF PutHistory
  <2>4. history' = [history EXCEPT ![m] = got] /\ history \in [Markets -> Versions]
      BY DEF PutHistory, TypeOK
  <2>. QED BY <2>2, <2>3, <2>4, Numbers DEF Current, Versions
<1>. QED BY <1>1, <1>2 DEF CachesAreCurrent

\* A run that takes the lock has stored nothing yet of what it asks for.
LEMMA TakeLockInv ==
    ASSUME TypeOK, NEW scope \in SUBSET Markets, TakeLock(scope)
    PROVE  RunInv'
<1>1. run' = [pc |-> "ingest", scope |-> scope, todo |-> scope, failed |-> {},
              skipped |-> {}, market |-> NoMarket, got |-> 0, asked |-> published]
    BY DEF TakeLock, IdleRun
<1>2. published' = published /\ \A m \in Markets : published[m] >= published[m]
    BY Numbers DEF TakeLock
<1>. QED BY <1>1, <1>2 DEF RunInv

\* What a reader of the table or of the entry holds is current, unless late.
LEMMA ReadIsCurrent ==
    ASSUME TypeOK, PipelineInv, NEW m \in Markets
    PROVE  /\ db[m] >= flushed[m]
           /\ m \notin late => (IF history[m] # 0 THEN history[m] ELSE db[m]) >= flushed[m]
BY Numbers DEF PipelineInv, TablesInv, CachesAreCurrent, Current

\* Every step keeps the inductive invariant.
LEMMA NextPipeline ==
    ASSUME TypeOK, PipelineInv, [Next]_vars
    PROVE  PipelineInv'
<1>. USE DEF caches, requests, ghosts
<1>0. run'.pc = "idle" => RunInv'
    BY DEF RunInv
<1>1. ASSUME NEW m \in Markets, Publish(m) PROVE PipelineInv'
  <2>1. published' = [published EXCEPT ![m] = @ + 1] /\ published \in [Markets -> 1..MaxVersion]
      BY <1>1 DEF Publish, TypeOK
  <2>2. \A n \in Markets : published'[n] >= published[n]
      BY <2>1, PipelineAssumption
  <2>3. TablesInv'
      BY <1>1, <2>1, <2>2, Numbers, PipelineAssumption DEF Publish, PipelineInv, TablesInv
  <2>4. RunInv'
    <3>1. UNCHANGED <<db, flushed, run, late>>
        BY <1>1 DEF Publish
    <3>2. run.pc = "ingest" => \A n \in run.scope : published'[n] >= run.asked[n]
      <4>1. run.scope \subseteq Markets
          BY DEF TypeOK, Runs
      <4>2. \A n \in Markets : published'[n] \in Int
          BY <2>1, PipelineAssumption
      <4>3. \A n \in Markets : published[n] \in Int /\ run.asked[n] \in Int
          BY Numbers DEF Versions
      <4>. QED BY <2>2, <4>1, <4>2, <4>3 DEF PipelineInv, RunInv
    <3>. QED BY <3>1, <3>2 DEF PipelineInv, RunInv, PassedOver
  <2>. QED BY <1>1, <2>3, <2>4, FrameScans, FrameBrowses, FrameCaches DEF Publish, PipelineInv
<1>2. ASSUME NEW m \in Markets, Expire(m) PROVE PipelineInv'
  <2>1. CachesAreCurrent'
      BY <1>2 DEF Expire, PipelineInv, CachesAreCurrent, Current, TypeOK
  <2>. QED BY <1>2, <2>1, FrameTables, FrameRun, FrameScans, FrameBrowses DEF Expire, PipelineInv
<1>3. CASE Start
    BY <1>3, FrameTables, FrameRun, FrameScans, FrameBrowses, FrameCaches DEF Start, PipelineInv
<1>4. ASSUME NEW scope \in SUBSET Markets, TakeLock(scope) PROVE PipelineInv'
    BY <1>4, TakeLockInv, FrameTables, FrameScans, FrameBrowses, FrameCaches
    DEF TakeLock, PipelineInv
<1>5. ASSUME NEW scope \in SUBSET Markets, Nightly(scope) PROVE PipelineInv'
    BY <1>4, <1>5 DEF Nightly
<1>6. CASE SpawnedRuns
  <2>1. ASSUME NEW scope \in Scopes, TakeLock(scope) PROVE PipelineInv'
      BY <1>4, <2>1 DEF Scopes
  <2>2. CASE UNCHANGED <<published, db, caches, run, requests, ghosts>>
      BY <2>2, FrameTables, FrameRun, FrameScans, FrameBrowses, FrameCaches DEF PipelineInv
  <2>. QED BY <1>6, <2>1, <2>2 DEF SpawnedRuns
<1>7. ASSUME NEW m \in Markets, IngestTicker(m) PROVE PipelineInv'
  <2>1. /\ run.pc = "ingest" /\ run.scope \subseteq Markets /\ run \in Runs
        /\ db \in [Markets -> 1..MaxVersion]
        /\ UNCHANGED <<published, flushed, served, late>>
      BY <1>7 DEF IngestTicker, TypeOK, Runs
  <2>2. CASE /\ db' = [db EXCEPT ![m] = published[m]]
             /\ run' = [run EXCEPT !.todo = @ \ {m}]
    <3>1. TablesInv'
        BY <2>1, <2>2, Numbers DEF PipelineInv, TablesInv
    <3>2. /\ run'.pc = "ingest" /\ run'.scope = run.scope /\ PassedOver' = PassedOver
          /\ run'.asked = run.asked /\ run'.todo = run.todo \ {m}
        BY <2>1, <2>2 DEF Runs, PassedOver
    <3>3. ASSUME NEW n \in run.scope, n \notin run'.todo \union PassedOver'
          PROVE  db'[n] >= run.asked[n]
        BY <2>1, <2>2, <3>2, <3>3, Numbers DEF PipelineInv, RunInv
    <3>4. RunInv'
        BY <2>1, <3>2, <3>3 DEF PipelineInv, RunInv
    <3>. QED BY <1>7, <3>1, <3>4, FrameScans, FrameBrowses, FrameCaches
             DEF IngestTicker, PipelineInv
  <2>3. CASE /\ db' = db
             /\ \/ run' = [run EXCEPT !.todo = @ \ {m}, !.failed = @ \union {m}]
                \/ run' = [run EXCEPT !.todo = @ \ {m}, !.skipped = @ \union {m}]
    <3>1. /\ run'.pc = "ingest" /\ run'.scope = run.scope /\ run'.asked = run.asked
          /\ run'.todo = run.todo \ {m} /\ PassedOver' = PassedOver \union {m}
        BY <2>1, <2>3 DEF Runs, PassedOver
    <3>2. RunInv'
        BY <2>1, <2>3, <3>1 DEF PipelineInv, RunInv
    <3>. QED BY <1>7, <2>3, <3>2, FrameTables, FrameScans, FrameBrowses, FrameCaches
             DEF IngestTicker, PipelineInv
  <2>. QED BY <1>7, <2>2, <2>3 DEF IngestTicker
<1>8. CASE Flush
  <2>1. /\ run.pc = "ingest" /\ run.scope \subseteq Markets /\ run \in Runs
        /\ generation' = generation + 1 /\ generation \in Int
        /\ UNCHANGED <<published, db, served, late, scans, browses>>
      BY <1>8, Numbers DEF Flush, TypeOK, Runs
  <2>2. \A m \in Markets : flushed'[m] = IF m \in run.scope THEN db[m] ELSE flushed[m]
      BY <1>8 DEF Flush
  <2>3. \A m \in Markets : flushed'[m] >= flushed[m] /\ flushed'[m] \in Int
      BY <2>2, ReadIsCurrent, Numbers DEF Versions
  <2>4. TablesInv'
      BY <2>1, <2>2, Numbers DEF PipelineInv, TablesInv
  <2>5. RunInv'
    <3>1. CASE run' = IdleRun
        BY <1>0, <3>1 DEF IdleRun
    <3>2. CASE run' = [run EXCEPT !.pc = "rank", !.todo = run.scope, !.failed = {},
                                  !.skipped = {}, !.asked = Fetched]
      <4>1. run'.pc = "rank" /\ run'.scope = run.scope /\ run'.asked = Fetched
          BY <2>1, <3>2 DEF Runs
      <4>2. ASSUME NEW m \in run.scope PROVE flushed'[m] >= Fetched[m]
        <5>1. CASE m \in PassedOver
          <6>1. Fetched[m] = served[m] /\ db[m] >= served[m]
              BY <2>1, <5>1, Numbers DEF Fetched, PipelineInv, TablesInv, Versions
          <6>. QED BY <2>1, <2>2, <6>1
        <5>2. CASE m \notin PassedOver
          <6>1. run.todo = {}
              BY <1>8 DEF Flush
          <6>2. Fetched[m] = run.asked[m] /\ db[m] >= run.asked[m]
              BY <2>1, <5>2, <6>1 DEF Fetched, PipelineInv, RunInv
          <6>. QED BY <2>1, <2>2, <6>2
        <5>. QED BY <5>1, <5>2
      <4>. QED BY <4>1, <4>2 DEF RunInv
    <3>. QED BY <1>8, <3>1, <3>2 DEF Flush
  <2>6. ASSUME NEW k \in TaskKeys PROVE ScanInv(k)'
    <3>1. k[1] \in Markets /\ ScanInv(k)
        BY Numbers DEF PipelineInv
    <3>2. scans[k].floor <= flushed'[k[1]]
        BY <2>3, <3>1, Numbers DEF ScanInv, Versions
    <3>. QED BY <2>1, <3>1, <3>2, Numbers DEF ScanInv
  <2>7. AnswersAreCurrent'
      BY <2>1 DEF PipelineInv, AnswersAreCurrent
  <2>8. ASSUME NEW m \in Markets PROVE BrowseInv(m)'
      BY <2>1, Numbers DEF PipelineInv, BrowseInv
  <2>9. CachesAreCurrent'
      BY <1>8, <2>1, <2>2 DEF Flush, Dropped, PipelineInv, CachesAreCurrent, Current
  <2>. QED BY <2>4, <2>5, <2>6, <2>7, <2>8, <2>9 DEF PipelineInv
<1>9. CASE PostFails
    BY <1>0, <1>9, FrameTables, FrameScans, FrameBrowses, FrameCaches
    DEF PostFails, IdleRun, PipelineInv
<1>10. ASSUME NEW m \in Markets, RankRead(m) PROVE PipelineInv'
  <2>. DEFINE todo == run.todo \ {m}
              got == IF history[m] # 0 THEN history[m] ELSE db[m]
              pc == IF history[m] # 0 THEN "store" ELSE "fill"
  <2>1. /\ run.pc = "rank" /\ run \in Runs /\ UNCHANGED <<published, db, flushed, late>>
        /\ run' = [run EXCEPT !.todo = todo, !.market = m, !.got = got, !.pc = pc]
      BY <1>10 DEF RankRead, TypeOK
  <2>2. pc \in {"fill", "store"} /\ (m \notin late => got >= flushed[m])
      BY ReadIsCurrent
  <2>. HIDE DEF todo, got, pc
  <2>3. /\ run'.pc = pc /\ run'.scope = run.scope /\ run'.asked = run.asked
        /\ run'.market = m /\ run'.got = got
      BY <2>1 DEF Runs
  <2>4. RunInv'
      BY <2>1, <2>2, <2>3 DEF PipelineInv, RunInv
  <2>. QED BY <1>10, <2>4, FrameTables, FrameScans, FrameBrowses, FrameCaches
           DEF RankRead, PipelineInv
<1>11. CASE RankFill
  <2>1. run.market \in Markets /\ run.got \in Versions /\ run \in Runs
      BY <1>11 DEF RankFill, TypeOK, Runs
  <2>2. late \subseteq late' /\ CachesAreCurrent'
      BY <1>11, <2>1, PutHistoryCurrent DEF RankFill
  <2>3. /\ run'.pc = "store" /\ run'.scope = run.scope /\ run'.asked = run.asked
        /\ run'.market = run.market /\ run'.got = run.got
      BY <1>11, <2>1 DEF RankFill, Runs
  <2>4. RunInv'
      BY <1>11, <2>2, <2>3 DEF RankFill, PipelineInv, RunInv
  <2>. QED BY <1>11, <2>2, <2>4, FrameTables, FrameScans, FrameBrowses DEF RankFill, PipelineInv
<1>12. CASE RankStore
  <2>. DEFINE todo == IF run.todo # {} THEN run.todo ELSE run.scope
              pc == IF run.todo # {} THEN "rank" ELSE "snapshot"
  <2>1. /\ run.pc = "store" /\ run \in Runs /\ ranking \in [Markets -> Versions]
        /\ ranking' = [ranking EXCEPT ![run.market] = run.got]
        /\ UNCHANGED <<published, db, history, longTerm, flushed, late>>
        /\ run' = [run EXCEPT !.market = NoMarket, !.got = 0, !.pc = pc, !.todo = todo]
      BY <1>12 DEF RankStore, TypeOK
  <2>2. pc \in {"rank", "snapshot"}
      OBVIOUS
  <2>. HIDE DEF todo, pc
  <2>3. run'.pc = pc /\ run'.scope = run.scope /\ run'.asked = run.asked
      BY <2>1 DEF Runs
  <2>4. RunInv'
      BY <2>1, <2>2, <2>3 DEF PipelineInv, RunInv
  <2>5. CachesAreCurrent'
      BY <2>1 DEF PipelineInv, RunInv, CachesAreCurrent, Current
  <2>. QED BY <1>12, <2>4, <2>5, FrameTables, FrameScans, FrameBrowses DEF RankStore, PipelineInv
<1>13. CASE RunFails
    BY <1>0, <1>13, FrameTables, FrameScans, FrameBrowses, FrameCaches
    DEF RunFails, IdleRun, PipelineInv
<1>14. ASSUME NEW m \in Markets, Snapshot(m) PROVE PipelineInv'
  <2>1. /\ run'.pc = run.pc /\ run.pc = "snapshot" /\ run'.scope = run.scope
        /\ run'.asked = run.asked
        /\ UNCHANGED <<published, db, history, ranking, flushed, late>>
        /\ longTerm' = [longTerm EXCEPT ![m] = db[m]]
      BY <1>14 DEF Snapshot, TypeOK, Runs
  <2>2. RunInv'
      BY <2>1 DEF PipelineInv, RunInv
  <2>3. CachesAreCurrent'
      BY <2>1, ReadIsCurrent DEF PipelineInv, CachesAreCurrent, Current, TypeOK
  <2>. QED BY <1>14, <2>2, <2>3, FrameTables, FrameScans, FrameBrowses DEF Snapshot, PipelineInv
<1>15. CASE Finish
  <2>1. TablesInv'
      BY <1>15 DEF Finish, PipelineInv, TablesInv, RunInv
  <2>. QED BY <1>0, <1>15, <2>1, FrameScans, FrameBrowses, FrameCaches
           DEF Finish, IdleRun, PipelineInv
<1>16. ASSUME NEW m \in Markets, Ask(m) PROVE PipelineInv'
  <2>. DEFINE k == TaskKey(m)
              pc == IF k \in Running THEN scans[k].pc ELSE "start"
              asked == [pc |-> pc, generation |-> scans[k].generation,
                        got |-> scans[k].got, floor |-> flushed[m]]
  <2>1. /\ k \in TaskKeys /\ k[1] = m /\ k[2] = generation
        /\ scans \in [TaskKeys -> Scans] /\ scans' = [scans EXCEPT ![k] = asked]
        /\ UNCHANGED <<generation, flushed, late>>
      BY <1>16 DEF Ask, TaskKey, TaskKeys, TypeOK
  <2>2. pc = scans[k].pc \/ pc = "start"
      OBVIOUS
  <2>3. asked.pc = pc /\ asked.generation = scans[k].generation /\ asked.got = scans[k].got
        /\ asked.floor = flushed[m]
      OBVIOUS
  <2>. HIDE DEF asked, pc, k
  <2>4. ASSUME NEW j \in TaskKeys PROVE ScanInv(j)'
    <3>1. CASE j = k
        BY <2>1, <2>2, <2>3, <3>1, Numbers DEF PipelineInv, ScanInv, Versions
    <3>2. CASE j # k
        BY <2>1, <3>2 DEF PipelineInv, ScanInv
    <3>. QED BY <3>1, <3>2
  <2>5. AnswersAreCurrent'
    <3>1. ASSUME m \notin late, pc \in {"fill", "store"} PROVE scans[k].got >= flushed[m]
      <4>1. scans[k].pc \in {"fill", "store"}
          BY <2>2, <3>1
      <4>2. k[2] <= scans[k].generation /\ scans[k].generation <= generation
          BY <2>1, <4>1 DEF PipelineInv, ScanInv
      <4>3. scans[k].generation = generation
        <5>1. scans[k].generation \in Int /\ generation \in Int
            BY <2>1, Numbers, PipelineAssumption
        <5>. QED BY <2>1, <4>2, <5>1
      <4>. QED BY <2>1, <3>1, <4>1, <4>3 DEF PipelineInv, ScanInv
    <3>2. ASSUME NEW j \in TaskKeys, j[1] \notin late', scans'[j].pc \in {"fill", "store"}
          PROVE  scans'[j].got >= scans'[j].floor
      <4>1. CASE j = k
          BY <2>1, <2>3, <3>1, <3>2, <4>1
      <4>2. CASE j # k
          BY <2>1, <3>2, <4>2 DEF PipelineInv, AnswersAreCurrent
      <4>. QED BY <4>1, <4>2
    <3>. QED BY <3>2 DEF AnswersAreCurrent
  <2>. QED BY <1>16, <2>4, <2>5, FrameTables, FrameRun, FrameBrowses, FrameCaches
           DEF Ask, PipelineInv
<1>17. ASSUME NEW k \in TaskKeys, ScanRead(k) PROVE PipelineInv'
  <2>. DEFINE got == IF history[k[1]] # 0 THEN history[k[1]] ELSE db[k[1]]
              pc == IF history[k[1]] # 0 THEN "store" ELSE "fill"
  <2>1. /\ scans \in [TaskKeys -> Scans] /\ UNCHANGED <<generation, flushed, late>>
        /\ scans[k].pc = "start" /\ k[1] \in Markets /\ generation \in Int
        /\ got \in Int
      BY <1>17, Numbers DEF ScanRead, TypeOK, Versions
  <2>2. /\ scans'[k].pc = pc /\ scans'[k].got = got /\ scans'[k].generation = generation
        /\ scans'[k].floor = scans[k].floor
        /\ \A j \in TaskKeys \ {k} : scans'[j] = scans[j]
      BY <1>17, <2>1 DEF ScanRead, Scans
  <2>3. pc \in {"fill", "store"} /\ (k[1] \notin late => got >= flushed[k[1]])
      BY <2>1, ReadIsCurrent
  <2>. HIDE DEF got, pc
  <2>4. ASSUME NEW j \in TaskKeys PROVE ScanInv(j)'
    <3>1. CASE j = k
        BY <2>1, <2>2, <2>3, <3>1 DEF PipelineInv, ScanInv
    <3>2. CASE j # k
        BY <2>1, <2>2, <3>2 DEF PipelineInv, ScanInv
    <3>. QED BY <3>1, <3>2
  <2>5. ASSUME NEW j \in TaskKeys, j[1] \notin late', scans'[j].pc \in {"fill", "store"}
        PROVE  scans'[j].got >= scans'[j].floor
    <3>1. CASE j = k
        BY <2>1, <2>2, <2>3, <2>5, <3>1, Numbers DEF PipelineInv, ScanInv, Versions
    <3>2. CASE j # k
        BY <2>1, <2>2, <2>5, <3>2 DEF PipelineInv, AnswersAreCurrent
    <3>. QED BY <3>1, <3>2
  <2>6. AnswersAreCurrent'
      BY <2>5 DEF AnswersAreCurrent
  <2>. QED BY <1>17, <2>4, <2>6, FrameTables, FrameRun, FrameBrowses, FrameCaches
           DEF ScanRead, PipelineInv
<1>18. ASSUME NEW k \in TaskKeys, ScanFill(k) PROVE PipelineInv'
  <2>1. k[1] \in Markets /\ scans[k].got \in Versions /\ scans \in [TaskKeys -> Scans]
      BY Numbers DEF TypeOK
  <2>2. late \subseteq late' /\ CachesAreCurrent'
      BY <1>18, <2>1, PutHistoryCurrent DEF ScanFill
  <2>3. /\ scans[k].pc = "fill"
        /\ \A j \in TaskKeys : /\ scans'[j].got = scans[j].got
                               /\ scans'[j].floor = scans[j].floor
                               /\ scans'[j].generation = scans[j].generation
                               /\ scans'[j].pc = IF j = k THEN "store" ELSE scans[j].pc
      BY <1>18, <2>1 DEF ScanFill, Scans
  <2>4. UNCHANGED <<generation, flushed>>
      BY <1>18 DEF ScanFill
  <2>5. ASSUME NEW j \in TaskKeys PROVE ScanInv(j)'
      BY <2>2, <2>3, <2>4 DEF PipelineInv, ScanInv
  <2>6. AnswersAreCurrent'
      BY <2>2, <2>3 DEF PipelineInv, AnswersAreCurrent
  <2>. QED BY <1>18, <2>2, <2>5, <2>6, FrameTables, FrameRun, FrameBrowses
           DEF ScanFill, PipelineInv
\* A scan that leaves its slot leaves an empty record.
<1>19. ASSUME NEW k \in TaskKeys, scans' = [scans EXCEPT ![k] = NoScan],
              UNCHANGED <<generation, flushed, late>>
       PROVE  (\A j \in TaskKeys : ScanInv(j)') /\ AnswersAreCurrent'
  <2>1. scans \in [TaskKeys -> Scans] /\ k[1] \in Markets /\ 0 <= flushed[k[1]]
      BY Numbers DEF TypeOK
  <2>2. NoScan.pc = "none" /\ NoScan.floor = 0
      BY DEF NoScan
  <2>3. ASSUME NEW j \in TaskKeys PROVE ScanInv(j)'
      BY <1>19, <2>1, <2>2 DEF PipelineInv, ScanInv
  <2>4. AnswersAreCurrent'
      BY <1>19, <2>1, <2>2 DEF PipelineInv, AnswersAreCurrent
  <2>. QED BY <2>3, <2>4
<1>20. ASSUME NEW k \in TaskKeys, ScanStore(k) PROVE PipelineInv'
  <2>1. /\ k[1] \in Markets /\ ScanInv(k) /\ ranking \in [Markets -> Versions]
        /\ scans[k].pc = "store" /\ UNCHANGED <<history, longTerm, generation, flushed, late>>
        /\ scans' = [scans EXCEPT ![k] = NoScan]
      BY <1>20, Numbers DEF ScanStore, TypeOK, PipelineInv
  <2>2. CASE ranking' = ranking
      BY <1>20, <1>19, <2>1, <2>2, FrameTables, FrameRun, FrameBrowses, FrameCaches
      DEF ScanStore, PipelineInv
  <2>3. CASE /\ scans[k].generation = generation
             /\ ranking' = [ranking EXCEPT ![k[1]] = scans[k].got]
    <3>1. CachesAreCurrent'
        BY <2>1, <2>3 DEF ScanInv, PipelineInv, CachesAreCurrent, Current
    <3>. QED BY <1>20, <1>19, <2>1, <3>1, FrameTables, FrameRun, FrameBrowses
             DEF ScanStore, PipelineInv
  <2>. QED BY <1>20, <2>2, <2>3 DEF ScanStore, SameGeneration
<1>21. ASSUME NEW k \in TaskKeys, ScanFails(k) PROVE PipelineInv'
    BY <1>21, <1>19, FrameTables, FrameRun, FrameBrowses, FrameCaches DEF ScanFails, PipelineInv
<1>22. ASSUME NEW p \in Pages, NEW m \in Markets, PageRead(p, m) PROVE PipelineInv'
    BY <1>22, FrameTables, FrameRun, FrameScans, FrameBrowses, FrameCaches
    DEF PageRead, PipelineInv
<1>23. ASSUME NEW p \in Pages, PageFill(p) PROVE PipelineInv'
  <2>1. pages[p].market \in Markets /\ pages[p].got \in Versions
      BY <1>23 DEF PageFill, TypeOK
  <2>2. late \subseteq late' /\ CachesAreCurrent'
      BY <1>23, <2>1, PutHistoryCurrent DEF PageFill
  <2>. QED BY <1>23, <2>2, FrameTables, FrameRun, FrameScans, FrameBrowses
           DEF PageFill, PipelineInv
<1>24. ASSUME NEW m \in Markets, Browse(m) PROVE PipelineInv'
  <2>. DEFINE asked == [pc |-> "store", generation |-> generation, got |-> db[m]]
  <2>1. UNCHANGED <<generation, flushed>> /\ generation <= generation
      BY <1>24, Numbers DEF Browse
  <2>2. browses'[m] = asked /\ \A n \in Markets \ {m} : browses'[n] = browses[n]
      BY <1>24 DEF Browse, TypeOK
  <2>3. ASSUME NEW n \in Markets PROVE BrowseInv(n)'
      BY <2>1, <2>2, ReadIsCurrent DEF PipelineInv, BrowseInv
  <2>. QED BY <1>24, <2>3, FrameTables, FrameRun, FrameScans, FrameCaches DEF Browse, PipelineInv
<1>25. ASSUME NEW m \in Markets, BrowseStore(m) PROVE PipelineInv'
  <2>1. /\ BrowseInv(m) /\ longTerm \in [Markets -> Versions]
        /\ browses[m].pc = "store" /\ UNCHANGED <<history, ranking, generation, flushed, late>>
      BY <1>25 DEF BrowseStore, TypeOK, PipelineInv
  <2>2. /\ browses'[m].pc = "idle" /\ \A n \in Markets \ {m} : browses'[n] = browses[n]
      BY <1>25 DEF BrowseStore, NoBrowse, TypeOK
  <2>3. ASSUME NEW n \in Markets PROVE BrowseInv(n)'
      BY <2>1, <2>2 DEF PipelineInv, BrowseInv
  <2>4. CASE longTerm' = longTerm
      BY <1>25, <2>3, <2>4, FrameTables, FrameRun, FrameScans, FrameCaches
      DEF BrowseStore, PipelineInv
  <2>5. CASE /\ browses[m].generation = generation
             /\ longTerm' = [longTerm EXCEPT ![m] = browses[m].got]
    <3>1. CachesAreCurrent'
        BY <2>1, <2>5 DEF BrowseInv, PipelineInv, CachesAreCurrent, Current
    <3>. QED BY <1>25, <2>3, <3>1, FrameTables, FrameRun, FrameScans DEF BrowseStore, PipelineInv
  <2>. QED BY <1>25, <2>4, <2>5 DEF BrowseStore, SameGeneration
<1>26. CASE UNCHANGED vars
    BY <1>26, FrameTables, FrameRun, FrameScans, FrameBrowses, FrameCaches DEF vars, PipelineInv
<1>. QED
    BY <1>1, <1>2, <1>3, <1>5, <1>6, <1>7, <1>8, <1>9, <1>10, <1>11, <1>12, <1>13, <1>14,
       <1>15, <1>16, <1>17, <1>18, <1>20, <1>21, <1>22, <1>23, <1>24, <1>25, <1>26
    DEF Next, Refresh, Visitors, Scopes

\* The inductive invariant holds of every reachable state.
THEOREM PipelineIsInvariant == Spec => [](TypeOK /\ PipelineInv)
<1>1. TypeOK /\ PipelineInv /\ [Next]_vars => TypeOK' /\ PipelineInv'
    BY NextTypeOK, NextPipeline
<1>. QED BY <1>1, InitTypeOK, InitPipeline, PTL DEF Spec

\* Nothing computed from before a refresh is served from a cache after it, whatever the
\* markets, the requests in flight and the failures: the guard of cache.py, used by
\* compute_and_cache and get_long_term_ranking, is enough.
THEOREM GuardKeepsCachesCurrent == Spec => []CachesAreCurrent
<1>1. TypeOK /\ PipelineInv => CachesAreCurrent
    BY DEF PipelineInv
<1>. QED BY <1>1, PipelineIsInvariant, PTL

\* No caller of a full-market scan is answered with data a refresh had replaced before
\* it asked: the generation in ScanWorkBudget's key is enough.
THEOREM JoinersGetCurrentAnswers == Spec => []AnswersAreCurrent
<1>1. TypeOK /\ PipelineInv => AnswersAreCurrent
    BY DEF PipelineInv
<1>. QED BY <1>1, PipelineIsInvariant, PTL

\* A refresh that reported success has stored, and shows, of every ticker it did not pass
\* over, what the provider had published when the refresh began, whichever failures
\* ingest_outcome tolerated (ingest_outcome, last_refresh_at).
THEOREM LastRefreshIsTrue == Spec => []SuccessIsServed
<1>1. TypeOK /\ PipelineInv => SuccessIsServed
  <2>. SUFFICES ASSUME TypeOK, PipelineInv, NEW m \in Markets
                PROVE  /\ db[m] >= served[m]
                       /\ m \notin late => \A shown \in {history[m], ranking[m], longTerm[m]} :
                                              shown = 0 \/ shown >= served[m]
      BY DEF SuccessIsServed
  <2>1. db[m] >= flushed[m] /\ flushed[m] >= served[m]
      BY DEF PipelineInv, TablesInv
  <2>2. m \notin late => /\ history[m] = 0 \/ history[m] >= flushed[m]
                         /\ ranking[m] = 0 \/ ranking[m] >= flushed[m]
                         /\ longTerm[m] = 0 \/ longTerm[m] >= flushed[m]
      BY DEF PipelineInv, CachesAreCurrent, Current
  <2>3. /\ db[m] \in Int /\ flushed[m] \in Int /\ served[m] \in Int
        /\ history[m] \in Int /\ ranking[m] \in Int /\ longTerm[m] \in Int
      BY Numbers
  <2>. QED BY <2>1, <2>2, <2>3
<1>. QED BY <1>1, PipelineIsInvariant, PTL
=============================================================================
