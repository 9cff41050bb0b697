-------------------------- MODULE RefreshPipeline --------------------------
(***************************************************************************)
(* The refresh pipeline (services/refresh_service.py) and everything that  *)
(* shares the two process caches with it: the ingest that rewrites a       *)
(* market's bars and flushes what they fed (jobs/daily_ingest.py,          *)
(* services/market_cache.py), the public full-market scans admitted by     *)
(* ScanWorkBudget (services/scan_work.py, routers/stocks.py), and the      *)
(* single-stock pages that fill the same history entries (_get_quotes).    *)
(*                                                                         *)
(* Data is abstracted to its version: the nightly sessions the provider    *)
(* has published.  A market stands for one ticker of it, whose companions  *)
(* only count in the verdict on a download, and a ranking is as old as the *)
(* oldest bars it was computed from.  The provider fallback  *)
(* of a ticker with no stored bars is PriceHistory's subject; here every   *)
(* ticker has stored bars.                                                 *)
(***************************************************************************)
EXTENDS Integers, FiniteSets

CONSTANTS
    Markets,        \* the served markets
    NoMarket,       \* not one of them
    Pages,          \* single-stock requests that may be inside _get_quotes
    Companies,      \* the tracked companies of a market
    FailurePercent, \* _INGEST_FAILURE_SHARE, in percent
    MaxConcurrent,  \* ScanWorkBudget(max_concurrent)
    MaxVersion,     \* bound: sessions the provider publishes
    MaxGeneration,  \* bound: how often the caches are flushed
    MaxSpawned,     \* bound: start() calls whose task has not run yet
    Requests,       \* the kinds of request that arrive, a subset of RequestKinds
    Faults          \* which steps may fail, a subset of FaultKinds

RequestKinds == {"scan", "page", "browse"}
FaultKinds == {"ticker", "post", "rank", "snapshot"}

ASSUME PipelineAssumption ==
    /\ NoMarket \notin Markets
    /\ Companies \in Nat \ {0}
    /\ FailurePercent \in 0..100
    /\ MaxConcurrent \in Nat \ {0}
    /\ MaxVersion \in Nat \ {0}
    /\ MaxGeneration \in Nat
    /\ MaxSpawned \in Nat
    /\ Requests \subseteq RequestKinds
    /\ Faults \subseteq FaultKinds

VARIABLES
    published,   \* the newest session the provider has, per market
    db,          \* table daily_quotes: the newest session stored
    history,     \* history_cache: the entry of the ranking's fetch window, 0 = none
    ranking,     \* ranking_cache: the default ranking, 0 = none
    longTerm,    \* ranking_cache: the long-term ranking, 0 = none
    generation,  \* ranking_cache._generation
    spawned,     \* refresh tasks created by start() that have not run yet
    run,         \* RefreshService.run under its lock, and its local variables
    scans,       \* ScanWorkBudget._tasks, by key: the market and the generation
    pages,       \* _get_quotes of each page
    browses,     \* GET /long-term of each market, under its key's lock
    flushed,     \* history: db of the market when its caches were last flushed
    served,      \* history: what the last successful refresh that stored it set out to fetch
    late         \* history: markets whose history entry was put back from before a flush

caches == <<history, ranking, longTerm, generation>>
requests == <<scans, pages, browses>>
ghosts == <<flushed, served, late>>
vars == <<published, db, caches, spawned, run, requests, ghosts>>

Versions == 0..MaxVersion
TaskKeys == Markets \X (0..MaxGeneration)

\* RefreshService._scope: what one run covers.
Scopes == SUBSET Markets \ {{}}

IdleRun == [pc |-> "idle", scope |-> {}, todo |-> {}, failed |-> {}, skipped |-> {},
            market |-> NoMarket, got |-> 0, asked |-> [m \in Markets |-> 0]]
NoScan == [pc |-> "none", generation |-> 0, got |-> 0, floor |-> 0]
IdlePage == [pc |-> "idle", market |-> NoMarket, got |-> 0]
NoBrowse == [pc |-> "idle", generation |-> 0, got |-> 0]

Init ==
    /\ published = [m \in Markets |-> 1]
    /\ db = [m \in Markets |-> 1]
    /\ history = [m \in Markets |-> 0]
    /\ ranking = [m \in Markets |-> 0]
    /\ longTerm = [m \in Markets |-> 0]
    /\ generation = 0
    /\ spawned = 0
    /\ run = IdleRun
    /\ scans = [k \in TaskKeys |-> NoScan]
    /\ pages = [p \in Pages |-> IdlePage]
    /\ browses = [m \in Markets |-> NoBrowse]
    /\ flushed = [m \in Markets |-> 1]
    /\ served = [m \in Markets |-> 0]
    /\ late = {}

---------------------------------------------------------------------------
(* The environment: sessions end, cached entries expire or are evicted. *)

Publish(m) ==
    /\ published[m] < MaxVersion
    /\ published' = [published EXCEPT ![m] = @ + 1]
    /\ UNCHANGED <<db, caches, spawned, run, requests, ghosts>>

Expire(m) ==
    /\ \/ history' = [history EXCEPT ![m] = 0] /\ UNCHANGED <<ranking, longTerm>>
       \/ ranking' = [ranking EXCEPT ![m] = 0] /\ UNCHANGED <<history, longTerm>>
       \/ longTerm' = [longTerm EXCEPT ![m] = 0] /\ UNCHANGED <<history, ranking>>
    /\ UNCHANGED <<published, db, generation, spawned, run, requests, ghosts>>

---------------------------------------------------------------------------
(* RefreshService: the run under its lock, one action per await. *)

\* start(): the task is created now, and takes the lock when it first runs.
Start ==
    /\ run.pc = "idle"
    /\ spawned < MaxSpawned
    /\ spawned' = spawned + 1
    /\ UNCHANGED <<published, db, caches, run, requests, ghosts>>

\* run() turns a duplicate trigger away.
MayRun == run.pc = "idle"

\* run() takes the lock; _do_run hands its markets to the ingest.
TakeLock(scope) ==
    /\ MayRun
    /\ generation < MaxGeneration
    /\ run' = [IdleRun EXCEPT !.pc = "ingest", !.scope = scope, !.todo = scope,
                              !.asked = published]
    /\ UNCHANGED <<published, db, caches, requests, ghosts>>

\* The scheduler calls run() itself, for the markets of one nightly run.
Nightly(scope) == TakeLock(scope) /\ UNCHANGED spawned

\* A task made by start() runs for the markets it was given, or finds the lock taken.
SpawnedRuns ==
    /\ spawned > 0
    /\ spawned' = spawned - 1
    /\ \/ \E scope \in Scopes : TakeLock(scope)
       \/ ~MayRun /\ UNCHANGED <<published, db, caches, run, requests, ghosts>>

\* ingest_one: the bars are downloaded and written, or the ticker counts as failed or,
\* when the provider refused it or had no bars, as skipped.
IngestTicker(m) ==
    /\ run.pc = "ingest"
    /\ m \in run.todo
    /\ \/ /\ db' = [db EXCEPT ![m] = published[m]]
          /\ run' = [run EXCEPT !.todo = @ \ {m}]
       \/ /\ "ticker" \in Faults
          /\ db' = db
          /\ \/ run' = [run EXCEPT !.todo = @ \ {m}, !.failed = @ \union {m}]
             \/ run' = [run EXCEPT !.todo = @ \ {m}, !.skipped = @ \union {m}]
    /\ UNCHANGED <<published, caches, spawned, requests, ghosts>>

\* The markets whose ticker the run could not store.
PassedOver == run.failed \union run.skipped

\* failed_ingest_markets, of one market's counters.
MarketFailed(fetched, failed) == fetched = 0 \/ 100 * failed > Companies * FailurePercent

\* The counters of the other companies of a market, which fare as they may.
Companions ==
    {c \in [fetched : 0..Companies - 1, failed : 0..Companies - 1] : c.fetched + c.failed < Companies}

\* The verdicts on m that its ticker leaves open.
Verdicts(m) ==
    {MarketFailed(c.fetched + (IF m \in PassedOver THEN 0 ELSE 1),
                  c.failed + (IF m \in run.failed THEN 1 ELSE 0)) : c \in Companions}

\* ingest_outcome: the download failed if it did in one of the markets.
IngestFailed(failed) == failed # {}

\* What the run has asked for and stored; of a ticker it passed over, what an earlier one did.
Fetched == [m \in Markets |-> IF m \in run.scope \ PassedOver THEN run.asked[m] ELSE served[m]]

\* Mutant: the entries of the other markets go instead.
DroppedOthers(cache) == [m \in Markets |-> IF m \in run.scope THEN cache[m] ELSE 0]

\* Mutant: only the refreshed markets keep a place in the cache.
DroppedToScope(cache) == [m \in run.scope |-> 0]

\* invalidate_markets, for one cache: the entries of the refreshed markets go.
Dropped(cache) == [m \in Markets |-> IF m \in run.scope THEN 0 ELSE cache[m]]

\* The end of the ingest, without an await: the caches are flushed, and a failed
\* download ends the run before anything is ranked.
Flush ==
    /\ run.pc = "ingest"
    /\ run.todo = {}
    /\ generation < MaxGeneration
    /\ history' = Dropped(history)
    /\ ranking' = Dropped(ranking)
    /\ longTerm' = Dropped(longTerm)
    /\ generation' = generation + 1
    /\ flushed' = [m \in Markets |-> IF m \in run.scope THEN db[m] ELSE flushed[m]]
    /\ \E failed \in SUBSET run.scope :
           /\ \A m \in run.scope : (m \in failed) \in Verdicts(m)
           /\ run' = IF IngestFailed(failed) THEN IdleRun
                     ELSE [run EXCEPT !.pc = "rank", !.todo = run.scope, !.failed = {},
                                      !.skipped = {}, !.asked = Fetched]
    /\ UNCHANGED <<published, db, spawned, requests, served, late>>

\* A read between the last ticker and the flush raises (the fundamentals' archives).
PostFails ==
    /\ run.pc = "ingest"
    /\ run.todo = {}
    /\ "post" \in Faults
    /\ run' = IdleRun
    /\ UNCHANGED <<published, db, caches, spawned, requests, ghosts>>

\* history_cache.set, whatever happened since the bars were read.
PutHistory(m, got) ==
    /\ history' = [history EXCEPT ![m] = got]
    /\ late' = IF got < flushed[m] THEN late \union {m} ELSE late

\* compute_ranking of the next market: fetch_quotes finds the entry or reads the table.
RankRead(m) ==
    /\ run.pc = "rank"
    /\ m \in run.todo
    /\ run' = [run EXCEPT !.todo = @ \ {m}, !.market = m,
                          !.got = IF history[m] # 0 THEN history[m] ELSE db[m],
                          !.pc = IF history[m] # 0 THEN "store" ELSE "fill"]
    /\ UNCHANGED <<published, db, caches, spawned, requests, ghosts>>

RankFill ==
    /\ run.pc = "fill"
    /\ PutHistory(run.market, run.got)
    /\ run' = [run EXCEPT !.pc = "store"]
    /\ UNCHANGED <<published, db, ranking, longTerm, generation, spawned,
                   requests, flushed, served>>

\* The ranking is stored unconditionally, the lock standing in for the guard.
RankStore ==
    /\ run.pc = "store"
    /\ ranking' = [ranking EXCEPT ![run.market] = run.got]
    /\ run' = [run EXCEPT !.market = NoMarket, !.got = 0,
                          !.pc = IF run.todo # {} THEN "rank" ELSE "snapshot",
                          !.todo = IF run.todo # {} THEN @ ELSE run.scope]
    /\ UNCHANGED <<published, db, history, longTerm, generation, spawned,
                   requests, ghosts>>

\* compute_ranking or a snapshot raises: the run fails, what it stored stays.
RunFails ==
    /\ \/ run.pc \in {"rank", "fill", "store"} /\ "rank" \in Faults
       \/ run.pc = "snapshot" /\ "snapshot" \in Faults
    /\ run' = IdleRun
    /\ UNCHANGED <<published, db, caches, spawned, requests, ghosts>>

\* _snapshot_long_term of one market: the observations are appended to a table that
\* nothing here reads back, and the cache is pre-warmed.
Snapshot(m) ==
    /\ run.pc = "snapshot"
    /\ m \in run.todo
    /\ longTerm' = [longTerm EXCEPT ![m] = db[m]]
    /\ run' = [run EXCEPT !.todo = @ \ {m}]
    /\ UNCHANGED <<published, db, history, ranking, generation, spawned, requests, ghosts>>

\* last_refresh_at moves: of every ticker it did not pass over, the run fetched what was
\* published when it took the lock.
Finish ==
    /\ run.pc = "snapshot"
    /\ run.todo = {}
    /\ served' = [m \in Markets |-> IF m \in run.scope THEN run.asked[m] ELSE served[m]]
    /\ run' = IdleRun
    /\ UNCHANGED <<published, db, caches, spawned, requests, flushed, late>>

---------------------------------------------------------------------------
(* Public full-market scans, admitted by ScanWorkBudget. *)

Running == {k \in TaskKeys : scans[k].pc # "none"}

\* Mutant: the task registry is keyed by market only.
TaskOfMarket(m) ==
    IF \E k \in Running : k[1] = m THEN CHOOSE k \in Running : k[1] = m
    ELSE <<m, generation>>

\* The key of the task a request for m starts or joins.
TaskKey(m) == <<m, generation>>

\* A request misses ranking_cache: it joins the running task of its key or starts
\* one; with every slot taken it is refused (and with its client's budget spent).
Ask(m) ==
    /\ "scan" \in Requests
    /\ ranking[m] = 0
    /\ scans' = [scans EXCEPT ![TaskKey(m)] =
           [pc |-> IF TaskKey(m) \in Running THEN @.pc ELSE "start",
            generation |-> @.generation, got |-> @.got, floor |-> flushed[m]]]
    /\ TaskKey(m) \in Running \/ Cardinality(Running) < MaxConcurrent
    /\ UNCHANGED <<published, db, caches, spawned, run, pages, browses, ghosts>>

\* compute_and_cache notes the generation, then reads like the refresh does.
ScanRead(k) ==
    /\ scans[k].pc = "start"
    /\ LET m == k[1]
       IN  scans' = [scans EXCEPT
              ![k].generation = generation,
              ![k].got = IF history[m] # 0 THEN history[m] ELSE db[m],
              ![k].pc = IF history[m] # 0 THEN "store" ELSE "fill"]
    /\ UNCHANGED <<published, db, caches, spawned, run, pages, browses, ghosts>>

ScanFill(k) ==
    /\ scans[k].pc = "fill"
    /\ PutHistory(k[1], scans[k].got)
    /\ scans' = [scans EXCEPT ![k].pc = "store"]
    /\ UNCHANGED <<published, db, ranking, longTerm, generation, spawned, run,
                   pages, browses, flushed, served>>

\* Mutant: the scan stores its result whatever was flushed meanwhile.
SameGenerationAlways(since) == TRUE

\* The generation guard (set_if_generation, and by hand in get_long_term_ranking).
SameGeneration(since) == since = generation

\* The scan answers everyone who joined it, and caches its result under the guard.
ScanStore(k) ==
    /\ scans[k].pc = "store"
    /\ ranking' = IF SameGeneration(scans[k].generation)
                  THEN [ranking EXCEPT ![k[1]] = scans[k].got] ELSE ranking
    /\ scans' = [scans EXCEPT ![k] = NoScan]
    /\ UNCHANGED <<published, db, history, longTerm, generation, spawned, run,
                   pages, browses, ghosts>>

ScanFails(k) ==
    /\ scans[k].pc # "none"
    /\ "rank" \in Faults
    /\ scans' = [scans EXCEPT ![k] = NoScan]
    /\ UNCHANGED <<published, db, caches, spawned, run, pages, browses, ghosts>>

---------------------------------------------------------------------------
(* Single-stock pages and the long-term ranking. *)

\* _get_quotes reads the stored bars, and may be at the provider for a long time.
PageRead(p, m) ==
    /\ "page" \in Requests
    /\ pages[p].pc = "idle"
    /\ history[m] = 0
    /\ pages' = [pages EXCEPT ![p] = [pc |-> "fill", market |-> m, got |-> db[m]]]
    /\ UNCHANGED <<published, db, caches, spawned, run, scans, browses, ghosts>>

PageFill(p) ==
    /\ pages[p].pc = "fill"
    /\ PutHistory(pages[p].market, pages[p].got)
    /\ pages' = [pages EXCEPT ![p] = IdlePage]
    /\ UNCHANGED <<published, db, ranking, longTerm, generation, spawned, run,
                   scans, browses, flushed, served>>

\* get_long_term_ranking, one request per market at a time (LockRegistry).
Browse(m) ==
    /\ "browse" \in Requests
    /\ browses[m].pc = "idle"
    /\ longTerm[m] = 0
    /\ browses' = [browses EXCEPT ![m] =
                      [pc |-> "store", generation |-> generation, got |-> db[m]]]
    /\ UNCHANGED <<published, db, caches, spawned, run, scans, pages, ghosts>>

BrowseStore(m) ==
    /\ browses[m].pc = "store"
    /\ longTerm' = IF SameGeneration(browses[m].generation)
                   THEN [longTerm EXCEPT ![m] = browses[m].got] ELSE longTerm
    /\ browses' = [browses EXCEPT ![m] = NoBrowse]
    /\ UNCHANGED <<published, db, history, ranking, generation, spawned, run,
                   scans, pages, ghosts>>

---------------------------------------------------------------------------
Refresh ==
    \/ Start \/ SpawnedRuns
    \/ \E scope \in Scopes : Nightly(scope)
    \/ \E m \in Markets : IngestTicker(m) \/ RankRead(m) \/ Snapshot(m)
    \/ Flush \/ PostFails \/ RankFill \/ RankStore \/ RunFails \/ Finish

Visitors ==
    \/ \E m \in Markets : Ask(m) \/ Browse(m) \/ BrowseStore(m)
    \/ \E k \in TaskKeys : ScanRead(k) \/ ScanFill(k) \/ ScanStore(k) \/ ScanFails(k)
    \/ \E p \in Pages : PageFill(p) \/ \E m \in Markets : PageRead(p, m)

Next == Refresh \/ Visitors \/ \E m \in Markets : Publish(m) \/ Expire(m)

Spec == Init /\ [][Next]_vars

---------------------------------------------------------------------------
(* Properties. *)

Runs == [pc : {"idle", "ingest", "rank", "fill", "store", "snapshot"},
         scope : SUBSET Markets, todo : SUBSET Markets, failed : SUBSET Markets,
         skipped : SUBSET Markets, market : Markets \union {NoMarket}, got : Versions,
         asked : [Markets -> Versions]]

Scans == [pc : {"none", "start", "fill", "store"}, generation : 0..MaxGeneration,
          got : Versions, floor : Versions]

\* Every variable stays in its range.
TypeOK ==
    /\ published \in [Markets -> 1..MaxVersion]
    /\ db \in [Markets -> 1..MaxVersion]
    /\ history \in [Markets -> Versions]
    /\ ranking \in [Markets -> Versions]
    /\ longTerm \in [Markets -> Versions]
    /\ generation \in 0..MaxGeneration
    /\ spawned \in 0..MaxSpawned
    /\ run \in Runs
    /\ run.pc \in {"fill", "store"} => run.market # NoMarket
    /\ scans \in [TaskKeys -> Scans]
    /\ pages \in [Pages -> [pc : {"idle", "fill"}, market : Markets \union {NoMarket},
                          got : Versions]]
    /\ \A p \in Pages : pages[p].pc = "fill" => pages[p].market # NoMarket
    /\ browses \in [Markets -> [pc : {"idle", "store"}, generation : 0..MaxGeneration,
                                got : Versions]]
    /\ flushed \in [Markets -> 1..MaxVersion]
    /\ served \in [Markets -> Versions]
    /\ late \subseteq Markets

\* A cached entry of m, if there is one, is no older than the last flush of m.
Current(cache, m) == cache[m] = 0 \/ cache[m] >= flushed[m]

\* The generation guard: nothing computed from before a refresh is served from a
\* cache after it, as long as no history entry was put back from before a flush.
CachesAreCurrent ==
    \A m \in Markets \ late :
        Current(history, m) /\ Current(ranking, m) /\ Current(longTerm, m)

\* ScanWorkBudget's key: a caller that arrives after a refresh is not answered by a
\* scan of the data the refresh replaced, whoever started the scan it joined.
AnswersAreCurrent ==
    \A k \in TaskKeys :
        k[1] \notin late /\ scans[k].pc \in {"fill", "store"} => scans[k].got >= scans[k].floor

\* last_refresh_at tells the truth: once a run has succeeded, every ticker it did not
\* pass over shows at least what the provider had published when the run began.  A
\* success may pass over tickers (ingest_outcome): up to a tenth of a market in error,
\* and any number skipped as long as one is stored.
SuccessIsServed ==
    \A m \in Markets :
        /\ db[m] >= served[m]
        /\ m \notin late => \A shown \in {history[m], ranking[m], longTerm[m]} :
                               shown = 0 \/ shown >= served[m]

\* The inductive invariant behind the three.  What a call holds is no older than the
\* last flush of its market for as long as the generation it noted is the current one;
\* what the refresh holds is always current, since nobody else flushes.
TablesInv ==
    \A m \in Markets :
        /\ published[m] >= db[m]
        /\ db[m] >= flushed[m]
        /\ flushed[m] >= served[m]

RunInv ==
    /\ run.pc = "ingest" =>
           \A m \in run.scope :
               /\ published[m] >= run.asked[m]
               /\ m \notin run.todo \union PassedOver => db[m] >= run.asked[m]
    /\ run.pc \in {"rank", "fill", "store", "snapshot"} =>
           \A m \in run.scope : flushed[m] >= run.asked[m]
    /\ run.pc \in {"fill", "store"} /\ run.market \notin late => run.got >= flushed[run.market]

ScanInv(k) ==
    /\ scans[k].floor <= flushed[k[1]]
    /\ scans[k].pc = "start" => k[2] <= generation
    /\ scans[k].pc \in {"fill", "store"} =>
           /\ k[2] <= scans[k].generation
           /\ scans[k].generation <= generation
           /\ k[1] \notin late /\ scans[k].generation = generation =>
                  scans[k].got >= flushed[k[1]]

BrowseInv(m) ==
    browses[m].pc = "store" =>
        /\ browses[m].generation <= generation
        /\ browses[m].generation = generation => browses[m].got >= flushed[m]

PipelineInv ==
    /\ TablesInv
    /\ RunInv
    /\ \A k \in TaskKeys : ScanInv(k)
    /\ \A m \in Markets : BrowseInv(m)
    /\ CachesAreCurrent
    /\ AnswersAreCurrent
=============================================================================
