# StockPilot: a verification project in TLA+

StockPilot downloads end-of-day prices of a few hundred companies, stores them,
ranks the companies, and serves the result to a browser.  It is one Python
process (FastAPI, one event loop, one scheduler, two in-process caches) in front
of one PostgreSQL database, plus a React front end.  These modules model the parts
of it that have state, concurrency and failures, and those analysis methods whose
control is intricate.  Paths below are relative to `src/backend-python/app/`.

## 1. Inventory

| component | state | operations | hard behaviour | what makes it correct |
|---|---|---|---|---|
| stored price history (`jobs/daily_ingest.py`, `analysis/corporate_actions.py`, `routers/stocks.py::_get_quotes`, `db/repository.py`) | `daily_quotes`; the gap back-off and the backfill memo in memory | nightly ingest, gap widening, repair, on-demand backfill | the provider restates a whole history between or during calls; each read, download and write may fail; readers write the same rows | the series stays on one price scale and has no hole |
| refresh pipeline (`services/refresh_service.py`) | run lock, status fields | `start`, `run` (scheduler, button, start-up) | triggers collide; each step may fail | one run at a time; success means fresh data is stored and shown |
| caches (`services/cache.py`, `services/market_cache.py`) | entries, expiry, generation, pins, key locks | get, set, guarded set, invalidate, clear | computations that straddle an invalidation; ceilings, eviction | nothing from before a refresh is served after it; churn of variants pushes no baseline out |
| scan and back-test admission (`services/scan_work.py`, `routers/stocks.py`) | running tasks by key, per-client budget, a one-slot gate | run, join, refuse | callers disconnect; a refresh in between | a joiner gets an answer from the data it could have expected; slots belong to work under way |
| long-term ranking (`routers/long_term.py`, `services/long_term_service.py`) | a cache entry, an append-only table | browse, pre-warm | a hand-written generation guard | as for the caches |
| market clock, scheduler, bootstrap plan (`markets.py`, `jobs/daily_ingest.py`, `main.py`) | sessions, jobs per zone | fire, drop, catch up | zones change over on different days; a run is dropped while another holds the lock | a nightly run sees its day's session; a missed one is fetched in the end |
| market scans (`services/ranking_service.py`, `heatmap_service.py`, `volume_surge_service.py`, `scanner_service.py`) | a cache of bars the four share, rows per scan | rank, map, find surges, back-test signals | reads fail for one company, another scan's read fills the cache, a nightly run in between | a failure is loud; the pages list the same companies on the same bars |
| stock page chart (`routers/stocks.py`, `analysis/timeframe.py`) | kept intraday downloads | a range at a bar size | ranges cut histories, downloads cut sessions, kept bars get older | every chart says the same of the same bars |
| live prices (`services/live_prices.py`) | prices of today, run lock | start, scheduled run, overlay | runs race closes and refreshes | a live price never stands over a final bar or on a day without a session |
| lifespan (`main.py`) | services, scheduler, start-up jobs | initialise with retries, roll back, shut down | a cancel at any await | nothing outlives the engine; a stop returns |
| action log (`services/action_log.py`) | queue, writer task, counters, ring buffer, file | record (from any thread), drain, stop | full queue, failing inserts, a stop that times out | entries keep their order, get their turn, or are counted as lost |
| error tracker (`services/error_tracker.py`) | groups, pending counts | record, evict | several threads, throttled writes | occurrences add up |
| portfolios (`db/portfolio_repository.py`, `services/portfolio.py`, `services/xtb_import.py`) | versioned rows | create, add, remove, update, delete, import | retries after uncertain answers, two devices | no lost update, no double trade, never a short position |
| watchlists, journal (`db/watchlist_repository.py`, `db/journal_repository.py`) | rows per account | create, rename, delete, review | limits, the last list, retries | limits and uniqueness hold; a review replaces what its author saw |
| accounts (`services/auth.py`, `routers/auth.py`, `db/user_repository.py`) | password, token version, throttle, hashing slots | register, sign in, refresh, change password | concurrent attempts, cancelled requests | a token shows the present password; failures stay counted; a slot is taken as long as its work runs |
| company archive (`jobs/daily_ingest.py`, `db/long_term_repository.py`, `db/repository.py`) | metrics, statements, report dates, observations | nightly and weekly download, pages that download on demand | a step fails, a run is interrupted | the archive becomes complete; known reports stay known |
| insider trades (`services/espi_client.py`, `db/repository.py`) | a table without a unique key | visit, job | look-up and insert are two statements | what was downloaded is stored; a report is no trade of its own |
| provider client (`services/yahoo_finance_client.py`) | gate, waits | daily and session bars | rate limits, cancelled callers, unfinished bars | a bar called finished is finished |
| ranking table (`routers/stocks.py`) | cached rows, live prices | filter, sort, page | prices change after the ranking | the page is in the order it claims |
| VSA4 (`analysis/vsa4`, `analysis/methods/vsa4.py`) | candidates, pending tests, set-ups, trades | one bar at a time | sequences among bars that spoil one another's levels | a set-up rests on one unbroken sequence; page and simulation agree |
| trend methods and back-test gate (`analysis/methods`, `analysis/weekly.py`, `services/method_backtest_service.py`) | none | evaluate, signals, judge | two readings of one history, the week in progress | what fires is marked; markers stay; firing every day is no edge |
| classic volume spread analysis (`analysis/vsa.py`, `analysis/phase.py`, `analysis/weekly.py`) | none | scan a series, rate it, read its weeks | windows of different length and age, per user settings | every window reads the same bars alike |
| machine-learning workbench (`ml`) | data sets | features, label, split, train | rows of a whole history computed at once; labels that reach across gaps | a row knows no later bar; a fold learns nothing from the period it is judged on |
| front end (`src/frontend/src`) | tokens, data version, polling | token refresh, refresh button, watcher | shared in-flight refresh | not modelled, except as the author of requests |

The scheduler calls `RefreshService.run` for each group of markets; the button and
the start-up call `start`, which spawns `run`.  A run calls `IngestService.run`,
which writes `daily_quotes` and calls `invalidate_markets` on both caches; the run
then ranks each market through `history_cache` and stores the rankings.  Public
requests read the same caches, compute what is missing through `ScanWorkBudget`,
and fill the same entries.  `_get_quotes` both reads and writes `daily_quotes`.

Portfolios, watchlists and the journal are per-account tables.  Every write of
`PortfolioRepository.change` is one transaction that first locks the owner's row in
`users`, so the three repositories also exclude one another.  Pages send the version
they show with each change, keep the id of a creation or a trade for its retries, and
reload every minute.

## 2. What is modelled, and how it maps to the code

| module | extends / instantiates | models |
|---|---|---|
| `PriceHistory` | | one ticker's stored bars, the provider, the nightly ingest, the readers |
| `RefreshPipeline` | | the refresh run, both caches, scans, pages, the long-term ranking |
| `TradeLedger` | | abstract: what the portfolios of an account promise their owner |
| `PortfolioLedger` | instance of `TradeLedger` | `PortfolioRepository.change` and the pages that call it |
| `ActionLog` | | the audit trail's queue, writer and stop |
| `Lifespan` | `ActionLog` | activation with retries, roll-back, start-up jobs, shutdown |
| `TradingDay` | | market clock, nightly jobs, bootstrap plan, live prices |
| `Sessions` | | sign-in, tokens, password change, throttle, hashing slots |
| `AccountData` | | watchlists and journal |
| `ErrorTracker` | | error groups and the throttled mirror into the action log |
| `ScanAdmission` | | cache primitives, scans, the back-test gate with its key locks |
| `CompanyArchive` | | metrics, statements, report dates, observations of one market |
| `InsiderTrades` | | insider trades from report to table |
| `ProviderClient` | | downloads of bars behind the gate and the rate limit |
| `Listing` | | the ranking table: filters, sort levels, live prices, pages |
| `MarketScan` | | the four scans of a market over their shared cache of bars, and a stock page's volume figures |
| `Vsa4Engine`, `Vsa4Trades` | the second extends the first | detector and set-ups; simulated trades and the page's reading |
| `TrendMethods` | | four trend methods, weekly candles, the back-test gate's verdict |
| `StockPage` | `TrendMethods` | the chart of a stock's page: ranges, marks, header, weekly and intraday bars |
| `VsaSignals` | `TrendMethods` | the older signals, background phases, ratings, weekly reading, feature rows |
| `WalkForward` | | labels, walk-forward folds |
| `MCPriceHistory`, `MCRefreshPipeline` | the module of that name | scenes, bounds and symmetry for TLC |
| `MCProcess`, `MCRequests`, `MCEngines`, `MCArchive` | several modules that share no state | one run for several components, one of which moves in each behaviour (`focus`, or `scene` in `MCProcess`) |
| `*_proofs` | the modules they prove about | theorems (section 4) |

A module without variables of another is a component of its own; they meet through
the pipeline's lock, the caches and the row lock of an account, and each module keeps
what it needs of these.  `Lifespan` with `ActionLog` is a real composition: the log's
writer is started and stopped by the life of the process.

### PriceHistory

`bars` is the table `daily_quotes` of one ticker, a bar being the price scale it is
expressed on (how often the provider had restated the history when it served it).
`night` holds the local variables of `IngestService._do_run.ingest_one`, `reads` those
of each `_get_quotes`; `retryAfter` and `attempted` are the two memos in memory, which
`Restart` forgets.  One action stands for the code between two awaits that another
task can fall into: reading the stored bars (`ReadStored`), the span read of the gap
check (`WidenForGap`), the second read over the widened window (`ReReadStored`), the
download (`Fetch`, `FetchFails`), the span read and the download of a repair
(`RepairSpan`, `RepairFetch`, `RepairRefused`), the write (`Write`, `WriteFails`), and
likewise for a reader.  A call fails only if its kind is in the constant `Faults`, so
that a run can say which failures it is about.  `NewDay` closes a calendar day, with
or without a session.

`unvouched` is history, not program state: it collects why a write could not be vouched
for.  `"uncompared"` are bars written beside stored bars none of which they were compared
with; `"overtaken"` is a reader's prefix that was downloaded, and compared with bars
read before that, when the provider then restated and the prefix was written all the
same.  `VouchedOneScale` is conditional on the absence of both, `VouchedNoHole` on that
of the first; `repair_splice` and section 5 show what the code does
where the conditions fail.

### RefreshPipeline

Data is abstracted to its version, the number of nightly sessions.  `run` is
`RefreshService.run` under its lock, one action per await: a market's bars are written
(`IngestTicker`), the caches flushed (`Flush`), each market ranked through `history_cache`
(`RankRead`, `RankFill`, `RankStore`), the long-term ranking pre-warmed (`Snapshot`), and
`last_refresh_at` set (`Finish`).  `spawned` counts tasks that `start` created and the
loop has not run yet.  A market stands for one of its tickers. Whether the download
succeeded depends on all of them (`ingest_outcome` tolerates one failure in ten, and any
number of skipped tickers as long as one was fetched), so `Flush` takes the counters of
the market's other companies as they may be (`Companions`, `Verdicts`): a run that could
not store the ticker may fail or go on.  `scans` is the task registry of `ScanWorkBudget`,
keyed by market and generation; `pages` are `_get_quotes` calls that will store into
`history_cache`; `browses` is the long-term endpoint.  `Expire` lets any cached entry
vanish at any time, which covers expiry and eviction.

`flushed`, `served`, `late` and a scan's `floor` are history: the stored version at a
market's last flush, what the last successful run that stored the ticker had asked for,
the markets whose history entry was put back from before a flush, and the flush a scan's
callers had seen.  `late` is the exception the properties make: `history_cache` has no
guard.

### PortfolioLedger and TradeLedger

`book` is the table `portfolios`; `sent` the requests in flight, which stay there
because a request may be repeated or arrive late; `working` the transactions that are
open, with the row and the count they read; `answer` what a client was just told.
`Begin` is the transaction up to its reads, behind `SELECT ... FOR UPDATE` of the
owner's row (`Unlocked`); `Create`, `Update`, `Add`, `RemoveTrade`, `Import` and `Delete`
are its commits, each with every check `change` makes for that operation, in
`Creatable`, `Current`, `Addable`, `Removable` and `ImportReady`; `Answer` is every
ending without a write, whether the request is recognized as a retry (`Known`) or
refused; `Abort` is a lost connection or process.

The `transactions` list is a set of entries, each with the version at which it was
entered: that is the order in which the program replays trades of one moment.  The
list is sorted by moment, stably, each time it is replayed, so the sort that an
import also saves cannot be observed.  `Covered` is the test `holdings` makes at every
sale.  `gone`, and the part of a request's `seen` beyond its version, are history.

`TradeLedger` says the same without devices, requests, versions or locks: a portfolio
is opened or closed, its settings changed, new trades entered, or one trade struck
out.  The refinement mapping is `Shown`: settings and recorded trades per portfolio.

### Lifespan and ActionLog

`queue` is `asyncio.Queue` with its bound, `handed` what `call_soon_threadsafe` has been
given by other threads, `worker` the writer task, `batch` what it has taken off, `stopper`
and `tail` the local state of `stop_db_writer`: sentinel, wait, cancel, final flush.  An
entry that meets a full queue is counted in `droppedEntries`; the rows of a failed insert
are gone.  `startup`, `lifespan`, `scheduler`, `published` and `jobs` are the tasks and
fields of `main.py`: `Activate` publishes every service in one step, as the code does
between two awaits; `PreparationFails` and `ActivationFails` are the two ways an attempt
ends, the second with a roll-back that stops the writer; `BeginShutdown`, `StopServices`
and `Close` are the shutdown.  The database answers, fails, or never answers: its engine
has no command timeout, so no fairness is assumed of its calls (`WriterAnswer`,
`EndStop`), other than by name (`DatabaseAnswers`).  Entries recorded during the final
flush find the queue gone and are not counted.  The ring buffer and the file, which lose
nothing, are left out.

### TradingDay

`now` is a UTC minute of a week that repeats, `season` which of the zones are on summer
time, `trades` the holidays, which the program does not know.  `data` and `today`
say of each market whether its newest stored bar is that of its last finished session
and of the present day.  `due` are jobs whose minute has come; `run` a refresh with
what it has still to fetch, of which only lock and outcome are kept
(`RefreshPipeline` has the rest); `liveRun` a live run between its probe and its write.
`DropNightly` is the run that finds the lock taken: it is dropped, not queued.
`Restart` makes the bootstrap plan.  The clock jumps between the minutes at which
anything can change (`Moments`); the proofs show that it misses none that matters.

### Sessions, AccountData, ErrorTracker, ScanAdmission

`Sessions`: `account` is the row, `caller` each request with what it has read, so one
action is what a request does up to its next await.  `stamps` is the throttle's list
of attempts with `recovery`; `taken` the slots of `_password_slots`, `orphans` hashing
threads whose request was cancelled.  One address and one client; the eviction at
4096 throttle keys, the flag `is_active` and the administration of users are left out;
`Usable` are the passwords strong enough to be accepted.  A registration commits
(`Insert`) and reads the row again before its token is issued (`FirstToken`), as a
change does (`SetPassword`, `Reread`); each token carries which request issued it.

`AccountData`: a watchlist change and a new journal entry are transactions with the
row lock (`lock`, `tx`); a review or a deletion locks its entry and is one step.
`known` is the entry as each device last saw it.  Prices in a journal snapshot are
evidence and opaque.

`ErrorTracker`: `Report` and `MaybeWrite` are the two lock sections, `holding` what a
thread has in hand between them; a group is an object that a thread can hold after the
table has dropped it.

`ScanAdmission`: `store` is a `TTLCache` in order of use, `pinned` its pins, `tasks`
`ScanWorkBudget`'s registry, `spent` the misses of one address, `gate` and `test` the
one back-test, `locks` a `LockRegistry`.  The registry may forget a lock that requests
are still in line for (`services/cache.py:187-201`), so two locks for one key are
reachable; they do no harm because the gate lets one back-test run.  A baseline that
arrives unpinned in a full cache may evict itself; `get_capex` follows the protocol of
the scans and has no actions of its own.

### CompanyArchive, InsiderTrades, ProviderClient, Listing, MarketScan

`CompanyArchive`: `row`, `stored` and `observed` are the three tables of one market,
`night` the refresh with the step each ticker has reached, `page` a stock page that
downloads what is missing, `capexMiss` the memo of tickers without a cash flow.
Figures are left out, as is the currency of quarterly figures; fetching and writing one
kind of statement is one action of the refresh.  The provider answers an outage like a
company that reports nothing.

`InsiderTrades`: `rows` is `insider_transactions` as a bag, `task` a visitor's or the
job's step with what it downloaded and what of that it found missing.  A report is read
as a whole when none of its attachments can be read.

`ProviderClient`: `call` is a download with the moment its thread read the clock, its
waits and its result; `orphans` are threads whose caller left: the gate is
released, the thread goes on.  The gate of five is `Slots`; the intraday path is in `StockPage`.

`Listing`: `Rank` makes cached rows, `PriceToday` lays a live price over one,
`AskForTable` filters, sorts by up to `MaxLevels` columns and cuts the page, `Show` is
the answer.  Filters that compare one column with one bound are represented by the
price's; insider screening sorts a second time, as the code does.

`MarketScan`: a history is how many of a company's bars (`Past`) are stored, cached or
read.  `step` says where each of the four scans stands, between awaits that another scan
or the nightly run can fall into; the ranking reads twice, first for relative strength
across the market, then company by company.  `blind` is history: the companies that a
failed call made look empty.  What a scan
computes is an operator of the bars it read, its medians included (`TwiceMedian`); the
rating, the verdict and the classic signals are `VsaSignals`' and stand here as the
slice they are computed from.  `PageVolume` is what a stock's own page computes of its
volume from a longer range.

### Vsa4Engine, Vsa4Trades, TrendMethods, StockPage, VsaSignals, WalkForward

One step of `Vsa4Engine` is a session: features, seventeen candidates (`flags`), the
background they leave (`background`), a pending test and a pending confirmation
(`test`, `waiting`), set-ups.  `Vsa4Trades` runs the simulator on the same step, one
position of one unit, and has the page's own reading of what is live.  The tick of the
whole history is that of its last close, a decade the model's prices do not leave.

`TrendMethods` has `signals` and `evaluate` of four methods as two operators each over
one `history`, with averages compared as sums; percentages rounded for display become
counts of rules.  The back-test's pooling over stocks is left out.

`StockPage` cuts ranges out of that `history` (`Fetched`, `Displayed`), clips the marks
found in them and reads the header's price and change.  Intraday bars are not stored:
`tape` is the day of each of the provider's bars, `kept` the downloads that are
remembered for minutes, `visit` a request between its look into `kept` and its answer;
a merged bar is the stretch of the tape it is made of (`Grouped`).

`VsaSignals` reads the same `history`: `Matched` is the chain of rules `detect_signals`
tries on a bar, `Signals` its result for a series, `NetScore` and `Verdict` the rating
(the decay goes by whole half-lives), `WeeklyView` the same over completed weeks,
`FeatureRows` what `ml/features.py` makes of a history.  The method is archived for the
screens (`analysis/method_status.py`), the feature rows still use it.

`WalkForward`: `traded` are the sessions of each stock; labels and folds are sets of
days; a model stands for the bars it has seen.

## 3. The runs

| run | question | bounds | result |
|---|---|---|---|
| `history` | does the ingest ever splice two scales or leave a hole, alone or beside a chart request? | 5 days (4 beside a reader), 2 scales, windows of 1/1/4 days, every fault | `VouchedOneScale`, `VouchedNoHole` hold |
| `refresh` | are caches and answers current whatever collides and fails? | two markets and one refresh, or one market with two refreshes and every visitor; 2 slots, one page | all hold |
| `process` | can devices, retries and imports lose, double or uncover a trade; what can hold the shutdown up, and what becomes of the log's entries; do nightly runs and live prices fit the sessions, and is a missed one fetched in the end? | 4 requests, 2 transactions, version 6, limits of 1 portfolio and 3 trades; 3 entries, queue and batch of 2; 1 exchange, 3 days, one without trading, crashes | all hold, and `TradeLedger` is implemented |
| `recovery_hang` | does recovery stop at shutdown? | 1 entry | violated, see 5 |
| `stop_hang` | does the log's stop return when the database does not answer? | 1 entry | violated, see 5 |
| `requests` | sign-ins, lists, journal, errors, scans, back-tests | 2 callers and passwords, 3 attempts; 2 devices, 3 edits; 3 kinds in 2 groups; 3 visitors, 2 tasks, 2 cached | all hold |
| `engines` | do all readings of one history agree, and what do rows and folds know? | 6 to 8 bars of the shapes that reach every signal; 2 configurations; 2 stocks over 7 days; pages of 3 days with 5 before them, 4 intraday bars | all hold |
| `weekly_mark` | does a row's weekly mark depend on later sessions? | as above, weeks of three days | violated, see 5 |
| `archive` | fundamentals, insider trades, downloads, the table, the scans | 1 or 2 companies, 3 days; 1 report with 2 trades; 7 ticks, 1 slot; 3 rows, 3 levels; 2 companies with 5 bars, the ranking beside one other scan | all hold |
| `ranking_gap` | does a ranking ever take a failed read for an empty company? | as above | violated, see 5 |
| `report_twice` | is a report an extra trade? | as above | violated, see 5 |
| `repair_splice` | does a repair ever splice? | one kind of fault | violated, see 5 |

Why these bounds show the interesting cases.  A splice needs one restatement between
two writes, so two scales; the comparison window, the overlap of a gap and the length
guard differ already with windows of one and four days; a missed night, its back-off
and the night after it fit into five days.  A stale cache needs one flush between a
read and a store: two generations.  A lost update needs two requests made from one
version; a delayed creation needs a creation, a deletion and the creation again.
Limits of one portfolio and two or three trades are reached in every run.  A stop that
races the writer needs one entry in the batch, one in the queue and one behind the
sentinel.  A token from an old password needs a sign-in between its read and its answer
and a change in between; throttle and slots need one more attempt than they allow.
Joining, refusing and leaving need a scan with two visitors and a third at the limit.
A crash, a dropped run and a day without trading fit into three days, and so does a
session that is fetched only by a later trigger; several exchanges with different clocks
are left to the theorems.  The engines'
windows are two or three bars, so that every sequence of primary, test and confirmation
fits into seven, with a bar to spoil it.  Four intraday bars make two sessions, or one
with a rest of less than half a bar.  The scans' two companies differ in every way a
screen tells apart (one stopped trading a session ago, one is stored from the start), and
two scans are enough for one's read to fill the cache before the other's.  Every property has a mutant of the code
(`mutants` in `PROJECT.json`) that these bounds are large enough to convict.  Beyond
the bounds, the theorems below hold for every value.

A run of several components checks each in its own behaviours.  In `MCEngines` a
method is fed every sequence of a few shapes of a session that between them reach
each of its signals; the reader's requests in `MCPriceHistory` run to the end of the
shorter calendar.  Deadlock is checked except in `requests`, `engines`, `archive`,
`weekly_mark`, `ranking_gap` and `report_twice`, where the bound on attempts, edits, bars or ticks is the end.

Fairness is assumed in two places.  `Lifespan!FairSpec`: tasks that can go on do
(the event loop runs whatever is ready, and timers fire); nobody has to record, to start
or to stop, and the database need not answer.  What needs an answer says so:
`EntriesGetTheirTurn` has `DatabaseAnswers` as its hypothesis, and `recovery_hang` runs
under `AnsweringSpec`, so that what hangs there is not the database.
`TradingDay!DayFairness`: time passes, a crashed process is restarted (the deployment's
restart policy), a run goes on or fails, a due job fires or is dropped; and a fetch
that is tried again and again succeeds at last (strong fairness of `Fetch`: an outage
ends).  Without the last nothing can promise that a session is stored.  All other
specifications allow the system to stop at any time, which also covers a process that
is killed between two steps.

To run: `tlc -config MCRequests.cfg MCRequests.tla`, and so on with the module and
configuration listed for each run in `PROJECT.json`; `tlapm Requests_proofs.tla`, and
likewise for each `*_proofs` module, for the proofs.

## 4. What is proved

All theorems hold for any value of the constants that satisfies the named assumptions
of their module, so for any calendar, windows, number of markets, readers, requests,
workers, visitors, devices and trades.  TLC evaluates each assumption on a run.

`PriceHistory_proofs`: `TypeCorrect`, `VouchedHistoryIsOnOneScale` and
`VouchedHistoryHasNoHole`, with restatements at any moment, any number of readers and any
failures.  `VouchedOneScale` is not inductive: a write is safe only because of what was
compared earlier.  `SeriesInv` adds what calls in flight hold.  What was fetched is on one
scale, which the provider may have left, and of days that traded.  What the ingest read
from the table stays as it was read until it writes; what a reader read may since have
been replaced by a later scale.  A repair is under way only while the whole table is
behind the provider, and then a reader that was vouched for is overtaken; a night that was
vouched for agrees with the table it is about to overwrite, or replaces all of it.  For
the holes: a download is an unbroken stretch of sessions, a vouched write meets the table
or ends where a stored bar follows, and two stretches that meet are one.

`RefreshPipeline_proofs`: `TypeCorrect`, `PipelineIsInvariant`, and from it
`GuardKeepsCachesCurrent`, `JoinersGetCurrentAnswers` and `LastRefreshIsTrue`.
`PipelineInv` orders the versions (published, stored, flushed, served); says that what a
call holds is no older than the last flush while the generation it noted is the current
one, which is what the guard tests; and that the refresh itself may store without the
guard because it is the only one that flushes.  `LastRefreshIsTrue` follows the tickers a
run stored to what is on show after it, whichever others were tolerated.  The join key
makes a scan's generation at least that of everyone who joined it.

`PortfolioLedger_proofs`: `LedgerIsInvariant`, and from it `TypeCorrect`,
`NeverSellsShort`, `RetriesAddOnce`, `LimitsHold`, `AnswersHold`,
`ChangesAreInformed` and the refinement `RefinesTradeLedger`.  Two strengthenings
carry the argument.  `LockInv`: one transaction is open at a time and what it read is
what is stored; so each write can be judged alone (lemma `EachWrite`).  `SeenInv`:
while a portfolio has not been deleted, a request that carries its version has seen
its very row, because versions only grow.  Sums over ledgers are never computed in the
proof: each operation replays the ledger it writes, and that guard is carried over.

`Requests_proofs` has what concurrent requests share, and the process they run in.

 - Sign-ins: `FailuresCount`, `SignInsShow`, `SlotsBoundTheWork` and `LimitsCount`
   (`LimitsCountTheWork`), each from an inductive invariant of its own.  `ThrottleInv`: every stamp belongs to an attempt
   that failed or is under way, and no attempt is stamped twice, so a success takes
   back its own only.  `SignInInv`: a request's row is that of its version, and versions
   grow with the password, so a sign-in's token that still verifies was issued from the
   present row; that a registration's and a change's need not be (they read the row
   again after their commit) is carried along by the kind of token.  `SlotInv`: slots are requests being hashed plus orphans.
 - Lists and journal: `LimitsAlwaysHold`, `SomeListAlwaysStays` and
   `ReviewsReplaceWhatTheySaw` follow from the row lock as for portfolios, with lists
   and the journal interleaved, which the run checks apart.
 - Scans and back-tests: `TasksAreInvariant`, `AdmissionIsWork` (`WaitersHaveWork`) and
   `ClientsPayForWork` (`RefusalsAreFree`).  The invariant pairs every holder and every
   place in line with a request that waits there; leaving, pruning and hand-over are
   each shown to keep the pairing.  It admits a lock that was pruned while in use, and
   that is why it must also say that the gate protects the test and not the lock.
 - Errors: `NoHitIsLost` (`HitsAddUp`).  The equation of its two sums and a count is
   inductive once threads are known to hold groups that were made: a hit moves from
   what is reported to what is held, and from there to what is pending or written.
 - The life: `LifeIsInvariant`, `TeardownIsComplete` (`NothingOutlivesTheEngine`) and
   `QueueIsBounded`.  `LifeInv` says at each step of the shutdown what can still be
   running: without a queue there is no writer, after the services are stopped no task
   is left that could start one, and the stop waits for the writer it met.
 - The log: `EntriesKeepTheirOrder` (`RowsInOrder`).  `LineInv` says that the table, what
   a task has in its hands (`InHand`) and the queue stand one behind the other in the
   order in which entries were accepted (`Line`), whoever holds them; that no entry is
   accepted twice, because what was recorded is accepted or still handed over; and that
   a sentinel is on the queue only while somebody waits for the writer it is meant for.
   `PhaseInv` says which of the two tasks can have entries in its hands.  Each step is
   then one lemma about lines: one more behind all (`LineGrows`, `LineAsksToStop`), the
   first of the queue taken (`LineTakes`) or skipped, what was in hand written
   (`LineWrites`) or gone (`LineDrops`), the queue without its sentinel (`LineClears`).

`Engines_proofs`: `ConfirmedSetupsAreSequences`, for any windows, tolerances and
series; `LiveTradesAreHeld` and `AccountsBalance`, for any costs and prices; and of the
workbench, `FoldsLeakNoFurther` (`LeaksAreBounded`).
`SetupsAreSequences` speaks of the bars between a primary and its confirmation, which
the program never looks at together.  `EngineInv` says what the detector's state
remembers of them: a primary on record was flagged at its bar (`Recorded`), no bar
since has broken its level or flagged the other side (`LegStands`), a pending test
touched the level no later than its window allows and has held its stop since
(`TestStands`), so that the confirmation completes a `Sequence`.  `AccountInv` adds
the trades: an open position rests on a set-up confirmed one bar before its entry, a
trade closed in time order, and the cash is the sum so far.
`NothingLeaks` fails (section 5), and `LeaksAreBounded` says what the purge and the embargo
do achieve, for any calendar, missed sessions and embargo: the purge excludes a fit row's
own label, so only a peer's can reach into the forbidden year; the peer's window begins
on the row's day, before the embargo, and its sessions are at most a gap apart
(`WindowsAreWithinReach`), so it ends fewer than `Horizon * MaxGap - Embargo` days into
that year; and for the cut, whose rows' windows the purge and the calendar order before
the test year, nothing leaks.

`Sums_proofs`: what the sums of these properties need: that the library's
`SumFunction` exists, is an integer, does not depend on the order, and changes by what
one value changes.  Induction theorems cannot be instantiated here, so each of these
facts is proved for all subsets at once by a smallest counterexample (`LeastNatural`,
`ProperSubsets`).

`Archive_proofs`: `KnownReportsStay`, `ArchivesComplete`, `DownloadsAreStored`,
`BarsAreFinished` and, of the scans, `ScansAreInvariant` and `ScansAlwaysAgree`
(`ScansAgree`).  A statement that is stored is archived or its ticker is still to be
done by the night at work; a download's missing trades are stored or in its hands; and
a session that is final at one tick is final at every later one, so the clock that was
read before the wait judges bars that were built after it.  Of the scans `ScansInv` says that
what is shown is what the bars that were read come to, and that the ranking and the
back-test show nothing once a read has failed; the rest is about what is computed: a
slice keeps the newest bars whatever was stored before them (`FurtherBack`,
`WindowsOfAnEnd`), at most half of a sample is above its median (`MedianSplits`, for a
median that is selected by rank), and a mean is not above its peak (`MeanIsBelowPeak`).

`TradingDay_proofs`: `DayIsInvariant`, `NightlyRunsHaveTheDay` and
`LivePricesAreOfASession`, for weeks of any length, any weekend, markets and hours of
the live job.  The clock is the hard part: local minutes are UTC minutes moved by the
zone's offset; the moments of the clock skip no local midnight, so from one to the next
an exchange's day goes on or begins anew; and a nightly run's local hour is after the
close of each of its markets in every season, also where two zones change on different
days.

Model-checked only, and why:

 - Liveness: `EntriesGetTheirTurn`, `OnlyTheFlushHoldsUp`, `SessionsAreStored`.
 - `BaselineOutlivesChurn`, `TableIsInOrder`: they compare subsequences and sorts, which
   the library defines by operators with operators as parameters (`SelectSeq`,
   `SetToSortSeq`) that the prover cannot expand.
 - `ChartsAgree`, `ReadingsAgree`, `RowsKnowTheirPast`: they relate two readings of whole
   histories, made of such selections and folds; a history is chosen once and no step of
   the program links the two readings, so there is no invariant to carry, only data.

## 5. Where the code and what is said of it differ

Six have a run with a counterexample and are quoted in `PROJECT.json` (`findings`).

 1. `repair_splice`: a repair that cannot read the stored span rebuilds a few days and
    writes them into the old-scale history (`jobs/daily_ingest.py:544`).
 2. `recovery_hang`: the roll-back of a failed activation swallows the cancellation of
    the shutdown (`services/action_log.py:380`), goes on retrying and is waited for,
    though `main.py:426-427` stops recovery before the teardown so that it cannot
    publish new services.
 3. `report_twice`: a report stored as a whole stays beside its own trades once its
    attachments can be read (`services/espi_client.py:399-402`).
 4. `weekly_mark`: the feature rows of a whole history know of every past week that it
    was over, the day itself did not (`ml/features.py:579` against 4-5): in a week that
    ends before a Friday holiday the last row carries a stage-2 mark from the future.
 5. `ranking_gap`: the heatmap and the volume-surge scan take a provider that cannot be
    reached for a company without bars and remember that for the ranking
    (`services/heatmap_service.py:165`), which then leaves the company out and is cached
    as complete, though `services/ranking_service.py:300` and 381-382 reject such an
    answer.  `FailuresAreLoud` is what holds: the ranking's own reads fail loudly.
 6. `stop_hang`: the last flush of the log has no time limit, so a database that hangs
    holds the shutdown up (`services/action_log.py:392` against 375-376).
    `OnlyTheFlushHoldsUp` is what holds: all else about the stop is bounded.

Others follow from the models and are left without a run.  The first two TLC shows when
the property named takes the place of the run's.

 7. A chart request compares its download with bars it read before, and writes after
    both; a restatement in between, and the night's repair, leave an old-scale prefix
    before a repaired history (`routers/stocks.py:869` against 841-842).  This is the
    exception `"overtaken"` of `VouchedOneScale`; without it, `PrefixesJoinTheirScale` is
    violated in `history`.
 8. A label is measured against the median of its day, and a thinly traded peer's window
    of 10 or 30 sessions (`ml/dataset.py:50`) that may lie 10 days apart
    (`ml/labels.py:29`) reaches past the embargo of 45 days (`ml/validation.py:35`) into the
    year a fold must not know (against 5-7 and 34).  `LeaksAreBounded` is what holds;
    `NothingLeaks` is violated in `engines`, whose windows also reach past the embargo.
 9. A failed widened download starts a back-off in which the next nights fetch the short
    window only and leave the hole the widening was made to prevent
    (`jobs/daily_ingest.py:343` against 58-60).
10. A chart request beyond the last stored bar writes uncompared bars that hide a
    restatement from the ingest (`routers/stocks.py:864` against 847-849).  This is the
    exception `"uncompared"` of `VouchedOneScale`.
11. `history_cache` is filled without the guard its class offers
    (`routers/stocks.py:875` and `services/ranking_service.py:291` against
    `services/cache.py:126-127`).  This is the exception `late` of `CachesAreCurrent`.
12. An exception between the writes and the flush of the ingest leaves the caches
    answering from before the writes (`jobs/daily_ingest.py:411`, flush at 425).
13. A repeated creation brings a deleted portfolio back
    (`db/portfolio_repository.py:129` against `README.md:116-117`).  This is the
    exception `gone` of `ChangesWhatWasSeen`; a journal entry returns the same way.
14. The holdout years of the workbench are said to stay untouched
    (`ml/validation.py:5-7`), but labels of the last training rows reach into them
    (`HoldoutStaysLocked` of `WalkForward` fails).
15. A cancelled caller releases the provider's gate while its thread goes on, so more
    downloads run than the gate allows (`services/yahoo_finance_client.py:9-10`).

Smaller ones.  `RefreshService.start` tests the lock that its task takes only later, so
two calls in a row both answer True and the second task is dropped (`SpawnedRuns`). Two
password changes at once both prove the old password (`routers/auth.py:541`). Pending hits
of an error group that is evicted or goes quiet are never written.  For entry bars without
volume, and for slippage, the page's live trade differs from the simulator's.  In a week
whose Friday is a holiday a weekly signal is only known when the next week begins.  A
registration and a password change read their row again before they issue a token
(`db/user_repository.py:73`, `routers/auth.py:554`), so such a token may carry the version
of a later change.  The change in a chart's header is 0 for a range of fewer than two
bars, whatever the bar size, and `HeadersAgree` leaves those out.

## 6. Not modelled

Request validation is assumed, so inputs are the ones a handler can receive.  HTTP
clients and file readers are the environment: what they may return is
nondeterministic.  Of the portfolios, prices, fees, cost basis and valuation are left
out (one instrument, whole quantities), as are ids that belong to another account; no
two rows of a report have one moment.  The rating snapshots' copies of the closes and
the size bound of the backfill memo are left out of the price history.  The retired
engines, file readers, health reports, settings, texts, the front end and the
deployment are not modelled; `PROJECT.json` gives each its reason.

## 7. What is left

 1. `Vsa3`, the retired detector, with the property that what was said of a bar stands
    when bars are added;
 2. `HealthReport`: that what the health page calls healthy did run;
 3. the sign-out of a browser whose token refresh is under way;
 4. the sorts and selections of section 4 as recursive functions, so that `TableIsInOrder`
    and `ReadingsAgree` could be proved.
