----------------------------- MODULE MarketScan -----------------------------
(***************************************************************************)
(* The four scans of a whole market: the ranking, the heatmap, the volume  *)
(* surges and the back-test of the classic signals (archived with them).   *)
(* Each reads every company's bars from a cache the four share, from the   *)
(* database or from the provider, and each has its own way with a read     *)
(* that fails; the ranking reads twice, first to rank relative strength    *)
(* across the market and then to analyse the companies one by one.         *)
(*                                                                         *)
(* A company is its place in the universe, its history the first bars of   *)
(* Past[c]: what is stored, cached or read is how many.  The rating, the   *)
(* verdict and the signals are VsaSignals': here they stand as the slice   *)
(* they are read from.  Admission and the cache of finished scans are      *)
(* ScanAdmission's, generations and flushes RefreshPipeline's.             *)
(***************************************************************************)
EXTENDS Integers, Sequences, FiniteSets, FiniteSetsExt, Functions

CONSTANTS
    Past,           \* the bars of each company, by day: [day, close, high, low, volume]
    Small,          \* below MIN_MARKET_CAP_PLN, as far as is known
    Reported,       \* company -> its report dates
    ScanDay,        \* today
    RatingWindow,   \* _HISTORY_DAYS of the scans, _RATING_WINDOW_DAYS
    PageWindow,     \* _SIGNALS_DEFAULT_DAYS, of a stock's own page
    MinBars,        \* 25
    TurnoverDays,   \* lookback of median_turnover()
    MinTurnover,    \* MIN_MEDIAN_TURNOVER_PLN
    MaxLag,         \* _MAX_SESSION_LAG_DAYS
    StrengthBack, StrengthWeight,           \* _RS_OFFSETS, the longest last, and _RS_WEIGHTS
    RecentDays, BaselineDays, MinRatio,     \* the surge's windows and threshold
    Signals,        \* company -> its classic signals: [day, name, bullish]
    Forward,        \* _FORWARD_SESSIONS
    MaxScans        \* bound

Company == 1..Len(Past)

\* Rows are read ORDER BY date.
InOrder(bars) == \A i, j \in DOMAIN bars : i < j => bars[i].day < bars[j].day

ASSUME MarketScanAssumption ==
    /\ {MinBars, TurnoverDays, RecentDays, BaselineDays, MinRatio, Forward} \subseteq Nat \ {0}
    /\ {ScanDay, RatingWindow, PageWindow, MinTurnover, MaxLag, MaxScans} \subseteq Nat
    /\ PageWindow >= RatingWindow

ASSUME PastAssumption ==
    /\ Past \in Seq(Seq([day : Nat, close : Nat \ {0}, high : Nat, low : Nat, volume : Nat]))
    /\ \A c \in Company : InOrder(Past[c])
    /\ Small \subseteq Company
    /\ Reported \in [Company -> SUBSET Nat] /\ \A c \in Company : IsFiniteSet(Reported[c])

\* A kind of signal has one direction.
ASSUME SignalsAssumption ==
    /\ DOMAIN Signals = Company
    /\ \A c \in Company : \A s \in Signals[c] : s.day \in Nat /\ s.bullish \in BOOLEAN
    /\ \A c, d \in Company : \A s \in Signals[c], t \in Signals[d] :
           s.name = t.name => s.bullish = t.bullish

ScanKinds == {"ranking", "heatmap", "surge", "stats"}

\* The scans that raise IncompleteScanError instead of leaving a company out.
AllOrNothing == {"ranking", "stats"}

\* Instead of a number of bars: not there yet, and could not be read.
NoEntry == -1
Unread == -2

VARIABLES
    storedBars, \* daily_quotes: how many bars of the company are stored
    entry,      \* history_cache: what the scans' key holds, NoEntry for no entry
    hiccup,     \* history: companies whose empty entry is of a call that failed
    step,       \* kind -> idle, reading, done or raised
    at,         \* kind -> company -> where reading its bars stands
    got,        \* kind -> company -> the bars it is judged by
    shown,      \* kind -> what the scan answered
    pass,       \* the ranking's, ...
    ranks,      \* ... its relative-strength ranks ...
    blind,      \* ... and, history: companies it took a failed call for nothing of
    counted,    \* the surge's: sessions of companies it scored and then failed on
    scans       \* history: how many were started

inStore == <<storedBars, entry, hiccup>>
ofRanking == <<pass, ranks, blind>>
scanVars == <<storedBars, entry, hiccup, step, at, got, shown, pass, ranks, blind, counted, scans>>

---------------------------------------------------------------------------
(* The filters, and what a row says. *)

History(c, n) == SubSeq(Past[c], 1, n)

\* The bars from so many days ago on, and those a scan judges by.
Since(history, days) ==
    LET within == {i \in DOMAIN history : history[i].day >= ScanDay - days}
    IN  IF within = {} THEN <<>> ELSE SubSeq(history, Min(within), Len(history))

Recent(history) == Since(history, RatingWindow)

\* The k-th lowest: the least value that k of them do not exceed.
KthLowest(values, k) ==
    LET upTo(i) == {j \in DOMAIN values : values[j] <= values[i]}
    IN  Min({values[i] : i \in {j \in DOMAIN values : Cardinality(upTo(j)) >= k}})

\* Twice the median, which is a whole number.
TwiceMedian(values) ==
    LET n == Len(values)
    IN  KthLowest(values, (n + 1) \div 2) + KthLowest(values, (n + 2) \div 2)

\* median_turnover(), doubled: over the last sessions only.
MedianTurnover(slice) ==
    LET sample == SubSeq(slice, Max({1, Len(slice) - TurnoverDays + 1}), Len(slice))
    IN  TwiceMedian([i \in DOMAIN sample |-> sample[i].close * sample[i].volume])

Qualifies(c, slice) ==
    /\ c \notin Small
    /\ Len(slice) >= MinBars
    /\ MedianTurnover(slice) >= 2 * MinTurnover

LastDayOf(slice) == slice[Len(slice)].day

\* _relative_strength_raw(): the weighted trailing returns, in whole percents; none for a
\* history that is too short.
RelativeStrength(history) ==
    LET n == Len(history)
        gain(back) == (100 * (history[n].close - history[n - back].close)) \div history[n - back].close
    IN  IF n <= StrengthBack[Len(StrengthBack)] THEN {}
        ELSE {MapThenSumSet(LAMBDA i : StrengthWeight[i] * gain(StrengthBack[i]), DOMAIN StrengthBack)}

\* _percentile_ranks(): how many of the ranked are below, of how many.
PercentileRanks(raw) ==
    LET ranked == {c \in Company \ Small : raw[c] # {}}
        value(c) == CHOOSE v \in raw[c] : TRUE
        below(c) == {d \in ranked : value(d) < value(c) \/ (value(d) = value(c) /\ d < c)}
    IN  [c \in Company |-> IF c \in ranked /\ Cardinality(ranked) >= 2
                           THEN <<Cardinality(below(c)), Cardinality(ranked) - 1>> ELSE <<>>]

\* The recency filter: rows of a session too far behind the newest of `days'.
NotStale(found, days) == {row \in found : Max(days) - row.session <= MaxLag}

RankingRow(c, slice, rank) ==
    [company |-> c, read |-> slice, session |-> LastDayOf(slice), rank |-> rank]

RankingRows(n, rank) ==
    LET slice(c) == Recent(History(c, n[c]))
        found == {RankingRow(c, slice(c), rank[c]) : c \in {d \in Company : Qualifies(d, slice(d))}}
    IN  NotStale(found, {row.session : row \in found})

\* Mutant: the heatmap's filters and rating read the whole fetched history.
WholeHistory(history) == history

\* What compute_heatmap() judges and rates a company by.
HeatmapSlice(history) == Recent(history)

\* change_baselines(): the close a day's change is measured from.
Baseline(history) == IF Len(history) >= 2 THEN {history[Len(history) - 1].close} ELSE {}

Tile(c, history, slice) ==
    [company |-> c, read |-> slice, session |-> LastDayOf(history), before |-> Baseline(history)]

HeatmapTiles(n) ==
    LET readable == {c \in Company : n[c] > 0}
        slice(c) == HeatmapSlice(History(c, n[c]))
        tiles == {Tile(c, History(c, n[c]), slice(c)) : c \in {d \in readable : Qualifies(d, slice(d))}}
    IN  NotStale(tiles, {tile.session : tile \in tiles})

---------------------------------------------------------------------------
(* volume_surge_service.py *)

Total(values) == SumFunction(values)
Volumes(slice) == [i \in DOMAIN slice |-> slice[i].volume]
Highs(slice) == {slice[i].high : i \in DOMAIN slice}
Lows(slice) == {slice[i].low : i \in DOMAIN slice}

\* _surge_windows(): the recent sessions and those before them, unless the history is
\* too short or its typical session had no volume.
SurgeWindows(slice) ==
    LET n == Len(slice)
        baseline == SubSeq(slice, n - RecentDays - BaselineDays + 1, n - RecentDays)
    IN  IF n < RecentDays + BaselineDays \/ TwiceMedian(Volumes(baseline)) = 0 THEN {}
        ELSE {[recent |-> SubSeq(slice, n - RecentDays + 1, n), baseline |-> baseline,
               typical |-> TwiceMedian(Volumes(baseline))]}

\* A volume against the typical session's, in percent.
RatioOf(volume, sessions, window) == (200 * volume) \div (sessions * window.typical)

\* _metrics()
Metrics(window) ==
    LET recent == window.recent
        ratio(volume, sessions) == RatioOf(volume, sessions, window)
    IN  [ratio |-> ratio(Total(Volumes(recent)), RecentDays),
         lastDay |-> ratio(recent[RecentDays].volume, 1),
         above |-> Cardinality({i \in 1..RecentDays : 2 * recent[i].volume > window.typical})]

\* get_ticker_volume(): the figures on the stock's own page, which reads further back;
\* none of too little history.
PageVolume(history) == {Metrics(w) : w \in SurgeWindows(Since(history, PageWindow))}

\* _context(): the session with the most volume, the latest on a tie, and the range before.
Context(window) ==
    LET recent == window.recent
        peak == Max({i \in 1..RecentDays : \A j \in 1..RecentDays : recent[j].volume <= recent[i].volume})
    IN  [start |-> recent[1].day,
         peakDay |-> recent[peak].day,
         peakRatio |-> RatioOf(recent[peak].volume, 1, window),
         position |-> IF recent[peak].high = recent[peak].low THEN {}
                      ELSE {(100 * (recent[peak].close - recent[peak].low))
                                \div (recent[peak].high - recent[peak].low)},
         breaksHigh |-> Max(Highs(recent)) > Max(Highs(window.baseline)),
         breaksLow |-> Min(Lows(recent)) < Min(Lows(window.baseline))]

\* report_in_window(): the latest report from the session before the surge on.
ReportInWindow(dates, slice) ==
    LET n == Len(slice)
        first == slice[IF n > RecentDays THEN n - RecentDays ELSE 1].day
        inside == {d \in dates : first <= d /\ d <= LastDayOf(slice)}
    IN  IF inside = {} THEN {} ELSE {Max(inside)}

Scored(c, slice) == Qualifies(c, slice) /\ SurgeWindows(slice) # {}

\* volume_ratio >= min_ratio
Surging(window) == 2 * Total(Volumes(window.recent)) >= MinRatio * RecentDays * window.typical

SurgeRow(c, slice, window, dates) ==
    [company |-> c, read |-> slice, session |-> LastDayOf(slice), metrics |-> Metrics(window),
     context |-> Context(window), report |-> ReportInWindow(dates, slice)]

\* compute_volume_surge(): the sessions of every company that could be scored are what
\* the surging ones are compared with, those of companies it failed on later too.
SurgeRows(n, more, reports) ==
    LET slice(c) == Recent(History(c, n[c]))
        scored == {c \in Company : Scored(c, slice(c))}
        hits == {c \in scored : \E w \in SurgeWindows(slice(c)) : Surging(w)}
        found == UNION {{SurgeRow(c, slice(c), w, reports[c]) : w \in SurgeWindows(slice(c))} : c \in hits}
    IN  NotStale(found, more \union {LastDayOf(slice(c)) : c \in scored})

---------------------------------------------------------------------------
(* scanner_service.py: process() and what it adds up to, per signal.       *)

\* The return of each bar that has a later one to compare with, per mille.
Returns(slice) ==
    [i \in 1..(Len(slice) - Forward) |->
        (1000 * (slice[i + Forward].close - slice[i].close)) \div slice[i].close]

\* The signals with enough bars after them, with what became of them against the stock's
\* own typical return.
Judged(c, slice) ==
    LET returns == Returns(slice)
        won(signal, i) == IF signal.bullish THEN 2 * returns[i] > TwiceMedian(returns)
                          ELSE 2 * returns[i] < TwiceMedian(returns)
    IN  {[company |-> c, day |-> fired[1].day, name |-> fired[1].name, won |-> won(fired[1], fired[2])] :
            fired \in {pair \in Signals[c] \X DOMAIN returns :
                                 /\ pair[1].day = slice[pair[2]].day
                                 /\ pair[1].day <= ScanDay - (Forward + 1)}}

Seen(c, slice) == {signal \in Signals[c] : \E i \in DOMAIN slice : slice[i].day = signal.day}

StatsRows(n) ==
    LET slice(c) == Recent(History(c, n[c]))
        enough == {c \in Company : Len(slice(c)) >= MinBars}
        judged == UNION {Judged(c, slice(c)) : c \in enough}
        latest(c) == CHOOSE s \in Seen(c, slice(c)) : \A t \in Seen(c, slice(c)) : t.day <= s.day
    IN  {[name |-> name,
          count |-> Cardinality({j \in judged : j.name = name}),
          wins |-> Cardinality({j \in judged : j.name = name /\ j.won}),
          active |-> Cardinality({c \in enough : Seen(c, slice(c)) # {} /\ latest(c).name = name})] :
            name \in {s.name : s \in UNION {Signals[c] : c \in Company}}}

---------------------------------------------------------------------------
(* One company's bars: from the cache, the database or the provider.       *)

Awaited(k, c) == step[k] = "reading" /\ at[k][c] # "read"

\* The ranking's second pass takes the companies in order, one at a time.
Turn(k, c) ==
    /\ Awaited(k, c)
    /\ (k = "ranking" /\ pass = 2) => \A d \in 1..(c - 1) : at[k][d] = "read"

GoOn(k, c, place) == at' = [at EXCEPT ![k] = [@ EXCEPT ![c] = place]]

Take(k, c, n) == GoOn(k, c, "read") /\ got' = [got EXCEPT ![k] = [@ EXCEPT ![c] = n]]

Cached(c, n, failed) ==
    /\ entry' = [entry EXCEPT ![c] = n]
    /\ hiccup' = IF failed THEN hiccup \union {c} ELSE hiccup \ {c}

\* fetch_quotes(), the cache.
LookInCache(k, c) ==
    /\ Turn(k, c) /\ at[k][c] = "look"
    /\ IF entry[c] = NoEntry THEN GoOn(k, c, "db") /\ UNCHANGED <<got, blind>>
       ELSE /\ Take(k, c, entry[c])
            /\ blind' = IF k = "ranking" /\ c \in hiccup THEN blind \union {c} ELSE blind
    /\ UNCHANGED <<inStore, step, shown, pass, ranks, counted, scans>>

\* The database: rows, no rows, or a raise that no scan catches here.
ReadBars(k, c) ==
    /\ Turn(k, c) /\ at[k][c] = "db"
    /\ \/ storedBars[c] > 0 /\ Take(k, c, storedBars[c]) /\ Cached(c, storedBars[c], FALSE)
       \/ storedBars[c] = 0 /\ GoOn(k, c, "ask") /\ UNCHANGED <<got, entry, hiccup>>
       \/ Take(k, c, Unread) /\ UNCHANGED <<entry, hiccup>>
    /\ UNCHANGED <<storedBars, step, shown, ofRanking, counted, scans>>

\* The provider: bars, stored unless the write fails; "nothing for this ticker"; or a
\* failure, which the ranking and the back-test pass on and the other two take for
\* nothing, remembering it when it is the client's own kind of error.
AskProvider(k, c) ==
    /\ Turn(k, c) /\ at[k][c] = "ask"
    /\ \/ /\ Take(k, c, Len(Past[c])) /\ Cached(c, Len(Past[c]), FALSE)
          /\ storedBars' \in {storedBars, [storedBars EXCEPT ![c] = Len(Past[c])]}
       \/ Take(k, c, 0) /\ Cached(c, 0, FALSE) /\ UNCHANGED storedBars
       \/ /\ k \in AllOrNothing
          /\ Take(k, c, Unread) /\ UNCHANGED inStore
       \/ /\ k \notin AllOrNothing
          /\ Take(k, c, 0) /\ UNCHANGED storedBars
          /\ Cached(c, 0, TRUE) \/ UNCHANGED <<entry, hiccup>>
    /\ UNCHANGED <<step, shown, ofRanking, counted, scans>>

SliceOf(k, c) == Recent(History(c, got[k][c]))

\* The analysis of a company's bars raises; in the surge before or after it was scored.
Stumble(k, c) ==
    /\ step[k] = "reading" /\ at[k][c] = "read" /\ got[k][c] # Unread
    /\ k = "ranking" => pass = 2
    /\ Len(SliceOf(k, c)) >= MinBars
    /\ got' = [got EXCEPT ![k] = [@ EXCEPT ![c] = Unread]]
    /\ \/ UNCHANGED counted
       \/ /\ k = "surge" /\ Scored(c, SliceOf(k, c))
          /\ counted' = counted \union {LastDayOf(SliceOf(k, c))}
    /\ UNCHANGED <<inStore, step, at, shown, ofRanking, scans>>

---------------------------------------------------------------------------
(* The scans, and what happens around them. *)

\* The companies below the floor are left out before their bars are asked for; the
\* back-test has no floor.
FirstLook(k) ==
    [c \in Company |-> IF k # "stats" /\ c \in Small THEN "read" ELSE "look"]

NothingRead == [c \in Company |-> 0]

ReadAnew(k) ==
    /\ at' = [at EXCEPT ![k] = FirstLook(k)]
    /\ got' = [got EXCEPT ![k] = NothingRead]

StartScan(k) ==
    /\ step[k] # "reading" /\ scans < MaxScans
    /\ step' = [step EXCEPT ![k] = "reading"] /\ shown' = [shown EXCEPT ![k] = {}]
    /\ ReadAnew(k)
    /\ IF k = "ranking" THEN pass' = 1 /\ ranks' = <<>> /\ blind' = {} ELSE UNCHANGED ofRanking
    /\ counted' = IF k = "surge" THEN {} ELSE counted
    /\ scans' = scans + 1
    /\ UNCHANGED inStore

AllRead(k) == step[k] = "reading" /\ \A c \in Company : at[k][c] = "read"
Failed(k) == \E c \in Company : got[k][c] = Unread
Raise(k) == step' = [step EXCEPT ![k] = "raised"]

\* compute_ranking(), after its first pass: the ranks are the market's, the rows' data
\* is read again.
Strengths ==
    /\ AllRead("ranking") /\ pass = 1
    /\ IF Failed("ranking") THEN Raise("ranking") /\ UNCHANGED <<at, got, pass, ranks>>
       ELSE /\ pass' = 2 /\ ReadAnew("ranking")
            /\ ranks' = PercentileRanks([c \in Company |-> RelativeStrength(History(c, got["ranking"][c]))])
            /\ UNCHANGED step
    /\ UNCHANGED <<inStore, shown, blind, counted, scans>>

\* What a scan that read n answers; the report dates are those stored, or none when
\* they could not be read.
Answers(k) ==
    CASE k = "ranking" -> {RankingRows(got[k], ranks)}
      [] k = "heatmap" -> {HeatmapTiles(got[k])}
      [] k = "surge" -> {SurgeRows(got[k], counted, dates) : dates \in {Reported, [c \in Company |-> {}]}}
      [] k = "stats" -> {StatsRows(got[k])}

\* The end of a scan.
Finish(k) ==
    /\ AllRead(k)
    /\ k = "ranking" => pass = 2
    /\ IF k \in AllOrNothing /\ Failed(k) THEN Raise(k) /\ UNCHANGED shown
       ELSE /\ step' = [step EXCEPT ![k] = "done"]
            /\ \E answer \in Answers(k) : shown' = [shown EXCEPT ![k] = answer]
    /\ UNCHANGED <<inStore, at, got, ofRanking, counted, scans>>

ofScans == <<step, at, got, shown, pass, ranks, blind, counted, scans>>

\* The nightly ingest stores the rest of a company's bars; its flush comes later.
StoreLatest(c) ==
    /\ storedBars[c] < Len(Past[c])
    /\ storedBars' = [storedBars EXCEPT ![c] = Len(Past[c])]
    /\ UNCHANGED <<entry, hiccup, ofScans>>

ForgetEntries(companies) ==
    /\ \E c \in companies : entry[c] # NoEntry
    /\ entry' = [c \in Company |-> IF c \in companies THEN NoEntry ELSE entry[c]]
    /\ hiccup' = hiccup \ companies
    /\ UNCHANGED <<storedBars, ofScans>>

\* An entry runs out or makes room; the flush drops them all.
ExpireEntry(c) == ForgetEntries({c})
FlushEntries == ForgetEntries(Company)

\* A company is new, a session behind or up to date.
MarketScanInit ==
    /\ \E new, behind \in SUBSET Company :
           storedBars = [c \in Company |-> IF c \in new \/ Past[c] = <<>> THEN 0
                                         ELSE IF c \in behind THEN Len(Past[c]) - 1 ELSE Len(Past[c])]
    /\ entry = [c \in Company |-> NoEntry] /\ hiccup = {}
    /\ step = [k \in ScanKinds |-> "idle"]
    /\ at = [k \in ScanKinds |-> FirstLook(k)] /\ got = [k \in ScanKinds |-> NothingRead]
    /\ shown = [k \in ScanKinds |-> {}]
    /\ pass = 1 /\ ranks = <<>> /\ blind = {} /\ counted = {}
    /\ scans = 0

MarketScanNext ==
    \/ \E k \in ScanKinds : StartScan(k) \/ Finish(k)
    \/ \E k \in ScanKinds, c \in Company : LookInCache(k, c) \/ ReadBars(k, c) \/ AskProvider(k, c) \/ Stumble(k, c)
    \/ Strengths
    \/ \E c \in Company : StoreLatest(c) \/ ExpireEntry(c)
    \/ FlushEntries

MarketScanSpec == MarketScanInit /\ [][MarketScanNext]_scanVars

---------------------------------------------------------------------------
(* Properties. *)

\* "a half-broken run would be indistinguishable from a thin market" (ranking_service.py:
\* 349-350): the ranking and the back-test raise when a read or an analysis failed, in
\* whichever pass.
FailuresAreLoud ==
    \A k \in AllOrNothing : step[k] = "done" => ~Failed(k)

Listed(k) == {[company |-> row.company, read |-> row.read, session |-> row.session] : row \in shown[k]}
SameData(j, k) == step[j] = "done" /\ step[k] = "done" /\ got[j] = got[k]

\* Every company that qualifies has a typical session to compare with.
AllScored ==
    \A c \in Company : Qualifies(c, SliceOf("surge", c)) => SurgeWindows(SliceOf("surge", c)) # {}

\* "so both pages show identical numbers for the same stock" (heatmap_service.py:225-226),
\* "so the numbers match across pages" (volume_surge_service.py:414-415): scans that read the
\* same bars list the same companies, rated on the same slice, although each filters for
\* itself and the newest session is that of the companies it got through.
PagesAgree ==
    /\ SameData("ranking", "heatmap") => Listed("ranking") = Listed("heatmap")
    /\ SameData("ranking", "surge") /\ AllScored => Listed("surge") \subseteq Listed("ranking")

\* A surge's figures come from two windows and a peak: the peak's session carries at least
\* the mean and at least what the last one did, the peak is inside the surge, and the
\* report is one the surge can have followed.
SurgesAddUp ==
    \A row \in shown["surge"] :
        /\ 100 * MinRatio <= row.metrics.ratio
        /\ row.metrics.ratio <= row.context.peakRatio /\ row.metrics.lastDay <= row.context.peakRatio
        /\ row.context.start <= row.context.peakDay /\ row.context.peakDay <= row.session
        /\ \A day \in row.report : day <= row.session

\* "so a stock's page and the scanner can never disagree" (stocks.py:2705-2706): whatever
\* history of the company the scan judged it by, its page reads the same figures from it.
StockPagesAgree ==
    \A row \in shown["surge"] : \A n \in 1..Len(Past[row.company]) :
        Recent(History(row.company, n)) = row.read =>
            PageVolume(History(row.company, n)) = {row.metrics}

\* "otherwise the stat just measures market drift" (scanner_service.py:175): a signal
\* that only ever fires in one stock and fires on every bar there beats that stock's
\* typical return at most half the time, wherever the price went.
DriftIsNoEdge ==
    \A stat \in shown["stats"] : \A c \in Company :
        LET slice == SliceOf("stats", c)
            fires == {s \in Signals[c] : s.name = stat.name /\ s.bullish}
        IN  /\ stat.count = Len(slice) - Forward
            /\ \A i \in DOMAIN slice : slice[i].day \in {s.day : s \in fires}
            /\ \A d \in Company \ {c} : \A s \in Signals[d] : s.name # stat.name
            => 2 * stat.wins <= stat.count

\* What the scans promise each other and their readers.
ScansAgree == FailuresAreLoud /\ PagesAgree /\ SurgesAddUp /\ StockPagesAgree /\ DriftIsNoEdge

\* "raise  # transport/provider failure, not a known empty ticker" (ranking_service.py:300)
\* and "the caller rejects the incomplete ranking instead of caching a silently truncated
\* market" (ranking_service.py:381-382): no answered ranking took a failed call, its own
\* or another scan's, for a company without bars.
RankingIsWhole == step["ranking"] = "done" => blind = {}
=============================================================================
