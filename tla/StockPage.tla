----------------------------- MODULE StockPage ------------------------------
(***************************************************************************)
(* The chart of a stock's page (GET /stocks/{ticker}/signals): a range of  *)
(* days at a bar size, with the marks of the daily methods and a header    *)
(* that is to say the same whatever the chart shows.  Days and weeks come  *)
(* from the stored history of TrendMethods, with a run-up before the range *)
(* for the methods to read.  Intraday bars are not stored: they come from  *)
(* the provider, are kept for minutes, and may be merged into larger ones. *)
(*                                                                         *)
(* An intraday bar stands for the run of the provider's bars, its prints,  *)
(* that it is made of, by their places on the tape; the tape holds the day *)
(* of each print.  The newest print's day is today.                        *)
(***************************************************************************)
EXTENDS TrendMethods

CONSTANTS
    PageDays,   \* _SIGNALS_DEFAULT_DAYS
    RunUp,      \* _METHOD_LOOKBACK_DAYS
    Intraday,   \* bar size -> [group, reach, warm]: TIMEFRAMES, and the days of warm-up
    Visitors,
    MaxPrints   \* bound

ASSUME PageAssumption ==
    /\ {PageDays, RunUp, MaxPrints} \subseteq Nat
    /\ \A size \in DOMAIN Intraday :
           Intraday[size] \in [group : Nat \ {0}, reach : Nat \ {0}, warm : Nat]

VARIABLES
    tape,       \* the provider's intraday bars, by day
    kept,       \* the cache: <<size, days>> -> the prints of an answer, or Refused
    visit       \* visitor -> the request under way and what came of it

pageVars == <<tape, kept, visit>>

---------------------------------------------------------------------------
(* get_signals(): the daily reading. *)

NoEnd == 1000    \* a range without a last day, later than every day

Between(b, from, to) == SelectSeq(b, LAMBDA bar : from <= bar.date /\ bar.date <= to)

\* The range with its run-up, and the range.
Fetched(from, to) == Between(history, from - RunUp, to)
Displayed(from, to) == Between(Fetched(from, to), from, to)

\* What the header is read from: the range of a daily chart, else a year to the last bar.
RatingBars(size, from, to) ==
    LET fetched == Fetched(from, to)
    IN  IF size = "1d" \/ fetched = <<>> THEN Displayed(from, to)
        ELSE Between(fetched, fetched[Len(fetched)].date - PageDays, to)

\* The price and the one it changed from; today's only on a chart without an end and
\* after the last bar.
Header(size, from, to, live) ==
    LET b == RatingBars(size, from, to)
        n == Len(b)
        last == IF n = 0 THEN 0 ELSE b[n].close
        before == IF n < 2 THEN last ELSE b[n - 1].close
        later == {p \in live : to = NoEnd /\ n > 0 /\ p.date > b[n].date}
    IN  IF later = {} THEN {[price |-> last, from |-> before]}
        ELSE {[price |-> p.price, from |-> p.before] : p \in later}

Overlays == {"template", "breakout", "pivot", "stage"}

\* The marks of the methods, found in all that was fetched and clipped to the range; a
\* method that raises has none.
Marks(from, to, failing) ==
    LET b == Fetched(from, to)
        shown == Displayed(from, to)
        start == IF shown = <<>> THEN from ELSE shown[1].date
        of(places) == {b[i].date : i \in places}
        found(m) == CASE m = "template" -> of(TemplateMarkers(b))
                      [] m = "breakout" -> of(BreakoutMarkers(b))
                      [] m = "pivot" -> of(PivotMarkers(b))
                      [] m = "stage" -> IF b = <<>> THEN {} ELSE StageMarkers(b)
    IN  [m \in Overlays |-> IF m \in failing THEN {} ELSE {d \in found(m) : d >= start}]

\* The candles of a weekly chart, the running week's included.
WeeklyCandles(from, to) == Between(Weekly(Fetched(from, to)), from, to)

---------------------------------------------------------------------------
(* timeframe.py *)

Timeframe(size) == Intraday[size]

\* Mutant: the stub of a session stays a bar of its own.
StartsWithStubs(prints, group) == {i \in prints : (i - Min(prints)) % group = 0}

\* group_intraday(), of one session: where the merged bars begin; a rest of less than
\* half a bar belongs to the bar before it.
Starts(prints, group) ==
    {i \in prints : /\ (i - Min(prints)) % group = 0
                    /\ i = Min(prints) \/ 2 * (Max(prints) - i + 1) >= group}

\* The merged bars of one session, each by its first print and its last.
Runs(prints, group) ==
    LET starts == Starts(prints, group)
    IN  {<<i, Min({j - 1 : j \in {k \in starts : k > i}} \union {Max(prints)})>> : i \in starts}

\* Never over the night.
Grouped(prints, group) ==
    UNION {Runs({i \in prints : tape[i] = day}, group) : day \in {tape[i] : i \in prints}}

\* clamp_lookback_days(), of the range and its warm-up.
DaysAsked(size, from) ==
    Min({Max({1, (IF tape = <<>> THEN 0 ELSE tape[Len(tape)]) - from + Timeframe(size).warm}),
         Timeframe(size).reach})

---------------------------------------------------------------------------
(* _timeframe_bars(): intraday bars, from the cache or the provider. *)

Refused == {}

\* What a chart shows of the prints that were downloaded.
Shown(request, prints) ==
    {run \in Grouped(prints, Timeframe(request.size).group) :
        request.from <= tape[run[1]] /\ tape[run[1]] <= request.to}

Answered(request, prints) ==
    IF prints = Refused THEN [at |-> "404", request |-> request]
    ELSE [at |-> "200", request |-> request, prints |-> prints, shown |-> Shown(request, prints)]

Key(request) == <<request.size, request.days>>

Visit(v, size, from, to) ==
    LET request == [size |-> size, from |-> from, to |-> to, days |-> DaysAsked(size, from)]
    IN  /\ visit[v].at # "asking" /\ from <= to
        /\ visit' = [visit EXCEPT ![v] = IF Key(request) \in DOMAIN kept
                                         THEN Answered(request, kept[Key(request)])
                                         ELSE [at |-> "asking", request |-> request]]
        /\ UNCHANGED <<tape, kept>>

\* The provider's bars of the days asked for; none, which a hiccup may look like too; or
\* no answer, which is not remembered.
Download(v) ==
    LET request == visit[v].request
        inReach == {i \in DOMAIN tape : tape[i] >= tape[Len(tape)] - request.days}
    IN  /\ visit[v].at = "asking"
        /\ \/ \E prints \in {inReach, Refused} :
                 /\ kept' = [k \in DOMAIN kept \union {Key(request)} |->
                                IF k = Key(request) THEN prints ELSE kept[k]]
                 /\ visit' = [visit EXCEPT ![v] = Answered(request, prints)]
           \/ visit' = [visit EXCEPT ![v] = [at |-> "502", request |-> request]] /\ UNCHANGED kept
        /\ UNCHANGED tape

\* An entry runs out after minutes, or is flushed with the others, one after the other.
Forget(key) ==
    /\ kept' = [k \in DOMAIN kept \ {key} |-> kept[k]]
    /\ UNCHANGED <<tape, visit>>

\* The market prints, today or on a later day.
NextPrint(day) ==
    /\ Len(tape) < MaxPrints
    /\ tape' = Append(tape, day)
    /\ UNCHANGED <<kept, visit>>

PageInit == tape = <<>> /\ kept = [k \in {} |-> {}] /\ visit = [v \in Visitors |-> [at |-> "idle"]]

PageNext ==
    \/ \E days \in 0 .. 1 : NextPrint((IF tape = <<>> THEN 0 ELSE tape[Len(tape)]) + days)
    \/ \E v \in Visitors :
           \/ Download(v)
           \/ \E size \in DOMAIN Intraday, from \in 0 .. 1, to \in {0, NoEnd} : Visit(v, size, from, to)
    \/ \E key \in DOMAIN kept : Forget(key)

PageSpec == PageInit /\ [][PageNext]_pageVars

---------------------------------------------------------------------------
(* Properties. *)

\* "the user gets the window they asked for ... with markers that had real history
\* behind them" (stocks.py:2324-2325): a chart that begins with the newest bar marks it as
\* the chart of the whole history does, as soon as its run-up holds the bars a method
\* judges by; and every candle of a weekly chart is its whole week, although the fetch
\* may begin in the middle of one.
RangesAgree ==
    LET newest == history[Len(history)].date
        enough == [template |-> Template.year, breakout |-> Breakout.min - 1]
        judges == {m \in DOMAIN enough : Len(Fetched(newest, NoEnd)) > enough[m]}
    IN  /\ Len(Fetched(newest, NoEnd)) < Len(history) =>
               \A m \in judges : newest \in Marks(newest, NoEnd, Overlays \ {m})[m]
                                     <=> newest \in Marks(0, NoEnd, Overlays \ {m})[m]
        /\ ToSet(WeeklyCandles(newest - Week, NoEnd)) \subseteq ToSet(Weekly(history))

\* "a 30-minute chart must not quietly redefine them" (stocks.py:2286-2289): the header says
\* the same at every bar size, of a range that holds at least the two bars a change is
\* read from.
HeadersAgree ==
    LET newest == history[Len(history)].date
        today == [date |-> newest + 1, price |-> 1, before |-> 2]
    IN  \A from \in {0, newest - 2}, to \in {newest - 1, NoEnd}, live \in {{}, {today}} :
            (\A size \in {"1d", "1w"} : Len(RatingBars(size, from, to)) >= 2) =>
                Header("1w", from, to, live) = Header("1d", from, to, live)

\* "a bar spanning Monday's close and Tuesday's open would describe a price range that
\* never traded as one stretch" and "a trailing group shorter than half the requested size
\* is folded back" (timeframe.py:95-101): the merged bars are the range's prints, each
\* once, and none but a session's only one is less than half a bar; and whatever was
\* downloaded or kept when, all bars of a chart but its last are the bars of every later
\* one.
BarsStand ==
    \A v \in Visitors : visit[v].at = "200" =>
        LET request == visit[v].request
            group == Timeframe(request.size).group
            runs == visit[v].shown
            prints == {i \in visit[v].prints : request.from <= tape[i] /\ tape[i] <= request.to}
        IN  /\ \A i \in prints : Cardinality({r \in runs : r[1] <= i /\ i <= r[2]}) = 1
            /\ \A r \in runs :
                   /\ r[1] .. r[2] \subseteq prints /\ tape[r[1]] = tape[r[2]]
                   /\ \/ 2 * (r[2] - r[1] + 1) >= group
                      \/ \A q \in runs \ {r} : tape[q[1]] # tape[r[1]]
                   /\ r[2] # Max(prints) => r \in Grouped(DOMAIN tape, group)

\* What a page shows of a stock is the same whichever range and bar size it shows it in,
\* and is what its methods, its score and its later charts say of the same bars.
ChartsAgree == FiringsAgree /\ RangesAgree /\ HeadersAgree /\ BarsStand
=============================================================================
