---------------------------- MODULE TrendMethods ----------------------------
(***************************************************************************)
(* The long-only methods that read a trend: Minervini's template,          *)
(* O'Neil's volume breakout, Weinstein's stage 2 on weekly candles, and    *)
(* the pocket pivot (app/analysis/methods).  Each one judges the history   *)
(* it is given twice over: `evaluate' looks back from the newest bar and   *)
(* scores it, `signals' walks forward and marks the chart; the ranking and *)
(* the chart hand them windows of different length.                        *)
(*                                                                         *)
(* The state is one stock's stored daily history, one bar longer with      *)
(* every session.  A day has `dates' for itself; a week is Week of them,   *)
(* its last one a Friday.  The averages are compared as sums, never        *)
(* divided, and the lengths of the windows are parameters.                 *)
(***************************************************************************)
EXTENDS Integers, SequencesExt, FiniteSetsExt

CONSTANTS Week,       \* trading days of a calendar week
          Template,   \* Minervini: [short, mid, long, slope, year, scan]
          Breakout,   \* volume breakout: [base, mid, year, recent, prior, min, fresh, scan]
          Stage,      \* Weinstein: [ma, flat, base, volume, fresh, scan]
          Pivot,      \* pocket pivot: [down, fast, mid, slow, quiet, before, wedge, rising, fresh, scan]
          Gate        \* back-test: [forward, samples]

\* What the code's own lengths have in common and the comparisons rest on.
ASSUME WindowLengths ==
    /\ Week \in Nat \ {0}
    /\ Template.year >= Template.long + Template.slope
    /\ Breakout.min > Breakout.mid /\ Breakout.mid >= Breakout.base
    /\ Breakout.min > Breakout.recent + Breakout.prior + 1
    /\ Stage.base < Stage.ma + Stage.flat - 1 /\ Stage.volume < Stage.ma + Stage.flat - 1
    /\ Pivot.slow >= Pivot.quiet + Pivot.before + 1 /\ Pivot.slow > Pivot.mid
    /\ Pivot.slow >= Pivot.wedge + 2 /\ Pivot.slow >= Pivot.down + 2

VARIABLE history    \* bars [date, close, high, low, volume], oldest first

historyVars == <<history>>

Top(b, lo, hi) == Max({b[i].high : i \in lo .. hi})
Bottom(b, lo, hi) == Min({b[i].low : i \in lo .. hi})
Closes(b, len, i) == MapThenSumSet(LAMBDA j : b[j].close, (i - len + 1) .. i)
Volume(b, lo, hi) == MapThenSumSet(LAMBDA j : b[j].volume, lo .. hi)

\* The close is above, and the average of `one' is above that of `other'.
Above(b, len, i) == i >= len /\ b[i].close * len > Closes(b, len, i)
Over(b, one, other, i) == Closes(b, one, i) * other > Closes(b, other, i) * one

Held(rules) == Cardinality({r \in DOMAIN rules : rules[r]})

\* Bars on which something that may last turns on.
TurnsOn(On(_), lo, hi) == {i \in lo .. hi : On(i) /\ ~On(i - 1)}
Latest(S) == IF S = {} THEN 0 ELSE Max(S)
Within(b, i, days) == i # 0 /\ b[Len(b)].date - b[i].date <= days

-----------------------------------------------------------------------------
(* minervini.py *)

YearHigh(b, i) == Top(b, i - Template.year + 1, i)

\* _rules_passed(): all of the seven; a bar without a year behind it has none.
Rules(b, i) ==
    LET t == Template
        low == Bottom(b, i - t.year + 1, i)
    IN << Above(b, t.mid, i) /\ Above(b, t.long, i),
          Over(b, t.mid, t.long, i),
          Closes(b, t.long, i) > Closes(b, t.long, i - t.slope),
          Over(b, t.short, t.mid, i) /\ Over(b, t.short, t.long, i),
          Above(b, t.short, i),
          10 * b[i].close >= 13 * low,
          4 * b[i].close >= 3 * YearHigh(b, i) >>

Full(b, i) == i >= Template.year /\ Held(Rules(b, i)) = 7

TemplateMarkers(b) == TurnsOn(LAMBDA i : Full(b, i), Template.year + 1, Len(b))

\* evaluate(): the mark is the template on the newest bar, however long it lasted;
\* a leading strength rank is an eighth rule.
TemplateRead(b, rank) ==
    LET n == Len(b)
        on == {i \in Max({Template.year, n - Template.scan}) .. n : Full(b, i)}
        rules == IF rank = "unknown" THEN Rules(b, n) ELSE Append(Rules(b, n), rank = "leading")
    IN [at |-> Latest(on), fired |-> Full(b, n), held |-> Held(rules), of |-> Len(rules)]

-----------------------------------------------------------------------------
(* volume_breakout.py *)

\* _volume_dry_up(): no more volume lately than before.
DriedUp(b, i) ==
    LET from == i - Breakout.recent + 1
        before == Volume(b, from - Breakout.prior, from - 1)
    IN /\ i >= Breakout.recent + Breakout.prior
       /\ before > 0
       /\ Volume(b, from, i) * Breakout.prior <= before * Breakout.recent

\* _breakout_fired(): a close over a dry and tight base, strong and on volume.
BreaksOut(b, i) ==
    LET w == Breakout.base
        ceiling == Top(b, i - w, i - 1)
        usual == Volume(b, i - w, i - 1)
    IN /\ i > w
       /\ usual > 0 /\ 2 * w * b[i].volume >= 3 * usual
       /\ b[i].close > ceiling
       /\ b[i].high > b[i].low /\ 2 * (b[i].close - b[i].low) >= b[i].high - b[i].low
       /\ DriedUp(b, i - 1)
       /\ 100 * (ceiling - Bottom(b, i - w, i - 1)) <= 35 * ceiling

BreakoutMarkers(b) == TurnsOn(LAMBDA i : BreaksOut(b, i), Breakout.min, Len(b))

\* _posture_rules(), with evaluate()'s own search for the newest start.
BreakoutRead(b) ==
    LET n == Len(b)
        at == Latest(TurnsOn(LAMBDA i : BreaksOut(b, i),
                             Max({Breakout.min, n - Breakout.scan}), n))
        rules == << Above(b, Breakout.base, n),
                    Over(b, Breakout.base, Breakout.mid, n),
                    100 * b[n].close >= 85 * Top(b, Max({1, n - Breakout.year + 1}), n),
                    DriedUp(b, n - 1),
                    Within(b, at, Breakout.fresh) >>
    IN [at |-> at, fired |-> at = n, held |-> Held(rules), of |-> 5]

-----------------------------------------------------------------------------
(* weekly.py and weinstein.py *)

WeekOf(date) == date \div Week
Friday(date) == date % Week = Week - 1
Sessions(b, week) == {i \in DOMAIN b : WeekOf(b[i].date) = week}
Weeks(b) == {WeekOf(b[i].date) : i \in DOMAIN b}

\* resample_weekly(): a candle per week, dated to its last session.
Weekly(b) ==
    LET candle(w) == LET s == Sessions(b, w)
                     IN [date |-> b[Max(s)].date, close |-> b[Max(s)].close,
                         high |-> Max({b[i].high : i \in s}), low |-> Min({b[i].low : i \in s}),
                         volume |-> MapThenSumSet(LAMBDA i : b[i].volume, s)]
        ordered == [k \in 1 .. Cardinality(Weeks(b)) |->
                       CHOOSE w \in Weeks(b) : Cardinality({v \in Weeks(b) : v <= w}) = k]
    IN [k \in DOMAIN ordered |-> candle(ordered[k])]

\* The middle of the sessions of the earlier weeks, at least twice over: of two
\* middle ones, their mean.
Usual(b, weeks) ==
    LET size(w) == Cardinality(Sessions(b, w))
        atMost(n) == Cardinality({w \in weeks : size(w) <= n})
        sizes == {size(w) : w \in weeks}
    IN Min({n \in sizes : 2 * atMost(n) >= Cardinality(weeks)})
         + Min({n \in sizes : 2 * atMost(n) > Cardinality(weeks)})

\* trailing_week_is_complete(): a Friday, or as many sessions as usual.
Complete(b) ==
    LET last == WeekOf(b[Len(b)].date)
        earlier == Weeks(b) \ {last}
    IN \/ Friday(b[Len(b)].date)
       \/ earlier # {} /\ 2 * Cardinality(Sessions(b, last)) >= Usual(b, earlier)

\* _completed_weeks()
CompletedWeeks(b) == IF Complete(b) THEN Weekly(b) ELSE Front(Weekly(b))

MinWeeks == Stage.ma + Stage.flat
Tight(w, i) ==
    LET top == Top(w, i - Stage.base, i - 1)
    IN 10 * (top - Bottom(w, i - Stage.base, i - 1)) <= 3 * top
StoppedFalling(w, i) == Closes(w, Stage.ma, i) >= Closes(w, Stage.ma, i - Stage.flat)
NotAdvanced(w, i) == 10 * Closes(w, Stage.ma, i) <= 11 * Closes(w, Stage.ma, i - Stage.flat)

\* _breakout_fired() of a completed week.
Stage2(w, i) ==
    /\ i >= MinWeeks
    /\ Above(w, Stage.ma, i) /\ StoppedFalling(w, i) /\ NotAdvanced(w, i)
    /\ w[i].close > Top(w, i - Stage.base, i - 1) /\ Tight(w, i)
    /\ LET usual == Volume(w, i - Stage.volume, i - 1)
       IN usual > 0 /\ w[i].volume * Stage.volume >= 2 * usual

StageMarkers(b) ==
    LET w == CompletedWeeks(b)
    IN {w[i].date : i \in TurnsOn(LAMBDA k : Stage2(w, k), MinWeeks, Len(w))}

\* The week the base is measured at.
Anchor(last, at, fresh) == IF fresh THEN at ELSE last

\* evaluate() and _posture_rules(): an age is counted from the newest daily bar.
StageOfWeeks(w, today) ==
    LET n == Len(w)
        rules(anchor) == << Tight(w, anchor), StoppedFalling(w, anchor), NotAdvanced(w, anchor),
                            Above(w, Stage.ma, n),
                            10 * w[n].close <= 12 * Top(w, anchor - Stage.base, anchor - 1) >>
        read(at, age, fresh, held) ==
            [fired |-> age = 0, fresh |-> fresh, of |-> 6,
             base |-> held[1] /\ held[2] /\ held[3], held |-> Held(Append(held, fresh))]
        dated(at, age) ==
            LET fresh == at # 0 /\ age <= Stage.fresh * Week
            IN read(at, age, fresh, rules(Anchor(n, at, fresh)))
        fired(at) == dated(at, IF at = 0 THEN -1 ELSE today - w[at].date)
    IN fired(Latest(TurnsOn(LAMBDA k : Stage2(w, k), Max({MinWeeks, n - Stage.scan}), n)))

StageRead(b) == StageOfWeeks(CompletedWeeks(b), b[Len(b)].date)

-----------------------------------------------------------------------------
(* pocket_pivot.py *)

\* _largest_down_volume(): 0 without a day that closed lower.
HeaviestFall(b, i) ==
    Max({0} \union {b[j].volume : j \in {k \in Max({2, i - Pivot.down}) .. i - 1 :
                                            b[k].close < b[k - 1].close}})

\* _line_touched(): above the fast line or the middle one, the low within 2% of it.
Touches(b, i) ==
    \E len \in {Pivot.fast, Pivot.mid} :
        Above(b, len, i) /\ 100 * len * b[i].low <= 102 * Closes(b, len, i)

\* _quiet_into() and _wedging_into(): the days before the bar, not the bar.
QuietInto(b, i) ==
    LET from == i - Pivot.quiet
        before == Volume(b, from - Pivot.before, from - 1)
    IN /\ i > Pivot.quiet + Pivot.before
       /\ before > 0 /\ Volume(b, from, i - 1) * Pivot.before < before * Pivot.quiet

WedgingInto(b, i) ==
    LET first == i - Pivot.wedge
    IN /\ i > Pivot.wedge + 1
       /\ Cardinality({k \in first .. i - 1 : b[k].low > b[k - 1].low}) >= Pivot.rising
       /\ b[i - 1].close > b[first - 1].close

\* _pivot_line()
Pivots(b, i) ==
    /\ i >= Pivot.slow
    /\ b[i].close > b[i - 1].close
    /\ HeaviestFall(b, i) > 0 /\ b[i].volume >= HeaviestFall(b, i)
    /\ Above(b, Pivot.mid, i) /\ Above(b, Pivot.slow, i)
    /\ Touches(b, i) /\ QuietInto(b, i) /\ ~WedgingInto(b, i)

PivotMarkers(b) == TurnsOn(LAMBDA i : Pivots(b, i), Pivot.slow, Len(b))

\* evaluate() and _posture_rules(); under the slow line a stock is not bought.
PivotRead(b) ==
    LET n == Len(b)
        at == Latest(TurnsOn(LAMBDA i : Pivots(b, i), Max({Pivot.slow, n - Pivot.scan}), n))
        rules == << Above(b, Pivot.mid, n), Above(b, Pivot.slow, n), Touches(b, n),
                    QuietInto(b, n), ~WedgingInto(b, n), Within(b, at, Pivot.fresh) >>
        held == Held(rules)
    IN [at |-> at, fired |-> at = n, of |-> 6,
        held |-> IF Above(b, Pivot.slow, n) THEN held ELSE Min({held, 3})]

-----------------------------------------------------------------------------
(* method_backtest_service.py: the gate a method has to clear, on one stock. *)

\* A ratio as <<numerator, denominator>>.
Less(x, y) == x[1] * y[2] < y[1] * x[2]
Gained(b, i) == << b[i + Gate.forward].close - b[i].close, b[i].close >>

\* The k-th smallest value of Gained, and the median of all of them.
Smallest(b, days, k) ==
    LET g(i) == Gained(b, i)
        below(i) == Cardinality({j \in days : Less(g(j), g(i))})
        upTo(i) == Cardinality({j \in days : ~Less(g(i), g(j))})
    IN g(CHOOSE i \in days : below(i) < k /\ upTo(i) >= k)

Baseline(b) ==
    LET days == 1 .. Len(b) - Gate.forward
        one == Smallest(b, days, (Len(b) - Gate.forward + 1) \div 2)
        two == Smallest(b, days, (Len(b) - Gate.forward) \div 2 + 1)
    IN << one[1] * two[2] + two[1] * one[2], 2 * one[2] * two[2] >>

Wins(gain, usual) == Less(usual, gain)

\* judge_stock(): firings with all of their forward sessions behind them.
Judged(b, marked) == {i \in marked : i + Gate.forward <= Len(b)}

\* compute_method_backtest() and _grade(); the edge in hundredths of a percent.
Passes(b, marked) ==
    LET judged == Judged(b, marked)
        usual == Baseline(b)
        points(x) == (10000 * x[1]) \div x[2]
    IN /\ Cardinality(judged) >= Gate.samples
       /\ 2 * Cardinality({i \in judged : Wins(Gained(b, i), usual)}) > Cardinality(judged)
       /\ MapThenSumSet(LAMBDA i : points(Gained(b, i)) - points(usual), judged) > 0

-----------------------------------------------------------------------------
HistoryInit(price, volume) ==
    history = << [date |-> 0, close |-> price, high |-> price + 1, low |-> price, volume |-> volume] >>

\* One more session, `days' after the last one.
NextSession(days, move, up, down, volume) ==
    LET last == history[Len(history)]
        close == last.close + move
    IN history' = Append(history,
           [date |-> last.date + days, close |-> close, volume |-> volume,
            high |-> Max({close, last.close}) + up, low |-> Min({close, last.close}) - down])

-----------------------------------------------------------------------------
Windows == {SubSeq(history, k, Len(history)) : k \in DOMAIN history}

\* "fired always means a marker on the latest bar" (pocket_pivot.py:367,
\* volume_breakout.py:246-252, weinstein.py:316-318): what the ranking reads off
\* the newest bar of a shorter window is what the chart of the whole history marks
\* there.  A template may have been on for long, so there a marker is one way only;
\* a pivot before the first bar a window can judge is not seen by that window.
FiredIsMarked ==
    LET n == Len(history)
        template == n \in TemplateMarkers(history)
        breakout == n \in BreakoutMarkers(history)
        pivot == n \in PivotMarkers(history)
        stage == history[n].date \in StageMarkers(history)
    IN \A b \in Windows :
        /\ Len(b) > Template.year =>
             (TemplateRead(b, "unknown").fired /\ ~Full(history, n - 1)) = template
        /\ Len(b) >= Breakout.min => BreakoutRead(b).fired = breakout
        /\ Len(b) > Pivot.slow => PivotRead(b).fired = pivot
        /\ Friday(history[n].date) /\ Len(CompletedWeeks(b)) > MinWeeks =>
             StageRead(b).fired = stage

\* A method scores what it fires on: a pivot holds all of its rules, a breakout the
\* three it implies, the template every one but the rank; and a stage 2 keeps its
\* base, its average and its freshness for as long as it is fresh, though the run
\* is by then part of the weeks behind ("scoring the method lowest at the moment it
\* fires", weinstein.py:234-238).
FiringsScore ==
    LET b == history n == Len(history)
    IN /\ n >= Template.year => \A rank \in {"unknown", "leading", "lagging"} :
            \A read \in {TemplateRead(b, rank)} :
               read.fired => read.held >= read.of - (IF rank = "lagging" THEN 1 ELSE 0)
       /\ n >= Breakout.min => \A read \in {BreakoutRead(b)} : read.fired => read.held >= 3
       /\ n >= Pivot.slow => \A read \in {PivotRead(b)} : read.fired => read.held = read.of
       /\ Len(CompletedWeeks(b)) >= MinWeeks =>
            \A read \in {StageRead(b)} : read.fresh => read.base /\ read.held >= 4

\* A marker is what its day's close already said, neither dropped nor added when
\* later bars arrive: the back-test judges a method by the markers of the whole
\* history as if each had been acted on at its own close
\* (method_backtest_service.py:110-155).  A weekly marker is settled with its week.
MarkersStay ==
    Len(history) > 1 =>
    \A cut \in {Front(history)} : \A newest \in {cut[Len(cut)].date} :
    \A daily \in {[b \in {history, cut} |->
                     <<TemplateMarkers(b), BreakoutMarkers(b), PivotMarkers(b)>>]},
       weekly \in {[b \in {history, cut} |-> StageMarkers(b)]} :
        /\ \A k \in 1 .. 3 : daily[history][k] \ {Len(history)} = daily[cut][k]
        /\ \A d \in weekly[history] \union weekly[cut] :
             WeekOf(d) < WeekOf(newest) \/ (d = newest /\ Friday(d)) =>
                 d \in weekly[history] /\ d \in weekly[cut]

\* The gate asks for an edge over the stock itself: a method that fires every day
\* has none to show, whatever the stock did ("beat
\* the stock's own baseline", method_backtest_service.py:180-186).
EveryDayIsNoEdge == ~Passes(history, DOMAIN history)

\* What is read of a firing agrees: its mark on the chart, its score, the mark every
\* later day shows of it, and the grade it earns.
FiringsAgree == FiredIsMarked /\ FiringsScore /\ MarkersStay /\ EveryDayIsNoEdge
=============================================================================
