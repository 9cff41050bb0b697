----------------------------- MODULE VsaSignals -----------------------------
(***************************************************************************)
(* Volume spread analysis (app/analysis/vsa.py, phase.py, and the weekly   *)
(* reading of weekly.py): which pattern, if any, a bar is, read against    *)
(* the bars before it, and the rating the patterns of a series add up to.  *)
(*                                                                         *)
(* The same detector is run over windows of different length and age: the  *)
(* ranking's slice, the chart's range, the stored weeks, and, offline, the *)
(* whole history a model learns from.  The state is that of TrendMethods:  *)
(* one stock's daily history, one bar longer with every session.           *)
(*                                                                         *)
(* The screens no longer show this method (method_status.py): there         *)
(* detect_signals() is replaced by a stub and the weekly reading is off.   *)
(* The feature rows still call it.                                         *)
(*                                                                         *)
(* Thresholds are the code's: a spread or volume multiple in tenths, the   *)
(* place of a close in its range and a strength in hundredths.  Averages   *)
(* are compared as sums.  The lengths of the windows are parameters.       *)
(***************************************************************************)
EXTENDS TrendMethods

CONSTANTS Classic,  \* [lookback, trend, warmup, phase, least, half, weekHalf, span, weeks, leastWeeks]
          Configs   \* the configurations users scan with

ASSUME ClassicLengths ==
    /\ {Classic.lookback, Classic.trend, Classic.phase, Classic.half, Classic.weekHalf,
        Classic.span, Classic.leastWeeks} \subseteq Nat \ {0}
    /\ Classic.warmup \in Nat
    /\ Classic.least \in 1 .. Classic.phase
    /\ Classic.leastWeeks >= Classic.lookback + Classic.warmup

Names == {"Spring", "SOS", "Successful Test", "Upthrust", "SOW", "No Demand"}
IsBullish(name) == name \in {"Spring", "SOS", "Successful Test"}

-----------------------------------------------------------------------------
(* Configuration. *)

DefaultParams ==
    LET p(spread, volume, close) ==
            [enabled |-> TRUE, spread |-> spread, volume |-> volume, close |-> close,
             lookback |-> Classic.lookback]
    IN [name \in Names |->
           CASE name = "Spring" -> p(12, 12, 60)
             [] name = "SOS" -> p(15, 15, 65)
             [] name = "Successful Test" -> p(10, 7, 65)
             [] name = "Upthrust" -> p(12, 13, 30)
             [] name = "SOW" -> p(15, 15, 35)
             [] name = "No Demand" -> p(7, 7, 65)]

DefaultConfig == [params |-> DefaultParams, trend |-> TRUE, phase |-> FALSE]

\* config_from_settings(): what the payload leaves out keeps its default.
ConfigFromSettings(payload) ==
    LET merged(name, given) ==
            [f \in DOMAIN DefaultParams[name] |->
                IF f \in DOMAIN given THEN given[f] ELSE DefaultParams[name][f]]
    IN [DefaultConfig EXCEPT !.params =
           [name \in Names |-> IF name \in DOMAIN payload THEN merged(name, payload[name])
                               ELSE DefaultParams[name]]]

Active(c) == {name \in Names : c.params[name].enabled}
MinLookback(c) == Min({c.params[name].lookback : name \in Active(c)})

-----------------------------------------------------------------------------
(* The bars before a bar: every window ends with the one before it. *)

SpreadOf(b, i) == b[i].high - b[i].low
Spreads(b, len, i) == SumFunction([j \in (i - len) .. (i - 1) |-> SpreadOf(b, j)])
Volumes(b, len, i) == Volume(b, i - len, i - 1)
LowBefore(b, len, i) == Bottom(b, i - len, i - 1)

\* Mutant: resistance is the highest of all the bars there are.
HighOfAll(b, len, i) == Top(b, 1, i - 1)

HighBefore(b, len, i) == Top(b, i - len, i - 1)

\* ctx(): there is a whole window, and it traded and moved.
InContext(b, p, i) ==
    /\ i > p.lookback
    /\ Volumes(b, p.lookback, i) >= p.lookback
    /\ Spreads(b, p.lookback, i) > 0

\* Comparisons with the averages of the window.
WiderThan(b, p, i) == 10 * p.lookback * SpreadOf(b, i) > p.spread * Spreads(b, p.lookback, i)
NarrowerThan(b, p, i) == 10 * p.lookback * SpreadOf(b, i) < p.spread * Spreads(b, p.lookback, i)
Over10(b, len, tenths, i) == 10 * len * b[i].volume > tenths * Volumes(b, len, i)
Under10(b, len, tenths, i) == 10 * len * b[i].volume < tenths * Volumes(b, len, i)
HeavierThan(b, p, i) == Over10(b, p.lookback, p.volume, i)
LighterThan(b, p, i) == Under10(b, p.lookback, p.volume, i)
VeryLight(b, p, i) == Under10(b, p.lookback, 7, i)

\* _excessive_cap(): four times the average, or half as much again as the rule's own.
Excessive(b, p, i) ==
    20 * p.lookback * b[i].volume > Max({80, 3 * p.volume}) * Volumes(b, p.lookback, i)

\* The place of the close in a range there is.
ClosesOver(b, percent, i) ==
    100 * (b[i].close - b[i].low) > percent * SpreadOf(b, i) /\ SpreadOf(b, i) > 0
ClosesFrom(b, percent, i) ==
    100 * (b[i].close - b[i].low) >= percent * SpreadOf(b, i) /\ SpreadOf(b, i) > 0
ClosesUnder(b, percent, i) ==
    100 * (b[i].close - b[i].low) < percent * SpreadOf(b, i) /\ SpreadOf(b, i) > 0
ClosesUpTo(b, percent, i) ==
    100 * (b[i].close - b[i].low) <= percent * SpreadOf(b, i) /\ SpreadOf(b, i) > 0

Up(b, i) == i > 1 /\ b[i].close > b[i - 1].close
Down(b, i) == i > 1 /\ b[i].close < b[i - 1].close
LightestOf3(b, i) == i > 2 /\ b[i].volume < b[i - 1].volume /\ b[i].volume < b[i - 2].volume

\* A dip below support by no more than half an average spread.
Shallow(b, p, i) ==
    2 * p.lookback * (LowBefore(b, p.lookback, i) - b[i].low) <= Spreads(b, p.lookback, i)

TrendSum(b, i) == Closes(b, Classic.trend, i - 1)

\* trend_available() and background(): the trend that leads into the bar.
TrendKnown(b, c, i) == c.trend /\ i > Classic.trend /\ TrendSum(b, i) > 0
Bullish(b, c, i) ==
    TrendKnown(b, c, i) /\ 100 * Classic.trend * b[i - 1].close >= 103 * TrendSum(b, i)
Bearish(b, c, i) ==
    TrendKnown(b, c, i) /\ 100 * Classic.trend * b[i - 1].close <= 97 * TrendSum(b, i)

-----------------------------------------------------------------------------
(* The patterns. *)

\* Support broken and regained: on heavy volume, or a shallow dip nobody sold into.
Spring(b, c, i) ==
    LET p == c.params["Spring"]
        support == LowBefore(b, p.lookback, i)
    IN /\ p.enabled /\ ~Bearish(b, c, i) /\ InContext(b, p, i)
       /\ support > 0 /\ b[i].low <= support /\ b[i].close > support
       /\ ClosesOver(b, p.close, i)
       /\ \/ WiderThan(b, p, i) /\ HeavierThan(b, p, i) /\ ~Excessive(b, p, i)
          \/ VeryLight(b, p, i) /\ Shallow(b, p, i)

BreaksResistance(b, c, i) ==
    LET p == c.params["SOS"]
        resistance == HighBefore(b, p.lookback, i)
    IN /\ p.enabled /\ InContext(b, p, i)
       /\ WiderThan(b, p, i) /\ HeavierThan(b, p, i) /\ ClosesOver(b, p.close, i) /\ Up(b, i)
       /\ resistance > 0 /\ b[i].close > resistance

\* With excessive volume only out of a range; in new high ground it is a climax.
SignOfStrength(b, c, i) ==
    /\ BreaksResistance(b, c, i)
    /\ Excessive(b, c.params["SOS"], i) => TrendKnown(b, c, i) /\ ~Bullish(b, c, i)
ClimaxBar(b, c, i) ==
    BreaksResistance(b, c, i) /\ Excessive(b, c.params["SOS"], i) /\ Bullish(b, c, i)

SuccessfulTest(b, c, i) ==
    LET p == c.params["Successful Test"]
        support == LowBefore(b, p.lookback, i)
        resistance == HighBefore(b, p.lookback, i)
    IN /\ p.enabled /\ ~Bearish(b, c, i) /\ InContext(b, p, i)
       /\ i > 1 /\ b[i].low < b[i - 1].low
       /\ resistance > support /\ 4 * (b[i].low - support) <= resistance - support
       /\ Shallow(b, p, i)
       /\ ClosesFrom(b, p.close, i)
       /\ LighterThan(b, p, i) /\ LightestOf3(b, i)

UpthrustBar(b, c, i) ==
    LET p == c.params["Upthrust"]
        resistance == HighBefore(b, p.lookback, i)
    IN /\ p.enabled /\ ~Bullish(b, c, i) /\ InContext(b, p, i)
       /\ resistance > 0 /\ b[i].high >= resistance /\ b[i].close < resistance
       /\ ClosesUnder(b, p.close, i) /\ WiderThan(b, p, i)
       /\ HeavierThan(b, p, i) \/ VeryLight(b, p, i)

\* Excessive volume into new lows of a falling market may be the stopping of it.
SignOfWeakness(b, c, i) ==
    LET p == c.params["SOW"]
        support == LowBefore(b, p.lookback, i)
        stopping == Bearish(b, c, i) /\ support > 0 /\ b[i].low < support
    IN /\ p.enabled /\ InContext(b, p, i)
       /\ WiderThan(b, p, i) /\ HeavierThan(b, p, i) /\ ClosesUnder(b, p.close, i) /\ Down(b, i)
       /\ Excessive(b, p, i) => TrendKnown(b, c, i) /\ ~stopping

NoDemand(b, c, i) ==
    LET p == c.params["No Demand"]
    IN /\ p.enabled /\ ~Bullish(b, c, i) /\ InContext(b, p, i)
       /\ Up(b, i) /\ NarrowerThan(b, p, i) /\ ClosesUnder(b, p.close, i)
       /\ LighterThan(b, p, i) /\ LightestOf3(b, i)

\* The first that holds is what the bar is, with its strength.
Nothing == [name |-> "none", strength |-> 0]
Matched(b, c, i) ==
    LET is(name, strength) == [name |-> name, strength |-> strength]
    IN IF Spring(b, c, i) THEN is("Spring", 90)
       ELSE IF SignOfStrength(b, c, i) THEN is("SOS", 100)
       ELSE IF ClimaxBar(b, c, i) THEN is("Upthrust", 85)
       ELSE IF SuccessfulTest(b, c, i) THEN is("Successful Test", 75)
       ELSE IF UpthrustBar(b, c, i) THEN is("Upthrust", 85)
       ELSE IF SignOfWeakness(b, c, i) THEN is("SOW", 100)
       ELSE IF NoDemand(b, c, i) THEN is("No Demand", 60)
       ELSE Nothing

-----------------------------------------------------------------------------
(* phase.py: the background a pattern is read against. *)

Background(i) == Max({1, i - Classic.phase}) .. (i - 1)
Judgeable(i) == Cardinality(Background(i)) >= Classic.least
HeavyBar(b, i) ==
    /\ Judgeable(i)
    /\ 2 * Cardinality(Background(i)) * b[i].volume > 3 * Volumes(b, Cardinality(Background(i)), i)
LightBar(b, i) ==
    /\ Judgeable(i)
    /\ Cardinality(Background(i)) * b[i].volume < Volumes(b, Cardinality(Background(i)), i)

Count(Is(_), i) == Cardinality({j \in Background(i) : Is(j)})
Absorptions(b, i) == Count(LAMBDA j : HeavyBar(b, j) /\ Down(b, j) /\ ClosesFrom(b, 60, j), i)
Climaxes(b, i) ==
    Count(LAMBDA j : HeavyBar(b, j) /\ Up(b, j) /\ ClosesUpTo(b, 40, j), i)
QuietDowns(b, i) == Count(LAMBDA j : LightBar(b, j) /\ Down(b, j), i)
QuietUps(b, i) == Count(LAMBDA j : LightBar(b, j) /\ Up(b, j), i)

\* The volume of the bars that rose and of those that fell, 15% apart.
Pressure(b, i) ==
    LET of(S) == SumFunctionOnSet([j \in Background(i) |-> b[j].volume], S)
        ups == of({j \in Background(i) : Up(b, j)})
        downs == of({j \in Background(i) : Down(b, j)})
    IN CASE downs > 0 /\ 100 * ups >= 115 * downs -> 1
         [] downs > 0 /\ 100 * ups <= 85 * downs -> -1
         [] OTHER -> 0

\* classify_row(): a move that volume carries, or enough evidence at an end of the range.
PhaseOf(b, i) ==
    LET first == Max({1, i - Classic.phase})
        high == Top(b, first, i - 1)
        low == Bottom(b, first, i - 1)
        came == b[i - 1].close - b[first].close
        lean == Pressure(b, i)
        rising == 20 * came >= b[first].close
        falling == 20 * came <= -b[first].close
        one(holds) == IF holds THEN 1 ELSE 0
        atTop == 10 * (b[i - 1].close - low) >= 6 * (high - low)
        atBottom == 10 * (b[i - 1].close - low) <= 4 * (high - low)
        tops == Climaxes(b, i) + one(lean < 0) + one(4 * QuietUps(b, i) >= Classic.phase)
        bottoms == Absorptions(b, i) + one(lean > 0) + one(4 * QuietDowns(b, i) >= Classic.phase)
    IN IF ~Judgeable(i) \/ high <= low \/ b[first].close <= 0 THEN "neutral"
       ELSE IF rising /\ lean > 0 /\ Climaxes(b, i) < 2 THEN "markup"
       ELSE IF falling /\ lean < 0 /\ Absorptions(b, i) < 2 THEN "markdown"
       ELSE IF atTop /\ ~falling /\ tops >= 2 THEN "distribution"
       ELSE IF atBottom /\ ~rising /\ bottoms >= 2 THEN "accumulation"
       ELSE "neutral"

\* stance() and strength_multiplier(), in hundredths.
Multiplier(phase, bullish) ==
    CASE phase \in (IF bullish THEN {"accumulation", "markup"} ELSE {"distribution", "markdown"}) -> 100
      [] phase = (IF bullish THEN "distribution" ELSE "accumulation") -> 35
      [] OTHER -> 75

-----------------------------------------------------------------------------
(* The signals of a series, and what they add up to. *)

Weight(b, c, i, found) ==
    found.strength * (IF c.phase THEN Multiplier(PhaseOf(b, i), IsBullish(found.name)) ELSE 100)

\* detect_signals(): nothing from a series too short for a window and some bars more.
Scanned(b, c) == Active(c) # {} /\ Len(b) >= MinLookback(c) + Classic.warmup
Signals(b, c) ==
    LET found == [i \in (MinLookback(c) + 1) .. Len(b) |-> Matched(b, c, i)]
    IN {[date |-> b[i].date, name |-> found[i].name, strength |-> Weight(b, c, i, found[i])] :
           i \in {j \in DOMAIN found : Scanned(b, c) /\ found[j] # Nothing}}

\* _net_score(): a strength halves with every half-life; later signals do not count,
\* and after Classic.span half-lives a signal is out of every window read.  The code's
\* decay is continuous, here it goes by whole half-lives.
NetScore(signals, day, half) ==
    LET past == {s \in signals : s.date <= day /\ day - s.date < Classic.span * half}
        weight(s) == s.strength * 2 ^ (Classic.span - 1 - (day - s.date) \div half)
    IN SumFunction([s \in past |-> IF IsBullish(s.name) THEN weight(s) ELSE -weight(s)])

\* verdict_from_signals(): past 0.45 and past 1.2 of a fresh signal of full strength.
Verdict(net) ==
    LET full == 10000 * 2 ^ (Classic.span - 1)
    IN Cardinality({t \in {45, 120} : 100 * net >= t * full})
         - Cardinality({t \in {45, 120} : 100 * net <= -t * full})

\* What the change of a rating is counted from: the signals before the newest session.
PriorSignals(signals, b) == {s \in signals : s.date < b[Len(b)].date}

\* compute_weekly_view(): the newest of the completed weeks, no more than a year of them.
WeeklyView(b, c) ==
    LET done == CompletedWeeks(b)
        weeks == SubSeq(done, Max({1, Len(done) - Classic.weeks + 1}), Len(done))
        newest == weeks[Len(weeks)].date
    IN IF Len(weeks) < Classic.leastWeeks THEN {}
       ELSE {Verdict(NetScore(Signals(weeks, c), newest, Classic.weekHalf))}

-----------------------------------------------------------------------------
(* ml/features.py: what a model is told of a session, all of a history's    *)
(* sessions at once.                                                         *)

\* _vsa_engine(): the signals of the day and of five days, and the decayed score; the
\* trend and the phase are told whether or not the configuration uses them.
VsaFeatures(b, c) ==
    LET signals == Signals(b, c)
        days(i) == {b[j].date : j \in Max({1, i - 4}) .. i}
        to(i) == 100 * Classic.trend * b[i - 1].close
    IN [i \in DOMAIN b |->
           [today |-> {s \in signals : s.date = b[i].date},
            last5 |-> {s.name : s \in {x \in signals : x.date \in days(i)}},
            net |-> NetScore(signals, b[i].date, Classic.half),
            trend |-> i > Classic.trend /\ to(i) >= 103 * TrendSum(b, i),
            fall |-> i > Classic.trend /\ to(i) <= 97 * TrendSum(b, i),
            phase |-> PhaseOf(b, i)]]

\* _methods(): whether a chart's mark is on the bar; the weekly method's apart.
MarkFeatures(b) ==
    LET marks == <<TemplateMarkers(b), BreakoutMarkers(b)>>
    IN [i \in DOMAIN b |-> [k \in 1 .. 2 |-> i \in marks[k]]]
StageFeature(b) ==
    LET marks == StageMarkers(b) IN [i \in DOMAIN b |-> b[i].date \in marks]

\* Mutant: a row knows its own week from its first session on.
AvailableAtOnce(b, i) == Cardinality({w \in Weeks(b) : w <= WeekOf(b[i].date)})

\* _weekly(): a row knows the weeks before its own, and its own from Friday on.
Available(b, i) ==
    Cardinality({w \in Weeks(b) :
        w < WeekOf(b[i].date) \/ (Friday(b[i].date) /\ w = WeekOf(b[i].date))})
WeekFeatures(b, c) ==
    LET weeks == Weekly(b)
        signals == Signals(weeks, c)
        year(k) == weeks[Max({1, k - Classic.weeks + 1})].date
        net(k) == NetScore({s \in signals : s.date >= year(k)}, weeks[k].date, Classic.weekHalf)
    IN [i \in DOMAIN b |-> {net(k) : k \in {Available(b, i)} \ 0 .. Classic.leastWeeks - 1}]

FeatureRows(b, c) == <<VsaFeatures(b, c), MarkFeatures(b), WeekFeatures(b, c)>>

-----------------------------------------------------------------------------
(* Properties, of the configurations in use. *)

\* The bars a signal is read from: its window, the trend, and the background with
\* the averages the background is judged by.
Reach(c) ==
    Max({c.params[name].lookback : name \in Active(c)} \union {Classic.trend, 3}
          \union (IF c.phase THEN {2 * Classic.phase} ELSE {}))

\* What a shorter window says of a bar it can read is what the whole history says.
SlicesAgree(b, c, signals, whole) ==
    Scanned(b, c) /\ Len(b) > Reach(c) =>
        LET readable(read) == {s \in read : s.date > b[Reach(c)].date}
        IN readable(signals) = readable(whole)

\* The chart's weekly reading and the ranking's, over different windows: they take
\* the newest week for completed alike and hold a year of weeks and the run-up.
WeeksAgree ==
    \A c \in Configs :
        Cardinality({WeeklyView(b, c) : b \in
            {w \in Windows : Complete(w) = Complete(history)
                                /\ Len(CompletedWeeks(w)) > Classic.weeks}}) <= 1

\* The same detector reads the same bars whoever asks: the ranking's slice, the chart's
\* range and the whole history agree on every bar past the window's own run-up, on the
\* week (stocks.py:2226-2233: "what makes this identical to the ranking's read despite
\* the different windows"), and on what the newest session changed
\* (stocks.py:2205-2207).
ReadingsAgree ==
    /\ WeeksAgree
    /\ \A c \in Configs, cut \in {Front(history)} :
       \A read \in {[b \in Windows \union {cut} |-> Signals(b, c)]} :
          /\ Scanned(cut, c) => PriorSignals(read[history], history) = read[cut]
          /\ \A b \in Windows : SlicesAgree(b, c, read[b], read[history])

\* "Every value in row t is computed from bars dated <= t only" (features.py:4-9): the
\* rows of a history stay what they were when it grows by a session.  The weekly
\* method's mark is the next property's; a row of a history too short to scan says
\* nothing yet.
RowsKnowTheirPast ==
    \A cut \in {Front(history)} :
    \A rows \in {[b \in {history, cut} |-> FeatureRows(b, DefaultConfig)]} :
        Scanned(cut, DefaultConfig) =>
            \A k \in 1 .. 3 : SubSeq(rows[history][k], 1, Len(cut)) = rows[cut][k]

\* The same of the weekly method's mark, which is a column of every row as well.
StageMarksKnowTheirPast ==
    \A cut \in {Front(history)} :
        SubSeq(StageFeature(history), 1, Len(cut)) = StageFeature(cut)
=============================================================================
