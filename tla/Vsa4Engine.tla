----------------------------- MODULE Vsa4Engine -----------------------------
(***************************************************************************)
(* The VSA V4 program (analysis/vsa4/engine.py): the features of a bar,    *)
(* the seventeen candidate signals, and the test-as-a-process sequence     *)
(* that turns a primary signal, a later test and a later close beyond it   *)
(* into a confirmed setup.  One step is one session: detect_candidates and *)
(* add_confirmation_and_setup_events walk the bars once and never look     *)
(* ahead, so their loops are run here bar by bar.                          *)
(*                                                                         *)
(* Prices are small integers and the windows small constants; a ratio is   *)
(* compared in per cent without dividing.  Left out: features no signal    *)
(* reads, the reasons' wording, and tick_size, whose decade the prices     *)
(* here do not leave.                                                      *)
(***************************************************************************)
EXTENDS Integers, Sequences, FiniteSets, FiniteSetsExt, Functions

CONSTANTS
    FirstClose,          \* the price the series starts from
    MaxBars,             \* bound: the length of a series
    Tick,                \* Config.min_tick
    BaselineWindow,
    AtrWindow,
    TrendWindow,
    StructureWindow,
    TestWindow,
    SequenceWindow,
    ConfirmationWindow,
    PivotLeft,
    PivotRight,
    MaxPivotGap

\* Config.validate().
ASSUME EngineAssumption ==
    /\ {FirstClose, MaxBars, Tick} \subseteq Nat
    /\ {BaselineWindow, AtrWindow, TrendWindow, StructureWindow, TestWindow, SequenceWindow,
        ConfirmationWindow, PivotLeft, PivotRight, MaxPivotGap} \subseteq Nat \ {0}

VARIABLES
    bars,        \* the series, oldest first
    flags,       \* the candidate signals of each bar
    background,  \* last_strength and last_weakness, with level and name
    test,        \* pending_long and pending_short
    waiting,     \* pending_signals
    setups       \* the confirmed setups, oldest first

engineVars == <<bars, flags, background, test, waiting, setups>>

Sides == {"long", "short"}
Other(side) == IF side = "long" THEN "short" ELSE "long"

Strength == {"bag_holding", "selling_climax", "stopping_volume", "shakeout",
             "strength_two_bar_reversal", "wfo_bullish"}
Weakness == {"end_of_rising_market", "buying_climax", "supply_coming_in", "trap_upmove",
             "no_result_from_effort", "weakness_two_bar_reversal", "upthrust",
             "wfo_bearish"}
Primaries(side) == IF side = "long" THEN Strength ELSE Weakness
Tests(side) == IF side = "long" THEN {"no_supply", "test"} ELSE {"no_demand"}

\* The place of a primary in SIGNAL_NAMES: the first of several names the leg.
Precedence ==
    [bag_holding |-> 1, selling_climax |-> 2, stopping_volume |-> 3, shakeout |-> 4,
     strength_two_bar_reversal |-> 5, end_of_rising_market |-> 6, buying_climax |-> 7,
     supply_coming_in |-> 8, trap_upmove |-> 9, no_result_from_effort |-> 10,
     weakness_two_bar_reversal |-> 11, upthrust |-> 12, wfo_bullish |-> 13,
     wfo_bearish |-> 14]

---------------------------------------------------------------------------
(* build_features: bar i of a series b, against the bars before it. *)

Abs(x) == IF x < 0 THEN -x ELSE x

Before(i, window) == Max({1, i - window})..(i - 1)

Spread(b, i) == b[i].high - b[i].low
Body(b, i) == Abs(b[i].close - b[i].open)
UpperWick(b, i) == b[i].high - Max({b[i].open, b[i].close})
LowerWick(b, i) == Min({b[i].open, b[i].close}) - b[i].low

\* The close's place in its range, between two percentages of it.
ClosesWithin(b, i, low, high) ==
    /\ Spread(b, i) > 0
    /\ 100 * (b[i].close - b[i].low) \in low * Spread(b, i)..high * Spread(b, i)

Moved(b, i, side) ==
    /\ i > 1
    /\ IF side = "long" THEN b[i].close > b[i - 1].close ELSE b[i].close < b[i - 1].close

\* volume_ratio and spread_ratio, whose baselines leave the bar itself out.
Effort(b, i, percent, Holds(_, _)) ==
    LET base == MapThenSumSet(LAMBDA j : b[j].volume, Before(i, BaselineWindow))
    IN  base > 0 /\ Holds(100 * b[i].volume * Cardinality(Before(i, BaselineWindow)),
                          percent * base)
Width(b, i, percent, Holds(_, _)) ==
    LET base == MapThenSumSet(LAMBDA j : Spread(b, j), Before(i, BaselineWindow))
    IN  base > 0 /\ Holds(100 * Spread(b, i) * Cardinality(Before(i, BaselineWindow)),
                          percent * base)

HighVolume(b, i) == Effort(b, i, 150, >=)
ExtremeVolume(b, i) == Effort(b, i, 225, >=)
LowVolume(b, i) == Effort(b, i, 80, <=)
Wide(b, i) == Width(b, i, 130, >=)
Narrow(b, i) == Width(b, i, 75, <=)

TrueRange(b, i) ==
    IF i = 1 THEN Spread(b, i)
    ELSE Max({Spread(b, i), Abs(b[i].high - b[i - 1].close), Abs(b[i].low - b[i - 1].close)})

\* distance <= max(min_tick, percent of atr)
Near(b, i, distance, percent) ==
    LET span == Max({1, i - AtrWindow + 1})..i
    IN  \/ distance <= Tick
        \/ 100 * distance * Cardinality(span)
               <= percent * MapThenSumSet(LAMBDA j : TrueRange(b, j), span)

\* trend_context, which excludes the current bar.
Trend(b, i) ==
    LET movement == b[i - 1].close - b[i - 1 - TrendWindow].close
    IN  IF i <= TrendWindow + 1 THEN "unknown"
        ELSE IF ~Near(b, i, movement, 25) THEN "up"
        ELSE IF ~Near(b, i, -movement, 25) THEN "down" ELSE "sideways"

Pink(b, i) ==
    /\ i > 2
    /\ 0 < b[i].volume /\ b[i].volume < b[i - 1].volume /\ b[i].volume < b[i - 2].volume

Traded(b, i) == Spread(b, i) > 0 /\ b[i].volume > 0
WarmedUp(i) == i > BaselineWindow /\ i >= AtrWindow
Valid(b, i) == Traded(b, i) /\ WarmedUp(i)

---------------------------------------------------------------------------
(* detect_candidates. *)

PriorHigh(b, i) == Max({b[j].high : j \in Before(i, StructureWindow)})
PriorLow(b, i) == Min({b[j].low : j \in Before(i, StructureWindow)})

Quiet(b, i, side) == Pink(b, i) /\ Moved(b, i, Other(side)) /\ Narrow(b, i)

\* The bar whose low a later test comes back to.
Reference(name, j) ==
    CASE name = "wfo_bullish" -> j - PivotRight
      [] name = "stopping_volume" -> j - 1
      [] OTHER -> j

Retest(b, f, i) ==
    /\ b[i].close > b[i].low /\ Width(b, i, 130, <)
    /\ 100 * LowerWick(b, i) >= 15 * Spread(b, i)
    /\ LowVolume(b, i)
    /\ \E j \in Before(i, TestWindow) : \E name \in f[j] \intersect Strength :
           LET ref == Reference(name, j)
           IN  /\ Moved(b, ref, "short") \/ name = "wfo_bullish"
               /\ HighVolume(b, ref)
               /\ Near(b, i, Abs(b[i].low - b[ref].low), 60)
               /\ 100 * b[i].volume < 65 * b[ref].volume

\* A narrow bar, or one on record volume, that closes in its middle after a trend.
Absorbed(b, i) == Narrow(b, i) /\ ExtremeVolume(b, i) /\ ClosesWithin(b, i, 30, 70)

Climax(b, i, wick) ==
    /\ Wide(b, i) /\ HighVolume(b, i) /\ ClosesWithin(b, i, 30, 70) /\ wick > 0
    /\ \A j \in Before(i, BaselineWindow) : b[i].volume >= b[j].volume

StoppingVolume(b, i) ==
    /\ Moved(b, i - 1, "short") /\ Moved(b, i, "long")
    /\ ClosesWithin(b, i, 70, 100) /\ HighVolume(b, i - 1)

Shakeout(b, i) ==
    /\ b[i].low < PriorLow(b, i) - Tick /\ b[i].close > PriorLow(b, i)
    /\ ClosesWithin(b, i, 70, 100) /\ HighVolume(b, i) /\ Wide(b, i)

\* Two bars of opposite direction, the second taking back the first on more volume.
TwoBarReversal(b, i, side) ==
    /\ Moved(b, i - 1, Other(side)) /\ Moved(b, i, side)
    /\ Body(b, i - 1) > 0 /\ 100 * Body(b, i) >= 65 * Body(b, i - 1)
    /\ Near(b, i, IF side = "long" THEN b[i - 1].open - b[i].close
                                   ELSE b[i].close - b[i - 1].open, 5)
    /\ b[i].volume >= b[i - 1].volume

SupplyComingIn(b, i) ==
    /\ Moved(b, i, "long") /\ UpperWick(b, i) > 0 /\ HighVolume(b, i)
    /\ \E j \in Before(i, StructureWindow) : b[i].volume < b[j].volume

TrapUpmove(b, i) ==
    /\ b[i].high > PriorHigh(b, i) + Tick
    /\ ClosesWithin(b, i, 0, 30) /\ Wide(b, i) /\ HighVolume(b, i)

NoResultFromEffort(b, i) ==
    /\ Wide(b, i) /\ HighVolume(b, i) /\ ClosesWithin(b, i, 0, 30)
    /\ UpperWick(b, i) >= Max({Body(b, i), Tick})

Upthrust(b, i) ==
    /\ b[i].high > PriorHigh(b, i) + Tick /\ b[i].close < PriorHigh(b, i)
    /\ 10 * UpperWick(b, i) >= 18 * Max({Body(b, i), Tick}) /\ ClosesWithin(b, i, 0, 30)

\* A local extreme is a pivot once PivotRight bars have closed after it.
IsPivot(b, p, side) ==
    /\ p > PivotLeft
    /\ \A j \in (p - PivotLeft)..(p - 1) :
           IF side = "long" THEN b[p].low < b[j].low ELSE b[p].high > b[j].high
    /\ \A j \in (p + 1)..(p + PivotRight) :
           IF side = "long" THEN b[p].low <= b[j].low ELSE b[p].high >= b[j].high

\* The bar that can become a pivot when bar i closes.
PivotAt(i) == i - PivotRight

\* A further extreme than the last pivot's on less volume than it, but more than any
\* bar between them had.
WeakerExtreme(b, i, side) ==
    LET p == PivotAt(i)
        earlier == {q \in 1..(p - 1) : p - q <= MaxPivotGap /\ IsPivot(b, q, side)}
        q == Max(earlier)
    IN  /\ IsPivot(b, p, side)
        /\ earlier # {}
        /\ IF side = "long" THEN b[p].low <= b[q].low - Tick ELSE b[p].high >= b[q].high + Tick
        /\ b[q].volume > b[p].volume /\ b[p].volume > 0
        /\ \A j \in (q + 1)..(p - 1) : b[p].volume > b[j].volume
        /\ WarmedUp(q) /\ HighVolume(b, q)

OfTrend(b, f, i, trend) ==
    LET found == [
            no_supply |-> Quiet(b, i, "long"),
            no_demand |-> Quiet(b, i, "short"),
            test |-> Retest(b, f, i),
            bag_holding |-> trend = "down" /\ Absorbed(b, i),
            selling_climax |-> /\ trend = "down" /\ Moved(b, i, "short")
                               /\ Climax(b, i, LowerWick(b, i)),
            stopping_volume |-> trend = "down" /\ StoppingVolume(b, i),
            shakeout |-> Shakeout(b, i),
            strength_two_bar_reversal |-> trend = "down" /\ TwoBarReversal(b, i, "long"),
            end_of_rising_market |-> trend = "up" /\ Moved(b, i, "long") /\ Absorbed(b, i),
            buying_climax |-> /\ trend = "up" /\ Moved(b, i, "long")
                              /\ Climax(b, i, UpperWick(b, i)),
            supply_coming_in |-> trend = "up" /\ SupplyComingIn(b, i),
            trap_upmove |-> trend # "unknown" /\ TrapUpmove(b, i),
            no_result_from_effort |-> trend = "up" /\ NoResultFromEffort(b, i),
            weakness_two_bar_reversal |-> trend = "up" /\ TwoBarReversal(b, i, "short"),
            upthrust |-> trend = "up" /\ Upthrust(b, i)]
    IN  {name \in DOMAIN found : found[name]}

OfBar(b, f, i) == OfTrend(b, f, i, Trend(b, i))

Candidates(b, f, i) ==
    (IF Valid(b, i) THEN OfBar(b, f, i) ELSE {})
        \union {name \in {"wfo_bullish"} : WeakerExtreme(b, i, "long")}
        \union {name \in {"wfo_bearish"} : WeakerExtreme(b, i, "short")}

---------------------------------------------------------------------------
(* add_confirmation_and_setup_events. *)

NoLeg == [at |-> 0, level |-> 0, name |-> "none"]
NoTest == [at |-> 0, edge |-> 0, volume |-> 0, stop |-> 0, name |-> "none", primary |-> NoLeg]

Worst(side, prices) == IF side = "long" THEN Min(prices) ELSE Max(prices)
Adverse(bar, side) == IF side = "long" THEN bar.low ELSE bar.high
Beyond(side, x, y) == IF side = "long" THEN x > y ELSE x < y

\* primary_level: where a signal on bar i is proved wrong.
Level(b, name, i, side) ==
    CASE name \in {"wfo_bullish", "wfo_bearish"} -> Adverse(b[i - PivotRight], side)
      [] name \in {"stopping_volume", "strength_two_bar_reversal",
                   "weakness_two_bar_reversal"} ->
             Worst(side, {Adverse(b[i - 1], side), Adverse(b[i], side)})
      [] OTHER -> Adverse(b[i], side)

Breaks(bar, side, level) ==
    IF side = "long" THEN bar.low < level - Tick ELSE bar.high > level + Tick

\* Mutant: only a break of the level spoils a sequence, an opposite signal does not.
SpoiledByPrice(bar, now, side, level) == Breaks(bar, side, level)

\* A bar that breaks the level or carries an opposite primary ends what was built.
Spoiled(bar, now, side, level) ==
    Breaks(bar, side, level) \/ now \intersect Primaries(Other(side)) # {}

Standing(b, now, side) ==
    IF \/ background[side] = NoLeg
       \/ Spoiled(b[Len(b)], now, side, background[side].level)
    THEN NoLeg ELSE background[side]

\* A test still waiting for its confirmation when bar i closes.
InTime(b, now, side) ==
    /\ test[side] # NoTest
    /\ ~Spoiled(b[Len(b)], now, side, test[side].stop)
    /\ Len(b) - test[side].at <= ConfirmationWindow

Confirms(b, now, side) ==
    LET bar == b[Len(b)]
    IN  /\ InTime(b, now, side)
        /\ Moved(b, Len(b), side)
        /\ Beyond(side, bar.close, test[side].edge)
        /\ bar.volume > test[side].volume

\* The stop a little beyond the sequence: 5% of the average range.
SetupStop(b, side) ==
    LET i == Len(b)
        span == Max({1, i - AtrWindow + 1})..i
        buffer == (5 * SumFunction([j \in span |-> TrueRange(b, j)]))
                      \div (100 * Cardinality(span))
    IN  IF side = "long" THEN test[side].stop - buffer ELSE test[side].stop + buffer

Setup(b, side) ==
    [side |-> side, at |-> Len(b), test |-> test[side], stop |-> SetupStop(b, side)]

\* The worst price since the primary, its level, and the pivot of a weaker extreme.
StopOf(b, side, leg) ==
    Worst(side, {Adverse(b[j], side) : j \in leg.at..Len(b)}
                \union {leg.level}
                \union {Adverse(b[leg.at - PivotRight], side) :
                           n \in flags[leg.at] \intersect {"wfo_bullish", "wfo_bearish"}
                                     \intersect Primaries(side)})

NewTest(b, now, side) ==
    LET leg == Standing(b, now, side)
        bar == b[Len(b)]
    IN  IF /\ now \intersect Tests(side) # {}
           /\ leg # NoLeg
           /\ Len(b) - leg.at <= SequenceWindow
        THEN [at |-> Len(b), edge |-> Adverse(bar, Other(side)), volume |-> bar.volume,
              stop |-> StopOf(b, side, leg), primary |-> leg,
              name |-> IF "no_supply" \in now \/ side = "short"
                       THEN IF side = "long" THEN "no_supply" ELSE "no_demand"
                       ELSE "test"]
        ELSE IF InTime(b, now, side) /\ ~Confirms(b, now, side) THEN test[side] ELSE NoTest

NewBackground(b, now, side) ==
    LET found == now \intersect Primaries(side)
        name == CHOOSE n \in found : \A m \in found : Precedence[n] <= Precedence[m]
    IN  IF found = {} THEN Standing(b, now, side)
        ELSE [at |-> Len(b), level |-> Level(b, name, Len(b), side), name |-> name]

\* Every candidate waits for a close beyond its own bar's, whatever the sequence does.
Announced(b, now) ==
    LET kinds == {c \in now \X Sides : c[1] \in Primaries(c[2]) \union Tests(c[2])}
    IN  {[at |-> Len(b), name |-> c[1], side |-> c[2], level |-> Level(b, c[1], Len(b), c[2])] :
            c \in kinds}

StillWaiting(b, now) ==
    {w \in waiting :
        /\ ~Spoiled(b[Len(b)], now, w.side, w.level)
        /\ Len(b) - w.at <= ConfirmationWindow
        /\ ~(/\ Traded(b, Len(b)) /\ Moved(b, Len(b), w.side)
             /\ Beyond(w.side, b[Len(b)].close, b[w.at].close))}

---------------------------------------------------------------------------

\* to_engine_bars: the range is widened to contain the open and the close, and a
\* negative volume is none.
Repaired(last, session) ==
    LET open == last + session.open
        close == last + session.close
    IN  [open |-> open, close |-> close,
         high |-> Max({last + session.high, open, close}),
         low |-> Min({last + session.low, open, close}),
         volume |-> Max({0, session.volume})]

EngineInit ==
    /\ bars = <<>>
    /\ flags = <<>>
    /\ background = [side \in Sides |-> NoLeg]
    /\ test = [side \in Sides |-> NoTest]
    /\ waiting = {}
    /\ setups = {}

\* One turn of the loop: confirmations come before anything new is recorded, and a
\* test uses the background as it was before this bar.
Close(session) ==
    LET last == IF bars = <<>> THEN FirstClose ELSE bars[Len(bars)].close
    IN  /\ Len(bars) < MaxBars
        /\ \E b \in {Append(bars, Repaired(last, session))} :
              \E now \in {Candidates(b, flags, Len(b))} :
                 /\ bars' = b
                 /\ flags' = Append(flags, now)
                 /\ background' = [side \in Sides |-> NewBackground(b, now, side)]
                 /\ test' = [side \in Sides |-> NewTest(b, now, side)]
                 /\ waiting' = StillWaiting(b, now) \union Announced(b, now)
                 /\ setups' = setups \union
                        {Setup(b, side) : side \in {s \in Sides : Confirms(b, now, s)}}

\* A session's prices, against the close before it, and its volume.
Quotes == [open : Int, close : Int, high : Int, low : Int, volume : Int]

EngineSpec == EngineInit /\ [][\E q \in Quotes : Close(q)]_engineVars

---------------------------------------------------------------------------
(* Properties. *)

\* A confirmed setup is a whole sequence: a primary signal, later its test and later
\* the close that confirms it, each within its window.  No bar after the primary
\* carries an opposite primary; none up to the test breaks the primary's level, and
\* none after the test breaks a stop that lies beyond every price since the primary.
IsSequence(s) ==
    LET p == s.test.primary.at
        t == s.test.at
    IN  /\ 0 < p /\ p < t /\ t < s.at
        /\ t - p <= SequenceWindow /\ s.at - t <= ConfirmationWindow
        /\ s.test.primary.name \in flags[p] \intersect Primaries(s.side)
        /\ s.test.name \in flags[t] \intersect Tests(s.side)
        /\ \A j \in (p + 1)..s.at :
               /\ flags[j] \intersect Primaries(Other(s.side)) = {}
               /\ ~Breaks(bars[j], s.side,
                          IF j <= t THEN s.test.primary.level ELSE s.test.stop)
        /\ \A j \in p..t : ~Beyond(s.side, s.test.stop, Adverse(bars[j], s.side))
        /\ Beyond(s.side, bars[s.at].close, Adverse(bars[t], Other(s.side)))

SetupsAreSequences == \A s \in setups : IsSequence(s)
=============================================================================
