--------------------------- MODULE Engines_proofs ---------------------------
(***************************************************************************)
(* Proofs about the VSA V4 program, for any series of sessions and windows *)
(* of any length: a confirmed setup is one unbroken sequence, and accounts *)
(* balance.  And about the workbench, for any calendar and any stocks: of  *)
(* the year a fold is judged on it learns only through the market's        *)
(* median, and only as far as a window can outlast the embargo.            *)
(***************************************************************************)
EXTENDS Vsa4Trades, WalkForward, Sums_proofs

\* The worst of some prices is one of them, and none is beyond it.
LEMMA WorstIsOne ==
    ASSUME NEW S \in SUBSET Int, IsFiniteSet(S), S # {}, NEW side \in Sides
    PROVE  /\ Worst(side, S) \in S
           /\ \A x \in S : ~Beyond(side, Worst(side, S), x)
<1>1. CASE side = "long"
    <2>1. Min(S) \in S /\ \A x \in S : Min(S) <= x
        BY Lowest
    <2>2. Worst(side, S) = Min(S) /\ \A x : Beyond(side, Min(S), x) = (Min(S) > x)
        BY <1>1 DEF Worst, Beyond
    <2>3. \A x \in S : ~(Min(S) > x)
        <3>. TAKE x \in S
        <3>2. x \in Int /\ Min(S) \in Int /\ Min(S) <= x
            BY <2>1
        <3>. QED BY <3>2
    <2>. QED BY <2>1, <2>2, <2>3
<1>2. CASE side = "short"
    <2>1. Max(S) \in S /\ \A x \in S : x <= Max(S)
        BY Highest
    <2>2. Worst(side, S) = Max(S) /\ \A x : Beyond(side, Max(S), x) = (Max(S) < x)
        BY <1>2 DEF Worst, Beyond
    <2>3. \A x \in S : ~(Max(S) < x)
        <3>. TAKE x \in S
        <3>2. x \in Int /\ Max(S) \in Int /\ x <= Max(S)
            BY <2>1
        <3>. QED BY <3>2
    <2>. QED BY <2>1, <2>2, <2>3
<1>. QED BY <1>1, <1>2 DEF Sides

---------------------------------------------------------------------------
(* Signals. *)

Bar == [open : Int, close : Int, high : Int, low : Int, volume : Int]

OfPivot == {"wfo_bullish", "wfo_bearish"}
OfTwoBars == {"stopping_volume", "strength_two_bar_reversal", "weakness_two_bar_reversal"}

\* What a signal's name says of where it stands: the bar before it is there, and so
\* is the pivot of a weaker extreme.
Anchored(i, name) ==
    /\ name \in OfPivot => i > PivotRight
    /\ name \in OfTwoBars => i > 1

LEMMA CandidatesAreAnchored ==
    ASSUME NEW b, NEW f, NEW i \in Nat \ {0}, NEW name \in Candidates(b, f, i)
    PROVE  Anchored(i, name)
<1>. USE EngineAssumption
<1>1. ASSUME NEW trend
      PROVE  /\ "wfo_bullish" \notin OfTrend(b, f, i, trend)
             /\ "wfo_bearish" \notin OfTrend(b, f, i, trend)
    BY DEF OfTrend
<1>2. ASSUME NEW side, WeakerExtreme(b, i, side) PROVE i > PivotRight
    BY <1>2 DEF WeakerExtreme, IsPivot, PivotAt
<1>3. \A side : Moved(b, i, side) => i > 1
    BY DEF Moved
<1>4. ASSUME NEW trend, "stopping_volume" \in OfTrend(b, f, i, trend) PROVE i > 1
    BY <1>3, <1>4 DEF OfTrend, StoppingVolume
<1>5. ASSUME NEW trend, "strength_two_bar_reversal" \in OfTrend(b, f, i, trend) PROVE i > 1
    BY <1>3, <1>5 DEF OfTrend, TwoBarReversal
<1>6. ASSUME NEW trend, "weakness_two_bar_reversal" \in OfTrend(b, f, i, trend) PROVE i > 1
    BY <1>3, <1>6 DEF OfTrend, TwoBarReversal
<1>7. name \in OfPivot => i > PivotRight
    BY <1>1, <1>2 DEF OfPivot, Candidates, OfBar
<1>8. name \in OfTwoBars => i > 1
    BY <1>4, <1>5, <1>6 DEF OfTwoBars, Candidates, OfBar
<1>. QED BY <1>7, <1>8 DEF Anchored

Names == Strength \union Weakness \union Tests("long") \union Tests("short")

LEMMA CandidatesAreNames ==
    ASSUME NEW b, NEW f, NEW i
    PROVE  Candidates(b, f, i) \subseteq Names
<1>1. ASSUME NEW trend PROVE OfTrend(b, f, i, trend) \subseteq Names
    BY DEF OfTrend, Names, Strength, Weakness, Tests
<1>2. {"wfo_bullish", "wfo_bearish"} \subseteq Names
    BY DEF Names, Strength, Weakness
<1>. QED BY <1>1, <1>2 DEF Candidates, OfBar

LEMMA AdverseIsPrice ==
    ASSUME NEW b \in Seq(Bar), NEW i \in 1..Len(b), NEW side
    PROVE  Adverse(b[i], side) \in Int
<1>1. b[i] \in Bar
    OBVIOUS
<1>2. b[i].low \in Int /\ b[i].high \in Int
    BY <1>1 DEF Bar
<1>. QED BY <1>2 DEF Adverse

\* A signal is proved wrong at a price.
LEMMA LevelIsPrice ==
    ASSUME NEW b \in Seq(Bar), NEW i \in 1..Len(b), NEW side \in Sides,
           NEW name, Anchored(i, name)
    PROVE  Level(b, name, i, side) \in Int
<1>. USE EngineAssumption
<1>1. CASE name \in OfPivot
    <2>1. i - PivotRight \in 1..Len(b)
        BY <1>1 DEF Anchored
    <2>. QED BY <1>1, <2>1, AdverseIsPrice DEF Level, OfPivot
<1>2. CASE name \in OfTwoBars
    <2>. DEFINE both == {Adverse(b[i - 1], side), Adverse(b[i], side)}
    <2>1. i - 1 \in 1..Len(b)
        BY <1>2 DEF Anchored
    <2>2. both \in SUBSET Int /\ both # {}
        BY <2>1, AdverseIsPrice
    <2>3. IsFiniteSet(both)
        BY FewAreFinite
    <2>4. Level(b, name, i, side) = Worst(side, both)
        BY <1>2 DEF Level, OfTwoBars
    <2>. HIDE DEF both
    <2>5. Worst(side, both) \in both
        BY <2>2, <2>3, WorstIsOne
    <2>. QED BY <2>2, <2>4, <2>5
<1>3. CASE name \notin OfPivot \union OfTwoBars
    <2>1. Level(b, name, i, side) = Adverse(b[i], side)
        BY <1>3 DEF Level, OfPivot, OfTwoBars
    <2>. QED BY <2>1, AdverseIsPrice
<1>. QED BY <1>1, <1>2, <1>3

\* Of several primaries on a bar, one names the leg.
LEMMA SomeNameComesFirst ==
    ASSUME NEW found \in SUBSET (Strength \union Weakness), found # {}
    PROVE  (CHOOSE n \in found : \A m \in found : Precedence[n] <= Precedence[m]) \in found
<1>. DEFINE places == {Precedence[n] : n \in found}
<1>1. \A n \in Strength \union Weakness : Precedence[n] \in Nat
    BY DEF Precedence, Strength, Weakness
<1>2. places \in SUBSET Nat /\ places # {}
    BY <1>1
<1>3. PICK x \in places : \A y \in places : x <= y
    <2>. HIDE DEF places
    <2>. QED BY <1>2, LeastNatural
<1>4. \E n \in found : \A m \in found : Precedence[n] <= Precedence[m]
    BY <1>3
<1>. QED BY <1>4

---------------------------------------------------------------------------
(* What the program holds of a series b with the signals f. *)

\* No bar after from, up to to, breaks the level or carries an opposite primary.
Unspoiled(b, f, side, level, from, to) ==
    \A j \in (from + 1)..to :
        f[j] \intersect Primaries(Other(side)) = {} /\ ~Breaks(b[j], side, level)

\* A leg stands on bar to: a primary of its side, and nothing since has undone it.
LegStands(b, f, side, leg, to) ==
    /\ leg.at \in 1..to
    /\ leg.level \in Int
    /\ leg.name \in f[leg.at] \intersect Primaries(side)
    /\ Unspoiled(b, f, side, leg.level, leg.at, to)

\* A test stands: it came on a leg that stood then, its stop lies beyond every price
\* from the primary to it, and nothing since has undone it.
TestStands(b, f, side, x) ==
    /\ x.at \in 1..Len(b)
    /\ LegStands(b, f, side, x.primary, x.at)
    /\ x.primary.at < x.at
    /\ x.at - x.primary.at <= SequenceWindow
    /\ x.name \in f[x.at] \intersect Tests(side)
    /\ x.edge = Adverse(b[x.at], Other(side))
    /\ x.stop \in Int
    /\ \A j \in x.primary.at..x.at : ~Beyond(side, x.stop, Adverse(b[j], side))
    /\ Unspoiled(b, f, side, x.stop, x.at, Len(b))

\* IsSequence, of any series.
Sequence(b, f, s) ==
    /\ s.side \in Sides
    /\ s.at \in 1..Len(b)
    /\ s.test.at \in 1..(s.at - 1)
    /\ s.at - s.test.at <= ConfirmationWindow
    /\ LegStands(b, f, s.side, s.test.primary, s.test.at)
    /\ s.test.primary.at < s.test.at
    /\ s.test.at - s.test.primary.at <= SequenceWindow
    /\ s.test.name \in f[s.test.at] \intersect Tests(s.side)
    /\ \A j \in s.test.primary.at..s.test.at :
           ~Beyond(s.side, s.test.stop, Adverse(b[j], s.side))
    /\ Unspoiled(b, f, s.side, s.test.stop, s.test.at, s.at)
    /\ Beyond(s.side, b[s.at].close, Adverse(b[s.test.at], Other(s.side)))

\* The series is one of bars, and each of its signals has the bars it speaks of.
Recorded(b, f) ==
    /\ b \in Seq(Bar)
    /\ f \in Seq(SUBSET Names)
    /\ Len(f) = Len(b)
    /\ \A i \in 1..Len(f) : \A name \in f[i] : Anchored(i, name)

EngineInv ==
    /\ Recorded(bars, flags)
    /\ \A side \in Sides :
           /\ background[side] # NoLeg
                  => LegStands(bars, flags, side, background[side], Len(bars))
           /\ test[side] # NoTest => TestStands(bars, flags, side, test[side])
    /\ \A s \in setups : Sequence(bars, flags, s)

LEMMA SequencesHold == EngineInv => SetupsAreSequences
<1>. SUFFICES ASSUME EngineInv, NEW s \in setups PROVE IsSequence(s)
    BY DEF SetupsAreSequences
<1>. DEFINE p == s.test.primary.at
            t == s.test.at
<1>1. Sequence(bars, flags, s)
    BY DEF EngineInv
<1>2. 0 < p /\ p < t /\ t < s.at /\ p \in Nat /\ t \in Nat /\ s.at \in Nat
    BY <1>1 DEF Sequence, LegStands, EngineInv, Recorded
<1>3. ASSUME NEW j \in (p + 1)..s.at
      PROVE  /\ flags[j] \intersect Primaries(Other(s.side)) = {}
             /\ ~Breaks(bars[j], s.side, IF j <= t THEN s.test.primary.level ELSE s.test.stop)
    <2>1. CASE j <= t
        <3>1. j \in (p + 1)..t
            BY <1>2, <2>1
        <3>. QED BY <1>1, <2>1, <3>1 DEF Sequence, LegStands, Unspoiled
    <2>2. CASE ~(j <= t)
        <3>1. j \in (t + 1)..s.at
            BY <1>2, <2>2
        <3>. QED BY <1>1, <2>2, <3>1 DEF Sequence, Unspoiled
    <2>. QED BY <2>1, <2>2
<1>. QED BY <1>1, <1>2, <1>3 DEF IsSequence, Sequence, LegStands

---------------------------------------------------------------------------
(* One session more. *)

\* The series b with the signals f is the present one and one bar more.
Extended(b, f) ==
    /\ Recorded(b, f)
    /\ Len(b) = Len(bars) + 1
    /\ \A j \in 1..Len(bars) : b[j] = bars[j] /\ f[j] = flags[j]

LEMMA LegsCarryOver ==
    ASSUME Recorded(bars, flags), NEW b, NEW f, Extended(b, f), NEW side, NEW leg,
           NEW to \in 1..Len(bars), LegStands(bars, flags, side, leg, to)
    PROVE  LegStands(b, f, side, leg, to)
<1>1. leg.at \in 1..Len(bars) /\ \A j \in (leg.at + 1)..to : j \in 1..Len(bars)
    BY DEF LegStands, Recorded
<1>2. Unspoiled(b, f, side, leg.level, leg.at, to)
    BY <1>1 DEF LegStands, Unspoiled, Extended
<1>. QED BY <1>1, <1>2 DEF LegStands, Extended

\* What stood is still there after a bar that does not spoil it.
LEMMA UnspoiledByOneMore ==
    ASSUME Recorded(bars, flags), NEW b, NEW f, Extended(b, f), NEW side, NEW level,
           NEW from \in 1..Len(bars),
           Unspoiled(bars, flags, side, level, from, Len(bars)),
           ~Spoiled(b[Len(b)], f[Len(b)], side, level)
    PROVE  Unspoiled(b, f, side, level, from, Len(b))
<1>. SUFFICES ASSUME NEW j \in (from + 1)..Len(b)
              PROVE  f[j] \intersect Primaries(Other(side)) = {} /\ ~Breaks(b[j], side, level)
    BY DEF Unspoiled
<1>0. Len(bars) \in Nat /\ Len(b) = Len(bars) + 1
    BY DEF Recorded, Extended
<1>1. CASE j = Len(b)
    BY <1>1 DEF Spoiled
<1>2. CASE j # Len(b)
    <2>1. j \in (from + 1)..Len(bars) /\ j \in 1..Len(bars)
        BY <1>0, <1>2
    <2>. QED BY <2>1 DEF Unspoiled, Extended
<1>. QED BY <1>1, <1>2

LEMMA StandingStands ==
    ASSUME EngineInv, NEW b, NEW f, Extended(b, f), NEW side \in Sides,
           Standing(b, f[Len(b)], side) # NoLeg
    PROVE  /\ LegStands(b, f, side, Standing(b, f[Len(b)], side), Len(b))
           /\ Standing(b, f[Len(b)], side).at \in 1..Len(bars)
<1>. DEFINE leg == background[side]
<1>0. Len(bars) \in Nat /\ Len(b) = Len(bars) + 1
    BY DEF EngineInv, Recorded, Extended
<1>1. /\ Standing(b, f[Len(b)], side) = leg /\ leg # NoLeg
      /\ ~Spoiled(b[Len(b)], f[Len(b)], side, leg.level)
    BY DEF Standing
<1>2. LegStands(bars, flags, side, leg, Len(bars)) /\ leg.at \in 1..Len(bars)
    BY <1>1 DEF EngineInv, LegStands
<1>. HIDE DEF leg
<1>3. Unspoiled(b, f, side, leg.level, leg.at, Len(b))
    BY <1>1, <1>2, UnspoiledByOneMore DEF EngineInv, LegStands
<1>4. LegStands(b, f, side, leg, Len(b))
    <2>1. leg.name \in f[leg.at] \intersect Primaries(side)
        BY <1>2 DEF Extended, LegStands
    <2>. QED BY <1>0, <1>2, <1>3, <2>1 DEF LegStands
<1>. QED BY <1>1, <1>2, <1>4

LEMMA NewBackgroundStands ==
    ASSUME EngineInv, NEW b, NEW f, Extended(b, f), NEW side \in Sides,
           NewBackground(b, f[Len(b)], side) # NoLeg
    PROVE  LegStands(b, f, side, NewBackground(b, f[Len(b)], side), Len(b))
<1>. DEFINE i == Len(b)
            found == f[i] \intersect Primaries(side)
            name == CHOOSE n \in found : \A m \in found : Precedence[n] <= Precedence[m]
<1>0. Len(bars) \in Nat /\ i = Len(bars) + 1 /\ i \in 1..Len(b) /\ b \in Seq(Bar)
      /\ i \in 1..Len(f)
    BY DEF EngineInv, Recorded, Extended
<1>1. CASE found = {}
    BY <1>1, StandingStands DEF NewBackground
<1>2. CASE found # {}
    <2>1. name \in found
        <3>1. found \in SUBSET (Strength \union Weakness)
            BY DEF Primaries
        <3>. QED BY <1>2, <3>1, SomeNameComesFirst
    <2>. DEFINE leg == [at |-> i, level |-> Level(b, name, i, side), name |-> name]
    <2>2. NewBackground(b, f[Len(b)], side) = leg
        BY <1>2 DEF NewBackground
    <2>. HIDE DEF name
    <2>3. Anchored(i, name)
        BY <1>0, <2>1 DEF Extended, Recorded
    <2>4. Level(b, name, i, side) \in Int
        BY <1>0, <2>3, LevelIsPrice
    <2>5. leg.at = i /\ leg.level = Level(b, name, i, side) /\ leg.name = name
        OBVIOUS
    <2>. HIDE DEF leg, i
    <2>6. Unspoiled(b, f, side, leg.level, leg.at, i)
        BY <1>0, <2>5 DEF Unspoiled
    <2>7. LegStands(b, f, side, leg, i)
        <3>1. leg.at \in 1..i
            BY <1>0, <2>5
        <3>. QED BY <2>1, <2>4, <2>5, <2>6, <3>1 DEF LegStands
    <2>. QED BY <2>2, <2>7 DEF i
<1>. QED BY <1>1, <1>2

\* The stop of a test is a price, and no price since the primary is beyond it.
LEMMA StopIsWorst ==
    ASSUME EngineInv, NEW b, NEW f, Extended(b, f), NEW side \in Sides, NEW leg,
           LegStands(b, f, side, leg, Len(b)), leg.at \in 1..Len(bars)
    PROVE  /\ StopOf(b, side, leg) \in Int
           /\ \A j \in leg.at..Len(b) : ~Beyond(side, StopOf(b, side, leg), Adverse(b[j], side))
<1>. DEFINE onwards == {Adverse(b[j], side) : j \in leg.at..Len(b)}
            pivot == {Adverse(b[leg.at - PivotRight], side) :
                         n \in flags[leg.at] \intersect {"wfo_bullish", "wfo_bearish"}
                                   \intersect Primaries(side)}
            prices == onwards \union {leg.level} \union pivot
<1>. USE EngineAssumption
<1>0. /\ Len(bars) \in Nat /\ Len(b) = Len(bars) + 1 /\ b \in Seq(Bar)
      /\ leg.at \in 1..Len(b) /\ leg.at \in Int /\ Len(b) \in Int
      /\ Len(flags) = Len(bars)
    BY DEF EngineInv, Recorded, Extended
<1>1. onwards \in SUBSET Int
    <2>1. \A j \in leg.at..Len(b) : j \in 1..Len(b)
        BY <1>0
    <2>. QED BY <1>0, <2>1, AdverseIsPrice
<1>2. pivot \in SUBSET Int
    <2>. SUFFICES ASSUME NEW n \in flags[leg.at], n \in OfPivot
                  PROVE  Adverse(b[leg.at - PivotRight], side) \in Int
        BY DEF OfPivot
    <2>1. Anchored(leg.at, n)
        BY <1>0 DEF EngineInv, Recorded
    <2>a. PivotRight \in Nat /\ leg.at > PivotRight
        BY <2>1 DEF Anchored
    <2>b. \A a, last \in Int, r \in Nat : a \in 1..last /\ a > r => a - r \in 1..last
        OBVIOUS
    <2>2. leg.at - PivotRight \in 1..Len(b)
        BY <1>0, <2>a, <2>b
    <2>. QED BY <1>0, <2>2, AdverseIsPrice
<1>3. IsFiniteSet(onwards)
    <2>1. IsFiniteSet(leg.at..Len(b))
        BY <1>0, FS_Interval
    <2>2. [j \in leg.at..Len(b) |-> Adverse(b[j], side)] \in Surjection(leg.at..Len(b), onwards)
        BY DEF Surjection
    <2>. QED BY <2>1, <2>2, FS_Surjection
<1>4. IsFiniteSet({leg.level}) /\ leg.level \in Int
    BY FS_Singleton DEF LegStands
<1>5. IsFiniteSet(pivot)
    <2>. DEFINE one == {Adverse(b[leg.at - PivotRight], side)}
    <2>1. pivot \subseteq one
        OBVIOUS
    <2>2. IsFiniteSet(one)
        BY FS_Singleton
    <2>. HIDE DEF pivot, one
    <2>. QED BY <2>1, <2>2, FS_Subset
<1>6. StopOf(b, side, leg) = Worst(side, prices)
    BY DEF StopOf
<1>7. \A j \in leg.at..Len(b) : Adverse(b[j], side) \in prices
    OBVIOUS
<1>. HIDE DEF onwards, pivot
<1>8. IsFiniteSet(prices)
    BY <1>3, <1>4, <1>5, FS_Union
<1>9. prices \in SUBSET Int /\ prices # {}
    BY <1>1, <1>2, <1>4
<1>. HIDE DEF prices
<1>10. Worst(side, prices) \in prices /\ \A x \in prices : ~Beyond(side, Worst(side, prices), x)
    BY <1>8, <1>9, WorstIsOne
<1>. QED BY <1>6, <1>7, <1>9, <1>10

\* A test in time for the present close still stands on it.
LEMMA InTimeStands ==
    ASSUME EngineInv, NEW b, NEW f, Extended(b, f), NEW side \in Sides,
           InTime(b, f[Len(b)], side)
    PROVE  TestStands(b, f, side, test[side]) /\ test[side].at \in 1..Len(bars)
<1>. DEFINE x == test[side]
<1>0. Len(bars) \in Nat /\ Len(b) = Len(bars) + 1
    BY DEF EngineInv, Recorded, Extended
<1>1. /\ TestStands(bars, flags, side, x)
      /\ ~Spoiled(b[Len(b)], f[Len(b)], side, x.stop)
    BY DEF InTime, EngineInv
<1>. HIDE DEF x
<1>2. x.at \in 1..Len(bars) /\ x.primary.at \in 1..x.at
    BY <1>1 DEF TestStands, LegStands
<1>3. Unspoiled(b, f, side, x.stop, x.at, Len(b))
    BY <1>1, <1>2, UnspoiledByOneMore DEF EngineInv, TestStands
<1>4. LegStands(b, f, side, x.primary, x.at)
    BY <1>1, <1>2, LegsCarryOver DEF EngineInv, TestStands
<1>5. /\ b[x.at] = bars[x.at] /\ f[x.at] = flags[x.at]
      /\ \A j \in x.primary.at..x.at : b[j] = bars[j]
    <2>1. \A j \in x.primary.at..x.at : j \in 1..Len(bars)
        BY <1>0, <1>2
    <2>. QED BY <1>2, <2>1 DEF Extended
<1>6. x.at \in 1..Len(b)
    BY <1>0, <1>2
<1>7. TestStands(b, f, side, x)
    BY <1>1, <1>3, <1>4, <1>5, <1>6 DEF TestStands
<1>. QED BY <1>2, <1>7 DEF x

LEMMA NewTestStands ==
    ASSUME EngineInv, NEW b, NEW f, Extended(b, f), NEW side \in Sides,
           NewTest(b, f[Len(b)], side) # NoTest
    PROVE  TestStands(b, f, side, NewTest(b, f[Len(b)], side))
<1>. DEFINE i == Len(b)
            now == f[i]
            leg == Standing(b, now, side)
            fresh == /\ now \intersect Tests(side) # {}
                     /\ leg # NoLeg
                     /\ i - leg.at <= SequenceWindow
<1>0. Len(bars) \in Nat /\ i = Len(bars) + 1
    BY DEF EngineInv, Recorded, Extended
<1>1. CASE fresh
    <2>. DEFINE x == [at |-> i, edge |-> Adverse(b[i], Other(side)), volume |-> b[i].volume,
                      stop |-> StopOf(b, side, leg), primary |-> leg,
                      name |-> IF "no_supply" \in now \/ side = "short"
                               THEN IF side = "long" THEN "no_supply" ELSE "no_demand"
                               ELSE "test"]
    <2>1. NewTest(b, now, side) = x
        BY <1>1 DEF NewTest
    <2>2. LegStands(b, f, side, leg, i) /\ leg.at \in 1..Len(bars)
        BY <1>1, StandingStands
    <2>3. x.name \in now \intersect Tests(side)
        BY <1>1 DEF Tests, Sides
    <2>. HIDE DEF leg
    <2>4. /\ StopOf(b, side, leg) \in Int
          /\ \A j \in leg.at..i : ~Beyond(side, StopOf(b, side, leg), Adverse(b[j], side))
        BY <2>2, StopIsWorst
    <2>5. /\ x.at = i /\ x.primary = leg /\ x.stop = StopOf(b, side, leg)
          /\ x.edge = Adverse(b[i], Other(side))
        OBVIOUS
    <2>. HIDE DEF x
    <2>6. Unspoiled(b, f, side, x.stop, x.at, i)
        BY <1>0, <2>5 DEF Unspoiled
    <2>7. x.at \in 1..i /\ x.primary.at < x.at
        BY <1>0, <2>2, <2>5
    <2>8. x.at - x.primary.at <= SequenceWindow
        BY <1>1, <2>5
    <2>9. TestStands(b, f, side, x)
        BY <2>2, <2>3, <2>4, <2>5, <2>6, <2>7, <2>8 DEF TestStands
    <2>. QED BY <2>1, <2>9
<1>2. CASE ~fresh
    <2>1. NewTest(b, now, side) = test[side] /\ InTime(b, now, side)
        BY <1>2 DEF NewTest
    <2>. QED BY <2>1, InTimeStands
<1>. QED BY <1>1, <1>2

LEMMA SetupIsSequence ==
    ASSUME EngineInv, NEW b, NEW f, Extended(b, f), NEW side \in Sides,
           Confirms(b, f[Len(b)], side)
    PROVE  Sequence(b, f, Setup(b, side))
<1>. DEFINE s == Setup(b, side)
            i == Len(b)
            x == test[side]
<1>0. Len(bars) \in Nat /\ i = Len(bars) + 1
    BY DEF EngineInv, Recorded, Extended
<1>1. s.side = side /\ s.at = i /\ s.test = x
    BY DEF Setup
<1>2. /\ InTime(b, f[i], side)
      /\ Beyond(side, b[i].close, x.edge)
      /\ i - x.at <= ConfirmationWindow
    BY DEF Confirms, InTime
<1>3. TestStands(b, f, side, x) /\ x.at \in 1..Len(bars)
    BY <1>2, InTimeStands
<1>. HIDE DEF s, x
<1>4. x.at \in 1..(i - 1) /\ i \in 1..i
    BY <1>0, <1>3
<1>5. /\ LegStands(b, f, side, x.primary, x.at)
      /\ x.primary.at < x.at
      /\ x.at - x.primary.at <= SequenceWindow
      /\ x.name \in f[x.at] \intersect Tests(side)
      /\ \A j \in x.primary.at..x.at : ~Beyond(side, x.stop, Adverse(b[j], side))
      /\ Unspoiled(b, f, side, x.stop, x.at, i)
      /\ Beyond(side, b[i].close, Adverse(b[x.at], Other(side)))
    BY <1>2, <1>3 DEF TestStands
<1>. HIDE DEF i
<1>6. Sequence(b, f, s)
    BY <1>1, <1>2, <1>4, <1>5 DEF Sequence, i
<1>. QED BY <1>6 DEF s

LEMMA SequencesCarryOver ==
    ASSUME EngineInv, NEW b, NEW f, Extended(b, f), NEW s \in setups
    PROVE  Sequence(b, f, s)
<1>. DEFINE p == s.test.primary.at
            t == s.test.at
<1>0. Len(bars) \in Nat /\ Len(b) = Len(bars) + 1
    BY DEF EngineInv, Recorded, Extended
<1>1. Sequence(bars, flags, s)
    BY DEF EngineInv
<1>2. s.at \in 1..Len(bars) /\ t \in 1..Len(bars) /\ p \in 1..t
    BY <1>0, <1>1 DEF Sequence, LegStands
<1>3. LegStands(b, f, s.side, s.test.primary, t)
    BY <1>1, <1>2, LegsCarryOver DEF EngineInv, Sequence
<1>4. /\ b[t] = bars[t] /\ f[t] = flags[t] /\ b[s.at] = bars[s.at]
      /\ \A j \in p..t : b[j] = bars[j]
      /\ \A j \in (t + 1)..s.at : b[j] = bars[j] /\ f[j] = flags[j]
    <2>1. /\ \A j \in p..t : j \in 1..Len(bars)
          /\ \A j \in (t + 1)..s.at : j \in 1..Len(bars)
        BY <1>0, <1>2
    <2>. QED BY <1>2, <2>1 DEF Extended
<1>5. Unspoiled(b, f, s.side, s.test.stop, t, s.at)
    BY <1>1, <1>4 DEF Sequence, Unspoiled
<1>6. s.at \in 1..Len(b)
    BY <1>0, <1>2
<1>. QED BY <1>1, <1>3, <1>4, <1>5, <1>6 DEF Sequence

---------------------------------------------------------------------------
(* The program. *)

\* A repaired session is a bar, and its prices lie within its range.
LEMMA RepairedIsBar ==
    ASSUME NEW last \in Int, NEW q \in Quotes
    PROVE  /\ Repaired(last, q) \in Bar
           /\ Repaired(last, q).low <= Repaired(last, q).open
           /\ Repaired(last, q).low <= Repaired(last, q).close
           /\ Repaired(last, q).open <= Repaired(last, q).high
           /\ Repaired(last, q).close <= Repaired(last, q).high
           /\ Repaired(last, q).volume >= 0
<1>. DEFINE open == last + q.open
            close == last + q.close
            highs == {last + q.high, open, close}
            lows == {last + q.low, open, close}
            volumes == {0, q.volume}
<1>0. /\ q.open \in Int /\ q.close \in Int /\ q.high \in Int /\ q.low \in Int
      /\ q.volume \in Int
    BY DEF Quotes
<1>1. /\ highs \in SUBSET Int /\ lows \in SUBSET Int /\ volumes \in SUBSET Int
      /\ open \in highs /\ close \in highs /\ open \in lows /\ close \in lows
      /\ 0 \in volumes /\ open \in Int /\ close \in Int
    BY <1>0
<1>2. IsFiniteSet(highs) /\ IsFiniteSet(lows) /\ IsFiniteSet(volumes)
    BY FewAreFinite
<1>3. Repaired(last, q) = [open |-> open, close |-> close, high |-> Max(highs),
                           low |-> Min(lows), volume |-> Max(volumes)]
    BY DEF Repaired
<1>. HIDE DEF open, close, highs, lows, volumes
<1>4. Max(highs) \in highs /\ \A x \in highs : x <= Max(highs)
    BY <1>1, <1>2, Highest
<1>5. Max(volumes) \in volumes /\ \A x \in volumes : x <= Max(volumes)
    BY <1>1, <1>2, Highest
<1>6. Min(lows) \in lows /\ \A x \in lows : Min(lows) <= x
    BY <1>1, <1>2, Lowest
<1>7. /\ Max(highs) \in Int /\ Max(volumes) \in Int /\ Min(lows) \in Int
      /\ Max(volumes) >= 0
    BY <1>1, <1>4, <1>5, <1>6
<1>. QED BY <1>1, <1>3, <1>4, <1>6, <1>7 DEF Bar

\* What a session does to the engine's series.
LEMMA CloseExtends ==
    ASSUME Recorded(bars, flags), NEW q \in Quotes, Close(q)
    PROVE  /\ Extended(bars', flags')
           /\ background' = [side \in Sides |-> NewBackground(bars', flags'[Len(bars')], side)]
           /\ test' = [side \in Sides |-> NewTest(bars', flags'[Len(bars')], side)]
           /\ setups' = setups \union
                 {Setup(bars', side) :
                     side \in {z \in Sides : Confirms(bars', flags'[Len(bars')], z)}}
<1>. DEFINE last == IF bars = <<>> THEN FirstClose ELSE bars[Len(bars)].close
            bar == Repaired(last, q)
            now == Candidates(bars', flags, Len(bars'))
<1>. USE EngineAssumption
<1>1. last \in Int
    <2>1. ASSUME bars # <<>> PROVE bars[Len(bars)] \in Bar
        BY <2>1 DEF Recorded
    <2>2. \A x \in Bar : x.close \in Int
        BY DEF Bar
    <2>. QED BY <2>1, <2>2
<1>2. bar \in Bar
    BY <1>1, RepairedIsBar
<1>3. /\ bars' = Append(bars, bar)
      /\ flags' = Append(flags, now)
      /\ background' = [side \in Sides |-> NewBackground(bars', now, side)]
      /\ test' = [side \in Sides |-> NewTest(bars', now, side)]
      /\ setups' = setups \union
            {Setup(bars', side) : side \in {z \in Sides : Confirms(bars', now, z)}}
    BY DEF Close
<1>. HIDE DEF bar
<1>4. /\ Len(bars) \in Nat /\ Len(bars') = Len(bars) + 1 /\ bars' \in Seq(Bar)
      /\ \A j \in 1..Len(bars) : bars'[j] = bars[j]
    BY <1>2, <1>3 DEF Recorded
<1>5. now \in SUBSET Names /\ \A name \in now : Anchored(Len(bars'), name)
    BY <1>4, CandidatesAreNames, CandidatesAreAnchored
<1>. HIDE DEF now
<1>6. /\ flags' \in Seq(SUBSET Names) /\ Len(flags') = Len(bars')
      /\ \A j \in 1..Len(bars) : flags'[j] = flags[j]
      /\ flags'[Len(bars')] = now
    BY <1>3, <1>4, <1>5 DEF Recorded
<1>7. ASSUME NEW i \in 1..Len(flags'), NEW name \in flags'[i] PROVE Anchored(i, name)
    <2>1. CASE i = Len(bars')
        BY <1>5, <1>6, <1>7, <2>1
    <2>2. CASE i # Len(bars')
        <3>1. i \in 1..Len(flags) /\ flags'[i] = flags[i]
            BY <1>4, <1>6, <2>2 DEF Recorded
        <3>. QED BY <1>7, <3>1 DEF Recorded
    <2>. QED BY <2>1, <2>2
<1>8. Extended(bars', flags')
    BY <1>4, <1>6, <1>7 DEF Extended, Recorded
<1>. QED BY <1>3, <1>6, <1>8

LEMMA EngineStarts == EngineInit => EngineInv
<1>. SUFFICES ASSUME EngineInit PROVE EngineInv
    OBVIOUS
<1>1. Recorded(bars, flags)
    BY DEF EngineInit, Recorded
<1>. QED BY <1>1 DEF EngineInit, EngineInv

LEMMA CloseKeepsEngine ==
    ASSUME EngineInv, NEW q \in Quotes, Close(q)
    PROVE  EngineInv'
<1>. DEFINE b == bars'
            f == flags'
<1>1. Recorded(bars, flags)
    BY DEF EngineInv
<1>2. /\ Extended(b, f)
      /\ background' = [side \in Sides |-> NewBackground(b, f[Len(b)], side)]
      /\ test' = [side \in Sides |-> NewTest(b, f[Len(b)], side)]
      /\ setups' = setups \union
            {Setup(b, side) : side \in {z \in Sides : Confirms(b, f[Len(b)], z)}}
    BY <1>1, CloseExtends
<1>3. Recorded(b, f)
    BY <1>2 DEF Extended
<1>. HIDE DEF b, f
<1>4. ASSUME NEW side \in Sides, background'[side] # NoLeg
      PROVE  LegStands(b, f, side, background'[side], Len(b))
    BY <1>2, <1>4, NewBackgroundStands
<1>5. ASSUME NEW side \in Sides, test'[side] # NoTest
      PROVE  TestStands(b, f, side, test'[side])
    BY <1>2, <1>5, NewTestStands
<1>6. ASSUME NEW s \in setups' PROVE Sequence(b, f, s)
    BY <1>2, SetupIsSequence, SequencesCarryOver
<1>. QED BY <1>3, <1>4, <1>5, <1>6 DEF EngineInv, b, f

\* A confirmed setup is a whole, unbroken sequence, for any sessions, any tick and
\* windows of any length.
THEOREM ConfirmedSetupsAreSequences == EngineSpec => []SetupsAreSequences
<1>1. EngineInit => EngineInv
    BY EngineStarts
<1>2. EngineInv /\ [\E q \in Quotes : Close(q)]_engineVars => EngineInv'
    <2>1. ASSUME EngineInv, UNCHANGED engineVars PROVE EngineInv'
        BY <2>1 DEF EngineInv, engineVars, Recorded
    <2>. QED BY <2>1, CloseKeepsEngine
<1>3. EngineInv => SetupsAreSequences
    BY SequencesHold
<1>. QED BY <1>1, <1>2, <1>3, PTL DEF EngineSpec

---------------------------------------------------------------------------
(* Trading the setups. *)

\* Every bar's open and close lie within its range.
Ranged(b) ==
    \A i \in 1..Len(b) : /\ b[i].low <= b[i].open /\ b[i].open <= b[i].high
                         /\ b[i].low <= b[i].close /\ b[i].close <= b[i].high

Held == [side : Sides, setup : Nat, entered : Nat, entry : Int, stop : Int, target : Int]
Reasons == {"none", "stop_gap_open", "take_profit_gap_open", "stop", "take_profit"}
Deal == [of : Held, left : Nat, reason : Reasons, price : Int, net : Int]

\* The position p is a setup of S, entered at the open after it, short of its stop.
Opened(b, S, p) ==
    \E s \in S : /\ s.at + 1 \in 1..Len(b)
                 /\ p = Position(b, s.at + 1, s)
                 /\ Beyond(s.side, b[s.at + 1].open, s.stop)

\* A trade was opened, and left on a bar that made it leave.
ClosedTrade(b, S, t) ==
    /\ Opened(b, S, t.of)
    /\ t.left \in t.of.entered..Len(b)
    /\ ExitOn(b[t.left], t.of).reason # "none"

\* A side has one setup a session.
SetupsInv ==
    /\ \A s \in setups : s.stop \in Int
    /\ \A s, t \in setups : s.side = t.side /\ s.at = t.at => s = t

Cost(p) == IF p = NoPosition THEN 0 ELSE Commission
Nets == [k \in DOMAIN trades |-> trades[k].net]

AccountInv ==
    /\ Ranged(bars)
    /\ SetupsInv
    /\ position # NoPosition => Opened(bars, setups, position)
    /\ queued # NoEntry => queued \in setups /\ queued.at = Len(bars)
    /\ trades \in Seq(Deal)
    /\ \A k \in 1..Len(trades) : ClosedTrade(bars, setups, trades[k])
    /\ \A k \in 2..Len(trades) : trades[k - 1].left < trades[k].of.entered
    /\ position # NoPosition /\ Len(trades) > 0 => trades[Len(trades)].left < position.entered
    /\ cash = InitialCapital + SumFunction(Nets) - Cost(position)

\* What a setup has of its own.
LEMMA SetupsAreOfTheSeries ==
    ASSUME EngineInv, SetupsInv, NEW s \in setups
    PROVE  s.side \in Sides /\ s.at \in 1..Len(bars) /\ s.stop \in Int /\ s.at \in Nat
BY DEF EngineInv, SetupsInv, Sequence, Recorded

LEMMA PositionIsHeld ==
    ASSUME NEW b \in Seq(Bar), NEW i \in 1..Len(b), NEW s,
           s.side \in Sides, s.at \in Nat, s.stop \in Int
    PROVE  /\ Position(b, i, s) \in Held
           /\ Position(b, i, s) # NoPosition
           /\ Position(b, i, s).side = s.side /\ Position(b, i, s).setup = s.at
           /\ Position(b, i, s).entered = i /\ Position(b, i, s).stop = s.stop
<1>. DEFINE entry == Filled(b[i].open, Other(s.side))
            distance == Sign(s.side) * (entry - s.stop)
            target == entry + Sign(s.side) * distance * RewardRisk
<1>1. b[i].open \in Int /\ i \in Nat /\ RewardRisk \in Int /\ Slippage \in Int
    <2>1. b[i] \in Bar /\ i \in Nat
        OBVIOUS
    <2>2. RewardRisk \in Nat /\ Slippage \in Nat
        BY TradingAssumption
    <2>3. b[i].open \in Int
        BY <2>1 DEF Bar
    <2>. QED BY <2>1, <2>2, <2>3
<1>2. Sign(s.side) \in Int /\ Sign(Other(s.side)) \in Int
    BY DEF Sign, Other
<1>3. entry \in Int
    BY <1>1, <1>2 DEF Filled
<1>4. distance \in Int
    BY <1>2, <1>3
<1>5. target \in Int
    BY <1>1, <1>2, <1>3, <1>4
<1>6. Position(b, i, s) = [side |-> s.side, setup |-> s.at, entered |-> i, entry |-> entry,
                           stop |-> s.stop, target |-> target]
    BY DEF Position
<1>. HIDE DEF entry, distance, target
<1>7. Position(b, i, s) \in Held
    BY <1>1, <1>3, <1>5, <1>6 DEF Held
<1>8. Position(b, i, s).side = s.side
    BY <1>6
<1>9. Position(b, i, s) # NoPosition
    <2>1. NoPosition.side = "none" /\ "none" \notin Sides
        BY DEF NoPosition, Sides
    <2>. QED BY <1>8, <2>1
<1>. QED BY <1>6, <1>7, <1>9

\* A target seen from the open and from the slipped entry.
LEMMA Slipped ==
    /\ \A open, stop, slip, times \in Int :
          (open + slip - stop) * times = times * (open - stop) + times * slip
    /\ \A open, slip \in Int : open - 1 * slip = open - slip /\ open - slip \in Int
    /\ \A open, stop, slip \in Int : (open - slip) - stop = -(stop - open + slip)
    OBVIOUS

\* What the page calls live has not been left by the program: a bar that touches
\* neither the stop nor the page's target gives a position of that setup no exit, as
\* its own target lies no nearer.
LEMMA UntouchedStaysOpen ==
    ASSUME NEW b \in Seq(Bar), Ranged(b), NEW i \in 1..Len(b), NEW j \in 1..Len(b),
           NEW s, s.side \in Sides, s.at \in Nat, s.stop \in Int,
           ~Hits(b[j], s.side, s.stop),
           ~Reaches(b[j], s.side, b[i].open + RewardRisk * (b[i].open - s.stop))
    PROVE  ExitOn(b[j], Position(b, i, s)).reason = "none"
<1>. DEFINE p == Position(b, i, s)
            open == b[i].open
            near == open + RewardRisk * (open - s.stop)
<1>. USE TradingAssumption
<1>1. b[i] \in Bar /\ b[j] \in Bar
    OBVIOUS
<1>2. /\ open \in Int /\ b[j].open \in Int /\ b[j].low \in Int /\ b[j].high \in Int
      /\ RewardRisk \in Nat /\ Slippage \in Nat
    BY <1>1 DEF Bar
<1>3. p.side = s.side /\ p.stop = s.stop /\ p.target \in Int
    <2>1. p \in Held
        BY PositionIsHeld
    <2>. QED BY <2>1, PositionIsHeld DEF Held
<1>4. b[j].low <= b[j].open /\ b[j].open <= b[j].high
    BY DEF Ranged
<1>. DEFINE gain == RewardRisk * (open - s.stop)
            more == RewardRisk * Slippage
<1>5. gain \in Int /\ more \in Nat
    BY <1>2
<1>6. CASE s.side = "long"
    <2>1. p.target = (open + Slippage) + (open + Slippage - s.stop) * RewardRisk
        BY <1>2, <1>6 DEF Position, Filled, Sign, Other
    <2>2. (open + Slippage - s.stop) * RewardRisk = gain + more
        <3>1. open \in Int /\ s.stop \in Int /\ Slippage \in Int /\ RewardRisk \in Int
            BY <1>2
        <3>. HIDE DEF open, p, near
        <3>. QED BY <3>1, Slipped
    <2>3. ~(b[j].low <= s.stop) /\ ~(b[j].high >= near) /\ near = open + gain
        BY <1>6 DEF Hits, Reaches
    <2>. HIDE DEF p, near, gain, more, open
    <2>4. p.target >= near /\ near \in Int
        BY <1>2, <1>5, <2>1, <2>2, <2>3
    <2>5. b[j].open > s.stop
        BY <1>2, <1>4, <2>3
    <2>6. ~(b[j].high >= p.target)
        BY <1>2, <1>3, <2>3, <2>4
    <2>7. p.target > b[j].open
        BY <1>2, <1>3, <1>4, <2>6
    <2>8. ExitOn(b[j], p).reason = "none"
        BY <1>3, <1>6, <2>3, <2>5, <2>6, <2>7 DEF ExitOn, Beyond, Hits, Reaches
    <2>. QED BY <2>8 DEF p
<1>7. CASE s.side = "short"
    <2>1. p.target = (open - Slippage) - (s.stop - open + Slippage) * RewardRisk
        <3>1. Sign(s.side) = -1 /\ Sign(Other(s.side)) = 1
            BY <1>7 DEF Sign, Other
        <3>. DEFINE entry == Filled(b[i].open, Other(s.side))
        <3>2. p.target = entry + Sign(s.side) * (Sign(s.side) * (entry - s.stop)) * RewardRisk
            BY DEF Position
        <3>3. entry = open - Slippage /\ entry \in Int
            <4>1. open \in Int /\ Slippage \in Int
                BY <1>2
            <4>2. entry = open - 1 * Slippage
                BY <3>1 DEF Filled
            <4>. HIDE DEF entry, open, p, near
            <4>. QED BY <4>1, <4>2, Slipped
        <3>. HIDE DEF entry, p, open
        <3>4. ((-1) * ((-1) * (entry - s.stop))) * RewardRisk = -((s.stop - open + Slippage) * RewardRisk)
            <4>1. \A y \in Int : (-1) * ((-1) * y) = y
                BY SMT
            <4>2. \A x, r \in Int : (-x) * r = -(x * r)
                BY SMT
            <4>3. (-1) * ((-1) * (entry - s.stop)) = -(s.stop - open + Slippage)
                <5>0. open \in Int /\ s.stop \in Int /\ Slippage \in Int
                    BY <1>2
                <5>1. entry - s.stop \in Int /\ entry - s.stop = -(s.stop - open + Slippage)
                    <6>1. (open - Slippage) - s.stop = -(s.stop - open + Slippage)
                        BY <5>0, Slipped
                    <6>2. entry - s.stop = (open - Slippage) - s.stop /\ entry - s.stop \in Int
                        BY <3>3, <5>0
                    <6>. QED BY <6>1, <6>2
                <5>. QED BY <4>1, <5>1
            <4>4. s.stop - open + Slippage \in Int
                BY <1>2
            <4>5. (-(s.stop - open + Slippage)) * RewardRisk
                      = -((s.stop - open + Slippage) * RewardRisk)
                BY <1>2, <4>2, <4>4
            <4>. QED BY <4>3, <4>5
        <3>. QED BY <1>2, <3>1, <3>2, <3>3, <3>4
    <2>2. (s.stop - open + Slippage) * RewardRisk = more - gain
        BY <1>2
    <2>3. ~(b[j].high >= s.stop) /\ ~(b[j].low <= near) /\ near = open + gain
        BY <1>7 DEF Hits, Reaches
    <2>. HIDE DEF p, near, gain, more, open
    <2>4. p.target <= near /\ near \in Int
        BY <1>2, <1>5, <2>1, <2>2, <2>3
    <2>5. b[j].open < s.stop
        BY <1>2, <1>4, <2>3
    <2>6. ~(b[j].low <= p.target)
        BY <1>2, <1>3, <2>3, <2>4
    <2>7. p.target < b[j].open
        BY <1>2, <1>3, <1>4, <2>6
    <2>8. ExitOn(b[j], p).reason = "none"
        BY <1>3, <1>7, <2>3, <2>5, <2>6, <2>7 DEF ExitOn, Beyond, Hits, Reaches
    <2>. QED BY <2>8 DEF p
<1>. QED BY <1>6, <1>7 DEF Sides

LEMMA LiveTradesAreOpen == EngineInv /\ AccountInv => LiveIsStillOpen
<1>. SUFFICES ASSUME EngineInv, AccountInv, NEW side \in Sides,
                     Score = (IF side = "long" THEN 85 ELSE 5),
                     NEW s \in Newest(side), NEW k \in DOMAIN trades,
                     trades[k].of.setup = s.at, trades[k].of.side = side
              PROVE  FALSE
    BY DEF LiveIsStillOpen
<1>1. Live(side)
    BY DEF Score, Sides
<1>2. PICK live \in Newest(side) : TradeLive(live)
    BY <1>1 DEF Live
<1>3. live \in setups /\ s \in setups /\ live.side = side /\ s.side = side
    BY DEF Newest
<1>4. /\ live.side \in Sides /\ live.at \in 1..Len(bars) /\ live.stop \in Int /\ live.at \in Nat
      /\ s.at \in Nat
    BY <1>3, SetupsAreOfTheSeries DEF AccountInv
<1>5. live.at = s.at
    <2>1. live.at <= s.at /\ s.at <= live.at
        BY <1>3 DEF Newest
    <2>. QED BY <1>4, <2>1
<1>6. k \in 1..Len(trades) /\ ClosedTrade(bars, setups, trades[k])
    BY DEF AccountInv
<1>7. PICK u \in setups : /\ u.at + 1 \in 1..Len(bars)
                          /\ trades[k].of = Position(bars, u.at + 1, u)
    BY <1>6 DEF ClosedTrade, Opened
<1>8. bars \in Seq(Bar) /\ Ranged(bars) /\ Len(bars) \in Nat
    BY DEF EngineInv, Recorded, AccountInv
<1>9. /\ trades[k].of.side = u.side /\ trades[k].of.setup = u.at
      /\ trades[k].of.entered = u.at + 1
    BY <1>7, <1>8, PositionIsHeld, SetupsAreOfTheSeries DEF AccountInv
<1>10. u = live
    BY <1>3, <1>5, <1>9 DEF AccountInv, SetupsInv
<1>. DEFINE j == trades[k].left
<1>11. j \in (live.at + 1)..Len(bars) /\ j \in 1..Len(bars) /\ live.at + 1 \in 1..Len(bars)
    BY <1>4, <1>6, <1>7, <1>8, <1>9, <1>10 DEF ClosedTrade
<1>12. /\ ~Hits(bars[j], live.side, live.stop)
       /\ ~Reaches(bars[j], live.side,
                   bars[live.at + 1].open + RewardRisk * (bars[live.at + 1].open - live.stop))
    BY <1>2, <1>11 DEF TradeLive, Watched, Today
<1>13. ExitOn(bars[j], Position(bars, live.at + 1, live)).reason = "none"
    BY <1>4, <1>8, <1>11, <1>12, UntouchedStaysOpen
<1>. QED BY <1>6, <1>7, <1>10, <1>13 DEF ClosedTrade

\* The account adds up, and every trade follows its setup and the trade before it.
LEMMA AccountsAddUp == EngineInv /\ AccountInv => AccountAddsUp
<1>. SUFFICES ASSUME EngineInv, AccountInv PROVE AccountAddsUp
    OBVIOUS
<1>. DEFINE opened == [k \in DOMAIN trades |-> trades[k].of]
            all == IF position = NoPosition THEN opened ELSE Append(opened, position)
            n == Len(trades)
<1>0. /\ n \in Nat /\ DOMAIN trades = 1..n /\ \A k \in 1..n : trades[k] \in Deal
      /\ bars \in Seq(Bar)
    BY DEF AccountInv, EngineInv, Recorded
<1>1. ASSUME NEW p, Opened(bars, setups, p)
      PROVE  /\ p \in Held
             /\ p.entered = p.setup + 1
             /\ \E s \in setups : s.at = p.setup /\ s.side = p.side
    <2>1. PICK s \in setups : s.at + 1 \in 1..Len(bars) /\ p = Position(bars, s.at + 1, s)
        BY <1>1 DEF Opened
    <2>2. s.side \in Sides /\ s.at \in Nat /\ s.stop \in Int
        BY SetupsAreOfTheSeries DEF AccountInv
    <2>. QED BY <1>0, <2>1, <2>2, PositionIsHeld
<1>2. opened \in Seq(Held) /\ Len(opened) = n /\ \A k \in 1..n : opened[k] = trades[k].of
    <2>1. \A k \in 1..n : trades[k].of \in Held
        BY <1>0 DEF Deal
    <2>. QED BY <1>0, <2>1
<1>3. ASSUME NEW k \in DOMAIN all
      PROVE  /\ Opened(bars, setups, all[k])
             /\ k \in Int
             /\ k > 1 => trades[k - 1].left < all[k].entered
    <2>. HIDE DEF opened
    <2>1. CASE position = NoPosition
        <3>1. k \in 1..n /\ all[k] = trades[k].of /\ n \in Int
            BY <1>0, <1>2, <2>1
        <3>. HIDE DEF all, n
        <3>2. k > 1 => k \in 2..n
            BY <3>1
        <3>. QED BY <3>1, <3>2 DEF AccountInv, ClosedTrade, n
    <2>2. CASE position # NoPosition
        <3>0. Opened(bars, setups, position)
            BY <2>2 DEF AccountInv
        <3>1. /\ position \in Held /\ all = Append(opened, position)
            BY <1>1, <2>2, <3>0
        <3>2. /\ k \in 1..(n + 1) /\ all[n + 1] = position
              /\ \A m \in 1..n : all[m] = trades[m].of
            BY <1>0, <1>2, <3>1
        <3>. HIDE DEF all, n
        <3>3. CASE k = n + 1
            <4>1. k > 1 => n > 0 /\ k - 1 = n
                BY <1>0, <3>3
            <4>. QED BY <1>0, <2>2, <3>0, <3>2, <3>3, <4>1 DEF AccountInv, n
        <3>4. CASE k # n + 1
            <4>1. k \in 1..n /\ (k > 1 => k \in 2..n) /\ k \in Int
                BY <1>0, <3>2, <3>4
            <4>. QED BY <3>2, <4>1 DEF AccountInv, ClosedTrade, n
        <3>. QED BY <3>3, <3>4
    <2>. QED BY <2>1, <2>2
<1>4. cash = InitialCapital + SumFunction([k \in DOMAIN trades |-> trades[k].net])
                - (IF position = NoPosition THEN 0 ELSE Commission)
    BY DEF AccountInv, Nets, Cost
<1>5. \A k \in DOMAIN all :
          /\ all[k].entered = all[k].setup + 1
          /\ \E s \in setups : s.at = all[k].setup /\ s.side = all[k].side
          /\ k > 1 => trades[k - 1].left < all[k].entered
    <2>. HIDE DEF all
    <2>. QED BY <1>1, <1>3
<1>. HIDE DEF n
<1>. QED BY <1>4, <1>5 DEF AccountAddsUp

---------------------------------------------------------------------------
(* A session of trading. *)

LEMMA TrueRangeIsNumber ==
    ASSUME NEW b \in Seq(Bar), NEW i \in 1..Len(b)
    PROVE  TrueRange(b, i) \in Int
<1>. DEFINE up == Abs(b[i].high - b[i - 1].close)
            down == Abs(b[i].low - b[i - 1].close)
            three == {Spread(b, i), up, down}
<1>1. b[i].high \in Int /\ b[i].low \in Int
    <2>1. b[i] \in Bar
        OBVIOUS
    <2>. QED BY <2>1 DEF Bar
<1>2. Spread(b, i) \in Int
    BY <1>1 DEF Spread
<1>3. CASE i = 1
    BY <1>2, <1>3 DEF TrueRange
<1>4. CASE i # 1
    <2>1. b[i - 1].close \in Int
        <3>1. i - 1 \in 1..Len(b)
            BY <1>4
        <3>2. b[i - 1] \in Bar
            BY <3>1
        <3>. QED BY <3>2 DEF Bar
    <2>2. up \in Int /\ down \in Int
        BY <1>1, <2>1 DEF Abs
    <2>3. TrueRange(b, i) = Max(three)
        BY <1>4 DEF TrueRange
    <2>. HIDE DEF up, down
    <2>4. three \in SUBSET Int /\ three # {}
        BY <1>2, <2>2
    <2>5. IsFiniteSet(three)
        BY FewAreFinite
    <2>. HIDE DEF three
    <2>6. Max(three) \in three
        BY <2>4, <2>5, Highest
    <2>. QED BY <2>3, <2>4, <2>6
<1>. QED BY <1>3, <1>4

LEMMA SetupStopIsPrice ==
    ASSUME EngineInv, NEW b, NEW f, Extended(b, f), NEW side \in Sides,
           Confirms(b, f[Len(b)], side)
    PROVE  SetupStop(b, side) \in Int
<1>. DEFINE i == Len(b)
            from == Max({1, i - AtrWindow + 1})
            span == from..i
            ranges == [j \in span |-> TrueRange(b, j)]
            buffer == (5 * SumFunction(ranges)) \div (100 * Cardinality(span))
<1>0. /\ Len(bars) \in Nat /\ i = Len(bars) + 1 /\ b \in Seq(Bar)
      /\ AtrWindow \in Nat /\ AtrWindow > 0 /\ i \in Nat
    BY EngineAssumption DEF EngineInv, Recorded, Extended
<1>1. from \in Int /\ 1 <= from /\ from <= i
    <2>. DEFINE both == {1, i - AtrWindow + 1}
    <2>1. both \in SUBSET Int /\ both # {} /\ 1 \in both /\ \A x \in both : x <= i
        BY <1>0
    <2>2. IsFiniteSet(both)
        BY FewAreFinite
    <2>. HIDE DEF both
    <2>3. Max(both) \in both /\ \A x \in both : x <= Max(both)
        BY <2>1, <2>2, Highest
    <2>4. from = Max(both)
        BY DEF both
    <2>. QED BY <2>1, <2>3, <2>4
<1>. HIDE DEF from
<1>2. IsFiniteSet(span) /\ Cardinality(span) \in Nat /\ Cardinality(span) > 0
    <2>1. IsFiniteSet(span) /\ Cardinality(span) = i - from + 1
        BY <1>0, <1>1, FS_Interval
    <2>. QED BY <1>0, <1>1, <2>1
<1>3. DOMAIN ranges = span /\ \A j \in span : ranges[j] \in Int
    <2>1. \A j \in span : j \in 1..Len(b)
        BY <1>0, <1>1
    <2>. QED BY <1>0, <2>1, TrueRangeIsNumber
<1>. HIDE DEF span, ranges
<1>4. SumFunction(ranges) \in Int
    BY <1>2, <1>3, SumIsInteger DEF SumFunction
<1>5. buffer \in Int
    <2>1. \A x \in Int, y \in Nat : y > 0 => (5 * x) \div (100 * y) \in Int
        OBVIOUS
    <2>. QED BY <1>2, <1>4, <2>1
<1>6. test[side].stop \in Int
    BY InTimeStands DEF Confirms, TestStands
<1>7. SetupStop(b, side)
          = IF side = "long" THEN test[side].stop - buffer ELSE test[side].stop + buffer
    BY DEF SetupStop, span, ranges, from
<1>. HIDE DEF buffer
<1>. QED BY <1>5, <1>6, <1>7

LEMMA CloseKeepsRanges ==
    ASSUME EngineInv, Ranged(bars), NEW q \in Quotes, Close(q)
    PROVE  Ranged(bars')
<1>. DEFINE last == IF bars = <<>> THEN FirstClose ELSE bars[Len(bars)].close
            bar == Repaired(last, q)
<1>1. last \in Int
    <2>1. ASSUME bars # <<>> PROVE bars[Len(bars)] \in Bar
        BY <2>1 DEF EngineInv, Recorded
    <2>2. \A x \in Bar : x.close \in Int
        BY DEF Bar
    <2>3. FirstClose \in Int
        BY EngineAssumption
    <2>. QED BY <2>1, <2>2, <2>3
<1>2. /\ bar \in Bar
      /\ bar.low <= bar.open /\ bar.open <= bar.high
      /\ bar.low <= bar.close /\ bar.close <= bar.high
    BY <1>1, RepairedIsBar
<1>3. bars' = Append(bars, bar)
    BY DEF Close
<1>. HIDE DEF bar
<1>4. /\ Len(bars) \in Nat /\ Len(bars') = Len(bars) + 1
      /\ bars'[Len(bars) + 1] = bar /\ \A j \in 1..Len(bars) : bars'[j] = bars[j]
    BY <1>2, <1>3 DEF EngineInv, Recorded
<1>. SUFFICES ASSUME NEW j \in 1..Len(bars')
              PROVE  /\ bars'[j].low <= bars'[j].open /\ bars'[j].open <= bars'[j].high
                     /\ bars'[j].low <= bars'[j].close /\ bars'[j].close <= bars'[j].high
    BY DEF Ranged
<1>5. CASE j = Len(bars) + 1
    BY <1>2, <1>4, <1>5
<1>6. CASE j # Len(bars) + 1
    <2>1. j \in 1..Len(bars)
        BY <1>4, <1>6
    <2>. QED BY <1>4, <2>1 DEF Ranged
<1>. QED BY <1>5, <1>6

LEMMA CloseKeepsSetups ==
    ASSUME EngineInv, SetupsInv, NEW q \in Quotes, Close(q)
    PROVE  SetupsInv'
<1>. DEFINE b == bars'
            now == flags'[Len(bars')]
            new == {Setup(b, side) : side \in {z \in Sides : Confirms(b, now, z)}}
<1>1. Extended(b, flags') /\ setups' = setups \union new
    BY CloseExtends DEF EngineInv
<1>2. Len(bars) \in Nat /\ Len(b) = Len(bars) + 1
    BY <1>1 DEF EngineInv, Recorded, Extended
<1>3. ASSUME NEW side \in Sides, Confirms(b, now, side)
      PROVE  /\ Setup(b, side).stop \in Int /\ Setup(b, side).at = Len(b)
             /\ Setup(b, side).side = side
    BY <1>1, <1>3, SetupStopIsPrice DEF Setup
<1>4. \A s \in new : s.stop \in Int /\ s.at = Len(b)
    BY <1>3
<1>5. \A s, t \in new : s.side = t.side => s = t
    BY <1>3
<1>6. \A s \in setups : s.stop \in Int /\ s.at # Len(b)
    BY <1>2, SetupsAreOfTheSeries
<1>. HIDE DEF new
<1>7. \A s \in setups' : s.stop \in Int
    BY <1>1, <1>4, <1>6
<1>8. ASSUME NEW s \in setups', NEW t \in setups', s.side = t.side, s.at = t.at PROVE s = t
    <2>1. CASE s \in new
        BY <1>1, <1>4, <1>5, <1>6, <1>8, <2>1
    <2>2. CASE s \in setups
        BY <1>1, <1>4, <1>6, <1>8, <2>2 DEF SetupsInv
    <2>. QED BY <1>1, <2>1, <2>2
<1>. QED BY <1>7, <1>8 DEF SetupsInv

\* A longer series and more setups take nothing from what was opened or left.
LEMMA OpenedCarriesOver ==
    ASSUME EngineInv, NEW b, NEW f, Extended(b, f), NEW S, setups \subseteq S, NEW p,
           Opened(bars, setups, p)
    PROVE  Opened(b, S, p)
<1>1. PICK s \in setups : /\ s.at + 1 \in 1..Len(bars)
                          /\ p = Position(bars, s.at + 1, s)
                          /\ Beyond(s.side, bars[s.at + 1].open, s.stop)
    BY DEF Opened
<1>2. b[s.at + 1] = bars[s.at + 1] /\ s.at + 1 \in 1..Len(b)
    BY <1>1 DEF Extended, EngineInv, Recorded
<1>3. Position(b, s.at + 1, s) = Position(bars, s.at + 1, s)
    BY <1>2 DEF Position
<1>. QED BY <1>1, <1>2, <1>3 DEF Opened

LEMMA ClosedCarriesOver ==
    ASSUME EngineInv, NEW b, NEW f, Extended(b, f), NEW S, setups \subseteq S, NEW t \in Deal,
           ClosedTrade(bars, setups, t)
    PROVE  ClosedTrade(b, S, t)
<1>1. t.left \in Nat /\ t.of.entered \in Nat
    BY DEF Deal, Held
<1>2. PICK s \in setups : s.at + 1 \in 1..Len(bars) /\ t.of = Position(bars, s.at + 1, s)
    BY DEF ClosedTrade, Opened
<1>3. t.of.entered = s.at + 1
    BY <1>2 DEF Position
<1>4. /\ t.left \in t.of.entered..Len(bars) /\ t.left \in 1..Len(bars)
      /\ t.left \in t.of.entered..Len(b)
    BY <1>1, <1>2, <1>3 DEF ClosedTrade, Extended, EngineInv, Recorded
<1>5. b[t.left] = bars[t.left]
    BY <1>4 DEF Extended
<1>. QED BY <1>4, <1>5, OpenedCarriesOver DEF ClosedTrade

LEMMA ExitIsPriced ==
    ASSUME NEW bar \in Bar, NEW p \in Held
    PROVE  ExitOn(bar, p).price \in Int /\ ExitOn(bar, p).reason \in Reasons
<1>1. /\ bar.open \in Int /\ p.stop \in Int /\ p.target \in Int /\ p.side \in Sides
      /\ Slippage \in Nat
    BY TradingAssumption DEF Bar, Held
<1>2. Filled(bar.open, p.side) \in Int /\ Filled(p.stop, p.side) \in Int
    BY <1>1 DEF Filled, Sign, Sides
<1>3. ExitOn(bar, p) \in {[reason |-> "none", price |-> 0],
                          [reason |-> "stop_gap_open", price |-> Filled(bar.open, p.side)],
                          [reason |-> "take_profit_gap_open", price |-> p.target],
                          [reason |-> "stop", price |-> Filled(p.stop, p.side)],
                          [reason |-> "take_profit", price |-> p.target]}
    BY DEF ExitOn
<1>. DEFINE gap == Filled(bar.open, p.side)
            stopped == Filled(p.stop, p.side)
            e == ExitOn(bar, p)
<1>. HIDE DEF gap, stopped, e
<1>4. \/ e = [reason |-> "none", price |-> 0]
      \/ e = [reason |-> "stop_gap_open", price |-> gap]
      \/ e = [reason |-> "take_profit_gap_open", price |-> p.target]
      \/ e = [reason |-> "stop", price |-> stopped]
      \/ e = [reason |-> "take_profit", price |-> p.target]
    BY <1>3 DEF e, gap, stopped
<1>5. gap \in Int /\ stopped \in Int /\ p.target \in Int
    BY <1>1, <1>2 DEF gap, stopped
<1>6. CASE e = [reason |-> "none", price |-> 0]
    BY <1>6 DEF e, Reasons
<1>7. CASE e = [reason |-> "stop_gap_open", price |-> gap]
    BY <1>5, <1>7 DEF e, Reasons
<1>8. CASE e = [reason |-> "take_profit_gap_open", price |-> p.target]
    BY <1>5, <1>8 DEF e, Reasons
<1>9. CASE e = [reason |-> "stop", price |-> stopped]
    BY <1>5, <1>9 DEF e, Reasons
<1>10. CASE e = [reason |-> "take_profit", price |-> p.target]
    BY <1>5, <1>10 DEF e, Reasons
<1>. QED BY <1>4, <1>6, <1>7, <1>8, <1>9, <1>10, Zenon

LEMMA AccountStarts == EngineInit /\ AccountInit => AccountInv
<1>. SUFFICES ASSUME EngineInit, AccountInit PROVE AccountInv
    OBVIOUS
<1>1. /\ bars = <<>> /\ setups = {} /\ trades = <<>> /\ position = NoPosition
      /\ queued = NoEntry /\ cash = InitialCapital
    BY DEF EngineInit, AccountInit
<1>2. SumFunction(Nets) = 0
    <2>1. DOMAIN Nets = {}
        BY <1>1 DEF Nets
    <2>. QED BY <2>1, FS_EmptySet, SumUnfolds DEF SumFunction
<1>3. InitialCapital \in Nat
    BY TradingAssumption
<1>4. cash = InitialCapital + SumFunction(Nets) - Cost(position)
    BY <1>1, <1>2, <1>3 DEF Cost
<1>5. Ranged(bars) /\ SetupsInv
    BY <1>1 DEF Ranged, SetupsInv
<1>6. /\ trades \in Seq(Deal) /\ 1..Len(trades) = {} /\ 2..Len(trades) = {}
      /\ ~(Len(trades) > 0)
    BY <1>1
<1>. QED BY <1>1, <1>4, <1>5, <1>6 DEF AccountInv

LEMMA CashIsNumber ==
    ASSUME AccountInv
    PROVE  /\ SumFunction(Nets) \in Int /\ InitialCapital \in Int /\ Commission \in Int
           /\ cash \in Int
<1>1. DOMAIN Nets = 1..Len(trades) /\ \A k \in 1..Len(trades) : Nets[k] \in Int
    <2>1. trades \in Seq(Deal) /\ DOMAIN trades = 1..Len(trades)
        BY DEF AccountInv
    <2>2. \A k \in 1..Len(trades) : trades[k] \in Deal
        BY <2>1
    <2>. QED BY <2>1, <2>2 DEF Nets, Deal
<1>2. IsFiniteSet(1..Len(trades))
    <2>1. trades \in Seq(Deal)
        BY DEF AccountInv
    <2>2. Len(trades) \in Int
        BY <2>1
    <2>. QED BY <2>2, FS_Interval
<1>. HIDE DEF Nets
<1>3. SumFunction(Nets) \in Int
    BY <1>1, <1>2, SumIsInteger DEF SumFunction
<1>4. InitialCapital \in Int /\ Commission \in Int /\ Cost(position) \in Int
    BY TradingAssumption DEF Cost
<1>5. cash = InitialCapital + SumFunction(Nets) - Cost(position)
    BY DEF AccountInv
<1>. QED BY <1>3, <1>4, <1>5

\* A session of trading keeps the account.
LEMMA TradeKeepsAccount ==
    ASSUME EngineInv, AccountInv, NEW q \in Quotes, Close(q), Trade
    PROVE  AccountInv'
<1>. DEFINE b == bars'
            i == Len(b)
            bar == b[i]
            enters == position = NoPosition /\ queued # NoEntry /\ Enterable(bar, queued)
            held == IF enters THEN Position(b, i, queued) ELSE position
            exit == IF held = NoPosition THEN [reason |-> "none", price |-> 0]
                    ELSE ExitOn(bar, held)
            left == IF exit.reason = "none" THEN held ELSE NoPosition
            new == {s \in setups' : s.at = i /\ (s.side = "long" \/ sides = "both")}
            deal == [of |-> held, left |-> i, reason |-> exit.reason, price |-> exit.price,
                     net |-> Net(held, exit.price)]
            n == Len(trades)
<1>1. /\ position' = left
      /\ cash' = cash - (IF enters THEN Commission ELSE 0)
                      + (IF exit.reason = "none" THEN 0 ELSE Proceeds(held, exit.price))
      /\ trades' = IF exit.reason = "none" THEN trades ELSE Append(trades, deal)
      /\ queued' = IF left = NoPosition /\ Cardinality(new) = 1
                   THEN CHOOSE s \in new : TRUE ELSE NoEntry
    BY DEF Trade
<1>2. EngineInv' /\ Extended(b, flags') /\ setups \subseteq setups'
    BY CloseKeepsEngine, CloseExtends DEF EngineInv
<1>3. Ranged(bars') /\ SetupsInv'
    BY CloseKeepsRanges, CloseKeepsSetups DEF AccountInv
<1>4. /\ Len(bars) \in Nat /\ i = Len(bars) + 1 /\ i \in Nat /\ i \in 1..Len(b)
      /\ b \in Seq(Bar) /\ bar \in Bar
    BY <1>2 DEF EngineInv, Recorded, Extended
<1>5. ASSUME NEW p, Opened(b, setups', p)
      PROVE  p \in Held /\ p # NoPosition /\ p.entered <= i
    <2>1. PICK s \in setups' : s.at + 1 \in 1..Len(b) /\ p = Position(b, s.at + 1, s)
        BY <1>5 DEF Opened
    <2>2. s.side \in Sides /\ s.at \in Nat /\ s.stop \in Int
        BY <1>2, <1>3 DEF EngineInv, SetupsInv, Sequence, Recorded
    <2>3. p \in Held /\ p # NoPosition /\ p.entered = s.at + 1
        BY <1>4, <2>1, <2>2, PositionIsHeld
    <2>. QED BY <1>4, <2>1, <2>3
<1>6. enters => Opened(b, setups', held) /\ held.entered = i
    <2>. SUFFICES ASSUME enters PROVE Opened(b, setups', held) /\ held.entered = i
        OBVIOUS
    <2>1. /\ queued \in setups' /\ queued.at = Len(bars) /\ held = Position(b, i, queued)
          /\ Beyond(queued.side, bar.open, queued.stop)
        BY <1>2 DEF AccountInv, Enterable
    <2>2. queued.at + 1 = i
        BY <1>4, <2>1
    <2>3. held.entered = i
        BY <2>1 DEF Position
    <2>. QED BY <1>4, <2>1, <2>2, <2>3 DEF Opened
<1>7. position # NoPosition => Opened(b, setups', position)
    BY <1>2, OpenedCarriesOver DEF AccountInv
<1>8. held # NoPosition => Opened(b, setups', held)
    BY <1>6, <1>7
<1>9. \A k \in 1..n : trades[k] \in Deal /\ ClosedTrade(b, setups', trades[k])
    BY <1>2, ClosedCarriesOver DEF AccountInv
<1>10. \A k \in 1..n : trades[k].left \in Nat /\ trades[k].left < i
    <2>. SUFFICES ASSUME NEW k \in 1..n PROVE trades[k].left \in Nat /\ trades[k].left < i
        OBVIOUS
    <2>1. trades[k] \in Deal /\ ClosedTrade(bars, setups, trades[k])
        BY <1>9 DEF AccountInv
    <2>2. trades[k].left \in Nat /\ trades[k].of.entered \in Nat
        BY <2>1 DEF Deal, Held
    <2>. QED BY <1>4, <2>1, <2>2 DEF ClosedTrade
<1>11. n \in Nat /\ trades \in Seq(Deal) /\ DOMAIN trades = 1..n
    BY DEF AccountInv
<1>12. held # NoPosition /\ n > 0 => trades[n].left < held.entered
    <2>1. CASE enters
        BY <1>6, <1>10, <1>11, <2>1
    <2>2. CASE ~enters
        BY <2>2 DEF AccountInv
    <2>. QED BY <2>1, <2>2
<1>. HIDE DEF enters, bar
<1>13. exit.reason # "none" =>
          /\ held # NoPosition /\ held \in Held /\ held.entered <= i
          /\ ExitOn(b[i], held).reason = exit.reason
          /\ exit.price \in Int /\ exit.reason \in Reasons
    <2>. SUFFICES ASSUME exit.reason # "none"
                  PROVE  /\ held # NoPosition /\ held \in Held /\ held.entered <= i
                         /\ ExitOn(b[i], held).reason = exit.reason
                         /\ exit.price \in Int /\ exit.reason \in Reasons
        OBVIOUS
    <2>. HIDE DEF held
    <2>1. held # NoPosition /\ exit = ExitOn(bar, held)
        OBVIOUS
    <2>2. held \in Held /\ held.entered <= i
        BY <1>5, <1>8, <2>1
    <2>3. exit.price \in Int /\ exit.reason \in Reasons
        BY <1>4, <2>1, <2>2, ExitIsPriced
    <2>. QED BY <2>1, <2>2, <2>3 DEF bar
<1>. HIDE DEF held, exit
<1>14. exit.reason # "none" => deal \in Deal /\ ClosedTrade(b, setups', deal)
    <2>. SUFFICES ASSUME exit.reason # "none"
                  PROVE  deal \in Deal /\ ClosedTrade(b, setups', deal)
        OBVIOUS
    <2>1. Net(held, exit.price) \in Int
        <3>1. held.entry \in Int /\ Sign(held.side) \in Int /\ exit.price \in Int
              /\ Commission \in Int
            BY <1>13, TradingAssumption DEF Held, Sign
        <3>2. Gross(held, exit.price) \in Int
            BY <3>1 DEF Gross
        <3>. QED BY <3>1, <3>2 DEF Net
    <2>2. deal \in Deal
        BY <1>4, <1>13, <2>1 DEF Deal
    <2>3. /\ deal.of = held /\ deal.left = i /\ held.entered \in Nat
        BY <1>13 DEF Held
    <2>. HIDE DEF deal
    <2>4. deal.left \in deal.of.entered..Len(b)
        BY <1>4, <1>13, <2>3
    <2>5. ClosedTrade(b, setups', deal)
        BY <1>8, <1>13, <2>3, <2>4 DEF ClosedTrade
    <2>. QED BY <2>2, <2>5
<1>15. position' # NoPosition => position' = held /\ exit.reason = "none"
    BY <1>1
<1>16. position' # NoPosition => Opened(bars', setups', position')
    BY <1>8, <1>15
<1>17. queued' # NoEntry => queued' \in setups' /\ queued'.at = Len(bars')
    <2>. SUFFICES ASSUME queued' # NoEntry PROVE queued' \in setups' /\ queued'.at = Len(bars')
        OBVIOUS
    <2>1. Cardinality(new) = 1 /\ queued' = CHOOSE s \in new : TRUE
        BY <1>1
    <2>2. new # {}
        BY <2>1, FS_EmptySet
    <2>3. queued' \in new
        BY <2>1, <2>2
    <2>. QED BY <2>3
<1>18. CASE exit.reason = "none"
    <2>1. trades' = trades /\ position' = held
        BY <1>1, <1>18
    <2>2. Nets' = Nets
        BY <2>1 DEF Nets
    <2>3. cash' = cash - (IF enters THEN Commission ELSE 0)
        <3>1. cash \in Int
            BY CashIsNumber
        <3>2. Commission \in Int
            BY TradingAssumption
        <3>. QED BY <1>1, <1>18, <3>1, <3>2
    <2>4. cash' = InitialCapital + SumFunction(Nets) - Cost(position')
        <3>1. SumFunction(Nets) \in Int /\ InitialCapital \in Int /\ Commission \in Int
            BY CashIsNumber
        <3>2. cash = InitialCapital + SumFunction(Nets) - Cost(position)
            BY DEF AccountInv
        <3>3. CASE enters
            <4>1. position = NoPosition /\ held # NoPosition
                BY <1>5, <1>6, <3>3 DEF enters
            <4>. QED BY <2>1, <2>3, <3>1, <3>2, <3>3, <4>1 DEF Cost
        <3>4. CASE ~enters
            <4>1. position' = position
                BY <2>1, <3>4 DEF held
            <4>2. cash \in Int
                BY CashIsNumber
            <4>. QED BY <2>3, <3>2, <3>4, <4>1, <4>2
        <3>. QED BY <3>3, <3>4
    <2>5. position' # NoPosition /\ Len(trades') > 0 =>
              trades'[Len(trades')].left < position'.entered
        BY <1>12, <2>1
    <2>6. /\ trades' \in Seq(Deal)
          /\ \A k \in 1..Len(trades') : ClosedTrade(bars', setups', trades'[k])
          /\ \A k \in 2..Len(trades') : trades'[k - 1].left < trades'[k].of.entered
        BY <1>9, <1>11, <2>1 DEF AccountInv
    <2>7. cash' = InitialCapital + SumFunction(Nets') - Cost(position')
        BY <2>2, <2>4
    <2>. QED BY <1>3, <1>16, <1>17, <2>5, <2>6, <2>7 DEF AccountInv
<1>19. CASE exit.reason # "none"
    <2>1. trades' = Append(trades, deal) /\ position' = NoPosition
        BY <1>1, <1>19
    <2>2. deal \in Deal /\ ClosedTrade(b, setups', deal)
        BY <1>14, <1>19
    <2>3. deal.of = held /\ deal.net = Net(held, exit.price)
        OBVIOUS
    <2>. HIDE DEF deal
    <2>4. /\ trades' \in Seq(Deal) /\ Len(trades') = n + 1 /\ trades'[n + 1] = deal
          /\ \A k \in 1..n : trades'[k] = trades[k]
        BY <1>11, <2>1, <2>2
    <2>. HIDE DEF n
    <2>5. \A k \in 1..Len(trades') : ClosedTrade(bars', setups', trades'[k])
        <3>. SUFFICES ASSUME NEW k \in 1..(n + 1)
                      PROVE  ClosedTrade(bars', setups', trades'[k])
            BY <2>4
        <3>1. k = n + 1 \/ k \in 1..n
            BY <1>11
        <3>. QED BY <1>9, <2>2, <2>4, <3>1
    <2>6. \A k \in 2..Len(trades') : trades'[k - 1].left < trades'[k].of.entered
        <3>. SUFFICES ASSUME NEW k \in 2..(n + 1)
                      PROVE  trades'[k - 1].left < trades'[k].of.entered
            BY <2>4
        <3>1. CASE k = n + 1
            <4>1. k - 1 = n /\ n > 0 /\ n \in 1..n
                BY <1>11, <3>1
            <4>. QED BY <1>12, <1>13, <1>19, <2>3, <2>4, <3>1, <4>1
        <3>2. CASE k # n + 1
            <4>1. k \in 2..n /\ k \in 1..n /\ k - 1 \in 1..n
                BY <1>11, <3>2
            <4>. QED BY <2>4, <4>1 DEF AccountInv, n
        <3>. QED BY <3>1, <3>2
    <2>7. /\ SumFunction(Nets) \in Int
          /\ SumFunction(Nets') = SumFunction(Nets) + Net(held, exit.price)
        <3>1. /\ DOMAIN Nets = 1..n /\ DOMAIN Nets' = 1..(n + 1)
              /\ \A k \in 1..n : Nets[k] = trades[k].net /\ Nets'[k] = trades'[k].net
              /\ Nets'[n + 1] = trades'[n + 1].net
            <4>1. DOMAIN trades' = 1..(n + 1)
                BY <2>4
            <4>. QED BY <1>11, <4>1 DEF Nets, n
        <3>2. /\ \A k \in 1..n : Nets[k] \in Int /\ Nets[k] = Nets'[k]
              /\ Nets'[n + 1] = Net(held, exit.price) /\ Nets'[n + 1] \in Int
            BY <1>9, <2>2, <2>3, <2>4, <3>1 DEF Deal
        <3>. HIDE DEF Nets
        <3>. QED BY <1>11, <3>1, <3>2, SumOfOneMore
    <2>8. cash' = InitialCapital + SumFunction(Nets') - Cost(position')
        <3>. DEFINE sum == SumFunction(Nets)
                    gross == Gross(held, exit.price)
        <3>1. /\ InitialCapital \in Int /\ Commission \in Int /\ cash \in Int
            BY CashIsNumber
        <3>2. cash = InitialCapital + sum - Cost(position)
            BY DEF AccountInv
        <3>3. cash' = cash - (IF enters THEN Commission ELSE 0) + (gross - Commission)
            BY <1>1, <1>19 DEF Proceeds
        <3>4. SumFunction(Nets') = sum + (gross - 2 * Commission)
            BY <2>7 DEF Net
        <3>5. gross \in Int
            <4>1. held.entry \in Int /\ Sign(held.side) \in Int /\ exit.price \in Int
                BY <1>13, <1>19 DEF Held, Sign
            <4>. QED BY <4>1 DEF Gross
        <3>6. sum \in Int
            BY <2>7
        <3>. HIDE DEF sum, gross
        <3>7. Cost(position') = 0
            BY <2>1 DEF Cost
        <3>8. (IF enters THEN Commission ELSE 0) + Cost(position) = Commission
            <4>1. CASE enters
                BY <3>1, <4>1 DEF Cost, enters
            <4>2. CASE ~enters
                <5>1. position # NoPosition
                    BY <1>13, <1>19, <4>2 DEF held
                <5>. QED BY <3>1, <4>2, <5>1 DEF Cost
            <4>. QED BY <4>1, <4>2
        <3>9. (IF enters THEN Commission ELSE 0) \in Int /\ Cost(position) \in Int
            BY <3>1 DEF Cost
        <3>. DEFINE fee == IF enters THEN Commission ELSE 0
                    cost == Cost(position)
        <3>10. cash' = (InitialCapital + sum - cost) - fee + (gross - Commission)
               /\ fee + cost = Commission /\ fee \in Int /\ cost \in Int
            BY <3>2, <3>3, <3>8, <3>9
        <3>. HIDE DEF fee, cost
        <3>11. cash' = InitialCapital + (sum + (gross - 2 * Commission)) - 0
            BY <3>1, <3>5, <3>6, <3>10
        <3>. QED BY <3>4, <3>7, <3>11
    <2>. QED BY <1>3, <1>16, <1>17, <2>1, <2>4, <2>5, <2>6, <2>8 DEF AccountInv
<1>. QED BY <1>18, <1>19

LEMMA TradingStep ==
    EngineInv /\ AccountInv /\ [\E q \in Quotes : Close(q) /\ Trade]_<<engineVars, accountVars>>
        => EngineInv' /\ AccountInv'
<1>1. ASSUME EngineInv, AccountInv, UNCHANGED <<engineVars, accountVars>>
      PROVE  EngineInv' /\ AccountInv'
    BY <1>1 DEF EngineInv, AccountInv, SetupsInv, Nets, engineVars, accountVars
<1>. QED BY <1>1, CloseKeepsEngine, TradeKeepsAccount

\* The score calls a setup live only while the program still holds its trade.
THEOREM LiveTradesAreHeld == TradingSpec => []LiveIsStillOpen
<1>1. EngineInit /\ AccountInit => EngineInv /\ AccountInv
    BY EngineStarts, AccountStarts
<1>2. EngineInv /\ AccountInv /\ [\E q \in Quotes : Close(q) /\ Trade]_<<engineVars, accountVars>>
          => (EngineInv /\ AccountInv)'
    BY TradingStep
<1>3. EngineInv /\ AccountInv => LiveIsStillOpen
    BY LiveTradesAreOpen
<1>. QED BY <1>1, <1>2, <1>3, PTL DEF TradingSpec

\* The account holds what its trades made, and no trade overlaps another.
THEOREM AccountsBalance == TradingSpec => []AccountAddsUp
<1>1. EngineInit /\ AccountInit => EngineInv /\ AccountInv
    BY EngineStarts, AccountStarts
<1>2. EngineInv /\ AccountInv /\ [\E q \in Quotes : Close(q) /\ Trade]_<<engineVars, accountVars>>
          => (EngineInv /\ AccountInv)'
    BY TradingStep
<1>3. EngineInv /\ AccountInv => AccountAddsUp
    BY AccountsAddUp
<1>. QED BY <1>1, <1>2, <1>3, PTL DEF TradingSpec

-----------------------------------------------------------------------------
(* The workbench's folds. *)

\* A product grows with its second factor.
LEMMA MoreTimes ==
    ASSUME NEW a \in Nat, NEW m \in Nat, NEW n \in Nat, m <= n
    PROVE  a * m <= a * n
<1>1. a * n - a * m = a * (n - m) /\ n - m \in Nat
    OBVIOUS
<1>2. a * (n - m) \in Nat /\ a * m \in Nat /\ a * n \in Nat
    BY <1>1
<1>. QED BY <1>1, <1>2

WalkTypeOK ==
    /\ today \in 0 .. LastDay
    /\ traded \in [Stocks -> SUBSET (0 .. LastDay)]
    /\ since \in [Stocks -> 0 .. LastDay]

LEMMA WalkIsTyped == WalkSpec => []WalkTypeOK
<1>. LastDay \in Nat /\ 0 \in 0 .. LastDay /\ Deep \subseteq 0 .. LastDay
    BY WalkForwardAssumption
<1>1. ASSUME WalkInit PROVE WalkTypeOK
    <2>1. today = 0 /\ traded = [s \in Stocks |-> {0}] /\ since \in [Stocks -> Deep]
        BY <1>1 DEF WalkInit
    <2>2. {0} \in SUBSET (0 .. LastDay)
        OBVIOUS
    <2>3. traded \in [Stocks -> SUBSET (0 .. LastDay)]
        BY <2>1, <2>2, Zenon
    <2>4. since \in [Stocks -> 0 .. LastDay]
        BY <2>1
    <2>. QED BY <2>1, <2>3, <2>4 DEF WalkTypeOK
<1>2. WalkTypeOK /\ [WalkNext]_walkVars => WalkTypeOK'
    <2>. SUFFICES ASSUME WalkTypeOK, [WalkNext]_walkVars PROVE WalkTypeOK'
        OBVIOUS
    <2>1. ASSUME NEW on \in SUBSET Stocks, Session(on) PROVE WalkTypeOK'
        <3>1. today' \in 0 .. LastDay
            BY <2>1 DEF Session, WalkTypeOK
        <3>. QED BY <2>1, <3>1 DEF Session, WalkTypeOK
    <2>2. ASSUME NEW s \in Stocks, Extend(s) PROVE WalkTypeOK'
        BY <2>2 DEF Extend, WalkTypeOK
    <2>3. CASE UNCHANGED walkVars
        BY <2>3 DEF walkVars, WalkTypeOK
    <2>. QED BY <2>1, <2>2, <2>3 DEF WalkNext
<1>. QED BY <1>1, <1>2, PTL DEF WalkSpec

\* A label's window lies behind its row, and ends with its last session.
LEMMA WindowsEnd ==
    ASSUME WalkTypeOK, NEW c \in Cells, WholeLabel(c)
    PROVE  /\ c[2] \in Nat
           /\ Window(c) \in SUBSET Nat /\ IsFiniteSet(Window(c))
           /\ Cardinality(Window(c)) = Horizon
           /\ \A d \in Window(c) : d > c[2]
           /\ LabelEnd(c) \in Window(c) /\ \A d \in Window(c) : d <= LabelEnd(c)
<1>. LastDay \in Nat /\ Horizon \in Nat \ {0}
    BY WalkForwardAssumption
<1>1. c[1] \in Stocks /\ c[2] \in 0 .. LastDay
    BY DEF Cells
<1>2. Stored(c[1]) \subseteq 0 .. LastDay
    BY <1>1 DEF Stored, WalkTypeOK
<1>3. Window(c) \subseteq 0 .. LastDay /\ \A d \in Window(c) : d > c[2]
    BY <1>2 DEF Window
<1>4. Cardinality(Window(c)) = Horizon
    BY DEF WholeLabel
<1>. HIDE DEF Window
<1>5. IsFiniteSet(Window(c))
    <2>1. IsFiniteSet(0 .. LastDay)
        BY FS_Interval
    <2>. QED BY <1>3, <2>1, FS_Subset
<1>6. Window(c) # {}
    BY <1>4, FS_EmptySet
<1>7. Window(c) \in SUBSET Int /\ Window(c) \in SUBSET Nat
    BY <1>3
<1>8. Max(Window(c)) \in Window(c) /\ \A d \in Window(c) : d <= Max(Window(c))
    BY <1>5, <1>6, <1>7, Highest
<1>. QED BY <1>1, <1>3, <1>4, <1>5, <1>7, <1>8 DEF LabelEnd

\* No step of a window is longer than a gap may be, so the window ends within its
\* horizon of such steps.
LEMMA WindowsAreWithinReach ==
    ASSUME WalkTypeOK, NEW c \in Cells, WholeLabel(c)
    PROVE  LabelEnd(c) <= c[2] + MaxGap * Horizon
<1>. DEFINE W == Window(c)
            upTo(d) == {e \in W : e <= d}
            n(d) == Cardinality(upTo(d))
            bad == {d \in W : ~(d - c[2] <= MaxGap * n(d))}
<1>0. Horizon \in Nat /\ MaxGap \in Nat /\ c[2] \in Nat /\ W \in SUBSET Nat /\ IsFiniteSet(W)
    BY WalkForwardAssumption, WindowsEnd
<1>1. \A d \in W : \E e \in W \union {c[2]} : e < d /\ d - e <= MaxGap
    BY DEF WholeLabel
<1>2. ASSUME NEW d \in W
      PROVE  IsFiniteSet(upTo(d)) /\ n(d) \in Nat /\ n(d) <= Cardinality(W) /\ d \in upTo(d)
    <2>1. upTo(d) \in SUBSET W /\ d \in Nat
        BY <1>0
    <2>2. d \in upTo(d)
        BY <2>1
    <2>. HIDE DEF W, upTo
    <2>. QED BY <1>0, <2>1, <2>2, FS_Subset, FS_CardinalityType
<1>3. ASSUME NEW d \in W, NEW e \in W, e < d
      PROVE  n(e) + 1 <= n(d)
    <2>1. d \in Nat /\ e \in Nat
        BY <1>0
    <2>2. upTo(e) \subseteq upTo(d) \ {d}
        BY <1>0, <1>3, <2>1
    <2>. HIDE DEF W, upTo
    <2>3. IsFiniteSet(upTo(d) \ {d}) /\ Cardinality(upTo(d) \ {d}) = n(d) - 1
        BY <1>2, FS_RemoveElement
    <2>4. n(e) <= Cardinality(upTo(d) \ {d})
        BY <2>2, <2>3, FS_Subset
    <2>. HIDE DEF n
    <2>. QED BY <1>2, <2>3, <2>4
<1>4. ASSUME NEW d \in W PROVE 1 <= n(d)
    <2>. HIDE DEF W, upTo
    <2>1. n(d) # 0
        BY <1>2, FS_EmptySet
    <2>. QED BY <1>2, <2>1
<1>5. bad = {}
    <2>. SUFFICES ASSUME bad # {} PROVE FALSE
        OBVIOUS
    <2>1. bad \in SUBSET Nat
        BY <1>0
    <2>2. PICK d \in bad : \A e \in bad : d <= e
        <3>. HIDE DEF bad
        <3>. QED BY <2>1, LeastNatural
    <2>3. d \in W /\ ~(d - c[2] <= MaxGap * n(d)) /\ d \in Nat /\ n(d) \in Nat
        BY <1>0, <1>2
    <2>4. PICK e \in W \union {c[2]} : e < d /\ d - e <= MaxGap
        BY <1>1, <2>3
    <2>. HIDE DEF n
    <2>5. CASE e = c[2]
        <3>1. MaxGap * 1 <= MaxGap * n(d)
            BY <1>0, <1>4, <2>3, MoreTimes
        <3>. QED BY <1>0, <2>3, <2>4, <2>5, <3>1
    <2>6. CASE e \in W
        <3>4. e \in Nat /\ n(e) \in Nat /\ ~(d <= e)
            <4>1. e \in Nat
                BY <1>0, <2>6
            <4>2. n(e) \in Nat
                BY <1>2, <2>6 DEF n
            <4>3. d \in Nat /\ e < d
                BY <2>3, <2>4
            <4>. QED BY <4>1, <4>2, <4>3
        <3>5. e \notin bad
            BY <2>2, <3>4
        <3>1. e \in Nat /\ n(e) \in Nat /\ e \notin bad
            BY <3>4, <3>5
        <3>2. e - c[2] <= MaxGap * n(e)
            BY <2>6, <3>1
        <3>3. MaxGap * (n(e) + 1) <= MaxGap * n(d)
            BY <1>0, <1>3, <2>3, <2>4, <2>6, <3>1, MoreTimes
        <3>6. MaxGap * (n(e) + 1) = MaxGap * n(e) + MaxGap
            BY <1>0, <3>1
        <3>. QED BY <1>0, <2>3, <2>4, <3>1, <3>2, <3>3, <3>6
    <2>. QED BY <2>4, <2>5, <2>6
<1>6. LabelEnd(c) \in W /\ Cardinality(W) = Horizon
    BY WindowsEnd
<1>. DEFINE last == LabelEnd(c)
<1>7. last - c[2] <= MaxGap * n(last) /\ last \in Nat /\ n(last) \in Nat /\ n(last) <= Horizon
    BY <1>0, <1>2, <1>5, <1>6
<1>. HIDE DEF n, last
<1>8. MaxGap * n(last) <= MaxGap * Horizon
    BY <1>0, <1>7, MoreTimes
<1>9. MaxGap * n(last) \in Int /\ MaxGap * Horizon \in Int
    BY <1>0, <1>7
<1>10. last <= c[2] + MaxGap * Horizon
    BY <1>0, <1>7, <1>8, <1>9
<1>. QED BY <1>10 DEF last

\* The argument about one state: an own window is purged, a peer's is no longer than
\* its reach.
LEMMA FoldsBoundLeaks ==
    ASSUME WalkTypeOK
    PROVE  LeaksAreBounded
<1>. SUFFICES ASSUME NEW y \in TestYears
              PROVE  /\ \A c \in Fit(y) : \A p \in Peers(c[2]) :
                            LabelEnd(p) >= Start(y - 1) =>
                                p # c /\ LabelEnd(p) - Start(y - 1) < Horizon * MaxGap - Embargo
                     /\ \A e \in LearnedByCut(y) : e[2] < Start(y)
    BY DEF LeaksAreBounded
<1>0. Year \in Nat \ {0} /\ {Embargo, Horizon, MaxGap} \subseteq Nat
    BY WalkForwardAssumption
<1>1. y \in Int
    <2>1. PICK c \in Usable : y = YearOf(c[2])
        BY DEF TestYears
    <2>2. c[2] \in Nat
        BY <2>1, WindowsEnd DEF Usable, Rows, Labelled
    <2>. QED BY <1>0, <2>1, <2>2 DEF YearOf
<1>2. Start(y) \in Int /\ Start(y - 1) \in Int
    BY <1>0, <1>1 DEF Start
<1>3. \A start : \A c \in Learnable(start) :
          c \in Cells /\ WholeLabel(c) /\ c[2] < start - Embargo /\ LabelEnd(c) < start
    BY DEF Learnable, Usable, Rows, Labelled
<1>. HIDE DEF Learnable
<1>4. ASSUME NEW c \in Fit(y), NEW p \in Peers(c[2]), LabelEnd(p) >= Start(y - 1)
      PROVE  p # c /\ LabelEnd(p) - Start(y - 1) < Horizon * MaxGap - Embargo
    <2>1. p \in Cells /\ WholeLabel(p) /\ p[2] = c[2]
        BY DEF Peers
    <2>2. c[2] < Start(y - 1) - Embargo /\ LabelEnd(c) < Start(y - 1)
        BY <1>3 DEF Fit
    <2>3. LabelEnd(p) \in Nat /\ p[2] \in Nat
        BY <2>1, WindowsEnd
    <2>4. LabelEnd(p) <= p[2] + MaxGap * Horizon
        BY <2>1, WindowsAreWithinReach
    <2>5. MaxGap * Horizon = Horizon * MaxGap /\ MaxGap * Horizon \in Int
        BY <1>0
    <2>6. p # c
        BY <1>2, <1>4, <2>2, <2>3
    <2>7. \A last, day, reach : last \in Nat /\ day \in Nat /\ reach \in Int
              /\ last <= day + reach /\ day < Start(y - 1) - Embargo
              => last - Start(y - 1) < reach - Embargo
        BY <1>0, <1>2
    <2>. HIDE DEF LabelEnd
    <2>. QED BY <2>1, <2>2, <2>3, <2>4, <2>5, <2>6, <2>7
<1>5. ASSUME NEW e \in LearnedByCut(y) PROVE e[2] < Start(y)
    <2>1. PICK c \in Inner(y) : e \in {c[1]} \X Window(c)
        BY <1>5 DEF LearnedByCut
    <2>2. c \in Cells /\ WholeLabel(c) /\ LabelEnd(c) < Start(y) /\ e[2] \in Window(c)
        BY <1>3, <2>1 DEF Inner, Train
    <2>3. e[2] \in Nat /\ LabelEnd(c) \in Nat /\ e[2] <= LabelEnd(c)
        BY <2>2, WindowsEnd
    <2>4. \A last, reach : last \in Nat /\ reach \in Nat /\ reach <= last /\ last < Start(y)
              => reach < Start(y)
        BY <1>2
    <2>. QED BY <2>2, <2>3, <2>4
<1>. QED BY <1>4, <1>5

\* However many years, stocks and missed sessions, and whatever embargo, horizon and
\* gap: the year a cut is chosen on is known to the model only through peers that missed
\* sessions, and for no more days than a window can be longer than the embargo; the cut
\* has seen no bar of the year it is tested on (walk_forward_folds).
THEOREM FoldsLeakNoFurther == WalkSpec => []LeaksAreBounded
<1>1. WalkTypeOK => LeaksAreBounded
    BY FoldsBoundLeaks
<1>. QED BY <1>1, WalkIsTyped, PTL
=============================================================================
