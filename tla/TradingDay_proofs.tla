------------------------- MODULE TradingDay_proofs -------------------------
(***************************************************************************)
(* Proofs about TradingDay, for any number of days, any weekend, any       *)
(* served markets and any hours of the live job: what a nightly run has    *)
(* fetched includes the session of its day, in every season, and a live    *)
(* price on show is one of a session.                                      *)
(*                                                                         *)
(* The clock is reasoned about first: local minutes are those of UTC moved *)
(* by the zone's offset, the moments TLC looks at miss no local midnight,  *)
(* so between two of them an exchange's day goes on or begins anew.        *)
(***************************************************************************)
EXTENDS TradingDay, WellFoundedInduction, TLAPS

-----------------------------------------------------------------------------
(* Arithmetic of the clock. *)

\* A whole number of days more or less leaves the minute of the day alone.
LEMMA WholeDaysGo ==
    ASSUME NEW D \in Nat \ {0}, NEW x \in Nat
    PROVE  (x % (D * 1440)) % 1440 = x % 1440
<1>. DEFINE W == D * 1440
<1>1. W \in Nat /\ W > 0
    OBVIOUS
<1>2. PICK q \in Int : x = W * q + (x % W)
    <2>. HIDE DEF W
    <2>1. x = W * (x \div W) + (x % W) /\ x \div W \in Int
        BY <1>1
    <2>. QED BY <2>1
<1>3. PICK k \in Int : x = 1440 * k + (x % W)
    <2>1. W * q = 1440 * (D * q)
        OBVIOUS
    <2>2. D * q \in Int
        OBVIOUS
    <2>. HIDE DEF W
    <2>. QED BY <1>2, <2>1, <2>2
<1>4. x % W \in Nat
    <2>. HIDE DEF W
    <2>. QED BY <1>1
<1>. HIDE DEF W
<1>5. x % 1440 = (x % W) % 1440
    BY <1>3, <1>4
<1>. QED BY <1>5 DEF W

\* Minutes are days and minutes of a day.
LEMMA DayAndMinute ==
    ASSUME NEW z \in Nat
    PROVE  /\ z = 1440 * (z \div 1440) + (z % 1440)
           /\ z \div 1440 \in Int /\ z % 1440 \in 0 .. 1439
OBVIOUS

\* What a clock that is o minutes ahead of UTC or less a day reads at t.
Reads(o, t) == (t + o) % 1440

\* No midnight of a clock that is o minutes ahead of UTC or less a day lies
\* between t and n, in weeks of W minutes.
MidnightFree(W, o, t, n) ==
    \A x \in 0 .. W - 1 :
        x % 5 = 0 /\ Reads(o, x) = 0
            => IF t < n THEN ~(t < x /\ x < n) ELSE ~(x > t) /\ ~(x < n)

\* Moments t and n of such a clock with no midnight from the first to the second.
SameDay(W, o, t, n) ==
    /\ W \in Nat /\ W >= 1440 /\ W % 1440 = 0
    /\ o \in 0 .. 1600 /\ o % 5 = 0
    /\ t \in 0 .. W - 1 /\ n \in 0 .. W - 1 /\ t % 5 = 0
    /\ MidnightFree(W, o, t, n) /\ Reads(o, n) # 0

\* A clock that is o minutes ahead of UTC or less a day and shows neither
\* midnight between two moments nor at the second shows a later minute there.
LEMMA DayGoesOn ==
    ASSUME NEW W, NEW o, NEW t, NEW n, SameDay(W, o, t, n)
    PROVE  Reads(o, n) > Reads(o, t)
<1>0. /\ W \in Nat /\ W >= 1440 /\ W % 1440 = 0
      /\ o \in 0 .. 1600 /\ o % 5 = 0
      /\ t \in 0 .. W - 1 /\ n \in 0 .. W - 1 /\ t % 5 = 0
      /\ MidnightFree(W, o, t, n) /\ Reads(o, n) # 0
    BY DEF SameDay
<1>. USE <1>0
<1>. DEFINE k == (t + o) \div 1440
            a == (t + o) % 1440
            x == t + (1440 - a)
<1>1. t + o = 1440 * k + a /\ k \in Int /\ a \in 0 .. 1439
    <2>1. t + o \in Nat
        OBVIOUS
    <2>. QED BY <2>1, DayAndMinute
<1>2. Reads(o, t) = a
    BY DEF Reads
<1>. HIDE DEF k, a
<1>3. x \in Nat /\ x > t /\ x % 5 = 0 /\ x + o = 1440 * (k + 1)
    <2>1. x \in Nat /\ x > t /\ x + o = 1440 * (k + 1)
        BY <1>1
    <2>2. o = 5 * (o \div 5) /\ o \div 5 \in Int
        OBVIOUS
    <2>3. x = 5 * (288 * (k + 1) - (o \div 5))
        BY <1>1, <2>1, <2>2
    <2>. DEFINE e == 288 * (k + 1) - (o \div 5)
    <2>4. e \in Int
        BY <1>1, <2>2
    <2>. HIDE DEF e
    <2>5. (5 * e) % 5 = 0
        BY <2>4
    <2>. QED BY <2>1, <2>3, <2>5 DEF e
<1>4. Reads(o, x) = 0
    <2>1. (1440 * (k + 1)) % 1440 = 0
        BY <1>1
    <2>. QED BY <1>3, <2>1 DEF Reads
<1>5. \A y \in 0 .. W - 1 : y % 5 = 0 /\ Reads(o, y) = 0
                              => IF t < n THEN ~(t < y /\ y < n) ELSE ~(y > t) /\ ~(y < n)
    BY DEF MidnightFree
<1>6. CASE x < W
    <2>1. x \in 0 .. W - 1
        BY <1>3, <1>6
    <2>2. IF t < n THEN ~(t < x /\ x < n) ELSE ~(x > t) /\ ~(x < n)
        <3>. HIDE DEF x
        <3>. QED BY <1>3, <1>4, <1>5, <2>1, SMTT(40)
    <2>3. n > t /\ n <= x
        <3>. HIDE DEF x
        <3>. QED BY <1>3, <2>2
    <2>4. n # x
        BY <1>4
    <2>5. n + o = 1440 * k + (a + (n - t)) /\ a + (n - t) \in 0 .. 1439
        BY <1>1, <2>3, <2>4
    <2>6. Reads(o, n) = a + (n - t)
        BY <2>5, <1>1 DEF Reads
    <2>. QED BY <2>6, <1>1, <1>2, <2>3
<1>7. CASE x >= W
    <2>. DEFINE y == x - W
    <2>1. PICK w \in Int : W = 1440 * w
        <3>1. W = 1440 * (W \div 1440)
            OBVIOUS
        <3>. QED BY <3>1
    <2>2. y \in 0 .. W - 1 /\ y % 5 = 0 /\ y + o = 1440 * (k + 1 - w)
        BY <1>1, <1>3, <1>7, <2>1
    <2>3. Reads(o, y) = 0
        <3>1. (1440 * (k + 1 - w)) % 1440 = 0
            BY <1>1, <2>1
        <3>. QED BY <2>2, <3>1 DEF Reads
    <2>4. IF t < n THEN ~(t < y /\ y < n) ELSE ~(y > t) /\ ~(y < n)
        <3>. HIDE DEF y
        <3>. QED BY <1>5, <2>2, <2>3
    <2>5. CASE t < n
        <3>1. n + o = 1440 * k + (a + (n - t)) /\ a + (n - t) \in 0 .. 1439
            BY <1>1, <1>7, <2>5
        <3>2. Reads(o, n) = a + (n - t)
            BY <3>1, <1>1, SMTT(40) DEF Reads
        <3>. QED BY <3>2, <1>1, <1>2, <2>5
    <2>6. CASE ~(t < n)
        <3>1. n <= y /\ n # y
            <4>1. n # y
                BY <2>3
            <4>. HIDE DEF y
            <4>. QED BY <2>4, <2>6, <2>2, <4>1
        <3>2. /\ n + o = 1440 * (k - w) + (a + (n + W - t))
              /\ a + (n + W - t) \in 0 .. 1439
            BY <1>1, <2>1, <3>1
        <3>3. Reads(o, n) = a + (n + W - t)
            <4>. DEFINE d == k - w
                        r == a + (n + W - t)
            <4>1. d \in Int /\ r \in 0 .. 1439 /\ n + o = 1440 * d + r
                BY <3>2, <1>1, <2>1
            <4>. HIDE DEF d, r
            <4>2. (n + o) % 1440 = r
                BY <4>1
            <4>. QED BY <4>2 DEF Reads, r
        <3>. QED BY <3>3, <1>1, <1>2
    <2>. QED BY <2>5, <2>6
<1>. QED BY <1>3, <1>6, <1>7

-----------------------------------------------------------------------------
(* The clocks of the exchanges. *)

\* Every zone is whole hours off UTC, within five.
LEMMA OffsetsAreHours ==
    ASSUME NEW z, NEW s \in Seasons
    PROVE  /\ Offset(z, s) \in Int /\ Offset(z, s) + 1440 \in 0 .. 1600
           /\ (Offset(z, s) + 1440) % 5 = 0
<1>1. Offset(z, s) \in {Hour * h : h \in {-5, -4, 0, 1, 2}}
    BY DEF Seasons, Offset, Hour
<1>. QED BY <1>1 DEF Hour

\* The local minute of the day.
LEMMA LocalMinute ==
    ASSUME NEW z, NEW s \in Seasons, NEW t \in 0 .. Week - 1
    PROVE  MinuteOf(Local(z, t, s)) = Reads(Offset(z, s) + 1440, t)
<1>. DEFINE o == Offset(z, s)
            x == t + o + Week
<1>1. o + 1440 \in 0 .. 1600 /\ o \in Int
    BY OffsetsAreHours
<1>2. Week = Days * 1440 /\ Day = 1440 /\ Days \in Nat \ {0}
    BY ClockBounds DEF Week, Day, Hour
<1>3. Week \in Nat /\ Week >= 1440
    BY <1>2
<1>. HIDE DEF o
<1>4. x \in Nat
    BY <1>1, <1>3
<1>5. MinuteOf(Local(z, t, s)) = (x % (Days * 1440)) % 1440
    BY <1>2 DEF MinuteOf, Local, o
<1>6. (x % (Days * 1440)) % 1440 = x % 1440
    <2>. HIDE DEF x
    <2>. QED BY <1>2, <1>4, WholeDaysGo
<1>7. Week % 1440 = 0
    <2>1. Week = 1440 * Days
        BY <1>2
    <2>. QED BY <2>1, <1>2
<1>8. x % 1440 = (t + o + 1440) % 1440
    BY <1>1, <1>3, <1>7
<1>9. (t + o + 1440) % 1440 = Reads(o + 1440, t)
    <2>1. t + o + 1440 = t + (o + 1440)
        BY <1>1
    <2>. QED BY <2>1 DEF Reads
<1>. QED BY <1>5, <1>6, <1>8, <1>9 DEF o

\* Every local midnight is a moment the model looks at, and there is one.
LEMMA MomentsAreEnough ==
    /\ Moments \subseteq 0 .. Week - 1
    /\ \A t \in Moments : t % 5 = 0
    /\ \A m \in Markets, s \in Seasons, t \in 0 .. Week - 1 :
          t % 5 = 0 /\ MinuteOf(Local(Zone(m), t, s)) = 0 => t \in Moments
    /\ Moments # {}
<1>. DEFINE F == {5 * i : i \in 0 .. (Week \div 5) - 1}
<1>1. Week \in Nat /\ Week % 5 = 0 /\ Week >= 1440
    <2>1. Week = 1440 * Days
        BY ClockBounds DEF Week, Day, Hour
    <2>. QED BY <2>1, ClockBounds
<1>2. \A t \in F : t \in 0 .. Week - 1 /\ t % 5 = 0
    BY <1>1
<1>3. \A t \in 0 .. Week - 1 : t % 5 = 0 => t \in F
    <2>. SUFFICES ASSUME NEW t \in 0 .. Week - 1, t % 5 = 0
                  PROVE  t \in F
        OBVIOUS
    <2>1. t \div 5 \in 0 .. (Week \div 5) - 1 /\ t = 5 * (t \div 5)
        BY <1>1
    <2>. QED BY <2>1
<1>. HIDE DEF F
<1>4. Moments \subseteq F
    BY DEF Moments, F
<1>5. \A m \in Markets, s \in Seasons, t \in F :
          MinuteOf(Local(Zone(m), t, s)) = 0 => t \in Moments
    BY DEF Moments, F
<1>6. \A r \in Runs, s \in Seasons, t \in F :
          MinuteOf(Local(RunZone(r), t, s)) = RunMinute(r) => t \in Moments
    BY DEF Moments, F
<1>7. Moments # {}
    <2>. DEFINE w == [eu |-> FALSE, us |-> FALSE]
    <2>1. w \in Seasons /\ "europe" \in Runs
        BY DEF Seasons, Runs
    <2>2. RunZone("europe") = "warsaw" /\ RunMinute("europe") = 1080
        BY DEF RunZone, RunMinute, Hour
    <2>3. Offset("warsaw", w) = 60
        BY DEF Offset, Hour
    <2>4. 1020 \in F /\ 1020 \in 0 .. Week - 1
        BY <1>1, <1>3
    <2>. HIDE DEF w
    <2>5. MinuteOf(Local("warsaw", 1020, w)) = 1080
        BY <2>1, <2>3, <2>4, LocalMinute DEF Reads
    <2>. QED BY <2>1, <2>2, <2>4, <2>5, <1>6
<1>. QED BY <1>2, <1>3, <1>4, <1>5, <1>7

\* A non-empty set of minutes has a first one, which Min is.
LEMMA FirstMinute ==
    ASSUME NEW S \in SUBSET Nat, S # {}
    PROVE  Min(S) \in S /\ \A y \in S : Min(S) <= y
<1>1. PICK x \in S : \A y \in S : ~(<<y, x>> \in OpToRel(<, Nat))
    BY NatLessThanWellFounded, WFMin
<1>2. \A y \in S : ~(y < x)
    BY <1>1, Zenon DEF OpToRel
<1>3. \A y \in S : x <= y
    BY <1>2
<1>. QED BY <1>3 DEF Min

\* The moment after the present one, with none between them; at the end of the
\* week it is the first one.
LEMMA NextMoment ==
    ASSUME NEW t \in Moments \union {0}
    PROVE  /\ After[t] \in Moments
           /\ \A x \in Moments : IF t < After[t] THEN ~(t < x /\ x < After[t])
                                 ELSE ~(x > t) /\ ~(x < After[t])
<1>. DEFINE L == {n \in Moments : n > t}
<1>1. Moments \subseteq Nat /\ Moments # {} /\ t \in Nat
    BY MomentsAreEnough
<1>2. After[t] = IF \E n \in Moments : n > t THEN Min(L) ELSE Min(Moments)
    BY DEF After
<1>3. CASE \E n \in Moments : n > t
    <2>1. L \in SUBSET Nat /\ L # {}
        BY <1>1, <1>3
    <2>2. Min(L) \in L /\ \A y \in L : Min(L) <= y
        <3>. HIDE DEF L
        <3>. QED BY <2>1, FirstMinute
    <2>3. After[t] = Min(L)
        BY <1>2, <1>3
    <2>. DEFINE least == Min(L)
    <2>4. /\ least \in Moments /\ least > t
          /\ \A y \in Moments : y > t => least <= y
        BY <2>2
    <2>. HIDE DEF least
    <2>5. \A x \in Moments : ~(t < x /\ x < least)
        BY <1>1, <2>4
    <2>. QED BY <1>1, <2>3, <2>4, <2>5 DEF least
<1>4. CASE ~\E n \in Moments : n > t
    <2>1. Min(Moments) \in Moments /\ \A y \in Moments : Min(Moments) <= y
        BY <1>1, FirstMinute
    <2>2. After[t] = Min(Moments)
        BY <1>2, <1>4
    <2>. DEFINE least == Min(Moments)
    <2>3. /\ least \in Moments /\ ~(t < least)
          /\ \A y \in Moments : least <= y
        BY <1>1, <1>4, <2>1
    <2>. HIDE DEF least
    <2>4. \A x \in Moments : ~(x > t) /\ ~(x < least)
        BY <1>1, <1>4, <2>3
    <2>. QED BY <2>2, <2>3, <2>4 DEF least
<1>. QED BY <1>3, <1>4

\* From one moment to the next an exchange's day begins anew or goes on.
LEMMA DayOrMidnight ==
    ASSUME NEW t \in Moments \union {0}, NEW m \in Markets, NEW s \in Seasons,
           MinuteOf(Local(Zone(m), After[t], s)) # 0
    PROVE  MinuteOf(Local(Zone(m), After[t], s)) > MinuteOf(Local(Zone(m), t, s))
<1>. DEFINE o == Offset(Zone(m), s) + 1440
            n == After[t]
<1>1. o \in 0 .. 1600 /\ o % 5 = 0
    BY OffsetsAreHours
<1>2. Week = Days * 1440 /\ Days \in Nat \ {0}
    BY ClockBounds DEF Week, Day, Hour
<1>3. 0 \in 0 .. Week - 1
    BY <1>2
<1>4. t \in 0 .. Week - 1 /\ t % 5 = 0
    BY <1>3, MomentsAreEnough
<1>5. n \in Moments /\ n \in 0 .. Week - 1
    BY NextMoment, MomentsAreEnough
<1>6. \A x \in 0 .. Week - 1 : x % 5 = 0 /\ Reads(o, x) = 0
                                 => IF t < n THEN ~(t < x /\ x < n)
                                    ELSE ~(x > t) /\ ~(x < n)
    BY LocalMinute, MomentsAreEnough, NextMoment
<1>7. MinuteOf(Local(Zone(m), n, s)) = Reads(o, n)
    BY <1>5, LocalMinute
<1>8. MinuteOf(Local(Zone(m), t, s)) = Reads(o, t)
    BY <1>4, LocalMinute
<1>9. Reads(o, n) # 0
    BY <1>7
<1>. HIDE DEF o, n
<1>10. Reads(o, n) > Reads(o, t)
    <2>1. MidnightFree(Week, o, t, n)
        BY <1>6 DEF MidnightFree
    <2>2. Week \in Nat /\ Week >= 1440 /\ Week % 1440 = 0
        <3>1. Week = 1440 * Days
            BY <1>2
        <3>. QED BY <3>1, <1>2
    <2>3. SameDay(Week, o, t, n)
        BY <1>1, <1>4, <1>5, <1>9, <2>1, <2>2 DEF SameDay
    <2>. QED BY <2>3, DayGoesOn
<1>. QED BY <1>7, <1>8, <1>10 DEF n

\* At a run's minute on its own clock, the session of every market of its group
\* is over on that market's clock, in every season.
LEMMA RunsAreAfterTheClose ==
    ASSUME NEW t \in 0 .. Week - 1, NEW s \in Seasons, NEW r \in Runs,
           NEW m \in RunMarkets(r),
           MinuteOf(Local(RunZone(r), t, s)) = RunMinute(r)
    PROVE  MinuteOf(Local(Zone(m), t, s)) >= Closes(m) + Settle
<1>1. Reads(Offset(RunZone(r), s) + 1440, t) = RunMinute(r)
    BY LocalMinute
<1>2. MinuteOf(Local(Zone(m), t, s)) = Reads(Offset(Zone(m), s) + 1440, t)
    BY LocalMinute
<1>3. Week \in Nat
    BY ClockBounds DEF Week, Day, Hour
<1>4. CASE m = "us"
    <2>1. RunZone(r) = Zone(m) /\ RunMinute(r) = 1035 /\ Closes(m) + Settle = 975
        BY <1>4 DEF RunMarkets, RunZone, RunMinute, Zone, Closes, Settle, Hour, Runs
    <2>. QED BY <1>1, <1>2, <2>1
<1>5. CASE m = "uk"
    <2>1. /\ RunZone(r) = "warsaw" /\ Zone(m) = "london" /\ RunMinute(r) = 1080
          /\ Closes(m) + Settle = 1015
        BY <1>5 DEF RunMarkets, RunZone, RunMinute, Zone, Closes, Settle, Hour, Runs
    <2>2. Offset("warsaw", s) = Offset("london", s) + 60 /\ Offset("london", s) \in {0, 60}
        BY DEF Offset, Hour
    <2>. DEFINE o == Offset("london", s)
    <2>. HIDE DEF o
    <2>3. o \in {0, 60} /\ Offset("warsaw", s) = o + 60
        BY <2>2 DEF o
    <2>4. (t + (o + 60 + 1440)) % 1440 = 1080
        BY <1>1, <2>1, <2>3 DEF Reads
    <2>5. (t + (o + 1440)) % 1440 = 1020
        BY <1>3, <2>3, <2>4
    <2>6. Reads(Offset(Zone(m), s) + 1440, t) = 1020
        BY <2>1, <2>5 DEF Reads, o
    <2>. QED BY <1>2, <2>1, <2>6
<1>6. CASE m \notin {"us", "uk"}
    <2>1. /\ m \in {"gpw", "de"}
          /\ RunZone(r) = Zone(m) /\ RunMinute(r) = 1080 /\ Closes(m) + Settle <= 1075
        BY <1>6, ClockBounds
           DEF RunMarkets, RunZone, RunMinute, Zone, Closes, Settle, Hour, Runs
    <2>2. Closes(m) + Settle \in Nat
        BY <1>6 DEF Closes, Settle, Hour
    <2>. QED BY <1>1, <1>2, <2>1, <2>2
<1>. QED BY <1>4, <1>5, <1>6

-----------------------------------------------------------------------------
(* The inductive invariant. *)

\* A day's nightly run is due, at work or done only after the close, and what it
\* is done with has the day's session.
NightlyInv ==
    /\ \A r \in due \intersect Runs : \A m \in RunMarkets(r) : FinalToday(m)
    /\ run.kind = "nightly" => \A m \in run.todo : FinalToday(m)
    /\ \A m \in Markets : served[m] => FinalToday(m) /\ data[m] # "behind"

\* A price of the present day, kept or in hand, is one of a session.
LiveInv ==
    /\ \A m \in Markets : live[m] = "today" => trades[m]
    /\ liveRun.at \in Markets /\ liveRun.got = "today" => trades[liveRun.at]

DayInv == DayTypeOK /\ now \in Moments \union {0} /\ NightlyInv /\ LiveInv

\* A clock that does not stand at midnight has gone on since the moment before:
\* what was over is over, and stays over.
LEMMA OverStaysOver ==
    ASSUME DayInv, NEW m \in Markets,
           MinuteOf(Local(Zone(m), After[now], season)) # 0, FinalToday(m)
    PROVE  MinuteOf(Local(Zone(m), After[now], season)) > Closes(m) + Settle
<1>. DEFINE a == MinuteOf(Local(Zone(m), now, season))
            b == MinuteOf(Local(Zone(m), After[now], season))
<1>1. now \in 0 .. Week - 1 /\ After[now] \in 0 .. Week - 1 /\ season \in Seasons
    BY NextMoment, MomentsAreEnough DEF DayInv, DayTypeOK
<1>2. a \in Nat /\ b \in Nat
    <2>. DEFINE o == Offset(Zone(m), season) + 1440
    <2>1. o \in 0 .. 1600
        BY <1>1, OffsetsAreHours
    <2>2. a = Reads(o, now) /\ b = Reads(o, After[now])
        BY <1>1, LocalMinute
    <2>. HIDE DEF o, a, b
    <2>3. Reads(o, now) \in Nat /\ Reads(o, After[now]) \in Nat
        BY <1>1, <2>1 DEF Reads
    <2>. QED BY <2>2, <2>3
<1>3. b > a
    BY <1>1, DayOrMidnight DEF DayInv
<1>4. a >= Closes(m) + Settle
    BY DEF FinalToday, Here
<1>5. Closes(m) + Settle \in Nat
    BY ClockBounds DEF Closes, Settle, Hour
<1>. HIDE DEF a, b
<1>6. b > Closes(m) + Settle
    BY <1>2, <1>3, <1>4, <1>5
<1>. QED BY <1>6 DEF b

LEMMA DayInitially == DayInit => DayInv
<1>. SUFFICES ASSUME DayInit
              PROVE  DayInv
    OBVIOUS
<1>1. 0 \in 0 .. Week - 1
    BY ClockBounds DEF Week, Day, Hour
<1>2. "none" \notin Markets
    BY ClockBounds
<1>. QED BY <1>1, <1>2 DEF DayInit, DayInv, DayTypeOK, NightlyInv, LiveInv, Idle, NoLive, Jobs

\* Time goes on: the only step that moves a clock.
LEMMA TickKeepsTheDay ==
    ASSUME DayInv, Tick
    PROVE  DayInv'
<1>. DEFINE there(m) == Local(Zone(m), After[now], season)
            midnight == {m \in Markets : MinuteOf(there(m)) = 0}
            closed == {m \in Markets : /\ MinuteOf(there(m)) = Closes(m) + Settle
                                       /\ Weekday(there(m))}
            aged(x) == IF x = "today" THEN "earlier" ELSE x
<1>1. now' = After[now] /\ due = {} /\ UNCHANGED <<season, up>>
    BY DEF Tick
<1>2. now' \in Moments /\ now' \in 0 .. Week - 1
    BY <1>1, NextMoment, MomentsAreEnough DEF DayInv
<1>3. \A m \in Markets : FinalToday(m)' <=> MinuteOf(there(m)) >= Closes(m) + Settle
    BY <1>1 DEF FinalToday, Here
<1>4. \A m \in Markets : FinalToday(m) /\ m \notin midnight
                           => FinalToday(m)' /\ m \notin closed
    <2>. SUFFICES ASSUME NEW m \in Markets, FinalToday(m), m \notin midnight
                  PROVE  FinalToday(m)' /\ m \notin closed
        OBVIOUS
    <2>1. MinuteOf(there(m)) > Closes(m) + Settle
        BY OverStaysOver
    <2>2. Closes(m) + Settle \in Int
        BY DEF Closes, Settle, Hour
    <2>3. MinuteOf(there(m)) \in Int
        <3>1. MinuteOf(there(m)) = Reads(Offset(Zone(m), season) + 1440, After[now])
            BY <1>1, <1>2, LocalMinute DEF DayInv, DayTypeOK
        <3>2. Offset(Zone(m), season) \in Int
            BY OffsetsAreHours DEF DayInv, DayTypeOK
        <3>. QED BY <1>1, <1>2, <3>1, <3>2 DEF Reads
    <2>4. MinuteOf(there(m)) >= Closes(m) + Settle /\ MinuteOf(there(m)) # Closes(m) + Settle
        <3>. HIDE DEF there
        <3>. QED BY <2>1, <2>2, <2>3
    <2>. QED BY <1>3, <2>4
<1>5. PICK T \in SUBSET midnight : trades' = [m \in Markets |-> IF m \in midnight THEN m \in T
                                                             ELSE trades[m]]
    BY <1>1 DEF Tick
<1>6. /\ due' = IF up THEN JobsAt(After[now]) ELSE {}
      /\ today' = [m \in Markets |-> today[m] /\ m \notin midnight]
      /\ served' = [m \in Markets |-> served[m] /\ m \notin midnight]
      /\ live' = [m \in Markets |-> IF m \in midnight THEN aged(live[m]) ELSE live[m]]
      /\ liveRun' = IF liveRun.at \in midnight
                    THEN [liveRun EXCEPT !.got = aged(@)] ELSE liveRun
      /\ data' = [m \in Markets |->
                    IF m \notin closed THEN data[m]
                    ELSE IF trades[m] THEN "behind"
                    ELSE IF data[m] = "current" THEN "holiday" ELSE data[m]]
      /\ run' = IF run.kind = "nightly" /\ run.todo \intersect midnight # {}
                THEN [run EXCEPT !.kind = "late"] ELSE run
    BY <1>1 DEF Tick
<1>7. /\ DayTypeOK /\ midnight \subseteq Markets
      /\ \A r \in JobsAt(After[now]) \intersect Runs :
            MinuteOf(Local(RunZone(r), After[now], season)) = RunMinute(r)
      /\ JobsAt(After[now]) \subseteq Jobs
    BY DEF DayInv, JobsAt, Jobs, Runs
<1>8. NightlyInv /\ LiveInv
    BY DEF DayInv
<1>. HIDE DEF midnight, closed
<1>9. DayTypeOK'
    <2>1. {trades', today', served'} \subseteq [Markets -> BOOLEAN]
        <3>1. trades' \in [Markets -> BOOLEAN]
            <4>1. \A m \in Markets : (IF m \in midnight THEN m \in T ELSE trades[m]) \in BOOLEAN
                <5>1. \A m \in Markets : trades[m] \in BOOLEAN
                    BY <1>7 DEF DayTypeOK
                <5>. SUFFICES ASSUME NEW m \in Markets
                              PROVE  (IF m \in midnight THEN m \in T ELSE trades[m]) \in BOOLEAN
                    OBVIOUS
                <5>2. CASE m \in midnight
                    <6>. DEFINE b == m \in T
                    <6>1. b \in BOOLEAN
                        OBVIOUS
                    <6>. HIDE DEF b
                    <6>2. (IF m \in midnight THEN b ELSE trades[m]) \in BOOLEAN
                        BY <5>2, <6>1
                    <6>. QED BY <6>2 DEF b
                <5>3. CASE m \notin midnight
                    BY <5>1, <5>3, Zenon
                <5>. QED BY <5>2, <5>3, Zenon
            <4>. QED BY <1>5, <4>1, Zenon
        <3>2. today' \in [Markets -> BOOLEAN]
            BY <1>6, <1>7 DEF DayTypeOK
        <3>3. served' \in [Markets -> BOOLEAN]
            BY <1>6, <1>7 DEF DayTypeOK
        <3>. QED BY <3>1, <3>2, <3>3
    <2>2. /\ data' \in [Markets -> {"current", "holiday", "behind"}]
          /\ live' \in [Markets -> {"none", "today", "earlier"}]
        BY <1>6, <1>7 DEF DayTypeOK
    <2>3. run' \in [kind : {"none", "nightly", "late", "startup", "manual"},
                    todo : SUBSET Markets]
        BY <1>6, <1>7 DEF DayTypeOK
    <2>4. /\ liveRun' \in [todo : SUBSET Markets, at : Markets \union {"none"},
                           got : {"none", "today", "earlier"}]
          /\ liveRun'.at \in liveRun'.todo \union {"none"}
        BY <1>6, <1>7 DEF DayTypeOK
    <2>5. now' \in 0 .. Week - 1 /\ season' \in Seasons /\ due' \subseteq Jobs
          /\ up' \in BOOLEAN
        BY <1>1, <1>2, <1>6, <1>7 DEF DayTypeOK
    <2>. QED BY <2>1, <2>2, <2>3, <2>4, <2>5 DEF DayTypeOK
<1>10. NightlyInv'
    <2>1. \A r \in due' \intersect Runs : \A m \in RunMarkets(r) : FinalToday(m)'
        <3>. SUFFICES ASSUME NEW r \in due' \intersect Runs, NEW m \in RunMarkets(r)
                      PROVE  FinalToday(m)'
            OBVIOUS
        <3>1. MinuteOf(Local(RunZone(r), After[now], season)) = RunMinute(r)
            BY <1>6, <1>7
        <3>2. After[now] \in 0 .. Week - 1 /\ season \in Seasons
            BY <1>1, <1>2, <1>7 DEF DayTypeOK
        <3>3. MinuteOf(there(m)) >= Closes(m) + Settle
            BY <3>1, <3>2, RunsAreAfterTheClose
        <3>. QED BY <1>3, <3>3 DEF RunMarkets
    <2>2. run'.kind = "nightly" => \A m \in run'.todo : FinalToday(m)'
        <3>. SUFFICES ASSUME run'.kind = "nightly"
                      PROVE  \A m \in run'.todo : FinalToday(m)'
            OBVIOUS
        <3>1. run.kind = "nightly" /\ run.todo \intersect midnight = {} /\ run' = run
            BY <1>6, <1>7 DEF DayTypeOK
        <3>. QED BY <3>1, <1>4, <1>7, <1>8 DEF DayTypeOK, NightlyInv
    <2>3. \A m \in Markets : served'[m] => FinalToday(m)' /\ data'[m] # "behind"
        <3>. SUFFICES ASSUME NEW m \in Markets, served'[m]
                      PROVE  FinalToday(m)' /\ data'[m] # "behind"
            OBVIOUS
        <3>1. served[m] /\ m \notin midnight
            BY <1>6
        <3>2. FinalToday(m)' /\ m \notin closed /\ data[m] # "behind"
            BY <3>1, <1>4, <1>8 DEF NightlyInv
        <3>. QED BY <3>2, <1>6
    <2>. QED BY <2>1, <2>2, <2>3 DEF NightlyInv
<1>11. LiveInv'
    <2>1. \A m \in Markets : live'[m] = "today" => trades'[m]
        BY <1>5, <1>6, <1>8 DEF LiveInv
    <2>2. liveRun'.at \in Markets /\ liveRun'.got = "today" => trades'[liveRun'.at]
        BY <1>5, <1>6, <1>7, <1>8 DEF LiveInv, DayTypeOK
    <2>. QED BY <2>1, <2>2 DEF LiveInv
<1>. QED BY <1>2, <1>9, <1>10, <1>11 DEF DayInv

\* Every other step leaves the clocks and the sessions alone.
LEMMA StepsKeepTheDay ==
    ASSUME DayInv, [DayNext]_dayVars, ~Tick
    PROVE  DayInv'
<1>. USE DEF DayInv
<1>. SUFFICES ASSUME DayNext
              PROVE  DayInv'
    BY DEF dayVars, DayTypeOK, NightlyInv, LiveInv, FinalToday, Here
<1>1. "none" \notin Markets
    BY ClockBounds
<1>2. \A r \in Runs : RunMarkets(r) \subseteq Markets
    BY DEF RunMarkets
<1>3. /\ NightlyInv /\ LiveInv /\ DayTypeOK
      /\ UNCHANGED <<now, season>> => \A m \in Markets : FinalToday(m) => FinalToday(m)'
    BY DEF FinalToday, Here
<1>4. ASSUME UNCHANGED <<now, season, served, data>>, due' \subseteq due,
              run'.kind = "nightly" => run.kind = "nightly" /\ run'.todo \subseteq run.todo
       PROVE  NightlyInv'
    BY <1>3, <1>2, <1>4 DEF NightlyInv, DayTypeOK
<1>5. ASSUME UNCHANGED <<trades, live, liveRun>>
       PROVE  LiveInv'
    BY <1>3, <1>5 DEF LiveInv
<1>6. ASSUME NEW r \in Runs, FireNightly(r)
      PROVE  DayInv'
    <2>1. DayTypeOK' /\ now' = now
        BY <1>3, <1>2, <1>6 DEF FireNightly, StartRun, DayTypeOK
    <2>2. NightlyInv'
        BY <1>3, <1>2, <1>6 DEF FireNightly, StartRun, NightlyInv
    <2>3. LiveInv'
        BY <1>5, <1>6 DEF FireNightly
    <2>. QED BY <2>1, <2>2, <2>3
<1>7. ASSUME NEW r \in Runs, DropNightly(r)
      PROVE  DayInv'
    <2>1. DayTypeOK' /\ now' = now
        BY <1>3, <1>7 DEF DropNightly, DayTypeOK
    <2>2. NightlyInv'
        BY <1>4, <1>7 DEF DropNightly
    <2>3. LiveInv'
        BY <1>5, <1>7 DEF DropNightly
    <2>. QED BY <2>1, <2>2, <2>3
<1>8. ASSUME NEW ms \in SUBSET Markets, Manual(ms)
      PROVE  DayInv'
    <2>1. DayTypeOK' /\ now' = now
        BY <1>3, <1>8 DEF Manual, StartRun, DayTypeOK
    <2>2. NightlyInv'
        BY <1>4, <1>8 DEF Manual, StartRun
    <2>3. LiveInv'
        BY <1>5, <1>8 DEF Manual
    <2>. QED BY <2>1, <2>2, <2>3
<1>9. ASSUME NEW m \in Markets, Fetch(m)
      PROVE  DayInv'
    <2>1. DayTypeOK'
        BY <1>3, <1>9 DEF Fetch, DayTypeOK
    <2>2. NightlyInv'
        <3>1. \A k \in Markets : served'[k] => FinalToday(k) /\ data'[k] # "behind"
            BY <1>3, <1>9 DEF Fetch, DayTypeOK, NightlyInv
        <3>2. run'.kind = run.kind /\ run'.todo \subseteq run.todo /\ run.todo \subseteq Markets
            BY <1>3, <1>9 DEF Fetch, DayTypeOK
        <3>3. due' = due /\ UNCHANGED <<now, season>>
            BY <1>9 DEF Fetch
        <3>. QED BY <3>1, <3>2, <3>3, <1>3, <1>2 DEF NightlyInv
    <2>3. LiveInv' /\ now' = now
        BY <1>3, <1>9 DEF Fetch, LiveInv
    <2>. QED BY <2>1, <2>2, <2>3
<1>10. CASE EndRun \/ FetchFails
    <2>1. DayTypeOK' /\ now' = now
        BY <1>3, <1>10 DEF EndRun, FetchFails, Idle, DayTypeOK
    <2>2. NightlyInv'
        BY <1>4, <1>10 DEF EndRun, FetchFails, Idle
    <2>3. LiveInv'
        BY <1>5, <1>10 DEF EndRun, FetchFails
    <2>. QED BY <2>1, <2>2, <2>3
<1>11. ASSUME NEW ms \in SUBSET Markets, EndRunLive(ms)
      PROVE  DayInv'
    <2>1. DayTypeOK' /\ now' = now /\ liveRun'.at = "none"
        BY <1>3, <1>11 DEF EndRunLive, Idle, NoLive, DayTypeOK
    <2>2. NightlyInv'
        BY <1>4, <1>11 DEF EndRunLive, Idle
    <2>3. LiveInv'
        BY <1>3, <1>1, <1>11, <2>1 DEF EndRunLive, LiveInv
    <2>. QED BY <2>1, <2>2, <2>3
<1>12. CASE FireLive
    <2>1. DayTypeOK' /\ now' = now
        BY <1>3, <1>12 DEF FireLive, NoLive, DayTypeOK
    <2>2. NightlyInv'
        BY <1>4, <1>12 DEF FireLive
    <2>3. LiveInv'
        BY <1>3, <1>1, <1>12 DEF FireLive, NoLive, LiveInv, DayTypeOK
    <2>. QED BY <2>1, <2>2, <2>3
<1>13. ASSUME NEW m \in Markets, Download(m)
       PROVE  DayInv'
    <2>1. DayTypeOK' /\ now' = now
        BY <1>3, <1>13 DEF Download, DayTypeOK
    <2>2. NightlyInv'
        BY <1>4, <1>13 DEF Download
    <2>3. LiveInv'
        BY <1>3, <1>1, <1>13 DEF Download, LiveInv, DayTypeOK
    <2>. QED BY <2>1, <2>2, <2>3
<1>14. CASE Keep
    <2>1. DayTypeOK' /\ now' = now
        BY <1>3, <1>14 DEF Keep, DayTypeOK
    <2>2. NightlyInv'
        BY <1>4, <1>14 DEF Keep
    <2>3. LiveInv'
        BY <1>3, <1>1, <1>14 DEF Keep, LiveInv, DayTypeOK
    <2>. QED BY <2>1, <2>2, <2>3
<1>15. CASE Crash
    <2>1. DayTypeOK' /\ now' = now
        BY <1>3, <1>15 DEF Crash, Idle, NoLive, DayTypeOK
    <2>2. NightlyInv'
        BY <1>4, <1>15 DEF Crash, Idle
    <2>3. LiveInv'
        BY <1>3, <1>1, <1>15 DEF Crash, NoLive, LiveInv
    <2>. QED BY <2>1, <2>2, <2>3
<1>16. CASE Restart
    <2>1. Behind \subseteq Markets
        BY DEF Behind
    <2>2. DayTypeOK' /\ now' = now /\ liveRun'.at = "none"
        BY <1>3, <1>16, <2>1 DEF Restart, Idle, NoLive, DayTypeOK
    <2>3. NightlyInv'
        BY <1>4, <1>16 DEF Restart, Idle
    <2>4. LiveInv'
        BY <1>3, <1>1, <1>16, <2>2 DEF Restart, LiveInv
    <2>. QED BY <2>2, <2>3, <2>4
<1>. QED BY <1>6, <1>7, <1>8, <1>9, <1>10, <1>11, <1>12, <1>13, <1>14, <1>15, <1>16
        DEF DayNext, RunStep, LiveStep

-----------------------------------------------------------------------------
(* The theorems. *)

\* The invariant that the results below follow from.
THEOREM DayIsInvariant == DaySpec => []DayInv
<1>1. DayInit => DayInv
    BY DayInitially
<1>2. DayInv /\ [DayNext]_dayVars => DayInv'
    BY TickKeepsTheDay, StepsKeepTheDay
<1>. QED BY <1>1, <1>2, PTL DEF DaySpec

\* What a day's nightly run has fetched is not behind once that day's session is
\* over: the runs' hours are after every close of their group, in every season
\* ("every European exchange has closed by 17:35", markets.py:489).
THEOREM NightlyRunsHaveTheDay == DaySpec => []NightlyHasTheDay
<1>1. DayInv => NightlyHasTheDay
    BY DEF DayInv, NightlyInv, NightlyHasTheDay
<1>. QED BY <1>1, DayIsInvariant, PTL

\* A live price is on show only on a day its exchange trades, and never over the
\* final bar of that day (live_prices.py:311-313).
THEOREM LivePricesAreOfASession == DaySpec => []LiveIsOfASession
<1>1. DayInv => LiveIsOfASession
    BY DEF DayInv, LiveInv, LiveIsOfASession, OnShow
<1>. QED BY <1>1, DayIsInvariant, PTL
=============================================================================
