------------------------ MODULE PriceHistory_proofs ------------------------
(***************************************************************************)
(* Proofs about PriceHistory: type correctness, and that vouched writes    *)
(* keep the stored history on one price scale and without a hole, for any  *)
(* number of days, restatements and readers.                               *)
(***************************************************************************)
EXTENDS PriceHistory, WellFoundedInduction, TLAPS

\* A non-empty set of naturals has a least element.
LEMMA LeastNatural ==
    ASSUME NEW S \in SUBSET Nat, S # {}
    PROVE  \E x \in S : \A y \in S : x <= y
<1>1. PICK x \in S : \A y \in S : ~(<<y, x>> \in OpToRel(<, Nat))
    BY NatLessThanWellFounded, WFMin
<1>2. \A y \in S : ~(y < x)
    BY <1>1, Zenon DEF OpToRel
<1>. QED BY <1>2

\* First(s) is the oldest day a non-empty series holds a bar for.
LEMMA FirstIsOldest ==
    ASSUME NEW s, Held(s) # {}
    PROVE  /\ First(s) \in Held(s)
           /\ \A e \in Held(s) : First(s) <= e
<1>1. Held(s) \in SUBSET Nat
    BY CalendarAssumption DEF Held, Days
<1>2. \E d \in Held(s) : \A e \in Held(s) : d <= e
    BY <1>1, LeastNatural
<1>. QED BY <1>2 DEF First

\* Last(s) is the newest one.
LEMMA LastIsNewest ==
    ASSUME NEW s, Held(s) # {}
    PROVE  /\ Last(s) \in Held(s)
           /\ \A e \in Held(s) : e <= Last(s)
<1>. DEFINE S == {LastDay - d : d \in Held(s)}
<1>1. S \in SUBSET Nat /\ S # {}
    BY CalendarAssumption DEF Held, Days
<1>2. PICK x \in S : \A y \in S : x <= y
    BY <1>1, LeastNatural
<1>3. PICK d \in Held(s) : x = LastDay - d
    OBVIOUS
<1>4. \A e \in Held(s) : LastDay - d <= LastDay - e
    BY <1>2, <1>3
<1>5. \A e \in Held(s) : e <= d
    BY <1>4, CalendarAssumption DEF Held, Days
<1>. QED BY <1>5 DEF Last

\* The operators on series return series.
LEMMA SeriesTypes ==
    /\ NoBars \in Series
    /\ Held(NoBars) = {}
    /\ \A s \in Series : \A from, to : Window(s, from, to) \in Series
    /\ \A s, t \in Series : Upsert(s, t) \in Series
    /\ scale \in 1..MaxScale => \A from, to : Served(from, to) \in Series
    /\ \A s, t \in Series : Backfill(s, t) \in Series
<1>. USE CalendarAssumption DEF Series, Scales
<1>1. NoBars \in Series /\ Held(NoBars) = {}
    BY DEF NoBars, Held
<1>2. \A s \in Series : \A from, to : Window(s, from, to) \in Series
    BY DEF Window
<1>3. \A s, t \in Series : Upsert(s, t) \in Series
    BY DEF Upsert
<1>4. scale \in 1..MaxScale => \A from, to : Served(from, to) \in Series
    BY DEF Served
<1>5. \A s, t \in Series : Backfill(s, t) \in Series
    BY <1>2 DEF Backfill
<1>. QED BY <1>1, <1>2, <1>3, <1>4, <1>5

\* A day of a non-empty series is an integer.
LEMMA EndsAreDays ==
    ASSUME NEW s, Held(s) # {}
    PROVE  First(s) \in Int /\ Last(s) \in Int
BY FirstIsOldest, LastIsNewest, CalendarAssumption DEF Held, Days

---------------------------------------------------------------------------
\* The initial state is well typed.
LEMMA InitTypeOK == Init => TypeOK
<1>. SUFFICES ASSUME Init PROVE TypeOK
    OBVIOUS
<1>. USE CalendarAssumption
<1>1. bars \in Series
    BY DEF Init, Series, Scales, NoBars, Days
<1>2. night \in Nights
    BY SeriesTypes DEF Init, Idle, NightPC, Nights
<1>3. reads \in [Readers -> Reads]
    BY SeriesTypes DEF Init, IdleRead, Reads
<1>4. today \in Nat /\ sessions \subseteq Days /\ scale \in 1..MaxScale
    BY DEF Init
<1>5. firstServed \in Nat /\ retryAfter \in Nat /\ attempted \subseteq 0..LastDay
    BY DEF Init
<1>6. unvouched \subseteq Slips
    BY DEF Init
<1>7. night.pc # "repair"
    BY DEF Init, Idle
<1>. QED BY <1>1, <1>2, <1>3, <1>4, <1>5, <1>6, <1>7 DEF TypeOK

\* A non-empty series is not the empty one.
LEMMA NonEmpty ==
    ASSUME NEW s \in Series
    PROVE  s # NoBars <=> Held(s) # {}
BY DEF Series, NoBars, Held

\* The record BeginRead gives a reader is well typed.
LEMMA ReadStarts ==
    ASSUME NEW from \in 1..LastDay, NEW to \in 1..LastDay, NEW stored \in Series
    PROVE  [IdleRead EXCEPT !.pc = "fetch", !.from = from, !.to = to, !.stored = stored] \in Reads
<1>1. from \in 0..LastDay /\ to \in 0..LastDay /\ NoBars \in Series
    BY CalendarAssumption, SeriesTypes
<1>. QED BY <1>1 DEF Reads, IdleRead

\* Every step keeps every variable in its range.
LEMMA NextTypeOK == TypeOK /\ [Next]_vars => TypeOK'
<1>. SUFFICES ASSUME TypeOK, [Next]_vars PROVE TypeOK'
    OBVIOUS
<1>. USE CalendarAssumption, SeriesTypes DEF TypeOK
<1>idle. Idle \in Nights /\ Idle.pc # "repair" /\ IdleRead \in Reads
    BY DEF Idle, IdleRead, NightPC, Nights, Reads
<1>1. ASSUME NEW traded \in BOOLEAN, NewDay(traded) PROVE TypeOK'
    BY <1>1 DEF NewDay, Days
<1>2. CASE Restate
    BY <1>2 DEF Restate
<1>3. CASE Restart
    BY <1>3, <1>idle DEF Restart, provider
<1>4. ASSUME NEW full \in BOOLEAN, BeginNight(full) PROVE TypeOK'
    <2>. DEFINE from == today - (IF full THEN FullHistoryDays ELSE IncrementalDays)
    <2>1. from \in Int
        OBVIOUS
    <2>2. night' = [Idle EXCEPT !.pc = "stored", !.from = from, !.eff = from, !.full = full]
        BY <1>4 DEF BeginNight
    <2>. HIDE DEF from
    <2>3. night' \in Nights /\ night'.pc # "repair"
        BY <2>1, <2>2, <1>idle DEF Nights, NightPC
    <2>. QED BY <1>4, <2>3 DEF BeginNight, provider
<1>5. CASE ReadStored
    <2>1. PICK stored \in {Window(bars, night.from, LastDay), NoBars} :
              \E pc \in {"span", "fetch"} :
                  night' = [night EXCEPT !.stored = stored, !.pc = pc]
        BY <1>5 DEF ReadStored
    <2>. stored \in Series
        <3>1. Window(bars, night.from, LastDay) \in Series /\ Window(bars, night.eff, LastDay) \in Series
            OBVIOUS
        <3>. QED BY <3>1
    <2>2. night' \in Nights /\ night'.pc # "repair"
        BY <2>1 DEF Nights, NightPC
    <2>3. retryAfter' \in Nat
        BY <1>5 DEF ReadStored
    <2>. QED BY <1>5, <2>2, <2>3 DEF ReadStored, provider
<1>6. CASE WidenForGap
    <2>. DEFINE reach == Last(bars) - GapOverlapDays
                oldest == night.from + IncrementalDays - FullHistoryDays
                widened == IF reach > oldest THEN reach ELSE oldest
    <2>1. \/ Held(bars) # {} /\ night' = [night EXCEPT !.eff = widened, !.pc = "reread"]
          \/ night' = [night EXCEPT !.pc = "fetch"]
        BY <1>6 DEF WidenForGap
    <2>2. Held(bars) # {} => widened \in Int
        BY EndsAreDays DEF Nights
    <2>. HIDE DEF widened
    <2>3. night' \in Nights /\ night'.pc # "repair"
        BY <2>1, <2>2 DEF Nights, NightPC
    <2>. QED BY <1>6, <2>3 DEF WidenForGap, provider
<1>7. CASE ReReadStored
    <2>1. PICK stored \in {Window(bars, night.eff, LastDay), NoBars} :
              night' = [night EXCEPT !.stored = stored, !.pc = "fetch"]
        BY <1>7 DEF ReReadStored
    <2>. stored \in Series
        <3>1. Window(bars, night.from, LastDay) \in Series /\ Window(bars, night.eff, LastDay) \in Series
            OBVIOUS
        <3>. QED BY <3>1
    <2>2. night' \in Nights /\ night'.pc # "repair"
        BY <2>1 DEF Nights, NightPC
    <2>. QED BY <1>7, <2>2 DEF ReReadStored, provider
<1>8. CASE FetchFails
    BY <1>8, <1>idle DEF FetchFails, provider
<1>9. CASE Fetch
    <2>. DEFINE fetched == Served(night.eff, LastDay)
                vouched == Common(night.stored, fetched) # {}
                pc == IF Adjusted(night.stored, fetched) THEN "repair" ELSE "write"
    <2>1. night' = [night EXCEPT !.fetched = fetched, !.vouched = vouched, !.pc = pc]
        BY <1>9 DEF Fetch
    <2>2. fetched \in Series /\ vouched \in BOOLEAN /\ pc \in NightPC
        BY DEF NightPC
    <2>. HIDE DEF fetched, vouched, pc
    <2>3. night' \in Nights /\ night'.fetched = fetched
        BY <2>1, <2>2 DEF Nights
    <2>4. retryAfter' \in Nat
        BY <1>9 DEF Fetch
    <2>5. Held(night'.fetched) # {}
        BY <1>9, <2>2, <2>3, NonEmpty DEF Fetch, fetched
    <2>. QED BY <1>9, <2>3, <2>4, <2>5 DEF Fetch, provider
<1>10. CASE RepairSpan
    <2>1. \/ Held(bars) # {} /\ night' = [night EXCEPT !.repairFrom = First(bars), !.pc = "refetch"]
          \/ night' = [night EXCEPT !.repairFrom = First(night.fetched) - 1,
                                    !.vouched = FALSE, !.pc = "refetch"]
        BY <1>10 DEF RepairSpan
    <2>2. Held(bars) # {} => First(bars) \in Int
        BY EndsAreDays
    <2>3. First(night.fetched) - 1 \in Int
        BY <1>10, EndsAreDays DEF RepairSpan
    <2>4. night' \in Nights /\ night'.pc # "repair"
        BY <2>1, <2>2, <2>3 DEF Nights, NightPC
    <2>. QED BY <1>10, <2>4 DEF RepairSpan, provider
<1>11. CASE RepairRefused
    BY <1>11, <1>idle DEF RepairRefused, provider
<1>12. CASE RepairFetch
    BY <1>12 DEF RepairFetch, provider, NightPC, Nights
<1>13. CASE Write
    <2>1. bars' \in Series /\ night' = Idle /\ unvouched' \subseteq Slips
        BY <1>13 DEF Write, Nights, Slips, TypeOK
    <2>. QED BY <1>13, <2>1, <1>idle DEF Write, provider
<1>14. CASE WriteFails
    BY <1>14, <1>idle DEF WriteFails, provider
<1>15. ASSUME NEW r \in Readers, NEW from \in 1..LastDay, NEW to \in 1..LastDay,
              BeginRead(r, from, to)
       PROVE  TypeOK'
    <2>. DEFINE stored == Window(bars, from, to)
    <2>1. reads' = [reads EXCEPT ![r] = [IdleRead EXCEPT
                        !.pc = "fetch", !.from = from, !.to = to, !.stored = stored]]
        BY <1>15 DEF BeginRead
    <2>2. stored \in Series
        OBVIOUS
    <2>. HIDE DEF stored
    <2>3. [IdleRead EXCEPT !.pc = "fetch", !.from = from, !.to = to, !.stored = stored] \in Reads
        BY <2>2, ReadStarts
    <2>4. reads' \in [Readers -> Reads]
        BY <2>1, <2>3
    <2>. QED BY <1>15, <2>4 DEF BeginRead, provider
<1>16. ASSUME NEW r \in Readers, ReadFetchFails(r) PROVE TypeOK'
    BY <1>16, <1>idle DEF ReadFetchFails, provider
<1>17. ASSUME NEW r \in Readers, ReadFetch(r) PROVE TypeOK'
    <2>. DEFINE fetched == Served(reads[r].from, reads[r].to)
                new == Backfill(reads[r].stored, fetched)
                vouched == Common(reads[r].stored, fetched) # {}
                busy == [reads[r] EXCEPT !.fetched = new, !.pc = "write", !.vouched = vouched]
    <2>1. \E v \in {IdleRead, busy} : reads' = [reads EXCEPT ![r] = v]
        BY <1>17 DEF ReadFetch
    <2>2. new \in Series /\ vouched \in BOOLEAN
        BY DEF Reads
    <2>. HIDE DEF new, vouched
    <2>3. busy \in Reads
        BY <2>2 DEF Reads
    <2>. HIDE DEF busy
    <2>4. reads' \in [Readers -> Reads]
        BY <2>1, <2>3, <1>idle
    <2>5. attempted' \subseteq 0..LastDay
        BY <1>17 DEF ReadFetch, Reads
    <2>. QED BY <1>17, <2>4, <2>5 DEF ReadFetch, provider
<1>18. ASSUME NEW r \in Readers, ReadWrite(r) PROVE TypeOK'
    <2>1. bars' \in Series /\ unvouched' \subseteq Slips
        BY <1>18 DEF ReadWrite, Reads
    <2>2. reads' \in [Readers -> Reads]
        BY <1>18, <1>idle DEF ReadWrite
    <2>. QED BY <1>18, <2>1, <2>2 DEF ReadWrite, provider
<1>19. ASSUME NEW r \in Readers, ReadWriteFails(r) PROVE TypeOK'
    BY <1>19, <1>idle DEF ReadWriteFails, provider
<1>20. CASE UNCHANGED vars
    BY <1>20 DEF vars
<1>. QED
    BY <1>1, <1>2, <1>3, <1>4, <1>5, <1>6, <1>7, <1>8, <1>9, <1>10, <1>11, <1>12, <1>13,
       <1>14, <1>15, <1>16, <1>17, <1>18, <1>19, <1>20
    DEF Next, Environment, Ingest, Reading

\* Every variable of the price history stays in its range.
THEOREM TypeCorrect == Spec => []TypeOK
BY InitTypeOK, NextTypeOK, PTL DEF Spec
---------------------------------------------------------------------------
(* One price scale. *)

\* What a bar of a derived series says about the series it comes from.
LEMMA BarFacts ==
    /\ \A s \in Series : \A from, to : \A d \in Held(Window(s, from, to)) :
           d \in Held(s) /\ Window(s, from, to)[d] = s[d]
    /\ \A from, to : \A d \in Held(Served(from, to)) :
           Served(from, to)[d] = scale /\ d \in sessions /\ firstServed <= d
    /\ \A s, t \in Series : \A d \in Held(Backfill(s, t)) :
           d \in Held(t) /\ Backfill(s, t)[d] = t[d]
    /\ \A s, t \in Series : \A d \in Held(Upsert(s, t)) :
           \/ d \in Held(t) /\ Upsert(s, t)[d] = t[d]
           \/ d \in Held(s) /\ d \notin Held(t) /\ Upsert(s, t)[d] = s[d]
    /\ \A d : d \notin Held(NoBars)
<1>1. \A s \in Series : \A from, to : \A d \in Held(Window(s, from, to)) :
          d \in Held(s) /\ Window(s, from, to)[d] = s[d]
    BY DEF Held, Window
<1>2. \A from, to : \A d \in Held(Served(from, to)) :
          Served(from, to)[d] = scale /\ d \in sessions /\ firstServed <= d
    BY DEF Held, Served
<1>3. \A s, t \in Series : \A d \in Held(Backfill(s, t)) :
          d \in Held(t) /\ Backfill(s, t)[d] = t[d]
    BY DEF Held, Backfill, Window
<1>4. \A s, t \in Series : \A d \in Held(Upsert(s, t)) :
          \/ d \in Held(t) /\ Upsert(s, t)[d] = t[d]
          \/ d \in Held(s) /\ d \notin Held(t) /\ Upsert(s, t)[d] = s[d]
    BY DEF Held, Upsert
<1>5. \A d : d \notin Held(NoBars)
    BY DEF Held, NoBars
<1>. QED BY <1>1, <1>2, <1>3, <1>4, <1>5

\* The idle records hold no bars.
LEMMA IdleHoldsNothing ==
    /\ Idle.pc = "idle" /\ Idle.stored = NoBars /\ Idle.fetched = NoBars
    /\ IdleRead.pc = "idle" /\ IdleRead.stored = NoBars /\ IdleRead.fetched = NoBars
BY DEF Idle, IdleRead

\* A call that is not in flight satisfies its part of the invariant.
LEMMA IdleIsFine ==
    /\ night = Idle => NightInv
    /\ \A r \in Readers : reads[r] = IdleRead => ReadInv(r)
BY IdleHoldsNothing, BarFacts DEF NightInv, ReadInv, OnOneScale

\* The strengthened invariant holds initially: what is stored is on one scale.
LEMMA InitSeries == Init => SeriesInv
<1>. SUFFICES ASSUME Init PROVE SeriesInv
    OBVIOUS
<1>1. Held(bars) \subseteq sessions
    BY DEF Init, Held, NoBars
<1>2. OneScale /\ \A d \in Held(bars) : bars[d] <= scale
    BY DEF Init, Held, NoBars, OneScale
<1>3. NightInv /\ \A r \in Readers : ReadInv(r)
    BY IdleIsFine DEF Init
<1>. QED BY <1>1, <1>2, <1>3 DEF SeriesInv, TableInv, VouchedOneScale

\* Days are positive, and so are the scales of bars.
LEMMA HeldBars ==
    ASSUME NEW s \in Series
    PROVE  \A d \in Held(s) : d \in Days /\ d \in Nat /\ s[d] \in Nat /\ s[d] > 0
BY CalendarAssumption DEF Held, Days, Series, Scales

\* A step that leaves the table alone keeps what is known of a call it does not move,
\* also when the provider restates.
LEMMA Undisturbed ==
    ASSUME TypeOK, SeriesInv, UNCHANGED <<bars, unvouched>>, sessions \subseteq sessions',
           scale' \in Int, scale <= scale'
    PROVE  /\ TableInv'
           /\ night' = night => NightInv'
           /\ \A r \in Readers : reads'[r] = reads[r] => ReadInv(r)'
<1>t. scale \in Int /\ bars \in Series /\ night.fetched \in Series
    BY CalendarAssumption DEF TypeOK, Nights
<1>r. \A r \in Readers : reads[r].fetched \in Series
    BY DEF TypeOK, Reads
<1>b. \A d \in Held(bars) : bars[d] \in Int
    BY <1>t, HeldBars
<1>1. TableInv'
    BY <1>t, <1>b DEF SeriesInv, TableInv, VouchedOneScale, InStep, OneScale, Held
<1>2. ASSUME NEW s \in Series, OnOneScale(s)
      PROVE  \A d \in Held(s) : /\ d \in sessions'
                                /\ s[d] <= scale'
                                /\ \A e \in Held(s) : s[e] = s[d]
    BY <1>2, <1>t, HeldBars DEF OnOneScale
<1>3. night' = night => NightInv'
    <2>. SUFFICES ASSUME night' = night PROVE NightInv'
        OBVIOUS
    <2>1. OnOneScale(night.fetched)'
        BY <1>2, <1>t DEF SeriesInv, NightInv, OnOneScale, Held
    <2>2. TableIsBehind => TableIsBehind'
        BY <1>t, <1>b DEF TableIsBehind, Held
    <2>3. (Agrees => Agrees') /\ (Replaces => Replaces')
        BY DEF Agrees, Replaces, Held
    <2>. QED BY <2>1, <2>2, <2>3 DEF SeriesInv, NightInv, InStep, Held
<1>4. \A r \in Readers : reads'[r] = reads[r] => ReadInv(r)'
    <2>. SUFFICES ASSUME NEW r \in Readers, reads'[r] = reads[r] PROVE ReadInv(r)'
        OBVIOUS
    <2>1. OnOneScale(reads[r].fetched)'
        BY <1>2, <1>r DEF SeriesInv, ReadInv, OnOneScale, Held
    <2>2. reads[r].pc = "write" /\ scale < scale' => Outdated(reads[r].fetched)'
        BY <1>t, <1>r, HeldBars DEF SeriesInv, ReadInv, OnOneScale, Outdated, Held
    <2>3. scale = scale' => (Outdated(reads[r].fetched) => Outdated(reads[r].fetched)')
        BY DEF Outdated, Held
    <2>4. scale = scale' \/ scale < scale'
        BY <1>t
    <2>. QED BY <2>1, <2>2, <2>3, <2>4 DEF SeriesInv, ReadInv, InStep, Held
<1>. QED BY <1>1, <1>3, <1>4

\* A window of the table is what the table holds, and what the provider serves is on its scale.
LEMMA DownloadsAreCurrent ==
    ASSUME TypeOK
    PROVE  \A from, to : /\ OnOneScale(Served(from, to))
                         /\ \A d \in Held(Served(from, to)) : Served(from, to)[d] = scale
<1>1. scale \in Int
    BY CalendarAssumption DEF TypeOK
<1>. QED BY <1>1, BarFacts DEF OnOneScale

\* One bar of a table on one scale tells the scale of all.
LEMMA OneTellsAll ==
    ASSUME SeriesInv, InStep, NEW d \in Held(bars)
    PROVE  \A e \in Held(bars) : bars[e] = bars[d]
BY DEF SeriesInv, TableInv, VouchedOneScale, OneScale

\* The ingest's write: whatever else is in flight, the table is on one scale after it, and
\* a vouched reader is overtaken by it or agrees with it.
LEMMA NightWrites ==
    ASSUME TypeOK, SeriesInv, Write, TypeOK'
    PROVE  SeriesInv'
<1>. DEFINE new == night.fetched
<1>t. /\ bars \in Series /\ new \in Series /\ scale \in Int /\ bars' \in Series
      /\ \A r \in Readers : reads[r] \in Reads
    BY CalendarAssumption DEF TypeOK, Nights
<1>1. /\ bars' = Upsert(bars, new) /\ night' = Idle /\ UNCHANGED <<scale, sessions, reads>>
      /\ night.pc = "write"
    BY DEF Write, provider
<1>2. InStep' => InStep /\ (Held(bars) = {} \/ night.vouched)
    BY DEF Write, InStep
<1>3. OnOneScale(new)
    BY DEF SeriesInv, NightInv
<1>. HIDE DEF new
<1>4. \A d \in Held(bars') : \/ d \in Held(new) /\ bars'[d] = new[d]
                             \/ d \in Held(bars) /\ d \notin Held(new) /\ bars'[d] = bars[d]
    BY <1>t, <1>1, BarFacts
<1>5. Held(bars) # {} /\ InStep' => Agrees \/ (TableIsBehind /\ Replaces)
    BY <1>1, <1>2 DEF SeriesInv, NightInv
<1>6. /\ \A d \in Held(bars) : bars[d] \in Nat /\ bars[d] > 0 /\ bars[d] <= scale /\ d \in sessions
      /\ \A d \in Held(new) : new[d] \in Nat /\ new[d] > 0 /\ new[d] <= scale /\ d \in sessions
    BY <1>t, <1>3, HeldBars DEF SeriesInv, TableInv, OnOneScale
<1>7. \A d \in Held(bars) : d \in Held(bars') /\ bars'[d] = IF d \in Held(new) THEN new[d] ELSE bars[d]
    BY <1>1 DEF Upsert, Held
<1>8. TableInv'
    <2>1. Held(bars') \subseteq sessions' /\ \A d \in Held(bars') : bars'[d] <= scale'
        BY <1>1, <1>4, <1>6
    <2>2. ASSUME InStep' PROVE \A d, e \in Held(bars') : bars'[d] = bars'[e]
        <3>1. CASE Held(bars) = {}
            BY <3>1, <1>4, <1>3 DEF OnOneScale
        <3>2. CASE Agrees /\ Held(bars) # {}
            <4>1. \A d, e \in Held(bars) : bars[d] = bars[e]
                BY <2>2, <1>2 DEF SeriesInv, TableInv, VouchedOneScale, OneScale
            <4>2. \A d \in Held(bars), e \in Held(new) : bars[d] = new[e]
                BY <3>2 DEF Agrees, new
            <4>3. \A d, e \in Held(new) : new[d] = new[e]
                BY <1>3 DEF OnOneScale
            <4>. QED BY <1>4, <4>1, <4>2, <4>3
        <3>3. CASE Replaces
            <4>1. \A d \in Held(bars') : d \in Held(new) /\ bars'[d] = new[d]
                BY <3>3, <1>4 DEF Replaces, new
            <4>. QED BY <4>1, <1>3 DEF OnOneScale
        <3>. QED BY <2>2, <1>5, <3>1, <3>2, <3>3
    <2>. QED BY <2>1, <2>2 DEF TableInv, VouchedOneScale, OneScale
<1>9. NightInv'
    BY <1>1, IdleHoldsNothing, BarFacts DEF NightInv, OnOneScale
<1>10. ASSUME NEW r \in Readers PROVE ReadInv(r)'
    <2>1. reads[r].stored \in Series /\ reads[r].fetched \in Series
        BY <1>t DEF Reads
    <2>2. ASSUME InStep', NEW d \in Held(reads[r].stored) PROVE bars'[d] >= reads[r].stored[d]
        <3>1. bars[d] >= reads[r].stored[d] /\ reads[r].stored[d] > 0 /\ d \in Days
              /\ reads[r].stored[d] \in Nat /\ bars[d] \in Nat
            <4>1. d \in Days /\ reads[r].stored[d] \in Nat /\ reads[r].stored[d] > 0
                BY <2>1, HeldBars
            <4>2. bars[d] \in Nat
                BY <1>t, <4>1, CalendarAssumption DEF Series, Scales
            <4>. QED BY <2>2, <1>2, <4>1, <4>2 DEF SeriesInv, ReadInv
        <3>2. d \in Held(bars)
            BY <3>1 DEF Held
        <3>3. CASE Agrees
            <4>1. bars'[d] = bars[d]
                BY <3>2, <3>3, <1>7 DEF Agrees, new
            <4>. QED BY <4>1, <3>1
        <3>4. CASE Replaces
            <4>1. bars'[d] = new[d] /\ bars[d] < new[d] /\ new[d] \in Nat
                BY <3>2, <3>4, <1>6, <1>7 DEF Replaces, new
            <4>. QED BY <4>1, <3>1
        <3>. QED BY <2>2, <1>5, <3>2, <3>3, <3>4
    <2>3. ASSUME InStep', reads[r].pc = "write", reads[r].vouched, ~Outdated(reads[r].fetched)
          PROVE  \A d \in Held(bars') : bars'[d] = scale
        <3>1. Held(bars) # {} /\ \A d \in Held(bars) : bars[d] = scale
            BY <2>3, <1>2 DEF SeriesInv, ReadInv
        <3>2. ~TableIsBehind
            BY <3>1, <1>t DEF TableIsBehind
        <3>3. Agrees
            BY <2>3, <3>1, <3>2, <1>5
        <3>4. \A e \in Held(new) : new[e] = scale
            BY <3>1, <3>3 DEF Agrees, new
        <3>. QED BY <3>1, <3>4, <1>4
    <2>4. InStep' /\ reads[r].pc = "write" /\ reads[r].vouched => Held(bars) # {}
        BY <1>2 DEF SeriesInv, ReadInv
    <2>5. Held(bars) # {} => Held(bars') # {}
        BY <1>7
    <2>6. OnOneScale(reads[r].fetched)' /\ (Outdated(reads[r].fetched)' <=> Outdated(reads[r].fetched))
        BY <1>1 DEF SeriesInv, ReadInv, OnOneScale, Outdated, Held
    <2>7. reads[r].pc = "write" => Held(reads[r].fetched) # {}
        BY DEF SeriesInv, ReadInv
    <2>. QED BY <1>1, <2>2, <2>3, <2>4, <2>5, <2>6, <2>7 DEF ReadInv, Held
<1>. QED BY <1>8, <1>9, <1>10 DEF SeriesInv

\* A reader's write: if it can be vouched for, the table was and is on the provider's scale,
\* so that no repair is under way.
LEMMA ReaderWrites ==
    ASSUME TypeOK, SeriesInv, NEW r \in Readers, ReadWrite(r), TypeOK'
    PROVE  SeriesInv'
<1>. DEFINE new == reads[r].fetched
<1>t. /\ bars \in Series /\ new \in Series /\ scale \in Int /\ bars' \in Series
      /\ night \in Nights /\ \A s \in Readers : reads[s] \in Reads
    BY CalendarAssumption DEF TypeOK, Reads
<1>1. /\ bars' = Upsert(bars, new) /\ UNCHANGED <<scale, sessions, night>>
      /\ reads[r].pc = "write"
      /\ reads'[r] = IdleRead /\ \A s \in Readers \ {r} : reads'[s] = reads[s]
    BY DEF ReadWrite, provider, TypeOK
<1>2. InStep' => InStep /\ (Held(bars) = {} \/ (reads[r].vouched /\ ~Outdated(new)))
    BY DEF ReadWrite, InStep, Slips
<1>3. OnOneScale(new)
    BY DEF SeriesInv, ReadInv
<1>4. InStep' /\ Held(bars) # {} =>
          /\ \A d \in Held(bars) : bars[d] = scale
          /\ \A d \in Held(new) : new[d] = scale
    BY <1>1, <1>2 DEF SeriesInv, ReadInv, Outdated
<1>. HIDE DEF new
<1>5. \A d \in Held(bars') : \/ d \in Held(new) /\ bars'[d] = new[d]
                             \/ d \in Held(bars) /\ d \notin Held(new) /\ bars'[d] = bars[d]
    BY <1>t, <1>1, BarFacts
<1>6. /\ \A d \in Held(bars) : bars[d] \in Nat /\ bars[d] > 0 /\ bars[d] <= scale /\ d \in sessions
      /\ \A d \in Held(new) : new[d] \in Nat /\ new[d] > 0 /\ new[d] <= scale /\ d \in sessions
    BY <1>t, <1>3, HeldBars DEF SeriesInv, TableInv, OnOneScale
<1>7. \A d \in Held(bars) : d \in Held(bars')
    BY <1>1 DEF Upsert, Held
<1>8. InStep' /\ Held(bars) # {} => Held(bars') # {} /\ \A d \in Held(bars') : bars'[d] = scale
    BY <1>4, <1>5, <1>7
<1>9. TableInv'
    <2>1. Held(bars') \subseteq sessions' /\ \A d \in Held(bars') : bars'[d] <= scale'
        BY <1>1, <1>5, <1>6
    <2>2. InStep' /\ Held(bars) = {} => \A d, e \in Held(bars') : bars'[d] = bars'[e]
        BY <1>3, <1>5 DEF OnOneScale
    <2>. QED BY <2>1, <2>2, <1>8 DEF TableInv, VouchedOneScale, OneScale
<1>10. NightInv'
    <2>1. OnOneScale(night.fetched)'
        BY <1>1 DEF SeriesInv, NightInv, OnOneScale, Held
    <2>2. ASSUME InStep', NEW d \in Held(night.stored) PROVE bars'[d] = night.stored[d]
        <3>1. bars[d] = night.stored[d]
            BY <2>2, <1>2 DEF SeriesInv, NightInv
        <3>2. d \in Held(bars)
            BY <3>1 DEF Held
        <3>. QED BY <2>2, <3>1, <3>2, <1>4, <1>7, <1>8
    <2>3. InStep' /\ night.pc \in {"repair", "refetch"} => FALSE
        BY <1>2, <1>4, <1>t DEF SeriesInv, NightInv, TableIsBehind
    <2>4. ASSUME InStep', night.pc = "write", night.vouched
          PROVE  Held(bars') # {} /\ Agrees'
        <3>1. Held(bars) # {} /\ ~TableIsBehind
            BY <2>4, <1>2, <1>4, <1>t DEF SeriesInv, NightInv, TableIsBehind
        <3>2. Agrees
            BY <2>4, <3>1, <1>2 DEF SeriesInv, NightInv
        <3>3. \A e \in Held(night.fetched) : night.fetched[e] = scale
            BY <2>4, <3>1, <3>2, <1>4 DEF Agrees
        <3>. QED BY <2>4, <3>1, <3>3, <1>1, <1>8 DEF Agrees, Held
    <2>. QED BY <1>1, <2>1, <2>2, <2>3, <2>4 DEF NightInv, Held
<1>11. ASSUME NEW s \in Readers PROVE ReadInv(s)'
    <2>1. CASE s = r
        BY <2>1, <1>1, IdleHoldsNothing, BarFacts DEF ReadInv, OnOneScale
    <2>2. CASE s # r
        <3>1. reads'[s] = reads[s] /\ reads[s].stored \in Series
            BY <2>2, <1>1, <1>t DEF Reads
        <3>2. ASSUME InStep', NEW d \in Held(reads[s].stored) PROVE bars'[d] >= reads[s].stored[d]
            <4>1. d \in Days /\ reads[s].stored[d] \in Nat /\ reads[s].stored[d] > 0
                BY <3>1, HeldBars
            <4>2. bars[d] \in Nat
                BY <1>t, <4>1, CalendarAssumption DEF Series, Scales
            <4>3. bars[d] >= reads[s].stored[d]
                BY <3>2, <1>2 DEF SeriesInv, ReadInv
            <4>4. d \in Held(bars)
                BY <4>1, <4>2, <4>3 DEF Held
            <4>5. bars'[d] = bars[d]
                BY <3>2, <4>4, <1>4, <1>7, <1>8
            <4>. QED BY <4>3, <4>5
        <3>3. InStep' /\ reads[s].pc = "write" /\ reads[s].vouched => Held(bars) # {}
            BY <1>2 DEF SeriesInv, ReadInv
        <3>4. OnOneScale(reads[s].fetched)'
            BY <1>1, <3>1 DEF SeriesInv, ReadInv, OnOneScale, Held
        <3>5. reads[s].pc = "write" => Held(reads[s].fetched) # {}
            BY DEF SeriesInv, ReadInv
        <3>. QED BY <1>1, <1>8, <3>1, <3>2, <3>3, <3>4, <3>5 DEF ReadInv, Held
    <2>. QED BY <2>1, <2>2
<1>. QED BY <1>9, <1>10, <1>11 DEF SeriesInv

\* Every step keeps the invariant, whenever the provider restates.
LEMMA NextSeries == TypeOK /\ SeriesInv /\ [Next]_vars => SeriesInv'
<1>. SUFFICES ASSUME TypeOK, SeriesInv, [Next]_vars PROVE SeriesInv'
    OBVIOUS
<1>t. /\ bars \in Series /\ night \in Nights /\ \A r \in Readers : reads[r] \in Reads
      /\ scale \in Int
    BY CalendarAssumption DEF TypeOK
<1>type. TypeOK'
    BY NextTypeOK
\* What is left to show of a step that writes nothing.
<1>calm. ASSUME UNCHANGED <<bars, unvouched>>, sessions \subseteq sessions',
                scale' \in Int, scale <= scale',
                night' = night \/ NightInv',
                \A r \in Readers : reads'[r] = reads[r] \/ ReadInv(r)'
         PROVE  SeriesInv'
    BY <1>calm, Undisturbed DEF SeriesInv
<1>night. ASSUME UNCHANGED <<provider, bars, unvouched, reads>>, NightInv' PROVE SeriesInv'
    <2>1. scale' = scale /\ sessions' = sessions /\ UNCHANGED <<bars, unvouched, reads>>
        BY <1>night DEF provider
    <2>2. scale' \in Int /\ scale <= scale'
        BY <2>1, <1>t
    <2>. QED BY <1>night, <2>1, <2>2, <1>calm
<1>read. ASSUME UNCHANGED <<provider, bars, unvouched, night>>, NEW r \in Readers,
                \A s \in Readers \ {r} : reads'[s] = reads[s], ReadInv(r)'
         PROVE  SeriesInv'
    <2>1. scale' = scale /\ sessions' = sessions /\ UNCHANGED <<bars, unvouched, night>>
        BY <1>read DEF provider
    <2>2. scale' \in Int /\ scale <= scale'
        BY <2>1, <1>t
    <2>. QED BY <1>read, <2>1, <2>2, <1>calm
<1>idle. night' = Idle => NightInv'
    BY IdleHoldsNothing, BarFacts DEF NightInv, OnOneScale
<1>idleread. \A r \in Readers : reads'[r] = IdleRead => ReadInv(r)'
    BY IdleHoldsNothing, BarFacts DEF ReadInv, OnOneScale
<1>1. ASSUME NEW traded \in BOOLEAN, NewDay(traded) PROVE SeriesInv'
    <2>1. UNCHANGED <<scale, bars, unvouched, night, reads>> /\ sessions \subseteq sessions'
        BY <1>1 DEF NewDay
    <2>. QED BY <2>1, <1>t, <1>calm
<1>2. CASE Restate
    <2>1. UNCHANGED <<sessions, bars, unvouched, night, reads>> /\ scale' = scale + 1
        BY <1>2 DEF Restate
    <2>. QED BY <2>1, <1>t, <1>calm
<1>3. CASE Restart
    <2>1. night' = Idle /\ (\A r \in Readers : reads'[r] = IdleRead)
        BY <1>3 DEF Restart
    <2>2. scale' = scale /\ sessions' = sessions /\ UNCHANGED <<bars, unvouched>>
        BY <1>3 DEF Restart, provider
    <2>. QED BY <2>1, <2>2, <1>t, <1>idle, <1>idleread, <1>calm
<1>4. ASSUME NEW full \in BOOLEAN, BeginNight(full) PROVE SeriesInv'
    <2>1. /\ night'.pc = "stored" /\ night'.stored = NoBars /\ night'.fetched = NoBars
          /\ UNCHANGED <<provider, bars, unvouched, reads>>
        BY <1>4 DEF BeginNight, Idle
    <2>2. NightInv'
        BY <2>1, BarFacts DEF NightInv, OnOneScale
    <2>. QED BY <2>1, <2>2, <1>night
\* The ingest reads the table, or goes on to download with what it read.
<1>reads. ASSUME UNCHANGED <<provider, bars, unvouched, reads>>,
                 night'.pc \in {"span", "reread", "fetch"},
                 night'.fetched = night.fetched,
                 \/ night'.stored = night.stored
                 \/ \A d \in Held(night'.stored) : bars[d] = night'.stored[d]
          PROVE  SeriesInv'
    <2>1. OnOneScale(night.fetched)'
        BY <1>reads DEF provider, SeriesInv, NightInv, OnOneScale, Held
    <2>2. InStep' => \A d \in Held(night'.stored) : bars'[d] = night'.stored[d]
        BY <1>reads DEF SeriesInv, NightInv, InStep
    <2>3. NightInv'
        BY <1>reads, <2>1, <2>2 DEF NightInv, OnOneScale, Held
    <2>. QED BY <1>reads, <2>3, <1>night
<1>5. CASE ReadStored
    <2>1. /\ UNCHANGED <<provider, bars, unvouched, reads>>
          /\ night'.pc \in {"span", "fetch"}
          /\ night'.stored \in {Window(bars, night.from, LastDay), NoBars}
          /\ night'.fetched = night.fetched
        BY <1>5, <1>t DEF ReadStored, Nights
    <2>2. \A d \in Held(night'.stored) : bars[d] = night'.stored[d]
        BY <2>1, <1>t, BarFacts
    <2>. QED BY <2>1, <2>2, <1>reads
<1>6. CASE WidenForGap
    <2>1. /\ UNCHANGED <<provider, bars, unvouched, reads>>
          /\ night'.pc \in {"reread", "fetch"}
          /\ night'.stored = night.stored /\ night'.fetched = night.fetched
        BY <1>6, <1>t DEF WidenForGap, Nights
    <2>. QED BY <2>1, <1>reads
<1>7. CASE ReReadStored
    <2>1. /\ UNCHANGED <<provider, bars, unvouched, reads>>
          /\ night'.pc = "fetch"
          /\ night'.stored \in {Window(bars, night.eff, LastDay), NoBars}
          /\ night'.fetched = night.fetched
        BY <1>7, <1>t DEF ReReadStored, Nights
    <2>2. \A d \in Held(night'.stored) : bars[d] = night'.stored[d]
        BY <2>1, <1>t, BarFacts
    <2>. QED BY <2>1, <2>2, <1>reads
<1>8. CASE FetchFails
    BY <1>8, <1>idle, <1>night DEF FetchFails
<1>9. CASE Fetch
    <2>. DEFINE fetched == Served(night.eff, LastDay)
                vouched == Common(night.stored, fetched) # {}
                pc == IF Adjusted(night.stored, fetched) THEN "repair" ELSE "write"
    <2>1. /\ UNCHANGED <<provider, bars, unvouched, reads>>
          /\ night' = [night EXCEPT !.fetched = fetched, !.vouched = vouched, !.pc = pc]
        BY <1>9 DEF Fetch
    <2>2. OnOneScale(fetched) /\ \A d \in Held(fetched) : fetched[d] = scale
        BY DownloadsAreCurrent
    <2>3. ASSUME InStep, Adjusted(night.stored, fetched) PROVE TableIsBehind
        <3>1. PICK d \in Common(night.stored, fetched) : night.stored[d] # fetched[d]
            BY <2>3 DEF Adjusted
        <3>2. bars[d] = night.stored[d] /\ fetched[d] = scale /\ d \in Held(bars)
            BY <2>2, <2>3, <3>1 DEF Common, SeriesInv, NightInv, Held
        <3>3. bars[d] \in Nat /\ bars[d] <= scale /\ bars[d] # scale
            BY <3>1, <3>2, <1>t, HeldBars DEF SeriesInv, TableInv
        <3>4. bars[d] < scale
            BY <3>3, <1>t
        <3>. QED BY <2>3, <3>2, <3>4, OneTellsAll DEF TableIsBehind
    <2>4. ASSUME InStep, ~Adjusted(night.stored, fetched), vouched
          PROVE  Held(bars) # {} /\ \A d \in Held(bars) : bars[d] = scale
        <3>1. PICK d \in Common(night.stored, fetched) : night.stored[d] = fetched[d]
            BY <2>4 DEF Adjusted
        <3>2. bars[d] = scale /\ d \in Held(bars)
            BY <2>2, <2>4, <3>1 DEF Common, SeriesInv, NightInv, Held
        <3>. QED BY <2>4, <3>2, OneTellsAll
    <2>5. pc = IF Adjusted(night.stored, fetched) THEN "repair" ELSE "write"
        OBVIOUS
    <2>. HIDE DEF fetched, vouched, pc
    <2>6. /\ night'.fetched = fetched /\ night'.vouched = vouched /\ night'.pc = pc
          /\ night'.stored = night.stored
        BY <2>1, <1>t DEF Nights
    <2>7. OnOneScale(night.fetched)'
        BY <2>1, <2>2, <2>6 DEF OnOneScale, Held, provider
    <2>8. InStep' => \A d \in Held(night'.stored) : bars'[d] = night'.stored[d]
        BY <2>1, <2>6 DEF InStep, SeriesInv, NightInv
    <2>9. InStep' /\ pc = "repair" => TableIsBehind'
        BY <2>1, <2>3, <2>5 DEF InStep, TableIsBehind, Held, provider
    <2>10. InStep' /\ pc = "write" /\ vouched => Held(bars)' # {} /\ Agrees'
        BY <2>1, <2>2, <2>4, <2>5, <2>6 DEF InStep, Agrees, Held
    <2>11. pc \in {"repair", "write"}
        BY <2>5
    <2>12. NightInv'
        BY <2>6, <2>7, <2>8, <2>9, <2>10, <2>11 DEF NightInv, Held
    <2>. QED BY <2>1, <2>12, <1>night
<1>10. CASE RepairSpan
    <2>1. /\ UNCHANGED <<provider, bars, unvouched, reads>>
          /\ night.pc = "repair" /\ night'.pc = "refetch"
          /\ night'.stored = night.stored /\ night'.fetched = night.fetched
        BY <1>10, <1>t DEF RepairSpan, Nights
    <2>2. night'.vouched => Held(bars) # {} /\ night'.repairFrom = First(bars)
        BY <1>10, <1>t DEF RepairSpan, Nights
    <2>3. night'.vouched => \A d \in Held(bars) : d >= night'.repairFrom
        BY <2>2, FirstIsOldest, EndsAreDays, <1>t, HeldBars
    <2>4. OnOneScale(night.fetched)' /\ (TableIsBehind => TableIsBehind')
        BY <2>1 DEF SeriesInv, NightInv, OnOneScale, TableIsBehind, Held, provider
    <2>5. NightInv'
        BY <2>1, <2>3, <2>4 DEF SeriesInv, NightInv, InStep, Held
    <2>. QED BY <2>1, <2>5, <1>night
<1>11. CASE RepairRefused
    BY <1>11, <1>idle, <1>night DEF RepairRefused
<1>12. CASE RepairFetch
    <2>. DEFINE rebuilt == Served(night.repairFrom, LastDay)
    <2>1. /\ UNCHANGED <<provider, bars, unvouched, reads>>
          /\ night.pc = "refetch" /\ night'.pc = "write" /\ night'.vouched = night.vouched
          /\ night'.stored = night.stored /\ night'.fetched = rebuilt
        BY <1>12, <1>t DEF RepairFetch, Nights
    <2>2. OnOneScale(rebuilt) /\ \A d \in Held(rebuilt) : rebuilt[d] = scale
        BY DownloadsAreCurrent
    <2>3. Held(rebuilt) # {} /\ (night.vouched => First(rebuilt) <= night.repairFrom)
        BY <1>12, NonEmpty, SeriesTypes DEF RepairFetch, ReachesBack, TypeOK
    <2>4. First(rebuilt) \in Held(rebuilt) /\ firstServed <= First(rebuilt)
        BY <2>3, FirstIsOldest, BarFacts
    <2>5. \A d \in Held(bars) : night.vouched /\ d >= night.repairFrom => d \in Held(rebuilt)
        <3>. SUFFICES ASSUME NEW d \in Held(bars), night.vouched, d >= night.repairFrom
                      PROVE  d \in Held(rebuilt)
            OBVIOUS
        <3>1. d \in sessions /\ d \in Days /\ d <= LastDay
            BY CalendarAssumption DEF SeriesInv, TableInv, Held, Days
        <3>2. firstServed <= d
            <4>1. First(rebuilt) \in Int /\ night.repairFrom \in Int /\ firstServed \in Int /\ d \in Int
                BY <2>3, EndsAreDays, <1>t, CalendarAssumption DEF TypeOK, Nights, Held, Days
            <4>. QED BY <2>3, <2>4, <4>1
        <3>3. scale # 0
            BY CalendarAssumption DEF TypeOK
        <3>. QED BY <3>1, <3>2, <3>3 DEF Held, Served
    <2>. HIDE DEF rebuilt
    <2>6. ASSUME InStep, night.vouched PROVE TableIsBehind' /\ Replaces'
        <3>1. TableIsBehind /\ \A d \in Held(bars) : d >= night.repairFrom
            BY <2>1, <2>6 DEF SeriesInv, NightInv
        <3>2. \A d \in Held(bars) : d \in Held(rebuilt) /\ bars[d] < rebuilt[d]
            BY <2>2, <2>5, <2>6, <3>1 DEF TableIsBehind
        <3>. QED BY <2>1, <3>1, <3>2 DEF TableIsBehind, Replaces, Held, provider
    <2>7. OnOneScale(night.fetched)'
        BY <2>1, <2>2 DEF OnOneScale, Held, provider
    <2>8. NightInv'
        BY <2>1, <2>6, <2>7 DEF SeriesInv, NightInv, InStep, TableIsBehind, Held
    <2>. QED BY <2>1, <2>8, <1>night
<1>13. CASE Write
    BY <1>13, <1>type, NightWrites
<1>14. CASE WriteFails
    BY <1>14, <1>idle, <1>night DEF WriteFails
<1>15. ASSUME NEW r \in Readers, NEW from \in 1..LastDay, NEW to \in 1..LastDay,
              BeginRead(r, from, to)
       PROVE  SeriesInv'
    <2>1. /\ UNCHANGED <<provider, bars, unvouched, night>>
          /\ reads'[r].pc = "fetch" /\ reads'[r].fetched = NoBars
          /\ reads'[r].stored = Window(bars, from, to)
          /\ \A s \in Readers \ {r} : reads'[s] = reads[s]
        BY <1>15 DEF BeginRead, IdleRead, TypeOK
    <2>2. \A d \in Held(reads'[r].stored) : bars[d] >= reads'[r].stored[d]
        BY <2>1, <1>t, BarFacts, HeldBars
    <2>3. ReadInv(r)'
        BY <2>1, <2>2, BarFacts DEF ReadInv, OnOneScale, Held
    <2>. QED BY <2>1, <2>3, <1>read
<1>over. ASSUME NEW r \in Readers, reads' = [reads EXCEPT ![r] = IdleRead],
                UNCHANGED <<provider, bars, unvouched, night>>
         PROVE  SeriesInv'
    <2>1. reads'[r] = IdleRead /\ \A s \in Readers \ {r} : reads'[s] = reads[s]
        BY <1>over DEF TypeOK
    <2>2. ReadInv(r)'
        BY <2>1, <1>idleread
    <2>. QED BY <1>over, <2>1, <2>2, <1>read
<1>16. ASSUME NEW r \in Readers, ReadFetchFails(r) PROVE SeriesInv'
    BY <1>16, <1>over DEF ReadFetchFails
<1>17. ASSUME NEW r \in Readers, ReadFetch(r) PROVE SeriesInv'
    <2>. DEFINE fetched == Served(reads[r].from, reads[r].to)
                new == Backfill(reads[r].stored, fetched)
                vouched == Common(reads[r].stored, fetched) # {}
                busy == [reads[r] EXCEPT !.fetched = new, !.pc = "write", !.vouched = vouched]
    <2>1. UNCHANGED <<provider, bars, unvouched, night>>
        BY <1>17 DEF ReadFetch
    <2>2. CASE reads' = [reads EXCEPT ![r] = IdleRead]
        BY <2>1, <2>2, <1>over
    <2>3. CASE reads' = [reads EXCEPT ![r] = busy] /\ ~Adjusted(reads[r].stored, fetched)
               /\ new # NoBars
        <3>1. /\ \A d \in Held(fetched) : fetched[d] = scale
              /\ OnOneScale(fetched) /\ fetched \in Series /\ reads[r].stored \in Series
            BY <1>t, DownloadsAreCurrent, SeriesTypes DEF TypeOK, Reads
        <3>2. OnOneScale(new) /\ Held(new) # {}
            <4>1. new \in Series
                BY <3>1, SeriesTypes
            <4>2. \A d \in Held(new) : d \in Held(fetched) /\ new[d] = fetched[d]
                BY <3>1, BarFacts
            <4>. QED BY <2>3, <3>1, <4>1, <4>2, NonEmpty DEF OnOneScale
        <3>3. ASSUME InStep, vouched
              PROVE  Held(bars) # {} /\ \A d \in Held(bars) : bars[d] = scale
            <4>1. PICK d \in Common(reads[r].stored, fetched) : reads[r].stored[d] = fetched[d]
                BY <2>3, <3>3 DEF Adjusted
            <4>2. reads[r].stored[d] = scale /\ bars[d] >= scale /\ d \in Days
                BY <3>1, <3>3, <4>1 DEF Common, SeriesInv, ReadInv, Held
            <4>3. bars[d] \in Nat
                BY <1>t, <4>2, CalendarAssumption DEF Series, Scales
            <4>4. scale > 0
                BY CalendarAssumption DEF TypeOK
            <4>5. d \in Held(bars)
                BY <1>t, <4>2, <4>3, <4>4 DEF Held
            <4>6. bars[d] = scale
                BY <1>t, <4>2, <4>3, <4>5 DEF SeriesInv, TableInv
            <4>. QED BY <3>3, <4>5, <4>6, OneTellsAll
        <3>. HIDE DEF new, vouched
        <3>4. /\ busy.pc = "write" /\ busy.fetched = new /\ busy.vouched = vouched
              /\ busy.stored = reads[r].stored
            BY <1>t DEF Reads
        <3>. HIDE DEF busy
        <3>5. reads'[r] = busy /\ \A s \in Readers \ {r} : reads'[s] = reads[s]
            BY <2>3 DEF TypeOK
        <3>6. OnOneScale(reads[r].fetched)'
            BY <2>1, <3>2, <3>4, <3>5 DEF OnOneScale, Held, provider
        <3>7. InStep' => \A d \in Held(reads'[r].stored) : bars'[d] >= reads'[r].stored[d]
            BY <2>1, <3>4, <3>5 DEF SeriesInv, ReadInv, InStep
        <3>8. ReadInv(r)'
            BY <2>1, <3>2, <3>3, <3>4, <3>5, <3>6, <3>7
            DEF ReadInv, InStep, Held, provider
        <3>. QED BY <2>1, <3>5, <3>8, <1>read
    <2>. QED BY <1>17, <2>2, <2>3 DEF ReadFetch
<1>18. ASSUME NEW r \in Readers, ReadWrite(r) PROVE SeriesInv'
    BY <1>18, <1>type, ReaderWrites
<1>19. ASSUME NEW r \in Readers, ReadWriteFails(r) PROVE SeriesInv'
    BY <1>19, <1>over DEF ReadWriteFails
<1>20. CASE UNCHANGED vars
    BY <1>20, <1>t, <1>calm DEF vars
<1>. QED
    BY <1>1, <1>2, <1>3, <1>4, <1>5, <1>6, <1>7, <1>8, <1>9, <1>10, <1>11, <1>12, <1>13,
       <1>14, <1>15, <1>16, <1>17, <1>18, <1>19, <1>20
    DEF Next, Environment, Ingest, Reading

\* Whenever the provider restates, whatever fails and however many readers backfill it,
\* the stored history is on one price scale, unless some bars were written that no stored
\* bar was compared with, or a reader wrote bars from before a restatement.
THEOREM VouchedHistoryIsOnOneScale == Spec => []VouchedOneScale
<1>1. Init => TypeOK /\ SeriesInv
    BY InitTypeOK, InitSeries
<1>2. (TypeOK /\ SeriesInv) /\ [Next]_vars => (TypeOK /\ SeriesInv)'
    BY NextTypeOK, NextSeries
<1>3. SeriesInv => VouchedOneScale
    BY DEF SeriesInv, TableInv
<1>. QED BY <1>1, <1>2, <1>3, PTL DEF Spec
---------------------------------------------------------------------------
(* No hole. *)

\* A stretch of days that misses none of `all' between two of its own.
Unbroken(all, S) == \A d \in all : (\E e, f \in S : e <= d /\ d <= f) => d \in S

\* Two stretches that meet are one.
LEMMA Joined ==
    ASSUME NEW all \in SUBSET Int, NEW S \in SUBSET Int, NEW T \in SUBSET Int,
           Unbroken(all, S), Unbroken(all, T), S \cap T # {}
    PROVE  Unbroken(all, S \union T)
<1>1. PICK m \in S \cap T : TRUE
    OBVIOUS
<1>. SUFFICES ASSUME NEW d \in all, NEW e \in S \union T, NEW f \in S \union T, e <= d, d <= f
              PROVE  d \in S \union T
    BY DEF Unbroken
<1>2. CASE d <= m
    BY <1>1, <1>2 DEF Unbroken
<1>3. CASE m <= d
    BY <1>1, <1>3 DEF Unbroken
<1>. QED BY <1>1, <1>2, <1>3

\* A day that comes after a stretch does not break it.
LEMMA LaterDays ==
    ASSUME NEW all \in SUBSET Int, NEW more \in SUBSET Int, NEW S \in SUBSET all,
           all \subseteq more, \A d \in more \ all : \A e \in S : e < d,
           Unbroken(all, S)
    PROVE  Unbroken(more, S)
<1>. SUFFICES ASSUME NEW d \in more, NEW e \in S, NEW f \in S, e <= d, d <= f PROVE d \in S
    BY DEF Unbroken
<1>1. d \in all
    <2>. SUFFICES ASSUME d \notin all PROVE FALSE
        OBVIOUS
    <2>1. f < d /\ f \in Int /\ d \in Int
        OBVIOUS
    <2>. QED BY <2>1
<1>. QED BY <1>1 DEF Unbroken

\* Nor does giving up its end.
LEMMA Beginning ==
    ASSUME NEW all \in SUBSET Int, NEW S \in SUBSET Int, NEW n \in Int, Unbroken(all, S)
    PROVE  Unbroken(all, {d \in S : d <= n})
<1>. SUFFICES ASSUME NEW d \in all, NEW e \in S, NEW f \in S, f <= n, e <= d, d <= f
              PROVE  d \in S /\ d <= n
    BY DEF Unbroken
<1>1. d \in Int /\ f \in Int
    OBVIOUS
<1>. QED BY <1>1 DEF Unbroken

\* What the provider serves, what of it a reader keeps, and what a write leaves.
LEMMA SeriesAsDays ==
    ASSUME TypeOK
    PROVE  /\ \A from, to \in Int :
                  /\ Held(Served(from, to)) \subseteq sessions
                  /\ Unbroken(sessions, Held(Served(from, to)))
           /\ \A s, t \in Series : Held(Upsert(s, t)) = Held(s) \union Held(t)
           /\ \A s, t \in Series : Held(s) # {} =>
                  Held(Backfill(s, t)) = {d \in Held(t) : d <= First(s) - 1}
           /\ \A s \in Series : \A from, to : Held(Window(s, from, to)) \subseteq Held(s)
<1>1. scale # 0 /\ sessions \subseteq Days /\ Days \subseteq Nat /\ firstServed \in Nat
    BY CalendarAssumption DEF TypeOK, Days
<1>2. ASSUME NEW from \in Int, NEW to \in Int
      PROVE  /\ Held(Served(from, to)) \subseteq sessions
             /\ Unbroken(sessions, Held(Served(from, to)))
    <2>1. Held(Served(from, to)) = {d \in sessions : firstServed <= d /\ from <= d /\ d <= to}
        BY <1>1 DEF Held, Served
    <2>2. \A d \in sessions : \A e \in sessions : \A f \in sessions :
              firstServed <= e /\ from <= e /\ f <= to /\ e <= d /\ d <= f
                  => firstServed <= d /\ from <= d /\ d <= to
        BY <1>1
    <2>. QED BY <2>1, <2>2 DEF Unbroken
<1>3. \A s, t \in Series : Held(Upsert(s, t)) = Held(s) \union Held(t)
    BY DEF Held, Upsert
<1>4. ASSUME NEW s \in Series, NEW t \in Series, Held(s) # {}
      PROVE  Held(Backfill(s, t)) = {d \in Held(t) : d <= First(s) - 1}
    <2>. DEFINE n == First(s) - 1
    <2>1. Backfill(s, t) = Window(t, 1, n)
        BY <1>4 DEF Backfill
    <2>. HIDE DEF n
    <2>2. \A d \in Days : 1 <= d
        BY CalendarAssumption DEF Days
    <2>3. Held(Window(t, 1, n)) = {d \in Held(t) : d <= n}
        BY <2>2 DEF Held, Window
    <2>. QED BY <2>1, <2>3 DEF n
<1>5. \A s \in Series : \A from, to : Held(Window(s, from, to)) \subseteq Held(s)
    BY DEF Held, Window
<1>. QED BY <1>2, <1>3, <1>4, <1>5

\* What a call carries: stored bars that are still there, fetched ones without a hole.
Carried(stored, fetched) ==
    /\ Held(stored) \subseteq Held(bars)
    /\ Held(fetched) \subseteq sessions
    /\ Unbroken(sessions, Held(fetched))

\* The inductive invariant behind VouchedNoHole: what a vouched call will write meets
\* what is stored, or ends where a stored bar follows.
NightReaches ==
    /\ Carried(night.stored, night.fetched)
    /\ night.pc = "refetch" /\ night.vouched => night.repairFrom \in Held(bars)
    /\ night.pc = "write" /\ night.vouched => Held(night.fetched) \cap Held(bars) # {}

ReadReaches(r) ==
    /\ Carried(reads[r].stored, reads[r].fetched)
    /\ reads[r].pc = "write" /\ reads[r].vouched =>
           \E p \in Held(bars) : Unbroken(sessions, Held(reads[r].fetched) \union {p})

TableReaches ==
    /\ \A d \in sessions : d <= today
    /\ Held(bars) \subseteq sessions
    /\ Compared => Unbroken(sessions, Held(bars))

ReachInv == TableReaches /\ NightReaches /\ \A r \in Readers : ReadReaches(r)

\* Idle calls carry nothing.
LEMMA IdleReaches ==
    /\ night = Idle => NightReaches
    /\ \A r \in Readers : reads[r] = IdleRead => ReadReaches(r)
<1>1. Carried(NoBars, NoBars)
    BY SeriesTypes DEF Carried, Unbroken
<1>. QED BY <1>1, IdleHoldsNothing DEF NightReaches, ReadReaches

LEMMA InitReaches == Init => ReachInv
<1>. SUFFICES ASSUME Init PROVE ReachInv
    OBVIOUS
<1>1. Held(bars) \subseteq sessions /\ sessions \subseteq Days
    BY DEF Init, Held, NoBars
<1>2. \A d \in sessions : d <= today
    BY CalendarAssumption DEF Init, Days
<1>3. Held(bars) = {} \/ Held(bars) = sessions
    BY DEF Init, Held, NoBars
<1>4. Unbroken(sessions, Held(bars))
    BY <1>3 DEF Unbroken
<1>5. NightReaches /\ \A r \in Readers : ReadReaches(r)
    BY IdleReaches DEF Init
<1>. QED BY <1>1, <1>2, <1>4, <1>5 DEF ReachInv, TableReaches

\* A step that takes no bar away and adds sessions of later days only leaves alone
\* what calls carry, but for the one it moves.
LEMMA ReachesOn ==
    ASSUME TypeOK, ReachInv, Held(bars) \subseteq Held(bars'),
           sessions \subseteq sessions', sessions' \subseteq Days,
           \A d \in sessions' \ sessions : d > today
    PROVE  /\ night' = night => NightReaches'
           /\ \A r \in Readers : reads'[r] = reads[r] => ReadReaches(r)'
           /\ Unbroken(sessions, Held(bars)) => Unbroken(sessions', Held(bars))
<1>1. sessions \subseteq Int /\ sessions' \subseteq Int /\ today \in Int
    BY CalendarAssumption DEF TypeOK, Days
<1>2. \A S : S \subseteq sessions /\ Unbroken(sessions, S) => Unbroken(sessions', S)
    <2>. SUFFICES ASSUME NEW S \in SUBSET sessions, Unbroken(sessions, S)
                  PROVE  Unbroken(sessions', S)
        OBVIOUS
    <2>1. \A d \in sessions' \ sessions : \A e \in S : e < d
        BY <1>1 DEF ReachInv, TableReaches
    <2>. QED BY <1>1, <2>1, LaterDays
<1>3. night' = night => NightReaches'
    BY <1>2 DEF ReachInv, NightReaches, Carried, Held
<1>4. ASSUME NEW r \in Readers, reads'[r] = reads[r] PROVE ReadReaches(r)'
    <2>1. Carried(reads[r].stored, reads[r].fetched)'
        BY <1>2, <1>4 DEF ReachInv, ReadReaches, Carried, Held
    <2>2. ASSUME reads[r].pc = "write", reads[r].vouched
          PROVE  \E p \in Held(bars') : Unbroken(sessions', Held(reads[r].fetched) \union {p})
        <3>1. PICK p \in Held(bars) : Unbroken(sessions, Held(reads[r].fetched) \union {p})
            BY <2>2 DEF ReachInv, ReadReaches
        <3>2. Held(reads[r].fetched) \union {p} \subseteq sessions
            BY DEF ReachInv, ReadReaches, Carried, TableReaches
        <3>. QED BY <1>2, <3>1, <3>2
    <2>. QED BY <1>4, <2>1, <2>2 DEF ReadReaches, Held
<1>5. Unbroken(sessions, Held(bars)) => Unbroken(sessions', Held(bars))
    BY <1>2 DEF ReachInv, TableReaches
<1>. QED BY <1>3, <1>4, <1>5

\* The same when the table and the calendar stay as they are.
LEMMA ReachesSame ==
    ASSUME TypeOK, ReachInv, UNCHANGED <<today, sessions, bars, unvouched>>
    PROVE  /\ TableReaches'
           /\ night' = night => NightReaches'
           /\ \A r \in Readers : reads'[r] = reads[r] => ReadReaches(r)'
<1>1. TableReaches'
    BY DEF ReachInv, TableReaches, Held, Compared
<1>2. /\ night' = night => NightReaches'
      /\ \A r \in Readers : reads'[r] = reads[r] => ReadReaches(r)'
    BY ReachesOn DEF TypeOK
<1>. QED BY <1>1, <1>2

\* A write of a stretch that meets the table, or that fills an empty one.
LEMMA StretchWritten ==
    ASSUME TypeOK, ReachInv, NEW new \in Series,
           Held(new) \subseteq sessions, Unbroken(sessions, Held(new)),
           bars' = Upsert(bars, new), UNCHANGED <<today, sessions>>,
           Compared' => /\ Compared
                          /\ \/ Held(bars) = {}
                             \/ \E p \in Held(bars) : Unbroken(sessions, Held(new) \union {p})
    PROVE  /\ TableReaches'
           /\ night' = night => NightReaches'
           /\ \A r \in Readers : reads'[r] = reads[r] => ReadReaches(r)'
<1>1. Held(bars') = Held(bars) \union Held(new)
    BY SeriesAsDays DEF TypeOK
<1>2. sessions \subseteq Int /\ Held(bars) \subseteq sessions
    BY CalendarAssumption DEF TypeOK, Days, ReachInv, TableReaches
<1>3. ASSUME Compared' PROVE Unbroken(sessions, Held(bars'))
    <2>1. Unbroken(sessions, Held(bars))
        BY <1>3 DEF ReachInv, TableReaches
    <2>2. CASE Held(bars) = {}
        <3>1. Held(bars') = Held(new)
            BY <1>1, <2>2
        <3>. QED BY <3>1
    <2>3. CASE Held(bars) # {}
        <3>1. PICK p \in Held(bars) : Unbroken(sessions, Held(new) \union {p})
            BY <1>3, <2>3
        <3>2. Held(bars') = Held(bars) \union (Held(new) \union {p})
            BY <1>1, <3>1
        <3>3. Held(bars) \in SUBSET Int /\ Held(new) \union {p} \in SUBSET Int
            BY <1>2
        <3>. QED BY <1>2, <2>1, <3>1, <3>2, <3>3, Joined
    <2>. QED BY <2>2, <2>3
<1>4. TableReaches'
    BY <1>1, <1>2, <1>3 DEF ReachInv, TableReaches, Held
<1>5. /\ night' = night => NightReaches'
      /\ \A r \in Readers : reads'[r] = reads[r] => ReadReaches(r)'
    BY <1>1, ReachesOn DEF TypeOK
<1>. QED BY <1>4, <1>5
LEMMA NextReaches == TypeOK /\ ReachInv /\ [Next]_vars => ReachInv'
<1>. SUFFICES ASSUME TypeOK, ReachInv, [Next]_vars PROVE ReachInv'
    OBVIOUS
<1>t. /\ bars \in Series /\ night \in Nights /\ \A r \in Readers : reads[r] \in Reads
      /\ sessions \subseteq Days /\ today \in Nat
    BY DEF TypeOK
<1>1. ASSUME NEW traded \in BOOLEAN, NewDay(traded) PROVE ReachInv'
    <2>1. /\ UNCHANGED <<bars, unvouched, night, reads>> /\ today' = today + 1
          /\ today < LastDay
          /\ sessions \subseteq sessions' /\ sessions' \subseteq sessions \union {today + 1}
        BY <1>1 DEF NewDay
    <2>2. sessions' \subseteq Days /\ \A d \in sessions' \ sessions : d > today
        BY <2>1, <1>t, CalendarAssumption DEF Days
    <2>3. \A d \in sessions' : d <= today'
        BY <2>1, <1>t DEF ReachInv, TableReaches, Days
    <2>4. TableReaches'
        BY <2>1, <2>2, <2>3, ReachesOn DEF ReachInv, TableReaches, Held, Compared
    <2>. QED BY <2>1, <2>2, <2>4, ReachesOn DEF ReachInv
<1>2. CASE Restate
    BY <1>2, ReachesSame DEF Restate, ReachInv
<1>3. CASE Restart
    BY <1>3, ReachesSame, IdleReaches, IdleHoldsNothing, SeriesTypes
    DEF Restart, provider, ReachInv, NightReaches, ReadReaches, Carried, Unbroken
<1>night. ASSUME UNCHANGED <<today, sessions, bars, unvouched, reads>>, NightReaches'
          PROVE  ReachInv'
    BY <1>night, ReachesSame DEF ReachInv
<1>read. ASSUME NEW r \in Readers, UNCHANGED <<today, sessions, bars, unvouched, night>>,
                \A s \in Readers \ {r} : reads'[s] = reads[s], ReadReaches(r)'
         PROVE  ReachInv'
    BY <1>read, ReachesSame DEF ReachInv
<1>idle. ASSUME night' = Idle, UNCHANGED <<today, sessions, bars, unvouched, reads>>
         PROVE  ReachInv'
    <2>1. NightReaches'
        BY <1>idle, IdleHoldsNothing, SeriesTypes DEF NightReaches, Carried, Unbroken
    <2>. QED BY <1>idle, <2>1, <1>night
<1>4. ASSUME NEW full \in BOOLEAN, BeginNight(full) PROVE ReachInv'
    <2>1. /\ night'.pc = "stored" /\ night'.stored = NoBars /\ night'.fetched = NoBars
          /\ UNCHANGED <<today, sessions, bars, unvouched, reads>>
        BY <1>4 DEF BeginNight, provider, Idle
    <2>2. NightReaches'
        BY <2>1, SeriesTypes DEF NightReaches, Carried, Unbroken
    <2>. QED BY <2>1, <2>2, <1>night
<1>reading. ASSUME NEW from, night'.stored \in {Window(bars, from, LastDay), NoBars},
                   night'.fetched = night.fetched, night'.pc \notin {"refetch", "write"},
                   UNCHANGED <<today, sessions, bars, unvouched, reads>>
            PROVE  ReachInv'
    <2>1. Held(night'.stored) \subseteq Held(bars)
        BY <1>reading, <1>t, SeriesAsDays, SeriesTypes
    <2>2. NightReaches'
        BY <1>reading, <2>1 DEF ReachInv, NightReaches, Carried, Held
    <2>. QED BY <1>reading, <2>2, <1>night
<1>5. CASE ReadStored
    <2>1. /\ UNCHANGED <<today, sessions, bars, unvouched, reads>>
          /\ night'.pc \in {"span", "fetch"}
          /\ night'.stored \in {Window(bars, night.from, LastDay), NoBars}
          /\ night'.fetched = night.fetched
        BY <1>5, <1>t DEF ReadStored, provider, Nights
    <2>. QED BY <2>1, <1>reading
<1>6. CASE WidenForGap
    <2>1. /\ UNCHANGED <<today, sessions, bars, unvouched, reads>>
          /\ night'.pc \in {"reread", "fetch"}
          /\ night'.stored = night.stored /\ night'.fetched = night.fetched
        BY <1>6, <1>t DEF WidenForGap, provider, Nights
    <2>2. NightReaches'
        BY <2>1 DEF ReachInv, NightReaches, Carried, Held
    <2>. QED BY <2>1, <2>2, <1>night
<1>7. CASE ReReadStored
    <2>1. /\ UNCHANGED <<today, sessions, bars, unvouched, reads>>
          /\ night'.pc = "fetch"
          /\ night'.stored \in {Window(bars, night.eff, LastDay), NoBars}
          /\ night'.fetched = night.fetched
        BY <1>7, <1>t DEF ReReadStored, provider, Nights
    <2>. QED BY <2>1, <1>reading
<1>8. CASE FetchFails
    BY <1>8, <1>idle DEF FetchFails, provider
<1>9. CASE Fetch
    <2>. DEFINE fetched == Served(night.eff, LastDay)
                vouched == Common(night.stored, fetched) # {}
                pc == IF Adjusted(night.stored, fetched) THEN "repair" ELSE "write"
    <2>1. /\ UNCHANGED <<today, sessions, bars, unvouched, reads>>
          /\ night' = [night EXCEPT !.fetched = fetched, !.vouched = vouched, !.pc = pc]
        BY <1>9 DEF Fetch, provider
    <2>2. Held(fetched) \subseteq sessions /\ Unbroken(sessions, Held(fetched))
        BY <1>t, SeriesAsDays, CalendarAssumption DEF Nights
    <2>3. vouched => Held(night.stored) \cap Held(fetched) # {}
        BY DEF Common
    <2>4. pc # "refetch"
        OBVIOUS
    <2>. HIDE DEF fetched, vouched, pc
    <2>5. /\ night'.fetched = fetched /\ night'.vouched = vouched /\ night'.pc = pc
          /\ night'.stored = night.stored
        BY <2>1, <1>t DEF Nights
    <2>6. NightReaches'
        BY <2>1, <2>2, <2>3, <2>4, <2>5 DEF ReachInv, NightReaches, Carried, Held
    <2>. QED BY <2>1, <2>6, <1>night
<1>10. CASE RepairSpan
    <2>1. /\ UNCHANGED <<today, sessions, bars, unvouched, reads>>
          /\ night'.pc = "refetch"
          /\ night'.stored = night.stored /\ night'.fetched = night.fetched
        BY <1>10, <1>t DEF RepairSpan, provider, Nights
    <2>2. night'.vouched => Held(bars) # {} /\ night'.repairFrom = First(bars)
        BY <1>10, <1>t DEF RepairSpan, Nights
    <2>3. night'.vouched => night'.repairFrom \in Held(bars)
        BY <2>2, FirstIsOldest
    <2>4. NightReaches'
        BY <2>1, <2>3 DEF ReachInv, NightReaches, Carried, Held
    <2>. QED BY <2>1, <2>4, <1>night
<1>11. CASE RepairRefused
    BY <1>11, <1>idle DEF RepairRefused, provider
<1>12. CASE RepairFetch
    <2>. DEFINE rebuilt == Served(night.repairFrom, LastDay)
    <2>1. /\ UNCHANGED <<today, sessions, bars, unvouched, reads>>
          /\ night'.pc = "write" /\ night'.vouched = night.vouched
          /\ night'.stored = night.stored /\ night'.fetched = rebuilt
        BY <1>12, <1>t DEF RepairFetch, provider, Nights
    <2>2. Held(rebuilt) \subseteq sessions /\ Unbroken(sessions, Held(rebuilt))
        BY <1>t, SeriesAsDays, CalendarAssumption DEF Nights
    <2>3. ASSUME night.vouched PROVE night.repairFrom \in Held(rebuilt) \cap Held(bars)
        <3>1. night.repairFrom \in Held(bars) /\ night.repairFrom \in sessions
            BY <1>12, <2>3 DEF RepairFetch, ReachInv, NightReaches, TableReaches
        <3>2. Held(rebuilt) # {} /\ First(rebuilt) <= night.repairFrom
            BY <1>12, <2>3, NonEmpty, SeriesTypes DEF RepairFetch, ReachesBack, TypeOK
        <3>3. First(rebuilt) \in Int /\ firstServed <= First(rebuilt)
            BY <3>2, FirstIsOldest, EndsAreDays, BarFacts
        <3>4. night.repairFrom \in Days /\ night.repairFrom \in Int /\ night.repairFrom <= LastDay
            <4>1. \A d \in Days : d \in Int /\ d <= LastDay
                BY CalendarAssumption DEF Days
            <4>2. night.repairFrom \in Days
                BY <3>1, <1>t
            <4>. QED BY <4>1, <4>2
        <3>5. firstServed \in Int /\ scale # 0
            BY CalendarAssumption DEF TypeOK
        <3>. HIDE DEF rebuilt
        <3>6. firstServed <= night.repairFrom
            BY <3>2, <3>3, <3>4, <3>5
        <3>. USE DEF rebuilt
        <3>. QED BY <3>1, <3>4, <3>5, <3>6 DEF Held, Served
    <2>. HIDE DEF rebuilt
    <2>4. NightReaches'
        BY <2>1, <2>2, <2>3 DEF ReachInv, NightReaches, Carried, Held
    <2>. QED BY <2>1, <2>4, <1>night
<1>13. CASE Write
    <2>1. /\ night.fetched \in Series /\ Held(night.fetched) \subseteq sessions
          /\ Unbroken(sessions, Held(night.fetched))
          /\ bars' = Upsert(bars, night.fetched) /\ UNCHANGED <<today, sessions, reads>>
          /\ night' = Idle
        BY <1>13, <1>t DEF Write, provider, Nights, ReachInv, NightReaches, Carried
    <2>2. Compared' => Compared /\ (Held(bars) = {} \/ night.vouched)
        BY <1>13, <1>t DEF Write, Compared
    <2>3. ASSUME Compared', Held(bars) # {}
          PROVE  \E p \in Held(bars) : Unbroken(sessions, Held(night.fetched) \union {p})
        <3>1. PICK p \in Held(night.fetched) \cap Held(bars) : TRUE
            BY <1>13, <2>2, <2>3 DEF Write, ReachInv, NightReaches
        <3>2. Held(night.fetched) \union {p} = Held(night.fetched)
            BY <3>1
        <3>. QED BY <2>1, <3>1, <3>2
    <2>4. TableReaches' /\ \A r \in Readers : ReadReaches(r)'
        BY <2>1, <2>2, <2>3, StretchWritten
    <2>5. NightReaches'
        BY <2>1, IdleHoldsNothing, SeriesTypes DEF NightReaches, Carried, Unbroken
    <2>. QED BY <2>4, <2>5 DEF ReachInv
<1>14. CASE WriteFails
    BY <1>14, <1>idle DEF WriteFails, provider
<1>15. ASSUME NEW r \in Readers, NEW from \in 1..LastDay, NEW to \in 1..LastDay,
              BeginRead(r, from, to)
       PROVE  ReachInv'
    <2>1. /\ UNCHANGED <<today, sessions, bars, unvouched, night>>
          /\ reads'[r].pc = "fetch" /\ reads'[r].fetched = NoBars
          /\ reads'[r].stored = Window(bars, from, to)
          /\ \A s \in Readers \ {r} : reads'[s] = reads[s]
        BY <1>15 DEF BeginRead, provider, IdleRead, TypeOK
    <2>2. Held(reads'[r].stored) \subseteq Held(bars)
        BY <2>1, <1>t, SeriesAsDays
    <2>3. ReadReaches(r)'
        BY <2>1, <2>2, SeriesTypes DEF ReadReaches, Carried, Unbroken, Held
    <2>. QED BY <2>1, <2>3, <1>read
<1>idleread. ASSUME NEW r \in Readers, reads' = [reads EXCEPT ![r] = IdleRead],
                    UNCHANGED <<today, sessions, bars, unvouched, night>>
             PROVE  ReachInv'
    <2>1. reads'[r] = IdleRead /\ \A s \in Readers \ {r} : reads'[s] = reads[s]
        BY <1>idleread DEF TypeOK
    <2>2. ReadReaches(r)'
        BY <2>1, IdleHoldsNothing, SeriesTypes DEF ReadReaches, Carried, Unbroken
    <2>. QED BY <1>idleread, <2>1, <2>2, <1>read
<1>16. ASSUME NEW r \in Readers, ReadFetchFails(r) PROVE ReachInv'
    BY <1>16, <1>idleread DEF ReadFetchFails, provider
<1>17. ASSUME NEW r \in Readers, ReadFetch(r) PROVE ReachInv'
    <2>. DEFINE stored == reads[r].stored
                fetched == Served(reads[r].from, reads[r].to)
                new == Backfill(stored, fetched)
                vouched == Common(stored, fetched) # {}
                busy == [reads[r] EXCEPT !.fetched = new, !.pc = "write", !.vouched = vouched]
    <2>1. UNCHANGED <<today, sessions, bars, unvouched, night>>
        BY <1>17 DEF ReadFetch, provider
    <2>2. CASE reads' = [reads EXCEPT ![r] = IdleRead]
        BY <2>1, <2>2, <1>idleread
    <2>3. CASE reads' = [reads EXCEPT ![r] = busy] /\ new # NoBars
        <3>1. /\ Held(fetched) \subseteq sessions /\ Unbroken(sessions, Held(fetched))
              /\ fetched \in Series /\ stored \in Series /\ new \in Series
            <4>1. reads[r].from \in Int /\ reads[r].to \in Int /\ stored \in Series
                BY <1>t, CalendarAssumption DEF Reads
            <4>2. fetched \in Series
                BY SeriesTypes DEF TypeOK
            <4>3. new \in Series
                BY <4>1, <4>2, SeriesTypes
            <4>. QED BY <4>1, <4>2, <4>3, SeriesAsDays
        <3>2. Held(stored) \subseteq Held(bars) /\ Held(bars) \subseteq sessions
            BY DEF ReachInv, ReadReaches, Carried, TableReaches
        <3>3. Held(stored) = {} => new = fetched
            BY DEF Backfill
        <3>4. Held(stored) # {} => Held(new) = {d \in Held(fetched) : d <= First(stored) - 1}
            BY <3>1, SeriesAsDays
        <3>5. sessions \subseteq Int /\ Held(new) # {}
            BY <1>t, <2>3, <3>1, NonEmpty, CalendarAssumption DEF Days
        <3>6. vouched => \E d \in Held(stored) : d \in Held(fetched)
            BY DEF Common
        <3>. HIDE DEF stored, fetched, new, vouched
        <3>7. Held(new) \subseteq sessions /\ Unbroken(sessions, Held(new))
            <4>1. CASE Held(stored) = {}
                BY <3>1, <3>3, <4>1
            <4>2. CASE Held(stored) # {}
                <5>1. First(stored) - 1 \in Int
                    BY <4>2, EndsAreDays
                <5>. QED BY <3>1, <3>4, <3>5, <4>2, <5>1, Beginning
            <4>. QED BY <4>1, <4>2
        <3>8. ASSUME vouched
              PROVE  \E p \in Held(bars) : Unbroken(sessions, Held(new) \union {p})
            <4>. DEFINE p == First(stored)
            <4>1. Held(stored) # {} /\ p \in Held(stored) /\ \A e \in Held(stored) : p <= e
                BY <3>6, <3>8, FirstIsOldest
            <4>2. p \in Held(bars) /\ p \in sessions /\ p \in Int
                BY <3>2, <3>5, <4>1
            <4>3. Held(new) = {d \in Held(fetched) : d <= p - 1}
                BY <3>4, <4>1
            <4>. HIDE DEF p
            <4>4. PICK last \in Held(stored) : last \in Held(fetched)
                BY <3>6, <3>8
            <4>5. PICK first \in Held(new) : TRUE
                BY <3>5
            <4>6. /\ first \in Int /\ first \in Held(fetched) /\ first <= p - 1 /\ p <= last
                  /\ last \in Int
                BY <3>1, <3>5, <4>1, <4>3, <4>4, <4>5
            <4>7. p \in Held(fetched)
                BY <3>1, <4>2, <4>4, <4>6 DEF Unbroken
            <4>8. Held(new) \union {p} = {d \in Held(fetched) : d <= p}
                <5>1. \A d \in Held(fetched) : d <= p <=> d <= p - 1 \/ d = p
                    BY <3>1, <3>5, <4>2
                <5>. QED BY <4>3, <4>7, <5>1
            <4>9. Unbroken(sessions, Held(new) \union {p})
                BY <3>1, <3>5, <4>2, <4>8, Beginning
            <4>. QED BY <4>2, <4>9
        <3>9. /\ busy.pc = "write" /\ busy.fetched = new /\ busy.vouched = vouched
              /\ busy.stored = stored
            BY <1>t DEF Reads, stored
        <3>. HIDE DEF busy
        <3>10. reads'[r] = busy /\ \A s \in Readers \ {r} : reads'[s] = reads[s]
            BY <2>3 DEF TypeOK
        <3>11. ReadReaches(r)'
            BY <2>1, <3>2, <3>7, <3>8, <3>9, <3>10 DEF ReadReaches, Carried, Held
        <3>. QED BY <2>1, <3>10, <3>11, <1>read
    <2>. QED BY <1>17, <2>2, <2>3 DEF ReadFetch
<1>18. ASSUME NEW r \in Readers, ReadWrite(r) PROVE ReachInv'
    <2>1. /\ reads[r].fetched \in Series /\ Held(reads[r].fetched) \subseteq sessions
          /\ Unbroken(sessions, Held(reads[r].fetched))
          /\ bars' = Upsert(bars, reads[r].fetched) /\ UNCHANGED <<today, sessions, night>>
          /\ reads'[r] = IdleRead /\ \A s \in Readers \ {r} : reads'[s] = reads[s]
        BY <1>18, <1>t DEF ReadWrite, provider, Reads, ReachInv, ReadReaches, Carried, TypeOK
    <2>2. Compared' => Compared /\ (Held(bars) = {} \/ reads[r].vouched)
        <3>1. ASSUME Held(bars) # {}, ~reads[r].vouched PROVE "uncompared" \in unvouched'
            BY <1>18, <3>1 DEF ReadWrite, Slips
        <3>2. unvouched \subseteq unvouched'
            BY <1>18 DEF ReadWrite
        <3>. QED BY <3>1, <3>2 DEF Compared
    <2>3. ASSUME Compared', Held(bars) # {}
          PROVE  \E p \in Held(bars) : Unbroken(sessions, Held(reads[r].fetched) \union {p})
        BY <1>18, <2>2, <2>3 DEF ReadWrite, ReachInv, ReadReaches
    <2>4. TableReaches' /\ NightReaches' /\ \A s \in Readers \ {r} : ReadReaches(s)'
        BY <2>1, <2>2, <2>3, StretchWritten
    <2>5. ReadReaches(r)'
        BY <2>1, IdleHoldsNothing, SeriesTypes DEF ReadReaches, Carried, Unbroken
    <2>. QED BY <2>4, <2>5 DEF ReachInv
<1>19. ASSUME NEW r \in Readers, ReadWriteFails(r) PROVE ReachInv'
    BY <1>19, <1>idleread DEF ReadWriteFails, provider
<1>20. CASE UNCHANGED vars
    BY <1>20, ReachesSame DEF vars, ReachInv
<1>. QED
    BY <1>1, <1>2, <1>3, <1>4, <1>5, <1>6, <1>7, <1>8, <1>9, <1>10, <1>11, <1>12, <1>13,
       <1>14, <1>15, <1>16, <1>17, <1>18, <1>19, <1>20
    DEF Next, Environment, Ingest, Reading

\* Whatever the ingest and the readers fail at, whenever the provider restates and
\* wherever its history begins: as long as no bars were written beside stored ones
\* they were never compared with, no traded day is missing between two stored ones.
THEOREM VouchedHistoryHasNoHole == Spec => []VouchedNoHole
<1>1. Init => TypeOK /\ ReachInv
    BY InitTypeOK, InitReaches
<1>2. (TypeOK /\ ReachInv) /\ [Next]_vars => (TypeOK /\ ReachInv)'
    BY NextTypeOK, NextReaches
<1>3. ReachInv => VouchedNoHole
    BY DEF ReachInv, TableReaches, VouchedNoHole, NoHole, Unbroken
<1>. QED BY <1>1, <1>2, <1>3, PTL DEF Spec
=============================================================================
