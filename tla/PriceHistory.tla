--------------------------- MODULE PriceHistory ---------------------------
(***************************************************************************)
(* The stored daily price history of ONE ticker, and the three things that *)
(* touch it: the data provider, which restates a whole history after a     *)
(* split or a dividend; the nightly ingest (jobs/daily_ingest.py), which   *)
(* tops the history up and must notice a restatement; and the on-demand    *)
(* readers (routers/stocks.py::_get_quotes), which backfill what a chart   *)
(* asks for and the database does not hold.                                *)
(*                                                                         *)
(* Tickers share nothing but the semaphores of a run, so one ticker is     *)
(* enough.  A bar is abstracted to the price scale it is expressed on: the *)
(* number of restatements the provider had applied when it served the bar. *)
(* Two bars of one day agree exactly when their scales agree, which is     *)
(* what detect_adjustment finds out by comparing closes (a restatement too *)
(* small for its tolerance is no restatement here).  Left out: the rating  *)
(* snapshots' copies of the closes, the run without a database, requests   *)
(* that hit a cache, and the size bound of the backfill memo.              *)
(***************************************************************************)
EXTENDS Integers

CONSTANTS
    LastDay,            \* bound: the calendar is 1..LastDay
    MaxScale,           \* bound: the provider is on scale 1..MaxScale
    IncrementalDays,    \* _INCREMENTAL_DAYS
    GapOverlapDays,     \* _GAP_OVERLAP_DAYS
    FullHistoryDays,    \* _FULL_HISTORY_DAYS
    GapRetryDays,       \* _GAP_RETRY_DAYS
    BackfillTolerance,  \* _BACKFILL_TOLERANCE_DAYS
    Readers,            \* requests that may be inside _get_quotes
    Faults              \* which calls may fail, a subset of FaultKinds

FaultKinds == {"read", "gapspan", "fetch", "span", "refetch", "write"}

ASSUME CalendarAssumption ==
    /\ LastDay \in Nat \ {0}
    /\ MaxScale \in Nat \ {0}
    /\ IncrementalDays \in Nat
    /\ GapOverlapDays \in Nat
    /\ FullHistoryDays \in Nat
    /\ GapRetryDays \in Nat
    /\ BackfillTolerance \in Nat

ASSUME FaultsAssumption == Faults \subseteq FaultKinds

VARIABLES
    today,        \* the calendar day
    sessions,     \* the days on which the listing traded
    scale,        \* the provider's current scale
    firstServed,  \* the oldest day the provider still serves
    bars,         \* table daily_quotes: [Days -> scale], 0 where no row is stored
    retryAfter,   \* _gap_retry_after[ticker]: 0, or the day widening is due again
    attempted,    \* _backfill_attempted: the from-dates already backfilled
    night,        \* ingest_one of the running ingest, and its local variables
    reads,        \* the same for each reader
    unvouched     \* history: why a write cannot be vouched for, a subset of Slips

provider == <<today, sessions, scale, firstServed>>
vars == <<today, sessions, scale, firstServed, bars, retryAfter, attempted,
          night, reads, unvouched>>

\* Bars were written beside others they were never compared with; or beside others,
\* on a scale that the provider left after they had been compared.
Slips == {"uncompared", "overtaken"}

Days == 1..LastDay
Scales == 0..MaxScale
Series == [Days -> Scales]
NoBars == [d \in Days |-> 0]

Held(s) == {d \in Days : s[d] # 0}

\* The bars of s dated from..to (repo.get_quotes).
Window(s, from, to) == [d \in Days |-> IF from <= d /\ d <= to THEN s[d] ELSE 0]

\* What the provider serves for from..to: every traded day, all on its current
\* scale (StooqClient / YahooFinanceClient.get_daily_history).
Served(from, to) ==
    [d \in Days |-> IF d \in sessions /\ firstServed <= d /\ from <= d /\ d <= to
                    THEN scale ELSE 0]

First(s) == CHOOSE d \in Held(s) : \A e \in Held(s) : d <= e
Last(s) == CHOOSE d \in Held(s) : \A e \in Held(s) : e <= d

\* Mutant: a conflicting row is added to instead of replaced.
UpsertAdds(s, new) == [d \in Days |-> s[d] + new[d]]

\* upsert_quotes overwrites the days it is handed and never deletes one.
Upsert(s, new) == [d \in Days |-> IF new[d] # 0 THEN new[d] ELSE s[d]]

\* The days detect_adjustment can compare.
Common(stored, fetched) == Held(stored) \cap Held(fetched)

\* DEFAULT_MIN_MISMATCH = 1: one disagreeing bar is enough.
Adjusted(stored, fetched) ==
    \E d \in Common(stored, fetched) : stored[d] # fetched[d]

---------------------------------------------------------------------------
Idle == [pc |-> "idle", from |-> 0, eff |-> 0, full |-> FALSE, repairFrom |-> 0,
         stored |-> NoBars, fetched |-> NoBars, vouched |-> FALSE]

IdleRead == [pc |-> "idle", from |-> 0, to |-> 0, stored |-> NoBars,
             fetched |-> NoBars, vouched |-> FALSE]

Init ==
    /\ today = 2
    /\ sessions = {1, 2} \cap Days
    /\ scale = 1
    /\ firstServed \in {1, 2}
    /\ bars \in {NoBars, [d \in Days |-> IF d \in {1, 2} THEN 1 ELSE 0]}
    /\ retryAfter = 0
    /\ attempted = {}
    /\ night = Idle
    /\ reads = [r \in Readers |-> IdleRead]
    /\ unvouched = {}

---------------------------------------------------------------------------
(* The environment. *)

NewDay(traded) ==
    /\ today < LastDay
    /\ today' = today + 1
    /\ sessions' = IF traded THEN sessions \union {today + 1} ELSE sessions
    /\ UNCHANGED <<scale, firstServed, bars, retryAfter, attempted, night, reads, unvouched>>

\* A split or a dividend, at any moment: everything the provider serves moves to a
\* new scale.
Restate ==
    /\ scale < MaxScale
    /\ scale' = scale + 1
    /\ UNCHANGED <<today, sessions, firstServed, bars, retryAfter, attempted,
                   night, reads, unvouched>>

\* A crash or a deployment: calls in flight die, and the back-off and the
\* backfill memo, which live in the process only, are forgotten.
Restart ==
    /\ night' = Idle
    /\ reads' = [r \in Readers |-> IdleRead]
    /\ retryAfter' = 0
    /\ attempted' = {}
    /\ UNCHANGED <<provider, bars, unvouched>>

---------------------------------------------------------------------------
(* The nightly ingest of the ticker: one action per await of ingest_one. *)

GapWideningDue == retryAfter = 0 \/ today >= retryAfter

\* _do_run, behind the _running lock: picks the download window.
BeginNight(full) ==
    /\ night.pc = "idle"
    /\ LET from == today - (IF full THEN FullHistoryDays ELSE IncrementalDays)
       IN  night' = [Idle EXCEPT !.pc = "stored", !.from = from, !.eff = from, !.full = full]
    /\ UNCHANGED <<provider, bars, retryAfter, attempted, reads, unvouched>>

\* The stored bars of the window; a failed read carries on with none.
ReadStored ==
    /\ night.pc = "stored"
    /\ \E stored \in {Window(bars, night.from, LastDay)}
                       \union {s \in {NoBars} : "read" \in Faults} :
         LET gap == stored = NoBars /\ ~night.full /\ GapWideningDue
         IN  /\ night' = [night EXCEPT !.stored = stored,
                                       !.pc = IF gap THEN "span" ELSE "fetch"]
             /\ retryAfter' = IF gap THEN 0 ELSE retryAfter
    /\ UNCHANGED <<provider, bars, attempted, reads, unvouched>>

\* _widen_for_gap: where the stored history ends decides how far back to reach.
WidenForGap ==
    /\ night.pc = "span"
    /\ LET reach == Last(bars) - GapOverlapDays
           oldest == night.from + IncrementalDays - FullHistoryDays
           widened == IF reach > oldest THEN reach ELSE oldest
           widens == Held(bars) # {} /\ Last(bars) < night.from /\ widened < night.from
       IN  \/ /\ widens
              /\ night' = [night EXCEPT !.eff = widened, !.pc = "reread"]
           \/ /\ ~widens \/ "gapspan" \in Faults
              /\ night' = [night EXCEPT !.pc = "fetch"]
    /\ UNCHANGED <<provider, bars, retryAfter, attempted, reads, unvouched>>

\* The stored bars of the widened window; a failed read keeps the empty list.
ReReadStored ==
    /\ night.pc = "reread"
    /\ \E stored \in {Window(bars, night.eff, LastDay)}
                       \union {s \in {NoBars} : "read" \in Faults} :
         night' = [night EXCEPT !.stored = stored, !.pc = "fetch"]
    /\ UNCHANGED <<provider, bars, retryAfter, attempted, reads, unvouched>>

Widened == night.eff # night.from

\* The provider errors, or has nothing for the window: no write tonight, and a
\* widened fetch is not tried again for GapRetryDays (_remember_open_gap).
FetchFails ==
    /\ night.pc = "fetch"
    /\ "fetch" \in Faults \/ Served(night.eff, LastDay) = NoBars
    /\ night' = Idle
    /\ retryAfter' = IF Widened THEN today + GapRetryDays ELSE retryAfter
    /\ UNCHANGED <<provider, bars, attempted, reads, unvouched>>

\* The fetch, the gap bookkeeping and detect_adjustment, which run without an await.
Fetch ==
    /\ night.pc = "fetch"
    /\ LET fetched == Served(night.eff, LastDay)
           stored == night.stored
       IN  /\ fetched # NoBars
           /\ retryAfter' = IF ~Widened THEN retryAfter
                            ELSE IF Last(fetched) < night.from THEN today + GapRetryDays ELSE 0
           /\ night' = [night EXCEPT
                  !.fetched = fetched,
                  !.vouched = Common(stored, fetched) # {},
                  !.pc = IF Adjusted(stored, fetched) THEN "repair" ELSE "write"]
    /\ UNCHANGED <<provider, bars, attempted, reads, unvouched>>

\* _check_and_repair reads the stored span.  When that read fails the repair
\* starts the day before the first fetched bar and its length goes unchecked
\* (vouched is FALSE then, and stands for `span is None`).
RepairSpan ==
    /\ night.pc = "repair"
    /\ \/ /\ Held(bars) # {}
          /\ night' = [night EXCEPT !.repairFrom = First(bars), !.pc = "refetch"]
       \/ /\ Held(bars) = {} \/ "span" \in Faults
          /\ night' = [night EXCEPT !.repairFrom = First(night.fetched) - 1,
                                    !.vouched = FALSE, !.pc = "refetch"]
    /\ UNCHANGED <<provider, bars, retryAfter, attempted, reads, unvouched>>

\* Mutant: a rebuild shorter than the stored history is written all the same.
ReachesBackAlways(rebuilt) == rebuilt # NoBars

\* Is the rebuilt history long enough to be written?
ReachesBack(rebuilt) ==
    /\ rebuilt # NoBars
    /\ night.vouched => First(rebuilt) <= night.repairFrom

\* The second download; a failed, empty or short one writes nothing.
RepairRefused ==
    /\ night.pc = "refetch"
    /\ "refetch" \in Faults \/ ~ReachesBack(Served(night.repairFrom, LastDay))
    /\ night' = Idle
    /\ UNCHANGED <<provider, bars, retryAfter, attempted, reads, unvouched>>

RepairFetch ==
    /\ night.pc = "refetch"
    /\ LET rebuilt == Served(night.repairFrom, LastDay)
       IN  /\ ReachesBack(rebuilt)
           /\ night' = [night EXCEPT !.fetched = rebuilt, !.pc = "write"]
    /\ UNCHANGED <<provider, bars, retryAfter, attempted, reads, unvouched>>

Write ==
    /\ night.pc = "write"
    /\ bars' = Upsert(bars, night.fetched)
    /\ unvouched' = IF Held(bars) # {} /\ ~night.vouched
                    THEN unvouched \union {"uncompared"} ELSE unvouched
    /\ night' = Idle
    /\ UNCHANGED <<provider, retryAfter, attempted, reads>>

WriteFails ==
    /\ night.pc = "write"
    /\ "write" \in Faults
    /\ night' = Idle
    /\ UNCHANGED <<provider, bars, retryAfter, attempted, reads, unvouched>>

---------------------------------------------------------------------------
(* A reader: a request for from..to that misses history_cache. *)

\* It goes to the provider unless the stored bars cover the range, or were
\* already backfilled once from this date.
BeginRead(r, from, to) ==
    LET stored == Window(bars, from, to)
        covers == First(stored) - from <= BackfillTolerance
    IN  /\ reads[r].pc = "idle"
        /\ ~(Held(stored) # {} /\ (covers \/ from \in attempted))
        /\ reads' = [reads EXCEPT ![r] = [IdleRead EXCEPT
                         !.pc = "fetch", !.from = from, !.to = to, !.stored = stored]]
        /\ UNCHANGED <<provider, bars, retryAfter, attempted, night, unvouched>>

ReadFetchFails(r) ==
    /\ reads[r].pc = "fetch"
    /\ "fetch" \in Faults \/ Served(reads[r].from, reads[r].to) = NoBars
    /\ reads' = [reads EXCEPT ![r] = IdleRead]
    /\ UNCHANGED <<provider, bars, retryAfter, attempted, night, unvouched>>

\* Mutant: off by one at the oldest stored bar.
BackfillShort(stored, fetched) ==
    IF Held(stored) = {} THEN fetched
    ELSE Window(fetched, 1, First(stored) - 2)

\* Only the days older than what is stored are new.
Backfill(stored, fetched) ==
    IF Held(stored) = {} THEN fetched
    ELSE Window(fetched, 1, First(stored) - 1)

ReadFetch(r) ==
    /\ reads[r].pc = "fetch"
    /\ LET stored == reads[r].stored
           fetched == Served(reads[r].from, reads[r].to)
           new == Backfill(stored, fetched)
       IN  /\ fetched # NoBars
           /\ reads' = [reads EXCEPT ![r] =
                  IF Adjusted(stored, fetched) \/ new = NoBars THEN IdleRead
                  ELSE [@ EXCEPT !.fetched = new, !.pc = "write",
                                 !.vouched = Common(stored, fetched) # {}]]
    /\ attempted' = attempted \union {reads[r].from}
    /\ UNCHANGED <<provider, bars, retryAfter, night, unvouched>>

\* The provider has restated since it served these bars.
Outdated(fetched) == \E d \in Held(fetched) : fetched[d] # scale

ReadWrite(r) ==
    /\ reads[r].pc = "write"
    /\ bars' = Upsert(bars, reads[r].fetched)
    /\ unvouched' = unvouched \union
           {slip \in Slips :
               /\ Held(bars) # {}
               /\ slip = "uncompared" => ~reads[r].vouched
               /\ slip = "overtaken" => Outdated(reads[r].fetched)}
    /\ reads' = [reads EXCEPT ![r] = IdleRead]
    /\ UNCHANGED <<provider, retryAfter, attempted, night>>

ReadWriteFails(r) ==
    /\ reads[r].pc = "write"
    /\ "write" \in Faults
    /\ reads' = [reads EXCEPT ![r] = IdleRead]
    /\ UNCHANGED <<provider, bars, retryAfter, attempted, night, unvouched>>

---------------------------------------------------------------------------
Environment == (\E traded \in BOOLEAN : NewDay(traded)) \/ Restate \/ Restart

Ingest ==
    \/ \E full \in BOOLEAN : BeginNight(full)
    \/ ReadStored \/ WidenForGap \/ ReReadStored
    \/ FetchFails \/ Fetch
    \/ RepairSpan \/ RepairRefused \/ RepairFetch
    \/ Write \/ WriteFails

Reading ==
    \E r \in Readers :
        \/ \E from, to \in 1..LastDay : BeginRead(r, from, to)
        \/ ReadFetchFails(r) \/ ReadFetch(r) \/ ReadWrite(r) \/ ReadWriteFails(r)

Next == Environment \/ Ingest \/ Reading

Spec == Init /\ [][Next]_vars

---------------------------------------------------------------------------
(* Properties. *)

NightPC == {"idle", "stored", "span", "reread", "fetch", "repair", "refetch", "write"}

Nights == [pc : NightPC, from : Int, eff : Int, full : BOOLEAN, repairFrom : Int,
           stored : Series, fetched : Series, vouched : BOOLEAN]

Reads == [pc : {"idle", "fetch", "write"}, from : 0..LastDay, to : 0..LastDay,
          stored : Series, fetched : Series, vouched : BOOLEAN]

\* Every variable stays in its range.
TypeOK ==
    /\ today \in Nat
    /\ sessions \subseteq Days
    /\ scale \in 1..MaxScale
    /\ firstServed \in Nat
    /\ bars \in Series
    /\ retryAfter \in Nat
    /\ attempted \subseteq 0..LastDay
    /\ night \in Nights
    /\ night.pc = "repair" => Held(night.fetched) # {}
    /\ reads \in [Readers -> Reads]
    /\ unvouched \subseteq Slips

\* No two stored bars are on different price scales: no phantom crash.
OneScale == \A d, e \in Held(bars) : bars[d] = bars[e]

\* No traded day is missing between two stored ones.
NoHole ==
    \A d \in sessions : (\E e, f \in Held(bars) : e <= d /\ d <= f) => d \in Held(bars)

\* What was written can be vouched for: compared with what was there, and compared in time.
Compared == "uncompared" \notin unvouched
InStep == unvouched = {}

\* The purpose of _check_and_repair: whatever fails, and whenever the provider
\* restates, during a call of the night or of a reader or between them, the stored
\* history is on one price scale, unless bars were written that no stored bar was
\* compared with, or a reader wrote bars from before a restatement.
VouchedOneScale == InStep => OneScale

\* "Splicing the two halves is only sound while they are on the same price scale"
\* (stocks.py:841-842), which the reader tests before its last await: a prefix it
\* found to agree with the stored bars is on their scale once it is written.
PrefixesJoinTheirScale == Compared => OneScale

\* The purpose of _widen_for_gap and of the prefix backfill: as long as every
\* write overlapped what was stored, an outage leaves no hole in the series.
VouchedNoHole == Compared => NoHole

\* The inductive invariant behind VouchedOneScale.  A call in flight holds bars of one
\* scale, which the provider may have left.  What the ingest read stays as it read it; a
\* repair is under way only while the whole table is behind the provider, and then no
\* reader can both have been vouched for and be up to date.
OnOneScale(fetched) ==
    \A d \in Held(fetched) :
        /\ d \in sessions
        /\ fetched[d] <= scale
        /\ \A e \in Held(fetched) : fetched[e] = fetched[d]

TableInv ==
    /\ Held(bars) \subseteq sessions
    /\ \A d \in Held(bars) : bars[d] <= scale
    /\ VouchedOneScale

TableIsBehind == Held(bars) # {} /\ \A d \in Held(bars) : bars[d] < scale

\* What the ingest is about to write agrees with the table, or replaces all of it.
Agrees == \A d \in Held(bars), e \in Held(night.fetched) : bars[d] = night.fetched[e]
Replaces == \A d \in Held(bars) : d \in Held(night.fetched) /\ bars[d] < night.fetched[d]

NightInv ==
    /\ OnOneScale(night.fetched)
    /\ InStep => \A d \in Held(night.stored) : bars[d] = night.stored[d]
    /\ InStep /\ night.pc \in {"repair", "refetch"} => TableIsBehind
    /\ InStep /\ night.pc = "refetch" /\ night.vouched =>
           \A d \in Held(bars) : d >= night.repairFrom
    /\ InStep /\ night.pc = "write" /\ night.vouched =>
           Held(bars) # {} /\ (Agrees \/ (TableIsBehind /\ Replaces))

ReadInv(r) ==
    /\ OnOneScale(reads[r].fetched)
    /\ InStep => \A d \in Held(reads[r].stored) : bars[d] >= reads[r].stored[d]
    /\ reads[r].pc = "write" => Held(reads[r].fetched) # {}
    /\ InStep /\ reads[r].pc = "write" /\ reads[r].vouched =>
           /\ Held(bars) # {}
           /\ Outdated(reads[r].fetched) \/ \A d \in Held(bars) : bars[d] = scale

SeriesInv == TableInv /\ NightInv /\ \A r \in Readers : ReadInv(r)

\* What _check_and_repair says of a repair (its docstring): the stored history is
\* rebuilt as a whole or left alone, so a repair never splices two scales.
RepairNeverSplices == OneScale
=============================================================================
